--------------------------- MODULE SequenceLemmas ---------------------------
(***************************************************************************)
(* Lemmas about sequences on which the proofs of the modules that handle   *)
(* partitions rest: what a flattened sequence holds and in which order,    *)
(* when one sequence lists what another does, and how often.               *)
(***************************************************************************)
EXTENDS Integers, Sequences, FiniteSets, SequencesExt,
        FiniteSetTheorems, SequenceTheorems, WellFoundedInduction, TLAPS

-----------------------------------------------------------------------------
\* The elements of a sequence.
Elems(s) == {s[k] : k \in 1..Len(s)}

\* What a vector made of several vectors has in it.  FlattenSeq is a recursive
\* function on positions; the least position at which a claim about it fails does
\* for induction.
LEMMA LeastExists ==
    ASSUME NEW hits, hits \subseteq Nat, hits # {}
    PROVE  \E k \in hits : \A h \in hits : k <= h
<1>1. PICK k \in hits : \A h \in hits : ~(<<h, k>> \in OpToRel(<, Nat))
  BY NatLessThanWellFounded, WFMin
<1>2. \A h \in hits : ~(h < k)
  BY <1>1 DEF OpToRel
<1>3. QED
  BY <1>2

Unrolls(f, seqs, m) ==
    f = [i \in 1..m |-> IF i = 1 THEN seqs[i] ELSE f[i - 1] \o seqs[i]]

\* The function by which FlattenSeq is defined exists and unrolls as written.
LEMMA UnrollExists ==
    ASSUME NEW seqs, NEW n \in Nat
    PROVE  \E f : Unrolls(f, seqs, n)
<1> DEFINE bad == {m \in Nat : ~\E f : Unrolls(f, seqs, m)}
<1>1. SUFFICES ASSUME bad # {} PROVE FALSE
  OBVIOUS
<1>2. PICK m \in bad : \A h \in bad : m <= h
  BY <1>1, LeastExists
<1>3. m # 0
  <2>1. Unrolls([i \in 1..0 |-> seqs[i]], seqs, 0)
    BY DEF Unrolls
  <2>2. QED
    BY <1>2, <2>1
<1>4. m - 1 \in Nat /\ m - 1 \notin bad
  BY <1>2, <1>3
<1>5. PICK f : Unrolls(f, seqs, m - 1)
  BY <1>4
<1> DEFINE g == [i \in 1..m |-> IF i < m THEN f[i]
                                ELSE IF i = 1 THEN seqs[i] ELSE f[i - 1] \o seqs[i]]
<1>6. ASSUME NEW i \in 1..m
      PROVE  g[i] = IF i = 1 THEN seqs[i] ELSE g[i - 1] \o seqs[i]
  <2>1. CASE i < m
    <3>1. i \in 1..(m - 1) /\ g[i] = f[i]
      BY <1>2, <2>1
    <3>2. f[i] = IF i = 1 THEN seqs[i] ELSE f[i - 1] \o seqs[i]
      BY <1>5, <3>1 DEF Unrolls
    <3>3. i # 1 => g[i - 1] = f[i - 1]
      BY <1>2, <2>1
    <3>4. QED
      BY <3>1, <3>2, <3>3
  <2>2. CASE i = m
    BY <1>2, <2>2
  <2>3. QED
    BY <1>2, <2>1, <2>2
<1>7. Unrolls(g, seqs, m)
  BY <1>6 DEF Unrolls
<1>8. QED
  BY <1>2, <1>7

\* FlattenSeq is the last value of that function.
LEMMA FlattenUnrolls ==
    ASSUME NEW seqs, Len(seqs) \in Nat, Len(seqs) # 0
    PROVE  \E f : Unrolls(f, seqs, Len(seqs)) /\ FlattenSeq(seqs) = f[Len(seqs)]
<1> DEFINE n == Len(seqs)
           f == CHOOSE f : f = [i \in 1..n |-> IF i = 1 THEN seqs[i] ELSE f[i - 1] \o seqs[i]]
<1>1. \E h : h = [i \in 1..n |-> IF i = 1 THEN seqs[i] ELSE h[i - 1] \o seqs[i]]
  BY UnrollExists DEF Unrolls
<1>2. f = [i \in 1..n |-> IF i = 1 THEN seqs[i] ELSE f[i - 1] \o seqs[i]]
  BY <1>1
<1>3. FlattenSeq(seqs) = f[n]
  BY DEF FlattenSeq
<1> HIDE DEF f
<1>4. QED
  BY <1>2, <1>3 DEF Unrolls

\* The elements of a concatenation are those of its parts.
LEMMA JoinedElems ==
    ASSUME NEW T, NEW s \in Seq(T), NEW t \in Seq(T)
    PROVE  /\ s \o t \in Seq(T)
           /\ \A x : x \in Elems(s \o t) <=> x \in Elems(s) \/ x \in Elems(t)
<1>1. /\ s \o t \in Seq(T) /\ Len(s) \in Nat /\ Len(t) \in Nat /\ Len(s \o t) = Len(s) + Len(t)
      /\ \A i \in 1..(Len(s) + Len(t)) :
            (s \o t)[i] = IF i <= Len(s) THEN s[i] ELSE t[i - Len(s)]
  BY ConcatProperties
<1>2. ASSUME NEW x \in Elems(s \o t) PROVE x \in Elems(s) \/ x \in Elems(t)
  <2>1. PICK i \in 1..(Len(s) + Len(t)) : (s \o t)[i] = x
    BY <1>1 DEF Elems
  <2>2. CASE i <= Len(s)
    BY <1>1, <2>1, <2>2 DEF Elems
  <2>3. CASE ~(i <= Len(s))
    <3>1. i - Len(s) \in 1..Len(t) /\ t[i - Len(s)] = x
      BY <1>1, <2>1, <2>3
    <3>2. QED
      BY <3>1 DEF Elems
  <2>4. QED
    BY <2>2, <2>3
<1>3. ASSUME NEW x \in Elems(s) PROVE x \in Elems(s \o t)
  <2>1. PICK i \in 1..Len(s) : s[i] = x
    BY DEF Elems
  <2>2. i \in 1..Len(s \o t) /\ (s \o t)[i] = x
    BY <1>1, <2>1
  <2>3. QED
    BY <2>2 DEF Elems
<1>4. ASSUME NEW x \in Elems(t) PROVE x \in Elems(s \o t)
  <2>1. PICK i \in 1..Len(t) : t[i] = x
    BY DEF Elems
  <2>2. i + Len(s) \in 1..Len(s \o t) /\ (s \o t)[i + Len(s)] = x
    BY <1>1, <2>1
  <2>3. QED
    BY <2>2 DEF Elems
<1>5. QED
  BY <1>1, <1>2, <1>3, <1>4

\* The elements of a flattened sequence are those of its members.
LEMMA FlattenElems ==
    ASSUME NEW T, NEW seqs \in Seq(Seq(T))
    PROVE  /\ FlattenSeq(seqs) \in Seq(T)
           /\ \A x : x \in Elems(FlattenSeq(seqs))
                        <=> \E k \in 1..Len(seqs) : x \in Elems(seqs[k])
<1>1. CASE Len(seqs) = 0
  <2>1. FlattenSeq(seqs) = seqs
    BY <1>1 DEF FlattenSeq
  <2>2. seqs = <<>>
    BY <1>1, EmptySeq
  <2>3. QED
    BY <1>1, <2>1, <2>2 DEF Elems
<1>2. CASE Len(seqs) # 0
  <2>1. PICK f : Unrolls(f, seqs, Len(seqs)) /\ FlattenSeq(seqs) = f[Len(seqs)]
    BY <1>2, FlattenUnrolls
  <2> DEFINE good(m) == /\ f[m] \in Seq(T)
                        /\ \A x : x \in Elems(f[m]) <=> \E k \in 1..m : x \in Elems(seqs[k])
             bad == {m \in Nat : m \in 1..Len(seqs) /\ ~good(m)}
  <2>2. SUFFICES ASSUME bad # {} PROVE FALSE
    <3>1. Len(seqs) \in Nat /\ Len(seqs) \in 1..Len(seqs)
      BY <1>2
    <3>2. bad = {} => good(Len(seqs))
      BY <3>1
    <3>3. QED
      BY <2>1, <3>2
  <2>3. PICK m \in bad : \A h \in bad : m <= h
    <3>1. bad \subseteq Nat
      OBVIOUS
    <3> HIDE DEF bad
    <3>2. QED
      BY <2>2, <3>1, LeastExists
  <2>4. /\ m \in Nat /\ m \in 1..Len(seqs) /\ seqs[m] \in Seq(T)
        /\ f[m] = IF m = 1 THEN seqs[m] ELSE f[m - 1] \o seqs[m]
    <3>1. m \in Nat /\ m \in 1..Len(seqs)
      BY <2>3
    <3>2. f[m] = IF m = 1 THEN seqs[m] ELSE f[m - 1] \o seqs[m]
      BY ONLY <2>1, <3>1 DEF Unrolls
    <3>3. seqs[m] \in Seq(T)
      BY <3>1
    <3>4. QED
      BY <3>1, <3>2, <3>3
  <2>5. CASE m = 1
    <3>1. f[1] = seqs[1] /\ f[1] \in Seq(T)
      BY <2>4, <2>5
    <3>2. \A k \in 1..1 : k = 1
      OBVIOUS
    <3>3. good(1)
      BY <3>1, <3>2
    <3>4. QED
      BY <2>3, <2>5, <3>3
  <2>6. CASE m # 1
    <3>1. m - 1 \in Nat /\ m - 1 \in 1..Len(seqs) /\ m - 1 < m
      BY <2>4, <2>6
    <3>2. m - 1 \notin bad
      <4> HIDE DEF bad
      <4>1. QED
        BY <2>3, <2>4, <3>1
    <3>3. good(m - 1)
      BY <3>1, <3>2
    <3>4. f[m] = f[m - 1] \o seqs[m]
      BY <2>4, <2>6
    <3>5. f[m] \in Seq(T) /\ \A x : x \in Elems(f[m]) <=> x \in Elems(f[m - 1]) \/ x \in Elems(seqs[m])
      <4>1. f[m - 1] \in Seq(T)
        BY <3>3
      <4>2. QED
        BY <2>4, <3>4, <4>1, JoinedElems
    <3>6. good(m)
      <4>1. \A k \in 1..m : k \in 1..(m - 1) \/ k = m
        BY <2>4
      <4>2. \A k \in 1..(m - 1) : k \in 1..m
        BY <2>4
      <4>3. m \in 1..m
        BY <2>4
      <4>4. QED
        BY <3>3, <3>5, <4>1, <4>2, <4>3
    <3>7. QED
      BY <2>3, <3>6
  <2>7. QED
    BY <2>5, <2>6
<1>3. QED
  BY <1>1, <1>2

-----------------------------------------------------------------------------
\* A sequence, whatever its elements are.
IsList(s) == Len(s) \in Nat /\ s = [i \in 1..Len(s) |-> s[i]]

\* Sequences over a set are lists with elements of the set.
LEMMA ListOfSeq ==
    ASSUME NEW T, NEW s \in Seq(T)
    PROVE  IsList(s) /\ \A i \in 1..Len(s) : s[i] \in T
BY LenProperties, ElementOfSeq DEF IsList

\* Lists with elements of a set are sequences over it.
LEMMA SeqOfList ==
    ASSUME NEW T, NEW s, IsList(s), \A i \in 1..Len(s) : s[i] \in T
    PROVE  s \in Seq(T)
<1>1. [i \in 1..Len(s) |-> s[i]] \in Seq(T)
  BY IsASeq DEF IsList
<1>2. QED
  BY <1>1 DEF IsList

\* A function on an interval is a list.
LEMMA FunctionIsList ==
    ASSUME NEW n \in Nat, NEW s, DOMAIN s = 1..n, s = [i \in 1..n |-> s[i]]
    PROVE  IsList(s) /\ Len(s) = n
<1> DEFINE T == {s[i] : i \in 1..n}
<1>1. [i \in 1..n |-> s[i]] \in Seq(T)
  BY IsASeq
<1>2. s \in Seq(T)
  BY <1>1
<1> HIDE DEF T
<1>3. Len(s) = n
  BY <1>2, LenProperties
<1>4. QED
  BY <1>3 DEF IsList

\* Lists with the same elements in the same order are equal.
LEMMA ListEqual ==
    ASSUME NEW s, NEW t, IsList(s), IsList(t), Len(s) = Len(t),
           \A i \in 1..Len(s) : s[i] = t[i]
    PROVE  s = t
BY DEF IsList

\* What is appended to a list, or to a list of lists, comes last.
LEMMA ConcatIsList ==
    ASSUME NEW s, NEW t, IsList(s), IsList(t)
    PROVE  /\ IsList(s \o t) /\ Len(s \o t) = Len(s) + Len(t)
           /\ \A i \in 1..(Len(s) + Len(t)) :
                 (s \o t)[i] = IF i <= Len(s) THEN s[i] ELSE t[i - Len(s)]
<1> DEFINE T == Elems(s) \cup Elems(t)
<1>1. s \in Seq(T) /\ t \in Seq(T)
  <2>1. /\ \A i \in 1..Len(s) : s[i] \in T
        /\ \A i \in 1..Len(t) : t[i] \in T
    BY DEF Elems
  <2> HIDE DEF T
  <2>2. QED
    BY <2>1, SeqOfList
<1> HIDE DEF T
<1>2. QED
  BY <1>1, ConcatProperties, ListOfSeq

\* What is appended to a list is its last element.
LEMMA AppendIsList ==
    ASSUME NEW s, NEW x, IsList(s)
    PROVE  /\ IsList(Append(s, x)) /\ Len(Append(s, x)) = Len(s) + 1
           /\ \A i \in 1..Len(s) : Append(s, x)[i] = s[i]
           /\ Append(s, x)[Len(s) + 1] = x
<1> DEFINE T == Elems(s) \cup {x}
<1>1. s \in Seq(T) /\ x \in T
  <2>1. \A i \in 1..Len(s) : s[i] \in T
    BY DEF Elems
  <2>2. x \in T
    OBVIOUS
  <2> HIDE DEF T
  <2>3. QED
    BY <2>1, <2>2, SeqOfList
<1> HIDE DEF T
<1>2. QED
  <2>1. Append(s, x) \in Seq(T) /\ Len(Append(s, x)) = Len(s) + 1
    BY <1>1, AppendProperties
  <2>2. /\ \A i \in 1..Len(s) : Append(s, x)[i] = s[i]
        /\ Append(s, x)[Len(s) + 1] = x
    BY <1>1, AppendProperties
  <2>3. IsList(Append(s, x))
    BY <2>1, ListOfSeq
  <2>4. QED
    BY <2>1, <2>2, <2>3

-----------------------------------------------------------------------------
\* s lists the values that g gives to the elements of E, in the order of L: the
\* p-th is that of element b[p].
Enumerates(s, b, E, g, L) ==
    /\ IsList(s) /\ b \in [1..Len(s) -> E]
    /\ \A e \in E : \E p \in 1..Len(s) : b[p] = e
    /\ \A p, q \in 1..Len(s) : p < q => <<b[p], b[q]>> \in L
    /\ \A p \in 1..Len(s) : s[p] = g[b[p]]

Asymmetric(L) == \A x, y : <<x, y>> \in L => <<y, x>> \notin L

\* The order of the numbers, and of pairs of numbers.
Less == {z \in Nat \X Nat : z[1] < z[2]}
LexLess == {z \in (Nat \X Nat) \X (Nat \X Nat) :
                z[1][1] < z[2][1] \/ (z[1][1] = z[2][1] /\ z[1][2] < z[2][2])}

\* Both are orders.
LEMMA LessAsymmetric == Asymmetric(Less) /\ Asymmetric(LexLess)
BY DEF Asymmetric, Less, LexLess

\* In an enumeration the order of places is that of the elements.
LEMMA EnumOrder ==
    ASSUME NEW s, NEW b, NEW E, NEW g, NEW L, Enumerates(s, b, E, g, L), Asymmetric(L)
    PROVE  \A p, q \in 1..Len(s) : /\ <<b[p], b[q]>> \in L => p < q
                                   /\ b[p] = b[q] => p = q
<1> SUFFICES ASSUME NEW p \in 1..Len(s), NEW q \in 1..Len(s)
             PROVE  /\ <<b[p], b[q]>> \in L => p < q
                    /\ b[p] = b[q] => p = q
  OBVIOUS
<1>1. p < q \/ q < p \/ p = q
  BY DEF Enumerates, IsList
<1>2. p < q => <<b[p], b[q]>> \in L
  BY DEF Enumerates
<1>3. q < p => <<b[q], b[p]>> \in L
  BY DEF Enumerates
<1>4. QED
  BY <1>1, <1>2, <1>3 DEF Asymmetric

\* An enumeration of some elements, then one of others that come after them.
LEMMA ConcatEnumerates ==
    ASSUME NEW s, NEW b, NEW E, NEW t, NEW c, NEW F, NEW g, NEW L,
           Enumerates(s, b, E, g, L), Enumerates(t, c, F, g, L),
           \A e \in E, f \in F : <<e, f>> \in L
    PROVE  \E d : Enumerates(s \o t, d, E \cup F, g, L)
<1> DEFINE m == Len(s)
           n == Len(t)
           d == [p \in 1..(m + n) |-> IF p <= m THEN b[p] ELSE c[p - m]]
<1>1. /\ m \in Nat /\ n \in Nat /\ IsList(s \o t) /\ Len(s \o t) = m + n
      /\ \A i \in 1..(m + n) : (s \o t)[i] = IF i <= m THEN s[i] ELSE t[i - m]
  <2>1. IsList(s) /\ IsList(t)
    BY DEF Enumerates
  <2>2. m \in Nat /\ n \in Nat
    BY <2>1 DEF IsList
  <2>3. QED
    BY <2>1, <2>2, ConcatIsList
<1>2. /\ \A p \in 1..m : b[p] \in E /\ s[p] = g[b[p]]
      /\ \A p \in 1..n : c[p] \in F /\ t[p] = g[c[p]]
  BY DEF Enumerates
<1>3. d \in [1..(m + n) -> E \cup F]
  <2>1. ASSUME NEW p \in 1..(m + n) PROVE d[p] \in E \cup F
    <3>1. p <= m => p \in 1..m
      BY <1>1
    <3>2. ~(p <= m) => p - m \in 1..n
      BY <1>1
    <3>3. QED
      BY <1>2, <3>1, <3>2
  <2>2. QED
    BY <2>1
<1>4. ASSUME NEW e \in E \cup F PROVE \E p \in 1..(m + n) : d[p] = e
  <2>1. CASE e \in E
    <3>1. PICK p \in 1..m : b[p] = e
      BY <2>1 DEF Enumerates
    <3>2. p \in 1..(m + n) /\ d[p] = e
      BY <1>1, <3>1
    <3>3. QED
      BY <3>2
  <2>2. CASE e \in F
    <3>1. PICK p \in 1..n : c[p] = e
      BY <2>2 DEF Enumerates
    <3>2. /\ p + m \in 1..(m + n) /\ ~(p + m <= m) /\ (p + m) - m = p
      BY <1>1
    <3>3. d[p + m] = e
      BY <3>1, <3>2
    <3>4. QED
      BY <3>2, <3>3
  <2>3. QED
    BY <2>1, <2>2
<1>5. ASSUME NEW p \in 1..(m + n), NEW q \in 1..(m + n), p < q
      PROVE  <<d[p], d[q]>> \in L
  <2>1. CASE q <= m
    <3>1. p \in 1..m /\ q \in 1..m /\ p <= m
      BY <1>1, <1>5, <2>1
    <3>2. d[p] = b[p] /\ d[q] = b[q]
      BY <2>1, <3>1
    <3>3. QED
      BY <1>5, <3>1, <3>2 DEF Enumerates
  <2>2. CASE p <= m /\ ~(q <= m)
    <3>1. p \in 1..m /\ q - m \in 1..n
      BY <1>1, <2>2
    <3>2. d[p] = b[p] /\ d[q] = c[q - m]
      BY <2>2
    <3>3. QED
      BY <1>2, <3>1, <3>2
  <2>3. CASE ~(p <= m) /\ ~(q <= m)
    <3>1. p - m \in 1..n /\ q - m \in 1..n /\ p - m < q - m
      BY <1>1, <1>5, <2>3
    <3>2. d[p] = c[p - m] /\ d[q] = c[q - m]
      BY <2>3
    <3>3. QED
      BY <3>1, <3>2 DEF Enumerates
  <2>4. QED
    BY <1>1, <1>5, <2>1, <2>2, <2>3
<1>6. ASSUME NEW p \in 1..(m + n) PROVE (s \o t)[p] = g[d[p]]
  <2>1. CASE p <= m
    <3>1. p \in 1..m /\ d[p] = b[p] /\ (s \o t)[p] = s[p]
      BY <1>1, <2>1
    <3>2. QED
      BY <1>2, <3>1
  <2>2. CASE ~(p <= m)
    <3>1. p - m \in 1..n /\ d[p] = c[p - m] /\ (s \o t)[p] = t[p - m]
      BY <1>1, <2>2
    <3>2. QED
      BY <1>2, <3>1
  <2>3. QED
    BY <2>1, <2>2
<1> HIDE DEF d
<1>7. Enumerates(s \o t, d, E \cup F, g, L)
  BY <1>1, <1>3, <1>4, <1>5, <1>6 DEF Enumerates
<1>8. QED
  BY <1>7

\* A list of lists, and the pairs of a place in it and a place in the list there.
IsLists(ss) == IsList(ss) /\ \A k \in 1..Len(ss) : IsList(ss[k])
Places(ss, m) == {x \in Nat \X Nat : x[1] \in 1..m /\ x[2] \in 1..Len(ss[x[1]])}
AtPlace(ss) == [x \in Nat \X Nat |-> ss[x[1]][x[2]]]

\* One list of them, at its place.
LEMMA ListEnumerates ==
    ASSUME NEW ss, IsLists(ss), NEW m \in 1..Len(ss)
    PROVE  \E b : Enumerates(ss[m], b, {x \in Places(ss, m) : x[1] = m}, AtPlace(ss), LexLess)
<1> DEFINE n == Len(ss[m])
           E == {x \in Places(ss, m) : x[1] = m}
           b == [p \in 1..n |-> <<m, p>>]
<1>1. IsList(ss[m]) /\ n \in Nat /\ m \in Nat /\ m \in 1..m
  BY DEF IsLists, IsList
<1>2. ASSUME NEW p \in 1..n
      PROVE  b[p] \in E /\ ss[m][p] = AtPlace(ss)[b[p]]
  <2>1. p \in Nat /\ <<m, p>> \in Nat \X Nat
    BY <1>1
  <2>2. <<m, p>> \in E
    BY <1>1, <2>1 DEF Places
  <2>3. QED
    BY <2>1, <2>2 DEF AtPlace
<1>3. ASSUME NEW e \in E PROVE \E p \in 1..n : b[p] = e
  <2>1. e \in Nat \X Nat /\ e[1] = m /\ e[2] \in 1..n
    BY DEF Places
  <2>2. b[e[2]] = e
    BY <2>1
  <2>3. QED
    BY <2>1, <2>2
<1>4. ASSUME NEW p \in 1..n, NEW q \in 1..n, p < q PROVE <<b[p], b[q]>> \in LexLess
  BY <1>1, <1>4 DEF LexLess
<1>5. b \in [1..n -> E]
  BY <1>2
<1> HIDE DEF b, E
<1>6. Enumerates(ss[m], b, E, AtPlace(ss), LexLess)
  BY <1>1, <1>2, <1>3, <1>4, <1>5 DEF Enumerates
<1>7. QED
  BY <1>6 DEF E

\* FlattenSeq enumerates the places of its lists, first by list, then within it.
LEMMA FlattenEnumerates ==
    ASSUME NEW ss, IsLists(ss)
    PROVE  \E b : Enumerates(FlattenSeq(ss), b, Places(ss, Len(ss)), AtPlace(ss), LexLess)
<1> DEFINE n == Len(ss)
<1>1. IsList(ss) /\ n \in Nat
  BY DEF IsLists, IsList
<1>2. CASE n = 0
  <2>1. FlattenSeq(ss) = ss
    BY <1>2 DEF FlattenSeq
  <2>2. Places(ss, n) = {}
    BY <1>2 DEF Places
  <2>3. Enumerates(ss, [p \in 1..0 |-> 0], {}, AtPlace(ss), LexLess)
    BY <1>1, <1>2 DEF Enumerates
  <2>4. QED
    BY <2>1, <2>2, <2>3
<1>3. CASE n # 0
  <2>1. PICK f : Unrolls(f, ss, n) /\ FlattenSeq(ss) = f[n]
    BY <1>1, <1>3, FlattenUnrolls
  <2> DEFINE good(m) == \E b : Enumerates(f[m], b, Places(ss, m), AtPlace(ss), LexLess)
             bad == {m \in Nat : m \in 1..n /\ ~good(m)}
  <2>2. SUFFICES ASSUME bad # {} PROVE FALSE
    <3>1. n \in Nat /\ n \in 1..n
      BY <1>1, <1>3
    <3>2. bad = {} => good(n)
      BY <3>1
    <3>3. QED
      BY <2>1, <3>2
  <2>3. PICK m \in bad : \A h \in bad : m <= h
    <3>1. bad \subseteq Nat
      OBVIOUS
    <3> HIDE DEF bad
    <3>2. QED
      BY <2>2, <3>1, LeastExists
  <2>4. m \in Nat /\ m \in 1..n /\ ~good(m)
    BY <2>3
  <2>5. f[m] = IF m = 1 THEN ss[m] ELSE f[m - 1] \o ss[m]
    BY ONLY <2>1, <2>4 DEF Unrolls
  <2> DEFINE last == {x \in Places(ss, m) : x[1] = m}
  <2>6. PICK c : Enumerates(ss[m], c, last, AtPlace(ss), LexLess)
    BY <2>4, ListEnumerates
  <2>7. CASE m = 1
    <3>1. last = Places(ss, m)
      BY <2>7 DEF Places
    <3>2. QED
      BY <2>4, <2>5, <2>6, <2>7, <3>1
  <2>8. CASE m # 1
    <3>1. m - 1 \in Nat /\ m - 1 \in 1..n /\ m - 1 < m
      BY <1>1, <2>4, <2>8
    <3>2. m - 1 \notin bad
      <4> HIDE DEF bad
      <4>1. QED
        BY <2>3, <2>4, <3>1
    <3>3. PICK b : Enumerates(f[m - 1], b, Places(ss, m - 1), AtPlace(ss), LexLess)
      BY <3>1, <3>2
    <3>4. Places(ss, m - 1) \cup last = Places(ss, m)
      BY <2>4, <3>1 DEF Places
    <3>5. \A x \in Places(ss, m - 1), y \in last : <<x, y>> \in LexLess
      BY <2>4, <3>1 DEF Places, LexLess
    <3>6. \E d : Enumerates(f[m - 1] \o ss[m], d, Places(ss, m), AtPlace(ss), LexLess)
      <4> HIDE DEF last, bad
      <4>1. \E d : Enumerates(f[m - 1] \o ss[m], d, Places(ss, m - 1) \cup last,
                             AtPlace(ss), LexLess)
        BY ONLY <2>6, <3>3, <3>5, ConcatEnumerates
      <4>2. QED
        BY <3>4, <4>1
    <3>7. QED
      BY <2>4, <2>5, <2>8, <3>6
  <2>9. QED
    BY <2>7, <2>8
<1>4. QED
  BY <1>2, <1>3

\* An enumeration of the elements of D is one of those of E when c takes one to
\* the other in order and g values them alike.
LEMMA Transport ==
    ASSUME NEW s, NEW b, NEW D, NEW f, NEW M, Enumerates(s, b, D, f, M),
           NEW E, NEW g, NEW L, NEW c \in [D -> E],
           \A e \in E : \E d \in D : c[d] = e,
           \A d, e \in D : <<d, e>> \in M => <<c[d], c[e]>> \in L,
           \A d \in D : f[d] = g[c[d]]
    PROVE  Enumerates(s, [p \in 1..Len(s) |-> c[b[p]]], E, g, L)
<1> DEFINE a == [p \in 1..Len(s) |-> c[b[p]]]
<1>1. \A p \in 1..Len(s) : b[p] \in D /\ a[p] = c[b[p]] /\ s[p] = f[b[p]]
  BY DEF Enumerates
<1>2. a \in [1..Len(s) -> E]
  BY <1>1
<1>3. ASSUME NEW e \in E PROVE \E p \in 1..Len(s) : a[p] = e
  <2>1. PICK d \in D : c[d] = e
    OBVIOUS
  <2>2. PICK p \in 1..Len(s) : b[p] = d
    BY DEF Enumerates
  <2>3. QED
    BY <1>1, <2>1, <2>2
<1>4. ASSUME NEW p \in 1..Len(s), NEW q \in 1..Len(s), p < q PROVE <<a[p], a[q]>> \in L
  <2>1. <<b[p], b[q]>> \in M
    BY <1>4 DEF Enumerates
  <2>2. QED
    BY <1>1, <2>1
<1>5. \A p \in 1..Len(s) : s[p] = g[a[p]]
  BY <1>1
<1>6. IsList(s)
  BY DEF Enumerates
<1> HIDE DEF a
<1>7. Enumerates(s, a, E, g, L)
  BY <1>2, <1>3, <1>4, <1>5, <1>6 DEF Enumerates
<1>8. QED
  BY <1>7 DEF a

\* What one list becomes when each of its elements turns into a list of its own.
Expansions(E, x) == {z \in E \X Nat : z[2] \in 1..Len(x[z[1]])}
AtExpansion(E, x) == [z \in E \X Nat |-> x[z[1]][z[2]]]
LexOver(E, L) == {z \in (E \X Nat) \X (E \X Nat) :
                     \/ <<z[1][1], z[2][1]>> \in L
                     \/ z[1][1] = z[2][1] /\ z[1][2] < z[2][2]}

\* Its order is one when that of the list is.
LEMMA LexOverAsymmetric ==
    ASSUME NEW E, NEW L, Asymmetric(L)
    PROVE  Asymmetric(LexOver(E, L))
BY DEF Asymmetric, LexOver

\* Flattening enumerates the expansions in the order of the list.
LEMMA ExpandEnumerates ==
    ASSUME NEW s, NEW b, NEW E, NEW g, NEW L, NEW F, NEW x, Enumerates(s, b, E, g, L),
           E \subseteq F, NEW ss, IsLists(ss), Len(ss) = Len(s),
           \A p \in 1..Len(s) : ss[p] = x[b[p]]
    PROVE  \E c : Enumerates(FlattenSeq(ss), c, Expansions(E, x), AtExpansion(F, x),
                            LexOver(F, L))
<1> DEFINE n == Len(s)
           D == Places(ss, n)
           c == [d \in D |-> <<b[d[1]], d[2]>>]
<1>1. n \in Nat /\ IsList(s)
  BY DEF Enumerates, IsList
<1>2. PICK a : Enumerates(FlattenSeq(ss), a, D, AtPlace(ss), LexLess)
  BY FlattenEnumerates
<1>3. ASSUME NEW d \in D
      PROVE  /\ d \in Nat \X Nat /\ d[1] \in 1..n /\ d[2] \in 1..Len(ss[d[1]])
             /\ b[d[1]] \in E /\ ss[d[1]] = x[b[d[1]]]
             /\ c[d] = <<b[d[1]], d[2]>> /\ c[d] \in Expansions(E, x)
             /\ AtPlace(ss)[d] = AtExpansion(F, x)[c[d]]
  <2>1. d \in Nat \X Nat /\ d[1] \in 1..n /\ d[2] \in 1..Len(ss[d[1]]) /\ d[2] \in Nat
    BY DEF Places
  <2>2. b[d[1]] \in E /\ ss[d[1]] = x[b[d[1]]]
    BY <2>1 DEF Enumerates
  <2>3. c[d] = <<b[d[1]], d[2]>>
    OBVIOUS
  <2>4. c[d] \in E \X Nat /\ c[d] \in F \X Nat /\ c[d][1] = b[d[1]] /\ c[d][2] = d[2]
    BY <2>1, <2>2, <2>3
  <2>5. c[d] \in Expansions(E, x)
    BY <2>1, <2>2, <2>4 DEF Expansions
  <2>6. AtPlace(ss)[d] = AtExpansion(F, x)[c[d]]
    BY <2>1, <2>2, <2>4 DEF AtPlace, AtExpansion
  <2>7. QED
    BY <2>1, <2>2, <2>3, <2>5, <2>6
<1>4. ASSUME NEW e \in Expansions(E, x) PROVE \E d \in D : c[d] = e
  <2>1. e \in E \X Nat /\ e[1] \in E /\ e[2] \in Nat /\ e[2] \in 1..Len(x[e[1]])
    BY DEF Expansions
  <2>2. PICK p \in 1..n : b[p] = e[1]
    BY <2>1 DEF Enumerates
  <2>3. p \in Nat /\ ss[p] = x[e[1]]
    BY <2>2
  <2>4. <<p, e[2]>> \in D
    BY <2>1, <2>2, <2>3 DEF Places
  <2>5. c[<<p, e[2]>>] = e
    BY <2>1, <2>2, <2>4
  <2>6. QED
    BY <2>4, <2>5
<1>5. ASSUME NEW d \in D, NEW e \in D, <<d, e>> \in LexLess
      PROVE  <<c[d], c[e]>> \in LexOver(F, L)
  <2>1. d[1] < e[1] \/ (d[1] = e[1] /\ d[2] < e[2])
    BY <1>3, <1>5 DEF LexLess
  <2>2. d[1] < e[1] => <<b[d[1]], b[e[1]]>> \in L
    BY <1>3 DEF Enumerates
  <2>3. /\ c[d] \in F \X Nat /\ c[e] \in F \X Nat
        /\ c[d][1] = b[d[1]] /\ c[d][2] = d[2] /\ c[e][1] = b[e[1]] /\ c[e][2] = e[2]
    BY <1>3
  <2>4. QED
    BY <2>1, <2>2, <2>3 DEF LexOver
<1>6. c \in [D -> Expansions(E, x)]
  BY <1>3
<1> HIDE DEF c, D
<1>7. Enumerates(FlattenSeq(ss), [p \in 1..Len(FlattenSeq(ss)) |-> c[a[p]]],
                 Expansions(E, x), AtExpansion(F, x), LexOver(F, L))
  BY SMTT(30), <1>2, <1>3, <1>4, <1>5, <1>6, Transport
<1>8. QED
  BY <1>7

-----------------------------------------------------------------------------
\* u is the part of s at the places in I.
Picks(u, s, I) == \E b : Enumerates(u, b, I, s, Less)

\* Of two lists of values of g in the order of L, one with the elements Y of X,
\* the first is the part of the second at the places of Y.
LEMMA PicksOfEnumerations ==
    ASSUME NEW g, NEW L, Asymmetric(L), NEW X, NEW Y, Y \subseteq X,
           NEW s, NEW b, Enumerates(s, b, X, g, L),
           NEW u, NEW c, Enumerates(u, c, Y, g, L)
    PROVE  Picks(u, s, {p \in 1..Len(s) : b[p] \in Y})
<1> DEFINE n == Len(s)
           I == {p \in 1..n : b[p] \in Y}
           at == [y \in Y |-> CHOOSE p \in 1..n : b[p] = y]
<1>1. n \in Nat /\ IsList(u) /\ Len(u) \in Nat
  BY DEF Enumerates, IsList
<1>2. ASSUME NEW y \in Y PROVE at[y] \in I /\ b[at[y]] = y /\ g[y] = s[at[y]]
  <2>1. \E p \in 1..n : b[p] = y
    BY DEF Enumerates
  <2>2. at[y] \in 1..n /\ b[at[y]] = y
    BY <2>1
  <2>3. QED
    BY <2>2 DEF Enumerates
<1>3. ASSUME NEW p \in I PROVE \E y \in Y : at[y] = p
  <2>1. b[p] \in Y /\ p \in 1..n
    OBVIOUS
  <2>2. b[at[b[p]]] = b[p] /\ at[b[p]] \in 1..n
    BY <1>2, <2>1
  <2> HIDE DEF at
  <2>3. at[b[p]] = p
    BY <2>1, <2>2, EnumOrder
  <2>4. QED
    BY <2>1, <2>3
<1>4. ASSUME NEW y \in Y, NEW z \in Y, <<y, z>> \in L PROVE <<at[y], at[z]>> \in Less
  <2>1. at[y] \in 1..n /\ at[z] \in 1..n /\ <<b[at[y]], b[at[z]]>> \in L
    BY <1>2, <1>4
  <2> HIDE DEF at
  <2>2. at[y] < at[z]
    BY <2>1, EnumOrder
  <2>3. QED
    BY <2>1, <2>2 DEF Less
<1>5. at \in [Y -> I]
  BY <1>2
<1> HIDE DEF at, I
<1>6. Enumerates(u, [p \in 1..Len(u) |-> at[c[p]]], I, s, Less)
  BY <1>2, <1>3, <1>4, <1>5, Transport
<1>7. QED
  BY <1>6 DEF Picks, I

\* The part of a list with all of its places is the list.
LEMMA PicksAll ==
    ASSUME NEW s, IsList(s)
    PROVE  Enumerates(s, [p \in 1..Len(s) |-> p], 1..Len(s), s, Less)
BY DEF Enumerates, IsList, Less

\* An increasing way through 1..n, onto 1..m.
Climbs(f, n, m) ==
    /\ n \in Nat /\ m \in Nat /\ \A p \in 1..n : f[p] \in 1..m
    /\ \A p, q \in 1..n : p < q => f[p] < f[q]
    /\ \A q \in 1..m : \E p \in 1..n : f[p] = q

\* It leaves nothing out.
LEMMA IncreasingIsIdentity ==
    ASSUME NEW n, NEW m, NEW f, Climbs(f, n, m)
    PROVE  \A p \in 1..n : f[p] = p
<1> USE DEF Climbs
<1> DEFINE bad == {p \in Nat : p \in 1..n /\ f[p] # p}
<1>1. SUFFICES ASSUME bad # {} PROVE FALSE
  <2>1. ASSUME bad = {}, NEW p \in 1..n PROVE f[p] = p
    <3>1. p \in Nat
      OBVIOUS
    <3>2. QED
      BY <2>1, <3>1
  <2>2. QED
    BY <2>1
<1>2. PICK p \in bad : \A h \in bad : p <= h
  <2>1. bad \subseteq Nat
    OBVIOUS
  <2> HIDE DEF bad
  <2>2. QED
    BY <1>1, <2>1, LeastExists
<1>3. p \in 1..n /\ f[p] # p /\ f[p] \in 1..m /\ f[p] \in Nat /\ p \in Nat
  OBVIOUS
<1>4. \A q \in 1..n : q < p => f[q] = q
  <2>1. SUFFICES ASSUME NEW q \in 1..n, q < p, f[q] # q PROVE FALSE
    OBVIOUS
  <2>2. q \in bad
    BY <2>1
  <2> HIDE DEF bad
  <2>3. QED
    BY <1>2, <1>3, <2>1, <2>2
<1>5. CASE f[p] < p
  <2>1. f[p] \in 1..n
    BY <1>3, <1>5
  <2>2. f[f[p]] = f[p]
    BY <1>4, <1>5, <2>1
  <2>3. QED
    BY <1>3, <1>5, <2>1, <2>2
<1>6. CASE p < f[p]
  <2>1. p \in 1..m
    BY <1>3, <1>6
  <2>2. PICK q \in 1..n : f[q] = p
    BY <2>1
  <2>3. q < p => f[q] = q
    BY <1>4
  <2>4. p < q => f[p] < f[q]
    BY <1>3
  <2>5. QED
    BY <1>3, <1>6, <2>2, <2>3, <2>4
<1>7. QED
  BY <1>3, <1>5, <1>6

\* There is one list of the values of g in the order of L.
LEMMA EnumerationUnique ==
    ASSUME NEW g, NEW L, Asymmetric(L), NEW E,
           NEW s, NEW b, Enumerates(s, b, E, g, L),
           NEW t, NEW c, Enumerates(t, c, E, g, L)
    PROVE  s = t
<1>1. Picks(t, s, {p \in 1..Len(s) : b[p] \in E})
  BY PicksOfEnumerations
<1>2. {p \in 1..Len(s) : b[p] \in E} = 1..Len(s)
  BY DEF Enumerates
<1>3. PICK f : Enumerates(t, f, 1..Len(s), s, Less)
  BY <1>1, <1>2 DEF Picks
<1>4. Len(s) \in Nat /\ Len(t) \in Nat /\ IsList(s) /\ IsList(t)
  BY DEF Enumerates, IsList
<1>5. /\ f \in [1..Len(t) -> 1..Len(s)]
      /\ \A p, q \in 1..Len(t) : p < q => f[p] < f[q]
      /\ \A q \in 1..Len(s) : \E p \in 1..Len(t) : f[p] = q
      /\ \A p \in 1..Len(t) : t[p] = s[f[p]]
  BY <1>3 DEF Enumerates, Less
<1>6. \A p \in 1..Len(t) : f[p] = p
  <2>1. Climbs(f, Len(t), Len(s))
    BY <1>4, <1>5 DEF Climbs
  <2>2. QED
    BY <2>1, IncreasingIsIdentity
<1>7. Len(s) = Len(t)
  <2>1. \A p \in 1..Len(t) : p \in 1..Len(s)
    BY <1>5, <1>6
  <2>2. \A p \in 1..Len(s) : p \in 1..Len(t)
    BY <1>5, <1>6
  <2>3. Len(t) # 0 => Len(t) \in 1..Len(s)
    BY <1>4, <2>1
  <2>4. Len(s) # 0 => Len(s) \in 1..Len(t)
    BY <1>4, <2>2
  <2>5. QED
    BY <1>4, <2>3, <2>4
<1>8. QED
  BY <1>4, <1>5, <1>6, <1>7, ListEqual

\* Any part of a list is one list.
LEMMA PicksUnique ==
    ASSUME NEW s, NEW I, NEW u, NEW v, Picks(u, s, I), Picks(v, s, I)
    PROVE  u = v
BY EnumerationUnique, LessAsymmetric DEF Picks

-----------------------------------------------------------------------------
\* s lists the values that g gives to the elements of E, each once.
ListedBy(s, b, E, g) ==
    /\ IsList(s) /\ b \in [1..Len(s) -> E]
    /\ \A e \in E : \E p \in 1..Len(s) : b[p] = e
    /\ \A p, q \in 1..Len(s) : b[p] = b[q] => p = q
    /\ \A p \in 1..Len(s) : s[p] = g[b[p]]
Lists(s, E, g) == \E b : ListedBy(s, b, E, g)

\* An enumeration does.
LEMMA EnumerationLists ==
    ASSUME NEW s, NEW b, NEW E, NEW g, NEW L, Enumerates(s, b, E, g, L), Asymmetric(L)
    PROVE  ListedBy(s, b, E, g)
<1>1. \A p, q \in 1..Len(s) : b[p] = b[q] => p = q
  BY ZenonT(60), EnumOrder
<1>2. QED
  BY <1>1 DEF Enumerates, ListedBy

\* A part of a list does.
LEMMA PicksLists ==
    ASSUME NEW s, NEW I, NEW u, Picks(u, s, I)
    PROVE  Lists(u, I, s)
BY EnumerationLists, LessAsymmetric DEF Picks, Lists

\* Lists of D are lists of E when c pairs the elements and g values them alike.
LEMMA ListsTransport ==
    ASSUME NEW s, NEW D, NEW f, Lists(s, D, f), NEW E, NEW g, NEW c \in [D -> E],
           \A e \in E : \E d \in D : c[d] = e,
           \A d, e \in D : c[d] = c[e] => d = e,
           \A d \in D : f[d] = g[c[d]]
    PROVE  Lists(s, E, g)
<1>1. PICK b : ListedBy(s, b, D, f)
  BY DEF Lists
<1> DEFINE a == [p \in 1..Len(s) |-> c[b[p]]]
<1>2. \A p \in 1..Len(s) : b[p] \in D /\ a[p] = c[b[p]] /\ s[p] = f[b[p]]
  BY <1>1 DEF ListedBy
<1>3. a \in [1..Len(s) -> E]
  BY <1>2
<1>4. ASSUME NEW e \in E PROVE \E p \in 1..Len(s) : a[p] = e
  <2>1. PICK d \in D : c[d] = e
    OBVIOUS
  <2>2. PICK p \in 1..Len(s) : b[p] = d
    BY <1>1 DEF ListedBy
  <2>3. QED
    BY <1>2, <2>1, <2>2
<1>5. ASSUME NEW p \in 1..Len(s), NEW q \in 1..Len(s), a[p] = a[q] PROVE p = q
  <2>1. b[p] = b[q]
    BY <1>2, <1>5
  <2>2. QED
    BY <1>1, <2>1 DEF ListedBy
<1>6. \A p \in 1..Len(s) : s[p] = g[a[p]]
  BY <1>2
<1>7. IsList(s)
  BY <1>1 DEF ListedBy
<1> HIDE DEF a
<1>8. ListedBy(s, a, E, g)
  BY <1>3, <1>4, <1>5, <1>6, <1>7 DEF ListedBy
<1>9. QED
  BY <1>8 DEF Lists

\* Lists of disjoint sets, one after the other, list their union.
LEMMA FlattenLists ==
    ASSUME NEW ss, IsLists(ss), NEW F, NEW g,
           \A k \in 1..Len(ss) : Lists(ss[k], F[k], g),
           \A j, k \in 1..Len(ss) : \A e : e \in F[j] /\ e \in F[k] => j = k,
           NEW E, \A e : e \in E <=> \E k \in 1..Len(ss) : e \in F[k]
    PROVE  Lists(FlattenSeq(ss), E, g)
<1> DEFINE n == Len(ss)
           D == Places(ss, n)
           B == [k \in 1..n |-> CHOOSE b : ListedBy(ss[k], b, F[k], g)]
           c == [d \in D |-> B[d[1]][d[2]]]
<1>1. \A k \in 1..n : ListedBy(ss[k], B[k], F[k], g)
  BY DEF Lists
<1>2. PICK a : Enumerates(FlattenSeq(ss), a, D, AtPlace(ss), LexLess)
  BY FlattenEnumerates
<1>3. Lists(FlattenSeq(ss), D, AtPlace(ss))
  BY <1>2, EnumerationLists, LessAsymmetric DEF Lists
<1> HIDE DEF B
<1>4. ASSUME NEW d \in D
      PROVE  /\ d \in Nat \X Nat /\ d[1] \in 1..n /\ d[2] \in 1..Len(ss[d[1]])
             /\ c[d] = B[d[1]][d[2]] /\ c[d] \in F[d[1]] /\ c[d] \in E
             /\ AtPlace(ss)[d] = g[c[d]]
  <2>1. d \in Nat \X Nat /\ d[1] \in 1..n /\ d[2] \in 1..Len(ss[d[1]]) /\ c[d] = B[d[1]][d[2]]
    BY DEF Places
  <2>2. c[d] \in F[d[1]] /\ ss[d[1]][d[2]] = g[c[d]]
    BY <1>1, <2>1 DEF ListedBy
  <2>3. c[d] \in E
    BY <2>1, <2>2
  <2>4. QED
    BY <2>1, <2>2, <2>3 DEF AtPlace
<1>5. ASSUME NEW e \in E PROVE \E d \in D : c[d] = e
  <2>1. PICK k \in 1..n : e \in F[k]
    OBVIOUS
  <2>2. PICK p \in 1..Len(ss[k]) : B[k][p] = e
    BY <1>1, <2>1 DEF ListedBy
  <2>3. k \in Nat /\ p \in Nat
    OBVIOUS
  <2>4. <<k, p>> \in D
    BY <2>3, <2>2 DEF Places
  <2>5. c[<<k, p>>] = e
    BY <2>2, <2>4
  <2>6. QED
    BY <2>4, <2>5
<1>6. ASSUME NEW d \in D, NEW e \in D, c[d] = c[e] PROVE d = e
  <2>1. d[1] = e[1]
    BY <1>4, <1>6
  <2>2. d[2] = e[2]
    BY <1>1, <1>4, <1>6, <2>1 DEF ListedBy
  <2>3. QED
    BY <1>4, <2>1, <2>2
<1>7. c \in [D -> E]
  BY <1>4
<1> HIDE DEF c, D
<1>8. QED
  BY <1>3, <1>4, <1>5, <1>6, <1>7, ListsTransport

\* Where s has the value v, and which of E stand for it.
At(s, v) == {p \in 1..Len(s) : s[p] = v}
Holders(E, g, v) == {e \in E : g[e] = v}

\* A list has a value as often as the things it lists do.
LEMMA ListsCount ==
    ASSUME NEW s, NEW E, NEW g, Lists(s, E, g), NEW v
    PROVE  /\ IsFiniteSet(Holders(E, g, v))
           /\ Cardinality(At(s, v)) = Cardinality(Holders(E, g, v))
           /\ At(s, v) # {} <=> Holders(E, g, v) # {}
<1> DEFINE P == {p \in 1..Len(s) : s[p] = v}
           V == {e \in E : g[e] = v}
<1>1. PICK b : ListedBy(s, b, E, g)
  BY DEF Lists
<1> DEFINE f == [p \in P |-> b[p]]
<1>2. ASSUME NEW p \in P PROVE f[p] \in V /\ f[p] = b[p]
  BY <1>1 DEF ListedBy
<1>3. ASSUME NEW e \in V PROVE \E p \in P : f[p] = e
  <2>1. PICK p \in 1..Len(s) : b[p] = e
    BY <1>1 DEF ListedBy
  <2>2. p \in P
    BY <1>1, <2>1 DEF ListedBy
  <2>3. QED
    BY <2>1, <2>2
<1>4. \A p, q \in P : f[p] = f[q] => p = q
  BY <1>1, <1>2 DEF ListedBy
<1>5. f \in Bijection(P, V)
  <2>1. f \in [P -> V]
    BY <1>2
  <2> HIDE DEF f, P, V
  <2>2. QED
    BY <1>3, <1>4, <2>1 DEF Bijection, Injection, Surjection, IsInjective
<1>6. IsFiniteSet(P)
  <2>1. Len(s) \in Nat
    BY <1>1 DEF ListedBy, IsList
  <2>2. IsFiniteSet(1..Len(s)) /\ P \in SUBSET (1..Len(s))
    BY <2>1, FS_Interval
  <2>3. QED
    BY <2>2, FS_Subset
<1>7. IsFiniteSet(V) /\ Cardinality(V) = Cardinality(P)
  BY <1>5, <1>6, FS_Bijection DEF ExistsBijection
<1>8. P # {} <=> V # {}
  <2>1. (\E p \in P : TRUE) => (\E e \in V : TRUE)
    BY <1>2
  <2>2. (\E e \in V : TRUE) => (\E p \in P : TRUE)
    BY <1>3
  <2>3. QED
    BY <2>1, <2>2
<1>9. QED
  BY <1>7, <1>8 DEF At, Holders

-----------------------------------------------------------------------------
(* Lists split among n tasks.                                              *)

\* Positions of s that belong to task t; lists u[t] that together make up s,
\* each in the order of s.
Theirs(s, who, t) == {p \in 1..Len(s) : who[p] = t}
SplitBy(n, u, s, who) ==
    /\ IsList(s) /\ \A p \in 1..Len(s) : who[p] \in 0..(n - 1)
    /\ \A t \in 0..(n - 1) : Picks(u[t], s, Theirs(s, who, t))
Split(n, u, s) == \E who : SplitBy(n, u, s, who)

\* What a list picks is a list of elements of the other.
LEMMA PicksElems ==
    ASSUME NEW u, NEW s, NEW I, Picks(u, s, I)
    PROVE  /\ IsList(u)
           /\ \A q \in 1..Len(u) : \E p \in I : u[q] = s[p]
           /\ \A p \in I : \E q \in 1..Len(u) : u[q] = s[p]
  <1>1. PICK b : Enumerates(u, b, I, s, Less)
    BY DEF Picks
  <1> QED
    BY <1>1 DEF Enumerates

\* Lists u[t] that have the elements of s.
SameElems(n, u, s) ==
    /\ IsList(s) /\ \A t \in 0..(n - 1) : IsList(u[t])
    /\ \A t \in 0..(n - 1) : \A q \in 1..Len(u[t]) : \E p \in 1..Len(s) : u[t][q] = s[p]
    /\ \A p \in 1..Len(s) : \E t \in 0..(n - 1) : \E q \in 1..Len(u[t]) : u[t][q] = s[p]

\* The elements of a list are those of its shares.
LEMMA SplitElems ==
    ASSUME NEW n, NEW u, NEW s, Split(n, u, s)
    PROVE  SameElems(n, u, s)
  <1>1. PICK who : SplitBy(n, u, s, who)
    BY DEF Split
  <1>2. ASSUME NEW t \in 0..(n - 1)
        PROVE  /\ IsList(u[t])
               /\ \A q \in 1..Len(u[t]) : \E p \in 1..Len(s) : u[t][q] = s[p]
               /\ \A p \in 1..Len(s) : who[p] = t => \E q \in 1..Len(u[t]) : u[t][q] = s[p]
    <2>1. Picks(u[t], s, Theirs(s, who, t))
      BY <1>1 DEF SplitBy
    <2>2. \A p : p \in Theirs(s, who, t) <=> p \in 1..Len(s) /\ who[p] = t
      BY DEF Theirs
    <2> DEFINE I == Theirs(s, who, t)
    <2>3. /\ IsList(u[t])
          /\ \A q \in 1..Len(u[t]) : \E p \in I : u[t][q] = s[p]
          /\ \A p \in I : \E q \in 1..Len(u[t]) : u[t][q] = s[p]
      <3> HIDE DEF I
      <3>1. Picks(u[t], s, I)
        BY <2>1 DEF I
      <3> DEFINE z == u[t]
      <3>2. Picks(z, s, I)
        BY <3>1
      <3> HIDE DEF z
      <3>3. /\ IsList(z)
            /\ \A q \in 1..Len(z) : \E p \in I : z[q] = s[p]
            /\ \A p \in I : \E q \in 1..Len(z) : z[q] = s[p]
        BY <3>2, PicksElems
      <3> QED
        BY <3>3 DEF z
    <2> QED
      BY <2>2, <2>3
  <1>3. IsList(s) /\ \A p \in 1..Len(s) : who[p] \in 0..(n - 1)
    BY <1>1 DEF SplitBy
  <1> QED
    BY <1>2, <1>3 DEF SameElems

\* Lists u[t] that enumerate the things of E that w gives to t.
EnumerateShares(n, u, E, w, g, L) ==
    /\ \A e \in E : w[e] \in 0..(n - 1)
    /\ \A t \in 0..(n - 1) : \E c : Enumerates(u[t], c, {e \in E : w[e] = t}, g, L)

\* Shares of what s enumerates are shares of s.
LEMMA SplitOf ==
    ASSUME NEW s, NEW b, NEW E, NEW g, NEW L, Asymmetric(L), Enumerates(s, b, E, g, L),
           NEW n, NEW u, NEW w, EnumerateShares(n, u, E, w, g, L)
    PROVE  Split(n, u, s)
  <1> DEFINE who == [p \in 1..Len(s) |-> w[b[p]]]
  <1>1. IsList(s) /\ \A p \in 1..Len(s) : b[p] \in E
    BY DEF Enumerates
  <1>2. ASSUME NEW t \in 0..(n - 1) PROVE Picks(u[t], s, Theirs(s, who, t))
    <2> DEFINE Y == {e \in E : w[e] = t}
               P == {p \in 1..Len(s) : b[p] \in Y}
    <2>1. PICK c : Enumerates(u[t], c, Y, g, L)
      BY DEF EnumerateShares
    <2>2. Y \subseteq E
      OBVIOUS
    <2>3. P = Theirs(s, who, t)
      BY <1>1 DEF Theirs
    <2> HIDE DEF Y
    <2>4. Picks(u[t], s, P)
      BY <2>1, <2>2, PicksOfEnumerations
    <2> QED
      BY <2>3, <2>4
  <1>3. \A p \in 1..Len(s) : who[p] \in 0..(n - 1)
    BY <1>1 DEF EnumerateShares
  <1> HIDE DEF who
  <1> QED
    BY <1>1, <1>2, <1>3 DEF Split, SplitBy

\* v is s, with m applied to every element.
Mapped(v, s, m) == IsList(v) /\ Len(v) = Len(s) /\ \A p \in 1..Len(s) : v[p] = m[s[p]]

\* Shares stay shares when all elements are mapped.
LEMMA SplitMapped ==
    ASSUME NEW n, NEW u, NEW s, Split(n, u, s), NEW m, NEW v, NEW r, Mapped(r, s, m),
           \A t \in 0..(n - 1) : Mapped(v[t], u[t], m)
    PROVE  Split(n, v, r)
  <1>1. PICK who : SplitBy(n, u, s, who)
    BY DEF Split
  <1>2. IsList(r) /\ Len(r) = Len(s)
    BY DEF Mapped
  <1>3. ASSUME NEW t \in 0..(n - 1) PROVE Picks(v[t], r, Theirs(r, who, t))
    <2>1. Theirs(r, who, t) = Theirs(s, who, t) /\ Theirs(s, who, t) \subseteq 1..Len(s)
      BY <1>2 DEF Theirs
    <2>2. PICK b : Enumerates(u[t], b, Theirs(s, who, t), s, Less)
      BY <1>1 DEF SplitBy, Picks
    <2>3. Mapped(v[t], u[t], m)
      OBVIOUS
    <2>4. /\ b \in [1..Len(u[t]) -> Theirs(s, who, t)]
          /\ \A e \in Theirs(s, who, t) : \E p \in 1..Len(u[t]) : b[p] = e
          /\ \A p, q \in 1..Len(u[t]) : p < q => <<b[p], b[q]>> \in Less
          /\ \A p \in 1..Len(u[t]) : u[t][p] = s[b[p]]
      BY <2>2 DEF Enumerates
    <2>5. /\ IsList(v[t]) /\ Len(v[t]) = Len(u[t])
          /\ \A p \in 1..Len(u[t]) : v[t][p] = m[u[t][p]]
      BY <2>3 DEF Mapped
    <2>6. \A p \in 1..Len(u[t]) : v[t][p] = r[b[p]]
      <3> SUFFICES ASSUME NEW p \in 1..Len(u[t]) PROVE v[t][p] = r[b[p]]
        OBVIOUS
      <3>1. b[p] \in 1..Len(s)
        BY <2>1, <2>4
      <3>2. r[b[p]] = m[s[b[p]]]
        BY <3>1 DEF Mapped
      <3> QED
        BY <2>4, <2>5, <3>2
    <2>7. Enumerates(v[t], b, Theirs(s, who, t), r, Less)
      BY <2>4, <2>5, <2>6 DEF Enumerates
    <2> QED
      BY <2>1, <2>7 DEF Picks
  <1>4. \A p \in 1..Len(r) : who[p] \in 0..(n - 1)
    BY <1>1, <1>2 DEF SplitBy
  <1> QED
    BY <1>2, <1>3, <1>4 DEF Split, SplitBy

\* v is s, with only the elements that are in K.
Sifted(v, s, K) == Picks(v, s, {p \in 1..Len(s) : s[p] \in K})

\* To sift a share is to pick from the whole.
LEMMA SiftedPicks ==
    ASSUME NEW u, NEW s, NEW I, Picks(u, s, I), NEW v, NEW K, Sifted(v, u, K)
    PROVE  Picks(v, s, {p \in I : s[p] \in K})
  <1> DEFINE J == {q \in 1..Len(u) : u[q] \in K}
             E == {p \in I : s[p] \in K}
  <1>1. PICK b : Enumerates(u, b, I, s, Less)
    BY DEF Picks
  <1>2. PICK d : Enumerates(v, d, J, u, Less)
    BY DEF Sifted, Picks
  <1> DEFINE c == [q \in J |-> b[q]]
  <1>3. \A q \in J : c[q] \in E /\ u[q] = s[c[q]]
    BY <1>1 DEF Enumerates
  <1>4. \A e \in E : \E q \in J : c[q] = e
    BY <1>1 DEF Enumerates
  <1>5. \A q, r \in J : <<q, r>> \in Less => <<c[q], c[r]>> \in Less
    BY <1>1 DEF Enumerates, Less
  <1>6. c \in [J -> E]
    BY <1>3
  <1> HIDE DEF J, E, c
  <1>7. Enumerates(v, [p \in 1..Len(v) |-> c[d[p]]], E, s, Less)
    BY <1>2, <1>3, <1>4, <1>5, <1>6, Transport
  <1> QED
    BY <1>7 DEF Picks, E

\* Shares stay shares when all are sifted.
LEMMA SplitSifted ==
    ASSUME NEW n, NEW u, NEW s, Split(n, u, s), NEW K, NEW v, NEW r, Sifted(r, s, K),
           \A t \in 0..(n - 1) : Sifted(v[t], u[t], K)
    PROVE  Split(n, v, r)
  <1>1. PICK who : SplitBy(n, u, s, who)
    BY DEF Split
  <1> DEFINE E == {p \in 1..Len(s) : s[p] \in K}
  <1>2. PICK b : Enumerates(r, b, E, s, Less)
    BY DEF Sifted, Picks
  <1>3. ASSUME NEW t \in 0..(n - 1) PROVE \E c : Enumerates(v[t], c, {e \in E : who[e] = t}, s, Less)
    <2> DEFINE I == Theirs(s, who, t)
    <2>1. Picks(u[t], s, I) /\ Sifted(v[t], u[t], K)
      BY <1>1 DEF SplitBy
    <2>2. {p \in I : s[p] \in K} = {e \in E : who[e] = t}
      BY DEF Theirs
    <2> HIDE DEF I
    <2>3. Picks(v[t], s, {p \in I : s[p] \in K})
      BY <2>1, SiftedPicks
    <2> QED
      BY <2>2, <2>3 DEF Picks
  <1>4. \A e \in E : who[e] \in 0..(n - 1)
    BY <1>1 DEF SplitBy
  <1> HIDE DEF E
  <1>5. EnumerateShares(n, v, E, who, s, Less)
    BY <1>3, <1>4 DEF EnumerateShares
  <1> QED
    BY <1>2, <1>5, LessAsymmetric, SplitOf

\* v is s, with every element replaced by the list x has for it.
Spreads(v, s, x) ==
    \E ss : /\ IsLists(ss) /\ Len(ss) = Len(s) /\ v = FlattenSeq(ss)
            /\ \A p \in 1..Len(s) : ss[p] = x[s[p]]

\* Shares stay shares when all elements are spread.
LEMMA SplitSpread ==
    ASSUME NEW n, NEW u, NEW s, Split(n, u, s), NEW x, NEW v, NEW r, Spreads(r, s, x),
           \A t \in 0..(n - 1) : Spreads(v[t], u[t], x)
    PROVE  Split(n, v, r)
  <1>1. PICK who : SplitBy(n, u, s, who)
    BY DEF Split
  <1> DEFINE P == 1..Len(s)
             y == [p \in P |-> x[s[p]]]
             E == Expansions(P, y)
             w == [e \in E |-> who[e[1]]]
  <1>2. IsList(s)
    BY <1>1 DEF SplitBy
  <1>3. PICK c : Enumerates(r, c, E, AtExpansion(P, y), LexOver(P, Less))
    <2>1. PICK ss : /\ IsLists(ss) /\ Len(ss) = Len(s) /\ r = FlattenSeq(ss)
                    /\ \A p \in 1..Len(s) : ss[p] = x[s[p]]
      BY DEF Spreads
    <2> DEFINE b == [p \in 1..Len(s) |-> p]
    <2>2. Enumerates(s, b, P, s, Less)
      BY <1>2, PicksAll
    <2>3. \A p \in 1..Len(s) : ss[p] = y[b[p]]
      BY <2>1
    <2> HIDE DEF P, y, b
    <2> QED
      BY <2>1, <2>2, <2>3, ExpandEnumerates
  <1>4. ASSUME NEW t \in 0..(n - 1)
        PROVE  \E d : Enumerates(v[t], d, {e \in E : w[e] = t}, AtExpansion(P, y), LexOver(P, Less))
    <2> DEFINE I == Theirs(s, who, t)
    <2>1. PICK ss : /\ IsLists(ss) /\ Len(ss) = Len(u[t]) /\ v[t] = FlattenSeq(ss)
                    /\ \A q \in 1..Len(u[t]) : ss[q] = x[u[t][q]]
      BY DEF Spreads
    <2>2. PICK b : Enumerates(u[t], b, I, s, Less)
      BY <1>1 DEF SplitBy, Picks
    <2>3. I \subseteq P
      BY DEF Theirs
    <2>4. \A q \in 1..Len(u[t]) : ss[q] = y[b[q]]
      BY <2>1, <2>2, <2>3 DEF Enumerates
    <2>5. Expansions(I, y) = {e \in E : w[e] = t}
      <3>1. \A p : p \in I <=> p \in P /\ who[p] = t
        BY DEF Theirs
      <3> HIDE DEF P, I, y
      <3> QED
        BY <3>1 DEF Expansions
    <2> HIDE DEF P, I, y, E, w
    <2>6. \E d : Enumerates(FlattenSeq(ss), d, Expansions(I, y), AtExpansion(P, y), LexOver(P, Less))
      BY <2>1, <2>2, <2>3, <2>4, ExpandEnumerates
    <2> QED
      BY <2>1, <2>5, <2>6
  <1>5. \A e \in E : w[e] \in 0..(n - 1)
    <2>1. \A e \in E : e[1] \in P
      BY DEF Expansions
    <2> QED
      BY <1>1, <2>1 DEF SplitBy
  <1>6. Asymmetric(LexOver(P, Less))
    BY LessAsymmetric, LexOverAsymmetric
  <1> HIDE DEF P, y, E, w
  <1>7. EnumerateShares(n, v, E, w, AtExpansion(P, y), LexOver(P, Less))
    BY <1>4, <1>5 DEF EnumerateShares
  <1> QED
    BY <1>3, <1>6, <1>7, SplitOf

=============================================================================
