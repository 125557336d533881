--------------------------- MODULE DataflowProofs ---------------------------
(***************************************************************************)
(* Theorems about module Dataflow, for any files, plans, hash functions    *)
(* and numbers of partitions: the part files of a job hold what one task   *)
(* would have written, what a group-by and a join promise, and no key in   *)
(* two buckets.                                                            *)
(***************************************************************************)
EXTENDS Dataflow, SequenceLemmas

-----------------------------------------------------------------------------
\* Kept is a recursive function on positions; this is how it unrolls.
KeptUnrolls(f, s, I, m) ==
    f = [i \in 0..m |-> IF i = 0 THEN <<>>
                        ELSE IF i \in I THEN Append(f[i - 1], s[i]) ELSE f[i - 1]]

\* The function by which Kept is defined exists.
LEMMA KeptUnrollExists ==
    ASSUME NEW s, NEW I, NEW n \in Nat
    PROVE  \E f : KeptUnrolls(f, s, I, n)
<1> DEFINE bad == {m \in Nat : ~\E f : KeptUnrolls(f, s, I, m)}
<1>1. SUFFICES ASSUME bad # {} PROVE FALSE
  OBVIOUS
<1>2. PICK m \in bad : \A h \in bad : m <= h
  BY <1>1, LeastExists
<1>3. m # 0
  <2>1. KeptUnrolls([i \in 0..0 |-> <<>>], s, I, 0)
    BY DEF KeptUnrolls
  <2>2. QED
    BY <1>2, <2>1
<1>4. m - 1 \in Nat /\ m - 1 \notin bad
  BY <1>2, <1>3
<1>5. PICK f : KeptUnrolls(f, s, I, m - 1)
  BY <1>4
<1> DEFINE g == [i \in 0..m |-> IF i < m THEN f[i]
                                ELSE IF i \in I THEN Append(f[i - 1], s[i]) ELSE f[i - 1]]
<1>6. ASSUME NEW i \in 0..m
      PROVE  g[i] = IF i = 0 THEN <<>>
                    ELSE IF i \in I THEN Append(g[i - 1], s[i]) ELSE g[i - 1]
  <2>1. CASE i < m
    <3>1. i \in 0..(m - 1) /\ g[i] = f[i]
      BY <1>2, <2>1
    <3>2. f[i] = IF i = 0 THEN <<>> ELSE IF i \in I THEN Append(f[i - 1], s[i]) ELSE f[i - 1]
      BY <1>5, <3>1 DEF KeptUnrolls
    <3>3. i # 0 => g[i - 1] = f[i - 1]
      BY <1>2, <2>1
    <3>4. QED
      BY <3>1, <3>2, <3>3
  <2>2. CASE i = m
    <3>1. i # 0 /\ i \in Nat /\ g[i - 1] = f[i - 1]
      BY <1>2, <1>3, <2>2
    <3>2. g[i] = IF i \in I THEN Append(f[i - 1], s[i]) ELSE f[i - 1]
      BY <2>2
    <3>3. QED
      BY <3>1, <3>2
  <2>3. QED
    BY <1>2, <2>1, <2>2
<1> HIDE DEF bad
<1>7. g = [i \in 0..m |-> IF i = 0 THEN <<>>
                          ELSE IF i \in I THEN Append(g[i - 1], s[i]) ELSE g[i - 1]]
  <2>1. DOMAIN g = 0..m /\ g = [i \in 0..m |-> g[i]]
    OBVIOUS
  <2> HIDE DEF g
  <2>2. QED
    BY <1>6, <2>1
<1>8. KeptUnrolls(g, s, I, m)
  BY <1>7 DEF KeptUnrolls
<1>9. m \notin bad
  BY <1>8 DEF bad
<1>10. QED
  BY <1>2, <1>9

\* Kept is its last value.
LEMMA KeptIsUnrolled ==
    ASSUME NEW s, NEW I, Len(s) \in Nat
    PROVE  \E f : KeptUnrolls(f, s, I, Len(s)) /\ Kept(s, I) = f[Len(s)]
<1> DEFINE n == Len(s)
           f == CHOOSE f : f = [i \in 0..n |-> IF i = 0 THEN <<>>
                                ELSE IF i \in I THEN Append(f[i - 1], s[i]) ELSE f[i - 1]]
<1>1. \E h : h = [i \in 0..n |-> IF i = 0 THEN <<>>
                                ELSE IF i \in I THEN Append(h[i - 1], s[i]) ELSE h[i - 1]]
  <2>1. \E h : KeptUnrolls(h, s, I, n)
    BY SMTT(30), KeptUnrollExists
  <2>2. QED
    BY <2>1 DEF KeptUnrolls
<1>2. f = [i \in 0..n |-> IF i = 0 THEN <<>>
                          ELSE IF i \in I THEN Append(f[i - 1], s[i]) ELSE f[i - 1]]
  BY <1>1
<1>3. Kept(s, I) = f[n]
  BY DEF Kept
<1> HIDE DEF f
<1>4. QED
  BY <1>2, <1>3 DEF KeptUnrolls

\* Kept is the part of the list at the positions.
LEMMA KeptPicks ==
    ASSUME NEW s, NEW I, IsList(s)
    PROVE  Picks(Kept(s, I), s, {i \in 1..Len(s) : i \in I})
<1> DEFINE n == Len(s)
           at(m) == {i \in 1..m : i \in I}
<1>1. n \in Nat
  BY DEF IsList
<1>2. PICK f : KeptUnrolls(f, s, I, n) /\ Kept(s, I) = f[n]
  BY <1>1, KeptIsUnrolled
<1> DEFINE good(m) == \E b : Enumerates(f[m], b, at(m), s, Less)
           bad == {m \in Nat : m <= n /\ ~good(m)}
<1>3. SUFFICES ASSUME bad # {} PROVE FALSE
  <2>1. n \in Nat /\ n <= n
    BY <1>1
  <2>2. bad = {} => good(n)
    BY <2>1
  <2>3. QED
    BY <1>2, <2>2 DEF Picks
<1>4. PICK m \in bad : \A h \in bad : m <= h
  <2>1. bad \subseteq Nat
    OBVIOUS
  <2> HIDE DEF bad
  <2>2. QED
    BY <1>3, <2>1, LeastExists
<1>5. m \in Nat /\ m <= n /\ ~good(m)
  BY <1>4
<1>6. f[m] = IF m = 0 THEN <<>> ELSE IF m \in I THEN Append(f[m - 1], s[m]) ELSE f[m - 1]
  <2>1. m \in 0..n
    BY <1>1, <1>5
  <2>2. QED
    BY ONLY <1>2, <2>1 DEF KeptUnrolls
<1>7. m # 0
  <2>1. ASSUME m = 0 PROVE FALSE
    <3>1. f[m] = <<>> /\ at(m) = {}
      BY <1>6, <2>1
    <3>2. Enumerates(<<>>, [p \in 1..0 |-> 0], {}, s, Less)
      BY DEF Enumerates, IsList
    <3>3. QED
      BY <1>5, <3>1, <3>2
  <2>2. QED
    BY <2>1
<1>8. m - 1 \in Nat /\ m - 1 <= n /\ m - 1 < m /\ m \in 1..n /\ m \in 1..m
  BY <1>1, <1>5, <1>7
<1>9. good(m - 1)
  <2>1. m - 1 \notin bad
    <3> HIDE DEF bad
    <3>1. QED
      BY <1>4, <1>5, <1>8
  <2>2. QED
    BY <1>8, <2>1
<1>10. CASE m \notin I
  <2>1. f[m] = f[m - 1] /\ at(m) = at(m - 1)
    <3>1. \A i : i \in 1..m <=> i \in 1..(m - 1) \/ i = m
      BY <1>5, <1>8
    <3>2. QED
      BY <1>6, <1>7, <1>10, <3>1
  <2>2. QED
    BY <1>5, <1>9, <2>1
<1>11. CASE m \in I
  <2>1. f[m] = Append(f[m - 1], s[m])
    BY <1>6, <1>7, <1>11
  <2>2. PICK b : Enumerates(f[m - 1], b, at(m - 1), s, Less)
    BY <1>9
  <2> DEFINE t == f[m - 1]
             k == Len(t)
             d == [p \in 1..(k + 1) |-> IF p = k + 1 THEN m ELSE b[p]]
  <2>3. /\ k \in Nat /\ IsList(t) /\ IsList(f[m]) /\ Len(f[m]) = k + 1
        /\ \A i \in 1..k : f[m][i] = t[i]
        /\ f[m][k + 1] = s[m]
    <3>1. IsList(t) /\ k \in Nat
      BY <2>2 DEF Enumerates, IsList
    <3> HIDE DEF t
    <3>2. QED
      BY <2>1, <3>1, AppendIsList DEF t
  <2>4. \A i : i \in at(m) <=> i \in at(m - 1) \/ i = m
    <3>1. \A i : i \in 1..m <=> i \in 1..(m - 1) \/ i = m
      BY <1>5, <1>8
    <3>2. QED
      BY <1>11, <3>1
  <2>5. \A i \in at(m - 1) : i \in Nat /\ i < m
    BY <1>8
  <2>6. \A p \in 1..k : b[p] \in at(m - 1) /\ t[p] = s[b[p]]
    BY <2>2 DEF Enumerates
  <2>7. \A p \in 1..(k + 1) : (p \in 1..k /\ p # k + 1) \/ p = k + 1
    BY <2>3
  <2>8. \A p \in 1..k : p \in 1..(k + 1) /\ p # k + 1 /\ d[p] = b[p]
    BY <2>3
  <2>9. k + 1 \in 1..(k + 1) /\ d[k + 1] = m
    BY <2>3
  <2> HIDE DEF at
  <2>10. d \in [1..(k + 1) -> at(m)]
    BY <2>4, <2>6, <2>7
  <2> HIDE DEF d
  <2>11. ASSUME NEW i \in at(m) PROVE \E p \in 1..(k + 1) : d[p] = i
    <3>1. CASE i = m
      BY <2>9, <3>1
    <3>2. CASE i \in at(m - 1)
      <4>1. PICK p \in 1..k : b[p] = i
        BY <2>2, <3>2 DEF Enumerates
      <4>2. QED
        BY <2>8, <4>1
    <3>3. QED
      BY <2>4, <3>1, <3>2
  <2>12. ASSUME NEW p \in 1..(k + 1), NEW q \in 1..(k + 1), p < q PROVE <<d[p], d[q]>> \in Less
    <3>1. p \in 1..k /\ d[p] = b[p] /\ d[p] \in at(m - 1)
      BY <2>3, <2>6, <2>7, <2>8, <2>12
    <3>2. CASE q = k + 1
      BY <1>5, <2>5, <2>9, <3>1, <3>2 DEF Less
    <3>3. CASE q # k + 1
      <4>1. q \in 1..k /\ d[q] = b[q]
        BY <2>7, <2>8, <3>3
      <4>2. QED
        BY <2>2, <2>12, <3>1, <4>1 DEF Enumerates
    <3>4. QED
      BY <3>2, <3>3
  <2>13. \A p \in 1..(k + 1) : f[m][p] = s[d[p]]
    BY <2>3, <2>6, <2>7, <2>8, <2>9
  <2>14. Enumerates(f[m], d, at(m), s, Less)
    BY <2>3, <2>10, <2>11, <2>12, <2>13 DEF Enumerates
  <2>15. QED
    BY <1>5, <2>14
<1>12. QED
  BY <1>10, <1>11

\* What Kept gives are the elements at the positions.
LEMMA KeptElems ==
    ASSUME NEW s, NEW I, IsList(s)
    PROVE  /\ IsList(Kept(s, I))
           /\ \A p \in 1..Len(Kept(s, I)) : \E i \in 1..Len(s) : i \in I /\ Kept(s, I)[p] = s[i]
           /\ \A i \in 1..Len(s) : i \in I => \E p \in 1..Len(Kept(s, I)) : Kept(s, I)[p] = s[i]
<1>1. PICK b : Enumerates(Kept(s, I), b, {i \in 1..Len(s) : i \in I}, s, Less)
  BY KeptPicks DEF Picks
<1>2. QED
  BY SMTT(30), <1>1 DEF Enumerates

\* What FlattenSeq gives are the elements of the lists.
LEMMA FlattenIsList ==
    ASSUME NEW ss, IsLists(ss)
    PROVE  /\ IsList(FlattenSeq(ss))
           /\ \A p \in 1..Len(FlattenSeq(ss)) :
                 \E k \in 1..Len(ss) : \E j \in 1..Len(ss[k]) : FlattenSeq(ss)[p] = ss[k][j]
           /\ \A k \in 1..Len(ss) : \A j \in 1..Len(ss[k]) :
                 \E p \in 1..Len(FlattenSeq(ss)) : FlattenSeq(ss)[p] = ss[k][j]
<1> DEFINE D == Places(ss, Len(ss))
           u == FlattenSeq(ss)
<1>1. PICK b : Enumerates(u, b, D, AtPlace(ss), LexLess)
  BY FlattenEnumerates
<1>2. ASSUME NEW p \in 1..Len(u)
      PROVE  \E k \in 1..Len(ss) : \E j \in 1..Len(ss[k]) : u[p] = ss[k][j]
  <2>1. b[p] \in D /\ u[p] = AtPlace(ss)[b[p]]
    BY <1>1 DEF Enumerates
  <2>2. b[p] \in Nat \X Nat /\ b[p][1] \in 1..Len(ss) /\ b[p][2] \in 1..Len(ss[b[p][1]])
    BY <2>1 DEF Places
  <2>3. QED
    BY <2>1, <2>2 DEF AtPlace
<1>3. ASSUME NEW k \in 1..Len(ss), NEW j \in 1..Len(ss[k])
      PROVE  \E p \in 1..Len(u) : u[p] = ss[k][j]
  <2>1. <<k, j>> \in D /\ <<k, j>> \in Nat \X Nat
    BY DEF Places
  <2>2. PICK p \in 1..Len(u) : b[p] = <<k, j>>
    BY <1>1, <2>1 DEF Enumerates
  <2>3. u[p] = AtPlace(ss)[<<k, j>>]
    BY <1>1, <2>2 DEF Enumerates
  <2>4. QED
    BY <2>1, <2>3 DEF AtPlace
<1>4. IsList(u)
  BY <1>1 DEF Enumerates
<1>5. QED
  BY <1>2, <1>3, <1>4

\* The elements of a list as the source of the modules writes them.
LEMMA ToSetOfList ==
    ASSUME NEW s, IsList(s)
    PROVE  /\ \A x : x \in ToSet(s) <=> \E i \in 1..Len(s) : s[i] = x
           /\ s \in Seq(ToSet(s))
<1>1. DOMAIN s = 1..Len(s)
  BY DEF IsList
<1>2. \A x : x \in ToSet(s) <=> \E i \in 1..Len(s) : s[i] = x
  BY <1>1 DEF ToSet
<1>3. QED
  BY <1>2, SeqOfList

\* The empty list.
LEMMA EmptyIsList == IsList(<<>>) /\ Len(<<>>) = 0
BY DEF IsList

\* A list with one element.
LEMMA SingletonIsList ==
    ASSUME NEW x
    PROVE  IsList(<<x>>) /\ Len(<<x>>) = 1 /\ <<x>>[1] = x
BY ListOfSeq DEF IsList

-----------------------------------------------------------------------------
\* Results: what Ok holds, and that Err is not one.
LEMMA Results ==
    /\ \A v : IsOk(Ok(v)) /\ Value(Ok(v)) = v
    /\ ~IsOk(Err)
BY DEF IsOk, Ok, Value, Err

\* What a record is, and a partition of records.
RecOK(rec) == IsFiniteSet(DOMAIN rec) /\ \A f \in DOMAIN rec : ValueOK(rec[f])
RecsOK(recs) == IsList(recs) /\ \A i \in 1..Len(recs) : RecOK(recs[i])
PartitionsOK(ps) ==
    /\ IsList(ps) /\ Len(ps) > 0
    /\ \A k \in 1..Len(ps) : RecsOK(ps[k][2])

\* Some of the records of a partition.
LEMMA KeptRecords ==
    ASSUME NEW recs, NEW I, RecsOK(recs)
    PROVE  RecsOK(Kept(recs, I))
BY KeptElems DEF RecsOK

\* The records of several partitions.
LEMMA FlattenRecords ==
    ASSUME NEW rs, IsList(rs), \A k \in 1..Len(rs) : RecsOK(rs[k])
    PROVE  IsLists(rs) /\ RecsOK(FlattenSeq(rs))
<1>1. IsLists(rs)
  BY DEF RecsOK, IsLists
<1>2. QED
  BY <1>1, FlattenIsList DEF RecsOK

\* The records of the partitions of a task.
LEMMA MergedRecords ==
    ASSUME NEW ps, PartitionsOK(ps)
    PROVE  RecsOK(Merged(ps))
<1> DEFINE rs == [k \in 1..Len(ps) |-> ps[k][2]]
<1>1. Len(ps) \in Nat
  BY DEF PartitionsOK, IsList
<1>2. IsList(rs) /\ Len(rs) = Len(ps)
  BY <1>1, FunctionIsList
<1>3. \A k \in 1..Len(rs) : RecsOK(rs[k])
  BY <1>2 DEF PartitionsOK
<1> HIDE DEF rs
<1>4. RecsOK(FlattenSeq(rs))
  BY <1>2, <1>3, FlattenRecords
<1>5. QED
  BY <1>4 DEF Merged, rs

\* A set of names given by a function on an interval is finite, and one of a
\* finite set.
LEMMA ImageFinite ==
    ASSUME NEW S, IsFiniteSet(S), NEW T, NEW f, DOMAIN f = S, f = [x \in S |-> f[x]],
           \A y : y \in T <=> \E x \in S : f[x] = y
    PROVE  IsFiniteSet(T)
<1>1. f \in Surjection(S, T)
  <2>1. \A x \in S : f[x] \in T
    OBVIOUS
  <2>2. f \in [S -> T]
    BY <2>1
  <2>3. QED
    BY <2>2 DEF Surjection
<1>2. QED
  BY <1>1, FS_Surjection

\* A finite set of numbers that is not empty has a greatest.
LEMMA MaxExists ==
    ASSUME NEW n \in Nat, NEW S, S \subseteq 1..n, S # {}
    PROVE  Max(S) \in S /\ \A x \in S : x <= Max(S)
<1> DEFINE above == {m \in Nat : \A x \in S : x <= m}
<1>1. n \in above /\ above \subseteq Nat
  OBVIOUS
<1>2. PICK m \in above : \A h \in above : m <= h
  <2> HIDE DEF above
  <2>1. QED
    BY <1>1, LeastExists
<1>3. m \in S
  <2>1. SUFFICES ASSUME m \notin S PROVE FALSE
    OBVIOUS
  <2>2. \A x \in S : x < m /\ x \in Nat /\ x > 0
    BY <2>1
  <2> m \in Nat
    OBVIOUS
  <2>8. PICK x \in S : TRUE
    OBVIOUS
  <2>3. m - 1 \in Nat /\ \A y \in S : y <= m - 1
    BY <2>2, <2>8
  <2>4. m - 1 \in above
    BY <2>3
  <2> HIDE DEF above
  <2>5. m <= m - 1
    BY <1>2, <2>4
  <2>6. m \in Nat
    BY <2>3, <1>2 DEF above
  <2>7. QED
    BY <2>5, <2>6
<1>4. \A x \in S : x <= m /\ m >= x
  OBVIOUS
<1>5. Max(S) \in S /\ \A y \in S : Max(S) >= y
  BY <1>3, <1>4 DEF Max
<1>6. QED
  BY <1>5

-----------------------------------------------------------------------------
\* What the file of a job looks like to the proofs.
FileOK(file) ==
    /\ IsList(file.lines)
    /\ \A i \in 1..Len(file.lines) : LineOK(file.lines[i], file.format)

\* Every input of a job is such a file.
LEMMA InputsOK ==
    ASSUME NEW j \in Jobs
    PROVE  /\ IsList(j.inputs) /\ Len(j.inputs) > 0
           /\ \A f \in 1..Len(j.inputs) : FileOK(j.inputs[f])
<1>1. j.inputs \in Seq(ToSet(j.inputs)) /\ j.inputs # <<>>
  BY JobsAssumption
<1>2. IsList(j.inputs)
  BY <1>1, ListOfSeq
<1>3. Len(j.inputs) > 0
  BY <1>1, LenProperties, EmptySeq
<1>4. ASSUME NEW f \in 1..Len(j.inputs) PROVE FileOK(j.inputs[f])
  <2>1. /\ j.inputs[f].lines \in Seq(ToSet(j.inputs[f].lines))
        /\ \A i \in 1..Len(j.inputs[f].lines) :
              LineOK(j.inputs[f].lines[i], j.inputs[f].format)
    BY JobsAssumption
  <2>2. IsList(j.inputs[f].lines)
    BY <2>1, ListOfSeq
  <2>3. QED
    BY <2>1, <2>2 DEF FileOK
<1>5. QED
  BY <1>2, <1>3, <1>4

\* The plan of a job is a list of known operators.
LEMMA PlanOK ==
    ASSUME NEW j \in Jobs
    PROVE  /\ IsList(j.plan) /\ Len(j.plan) > 0
           /\ \A k \in 1..Len(j.plan) :
                 /\ j.plan[k][1] \in {"Filter", "Map", "FlatMap", "Reduce", "ReduceByKey",
                                      "Join", "ShuffleByKey"}
                 /\ j.plan[k][1] = "ShuffleByKey" => j.plan[k][3] \in Nat
<1>1. j.plan \in Seq(ToSet(j.plan)) /\ j.plan # <<>>
  BY JobsAssumption
<1>2. IsList(j.plan)
  BY <1>1, ListOfSeq
<1>3. Len(j.plan) > 0
  BY <1>1, LenProperties, EmptySeq
<1>4. QED
  BY <1>2, <1>3, JobsAssumption

\* A list made of the words of a list.
LEMMA MappedWords ==
    ASSUME NEW n \in Nat, NEW s, DOMAIN s = 1..n, s = [i \in 1..n |-> s[i]]
    PROVE  s \in Seq(ToSet(s))
BY FunctionIsList, ToSetOfList

\* A number or a text read from a column is a value.
LEMMA InferNumberOK ==
    ASSUME NEW words, words \in Seq(ToSet(words))
    PROVE  ValueOK(InferNumber(words))
<1>1. CASE IsNumeral(words)
  <2>1. NumeralOf[words[1]] \in Int
    BY <1>1, NumeralAssumption DEF IsNumeral
  <2>2. QED
    BY <1>1, <2>1 DEF InferNumber, ValueOK, ScalarOK, Num, Kind
<1>2. CASE ~IsNumeral(words)
  BY <1>2 DEF InferNumber, ValueOK, ScalarOK, Str, Kind
<1>3. QED
  BY <1>1, <1>2

\* A line of a CSV file becomes a record.
LEMMA ParseCsvLineOK ==
    ASSUME NEW header, NEW cols, cols \in Seq(ToSet(cols)),
           \A i \in 1..Len(cols) : cols[i] \in Seq(ToSet(cols[i]))
    PROVE  RecOK(ParseCsvLine(header, cols))
<1> DEFINE n == Len(cols)
           name == [i \in 1..n |-> IF i <= Len(header) THEN header[i]
                                   ELSE "col" \o ToString(i - 1)]
           names == {name[i] : i \in 1..n}
           at(f) == {i \in 1..n : name[i] = f}
           rec == [f \in names |-> InferNumber(cols[Max(at(f))])]
<1>1. n \in Nat
  BY ListOfSeq DEF IsList
<1>2. ParseCsvLine(header, cols) = rec
  BY DEF ParseCsvLine
<1>3. IsFiniteSet(names)
  <2>1. IsFiniteSet(1..n)
    BY <1>1, FS_Interval
  <2>2. /\ DOMAIN name = 1..n /\ name = [i \in 1..n |-> name[i]]
        /\ \A y : y \in names <=> \E i \in 1..n : name[i] = y
    OBVIOUS
  <2> HIDE DEF name, names
  <2>3. QED
    BY <2>1, <2>2, ImageFinite
<1>4. ASSUME NEW f \in names PROVE ValueOK(rec[f])
  <2>1. at(f) \subseteq 1..n /\ at(f) # {}
    OBVIOUS
  <2>2. Max(at(f)) \in 1..n
    <3> HIDE DEF at, n
    <3>1. Max(at(f)) \in at(f)
      BY <1>1, <2>1, MaxExists
    <3>2. QED
      BY <2>1, <3>1
  <2> HIDE DEF at, n
  <2>3. ValueOK(InferNumber(cols[Max(at(f))]))
    BY <2>2, InferNumberOK DEF n
  <2>4. QED
    BY <2>3
<1> HIDE DEF names
<1>5. DOMAIN rec = names
  OBVIOUS
<1> HIDE DEF rec
<1>6. QED
  BY <1>2, <1>3, <1>4, <1>5 DEF RecOK

\* A line of a JSON file, or an element of an array, becomes a record.
LEMMA NormalizeJsonOK ==
    ASSUME NEW line,
           \/ Kind(line) = "Val" /\ ValueOK(line[2])
           \/ /\ Kind(line) = "Obj" /\ IsFiniteSet(DOMAIN line[2])
              /\ \A f \in DOMAIN line[2] : ValueOK(line[2][f])
    PROVE  RecOK(NormalizeJson(line))
<1>1. CASE Kind(line) = "Obj"
  <2>1. NormalizeJson(line) = line[2]
    BY <1>1 DEF NormalizeJson
  <2>2. QED
    BY <1>1, <2>1 DEF RecOK
<1>2. CASE Kind(line) # "Obj"
  <2>1. NormalizeJson(line) = [x \in {"value"} |-> line[2]] /\ ValueOK(line[2])
    BY <1>2 DEF NormalizeJson, Field
  <2>2. IsFiniteSet({"value"})
    BY FS_Singleton
  <2>3. QED
    BY <2>1, <2>2 DEF RecOK
<1>3. QED
  BY <1>1, <1>2

\* The lines a task reads, as records.
Own(file, partition, count) ==
    Filled(EveryNth(IF file.format = "csv" THEN Filled(file.lines) ELSE file.lines,
                    partition, count))
AsRecord(file, line) ==
    IF file.format = "csv" THEN ParseCsvLine(file.header, line[2]) ELSE NormalizeJson(line)

\* A list of elements of another one.
Within(u, s) == IsList(u) /\ \A k \in 1..Len(u) : \E i \in 1..Len(s) : u[k] = s[i]

\* What Kept takes is.
LEMMA KeptWithin ==
    ASSUME NEW s, NEW I, IsList(s)
    PROVE  Within(Kept(s, I), s)
BY KeptElems DEF Within

\* Being so is transitive.
LEMMA WithinWithin ==
    ASSUME NEW u, NEW s, NEW v, Within(u, s), Within(s, v)
    PROVE  Within(u, v)
BY DEF Within

\* Filled takes the lines that are not blank.
LEMMA FilledWithin ==
    ASSUME NEW s, IsList(s)
    PROVE  Within(Filled(s), s) /\ \A k \in 1..Len(Filled(s)) : Filled(s)[k] # <<>>
<1> DEFINE I == {i \in 1..Len(s) : s[i] # <<>>}
<1>1. Filled(s) = Kept(s, I)
  BY DEF Filled
<1>2. \A i \in I : s[i] # <<>>
  OBVIOUS
<1> HIDE DEF I
<1>3. Within(Kept(s, I), s) /\ \A k \in 1..Len(Kept(s, I)) : Kept(s, I)[k] # <<>>
  BY <1>2, KeptElems, KeptWithin
<1>4. QED
  BY <1>1, <1>3

\* EveryNth takes lines.
LEMMA EveryNthWithin ==
    ASSUME NEW s, IsList(s), NEW t, NEW n
    PROVE  Within(EveryNth(s, t, n), s)
BY KeptWithin DEF EveryNth

\* A task's lines are lines of the file that are not blank.
LEMMA OwnLines ==
    ASSUME NEW file, FileOK(file), NEW t, NEW n
    PROVE  /\ Within(Own(file, t, n), file.lines)
           /\ \A k \in 1..Len(Own(file, t, n)) : Own(file, t, n)[k] # <<>>
<1> DEFINE base == IF file.format = "csv" THEN Filled(file.lines) ELSE file.lines
<1>1. IsList(file.lines)
  BY DEF FileOK
<1>2. Within(base, file.lines)
  <2>1. Within(file.lines, file.lines)
    BY <1>1 DEF Within
  <2>2. QED
    BY <1>1, <2>1, FilledWithin
<1>3. Own(file, t, n) = Filled(EveryNth(base, t, n))
  BY DEF Own
<1> HIDE DEF base
<1>4. Within(EveryNth(base, t, n), base)
  BY <1>2, EveryNthWithin DEF Within
<1>5. /\ Within(Own(file, t, n), EveryNth(base, t, n))
      /\ \A k \in 1..Len(Own(file, t, n)) : Own(file, t, n)[k] # <<>>
  <2> DEFINE mine == EveryNth(base, t, n)
  <2>1. IsList(mine)
    BY <1>4 DEF Within
  <2> HIDE DEF mine
  <2>2. Within(Filled(mine), mine) /\ \A k \in 1..Len(Filled(mine)) : Filled(mine)[k] # <<>>
    BY <2>1, FilledWithin
  <2>3. QED
    BY <1>3, <2>2 DEF mine
<1>6. QED
  BY <1>2, <1>4, <1>5, WithinWithin

\* When it succeeds, Read makes records of them.
LEMMA ReadResult ==
    ASSUME NEW file, NEW t, NEW n, IsOk(Read(file, t, n))
    PROVE  /\ Value(Read(file, t, n)) =
                 [k \in 1..Len(Own(file, t, n)) |-> AsRecord(file, Own(file, t, n)[k])]
           /\ file.format \in {"csv", "jsonl", "array"}
           /\ file.format = "jsonl" =>
                 \A k \in 1..Len(Own(file, t, n)) : Kind(Own(file, t, n)[k]) # "Bad"
           /\ file.format = "array" =>
                 \A k \in 1..Len(file.lines) : Kind(file.lines[k]) # "Bad"
BY Results DEF Read, Own, AsRecord

\* They are records as expected.
LEMMA ReadOK ==
    ASSUME NEW file, FileOK(file), NEW t, NEW n, IsOk(Read(file, t, n))
    PROVE  RecsOK(Value(Read(file, t, n)))
<1> DEFINE own == Own(file, t, n)
           recs == [k \in 1..Len(own) |-> AsRecord(file, own[k])]
<1>1. /\ IsList(own) /\ Len(own) \in Nat
      /\ \A k \in 1..Len(own) :
            own[k] # <<>> /\ \E i \in 1..Len(file.lines) : own[k] = file.lines[i]
  BY OwnLines DEF Within, IsList
<1>2. /\ Value(Read(file, t, n)) = recs
      /\ file.format \in {"csv", "jsonl", "array"}
      /\ file.format = "jsonl" => \A k \in 1..Len(own) : Kind(own[k]) # "Bad"
      /\ file.format = "array" => \A k \in 1..Len(file.lines) : Kind(file.lines[k]) # "Bad"
  BY ReadResult
<1> HIDE DEF own
<1>3. ASSUME NEW k \in 1..Len(own) PROVE RecOK(AsRecord(file, own[k]))
  <2>1. LineOK(own[k], file.format) /\ own[k] # <<>>
    BY <1>1 DEF FileOK
  <2>2. CASE file.format = "csv"
    <3>1. /\ own[k][2] \in Seq(ToSet(own[k][2]))
          /\ \A i \in 1..Len(own[k][2]) : own[k][2][i] \in Seq(ToSet(own[k][2][i]))
      BY <2>1, <2>2 DEF LineOK
    <3>2. QED
      BY <2>2, <3>1, ParseCsvLineOK DEF AsRecord
  <2>3. CASE file.format # "csv"
    <3>1. Kind(own[k]) # "Bad"
      BY <1>1, <1>2, <2>3
    <3>2. \/ Kind(own[k]) = "Val" /\ ValueOK(own[k][2])
          \/ /\ Kind(own[k]) = "Obj" /\ IsFiniteSet(DOMAIN own[k][2])
             /\ \A f \in DOMAIN own[k][2] : ValueOK(own[k][2][f])
      BY <2>1, <2>3, <3>1 DEF LineOK
    <3>3. QED
      BY <2>3, <3>2, NormalizeJsonOK DEF AsRecord
  <2>4. QED
    BY <2>2, <2>3
<1>4. IsList(recs) /\ Len(recs) = Len(own)
  BY <1>1, FunctionIsList
<1>5. \A k \in 1..Len(recs) : RecOK(recs[k])
  BY <1>3, <1>4
<1> HIDE DEF recs
<1>6. QED
  BY <1>2, <1>4, <1>5 DEF RecsOK

-----------------------------------------------------------------------------
\* What the operators make of records are records again.

\* A list made from a list, element by element.
LEMMA MappedIsList ==
    ASSUME NEW s, IsList(s), NEW t, t = [i \in 1..Len(s) |-> t[i]]
    PROVE  IsList(t) /\ Len(t) = Len(s)
<1>1. Len(s) \in Nat /\ DOMAIN t = 1..Len(s)
  BY DEF IsList
<1>2. QED
  BY <1>1, FunctionIsList

\* Filter takes some of the records.
LEMMA FilterOK ==
    ASSUME NEW recs, NEW p, RecsOK(recs), IsOk(Filter(recs, p))
    PROVE  RecsOK(Value(Filter(recs, p)))
<1>1. Filter(recs, p) = Ok(Kept(recs, {i \in 1..Len(recs) : EvalPredicate(recs[i], p)}))
  BY Results DEF Filter
<1>2. QED
  BY <1>1, Results, KeptRecords

\* Map puts values where values were.
LEMMA ApplyScalarOK ==
    ASSUME NEW v, NEW func, ScalarOK(v)
    PROVE  ScalarOK(ApplyScalar(v, func))
<1> DEFINE up == MapWords(v[2], Upper)
           low == MapWords(v[2], Lower)
<1>1. CASE Kind(v) = "Str"
  <2>1. Len(v[2]) \in Nat
    BY <1>1, ListOfSeq DEF ScalarOK, IsList
  <2>2. up \in Seq(ToSet(up)) /\ low \in Seq(ToSet(low))
    BY <2>1, MappedWords DEF MapWords
  <2> HIDE DEF up, low
  <2>3. \/ ApplyScalar(v, func) = v
        \/ ApplyScalar(v, func) = Str(up)
        \/ ApplyScalar(v, func) = Str(low)
        \/ IsNumeral(v[2]) /\ ApplyScalar(v, func) = Num(2 * NumeralOf[v[2][1]])
    BY <1>1 DEF ApplyScalar, up, low
  <2>4. ScalarOK(Str(up)) /\ ScalarOK(Str(low))
    BY <2>2 DEF ScalarOK, Str, Kind
  <2>5. IsNumeral(v[2]) => ScalarOK(Num(2 * NumeralOf[v[2][1]]))
    <3>1. IsNumeral(v[2]) => NumeralOf[v[2][1]] \in Int
      BY NumeralAssumption DEF IsNumeral
    <3>2. IsNumeral(v[2]) => 2 * NumeralOf[v[2][1]] \in Int
      BY <3>1
    <3>3. QED
      BY <3>2 DEF ScalarOK, Num, Kind
  <2>6. QED
    BY <2>3, <2>4, <2>5
<1>2. CASE Kind(v) = "Num"
  <2>1. ApplyScalar(v, func) = v \/ ApplyScalar(v, func) = Num(2 * v[2])
    BY <1>2 DEF ApplyScalar
  <2>2. 2 * v[2] \in Int
    BY <1>2 DEF ScalarOK
  <2>3. ScalarOK(Num(2 * v[2]))
    BY <2>2 DEF ScalarOK, Num, Kind
  <2>4. QED
    BY <2>1, <2>3
<1>3. CASE Kind(v) # "Str" /\ Kind(v) # "Num"
  BY <1>3 DEF ApplyScalar
<1>4. QED
  BY <1>1, <1>2, <1>3

\* Arrays element by element.
LEMMA ApplyFnOK ==
    ASSUME NEW v, NEW func, ValueOK(v)
    PROVE  ValueOK(ApplyFn(v, func))
<1>1. CASE Kind(v) = "Arr"
  <2> DEFINE vs == v[2]
             ws == [i \in 1..Len(vs) |-> ApplyScalar(vs[i], func)]
  <2>1. vs \in Seq(ToSet(vs)) /\ \A i \in 1..Len(vs) : ScalarOK(vs[i])
    BY <1>1 DEF ValueOK, ScalarOK
  <2>2. IsList(vs)
    BY <2>1, ListOfSeq
  <2>3. IsList(ws) /\ Len(ws) = Len(vs)
    BY <2>2, MappedIsList
  <2>4. \A i \in 1..Len(ws) : ScalarOK(ws[i])
    BY <2>1, <2>3, ApplyScalarOK
  <2>5. ApplyFn(v, func) = Arr(ws)
    BY <1>1 DEF ApplyFn
  <2> HIDE DEF ws
  <2>6. ws \in Seq(ToSet(ws))
    BY <2>3, ToSetOfList
  <2>7. ValueOK(Arr(ws))
    BY <2>4, <2>6 DEF ValueOK, Arr, Kind
  <2>8. QED
    BY <2>5, <2>7
<1>2. CASE Kind(v) # "Arr"
  <2>1. ScalarOK(v) /\ ApplyFn(v, func) = ApplyScalar(v, func)
    BY <1>2 DEF ValueOK, ApplyFn
  <2>2. QED
    BY <2>1, ApplyScalarOK DEF ValueOK
<1>3. QED
  BY <1>1, <1>2

\* What Map makes of one record.
MappedRec(rec, func) == [f \in DOMAIN rec |-> ApplyFn(rec[f], func)]

\* Map makes records of the records.
LEMMA MapOK ==
    ASSUME NEW recs, NEW func, RecsOK(recs), IsOk(Map(recs, func))
    PROVE  /\ Value(Map(recs, func)) = [k \in 1..Len(recs) |-> MappedRec(recs[k], func)]
           /\ RecsOK(Value(Map(recs, func)))
<1> DEFINE out == [k \in 1..Len(recs) |-> MappedRec(recs[k], func)]
<1>1. Value(Map(recs, func)) = out
  BY Results DEF Map, MappedRec
<1>2. IsList(out) /\ Len(out) = Len(recs)
  BY MappedIsList DEF RecsOK
<1>3. ASSUME NEW k \in 1..Len(recs) PROVE RecOK(MappedRec(recs[k], func))
  <2>1. RecOK(recs[k])
    BY DEF RecsOK
  <2>2. DOMAIN MappedRec(recs[k], func) = DOMAIN recs[k]
    BY DEF MappedRec
  <2>3. \A f \in DOMAIN recs[k] : ValueOK(MappedRec(recs[k], func)[f])
    BY <2>1, ApplyFnOK DEF RecOK, MappedRec
  <2>4. QED
    BY <2>1, <2>2, <2>3 DEF RecOK
<1>4. \A k \in 1..Len(out) : RecOK(out[k])
  BY <1>2, <1>3
<1> HIDE DEF out
<1>5. RecsOK(out)
  BY <1>2, <1>4 DEF RecsOK
<1>6. QED
  BY <1>1, <1>5 DEF out

\* A set written as a list.
LEMMA SetToSeqLists ==
    ASSUME NEW S, IsFiniteSet(S)
    PROVE  ListedBy(SetToSeq(S), SetToSeq(S), S, [x \in S |-> x])
<1> DEFINE n == Cardinality(S)
           s == SetToSeq(S)
<1>1. n \in Nat /\ ExistsBijection(1..n, S)
  BY FS_CardinalityType
<1>2. \E f \in [1..n -> S] : IsInjective(f)
  BY <1>1 DEF ExistsBijection, Bijection, Injection
<1>3. s \in [1..n -> S] /\ IsInjective(s)
  BY <1>2 DEF SetToSeq
<1> HIDE DEF s
<1>4. s \in Injection(1..n, S)
  BY <1>3 DEF Injection
<1>5. IsFiniteSet(1..n) /\ Cardinality(1..n) = n
  BY <1>1, FS_Interval
<1>6. s \in Surjection(1..n, S)
  BY <1>4, <1>5, FS_Injection
<1>7. IsList(s) /\ Len(s) = n
  BY <1>1, <1>3, FunctionIsList
<1>8. ListedBy(s, s, S, [x \in S |-> x])
  BY <1>3, <1>6, <1>7 DEF ListedBy, Surjection, IsInjective
<1>9. QED
  BY <1>8 DEF s

\* A record with another value in a field, one with one field, one over another.
LEMMA SpreadOK ==
    ASSUME NEW rec, RecOK(rec), NEW f, NEW vs, IsList(vs),
           \A i \in 1..Len(vs) : ValueOK(vs[i])
    PROVE  RecsOK(Spread(rec, f, vs))
<1> DEFINE out == [i \in 1..Len(vs) |-> [rec EXCEPT ![f] = vs[i]]]
<1>1. IsList(out) /\ Len(out) = Len(vs)
  BY MappedIsList
<1>2. ASSUME NEW i \in 1..Len(vs) PROVE RecOK(out[i])
  <2>1. out[i] = [rec EXCEPT ![f] = vs[i]] /\ DOMAIN out[i] = DOMAIN rec
    OBVIOUS
  <2>2. \A g \in DOMAIN rec : out[i][g] = IF g = f THEN vs[i] ELSE rec[g]
    BY <2>1
  <2> HIDE DEF out
  <2>3. QED
    BY <2>1, <2>2 DEF RecOK
<1>3. Spread(rec, f, vs) = out
  BY DEF Spread
<1> HIDE DEF out
<1>4. QED
  BY <1>1, <1>2, <1>3 DEF RecsOK

\* One field makes a record.
LEMMA FieldRecOK ==
    ASSUME NEW f, NEW v, ValueOK(v)
    PROVE  RecOK(Field(f, v))
<1>1. IsFiniteSet({f})
  BY FS_Singleton
<1>2. QED
  BY <1>1 DEF RecOK, Field

\* Records laid over each other are a record.
LEMMA OverOK ==
    ASSUME NEW a, NEW b, RecOK(a), RecOK(b)
    PROVE  RecOK(Over(a, b))
<1>1. IsFiniteSet(DOMAIN a \cup DOMAIN b)
  BY FS_Union DEF RecOK
<1>2. DOMAIN Over(a, b) = DOMAIN a \cup DOMAIN b
  BY DEF Over
<1>3. \A f \in DOMAIN a \cup DOMAIN b : ValueOK(Over(a, b)[f])
  BY DEF Over, RecOK
<1>4. QED
  BY <1>1, <1>2, <1>3 DEF RecOK

\* What one record becomes in FlatMap.
LEMMA ExpandOK ==
    ASSUME NEW rec, NEW func, RecOK(rec), func[1] \in KnownFlatMaps
    PROVE  RecsOK(Expand(rec, func))
<1>1. RecsOK(<<rec>>)
  BY SingletonIsList DEF RecsOK
<1>2. CASE func[1] = "identity"
  BY <1>1, <1>2 DEF Expand
<1>3. CASE func[1] = "split"
  <2> DEFINE f == func[2]
             words == rec[f][2]
             vs == [i \in 1..Len(words) |-> Str(<<words[i]>>)]
  <2>1. Expand(rec, func) = SplitField(rec, f)
    BY <1>3 DEF Expand
  <2>2. CASE ~(f \in DOMAIN rec /\ Kind(rec[f]) = "Str" /\ words # <<>>)
    <3>1. SplitField(rec, f) = <<rec>>
      BY <2>2 DEF SplitField
    <3>2. QED
      BY <1>1, <2>1, <3>1
  <2>3. CASE f \in DOMAIN rec /\ Kind(rec[f]) = "Str" /\ words # <<>>
    <3>1. SplitField(rec, f) = Spread(rec, f, vs)
      BY <2>3 DEF SplitField, MapWords
    <3>2. words \in Seq(ToSet(words))
      BY <2>3 DEF RecOK, ValueOK, ScalarOK
    <3>3. IsList(words)
      BY <3>2, ListOfSeq
    <3>4. IsList(vs) /\ Len(vs) = Len(words)
      BY <3>3, MappedIsList
    <3>5. ASSUME NEW i \in 1..Len(vs) PROVE ValueOK(vs[i])
      <4> DEFINE w == <<words[i]>>
      <4>1. w \in Seq(ToSet(w))
        BY SingletonIsList, ToSetOfList
      <4>2. vs[i] = Str(w)
        BY <3>4
      <4> HIDE DEF w, vs
      <4>3. ScalarOK(Str(w))
        BY <4>1 DEF ScalarOK, Str, Kind
      <4>4. QED
        BY <4>2, <4>3 DEF ValueOK
    <3> HIDE DEF vs
    <3>6. RecsOK(Spread(rec, f, vs))
      BY <3>4, <3>5, SpreadOK
    <3>7. QED
      BY <2>1, <3>1, <3>6
  <2>4. QED
    BY <2>2, <2>3
<1>4. CASE func[1] = "explode_array"
  <2> DEFINE f == func[2]
             vs == rec[f][2]
  <2>1. Expand(rec, func) = ExplodeArray(rec, f)
    BY <1>4 DEF Expand
  <2>2. CASE ~(f \in DOMAIN rec /\ Kind(rec[f]) = "Arr")
    <3>1. ExplodeArray(rec, f) = <<rec>>
      BY <2>2 DEF ExplodeArray
    <3>2. QED
      BY <1>1, <2>1, <3>1
  <2>3. CASE f \in DOMAIN rec /\ Kind(rec[f]) = "Arr"
    <3>1. ExplodeArray(rec, f) = Spread(rec, f, vs)
      BY <2>3 DEF ExplodeArray
    <3>2. vs \in Seq(ToSet(vs)) /\ \A i \in 1..Len(vs) : ScalarOK(vs[i])
      BY <2>3 DEF RecOK, ValueOK, ScalarOK
    <3>3. IsList(vs) /\ \A i \in 1..Len(vs) : ValueOK(vs[i])
      BY <3>2, ListOfSeq DEF ValueOK
    <3> HIDE DEF vs
    <3>4. RecsOK(Spread(rec, f, vs))
      BY <3>3, SpreadOK
    <3>5. QED
      BY <2>1, <3>1, <3>4
  <2>4. QED
    BY <2>2, <2>3
<1>5. CASE func[1] = "json_expand"
  <2> DEFINE names == SetToSeq(DOMAIN rec)
             out == [i \in 1..Len(names) |-> Field(names[i], rec[names[i]])]
  <2>1. Expand(rec, func) = IF names = <<>> THEN <<rec>> ELSE out
    BY <1>5 DEF Expand, JsonExpand
  <2>2. ListedBy(names, names, DOMAIN rec, [x \in DOMAIN rec |-> x])
    BY SetToSeqLists DEF RecOK
  <2> HIDE DEF names
  <2>3. IsList(out) /\ Len(out) = Len(names)
    BY <2>2, MappedIsList DEF ListedBy
  <2>4. ASSUME NEW i \in 1..Len(names) PROVE RecOK(out[i])
    <3>1. names[i] \in DOMAIN rec
      BY <2>2 DEF ListedBy
    <3>2. RecOK(Field(names[i], rec[names[i]]))
      BY <3>1, FieldRecOK DEF RecOK
    <3>3. QED
      BY <3>2
  <2> HIDE DEF out
  <2>5. RecsOK(out)
    BY <2>3, <2>4 DEF RecsOK
  <2>6. QED
    BY <1>1, <2>1, <2>5
<1>6. QED
  BY <1>2, <1>3, <1>4, <1>5 DEF KnownFlatMaps

\* The lists FlatMap flattens.
Expanded(recs, func) == [k \in 1..Len(recs) |-> Expand(recs[k], func)]

\* They are lists of records when FlatMap knows the function.
LEMMA ExpandedOK ==
    ASSUME NEW recs, NEW func, RecsOK(recs), func[1] \in KnownFlatMaps
    PROVE  /\ IsLists(Expanded(recs, func)) /\ Len(Expanded(recs, func)) = Len(recs)
           /\ \A k \in 1..Len(recs) : /\ Expanded(recs, func)[k] = Expand(recs[k], func)
                                      /\ RecsOK(Expanded(recs, func)[k])
<1>1. IsList(Expanded(recs, func)) /\ Len(Expanded(recs, func)) = Len(recs)
  BY MappedIsList DEF RecsOK, Expanded
<1>2. \A k \in 1..Len(recs) : Expanded(recs, func)[k] = Expand(recs[k], func)
  BY DEF Expanded
<1>3. \A k \in 1..Len(recs) : RecsOK(Expanded(recs, func)[k])
  BY <1>2, ExpandOK DEF RecsOK
<1>4. QED
  BY <1>1, <1>2, <1>3 DEF IsLists, RecsOK

\* FlatMap makes records.
LEMMA FlatMapOK ==
    ASSUME NEW recs, NEW func, RecsOK(recs), IsOk(FlatMap(recs, func))
    PROVE  RecsOK(Value(FlatMap(recs, func)))
<1>1. CASE func[1] \in KnownFlatMaps
  <2>1. Value(FlatMap(recs, func)) = FlattenSeq(Expanded(recs, func))
    BY <1>1, Results DEF FlatMap, Expanded
  <2>2. RecsOK(FlattenSeq(Expanded(recs, func)))
    BY <1>1, ExpandedOK, FlattenRecords DEF IsLists
  <2>3. QED
    BY <2>1, <2>2
<1>2. CASE func[1] \notin KnownFlatMaps
  <2>1. Value(FlatMap(recs, func)) = <<>>
    BY <1>2, Results DEF FlatMap
  <2>2. QED
    BY <2>1, EmptyIsList DEF RecsOK
<1>3. QED
  BY <1>1, <1>2

-----------------------------------------------------------------------------
\* The accumulator of fold_numeric, unrolled.
AccUnrolls(f, how, nums, m) ==
    f = [i \in 1..m |-> IF i = 1 THEN nums[i] ELSE Accumulated(how, f[i - 1], nums[i])]

\* The function by which FoldNumeric is defined exists.
LEMMA AccUnrollExists ==
    ASSUME NEW how, NEW nums, NEW n \in Nat
    PROVE  \E f : AccUnrolls(f, how, nums, n)
<1> DEFINE bad == {m \in Nat : ~\E f : AccUnrolls(f, how, nums, m)}
<1>1. SUFFICES ASSUME bad # {} PROVE FALSE
  OBVIOUS
<1>2. PICK m \in bad : \A h \in bad : m <= h
  BY <1>1, LeastExists
<1>3. m # 0
  <2>1. AccUnrolls([i \in 1..0 |-> nums[i]], how, nums, 0)
    BY DEF AccUnrolls
  <2>2. QED
    BY <1>2, <2>1
<1>4. m - 1 \in Nat /\ m - 1 \notin bad
  BY <1>2, <1>3
<1>5. PICK f : AccUnrolls(f, how, nums, m - 1)
  BY <1>4
<1> DEFINE g == [i \in 1..m |-> IF i < m THEN f[i]
                                ELSE IF i = 1 THEN nums[i] ELSE Accumulated(how, f[i - 1], nums[i])]
<1>6. ASSUME NEW i \in 1..m
      PROVE  g[i] = IF i = 1 THEN nums[i] ELSE Accumulated(how, g[i - 1], nums[i])
  <2>1. CASE i < m
    <3>1. i \in 1..(m - 1) /\ g[i] = f[i]
      BY <1>2, <2>1
    <3>2. f[i] = IF i = 1 THEN nums[i] ELSE Accumulated(how, f[i - 1], nums[i])
      BY <1>5, <3>1 DEF AccUnrolls
    <3>3. i # 1 => g[i - 1] = f[i - 1]
      BY <1>2, <2>1
    <3>4. QED
      BY <3>1, <3>2, <3>3
  <2>2. CASE i = m
    <3>1. i # 1 => g[i - 1] = f[i - 1]
      BY <1>2, <2>2
    <3>2. g[i] = IF i = 1 THEN nums[i] ELSE Accumulated(how, f[i - 1], nums[i])
      BY <2>2
    <3>3. QED
      BY <3>1, <3>2
  <2>3. QED
    BY <1>2, <2>1, <2>2
<1> HIDE DEF bad
<1>7. AccUnrolls(g, how, nums, m)
  <2>1. DOMAIN g = 1..m /\ g = [i \in 1..m |-> g[i]]
    OBVIOUS
  <2> HIDE DEF g
  <2>2. QED
    BY <1>6, <2>1 DEF AccUnrolls
<1>8. m \notin bad
  BY <1>7 DEF bad
<1>9. QED
  BY <1>2, <1>8

\* FoldNumeric is its last value.
LEMMA FoldIsUnrolled ==
    ASSUME NEW how, NEW nums, IsList(nums), nums # <<>>
    PROVE  /\ Len(nums) \in Nat \ {0}
           /\ \E f : AccUnrolls(f, how, nums, Len(nums)) /\ FoldNumeric(how, nums) = f[Len(nums)]
<1> DEFINE n == Len(nums)
           f == CHOOSE f : f = [i \in 1..n |-> IF i = 1 THEN nums[i]
                                               ELSE Accumulated(how, f[i - 1], nums[i])]
<1>0. n \in Nat /\ n # 0
  BY EmptyIsList, ListEqual DEF IsList
<1>1. \E h : h = [i \in 1..n |-> IF i = 1 THEN nums[i] ELSE Accumulated(how, h[i - 1], nums[i])]
  <2>1. \E h : AccUnrolls(h, how, nums, n)
    BY <1>0, AccUnrollExists
  <2>2. QED
    BY <2>1 DEF AccUnrolls
<1>2. f = [i \in 1..n |-> IF i = 1 THEN nums[i] ELSE Accumulated(how, f[i - 1], nums[i])]
  BY <1>1
<1>3. FoldNumeric(how, nums) = f[n]
  BY DEF FoldNumeric
<1> HIDE DEF f
<1>4. QED
  BY <1>0, <1>2, <1>3 DEF AccUnrolls

\* The reducers that fold numbers.
Folding == {"sum", "min", "max"}

\* What they accumulate, of numbers.
LEMMA AccumulatedOK ==
    ASSUME NEW how \in Folding, NEW a \in Int, NEW b \in Int
    PROVE  /\ Accumulated(how, a, b) \in Int
           /\ how = "sum" => Accumulated(how, a, b) = a + b
           /\ how = "min" => Accumulated(how, a, b) = IF a <= b THEN a ELSE b
           /\ how = "max" => Accumulated(how, a, b) = IF a >= b THEN a ELSE b
BY DEF Accumulated, Folding

\* A fold of numbers is a number.
LEMMA FoldOK ==
    ASSUME NEW how \in Folding, NEW nums, IsList(nums), \A i \in 1..Len(nums) : nums[i] \in Int
    PROVE  FoldNumeric(how, nums) \in Int
<1>1. CASE nums = <<>>
  BY <1>1 DEF FoldNumeric
<1>2. CASE nums # <<>>
  <2> DEFINE n == Len(nums)
  <2>1. n \in Nat /\ n # 0
    BY <1>2, FoldIsUnrolled
  <2>2. PICK f : AccUnrolls(f, how, nums, n) /\ FoldNumeric(how, nums) = f[n]
    BY <1>2, FoldIsUnrolled
  <2> DEFINE bad == {m \in Nat : m \in 1..n /\ f[m] \notin Int}
  <2>3. SUFFICES ASSUME bad # {} PROVE FALSE
    <3>1. n \in 1..n
      BY <2>1
    <3>2. QED
      BY <2>1, <2>2, <3>1
  <2>4. PICK m \in bad : \A h \in bad : m <= h
    <3>1. bad \subseteq Nat
      OBVIOUS
    <3> HIDE DEF bad
    <3>2. QED
      BY <2>3, <3>1, LeastExists
  <2>5. m \in Nat /\ m \in 1..n /\ f[m] \notin Int
    BY <2>4
  <2>6. f[m] = IF m = 1 THEN nums[m] ELSE Accumulated(how, f[m - 1], nums[m])
    BY ONLY <2>2, <2>5 DEF AccUnrolls
  <2>7. m # 1 /\ nums[m] \in Int
    BY <2>5, <2>6
  <2>8. m - 1 \in Nat /\ m - 1 \in 1..n /\ m - 1 < m
    BY <2>1, <2>5, <2>7
  <2>9. m - 1 \notin bad
    <3> HIDE DEF bad
    <3>1. QED
      BY <2>4, <2>5, <2>8
  <2>10. f[m - 1] \in Int
    BY <2>8, <2>9
  <2>11. QED
    BY <2>5, <2>6, <2>7, <2>10, AccumulatedOK
<1>3. QED
  BY <1>1, <1>2

\* The numbers in a field are numbers.
LEMMA NumbersOK ==
    ASSUME NEW recs, NEW f, RecsOK(recs)
    PROVE  /\ IsList(Numbers(recs, f)) /\ Len(Numbers(recs, f)) = Len(WithNumber(recs, f))
           /\ \A k \in 1..Len(Numbers(recs, f)) :
                 /\ Numbers(recs, f)[k] = WithNumber(recs, f)[k][f][2]
                 /\ Numbers(recs, f)[k] \in Int
<1> DEFINE I == {i \in 1..Len(recs) : f \in DOMAIN recs[i] /\ Kind(recs[i][f]) = "Num"}
           with == WithNumber(recs, f)
           nums == [k \in 1..Len(with) |-> with[k][f][2]]
<1>1. with = Kept(recs, I) /\ Numbers(recs, f) = nums
  BY DEF WithNumber, Numbers
<1>2. \A i \in I : recs[i][f][2] \in Int
  BY DEF RecsOK, RecOK, ValueOK, ScalarOK
<1>3. IsList(with)
  BY <1>1, KeptElems DEF RecsOK
<1>4. \A k \in 1..Len(with) : with[k][f][2] \in Int
  <2> HIDE DEF I
  <2>1. \A k \in 1..Len(Kept(recs, I)) : \E i \in 1..Len(recs) : i \in I /\ Kept(recs, I)[k] = recs[i]
    BY KeptElems DEF RecsOK
  <2>2. QED
    BY <1>1, <1>2, <2>1
<1> HIDE DEF with
<1>5. IsList(nums) /\ Len(nums) = Len(with)
  BY <1>3, MappedIsList
<1>6. \A k \in 1..Len(nums) : nums[k] = with[k][f][2] /\ nums[k] \in Int
  BY <1>4, <1>5
<1> HIDE DEF nums
<1>7. QED
  BY <1>1, <1>5, <1>6 DEF with

\* The record a reducer makes.
LEMMA ApplyReducerOK ==
    ASSUME NEW recs, NEW red, RecsOK(recs), IsReducer(red)
    PROVE  RecOK(ApplyReducer(red, recs))
<1> DEFINE fold == FoldNumeric(red[1], Numbers(recs, red[2]))
           num == IF Len(red) > 1 THEN fold ELSE 0
           v == CASE red[1] = "count" -> Num(Len(recs))
                  [] red[1] = "collect" -> <<"Recs", recs>>
                  [] OTHER -> Num(num)
<1>1. ApplyReducer(red, recs) = Field(ResultField(red), v)
  BY DEF ApplyReducer
<1>2. CASE red[1] = "count"
  <2>1. v = Num(Len(recs)) /\ Len(recs) \in Int
    BY <1>2 DEF RecsOK, IsList
  <2>2. ValueOK(v)
    BY <2>1 DEF ValueOK, ScalarOK, Num, Kind
  <2>3. QED
    BY <1>1, <2>2, FieldRecOK
<1>3. CASE red[1] = "collect"
  <2>1. v = <<"Recs", recs>>
    BY <1>3
  <2>2. ValueOK(v)
    BY <2>1 DEF ValueOK, ScalarOK, Kind
  <2>3. QED
    BY <1>1, <2>2, FieldRecOK
<1>4. CASE red[1] \in Folding
  <2>1. fold \in Int
    BY <1>4, NumbersOK, FoldOK
  <2>2. v = Num(num)
    BY <1>4 DEF Folding
  <2> HIDE DEF fold, v
  <2>3. num \in Int
    BY <2>1
  <2> HIDE DEF num
  <2>4. ValueOK(v)
    BY <2>2, <2>3 DEF ValueOK, ScalarOK, Num, Kind
  <2>5. QED
    BY <1>1, <2>4, FieldRecOK DEF v, num, fold
<1>5. QED
  BY <1>2, <1>3, <1>4 DEF IsReducer, Folding

\* Reduce makes one record.
LEMMA ReduceOK ==
    ASSUME NEW recs, NEW red, RecsOK(recs), IsOk(Reduce(recs, red))
    PROVE  RecsOK(Value(Reduce(recs, red)))
<1>1. IsReducer(red) /\ Value(Reduce(recs, red)) = <<ApplyReducer(red, recs)>>
  BY Results DEF Reduce
<1>2. RecOK(ApplyReducer(red, recs))
  BY <1>1, ApplyReducerOK
<1>3. QED
  BY <1>1, <1>2, SingletonIsList DEF RecsOK

\* The keys of records, and the record a group becomes.
KeysOf(recs, key) == {recs[i][key][2] : i \in 1..Len(recs)}
GroupRecord(recs, key, red, k) ==
    Over(ApplyReducer(red, Group(recs, key, k)), Field(key, Str(k)))

\* What ReduceByKey puts out, and when.
LEMMA ReduceByKeyResult ==
    ASSUME NEW recs, NEW key, NEW red
    PROVE  /\ IsOk(ReduceByKey(recs, key, red)) <=>
                 /\ IsReducer(red)
                 /\ \A i \in 1..Len(recs) : key \in DOMAIN recs[i] /\ Kind(recs[i][key]) = "Str"
           /\ IsOk(ReduceByKey(recs, key, red)) =>
                 Value(ReduceByKey(recs, key, red)) =
                    [i \in 1..Len(SetToSeq(KeysOf(recs, key))) |->
                        GroupRecord(recs, key, red, SetToSeq(KeysOf(recs, key))[i])]
BY Results DEF ReduceByKey, KeysOf, GroupRecord

\* A list of records has finitely many keys.
LEMMA KeysFinite ==
    ASSUME NEW recs, NEW key, RecsOK(recs)
    PROVE  IsFiniteSet(KeysOf(recs, key))
<1> DEFINE f == [i \in 1..Len(recs) |-> recs[i][key][2]]
<1>1. IsFiniteSet(1..Len(recs))
  BY FS_Interval DEF RecsOK, IsList
<1>2. /\ DOMAIN f = 1..Len(recs) /\ f = [i \in 1..Len(recs) |-> f[i]]
      /\ \A y : y \in KeysOf(recs, key) <=> \E i \in 1..Len(recs) : f[i] = y
  BY DEF KeysOf
<1> HIDE DEF f
<1>3. QED
  BY <1>1, <1>2, ImageFinite

\* A group is some of the records.
LEMMA GroupOK ==
    ASSUME NEW recs, NEW key, NEW k, RecsOK(recs)
    PROVE  RecsOK(Group(recs, key, k))
BY KeptRecords DEF Group

\* ReduceByKey makes records.
LEMMA ReduceByKeyOK ==
    ASSUME NEW recs, NEW key, NEW red, RecsOK(recs), IsOk(ReduceByKey(recs, key, red))
    PROVE  RecsOK(Value(ReduceByKey(recs, key, red)))
<1> DEFINE keys == SetToSeq(KeysOf(recs, key))
           out == [i \in 1..Len(keys) |-> GroupRecord(recs, key, red, keys[i])]
<1>1. /\ IsReducer(red)
      /\ \A i \in 1..Len(recs) : key \in DOMAIN recs[i] /\ Kind(recs[i][key]) = "Str"
      /\ Value(ReduceByKey(recs, key, red)) = out
  BY ReduceByKeyResult
<1>2. ListedBy(keys, keys, KeysOf(recs, key), [x \in KeysOf(recs, key) |-> x])
  BY KeysFinite, SetToSeqLists
<1> HIDE DEF keys
<1>3. IsList(keys) /\ \A p \in 1..Len(keys) : keys[p] \in KeysOf(recs, key)
  BY <1>2 DEF ListedBy
<1>4. IsList(out) /\ Len(out) = Len(keys)
  BY <1>3, MappedIsList
<1>5. ASSUME NEW p \in 1..Len(keys) PROVE RecOK(out[p])
  <2>1. PICK i \in 1..Len(recs) : keys[p] = recs[i][key][2]
    BY <1>3 DEF KeysOf
  <2>2. keys[p] \in Seq(ToSet(keys[p]))
    BY <1>1, <2>1 DEF RecsOK, RecOK, ValueOK, ScalarOK
  <2>3. ValueOK(Str(keys[p]))
    BY <2>2 DEF ValueOK, ScalarOK, Str, Kind
  <2>4. RecOK(ApplyReducer(red, Group(recs, key, keys[p])))
    BY <1>1, GroupOK, ApplyReducerOK
  <2>5. RecOK(GroupRecord(recs, key, red, keys[p]))
    BY <2>3, <2>4, FieldRecOK, OverOK DEF GroupRecord
  <2>6. QED
    BY <2>5
<1> HIDE DEF out
<1>6. QED
  BY <1>1, <1>4, <1>5 DEF RecsOK

-----------------------------------------------------------------------------
\* Prefixing the names of the fields.
LEMMA PrefixOK ==
    ASSUME NEW rec, NEW prefix, RecOK(rec)
    PROVE  RecOK(PrefixFields(rec, prefix))
<1> DEFINE name == [g \in DOMAIN rec |-> prefix \o g]
           names == {prefix \o g : g \in DOMAIN rec}
           new == PrefixFields(rec, prefix)
<1>1. DOMAIN new = names
  BY DEF PrefixFields
<1>2. IsFiniteSet(names)
  <2>1. /\ DOMAIN name = DOMAIN rec /\ name = [g \in DOMAIN rec |-> name[g]]
        /\ \A y : y \in names <=> \E g \in DOMAIN rec : name[g] = y
    OBVIOUS
  <2> HIDE DEF name, names
  <2>2. QED
    BY <2>1, ImageFinite DEF RecOK
<1>3. ASSUME NEW f \in names PROVE ValueOK(new[f])
  <2>1. \E g \in DOMAIN rec : prefix \o g = f
    OBVIOUS
  <2>2. new[f] = rec[CHOOSE g \in DOMAIN rec : prefix \o g = f]
    BY DEF PrefixFields
  <2>3. (CHOOSE g \in DOMAIN rec : prefix \o g = f) \in DOMAIN rec
    BY <2>1
  <2>4. QED
    BY <2>2, <2>3 DEF RecOK
<1> HIDE DEF new, names
<1>4. QED
  BY <1>1, <1>2, <1>3 DEF RecOK, new

\* What Join makes of one or two records.
LEMMA CombinedOK ==
    ASSUME NEW l, NEW r
    PROVE  /\ RecOK(l) /\ RecOK(r) => RecOK(Combined(l, r))
           /\ RecOK(l) => RecOK(LeftOnly(l))
           /\ RecOK(r) => RecOK(RightOnly(r))
<1>1. ValueOK(Null)
  BY DEF ValueOK, ScalarOK, Null, Kind
<1>2. RecOK(Field("right_missing", Null)) /\ RecOK(Field("left_missing", Null))
  BY <1>1, FieldRecOK
<1>3. QED
  BY <1>2, PrefixOK, OverOK DEF Combined, LeftOnly, RightOnly

\* The positions of the right records with the key of a left one.
Partners(l, right, key) == {j \in 1..Len(right) : KeyText(right[j][key]) = KeyText(l[key])}

\* What a left record becomes.
LEMMA PairsOK ==
    ASSUME NEW l, NEW right, NEW key, NEW type, RecOK(l), RecsOK(right)
    PROVE  RecsOK(Pairs(l, right, key, type))
<1> DEFINE partners == Kept(right, Partners(l, right, key))
           out == [j \in 1..Len(partners) |-> Combined(l, partners[j])]
<1>1. Pairs(l, right, key, type) = IF partners # <<>> THEN out
                                   ELSE IF type \in {"Left", "Full"} THEN <<LeftOnly(l)>> ELSE <<>>
  BY DEF Pairs, Partners
<1>2. RecsOK(partners)
  BY KeptRecords
<1> HIDE DEF partners
<1>3. IsList(out) /\ Len(out) = Len(partners)
  BY <1>2, MappedIsList DEF RecsOK
<1>4. \A j \in 1..Len(out) : RecOK(out[j])
  BY <1>2, <1>3, CombinedOK DEF RecsOK
<1>5. RecsOK(out)
  BY <1>3, <1>4 DEF RecsOK
<1>6. RecsOK(<<LeftOnly(l)>>) /\ RecsOK(<<>>)
  BY CombinedOK, SingletonIsList, EmptyIsList DEF RecsOK
<1> HIDE DEF out
<1>7. QED
  BY <1>1, <1>5, <1>6

\* The two parts of the output of Join.
AllPairs(left, right, key, type) == [i \in 1..Len(left) |-> Pairs(left[i], right, key, type)]
RightRest(left, right, key, type) ==
    IF type \in {"Right", "Full"} THEN Unmatched(left, right, key) ELSE <<>>
RestOut(left, right, key, type) ==
    [j \in 1..Len(RightRest(left, right, key, type)) |->
        RightOnly(RightRest(left, right, key, type)[j])]

\* What Join puts out, and when.
LEMMA JoinResult ==
    ASSUME NEW left, NEW right, NEW key, NEW type
    PROVE  /\ IsOk(Join(left, right, key, type)) <=>
                 \A rec \in ToSet(left) \cup ToSet(right) : HasKey(rec, key)
           /\ IsOk(Join(left, right, key, type)) =>
                 Value(Join(left, right, key, type)) =
                     FlattenSeq(AllPairs(left, right, key, type)) \o RestOut(left, right, key, type)
<1> DEFINE keyed == \A rec \in ToSet(left) \cup ToSet(right) : HasKey(rec, key)
           out == FlattenSeq(AllPairs(left, right, key, type)) \o RestOut(left, right, key, type)
<1>1. Join(left, right, key, type) = IF ~keyed THEN Err ELSE Ok(out)
  <2>1. (\E rec \in ToSet(left) \cup ToSet(right) : ~HasKey(rec, key)) <=> ~keyed
    OBVIOUS
  <2> HIDE DEF keyed
  <2>2. QED
    BY <2>1 DEF Join, AllPairs, RightRest, RestOut
<1> HIDE DEF keyed, out
<1>2. QED
  BY <1>1, Results DEF keyed, out

\* The parts are lists of records.
LEMMA JoinParts ==
    ASSUME NEW left, NEW right, NEW key, NEW type, RecsOK(left), RecsOK(right)
    PROVE  /\ IsLists(AllPairs(left, right, key, type))
           /\ Len(AllPairs(left, right, key, type)) = Len(left)
           /\ \A i \in 1..Len(left) :
                 AllPairs(left, right, key, type)[i] = Pairs(left[i], right, key, type)
           /\ RecsOK(FlattenSeq(AllPairs(left, right, key, type)))
           /\ RecsOK(RightRest(left, right, key, type))
           /\ RecsOK(RestOut(left, right, key, type))
           /\ Len(RestOut(left, right, key, type)) = Len(RightRest(left, right, key, type))
           /\ \A j \in 1..Len(RestOut(left, right, key, type)) :
                 RestOut(left, right, key, type)[j] = RightOnly(RightRest(left, right, key, type)[j])
<1> DEFINE all == AllPairs(left, right, key, type)
           rest == RightRest(left, right, key, type)
           out == RestOut(left, right, key, type)
<1>1. IsList(all) /\ Len(all) = Len(left)
  BY MappedIsList DEF RecsOK, AllPairs
<1>2. \A i \in 1..Len(left) : all[i] = Pairs(left[i], right, key, type)
  BY DEF AllPairs
<1>3. \A i \in 1..Len(left) : RecsOK(all[i])
  BY <1>2, PairsOK DEF RecsOK
<1>4. IsLists(all) /\ RecsOK(FlattenSeq(all))
  <2> HIDE DEF all
  <2>1. QED
    BY <1>1, <1>3, FlattenRecords
<1>5. RecsOK(rest)
  BY KeptRecords, EmptyIsList DEF RightRest, Unmatched, RecsOK
<1>6. out = [j \in 1..Len(rest) |-> RightOnly(rest[j])]
  BY DEF RestOut
<1>7. IsList(out) /\ Len(out) = Len(rest)
  <2> HIDE DEF rest
  <2>1. QED
    BY <1>5, <1>6, MappedIsList DEF RecsOK
<1>8. \A j \in 1..Len(out) : out[j] = RightOnly(rest[j]) /\ RecOK(out[j])
  <2> HIDE DEF rest, out
  <2>1. \A j \in 1..Len(out) : out[j] = RightOnly(rest[j])
    BY <1>6, <1>7
  <2>2. QED
    BY <1>5, <1>7, <2>1, CombinedOK DEF RecsOK
<1> HIDE DEF all, rest, out
<1>9. RecsOK(out)
  BY <1>7, <1>8 DEF RecsOK
<1>10. QED
  BY <1>1, <1>2, <1>4, <1>5, <1>7, <1>8, <1>9 DEF all, rest, out

\* Join makes records.
LEMMA JoinOK ==
    ASSUME NEW left, NEW right, NEW key, NEW type, RecsOK(left), RecsOK(right),
           IsOk(Join(left, right, key, type))
    PROVE  RecsOK(Value(Join(left, right, key, type)))
<1> DEFINE a == FlattenSeq(AllPairs(left, right, key, type))
           b == RestOut(left, right, key, type)
<1>1. RecsOK(a) /\ RecsOK(b) /\ Value(Join(left, right, key, type)) = a \o b
  BY JoinParts, JoinResult
<1> HIDE DEF a, b
<1>2. /\ IsList(a \o b) /\ Len(a \o b) = Len(a) + Len(b) /\ Len(a) \in Nat /\ Len(b) \in Nat
      /\ \A i \in 1..(Len(a) + Len(b)) : (a \o b)[i] = IF i <= Len(a) THEN a[i] ELSE b[i - Len(a)]
  BY <1>1, ConcatIsList DEF RecsOK, IsList
<1>3. ASSUME NEW i \in 1..(Len(a) + Len(b)) PROVE RecOK((a \o b)[i])
  <2>1. CASE i <= Len(a)
    <3>1. i \in 1..Len(a)
      BY <1>2, <2>1
    <3>2. QED
      BY <1>1, <1>2, <2>1, <3>1 DEF RecsOK
  <2>2. CASE ~(i <= Len(a))
    <3>1. i - Len(a) \in 1..Len(b)
      BY <1>2, <2>2
    <3>2. QED
      BY <1>1, <1>2, <2>2, <3>1 DEF RecsOK
  <2>3. QED
    BY <2>1, <2>2
<1>4. QED
  BY <1>1, <1>2, <1>3 DEF RecsOK

\* The positions of the records of a bucket.
InBucket(recs, key, n, h, b) == {i \in 1..Len(recs) : Bucket(recs[i], key, n, h) = b}

\* Shuffle puts out the buckets in their order.
LEMMA ShuffleResult ==
    ASSUME NEW recs, NEW key, NEW n \in Nat, NEW h
    PROVE  /\ IsOk(Shuffle(recs, key, n, h))
           /\ Value(Shuffle(recs, key, n, h)) =
                 [b \in 1..n |-> <<b - 1, Kept(recs, InBucket(recs, key, n, h, b - 1))>>]
BY Results DEF Shuffle, InBucket

\* Shuffle makes partitions of records.
LEMMA ShuffleOK ==
    ASSUME NEW recs, NEW key, NEW n \in Nat, n # 0, NEW h, RecsOK(recs)
    PROVE  PartitionsOK(Value(Shuffle(recs, key, n, h)))
<1> DEFINE out == [b \in 1..n |-> <<b - 1, Kept(recs, InBucket(recs, key, n, h, b - 1))>>]
<1>1. Value(Shuffle(recs, key, n, h)) = out
  BY ShuffleResult
<1>2. IsList(out) /\ Len(out) = n
  BY FunctionIsList
<1>3. \A b \in 1..n : RecsOK(out[b][2])
  BY KeptRecords
<1> HIDE DEF out
<1>4. QED
  BY <1>1, <1>2, <1>3 DEF PartitionsOK

-----------------------------------------------------------------------------
\* The chain of operators.

\* When the parts of a result are there, and what they are.
LEMMA PartitionsResult ==
    ASSUME NEW ids, NEW rs
    PROVE  /\ IsOk(Partitions(ids, rs)) <=> \A k \in 1..Len(rs) : IsOk(rs[k])
           /\ IsOk(Partitions(ids, rs)) =>
                 Value(Partitions(ids, rs)) = [k \in 1..Len(rs) |-> <<ids[k], Value(rs[k])>>]
<1> DEFINE ok == \A k \in 1..Len(rs) : IsOk(rs[k])
           out == [k \in 1..Len(rs) |-> <<ids[k], Value(rs[k])>>]
<1>1. Partitions(ids, rs) = IF ~ok THEN Err ELSE Ok(out)
  <2>1. (\E k \in 1..Len(rs) : ~IsOk(rs[k])) <=> ~ok
    OBVIOUS
  <2> HIDE DEF ok
  <2>2. QED
    BY <2>1 DEF Partitions
<1> HIDE DEF ok, out
<1>2. QED
  BY <1>1, Results DEF ok, out

\* They are partitions of records if each is a list of records.
LEMMA PartitionsAreOK ==
    ASSUME NEW ids, NEW rs, IsList(rs), Len(rs) > 0,
           \A k \in 1..Len(rs) : IsOk(rs[k]) => RecsOK(Value(rs[k])),
           IsOk(Partitions(ids, rs))
    PROVE  /\ PartitionsOK(Value(Partitions(ids, rs)))
           /\ Len(Value(Partitions(ids, rs))) = Len(rs)
           /\ \A k \in 1..Len(rs) : Value(Partitions(ids, rs))[k] = <<ids[k], Value(rs[k])>>
<1> DEFINE out == [k \in 1..Len(rs) |-> <<ids[k], Value(rs[k])>>]
<1>1. Value(Partitions(ids, rs)) = out /\ \A k \in 1..Len(rs) : IsOk(rs[k])
  BY PartitionsResult
<1>2. IsList(out) /\ Len(out) = Len(rs)
  BY MappedIsList
<1>3. \A k \in 1..Len(rs) : out[k] = <<ids[k], Value(rs[k])>> /\ RecsOK(out[k][2])
  BY <1>1
<1> HIDE DEF out
<1>4. QED
  BY <1>1, <1>2, <1>3 DEF PartitionsOK

\* An operator on records makes records.
LEMMA OnRecordsOK ==
    ASSUME NEW op, NEW recs, op[1] \in RecordOps, RecsOK(recs), IsOk(OnRecords(op, recs))
    PROVE  RecsOK(Value(OnRecords(op, recs)))
<1>1. CASE op[1] = "Filter"
  BY <1>1, FilterOK DEF OnRecords
<1>2. CASE op[1] = "Map"
  BY <1>2, MapOK DEF OnRecords
<1>3. CASE op[1] = "FlatMap"
  BY <1>3, FlatMapOK DEF OnRecords
<1>4. QED
  BY <1>1, <1>2, <1>3 DEF RecordOps

\* An operator on records, on the partitions of a task.
LEMMA ApplyOnRecords ==
    ASSUME NEW op, NEW h, NEW ps, op[1] \in RecordOps, PartitionsOK(ps)
    PROVE  /\ IsOk(Apply(op, h, ps)) <=> \A k \in 1..Len(ps) : IsOk(OnRecords(op, ps[k][2]))
           /\ IsOk(Apply(op, h, ps)) =>
                 /\ PartitionsOK(Value(Apply(op, h, ps)))
                 /\ Len(Value(Apply(op, h, ps))) = Len(ps)
                 /\ \A k \in 1..Len(ps) :
                       Value(Apply(op, h, ps))[k] = <<ps[k][1], Value(OnRecords(op, ps[k][2]))>>
<1> DEFINE ids == [k \in 1..Len(ps) |-> ps[k][1]]
           rs == [k \in 1..Len(ps) |-> OnRecords(op, ps[k][2])]
<1>1. Apply(op, h, ps) = Partitions(ids, rs)
  BY DEF Apply, RecordOps
<1>2. IsList(rs) /\ Len(rs) = Len(ps)
  BY MappedIsList DEF PartitionsOK
<1>3. \A k \in 1..Len(ps) : ids[k] = ps[k][1] /\ rs[k] = OnRecords(op, ps[k][2])
  OBVIOUS
<1> HIDE DEF ids, rs
<1>4. \A k \in 1..Len(rs) : IsOk(rs[k]) => RecsOK(Value(rs[k]))
  BY <1>2, <1>3, OnRecordsOK DEF PartitionsOK
<1>5. IsOk(Partitions(ids, rs)) <=> \A k \in 1..Len(ps) : IsOk(OnRecords(op, ps[k][2]))
  <2>1. IsOk(Partitions(ids, rs)) <=> \A k \in 1..Len(rs) : IsOk(rs[k])
    BY PartitionsResult
  <2>2. QED
    BY <1>2, <1>3, <2>1
<1>6. IsOk(Partitions(ids, rs)) =>
          /\ PartitionsOK(Value(Partitions(ids, rs)))
          /\ Len(Value(Partitions(ids, rs))) = Len(rs)
          /\ \A k \in 1..Len(rs) : Value(Partitions(ids, rs))[k] = <<ids[k], Value(rs[k])>>
  BY <1>2, <1>4, PartitionsAreOK DEF PartitionsOK
<1>7. QED
  BY <1>1, <1>2, <1>3, <1>5, <1>6

\* One result in one partition.
LEMMA OnePartition ==
    ASSUME NEW id, NEW r
    PROVE  /\ IsOk(Partitions(<<id>>, <<r>>)) <=> IsOk(r)
           /\ IsOk(r) => /\ IsList(Value(Partitions(<<id>>, <<r>>)))
                         /\ Len(Value(Partitions(<<id>>, <<r>>))) = 1
                         /\ Value(Partitions(<<id>>, <<r>>))[1] = <<id, Value(r)>>
<1> DEFINE ids == <<id>>
           rs == <<r>>
<1>1. IsList(rs) /\ Len(rs) = 1 /\ rs[1] = r /\ ids[1] = id
  BY SingletonIsList
<1>2. \A k \in 1..1 : k = 1
  OBVIOUS
<1>3. 1 \in 1..1
  OBVIOUS
<1> HIDE DEF ids, rs
<1>4. IsOk(Partitions(ids, rs)) <=> IsOk(r)
  <2>1. IsOk(Partitions(ids, rs)) <=> \A k \in 1..1 : IsOk(rs[k])
    BY <1>1, PartitionsResult
  <2>2. QED
    BY <1>1, <1>2, <1>3, <2>1
<1>5. ASSUME IsOk(r)
      PROVE  /\ IsList(Value(Partitions(ids, rs))) /\ Len(Value(Partitions(ids, rs))) = 1
             /\ Value(Partitions(ids, rs))[1] = <<id, Value(r)>>
  <2> DEFINE out == [k \in 1..Len(rs) |-> <<ids[k], Value(rs[k])>>]
  <2>1. Value(Partitions(ids, rs)) = out
    BY <1>4, <1>5, PartitionsResult
  <2>2. IsList(out) /\ Len(out) = 1
    BY <1>1, MappedIsList
  <2>3. out[1] = <<id, Value(r)>>
    BY <1>1, <1>3
  <2>4. QED
    BY <2>1, <2>2, <2>3
<1>6. QED
  BY <1>4, <1>5 DEF ids, rs

\* It is a partition of records if the result is a list of them.
LEMMA OnePartitionOK ==
    ASSUME NEW id, NEW r, IsOk(Partitions(<<id>>, <<r>>)), RecsOK(Value(r))
    PROVE  PartitionsOK(Value(Partitions(<<id>>, <<r>>)))
<1> DEFINE out == Value(Partitions(<<id>>, <<r>>))
<1>1. IsList(out) /\ Len(out) = 1 /\ out[1] = <<id, Value(r)>>
  BY OnePartition
<1>2. \A k \in 1..1 : k = 1
  OBVIOUS
<1> HIDE DEF out
<1>3. \A k \in 1..Len(out) : RecsOK(out[k][2])
  BY <1>1, <1>2
<1>4. PartitionsOK(out)
  BY <1>1, <1>3 DEF PartitionsOK
<1>5. QED
  BY <1>4 DEF out

\* Every operator makes partitions of records.
LEMMA ApplyOK ==
    ASSUME NEW j \in Jobs, NEW k \in 1..Len(j.plan), NEW h, NEW ps, PartitionsOK(ps),
           IsOk(Apply(j.plan[k], h, ps))
    PROVE  PartitionsOK(Value(Apply(j.plan[k], h, ps)))
<1> DEFINE op == j.plan[k]
<1>1. /\ op[1] \in {"Filter", "Map", "FlatMap", "Reduce", "ReduceByKey", "Join", "ShuffleByKey"}
      /\ op[1] = "ShuffleByKey" => op[3] \in Nat
  BY PlanOK
<1>2. IsOk(Apply(op, h, ps))
  OBVIOUS
<1> HIDE DEF op
<1>3. RecsOK(Merged(ps))
  BY MergedRecords
<1>4. CASE op[1] \in RecordOps
  BY <1>2, <1>4, ApplyOnRecords DEF op
<1>5. CASE op[1] = "Reduce"
  <2>1. Apply(op, h, ps) = Partitions(<<ps[1][1]>>, <<Reduce(Merged(ps), op[2])>>)
    BY <1>5 DEF Apply, RecordOps
  <2>2. RecsOK(Value(Reduce(Merged(ps), op[2])))
    BY <1>2, <1>3, <2>1, OnePartition, ReduceOK
  <2>3. QED
    BY <1>2, <2>1, <2>2, OnePartitionOK DEF op
<1>6. CASE op[1] = "ReduceByKey"
  <2>1. Apply(op, h, ps) = Partitions(<<ps[1][1]>>, <<ReduceByKey(Merged(ps), op[2], op[3])>>)
    BY <1>6 DEF Apply, RecordOps
  <2>2. RecsOK(Value(ReduceByKey(Merged(ps), op[2], op[3])))
    BY <1>2, <1>3, <2>1, OnePartition, ReduceByKeyOK
  <2>3. QED
    BY <1>2, <2>1, <2>2, OnePartitionOK DEF op
<1>7. CASE op[1] = "Join"
  <2>1. Apply(op, h, ps) = IF Len(ps) # 2 THEN Err
             ELSE Partitions(<<ps[1][1]>>, <<Join(ps[1][2], ps[2][2], op[2], op[3])>>)
    BY <1>7 DEF Apply, RecordOps
  <2>2. /\ Len(ps) = 2
        /\ Apply(op, h, ps) = Partitions(<<ps[1][1]>>, <<Join(ps[1][2], ps[2][2], op[2], op[3])>>)
    BY <1>2, <2>1, Results
  <2>3. RecsOK(ps[1][2]) /\ RecsOK(ps[2][2])
    BY <2>2 DEF PartitionsOK
  <2>4. RecsOK(Value(Join(ps[1][2], ps[2][2], op[2], op[3])))
    BY <1>2, <2>2, <2>3, OnePartition, JoinOK
  <2>5. QED
    BY <1>2, <2>2, <2>4, OnePartitionOK DEF op
<1>8. CASE op[1] = "ShuffleByKey"
  <2>1. Apply(op, h, ps) = Shuffle(Merged(ps), op[2], AtLeastOne(op[3]), h) /\ op[3] \in Nat
    BY <1>1, <1>8 DEF Apply, RecordOps
  <2>2. AtLeastOne(op[3]) \in Nat /\ AtLeastOne(op[3]) # 0
    BY <2>1 DEF AtLeastOne
  <2>3. QED
    BY <1>2, <1>3, <2>1, <2>2, ShuffleOK DEF op
<1>9. QED
  BY <1>1, <1>4, <1>5, <1>6, <1>7, <1>8 DEF RecordOps

\* What a task has read.
LEMMA InputsResult ==
    ASSUME NEW j \in Jobs, NEW t, NEW n
    PROVE  /\ IsOk(Inputs(j, t, n)) <=> \A f \in 1..Len(j.inputs) : IsOk(Read(j.inputs[f], t, n))
           /\ IsOk(Inputs(j, t, n)) =>
                 /\ PartitionsOK(Value(Inputs(j, t, n)))
                 /\ Len(Value(Inputs(j, t, n))) = Len(j.inputs)
                 /\ \A f \in 1..Len(j.inputs) :
                       Value(Inputs(j, t, n))[f] = <<t, Value(Read(j.inputs[f], t, n))>>
<1> DEFINE ids == [f \in 1..Len(j.inputs) |-> t]
           rs == [f \in 1..Len(j.inputs) |-> Read(j.inputs[f], t, n)]
<1>1. Inputs(j, t, n) = Partitions(ids, rs)
  BY DEF Inputs
<1>2. IsList(rs) /\ Len(rs) = Len(j.inputs) /\ Len(j.inputs) > 0
  BY InputsOK, MappedIsList
<1>3. \A f \in 1..Len(j.inputs) : ids[f] = t /\ rs[f] = Read(j.inputs[f], t, n)
  OBVIOUS
<1> HIDE DEF ids, rs
<1>4. \A f \in 1..Len(rs) : IsOk(rs[f]) => RecsOK(Value(rs[f]))
  BY <1>2, <1>3, InputsOK, ReadOK
<1>5. IsOk(Partitions(ids, rs)) <=> \A f \in 1..Len(rs) : IsOk(rs[f])
  BY PartitionsResult
<1>6. IsOk(Partitions(ids, rs)) =>
          /\ PartitionsOK(Value(Partitions(ids, rs)))
          /\ Len(Value(Partitions(ids, rs))) = Len(rs)
          /\ \A f \in 1..Len(rs) : Value(Partitions(ids, rs))[f] = <<ids[f], Value(rs[f])>>
  BY <1>2, <1>4, PartitionsAreOK
<1>7. QED
  BY <1>1, <1>2, <1>3, <1>5, <1>6

\* The chain is a recursive function on the operators; this is how it unrolls.
RunUnrolls(f, j, h, t, n, k) ==
    f = [i \in 0..k |-> IF i = 0 THEN Inputs(j, t, n)
                        ELSE IF IsOk(f[i - 1]) THEN Apply(j.plan[i], h, Value(f[i - 1])) ELSE Err]

\* The function by which After is defined exists.
LEMMA RunExists ==
    ASSUME NEW j, NEW h, NEW t, NEW n, NEW k \in Nat
    PROVE  \E f : RunUnrolls(f, j, h, t, n, k)
<1> DEFINE bad == {m \in Nat : ~\E f : RunUnrolls(f, j, h, t, n, m)}
<1>1. SUFFICES ASSUME bad # {} PROVE FALSE
  OBVIOUS
<1>2. PICK m \in bad : \A x \in bad : m <= x
  BY <1>1, LeastExists
<1>3. m # 0
  <2>1. RunUnrolls([i \in 0..0 |-> Inputs(j, t, n)], j, h, t, n, 0)
    BY DEF RunUnrolls
  <2>2. QED
    BY <1>2, <2>1
<1>4. m - 1 \in Nat /\ m - 1 \notin bad
  BY <1>2, <1>3
<1>5. PICK f : RunUnrolls(f, j, h, t, n, m - 1)
  BY <1>4
<1> DEFINE last == IF IsOk(f[m - 1]) THEN Apply(j.plan[m], h, Value(f[m - 1])) ELSE Err
           g == [i \in 0..m |-> IF i < m THEN f[i] ELSE last]
<1>6. ASSUME NEW i \in 0..m
      PROVE  g[i] = IF i = 0 THEN Inputs(j, t, n)
                    ELSE IF IsOk(g[i - 1]) THEN Apply(j.plan[i], h, Value(g[i - 1])) ELSE Err
  <2>1. CASE i < m
    <3>1. i \in 0..(m - 1) /\ g[i] = f[i]
      BY <1>2, <2>1
    <3>2. f[i] = IF i = 0 THEN Inputs(j, t, n)
                 ELSE IF IsOk(f[i - 1]) THEN Apply(j.plan[i], h, Value(f[i - 1])) ELSE Err
      BY <1>5, <3>1 DEF RunUnrolls
    <3>3. i # 0 => g[i - 1] = f[i - 1]
      BY <1>2, <2>1
    <3> HIDE DEF g
    <3>4. QED
      BY <3>1, <3>2, <3>3
  <2>2. CASE i = m
    <3>1. i # 0 /\ g[m - 1] = f[m - 1] /\ g[m] = last
      BY <1>2, <1>3, <2>2
    <3> HIDE DEF g
    <3>2. QED
      BY <2>2, <3>1
  <2>3. QED
    BY <1>2, <2>1, <2>2
<1> HIDE DEF bad
<1>7. RunUnrolls(g, j, h, t, n, m)
  <2>1. DOMAIN g = 0..m /\ g = [i \in 0..m |-> g[i]]
    OBVIOUS
  <2> HIDE DEF g
  <2>2. QED
    BY <1>6, <2>1 DEF RunUnrolls
<1>8. m \notin bad
  BY <1>7 DEF bad
<1>9. QED
  BY <1>2, <1>8

\* After is its last value.
LEMMA AfterIsRun ==
    ASSUME NEW j, NEW h, NEW t, NEW n, NEW k \in Nat
    PROVE  \E f : RunUnrolls(f, j, h, t, n, k) /\ After(j, h, t, n, k) = f[k]
<1> DEFINE f == CHOOSE f : f = [i \in 0..k |-> IF i = 0 THEN Inputs(j, t, n)
                ELSE IF IsOk(f[i - 1]) THEN Apply(j.plan[i], h, Value(f[i - 1])) ELSE Err]
<1>1. \E g : g = [i \in 0..k |-> IF i = 0 THEN Inputs(j, t, n)
                ELSE IF IsOk(g[i - 1]) THEN Apply(j.plan[i], h, Value(g[i - 1])) ELSE Err]
  <2>1. \E g : RunUnrolls(g, j, h, t, n, k)
    BY RunExists
  <2>2. QED
    BY <2>1 DEF RunUnrolls
<1>2. f = [i \in 0..k |-> IF i = 0 THEN Inputs(j, t, n)
                ELSE IF IsOk(f[i - 1]) THEN Apply(j.plan[i], h, Value(f[i - 1])) ELSE Err]
  BY <1>1
<1>3. After(j, h, t, n, k) = f[k]
  BY DEF After
<1> HIDE DEF f
<1>4. QED
  BY <1>2, <1>3 DEF RunUnrolls

\* Runs over more or fewer operators agree on those both have.
LEMMA RunUnique ==
    ASSUME NEW j, NEW h, NEW t, NEW n, NEW k \in Nat, NEW m \in Nat, NEW f, NEW g,
           RunUnrolls(f, j, h, t, n, k), RunUnrolls(g, j, h, t, n, m),
           NEW i \in Nat, i <= k, i <= m
    PROVE  f[i] = g[i]
<1> DEFINE bad == {e \in Nat : e <= k /\ e <= m /\ f[e] # g[e]}
<1>1. SUFFICES ASSUME bad # {} PROVE FALSE
  OBVIOUS
<1>2. PICK e \in bad : \A x \in bad : e <= x
  <2>1. bad \subseteq Nat
    OBVIOUS
  <2> HIDE DEF bad
  <2>2. QED
    BY <1>1, <2>1, LeastExists
<1>3. e \in Nat /\ e <= k /\ e <= m /\ f[e] # g[e] /\ e \in 0..k /\ e \in 0..m
  BY <1>2
<1>4. f[e] = IF e = 0 THEN Inputs(j, t, n)
             ELSE IF IsOk(f[e - 1]) THEN Apply(j.plan[e], h, Value(f[e - 1])) ELSE Err
  BY ONLY <1>3, RunUnrolls(f, j, h, t, n, k) DEF RunUnrolls
<1>5. g[e] = IF e = 0 THEN Inputs(j, t, n)
             ELSE IF IsOk(g[e - 1]) THEN Apply(j.plan[e], h, Value(g[e - 1])) ELSE Err
  BY ONLY <1>3, RunUnrolls(g, j, h, t, n, m) DEF RunUnrolls
<1>6. e # 0
  BY <1>3, <1>4, <1>5
<1>7. e - 1 \in Nat /\ e - 1 <= k /\ e - 1 <= m /\ e - 1 < e
  BY <1>3, <1>6
<1>8. e - 1 \notin bad
  <2> HIDE DEF bad
  <2>1. QED
    BY <1>2, <1>3, <1>7
<1>9. f[e - 1] = g[e - 1]
  BY <1>7, <1>8
<1>10. QED
  BY <1>3, <1>4, <1>5, <1>6, <1>9

\* One operator after the others.
LEMMA AfterSteps ==
    ASSUME NEW j, NEW h, NEW t, NEW n
    PROVE  /\ After(j, h, t, n, 0) = Inputs(j, t, n)
           /\ \A k \in Nat : k # 0 =>
                 After(j, h, t, n, k) =
                     IF IsOk(After(j, h, t, n, k - 1))
                     THEN Apply(j.plan[k], h, Value(After(j, h, t, n, k - 1))) ELSE Err
<1>1. After(j, h, t, n, 0) = Inputs(j, t, n)
  <2>1. PICK f : RunUnrolls(f, j, h, t, n, 0) /\ After(j, h, t, n, 0) = f[0]
    BY AfterIsRun
  <2>2. 0 \in 0..0
    OBVIOUS
  <2>3. QED
    BY ONLY <2>1, <2>2 DEF RunUnrolls
<1>2. ASSUME NEW k \in Nat, k # 0
      PROVE  After(j, h, t, n, k) =
                 IF IsOk(After(j, h, t, n, k - 1))
                 THEN Apply(j.plan[k], h, Value(After(j, h, t, n, k - 1))) ELSE Err
  <2>1. PICK f : RunUnrolls(f, j, h, t, n, k) /\ After(j, h, t, n, k) = f[k]
    BY AfterIsRun
  <2>2. k - 1 \in Nat /\ k - 1 <= k /\ k - 1 <= k - 1 /\ k \in 0..k
    BY <1>2
  <2>3. PICK g : RunUnrolls(g, j, h, t, n, k - 1) /\ After(j, h, t, n, k - 1) = g[k - 1]
    BY <2>2, AfterIsRun
  <2>4. f[k - 1] = g[k - 1]
    BY <2>1, <2>2, <2>3, RunUnique
  <2>5. f[k] = IF k = 0 THEN Inputs(j, t, n)
               ELSE IF IsOk(f[k - 1]) THEN Apply(j.plan[k], h, Value(f[k - 1])) ELSE Err
    BY ONLY <2>1, <2>2 DEF RunUnrolls
  <2>6. QED
    BY <1>2, <2>1, <2>3, <2>4, <2>5
<1>3. QED
  BY <1>1, <1>2

\* A task that does not fail has partitions of records after each operator.
LEMMA AfterOK ==
    ASSUME NEW j \in Jobs, NEW h, NEW t, NEW n, NEW k \in 0..Len(j.plan),
           IsOk(After(j, h, t, n, k))
    PROVE  PartitionsOK(Value(After(j, h, t, n, k)))
<1> DEFINE len == Len(j.plan)
           bad == {m \in Nat : m <= len /\ IsOk(After(j, h, t, n, m))
                               /\ ~PartitionsOK(Value(After(j, h, t, n, m)))}
<1>1. len \in Nat
  BY PlanOK DEF IsList
<1>2. SUFFICES ASSUME bad # {} PROVE FALSE
  <2>1. k \in Nat /\ k <= len
    BY <1>1
  <2>2. QED
    BY <2>1
<1>3. PICK m \in bad : \A x \in bad : m <= x
  <2>1. bad \subseteq Nat
    OBVIOUS
  <2> HIDE DEF bad
  <2>2. QED
    BY <1>2, <2>1, LeastExists
<1>4. /\ m \in Nat /\ m <= len /\ IsOk(After(j, h, t, n, m))
      /\ ~PartitionsOK(Value(After(j, h, t, n, m)))
  BY <1>3
<1>5. m # 0
  BY <1>4, AfterSteps, InputsResult
<1>6. After(j, h, t, n, m) = IF IsOk(After(j, h, t, n, m - 1))
                             THEN Apply(j.plan[m], h, Value(After(j, h, t, n, m - 1))) ELSE Err
  BY <1>4, <1>5, AfterSteps
<1>7. IsOk(After(j, h, t, n, m - 1))
  BY <1>4, <1>6, Results
<1>8. m - 1 \in Nat /\ m - 1 <= len /\ m - 1 < m /\ m \in 1..len
  BY <1>1, <1>4, <1>5
<1>9. m - 1 \notin bad
  <2> HIDE DEF bad
  <2>1. QED
    BY <1>3, <1>4, <1>8
<1>10. PartitionsOK(Value(After(j, h, t, n, m - 1)))
  BY <1>7, <1>8, <1>9
<1>11. QED
  BY <1>4, <1>6, <1>7, <1>8, <1>10, ApplyOK

-----------------------------------------------------------------------------
(* The state of a job: what its tasks have written.                        *)

\* Two lists of the same things hold every value equally often.
LEMMA ListsBag ==
    ASSUME NEW s, NEW t, NEW E, NEW g, Lists(s, E, g), Lists(t, E, g)
    PROVE  BagOf(s) = BagOf(t)
  <1>1. IsList(s) /\ IsList(t)
    BY DEF Lists, ListedBy
  <1>2. \A x : x \in ToSet(s) <=> x \in ToSet(t)
    <2> SUFFICES ASSUME NEW x PROVE x \in ToSet(s) <=> x \in ToSet(t)
      OBVIOUS
    <2>1. At(s, x) # {} <=> At(t, x) # {}
      BY ListsCount
    <2> QED
      BY <1>1, <2>1, ToSetOfList DEF At
  <1>3. \A x : Cardinality(At(s, x)) = Cardinality(At(t, x))
    BY ListsCount
  <1>4. ToSet(s) = ToSet(t)
    BY <1>2
  <1> QED
    BY <1>3, <1>4 DEF BagOf, At

\* The head and the tail of a list.
LEMMA TailIsList ==
    ASSUME NEW s, IsList(s), s # <<>>
    PROVE  /\ Len(s) > 0 /\ Head(s) = s[1]
           /\ IsList(Tail(s)) /\ Len(Tail(s)) = Len(s) - 1
           /\ \A i \in 1..(Len(s) - 1) : Tail(s)[i] = s[i + 1]
  <1> DEFINE T == ToSet(s)
  <1>1. s \in Seq(T)
    BY ToSetOfList
  <1> HIDE DEF T
  <1>2. Len(s) > 0 /\ Head(s) = s[1]
    BY <1>1
  <1>3. Tail(s) \in Seq(T) /\ Len(Tail(s)) = Len(s) - 1
    BY <1>1
  <1>4. \A i \in 1..(Len(s) - 1) : Tail(s)[i] = s[i + 1]
    BY <1>1
  <1> QED
    BY <1>2, <1>3, <1>4, ListOfSeq

\* Partitions p, the last of those in v, with the others already in files.
Remains(p, v, files) ==
    /\ IsList(p) /\ Len(p) <= Len(v)
    /\ \A i \in 1..Len(p) : p[i] = v[Len(v) - Len(p) + i]
    /\ \A k \in 1..(Len(v) - Len(p)) : v[k][1] \in files

\* The status st of a task whose operators give out, with partitions p left.
TaskOK(st, p, out, files) ==
    /\ st \in {"Queued", "Writing", "Completed", "Failed"}
    /\ st = "Failed" => ~IsOk(out)
    /\ st \in {"Writing", "Completed"} => IsOk(out) /\ Remains(p, Value(out), files)
    /\ st = "Completed" => p = <<>>

\* What is true of every state: the job is one of Jobs, tasks fail or write as
\* their operators say, and a part file holds a partition that some task put out.
DataflowInv ==
    /\ job \in Jobs /\ total \in Totals /\ hash \in Hashes
    /\ DOMAIN status = Tasks /\ DOMAIN pending = Tasks
    /\ \A t \in Tasks : TaskOK(status[t], pending[t], Output(t, total), DOMAIN part)
    /\ \A f \in DOMAIN part : \E t \in Tasks :
          /\ IsOk(Output(t, total))
          /\ \E k \in 1..Len(Value(Output(t, total))) :
                /\ Value(Output(t, total))[k][1] = f
                /\ Value(Output(t, total))[k][2] = part[f]

\* The partitions a task has put out so far stay there.
LEMMA MoreFiles ==
    ASSUME NEW st, NEW p, NEW out, NEW files, NEW more, TaskOK(st, p, out, files),
           files \subseteq more
    PROVE  TaskOK(st, p, out, more)
  BY DEF TaskOK, Remains

\* The invariant holds at first.
LEMMA InitInv == Init => DataflowInv
  <1> SUFFICES ASSUME Init PROVE DataflowInv
    OBVIOUS
  <1>1. hash \in Hashes
    BY DataflowAssumption DEF Init
  <1>2. \A t \in Tasks : TaskOK(status[t], pending[t], Output(t, total), DOMAIN part)
    BY DEF Init, TaskOK
  <1>3. DOMAIN part = {}
    BY DEF Init
  <1> QED
    BY <1>1, <1>2, <1>3 DEF Init, DataflowInv

\* A task that writes its next partition has one fewer left.
LEMMA NextRemains ==
    ASSUME NEW p, NEW v, NEW files, Remains(p, v, files), p # <<>>, Len(v) \in Nat
    PROVE  /\ Remains(Tail(p), v, files \cup {Head(p)[1]})
           /\ \E k \in 1..Len(v) : v[k] = Head(p)
  <1>1. /\ Len(p) \in Nat /\ Len(p) > 0 /\ Head(p) = p[1] /\ IsList(Tail(p)) /\ Len(Tail(p)) = Len(p) - 1
        /\ \A i \in 1..(Len(p) - 1) : Tail(p)[i] = p[i + 1]
    BY TailIsList DEF Remains, IsList
  <1>2. Len(p) <= Len(v) /\ p[1] = v[Len(v) - Len(p) + 1]
    BY <1>1 DEF Remains
  <1>3. ASSUME NEW i \in 1..(Len(p) - 1) PROVE Tail(p)[i] = v[Len(v) - (Len(p) - 1) + i]
    <2>1. i + 1 \in 1..Len(p) /\ Len(v) - Len(p) + (i + 1) = Len(v) - (Len(p) - 1) + i
      BY <1>1
    <2>2. p[i + 1] = v[Len(v) - Len(p) + (i + 1)]
      BY <2>1 DEF Remains
    <2> QED
      BY <1>1, <2>1, <2>2
  <1>4. ASSUME NEW k \in 1..(Len(v) - (Len(p) - 1)) PROVE v[k][1] \in files \cup {Head(p)[1]}
    <2>1. CASE k = Len(v) - Len(p) + 1
      BY <1>1, <1>2, <2>1
    <2>2. CASE k # Len(v) - Len(p) + 1
      <3>1. k \in 1..(Len(v) - Len(p))
        BY <1>1, <2>2
      <3> QED
        BY <3>1 DEF Remains
    <2> QED
      BY <2>1, <2>2
  <1>5. Len(v) - Len(p) + 1 \in 1..Len(v)
    BY <1>1, <1>2
  <1>6. Remains(Tail(p), v, files \cup {Head(p)[1]})
    BY <1>1, <1>2, <1>3, <1>4 DEF Remains
  <1> QED
    BY <1>1, <1>2, <1>5, <1>6

\* Every step keeps it.
LEMMA StepInv == DataflowInv /\ [Next]_vars => DataflowInv'
  <1> SUFFICES ASSUME DataflowInv, [Next]_vars PROVE DataflowInv'
    OBVIOUS
  <1> DEFINE V(t) == Value(Output(t, total))
             Held(f) == \E t \in Tasks : /\ IsOk(Output(t, total))
                                         /\ \E k \in 1..Len(V(t)) : V(t)[k][1] = f /\ V(t)[k][2] = part[f]
  <1>1. CASE UNCHANGED vars
    BY <1>1 DEF DataflowInv, vars, Tasks, Output
  <1>2. ASSUME NEW t \in Tasks, Execute(t) PROVE DataflowInv'
    <2>1. /\ job' = job /\ total' = total /\ hash' = hash /\ part' = part
          /\ status' = [status EXCEPT ![t] = IF IsOk(Output(t, total)) THEN "Writing" ELSE "Failed"]
          /\ pending' = [pending EXCEPT ![t] = IF IsOk(Output(t, total)) THEN V(t) ELSE <<>>]
      BY <1>2 DEF Execute
    <2>2. Tasks' = Tasks /\ \A u : Output(u, total)' = Output(u, total)
      BY <2>1 DEF Tasks, Output
    <2>3. DOMAIN status = Tasks /\ DOMAIN pending = Tasks
      BY DEF DataflowInv
    <2>4. TaskOK(status'[t], pending'[t], Output(t, total), DOMAIN part)
      <3>1. CASE IsOk(Output(t, total))
        <4>1. IsList(V(t))
          <5>1. Len(job.plan) \in 0..Len(job.plan) /\ job \in Jobs
            BY PlanOK DEF DataflowInv, IsList
          <5>2. PartitionsOK(V(t))
            BY <3>1, <5>1, AfterOK DEF Output
          <5> QED
            BY <5>2 DEF PartitionsOK
        <4>2. status'[t] = "Writing" /\ pending'[t] = V(t)
          BY <2>1, <2>3, <3>1
        <4>3. Remains(V(t), V(t), DOMAIN part)
          BY <4>1 DEF Remains, IsList
        <4> QED
          BY <3>1, <4>2, <4>3 DEF TaskOK
      <3>2. CASE ~IsOk(Output(t, total))
        <4>1. status'[t] = "Failed"
          BY <2>1, <2>3, <3>2
        <4> QED
          BY <3>2, <4>1 DEF TaskOK
      <3> QED
        BY <3>1, <3>2
    <2>5. \A u \in Tasks : u # t => status'[u] = status[u] /\ pending'[u] = pending[u]
      BY <2>1, <2>3
    <2>6. \A u \in Tasks : TaskOK(status'[u], pending'[u], Output(u, total), DOMAIN part)
      BY <2>4, <2>5 DEF DataflowInv
    <2>7. DOMAIN status' = Tasks /\ DOMAIN pending' = Tasks
      BY <2>1, <2>3
    <2>8. \A f \in DOMAIN part : Held(f)
      BY DEF DataflowInv
    <2>9. job \in Jobs /\ total \in Totals /\ hash \in Hashes
      BY DEF DataflowInv
    <2> HIDE DEF V
    <2> QED
      BY <2>1, <2>2, <2>6, <2>7, <2>8, <2>9 DEF DataflowInv, V
  <1>3. ASSUME NEW t \in Tasks, WritePart(t) PROVE DataflowInv'
    <2> DEFINE p == pending[t]
    <2>1. /\ job' = job /\ total' = total /\ hash' = hash /\ status' = status
          /\ status[t] = "Writing" /\ p # <<>>
          /\ part' = Over(Field(Head(p)[1], Head(p)[2]), part)
          /\ pending' = [pending EXCEPT ![t] = Tail(p)]
      BY <1>3 DEF WritePart
    <2>2. Tasks' = Tasks /\ \A u : Output(u, total)' = Output(u, total)
      BY <2>1 DEF Tasks, Output
    <2>3. DOMAIN status = Tasks /\ DOMAIN pending = Tasks
      BY DEF DataflowInv
    <2>4. IsOk(Output(t, total)) /\ Remains(p, V(t), DOMAIN part)
      BY <2>1 DEF DataflowInv, TaskOK
    <2>5. PartitionsOK(V(t))
      <3>1. Len(job.plan) \in 0..Len(job.plan) /\ job \in Jobs
        BY PlanOK DEF DataflowInv, IsList
      <3> QED
        BY <2>4, <3>1, AfterOK DEF Output
    <2>6. Len(V(t)) \in Nat
      BY <2>5 DEF PartitionsOK, IsList
    <2> DEFINE f1 == Head(p)[1]
               r1 == Head(p)[2]
    <2>0. part' = Over(Field(f1, r1), part)
      BY <2>1
    <2>7. /\ DOMAIN part' = DOMAIN part \cup {f1} /\ part'[f1] = r1
          /\ \A g \in DOMAIN part : g # f1 => part'[g] = part[g]
      <3> HIDE DEF f1, r1
      <3>1. \A b : /\ DOMAIN Over(Field(f1, r1), b) = DOMAIN b \cup {f1}
                   /\ Over(Field(f1, r1), b)[f1] = r1
                   /\ \A g \in DOMAIN b : g # f1 => Over(Field(f1, r1), b)[g] = b[g]
        BY DEF Over, Field
      <3> QED
        BY <2>0, <3>1
    <2>8. /\ Remains(Tail(p), V(t), DOMAIN part')
          /\ \E k \in 1..Len(V(t)) : V(t)[k] = Head(p)
      <3> HIDE DEF V, p
      <3>1. /\ Remains(Tail(p), V(t), DOMAIN part \cup {Head(p)[1]})
            /\ \E k \in 1..Len(V(t)) : V(t)[k] = Head(p)
        BY <2>1, <2>4, <2>6, NextRemains
      <3> QED
        BY <2>7, <3>1
    <2>9. TaskOK(status'[t], pending'[t], Output(t, total), DOMAIN part')
      <3>1. pending'[t] = Tail(p) /\ status'[t] = "Writing"
        BY <2>1, <2>3
      <3> QED
        BY <2>4, <2>8, <3>1 DEF TaskOK
    <2>10. \A u \in Tasks : u # t => status'[u] = status[u] /\ pending'[u] = pending[u]
      BY <2>1, <2>3
    <2>11. \A u \in Tasks : TaskOK(status'[u], pending'[u], Output(u, total), DOMAIN part')
      <3> SUFFICES ASSUME NEW u \in Tasks, u # t
                   PROVE  TaskOK(status'[u], pending'[u], Output(u, total), DOMAIN part')
        BY <2>9
      <3>1. TaskOK(status[u], pending[u], Output(u, total), DOMAIN part)
        BY DEF DataflowInv
      <3> QED
        BY <2>7, <2>10, <3>1, MoreFiles
    <2>12. ASSUME NEW f \in DOMAIN part'
           PROVE  \E u \in Tasks : /\ IsOk(Output(u, total))
                                   /\ \E k \in 1..Len(V(u)) : V(u)[k][1] = f /\ V(u)[k][2] = part'[f]
      <3>1. CASE f = Head(p)[1]
        <4>1. part'[f] = Head(p)[2]
          BY <2>7, <3>1
        <4>2. PICK k \in 1..Len(V(t)) : V(t)[k] = Head(p)
          BY <2>8
        <4> QED
          BY <2>4, <3>1, <4>1, <4>2
      <3>2. CASE f # Head(p)[1]
        <4>1. f \in DOMAIN part /\ part'[f] = part[f]
          BY <2>7, <3>2
        <4> QED
          BY <4>1 DEF DataflowInv
      <3> QED
        BY <3>1, <3>2
    <2>13. DOMAIN status' = Tasks /\ DOMAIN pending' = Tasks
      BY <2>1, <2>3
    <2>14. job \in Jobs /\ total \in Totals /\ hash \in Hashes
      BY DEF DataflowInv
    <2> HIDE DEF p
    <2> QED
      BY <2>1, <2>2, <2>11, <2>12, <2>13, <2>14 DEF DataflowInv
  <1>4. ASSUME NEW t \in Tasks, Complete(t) PROVE DataflowInv'
    <2>1. /\ job' = job /\ total' = total /\ hash' = hash /\ part' = part /\ pending' = pending
          /\ status[t] = "Writing" /\ pending[t] = <<>>
          /\ status' = [status EXCEPT ![t] = "Completed"]
      BY <1>4 DEF Complete
    <2>2. Tasks' = Tasks /\ \A u : Output(u, total)' = Output(u, total)
      BY <2>1 DEF Tasks, Output
    <2>3. DOMAIN status = Tasks /\ DOMAIN pending = Tasks
      BY DEF DataflowInv
    <2>4. TaskOK(status[t], pending[t], Output(t, total), DOMAIN part)
      BY DEF DataflowInv
    <2>5. TaskOK(status'[t], pending[t], Output(t, total), DOMAIN part)
      <3>1. status'[t] = "Completed"
        BY <2>1, <2>3
      <3> QED
        BY <2>1, <2>4, <3>1 DEF TaskOK
    <2>6. \A u \in Tasks : TaskOK(status'[u], pending'[u], Output(u, total), DOMAIN part)
      BY <2>1, <2>3, <2>5 DEF DataflowInv
    <2>7. DOMAIN status' = Tasks
      BY <2>1, <2>3
    <2>8. \A f \in DOMAIN part : Held(f)
      BY DEF DataflowInv
    <2>9. job \in Jobs /\ total \in Totals /\ hash \in Hashes
      BY DEF DataflowInv
    <2> HIDE DEF V
    <2> QED
      BY <2>1, <2>2, <2>3, <2>6, <2>7, <2>8, <2>9 DEF DataflowInv, V
  <1> QED
    BY <1>1, <1>2, <1>3, <1>4 DEF Next

\* The last operator of a plan makes the output of a task.
LEMMA OutputOf ==
    ASSUME job \in Jobs, NEW t, NEW n
    PROVE  /\ Output(t, n) = IF IsOk(Before(t, n)) THEN Apply(LastOp(job), hash, Value(Before(t, n)))
                             ELSE Err
           /\ IsOk(Before(t, n)) => PartitionsOK(Value(Before(t, n)))
           /\ IsOk(Output(t, n)) => IsOk(Before(t, n)) /\ PartitionsOK(Value(Output(t, n)))
           /\ LastOp(job) = job.plan[Len(job.plan)] /\ Len(job.plan) \in 1..Len(job.plan)
  <1>1. Len(job.plan) \in Nat /\ Len(job.plan) > 0
    BY PlanOK DEF IsList
  <1>2. LastOp(job) = job.plan[Len(job.plan)]
    BY DEF LastOp, Last
  <1>3. After(job, hash, t, n, Len(job.plan)) =
            IF IsOk(After(job, hash, t, n, Len(job.plan) - 1))
            THEN Apply(job.plan[Len(job.plan)], hash, Value(After(job, hash, t, n, Len(job.plan) - 1)))
            ELSE Err
    <2>1. \A k \in Nat : k # 0 =>
              After(job, hash, t, n, k) =
                  IF IsOk(After(job, hash, t, n, k - 1))
                  THEN Apply(job.plan[k], hash, Value(After(job, hash, t, n, k - 1))) ELSE Err
      BY AfterSteps
    <2>2. Len(job.plan) \in Nat /\ Len(job.plan) # 0
      BY <1>1
    <2> QED
      BY <2>1, <2>2
  <1>4. IsOk(Before(t, n)) => PartitionsOK(Value(Before(t, n)))
    BY <1>1, AfterOK DEF Before
  <1>5. IsOk(Output(t, n)) => PartitionsOK(Value(Output(t, n)))
    BY <1>1, AfterOK DEF Output
  <1> QED
    BY <1>1, <1>2, <1>3, <1>4, <1>5, Results DEF Output, Before

\* A plan that ends with a shuffle puts out one partition per bucket.
LEMMA ShuffleOutput ==
    ASSUME job \in Jobs, Ends("ShuffleByKey"), NEW t, NEW n, IsOk(Output(t, n))
    PROVE  /\ IsOk(Before(t, n)) /\ RecsOK(Merged(Value(Before(t, n))))
           /\ Buckets(job) \in Nat /\ Buckets(job) > 0
           /\ Value(Output(t, n)) =
                 [b \in 1..Buckets(job) |->
                     <<b - 1, Kept(Merged(Value(Before(t, n))),
                                   InBucket(Merged(Value(Before(t, n))), LastOp(job)[2],
                                            Buckets(job), hash, b - 1))>>]
  <1>1. IsOk(Before(t, n)) /\ Output(t, n) = Apply(LastOp(job), hash, Value(Before(t, n)))
    BY OutputOf
  <1>2. RecsOK(Merged(Value(Before(t, n))))
    BY <1>1, OutputOf, MergedRecords
  <1>3. LastOp(job)[1] = "ShuffleByKey" /\ Buckets(job) = AtLeastOne(LastOp(job)[3])
    BY DEF Ends, Buckets
  <1>4. Buckets(job) \in Nat /\ Buckets(job) > 0
    <2>1. LastOp(job)[3] \in Nat
      BY <1>3, OutputOf, PlanOK
    <2> QED
      BY <1>3, <2>1 DEF AtLeastOne
  <1>5. Output(t, n) = Shuffle(Merged(Value(Before(t, n))), LastOp(job)[2], Buckets(job), hash)
    BY <1>1, <1>3 DEF Apply, RecordOps
  <1> DEFINE recs == Merged(Value(Before(t, n)))
             N == Buckets(job)
             key == LastOp(job)[2]
  <1>6. Output(t, n) = Shuffle(recs, key, N, hash) /\ N \in Nat
    BY <1>4, <1>5
  <1>7. N > 0
    BY <1>4
  <1> HIDE DEF recs, N, key
  <1>8. Value(Shuffle(recs, key, N, hash)) =
            [b \in 1..N |-> <<b - 1, Kept(recs, InBucket(recs, key, N, hash, b - 1))>>]
    BY <1>6, <1>7, ShuffleResult
  <1> QED
    BY <1>1, <1>2, <1>6, <1>7, <1>8 DEF recs, N, key

\* A file of a shuffled job holds records of its own bucket, of some task.
LEMMA ShuffleFile ==
    ASSUME DataflowInv, Ends("ShuffleByKey"), NEW f \in DOMAIN part
    PROVE  \E t \in Tasks :
              /\ IsOk(Output(t, total)) /\ f + 1 \in 1..Buckets(job)
              /\ part[f] = Kept(Merged(Value(Before(t, total))),
                                InBucket(Merged(Value(Before(t, total))), LastOp(job)[2],
                                         Buckets(job), hash, f))
  <1>1. PICK t \in Tasks : /\ IsOk(Output(t, total))
                           /\ \E k \in 1..Len(Value(Output(t, total))) :
                                 /\ Value(Output(t, total))[k][1] = f
                                 /\ Value(Output(t, total))[k][2] = part[f]
    BY DEF DataflowInv
  <1> DEFINE recs == Merged(Value(Before(t, total)))
             v == [b \in 1..Buckets(job) |->
                     <<b - 1, Kept(recs, InBucket(recs, LastOp(job)[2], Buckets(job), hash, b - 1))>>]
  <1>2. Buckets(job) \in Nat /\ Value(Output(t, total)) = v
    BY <1>1, ShuffleOutput DEF DataflowInv
  <1>3. Len(v) = Buckets(job)
    BY <1>2
  <1>4. PICK k \in 1..Buckets(job) : v[k][1] = f /\ v[k][2] = part[f]
    BY <1>1, <1>2, <1>3
  <1>5. /\ f = k - 1
        /\ part[f] = Kept(recs, InBucket(recs, LastOp(job)[2], Buckets(job), hash, k - 1))
    BY <1>4
  <1>6. f + 1 = k
    BY <1>2, <1>5
  <1> QED
    BY <1>1, <1>5, <1>6

\* All records of such a file are of its bucket.
LEMMA FileBucket ==
    ASSUME DataflowInv, Ends("ShuffleByKey"), NEW f \in DOMAIN part, NEW a \in ToSet(part[f])
    PROVE  Bucket(a, LastOp(job)[2], Buckets(job), hash) = f
  <1>1. PICK t \in Tasks :
              /\ IsOk(Output(t, total))
              /\ part[f] = Kept(Merged(Value(Before(t, total))),
                                InBucket(Merged(Value(Before(t, total))), LastOp(job)[2],
                                         Buckets(job), hash, f))
    BY ShuffleFile
  <1> DEFINE recs == Merged(Value(Before(t, total)))
             I == InBucket(recs, LastOp(job)[2], Buckets(job), hash, f)
  <1>2. IsList(recs)
    BY <1>1, ShuffleOutput DEF DataflowInv, RecsOK
  <1>3. part[f] = Kept(recs, I)
    BY <1>1
  <1>4. \A i \in I : Bucket(recs[i], LastOp(job)[2], Buckets(job), hash) = f
    BY DEF InBucket
  <1> HIDE DEF recs, I
  <1>5. IsList(part[f]) /\ \A p \in 1..Len(part[f]) : \E i \in 1..Len(recs) : i \in I /\ part[f][p] = recs[i]
    <2>1. /\ IsList(Kept(recs, I))
          /\ \A p \in 1..Len(Kept(recs, I)) :
                \E i \in 1..Len(recs) : i \in I /\ Kept(recs, I)[p] = recs[i]
      BY <1>2, KeptElems
    <2> QED
      BY <1>3, <2>1
  <1>6. PICK p \in 1..Len(part[f]) : part[f][p] = a
    BY <1>5, ToSetOfList
  <1> QED
    BY <1>4, <1>5, <1>6

\* Records with one key text go to one bucket.
LEMMA SameBucket ==
    ASSUME NEW a, NEW b, NEW key, NEW n, NEW h, HasKey(a, key), HasKey(b, key),
           KeyText(a[key]) = KeyText(b[key])
    PROVE  Bucket(a, key, n, h) = Bucket(b, key, n, h)
  <1>1. HashInput(a, key) = HashInput(b, key)
    BY DEF HashInput
  <1> QED
    BY <1>1 DEF Bucket

\* A bucket is one of those the shuffle has.
LEMMA BucketRange ==
    ASSUME NEW a, NEW key, NEW n \in Nat, n > 0, NEW h \in Hashes
    PROVE  Bucket(a, key, n, h) \in 0..(n - 1)
  <1> DEFINE x == IF HashInput(a, key) \in DOMAIN h THEN h[HashInput(a, key)] ELSE 0
  <1>1. x \in Nat
    BY DataflowAssumption
  <1>2. Bucket(a, key, n, h) = x % n
    BY DEF Bucket
  <1> HIDE DEF x
  <1> QED
    BY <1>1, <1>2

\* The buckets of a list of records, one after the other and with nothing behind
\* them, hold every record once.
LEMMA BucketsList ==
    ASSUME NEW recs, RecsOK(recs), NEW key, NEW n \in Nat, n > 0, NEW h \in Hashes, NEW ss,
           IsLists(ss), Len(ss) = n + 1, ss[n + 1] = <<>>,
           \A b \in 1..n : ss[b] = Kept(recs, InBucket(recs, key, n, h, b - 1))
    PROVE  BagOf(FlattenSeq(ss)) = BagOf(recs)
  <1> DEFINE F == [b \in 1..(n + 1) |-> InBucket(recs, key, n, h, b - 1)]
             E == 1..Len(recs)
  <1>1. IsList(recs)
    BY DEF RecsOK
  <1>2. \A i \in E, b \in 1..(n + 1) : i \in F[b] <=> Bucket(recs[i], key, n, h) = b - 1
    BY DEF InBucket
  <1>3. \A b \in 1..(n + 1) : F[b] \subseteq E
    BY DEF InBucket
  <1>4. \A i \in E : Bucket(recs[i], key, n, h) \in 0..(n - 1)
    BY BucketRange
  <1>5. ASSUME NEW b \in 1..(n + 1) PROVE Lists(ss[b], F[b], recs)
    <2>1. CASE b \in 1..n
      <3>1. ss[b] = Kept(recs, F[b])
        BY <2>1
      <3>2. {i \in 1..Len(recs) : i \in F[b]} = F[b]
        BY <1>3
      <3> HIDE DEF F
      <3>3. Picks(ss[b], recs, F[b])
        BY <1>1, <3>1, <3>2, KeptPicks
      <3> QED
        BY <3>3, PicksLists
    <2>2. CASE b = n + 1
      <3>1. \A i : i \notin F[b]
        BY <1>2, <1>3, <1>4, <2>2
      <3>2. ss[b] = <<>> /\ F[b] = {}
        BY <2>2, <3>1
      <3>3. ListedBy(<<>>, <<>>, {}, recs)
        BY EmptyIsList DEF ListedBy
      <3> QED
        BY <3>2, <3>3 DEF Lists
    <2> QED
      BY <2>1, <2>2
  <1>6. \A j, k \in 1..(n + 1) : \A e : e \in F[j] /\ e \in F[k] => j = k
    <2> HIDE DEF F
    <2> SUFFICES ASSUME NEW j \in 1..(n + 1), NEW k \in 1..(n + 1), NEW e, e \in F[j], e \in F[k]
                 PROVE  j = k
      OBVIOUS
    <2>1. e \in E
      BY <1>3
    <2>2. Bucket(recs[e], key, n, h) = j - 1 /\ Bucket(recs[e], key, n, h) = k - 1
      BY <1>2, <2>1
    <2> QED
      BY <2>2
  <1>7. \A e : e \in E <=> \E k \in 1..(n + 1) : e \in F[k]
    <2>1. ASSUME NEW e \in E PROVE \E k \in 1..(n + 1) : e \in F[k]
      <3>1. Bucket(recs[e], key, n, h) + 1 \in 1..(n + 1)
        BY <1>4
      <3>2. Bucket(recs[e], key, n, h) \in Int
        BY <1>4
      <3> HIDE DEF F
      <3> QED
        BY <1>2, <3>1, <3>2
    <2> QED
      BY <1>3, <2>1
  <1> HIDE DEF E, F
  <1>8. Lists(FlattenSeq(ss), E, recs)
    BY <1>5, <1>6, <1>7, FlattenLists
  <1>9. Lists(recs, E, recs)
    <2>1. Picks(recs, recs, 1..Len(recs))
      BY <1>1, PicksAll DEF Picks
    <2> QED
      BY <2>1, PicksLists DEF E
  <1> QED
    BY <1>8, <1>9, ListsBag

\* The files a job may have written, in the order of their numbers.
FileList == [f \in 1..(total + Buckets(job)) |-> InFile(f - 1)]

\* When its only task is done, a shuffled job has a file for every bucket.
LEMMA ShuffleWritten ==
    ASSUME DataflowInv, Ends("ShuffleByKey"), Done, total = 1
    PROVE  /\ IsOk(Before(0, 1)) /\ RecsOK(Merged(Value(Before(0, 1))))
           /\ Buckets(job) \in Nat /\ Buckets(job) > 0
           /\ IsLists(FileList) /\ Len(FileList) = Buckets(job) + 1
           /\ FileList[Buckets(job) + 1] = <<>>
           /\ \A b \in 1..Buckets(job) :
                 FileList[b] = Kept(Merged(Value(Before(0, 1))),
                                    InBucket(Merged(Value(Before(0, 1))), LastOp(job)[2],
                                             Buckets(job), hash, b - 1))
  <1> DEFINE recs == Merged(Value(Before(0, 1)))
             N == Buckets(job)
             key == LastOp(job)[2]
             In(b) == Kept(recs, InBucket(recs, key, N, hash, b - 1))
             v == [b \in 1..N |-> <<b - 1, In(b)>>]
             p == pending[0]
  <1>1. Tasks = {0}
    BY DEF Tasks
  <1>2. TaskOK(status[0], p, Output(0, 1), DOMAIN part) /\ status[0] = "Completed"
    BY <1>1 DEF Done, DataflowInv
  <1>3. IsOk(Output(0, 1)) /\ Remains(p, Value(Output(0, 1)), DOMAIN part) /\ p = <<>>
    BY <1>2 DEF TaskOK
  <1>4. /\ IsOk(Before(0, 1)) /\ RecsOK(recs) /\ N \in Nat /\ N > 0
        /\ Value(Output(0, 1)) = v
    BY <1>3, ShuffleOutput DEF DataflowInv
  <1>5. \A b \in 1..N : b - 1 \in DOMAIN part
    <2>1. Len(v) = N /\ \A b \in 1..N : v[b][1] = b - 1
      BY <1>4
    <2>2. Len(p) = 0
      BY <1>3, EmptyIsList
    <2>3. Remains(p, v, DOMAIN part)
      BY <1>3, <1>4
    <2> HIDE DEF v, p
    <2>4. \A k \in 1..(Len(v) - 0) : v[k][1] \in DOMAIN part
      BY <2>2, <2>3 DEF Remains
    <2> QED
      BY <1>4, <2>1, <2>4
  <1>6. \A f \in DOMAIN part : /\ f + 1 \in 1..N
                               /\ part[f] = Kept(recs, InBucket(recs, key, N, hash, f))
    BY <1>1, ShuffleFile
  <1>7. total + N = N + 1
    BY <1>4
  <1>8. ASSUME NEW b \in 1..N PROVE FileList[b] = In(b)
    <2>1. FileList[b] = InFile(b - 1)
      BY <1>4, <1>7 DEF FileList
    <2>2. InFile(b - 1) = part[b - 1]
      BY <1>5 DEF InFile
    <2> QED
      BY <1>5, <1>6, <2>1, <2>2
  <1>9. FileList[N + 1] = <<>>
    <2>1. FileList[N + 1] = InFile(N + 1 - 1) /\ N + 1 - 1 = N
      BY <1>4, <1>7 DEF FileList
    <2>2. N \notin DOMAIN part
      BY <1>4, <1>6
    <2> QED
      BY <2>1, <2>2 DEF InFile
  <1>10. IsList(FileList) /\ Len(FileList) = N + 1
    <2>1. N + 1 \in Nat /\ FileList = [f \in 1..(N + 1) |-> InFile(f - 1)]
      BY <1>4, <1>7 DEF FileList
    <2> HIDE DEF N
    <2>2. DOMAIN FileList = 1..(N + 1) /\ FileList = [f \in 1..(N + 1) |-> FileList[f]]
      BY <2>1
    <2> QED
      BY <2>1, <2>2, FunctionIsList
  <1>11. ASSUME NEW b \in 1..(N + 1) PROVE IsList(FileList[b])
    <2>1. CASE b = N + 1
      BY <1>9, <2>1, EmptyIsList
    <2>2. CASE b # N + 1
      <3>1. b \in 1..N
        BY <1>4, <2>2
      <3>2. IsList(In(b))
        BY <1>4, KeptElems DEF RecsOK
      <3> QED
        BY <1>8, <3>1, <3>2
    <2> QED
      BY <2>1, <2>2
  <1>12. IsLists(FileList)
    BY <1>10, <1>11 DEF IsLists
  <1> QED
    BY <1>4, <1>8, <1>9, <1>10, <1>12

\* The invariant keeps the records of one key in one bucket.
LEMMA Colocates == DataflowInv => KeysColocated
  <1> SUFFICES ASSUME DataflowInv, Ends("ShuffleByKey") PROVE KeysColocated
    BY DEF KeysColocated
  <1> DEFINE key == LastOp(job)[2]
  <1>1. ASSUME NEW f \in DOMAIN part, NEW g \in DOMAIN part, f # g,
               NEW a \in ToSet(part[f]), NEW b \in ToSet(part[g]),
               HasKey(a, key), HasKey(b, key)
        PROVE  KeyText(a[key]) # KeyText(b[key])
    <2>1. Bucket(a, key, Buckets(job), hash) = f /\ Bucket(b, key, Buckets(job), hash) = g
      BY FileBucket
    <2> HIDE DEF key
    <2> QED
      BY <1>1, <2>1, SameBucket
  <1>2. ASSUME Done, total = 1 PROVE BagOf(Written) = BagOf(Merged(Value(Before(0, 1))))
    <2> DEFINE recs == Merged(Value(Before(0, 1)))
               N == Buckets(job)
    <2>1. /\ RecsOK(recs) /\ N \in Nat /\ N > 0
          /\ IsLists(FileList) /\ Len(FileList) = N + 1 /\ FileList[N + 1] = <<>>
          /\ \A b \in 1..N : FileList[b] = Kept(recs, InBucket(recs, key, N, hash, b - 1))
      BY <1>2, ShuffleWritten
    <2>2. Written = FlattenSeq(FileList) /\ hash \in Hashes
      BY DEF Written, FileList, DataflowInv
    <2> HIDE DEF key, recs, N
    <2>3. BagOf(FlattenSeq(FileList)) = BagOf(recs)
      BY ZenonT(60), <2>1, <2>2, BucketsList
    <2> QED
      BY <2>2, <2>3 DEF recs
  <1> QED
    BY <1>1, <1>2 DEF KeysColocated

\* Every state of a job satisfies the invariant: a task fails exactly when its
\* operators do, and a part file holds a partition some task put out.
THEOREM DataflowInvariant == Spec => []DataflowInv
  BY InitInv, StepInv, PTL DEF Spec

\* After a shuffle records with one key text are never in the files of two
\* buckets, and one task alone loses none, for any hash function and any files.
THEOREM KeysStayColocated == Spec => []KeysColocated
  BY DataflowInvariant, Colocates, PTL

-----------------------------------------------------------------------------
(* Operators on a record at a time keep shares.                            *)

\* Only what the tasks have counts.
LEMMA SplitSame ==
    ASSUME NEW n, NEW u, NEW s, Split(n, u, s), NEW v, \A t \in 0..(n - 1) : v[t] = u[t]
    PROVE  Split(n, v, s)
  BY DEF Split, SplitBy

\* A list of what is in K is sifted.
LEMMA KeptSifted ==
    ASSUME NEW s, IsList(s), NEW I, NEW K, \A i \in 1..Len(s) : i \in I <=> s[i] \in K
    PROVE  Sifted(Kept(s, I), s, K)
  <1>1. {i \in 1..Len(s) : i \in I} = {i \in 1..Len(s) : s[i] \in K}
    OBVIOUS
  <1>2. Picks(Kept(s, I), s, {i \in 1..Len(s) : i \in I})
    BY KeptPicks
  <1> QED
    BY <1>1, <1>2 DEF Sifted

\* Of every n-th line on, tasks 0 to n - 1 have shares.
LEMMA EveryNthSplit ==
    ASSUME NEW ls, IsList(ls), NEW n \in Nat, n > 0
    PROVE  Split(n, [t \in 0..(n - 1) |-> EveryNth(ls, t, n)], EveryNth(ls, 0, 1))
  <1> DEFINE u == [t \in 0..(n - 1) |-> EveryNth(ls, t, n)]
             who == [i \in 1..Len(ls) |-> (i - 1) % n]
  <1>1. Len(ls) \in Nat
    BY DEF IsList
  <1>2. \A i \in 1..Len(ls) : who[i] \in 0..(n - 1)
    BY <1>1
  <1>3. ASSUME NEW t \in 0..(n - 1) PROVE Picks(u[t], ls, Theirs(ls, who, t))
    <2> DEFINE I == {i \in 1..Len(ls) : (i - 1) % n = t}
    <2>1. u[t] = Kept(ls, I)
      BY DEF EveryNth
    <2>2. {i \in 1..Len(ls) : i \in I} = Theirs(ls, who, t)
      BY DEF Theirs
    <2> HIDE DEF I, who, u
    <2> QED
      BY <2>1, <2>2, KeptPicks
  <1>4. EveryNth(ls, 0, 1) = ls
    <2> DEFINE I == {i \in 1..Len(ls) : (i - 1) % 1 = 0}
    <2>1. EveryNth(ls, 0, 1) = Kept(ls, I)
      BY DEF EveryNth
    <2>2. {i \in 1..Len(ls) : i \in I} = 1..Len(ls)
      BY <1>1
    <2> HIDE DEF I
    <2>3. Picks(Kept(ls, I), ls, 1..Len(ls))
      BY <2>2, KeptPicks
    <2>4. Picks(ls, ls, 1..Len(ls))
      BY PicksAll DEF Picks
    <2> QED
      BY <2>1, <2>3, <2>4, PicksUnique
  <1> HIDE DEF u, who
  <1>5. Split(n, u, ls)
    BY <1>2, <1>3 DEF Split, SplitBy
  <1> QED
    BY <1>4, <1>5 DEF u

\* So have they of the lines that are not blank.
LEMMA FilledSplit ==
    ASSUME NEW n, NEW u, NEW s, Split(n, u, s)
    PROVE  Split(n, [t \in 0..(n - 1) |-> Filled(u[t])], Filled(s))
  <1> DEFINE K == {x \in ToSet(s) : x # <<>>}
             v == [t \in 0..(n - 1) |-> Filled(u[t])]
  <1>1. /\ IsList(s) /\ \A t \in 0..(n - 1) : IsList(u[t])
        /\ \A t \in 0..(n - 1) : \A q \in 1..Len(u[t]) : \E p \in 1..Len(s) : u[t][q] = s[p]
    BY SplitElems DEF SameElems
  <1>2. \A p \in 1..Len(s) : s[p] \in ToSet(s)
    BY <1>1, ToSetOfList
  <1>3. Sifted(Filled(s), s, K)
    <2> DEFINE I == {i \in 1..Len(s) : s[i] # <<>>}
    <2>1. \A i \in 1..Len(s) : i \in I <=> s[i] \in K
      BY <1>2
    <2> HIDE DEF K
    <2>2. Sifted(Kept(s, I), s, K)
      BY <1>1, <2>1, KeptSifted
    <2> QED
      BY <2>2 DEF Filled
  <1>4. ASSUME NEW t \in 0..(n - 1) PROVE Sifted(v[t], u[t], K)
    <2> DEFINE z == u[t]
               I == {i \in 1..Len(z) : z[i] # <<>>}
    <2>1. \A i \in 1..Len(z) : i \in I <=> z[i] \in K
      BY <1>1, <1>2
    <2>2. v[t] = Kept(z, I) /\ IsList(z)
      BY <1>1 DEF Filled
    <2> HIDE DEF K, z, I, v
    <2>3. Sifted(Kept(z, I), z, K)
      BY <2>1, <2>2, KeptSifted
    <2> QED
      BY <2>2, <2>3 DEF z
  <1> HIDE DEF K, v
  <1>5. Split(n, v, Filled(s))
    BY <1>3, <1>4, SplitSifted
  <1> QED
    BY <1>5 DEF v

\* The tasks' own lines are shares of the lines of one task alone.
LEMMA OwnSplit ==
    ASSUME NEW file, FileOK(file), NEW n \in Nat, n > 0
    PROVE  Split(n, [t \in 0..(n - 1) |-> Own(file, t, n)], Own(file, 0, 1))
  <1> DEFINE ls == IF file.format = "csv" THEN Filled(file.lines) ELSE file.lines
             u == [t \in 0..(n - 1) |-> EveryNth(ls, t, n)]
             v == [t \in 0..(n - 1) |-> Filled(u[t])]
             w == [t \in 0..(n - 1) |-> Own(file, t, n)]
  <1>1. IsList(ls)
    BY FilledWithin DEF FileOK, Within
  <1>2. Own(file, 0, 1) = Filled(EveryNth(ls, 0, 1)) /\ \A t \in 0..(n - 1) : w[t] = v[t]
    BY DEF Own
  <1> HIDE DEF ls
  <1>3. Split(n, u, EveryNth(ls, 0, 1))
    BY <1>1, EveryNthSplit
  <1> HIDE DEF u
  <1>4. Split(n, v, Filled(EveryNth(ls, 0, 1)))
    BY <1>3, FilledSplit
  <1> HIDE DEF v, w
  <1>5. Split(n, w, Filled(EveryNth(ls, 0, 1)))
    BY <1>2, <1>4, SplitSame
  <1> QED
    BY <1>2, <1>5 DEF w

\* When a task can read a file.
LEMMA ReadFails ==
    ASSUME NEW file, NEW t, NEW n
    PROVE  IsOk(Read(file, t, n)) <=>
              /\ file.format \in {"csv", "jsonl", "array"}
              /\ file.format = "csv" => file.header # <<>>
              /\ file.format = "jsonl" =>
                    \A k \in 1..Len(Own(file, t, n)) : Kind(Own(file, t, n)[k]) # "Bad"
              /\ file.format = "array" => \A k \in 1..Len(file.lines) : Kind(file.lines[k]) # "Bad"
  BY Results DEF Read, Own

\* One task can read a file if all can read their shares of it, and these are
\* shares of what it reads.
LEMMA ReadSplit ==
    ASSUME NEW file, FileOK(file), NEW n \in Nat, n > 0
    PROVE  /\ IsOk(Read(file, 0, 1)) <=> \A t \in 0..(n - 1) : IsOk(Read(file, t, n))
           /\ IsOk(Read(file, 0, 1)) =>
                 Split(n, [t \in 0..(n - 1) |-> Value(Read(file, t, n))], Value(Read(file, 0, 1)))
  <1> DEFINE s == Own(file, 0, 1)
             u == [t \in 0..(n - 1) |-> Own(file, t, n)]
             r == Value(Read(file, 0, 1))
             v == [t \in 0..(n - 1) |-> Value(Read(file, t, n))]
             m == [x \in ToSet(s) |-> AsRecord(file, x)]
  <1>1. Split(n, u, s)
    BY OwnSplit
  <1>2. /\ IsList(s) /\ \A t \in 0..(n - 1) : IsList(u[t])
        /\ \A t \in 0..(n - 1) : \A q \in 1..Len(u[t]) : \E p \in 1..Len(s) : u[t][q] = s[p]
        /\ \A p \in 1..Len(s) : \E t \in 0..(n - 1) : \E q \in 1..Len(u[t]) : u[t][q] = s[p]
    <2> HIDE DEF s, u
    <2>1. SameElems(n, u, s)
      BY <1>1, SplitElems
    <2> QED
      BY <2>1 DEF SameElems
  <1>3. (\A k \in 1..Len(s) : Kind(s[k]) # "Bad") <=>
            \A t \in 0..(n - 1) : \A k \in 1..Len(u[t]) : Kind(u[t][k]) # "Bad"
    <2> HIDE DEF s, u
    <2> QED
      BY <1>2
  <1>4. IsOk(Read(file, 0, 1)) <=> \A t \in 0..(n - 1) : IsOk(Read(file, t, n))
    <2>1. 0 \in 0..(n - 1)
      OBVIOUS
    <2>2. \A t \in 0..(n - 1) : u[t] = Own(file, t, n)
      OBVIOUS
    <2> DEFINE C == /\ file.format \in {"csv", "jsonl", "array"}
                    /\ file.format = "csv" => file.header # <<>>
                    /\ file.format = "array" =>
                          \A k \in 1..Len(file.lines) : Kind(file.lines[k]) # "Bad"
    <2>3. IsOk(Read(file, 0, 1)) <=>
              C /\ (file.format = "jsonl" => \A k \in 1..Len(s) : Kind(s[k]) # "Bad")
      BY ReadFails
    <2>4. \A t \in 0..(n - 1) : IsOk(Read(file, t, n)) <=>
              C /\ (file.format = "jsonl" => \A k \in 1..Len(u[t]) : Kind(u[t][k]) # "Bad")
      BY <2>2, ReadFails
    <2> HIDE DEF u, s, C
    <2> QED
      BY <1>3, <2>1, <2>3, <2>4
  <1>5. ASSUME IsOk(Read(file, 0, 1)) PROVE Split(n, v, r)
    <2>1. \A p \in 1..Len(s) : s[p] \in ToSet(s)
      BY <1>2, ToSetOfList
    <2>2. Mapped(r, s, m)
      <3>1. r = [k \in 1..Len(s) |-> AsRecord(file, s[k])]
        BY <1>5, ReadResult
      <3> HIDE DEF s, r
      <3>2. IsList(r) /\ Len(r) = Len(s)
        BY <1>2, <3>1, MappedIsList
      <3> QED
        BY <2>1, <3>1, <3>2 DEF Mapped
    <2>3. ASSUME NEW t \in 0..(n - 1) PROVE Mapped(v[t], u[t], m)
      <3> DEFINE z == u[t]
                 y == v[t]
      <3>1. y = [k \in 1..Len(z) |-> AsRecord(file, z[k])]
        <4>1. IsOk(Read(file, t, n))
          BY <1>4, <1>5
        <4> QED
          BY <4>1, ReadResult
      <3>2. IsList(z) /\ \A q \in 1..Len(z) : z[q] \in ToSet(s)
        BY ZenonT(60), <1>2, <2>1
      <3> HIDE DEF s, y, z
      <3>3. IsList(y) /\ Len(y) = Len(z)
        BY <3>1, <3>2, MappedIsList
      <3>4. Mapped(y, z, m)
        BY <3>1, <3>2, <3>3 DEF Mapped
      <3> QED
        BY <3>4 DEF y, z
    <2> HIDE DEF s, u, r, v, m
    <2> QED
      BY <1>1, <2>2, <2>3, SplitMapped
  <1> QED
    BY <1>4, <1>5

\* Shares of records are records.
LEMMA SharesOK ==
    ASSUME NEW n, NEW u, NEW s, Split(n, u, s), RecsOK(s), NEW t \in 0..(n - 1)
    PROVE  RecsOK(u[t])
  <1>1. SameElems(n, u, s)
    BY SplitElems
  <1> QED
    BY <1>1 DEF SameElems, RecsOK

\* What an operator makes of the shares.
OnShares(op, n, u) == [t \in 0..(n - 1) |-> Value(OnRecords(op, u[t]))]
Together(op, n, u, s) ==
    /\ IsOk(OnRecords(op, s)) <=> \A t \in 0..(n - 1) : IsOk(OnRecords(op, u[t]))
    /\ IsOk(OnRecords(op, s)) => Split(n, OnShares(op, n, u), Value(OnRecords(op, s)))

\* Filter on shares.
LEMMA FilterSplit ==
    ASSUME NEW n \in Nat, n > 0, NEW u, NEW s, Split(n, u, s), NEW op, op[1] = "Filter"
    PROVE  Together(op, n, u, s)
  <1>1. SameElems(n, u, s)
    BY SplitElems
  <1>2. \A z : OnRecords(op, z) = Filter(z, op[2])
    BY DEF OnRecords
  <1>3. \A z : IsOk(Filter(z, op[2])) <=> op[2][1] \in KnownPredicates
    BY Results DEF Filter
  <1>4. 0 \in 0..(n - 1)
    OBVIOUS
  <1>5. ASSUME op[2][1] \in KnownPredicates
        PROVE  Split(n, OnShares(op, n, u), Value(OnRecords(op, s)))
    <2> DEFINE K == {x \in ToSet(s) : EvalPredicate(x, op[2])}
               I(z) == {i \in 1..Len(z) : EvalPredicate(z[i], op[2])}
               v == OnShares(op, n, u)
    <2>1. \A z : Value(OnRecords(op, z)) = Kept(z, I(z))
      BY <1>2, <1>5, Results DEF Filter
    <2>2. \A p \in 1..Len(s) : s[p] \in ToSet(s)
      BY <1>1, ToSetOfList DEF SameElems
    <2>3. Sifted(Value(OnRecords(op, s)), s, K)
      <3> DEFINE J == I(s)
      <3>1. \A i \in 1..Len(s) : i \in J <=> s[i] \in K
        BY <2>2
      <3>2. Value(OnRecords(op, s)) = Kept(s, J)
        BY <2>1
      <3> HIDE DEF K, J
      <3>3. Sifted(Kept(s, J), s, K)
        BY <1>1, <3>1, KeptSifted DEF SameElems
      <3> QED
        BY <3>2, <3>3
    <2>4. ASSUME NEW t \in 0..(n - 1) PROVE Sifted(v[t], u[t], K)
      <3> DEFINE z == u[t]
                 J == I(z)
      <3>1. IsList(z) /\ \A q \in 1..Len(z) : \E p \in 1..Len(s) : z[q] = s[p]
        BY <1>1 DEF SameElems
      <3>2. \A i \in 1..Len(z) : i \in J <=> z[i] \in K
        BY <2>2, <3>1
      <3>3. v[t] = Kept(z, J)
        BY <2>1 DEF OnShares
      <3> HIDE DEF K, z, J, v
      <3>4. Sifted(Kept(z, J), z, K)
        BY <3>1, <3>2, KeptSifted
      <3> QED
        BY <3>3, <3>4 DEF z
    <2> HIDE DEF K, v
    <2>5. Split(n, v, Value(OnRecords(op, s)))
      BY <2>3, <2>4, SplitSifted
    <2> QED
      BY <2>5 DEF v
  <1> QED
    BY <1>2, <1>3, <1>4, <1>5 DEF Together

\* Map on shares.
LEMMA MapSplit ==
    ASSUME NEW n \in Nat, n > 0, NEW u, NEW s, Split(n, u, s), RecsOK(s), NEW op, op[1] = "Map"
    PROVE  Together(op, n, u, s)
  <1>1. SameElems(n, u, s)
    BY SplitElems
  <1>2. \A z : OnRecords(op, z) = Map(z, op[2])
    BY DEF OnRecords
  <1>3. \A z : IsOk(Map(z, op[2])) <=> op[2] \in KnownMaps \/ \A k \in 1..Len(z) : ~MapNotices(z[k])
    BY Results DEF Map
  <1>4. (\A k \in 1..Len(s) : ~MapNotices(s[k])) <=>
            \A t \in 0..(n - 1) : \A k \in 1..Len(u[t]) : ~MapNotices(u[t][k])
    BY <1>1 DEF SameElems
  <1>5. IsOk(OnRecords(op, s)) <=> \A t \in 0..(n - 1) : IsOk(OnRecords(op, u[t]))
    <2>1. 0 \in 0..(n - 1)
      OBVIOUS
    <2> QED
      BY <1>2, <1>3, <1>4, <2>1
  <1>6. ASSUME IsOk(OnRecords(op, s))
        PROVE  Split(n, OnShares(op, n, u), Value(OnRecords(op, s)))
    <2> DEFINE m == [x \in ToSet(s) |-> MappedRec(x, op[2])]
               v == OnShares(op, n, u)
               r == Value(OnRecords(op, s))
    <2>1. \A p \in 1..Len(s) : s[p] \in ToSet(s)
      BY <1>1, ToSetOfList DEF SameElems
    <2>2. Mapped(r, s, m)
      <3>1. r = [k \in 1..Len(s) |-> MappedRec(s[k], op[2])] /\ RecsOK(r)
        BY <1>2, <1>6, MapOK
      <3> HIDE DEF r
      <3>2. IsList(r) /\ Len(r) = Len(s)
        BY <1>1, <3>1, MappedIsList DEF SameElems
      <3> QED
        BY <2>1, <3>1, <3>2 DEF Mapped
    <2>3. ASSUME NEW t \in 0..(n - 1) PROVE Mapped(v[t], u[t], m)
      <3> DEFINE z == u[t]
                 y == v[t]
      <3>1. y = Value(OnRecords(op, z)) /\ IsOk(OnRecords(op, z))
        BY <1>5, <1>6 DEF OnShares
      <3>2. RecsOK(z)
        BY SharesOK
      <3>3. IsList(z) /\ \A q \in 1..Len(z) : z[q] \in ToSet(s)
        BY <1>1, <2>1 DEF SameElems
      <3> HIDE DEF y, z
      <3>4. y = [k \in 1..Len(z) |-> MappedRec(z[k], op[2])]
        BY <1>2, <3>1, <3>2, MapOK
      <3>5. IsList(y) /\ Len(y) = Len(z)
        BY <3>3, <3>4, MappedIsList
      <3>6. Mapped(y, z, m)
        BY <3>3, <3>4, <3>5 DEF Mapped
      <3> QED
        BY <3>6 DEF y, z
    <2> HIDE DEF m, v, r
    <2>4. Split(n, v, r)
      BY <2>2, <2>3, SplitMapped
    <2> QED
      BY <2>4 DEF v, r
  <1> QED
    BY <1>5, <1>6 DEF Together

\* FlatMap on shares.
LEMMA FlatMapSplit ==
    ASSUME NEW n \in Nat, n > 0, NEW u, NEW s, Split(n, u, s), RecsOK(s), NEW op,
           op[1] = "FlatMap"
    PROVE  Together(op, n, u, s)
  <1> DEFINE func == op[2]
             v == OnShares(op, n, u)
             r == Value(OnRecords(op, s))
  <1>1. SameElems(n, u, s)
    BY SplitElems
  <1>2. \A z : OnRecords(op, z) = FlatMap(z, func)
    BY DEF OnRecords
  <1>3. \A t \in 0..(n - 1) : RecsOK(u[t])
    BY SharesOK
  <1>4. CASE func[1] \in KnownFlatMaps
    <2>1. \A z : IsOk(OnRecords(op, z)) /\ Value(OnRecords(op, z)) = FlattenSeq(Expanded(z, func))
      BY <1>2, <1>4, Results DEF FlatMap, Expanded
    <2> DEFINE x == [y \in ToSet(s) |-> Expand(y, func)]
    <2>2. \A p \in 1..Len(s) : s[p] \in ToSet(s)
      BY <1>1, ToSetOfList DEF SameElems
    <2>3. ASSUME NEW z, RecsOK(z), \A q \in 1..Len(z) : z[q] \in ToSet(s)
          PROVE  Spreads(Value(OnRecords(op, z)), z, x)
      <3>1. /\ IsLists(Expanded(z, func)) /\ Len(Expanded(z, func)) = Len(z)
            /\ \A k \in 1..Len(z) : Expanded(z, func)[k] = Expand(z[k], func)
        BY <1>4, <2>3, ExpandedOK
      <3>2. \A k \in 1..Len(z) : Expanded(z, func)[k] = x[z[k]]
        BY <2>3, <3>1
      <3> HIDE DEF x
      <3> QED
        BY <2>1, <3>1, <3>2 DEF Spreads
    <2>4. Spreads(r, s, x)
      BY <2>2, <2>3
    <2>5. ASSUME NEW t \in 0..(n - 1) PROVE Spreads(v[t], u[t], x)
      <3>1. \A q \in 1..Len(u[t]) : u[t][q] \in ToSet(s)
        BY <1>1, <2>2 DEF SameElems
      <3>2. v[t] = Value(OnRecords(op, u[t]))
        BY DEF OnShares
      <3> HIDE DEF x, v
      <3> QED
        BY <1>3, <2>3, <3>1, <3>2
    <2> HIDE DEF x, v, r
    <2>6. Split(n, v, r)
      BY <2>4, <2>5, SplitSpread
    <2> QED
      BY <2>1, <2>6 DEF Together, v, r
  <1>5. CASE func[1] \notin KnownFlatMaps
    <2>1. \A z : IsOk(OnRecords(op, z)) <=> z = <<>>
      BY <1>2, <1>5, Results DEF FlatMap
    <2>2. Value(FlatMap(<<>>, func)) = <<>>
      BY <1>5, Results DEF FlatMap
    <2>3. \A z : IsList(z) => (z = <<>> <=> Len(z) = 0)
      <3> SUFFICES ASSUME NEW z, IsList(z), Len(z) = 0 PROVE z = <<>>
        BY EmptyIsList
      <3> QED
        BY EmptyIsList, ListEqual
    <2>4. s = <<>> <=> \A t \in 0..(n - 1) : u[t] = <<>>
      <3>1. IsList(s) /\ Len(s) \in Nat
        BY <1>1 DEF SameElems, IsList
      <3>2. \A t \in 0..(n - 1) : IsList(u[t]) /\ Len(u[t]) \in Nat
        BY <1>1 DEF SameElems, IsList
      <3>3. Len(s) # 0 => \E t \in 0..(n - 1) : Len(u[t]) # 0
        BY <1>1, <3>1, <3>2 DEF SameElems
      <3>4. \A t \in 0..(n - 1) : Len(u[t]) # 0 => Len(s) # 0
        BY <1>1, <3>1, <3>2 DEF SameElems
      <3> QED
        BY <2>3, <3>1, <3>2, <3>3, <3>4
    <2>5. ASSUME s = <<>> PROVE Split(n, v, r)
      <3>1. r = s
        BY <1>2, <2>2, <2>5
      <3>2. \A t \in 0..(n - 1) : v[t] = u[t]
        BY <1>2, <2>2, <2>4, <2>5 DEF OnShares
      <3> HIDE DEF v, r
      <3> QED
        BY <3>1, <3>2, SplitSame
    <2> QED
      BY <2>1, <2>4, <2>5 DEF Together
  <1> QED
    BY <1>4, <1>5

\* An operator on a record at a time keeps shares: on the whole it fails exactly
\* if it fails on one of them.
LEMMA OnRecordsSplit ==
    ASSUME NEW n \in Nat, n > 0, NEW u, NEW s, Split(n, u, s), RecsOK(s),
           NEW op, op[1] \in RecordOps
    PROVE  Together(op, n, u, s)
  BY FilterSplit, MapSplit, FlatMapSplit DEF RecordOps

-----------------------------------------------------------------------------
(* Tasks before the last operator.                                         *)

\* Input f of the tasks after k operators; they fail or have shares of what one
\* task alone has.
ShareOf(j, h, n, k, f) == [t \in 0..(n - 1) |-> Value(After(j, h, t, n, k))[f][2]]
AllOk(j, h, n, k) == \A t \in 0..(n - 1) : IsOk(After(j, h, t, n, k))
SplitAfter(j, h, n, k) ==
    /\ IsOk(After(j, h, 0, 1, k)) <=> AllOk(j, h, n, k)
    /\ IsOk(After(j, h, 0, 1, k)) =>
          /\ Len(Value(After(j, h, 0, 1, k))) = Len(j.inputs)
          /\ \A t \in 0..(n - 1) :
                /\ Len(Value(After(j, h, t, n, k))) = Len(j.inputs)
                /\ \A f \in 1..Len(j.inputs) : Value(After(j, h, t, n, k))[f][1] = t
          /\ \A f \in 1..Len(j.inputs) :
                Split(n, ShareOf(j, h, n, k, f), Value(After(j, h, 0, 1, k))[f][2])

\* What they read.
LEMMA InputsSplit ==
    ASSUME NEW j \in Jobs, NEW h, NEW n \in Nat, n > 0
    PROVE  SplitAfter(j, h, n, 0)
  <1> DEFINE F == 1..Len(j.inputs)
             one == After(j, h, 0, 1, 0)
             its(t) == After(j, h, t, n, 0)
  <1>1. one = Inputs(j, 0, 1) /\ \A t : its(t) = Inputs(j, t, n)
    BY AfterSteps
  <1>2. \A f \in F : FileOK(j.inputs[f])
    BY InputsOK
  <1>3. /\ IsOk(one) <=> \A f \in F : IsOk(Read(j.inputs[f], 0, 1))
        /\ IsOk(one) => /\ Len(Value(one)) = Len(j.inputs)
                        /\ \A f \in F : Value(one)[f] = <<0, Value(Read(j.inputs[f], 0, 1))>>
    BY <1>1, InputsResult
  <1>4. ASSUME NEW t
        PROVE  /\ IsOk(its(t)) <=> \A f \in F : IsOk(Read(j.inputs[f], t, n))
               /\ IsOk(its(t)) => /\ Len(Value(its(t))) = Len(j.inputs)
                                  /\ \A f \in F : Value(its(t))[f] = <<t, Value(Read(j.inputs[f], t, n))>>
    BY <1>1, InputsResult
  <1>5. ASSUME NEW f \in F
        PROVE  IsOk(Read(j.inputs[f], 0, 1)) <=> \A t \in 0..(n - 1) : IsOk(Read(j.inputs[f], t, n))
    <2>1. FileOK(j.inputs[f])
      BY <1>2
    <2> QED
      BY <2>1, ReadSplit
  <1>6. IsOk(one) <=> \A t \in 0..(n - 1) : IsOk(its(t))
    <2> HIDE DEF one, its, F
    <2> QED
      BY <1>3, <1>4, <1>5
  <1>7. ASSUME IsOk(one), NEW f \in F PROVE Split(n, ShareOf(j, h, n, 0, f), Value(one)[f][2])
    <2> DEFINE file == j.inputs[f]
               u == [t \in 0..(n - 1) |-> Value(Read(file, t, n))]
               v == ShareOf(j, h, n, 0, f)
    <2>1. FileOK(file) /\ IsOk(Read(file, 0, 1))
      BY <1>2, <1>3, <1>7
    <2>2. Value(one)[f][2] = Value(Read(file, 0, 1))
      BY <1>3, <1>7
    <2>3. \A t \in 0..(n - 1) : v[t] = u[t]
      <3> SUFFICES ASSUME NEW t \in 0..(n - 1) PROVE v[t] = u[t]
        OBVIOUS
      <3>1. Value(its(t))[f] = <<t, Value(Read(file, t, n))>>
        BY <1>4, <1>6, <1>7
      <3> QED
        BY <3>1 DEF ShareOf
    <2> HIDE DEF file, v
    <2>4. Split(n, u, Value(Read(file, 0, 1)))
      BY <2>1, ReadSplit
    <2> HIDE DEF u, one
    <2>5. Split(n, v, Value(Read(file, 0, 1)))
      BY <2>3, <2>4, SplitSame
    <2> QED
      BY <2>2, <2>5 DEF v
  <1>8. ASSUME IsOk(one), NEW t \in 0..(n - 1)
        PROVE  /\ Len(Value(its(t))) = Len(j.inputs)
               /\ \A f \in F : Value(its(t))[f][1] = t
    <2>1. IsOk(its(t))
      BY <1>6, <1>8
    <2> QED
      BY <1>4, <2>1
  <1> QED
    BY <1>3, <1>6, <1>7, <1>8 DEF SplitAfter, AllOk

\* One operator further.
LEMMA StepSplit ==
    ASSUME NEW j \in Jobs, NEW h, NEW n \in Nat, n > 0, NEW k \in 1..Len(j.plan),
           j.plan[k][1] \in RecordOps, SplitAfter(j, h, n, k - 1)
    PROVE  SplitAfter(j, h, n, k)
  <1> DEFINE F == 1..Len(j.inputs)
             op == j.plan[k]
             old == After(j, h, 0, 1, k - 1)
             new == After(j, h, 0, 1, k)
             Old(t) == After(j, h, t, n, k - 1)
             New(t) == After(j, h, t, n, k)
  <1>0. k \in Nat /\ k # 0 /\ k - 1 \in 0..Len(j.plan)
    BY PlanOK DEF IsList
  <1>1. /\ new = IF IsOk(old) THEN Apply(op, h, Value(old)) ELSE Err
        /\ \A t : New(t) = IF IsOk(Old(t)) THEN Apply(op, h, Value(Old(t))) ELSE Err
    BY <1>0, AfterSteps
  <1>2. CASE ~IsOk(old)
    <2>1. ~IsOk(new)
      BY <1>1, <1>2, Results
    <2>2. PICK t \in 0..(n - 1) : ~IsOk(Old(t))
      BY <1>2 DEF SplitAfter, AllOk
    <2>3. ~IsOk(New(t))
      BY <1>1, <2>2, Results
    <2> QED
      BY <2>1, <2>3 DEF SplitAfter, AllOk
  <1>3. CASE IsOk(old)
    <2>1. /\ Len(Value(old)) = Len(j.inputs)
          /\ \A t \in 0..(n - 1) :
                /\ IsOk(Old(t)) /\ Len(Value(Old(t))) = Len(j.inputs)
                /\ \A f \in F : Value(Old(t))[f][1] = t
          /\ \A f \in F : Split(n, ShareOf(j, h, n, k - 1, f), Value(old)[f][2])
      BY <1>3 DEF SplitAfter, AllOk
    <2>2. PartitionsOK(Value(old)) /\ \A t \in 0..(n - 1) : PartitionsOK(Value(Old(t)))
      BY <1>0, <1>3, <2>1, AfterOK
    <2>3. new = Apply(op, h, Value(old)) /\ \A t \in 0..(n - 1) : New(t) = Apply(op, h, Value(Old(t)))
      BY <1>1, <1>3, <2>1
    <2>4. /\ IsOk(new) <=> \A f \in F : IsOk(OnRecords(op, Value(old)[f][2]))
          /\ IsOk(new) =>
                /\ Len(Value(new)) = Len(j.inputs)
                /\ \A f \in F : Value(new)[f] = <<Value(old)[f][1], Value(OnRecords(op, Value(old)[f][2]))>>
      <3> DEFINE ps == Value(old)
      <3>1. /\ IsOk(Apply(op, h, ps)) <=> \A f \in 1..Len(ps) : IsOk(OnRecords(op, ps[f][2]))
            /\ IsOk(Apply(op, h, ps)) =>
                  /\ Len(Value(Apply(op, h, ps))) = Len(ps)
                  /\ \A f \in 1..Len(ps) :
                        Value(Apply(op, h, ps))[f] = <<ps[f][1], Value(OnRecords(op, ps[f][2]))>>
        <4>1. PartitionsOK(ps) /\ op[1] \in RecordOps
          BY <2>2
        <4> HIDE DEF ps, op
        <4> QED
          BY <4>1, ApplyOnRecords
      <3> HIDE DEF ps, new, op
      <3> QED
        BY <2>1, <2>3, <3>1 DEF ps
    <2>5. ASSUME NEW t \in 0..(n - 1)
          PROVE  /\ IsOk(New(t)) <=> \A f \in F : IsOk(OnRecords(op, Value(Old(t))[f][2]))
                 /\ IsOk(New(t)) =>
                       /\ Len(Value(New(t))) = Len(j.inputs)
                       /\ \A f \in F : Value(New(t))[f] =
                             <<Value(Old(t))[f][1], Value(OnRecords(op, Value(Old(t))[f][2]))>>
      <3> DEFINE ps == Value(Old(t))
      <3>1. /\ IsOk(Apply(op, h, ps)) <=> \A f \in 1..Len(ps) : IsOk(OnRecords(op, ps[f][2]))
            /\ IsOk(Apply(op, h, ps)) =>
                  /\ Len(Value(Apply(op, h, ps))) = Len(ps)
                  /\ \A f \in 1..Len(ps) :
                        Value(Apply(op, h, ps))[f] = <<ps[f][1], Value(OnRecords(op, ps[f][2]))>>
        <4>1. PartitionsOK(ps) /\ op[1] \in RecordOps
          BY <2>2
        <4> HIDE DEF ps, op
        <4> QED
          BY <4>1, ApplyOnRecords
      <3>2. Len(ps) = Len(j.inputs) /\ New(t) = Apply(op, h, ps)
        BY <2>1, <2>3
      <3> HIDE DEF ps, New, op
      <3> QED
        BY <3>1, <3>2 DEF ps
    <2>6. ASSUME NEW f \in F
          PROVE  Together(op, n, ShareOf(j, h, n, k - 1, f), Value(old)[f][2])
      <3> DEFINE s == Value(old)[f][2]
                 u == ShareOf(j, h, n, k - 1, f)
      <3>1. Split(n, u, s)
        BY <2>1
      <3>2. RecsOK(s) /\ op[1] \in RecordOps
        BY <2>1, <2>2 DEF PartitionsOK
      <3> HIDE DEF s, u, op
      <3>3. Together(op, n, u, s)
        BY <3>1, <3>2, OnRecordsSplit
      <3> QED
        BY <3>3 DEF s, u
    <2>7. \A f \in F, t \in 0..(n - 1) : ShareOf(j, h, n, k - 1, f)[t] = Value(Old(t))[f][2]
      BY DEF ShareOf
    <2>8. ASSUME NEW f \in F
          PROVE  IsOk(OnRecords(op, Value(old)[f][2])) <=>
                    \A t \in 0..(n - 1) : IsOk(OnRecords(op, Value(Old(t))[f][2]))
      BY <2>6, <2>7 DEF Together
    <2>9. IsOk(new) <=> AllOk(j, h, n, k)
      <3>1. IsOk(new) <=> \A t \in 0..(n - 1) : IsOk(New(t))
        <4> HIDE DEF old, new, Old, New, F, op
        <4> QED
          BY <2>4, <2>5, <2>8
      <3> QED
        BY <3>1 DEF AllOk
    <2>10. ASSUME IsOk(new), NEW t \in 0..(n - 1)
           PROVE  /\ Len(Value(New(t))) = Len(j.inputs)
                  /\ \A f \in F : /\ Value(New(t))[f][1] = t
                                  /\ Value(New(t))[f][2] = Value(OnRecords(op, Value(Old(t))[f][2]))
      <3>1. IsOk(New(t))
        BY <2>9, <2>10 DEF AllOk
      <3> QED
        BY <2>1, <2>5, <3>1
    <2>11. ASSUME IsOk(new), NEW f \in F
           PROVE  Split(n, ShareOf(j, h, n, k, f), Value(new)[f][2])
      <3> DEFINE s == Value(old)[f][2]
                 u == ShareOf(j, h, n, k - 1, f)
                 v == ShareOf(j, h, n, k, f)
                 w == OnShares(op, n, u)
      <3>1. Value(new)[f][2] = Value(OnRecords(op, s)) /\ IsOk(OnRecords(op, s))
        BY <2>4, <2>11
      <3>2. Split(n, w, Value(OnRecords(op, s)))
        BY <2>6, <3>1 DEF Together
      <3>3. \A t \in 0..(n - 1) : v[t] = w[t]
        <4> SUFFICES ASSUME NEW t \in 0..(n - 1) PROVE v[t] = w[t]
          OBVIOUS
        <4>1. w[t] = Value(OnRecords(op, Value(Old(t))[f][2]))
          BY <2>7 DEF OnShares
        <4>2. v[t] = Value(New(t))[f][2]
          BY DEF ShareOf
        <4> QED
          BY <2>10, <2>11, <4>1, <4>2
      <3> HIDE DEF v, w, s, op, new
      <3>4. Split(n, v, Value(OnRecords(op, s)))
        BY <3>2, <3>3, SplitSame
      <3> QED
        BY <3>1, <3>4 DEF v
    <2> QED
      BY <2>4, <2>9, <2>10, <2>11 DEF SplitAfter
  <1> QED
    BY <1>2, <1>3

\* While operators take a record at a time, the tasks together have what one
\* task alone has, and it fails exactly if one of them does.
LEMMA AfterSplit ==
    ASSUME NEW j \in Jobs, NEW h, NEW n \in Nat, n > 0, NEW m \in 0..Len(j.plan),
           \A k \in 1..m : j.plan[k][1] \in RecordOps
    PROVE  SplitAfter(j, h, n, m)
  <1> DEFINE hits == {k \in 0..m : ~SplitAfter(j, h, n, k)}
  <1>0. Len(j.plan) \in Nat
    BY PlanOK DEF IsList
  <1>1. CASE hits = {}
    <2>1. m \in 0..m
      BY <1>0
    <2> QED
      BY <1>1, <2>1
  <1>2. CASE hits # {}
    <2>1. hits \subseteq Nat
      BY <1>0
    <2> HIDE DEF hits
    <2>2. PICK k \in hits : \A i \in hits : k <= i
      BY <1>2, <2>1, LeastExists
    <2>3. k \in 0..m /\ ~SplitAfter(j, h, n, k)
      BY DEF hits
    <2>4. k # 0
      BY <2>3, InputsSplit
    <2>5. k - 1 \in 0..m /\ k - 1 < k /\ k \in 1..Len(j.plan) /\ k \in 1..m
      BY <1>0, <2>3, <2>4
    <2>6. k - 1 \notin hits
      BY <2>1, <2>2, <2>5
    <2>7. SplitAfter(j, h, n, k - 1)
      BY <2>5, <2>6 DEF hits
    <2> QED
      BY <2>3, <2>5, <2>7, StepSplit
  <1> QED
    BY <1>1, <1>2

-----------------------------------------------------------------------------
(* The files of a job that has ended.                                      *)

\* A single partition is what its merge gives.
LEMMA MergedOne ==
    ASSUME NEW ps, PartitionsOK(ps), Len(ps) = 1
    PROVE  Merged(ps) = ps[1][2] /\ RecsOK(ps[1][2])
  <1> DEFINE ss == [k \in 1..Len(ps) |-> ps[k][2]]
  <1>1. 1 \in 1..Len(ps)
    BY DEF PartitionsOK
  <1>2. ss[1] = ps[1][2] /\ RecsOK(ps[1][2])
    BY <1>1 DEF PartitionsOK
  <1>3. Len(ss) = 1
    OBVIOUS
  <1> HIDE DEF ss
  <1>4. PICK f : Unrolls(f, ss, 1) /\ FlattenSeq(ss) = f[1]
    BY <1>3, FlattenUnrolls
  <1>5. f[1] = ss[1]
    BY <1>4 DEF Unrolls
  <1> QED
    BY <1>2, <1>4, <1>5 DEF Merged, ss

\* Lists v[t] that share out the things of E; things that s lists and they share.
ListShares(n, v, F, E, g) ==
    /\ \A t \in 0..(n - 1) : Lists(v[t], F[t], g)
    /\ \A t, u \in 0..(n - 1) : \A e : e \in F[t] /\ e \in F[u] => t = u
    /\ \A e : e \in E <=> \E t \in 0..(n - 1) : e \in F[t]
ListTogether(n, v, s) == \E F, E, g : Lists(s, E, g) /\ ListShares(n, v, F, E, g)

\* Shares of a list list it together.
LEMMA SplitLists ==
    ASSUME NEW n, NEW u, NEW s, Split(n, u, s)
    PROVE  ListTogether(n, u, s)
  <1>1. PICK who : SplitBy(n, u, s, who)
    BY DEF Split
  <1> DEFINE E == 1..Len(s)
             F == [t \in 0..(n - 1) |-> Theirs(s, who, t)]
  <1>2. IsList(s) /\ \A p \in E : who[p] \in 0..(n - 1)
    BY <1>1 DEF SplitBy
  <1>3. Lists(s, E, s)
    <2>1. Picks(s, s, E)
      BY <1>2, PicksAll DEF Picks
    <2> HIDE DEF E
    <2> QED
      BY <2>1, PicksLists
  <1>4. ASSUME NEW t \in 0..(n - 1) PROVE Lists(u[t], F[t], s)
    <2>1. Picks(u[t], s, F[t])
      BY <1>1 DEF SplitBy
    <2> HIDE DEF F
    <2> QED
      BY <2>1, PicksLists
  <1>5. \A t \in 0..(n - 1) : \A e : e \in F[t] <=> e \in E /\ who[e] = t
    BY DEF Theirs
  <1> HIDE DEF E, F
  <1>6. ListShares(n, u, F, E, s)
    BY <1>2, <1>4, <1>5 DEF ListShares
  <1> QED
    BY <1>3, <1>6 DEF ListTogether

\* Every task puts out one partition, with its own number.
OnePerTask ==
    \A t \in Tasks : /\ IsOk(Output(t, total)) /\ Len(Value(Output(t, total))) = 1
                     /\ Value(Output(t, total))[1][1] = t
TaskOutput == [t \in Tasks |-> Value(Output(t, total))[1][2]]

\* Then the part files are these partitions.
LEMMA PartFiles ==
    ASSUME DataflowInv, Done, Buckets(job) = 1, OnePerTask
    PROVE  /\ IsLists(FileList) /\ Len(FileList) = total + 1 /\ FileList[total + 1] = <<>>
           /\ \A t \in Tasks : FileList[t + 1] = TaskOutput[t]
  <1>1. total \in Nat /\ total > 0 /\ job \in Jobs
    BY DataflowAssumption DEF DataflowInv
  <1>2. ASSUME NEW f \in DOMAIN part PROVE f \in Tasks /\ part[f] = TaskOutput[f]
    <2>1. PICK t \in Tasks : \E k \in 1..Len(Value(Output(t, total))) :
                                 /\ Value(Output(t, total))[k][1] = f
                                 /\ Value(Output(t, total))[k][2] = part[f]
      BY DEF DataflowInv
    <2>2. Len(Value(Output(t, total))) = 1 /\ Value(Output(t, total))[1][1] = t
      BY DEF OnePerTask
    <2>3. \A k \in 1..1 : k = 1
      OBVIOUS
    <2>4. t = f /\ Value(Output(t, total))[1][2] = part[f]
      BY <2>1, <2>2, <2>3
    <2> QED
      BY <2>4 DEF TaskOutput
  <1>3. ASSUME NEW t \in Tasks PROVE t \in DOMAIN part
    <2> DEFINE v == Value(Output(t, total))
               p == pending[t]
    <2>1. TaskOK(status[t], p, Output(t, total), DOMAIN part) /\ status[t] = "Completed"
      BY DEF Done, DataflowInv
    <2>2. Remains(p, v, DOMAIN part) /\ p = <<>>
      BY <2>1 DEF TaskOK
    <2>3. Len(p) = 0
      BY <2>2, EmptyIsList
    <2>4. Len(v) = 1 /\ v[1][1] = t
      BY DEF OnePerTask
    <2> HIDE DEF v, p
    <2>5. \A k \in 1..(1 - 0) : v[k][1] \in DOMAIN part
      BY <2>2, <2>3, <2>4 DEF Remains
    <2>6. 1 \in 1..(1 - 0)
      OBVIOUS
    <2> QED
      BY <2>4, <2>5, <2>6
  <1>4. FileList = [f \in 1..(total + 1) |-> InFile(f - 1)] /\ total + 1 \in Nat
    BY <1>1 DEF FileList
  <1>5. IsList(FileList) /\ Len(FileList) = total + 1
    <2>1. DOMAIN FileList = 1..(total + 1) /\ FileList = [f \in 1..(total + 1) |-> FileList[f]]
      BY <1>4
    <2> QED
      BY <1>4, <2>1, FunctionIsList
  <1>6. ASSUME NEW t \in Tasks PROVE FileList[t + 1] = TaskOutput[t]
    <2>1. t \in Int /\ t + 1 \in 1..(total + 1) /\ t + 1 - 1 = t
      BY <1>1 DEF Tasks
    <2>2. FileList[t + 1] = InFile(t)
      BY <1>4, <2>1
    <2> QED
      BY <1>2, <1>3, <2>2 DEF InFile
  <1>7. FileList[total + 1] = <<>>
    <2>1. total + 1 \in 1..(total + 1) /\ total + 1 - 1 = total /\ total \notin Tasks
      BY <1>1 DEF Tasks
    <2>2. FileList[total + 1] = InFile(total)
      <3> DEFINE f == total + 1
      <3>1. f \in 1..(total + 1) /\ f - 1 = total
        BY <1>1
      <3> HIDE DEF f
      <3>2. FileList[f] = InFile(f - 1)
        BY <1>4, <3>1
      <3> QED
        BY <3>1, <3>2 DEF f
    <2> QED
      BY <1>2, <2>1, <2>2 DEF InFile
  <1>8. ASSUME NEW f \in 1..(total + 1) PROVE IsList(FileList[f])
    <2>1. CASE f = total + 1
      BY <1>7, <2>1, EmptyIsList
    <2>2. CASE f # total + 1
      <3> DEFINE t == f - 1
      <3>1. t \in Tasks /\ f = t + 1
        BY <1>1, <2>2 DEF Tasks
      <3> HIDE DEF t
      <3>2. PartitionsOK(Value(Output(t, total))) /\ Len(Value(Output(t, total))) = 1
        BY <1>1, <3>1, OutputOf DEF OnePerTask
      <3>3. IsList(TaskOutput[t])
        BY <3>1, <3>2, MergedOne DEF TaskOutput, RecsOK
      <3> QED
        BY <1>6, <3>1, <3>3
    <2> QED
      BY <2>1, <2>2
  <1> QED
    BY <1>5, <1>6, <1>7, <1>8 DEF IsLists

\* What the partitions list together, the part files list.
LEMMA WrittenLists ==
    ASSUME DataflowInv, Done, Buckets(job) = 1, OnePerTask,
           NEW F, NEW E, NEW g, ListShares(total, TaskOutput, F, E, g)
    PROVE  Lists(Written, E, g)
  <1>1. total \in Nat /\ total > 0
    BY DataflowAssumption DEF DataflowInv
  <1>2. /\ IsLists(FileList) /\ Len(FileList) = total + 1 /\ FileList[total + 1] = <<>>
        /\ \A t \in Tasks : FileList[t + 1] = TaskOutput[t]
    BY PartFiles
  <1> DEFINE G == [f \in 1..(total + 1) |-> IF f = total + 1 THEN {} ELSE F[f - 1]]
  <1>3. G[total + 1] = {} /\ \A f \in 1..(total + 1) : f # total + 1 => f - 1 \in 0..(total - 1) /\ G[f] = F[f - 1]
    BY <1>1
  <1>4. \A t \in 0..(total - 1) : t + 1 \in 1..(total + 1) /\ t + 1 # total + 1 /\ G[t + 1] = F[t]
    BY <1>1
  <1> HIDE DEF G
  <1>5. ASSUME NEW f \in 1..(total + 1) PROVE Lists(FileList[f], G[f], g)
    <2>1. CASE f = total + 1
      <3>1. ListedBy(<<>>, <<>>, {}, g)
        BY EmptyIsList DEF ListedBy
      <3> QED
        BY <1>2, <1>3, <2>1, <3>1 DEF Lists
    <2>2. CASE f # total + 1
      <3>1. f - 1 \in Tasks /\ f - 1 + 1 = f /\ G[f] = F[f - 1]
        BY <1>1, <1>3, <2>2 DEF Tasks
      <3>2. FileList[f] = TaskOutput[f - 1]
        BY <1>2, <3>1
      <3>3. Lists(TaskOutput[f - 1], F[f - 1], g)
        BY <3>1 DEF ListShares, Tasks
      <3> QED
        BY <3>1, <3>2, <3>3
    <2> QED
      BY <2>1, <2>2
  <1>6. \A i, k \in 1..(total + 1) : \A e : e \in G[i] /\ e \in G[k] => i = k
    <2> SUFFICES ASSUME NEW i \in 1..(total + 1), NEW k \in 1..(total + 1), NEW e,
                        e \in G[i], e \in G[k]
                 PROVE  i = k
      OBVIOUS
    <2>1. i # total + 1 /\ k # total + 1
      BY <1>3
    <2>2. e \in F[i - 1] /\ e \in F[k - 1] /\ i - 1 \in 0..(total - 1) /\ k - 1 \in 0..(total - 1)
      BY <1>3, <2>1
    <2>3. i - 1 = k - 1
      BY <2>2 DEF ListShares
    <2> QED
      BY <1>1, <2>3
  <1>7. \A e : e \in E <=> \E f \in 1..(total + 1) : e \in G[f]
    <2>1. ASSUME NEW e \in E PROVE \E f \in 1..(total + 1) : e \in G[f]
      <3>1. PICK t \in 0..(total - 1) : e \in F[t]
        BY DEF ListShares
      <3>2. t + 1 \in 1..(total + 1) /\ e \in G[t + 1]
        BY <1>4, <3>1
      <3> QED
        BY <3>2
    <2>2. ASSUME NEW e, NEW f \in 1..(total + 1), e \in G[f] PROVE e \in E
      <3>1. f # total + 1
        BY <1>3, <2>2
      <3>2. f - 1 \in 0..(total - 1) /\ e \in F[f - 1]
        BY <1>3, <2>2, <3>1
      <3> QED
        BY <3>2 DEF ListShares
    <2> QED
      BY <2>1, <2>2
  <1>8. Lists(FlattenSeq(FileList), E, g)
    BY <1>2, <1>5, <1>6, <1>7, FlattenLists
  <1> QED
    BY <1>8 DEF Written, FileList

\* A job that has ended is done unless the operators of a task fail.
LEMMA EndedDone ==
    ASSUME DataflowInv, Ended
    PROVE  Done <=> \A t \in Tasks : IsOk(Output(t, total))
  <1>1. \A t \in Tasks : /\ TaskOK(status[t], pending[t], Output(t, total), DOMAIN part)
                         /\ status[t] \in {"Completed", "Failed"}
    BY DEF DataflowInv, Ended
  <1>2. \A t \in Tasks : status[t] = "Completed" <=> IsOk(Output(t, total))
    BY <1>1 DEF TaskOK
  <1> QED
    BY <1>2 DEF Done

\* What it takes for a job not to show its number of partitions.
Transparent ==
    /\ Buckets(job) = 1
    /\ IsOk(Output(0, 1)) <=> \A t \in Tasks : IsOk(Output(t, total))
    /\ IsOk(Output(0, 1)) =>
          /\ OnePerTask /\ Len(Value(Output(0, 1))) = 1
          /\ ListTogether(total, TaskOutput, Value(Output(0, 1))[1][2])

\* And that it is enough.
LEMMA TransparentWritten ==
    ASSUME DataflowInv, Ended, Transparent
    PROVE  /\ IsOk(Output(0, 1)) <=> Done
           /\ Done => BagOf(Written) = BagOf(Merged(Value(Output(0, 1))))
  <1>1. IsOk(Output(0, 1)) <=> Done
    BY EndedDone DEF Transparent
  <1>2. ASSUME Done PROVE BagOf(Written) = BagOf(Merged(Value(Output(0, 1))))
    <2>1. /\ OnePerTask /\ Len(Value(Output(0, 1))) = 1 /\ Buckets(job) = 1
          /\ ListTogether(total, TaskOutput, Value(Output(0, 1))[1][2])
      BY <1>1, <1>2 DEF Transparent
    <2>2. PICK F, E, g : /\ Lists(Value(Output(0, 1))[1][2], E, g)
                         /\ ListShares(total, TaskOutput, F, E, g)
      BY <2>1 DEF ListTogether
    <2>3. Lists(Written, E, g)
      BY <1>2, <2>1, <2>2, WrittenLists
    <2>4. PartitionsOK(Value(Output(0, 1)))
      BY <1>1, <1>2, OutputOf DEF DataflowInv
    <2>5. Merged(Value(Output(0, 1))) = Value(Output(0, 1))[1][2]
      BY <2>1, <2>4, MergedOne
    <2> DEFINE one == Value(Output(0, 1))[1][2]
    <2> HIDE DEF one
    <2>6. BagOf(Written) = BagOf(one)
      BY <2>2, <2>3, ListsBag DEF one
    <2> QED
      BY <2>5, <2>6 DEF one
  <1> QED
    BY <1>1, <1>2

\* Operators on a record at a time are enough for it.
LEMMA RecordsTransparent ==
    ASSUME DataflowInv, RecordWise, LastOp(job)[1] \in RecordOps
    PROVE  Transparent
  <1> DEFINE K == Len(job.plan)
  <1>1. total \in Nat /\ total > 0 /\ job \in Jobs
    BY DataflowAssumption DEF DataflowInv
  <1>2. LastOp(job) = job.plan[K] /\ K \in 1..K /\ K \in 0..K /\ Buckets(job) = 1
    BY <1>1, OutputOf DEF Buckets, RecordOps
  <1>3. \A k \in 1..K : job.plan[k][1] \in RecordOps
    <2> SUFFICES ASSUME NEW k \in 1..K, k # K PROVE job.plan[k][1] \in RecordOps
      BY <1>2
    <2>1. k \in 1..(K - 1)
      BY <1>2
    <2> QED
      BY <2>1 DEF RecordWise
  <1>4. Len(job.inputs) = 1
    BY DEF RecordWise, RecordOps, Ends
  <1>5. SplitAfter(job, hash, total, K)
    <2> HIDE DEF K
    <2>1. K \in 0..Len(job.plan)
      BY <1>2 DEF K
    <2> QED
      BY <1>1, <1>3, <2>1, AfterSplit
  <1>6. \A t, n : After(job, hash, t, n, K) = Output(t, n)
    BY DEF Output
  <1>7. Tasks = 0..(total - 1)
    BY DEF Tasks
  <1>8. IsOk(Output(0, 1)) <=> \A t \in Tasks : IsOk(Output(t, total))
    BY <1>5, <1>6, <1>7 DEF SplitAfter, AllOk
  <1>9. ASSUME IsOk(Output(0, 1))
        PROVE  /\ OnePerTask /\ Len(Value(Output(0, 1))) = 1
               /\ ListTogether(total, TaskOutput, Value(Output(0, 1))[1][2])
    <2> DEFINE s == Value(Output(0, 1))[1][2]
               u == ShareOf(job, hash, total, K, 1)
    <2>0. 1 \in 1..1
      OBVIOUS
    <2>1. /\ Len(Value(Output(0, 1))) = 1
          /\ \A t \in Tasks : Len(Value(Output(t, total))) = 1 /\ Value(Output(t, total))[1][1] = t
          /\ Split(total, u, s)
      BY <1>4, <1>5, <1>6, <1>7, <1>9, <2>0 DEF SplitAfter
    <2>2. OnePerTask
      BY <1>8, <1>9, <2>1 DEF OnePerTask
    <2>3. TaskOutput = u
      BY <1>6, <1>7 DEF ShareOf, TaskOutput
    <2> HIDE DEF s, u
    <2>4. ListTogether(total, u, s)
      BY <2>1, SplitLists
    <2> QED
      BY <2>1, <2>2, <2>3, <2>4 DEF s
  <1> QED
    BY <1>2, <1>8, <1>9 DEF Transparent

-----------------------------------------------------------------------------
(* ReduceByKey on shares without a common key.                             *)

\* No key of a share of u is in another task's share of v.
KeysApart(n, u, v, key) ==
    \A t, w \in 0..(n - 1) : t # w =>
        \A i \in 1..Len(u[t]), j \in 1..Len(v[w]) :
            HashInput(u[t][i], key) # HashInput(v[w][j], key)

\* Then records with one key belong to one task.
LEMMA OneOwner ==
    ASSUME NEW n, NEW u, NEW s, NEW a, SplitBy(n, u, s, a),
           NEW v, NEW r, NEW b, SplitBy(n, v, r, b), NEW key, KeysApart(n, u, v, key),
           NEW p \in 1..Len(s), NEW q \in 1..Len(r),
           HashInput(s[p], key) = HashInput(r[q], key)
    PROVE  a[p] = b[q]
  <1>1. a[p] \in 0..(n - 1) /\ b[q] \in 0..(n - 1)
    BY DEF SplitBy
  <1>2. Picks(u[a[p]], s, Theirs(s, a, a[p])) /\ Picks(v[b[q]], r, Theirs(r, b, b[q]))
    BY <1>1 DEF SplitBy
  <1>3. p \in Theirs(s, a, a[p]) /\ q \in Theirs(r, b, b[q])
    BY DEF Theirs
  <1>4. PICK i \in 1..Len(u[a[p]]) : u[a[p]][i] = s[p]
    <2> DEFINE I == Theirs(s, a, a[p])
               z == u[a[p]]
    <2>1. Picks(z, s, I) /\ p \in I
      BY <1>2, <1>3
    <2> HIDE DEF I, z
    <2>2. \E i \in 1..Len(z) : z[i] = s[p]
      BY <2>1, PicksElems
    <2> QED
      BY <2>2 DEF z
  <1>5. PICK j \in 1..Len(v[b[q]]) : v[b[q]][j] = r[q]
    <2> DEFINE I == Theirs(r, b, b[q])
               z == v[b[q]]
    <2>1. Picks(z, r, I) /\ q \in I
      BY <1>2, <1>3
    <2> HIDE DEF I, z
    <2>2. \E m \in 1..Len(z) : z[m] = r[q]
      BY <2>1, PicksElems
    <2> QED
      BY <2>2 DEF z
  <1> QED
    BY <1>1, <1>4, <1>5 DEF KeysApart

\* Records whose keys are texts.
TextKeys(s, key) == \A i \in 1..Len(s) : key \in DOMAIN s[i] /\ Kind(s[i][key]) = "Str"

\* Their hash input is the text.
LEMMA HashOfText ==
    ASSUME NEW rec, NEW key, key \in DOMAIN rec, Kind(rec[key]) = "Str"
    PROVE  HashInput(rec, key) = rec[key][2]
  BY DEF HashInput, HasKey, KeyText

\* The group of a key is sifted.
LEMMA GroupSifted ==
    ASSUME NEW z, IsList(z), NEW key, NEW k, NEW K,
           \A i \in 1..Len(z) : z[i] \in K <=> z[i][key][2] = k
    PROVE  Sifted(Group(z, key, k), z, K)
  <1> DEFINE I == {i \in 1..Len(z) : z[i][key][2] = k}
  <1>1. \A i \in 1..Len(z) : i \in I <=> z[i] \in K
    OBVIOUS
  <1>2. Group(z, key, k) = Kept(z, I)
    BY DEF Group
  <1> HIDE DEF I
  <1>3. Sifted(Kept(z, I), z, K)
    BY <1>1, KeptSifted
  <1> QED
    BY <1>2, <1>3

\* The group of a key in its task is the group in the whole.
LEMMA GroupOfShare ==
    ASSUME NEW n, NEW u, NEW s, NEW who, SplitBy(n, u, s, who), NEW key, TextKeys(s, key),
           KeysApart(n, u, u, key), NEW t \in 0..(n - 1), NEW k \in KeysOf(u[t], key)
    PROVE  Group(u[t], key, k) = Group(s, key, k)
  <1> DEFINE z == u[t]
             I == Theirs(s, who, t)
             K == {x \in ToSet(s) : x[key][2] = k}
             A == {p \in 1..Len(s) : s[p] \in K}
             B == {p \in I : s[p] \in K}
  <1>1. IsList(s) /\ Picks(z, s, I)
    BY DEF SplitBy
  <1>2. \A p : p \in I <=> p \in 1..Len(s) /\ who[p] = t
    BY DEF Theirs
  <1>3. IsList(z) /\ \A q \in 1..Len(z) : \E p \in I : z[q] = s[p]
    <2> HIDE DEF z, I
    <2> QED
      BY <1>1, PicksElems
  <1>4. \A p \in 1..Len(s) : s[p] \in ToSet(s)
    BY <1>1, ToSetOfList
  <1>5. \A q \in 1..Len(z) : z[q] \in ToSet(s)
    BY <1>2, <1>3, <1>4
  <1>6. Sifted(Group(s, key, k), s, K)
    <2>1. \A i \in 1..Len(s) : s[i] \in K <=> s[i][key][2] = k
      BY <1>4
    <2> HIDE DEF K
    <2> QED
      BY <1>1, <2>1, GroupSifted
  <1>7. Sifted(Group(z, key, k), z, K)
    <2>1. \A i \in 1..Len(z) : z[i] \in K <=> z[i][key][2] = k
      BY <1>5
    <2> HIDE DEF z, K
    <2> QED
      BY <1>3, <2>1, GroupSifted
  <1>8. Picks(Group(z, key, k), s, B)
    <2> HIDE DEF z, I, K
    <2> QED
      BY <1>1, <1>7, SiftedPicks
  <1>9. PICK c \in I : s[c][key][2] = k
    <2>1. PICK q \in 1..Len(z) : z[q][key][2] = k
      BY DEF KeysOf
    <2> QED
      BY <1>3, <2>1
  <1>10. \A p \in 1..Len(s) : HashInput(s[p], key) = s[p][key][2]
    BY HashOfText DEF TextKeys
  <1>11. \A p \in A : who[p] = t
    <2> SUFFICES ASSUME NEW p \in A PROVE who[p] = t
      OBVIOUS
    <2>1. p \in 1..Len(s) /\ c \in 1..Len(s) /\ who[c] = t
      BY <1>2
    <2>2. HashInput(s[p], key) = HashInput(s[c], key)
      BY <1>9, <1>10, <2>1
    <2>3. who[p] = who[c]
      BY <2>1, <2>2, OneOwner
    <2> QED
      BY <2>1, <2>3
  <1>12. A = B
    BY <1>2, <1>11
  <1>13. Picks(Group(s, key, k), s, A)
    BY <1>6 DEF Sifted
  <1> HIDE DEF A, B, z
  <1>14. Group(z, key, k) = Group(s, key, k)
    BY <1>8, <1>12, <1>13, PicksUnique
  <1> QED
    BY <1>14 DEF z

\* What ReduceByKey puts out for each key.
GroupRecords(s, key, red) == [k \in KeysOf(s, key) |-> GroupRecord(s, key, red, k)]

\* It lists its keys.
LEMMA ReduceLists ==
    ASSUME NEW z, RecsOK(z), NEW key, NEW red, IsOk(ReduceByKey(z, key, red)), NEW g,
           \A k \in KeysOf(z, key) : g[k] = GroupRecord(z, key, red, k)
    PROVE  Lists(Value(ReduceByKey(z, key, red)), KeysOf(z, key), g)
  <1> DEFINE S == KeysOf(z, key)
             b == SetToSeq(S)
             v == Value(ReduceByKey(z, key, red))
  <1>1. v = [i \in 1..Len(b) |-> GroupRecord(z, key, red, b[i])]
    BY ReduceByKeyResult
  <1>2. ListedBy(b, b, S, [x \in S |-> x])
    BY KeysFinite, SetToSeqLists
  <1> HIDE DEF S, b, v
  <1>3. IsList(b) /\ \A i \in 1..Len(b) : b[i] \in S
    BY <1>2 DEF ListedBy
  <1>4. IsList(v) /\ Len(v) = Len(b)
    BY <1>1, <1>3, MappedIsList
  <1>5. \A i \in 1..Len(v) : v[i] = g[b[i]]
    BY <1>1, <1>3, <1>4 DEF S
  <1>6. ListedBy(v, b, S, g)
    BY <1>2, <1>4, <1>5 DEF ListedBy
  <1> QED
    BY <1>6 DEF Lists, v, S

\* What ReduceByKey makes of shares.
ReduceShares(n, u, key, red) == [t \in 0..(n - 1) |-> Value(ReduceByKey(u[t], key, red))]
KeyShares(n, u, key) == [t \in 0..(n - 1) |-> KeysOf(u[t], key)]

\* It can reduce the whole exactly if it can reduce all shares, and what the
\* tasks put out shares out the keys of the whole.
LEMMA ReduceSplit ==
    ASSUME NEW n \in Nat, n > 0, NEW u, NEW s, Split(n, u, s), RecsOK(s), NEW key, NEW red,
           KeysApart(n, u, u, key)
    PROVE  /\ IsOk(ReduceByKey(s, key, red)) <=>
                 \A t \in 0..(n - 1) : IsOk(ReduceByKey(u[t], key, red))
           /\ IsOk(ReduceByKey(s, key, red)) =>
                 /\ Lists(Value(ReduceByKey(s, key, red)), KeysOf(s, key), GroupRecords(s, key, red))
                 /\ ListShares(n, ReduceShares(n, u, key, red), KeyShares(n, u, key),
                               KeysOf(s, key), GroupRecords(s, key, red))
  <1> DEFINE g == GroupRecords(s, key, red)
             v == ReduceShares(n, u, key, red)
             F == KeyShares(n, u, key)
             E == KeysOf(s, key)
  <1>1. SameElems(n, u, s)
    BY SplitElems
  <1>2. \A z : IsOk(ReduceByKey(z, key, red)) <=> IsReducer(red) /\ TextKeys(z, key)
    BY ReduceByKeyResult DEF TextKeys
  <1>3. TextKeys(s, key) <=> \A t \in 0..(n - 1) : TextKeys(u[t], key)
    <2>1. ASSUME TextKeys(s, key), NEW t \in 0..(n - 1), NEW q \in 1..Len(u[t])
          PROVE  key \in DOMAIN u[t][q] /\ Kind(u[t][q][key]) = "Str"
      <3>1. PICK p \in 1..Len(s) : u[t][q] = s[p]
        BY <1>1 DEF SameElems
      <3> QED
        BY <2>1, <3>1 DEF TextKeys
    <2>2. ASSUME \A t \in 0..(n - 1) : TextKeys(u[t], key), NEW p \in 1..Len(s)
          PROVE  key \in DOMAIN s[p] /\ Kind(s[p][key]) = "Str"
      <3>1. PICK t \in 0..(n - 1) : \E q \in 1..Len(u[t]) : u[t][q] = s[p]
        BY <1>1 DEF SameElems
      <3>2. PICK q \in 1..Len(u[t]) : u[t][q] = s[p]
        BY <3>1
      <3> QED
        BY <2>2, <3>2 DEF TextKeys
    <2> QED
      BY <2>1, <2>2 DEF TextKeys
  <1>4. IsOk(ReduceByKey(s, key, red)) <=>
            \A t \in 0..(n - 1) : IsOk(ReduceByKey(u[t], key, red))
    <2>1. 0 \in 0..(n - 1)
      OBVIOUS
    <2> QED
      BY <1>2, <1>3, <2>1
  <1>5. ASSUME IsOk(ReduceByKey(s, key, red))
        PROVE  Lists(Value(ReduceByKey(s, key, red)), E, g) /\ ListShares(n, v, F, E, g)
    <2>1. PICK who : SplitBy(n, u, s, who)
      BY DEF Split
    <2>2. \A k \in E : g[k] = GroupRecord(s, key, red, k)
      BY DEF GroupRecords
    <2>3. Lists(Value(ReduceByKey(s, key, red)), E, g)
      <3> HIDE DEF g
      <3> QED
        BY <1>5, <2>2, ReduceLists
    <2>4. TextKeys(s, key)
      BY <1>2, <1>5
    <2>5. \A t \in 0..(n - 1) : \A k \in KeysOf(u[t], key) : k \in E
      <3> SUFFICES ASSUME NEW t \in 0..(n - 1), NEW k \in KeysOf(u[t], key) PROVE k \in E
        OBVIOUS
      <3>1. PICK q \in 1..Len(u[t]) : u[t][q][key][2] = k
        BY DEF KeysOf
      <3>2. PICK p \in 1..Len(s) : u[t][q] = s[p]
        BY <1>1 DEF SameElems
      <3> QED
        BY <3>1, <3>2 DEF KeysOf
    <2>6. ASSUME NEW t \in 0..(n - 1) PROVE Lists(v[t], F[t], g)
      <3> DEFINE z == u[t]
      <3>1. RecsOK(z) /\ IsOk(ReduceByKey(z, key, red))
        BY <1>4, <1>5, SharesOK
      <3>2. ASSUME NEW k \in KeysOf(z, key) PROVE g[k] = GroupRecord(z, key, red, k)
        <4>1. Group(z, key, k) = Group(s, key, k)
          BY <2>1, <2>4, GroupOfShare
        <4>2. k \in E
          BY <2>5
        <4> QED
          BY <2>2, <4>1, <4>2 DEF GroupRecord
      <3>3. v[t] = Value(ReduceByKey(z, key, red)) /\ F[t] = KeysOf(z, key)
        BY DEF ReduceShares, KeyShares
      <3> HIDE DEF z, v, F, g
      <3> QED
        BY <3>1, <3>2, <3>3, ReduceLists
    <2>7. \A t \in 0..(n - 1) : F[t] = KeysOf(u[t], key)
      BY DEF KeyShares
    <2>8. ASSUME NEW t \in 0..(n - 1), NEW w \in 0..(n - 1), NEW e, e \in F[t], e \in F[w]
          PROVE  t = w
      <3>1. PICK i \in 1..Len(u[t]) : u[t][i][key][2] = e
        BY <2>7, <2>8 DEF KeysOf
      <3>2. PICK j \in 1..Len(u[w]) : u[w][j][key][2] = e
        BY <2>7, <2>8 DEF KeysOf
      <3>3. TextKeys(u[t], key) /\ TextKeys(u[w], key)
        BY <1>3, <2>4
      <3>4. HashInput(u[t][i], key) = e /\ HashInput(u[w][j], key) = e
        BY <3>1, <3>2, <3>3, HashOfText DEF TextKeys
      <3> QED
        BY <3>4 DEF KeysApart
    <2>9. \A e : e \in E <=> \E t \in 0..(n - 1) : e \in F[t]
      <3>1. ASSUME NEW e \in E PROVE \E t \in 0..(n - 1) : e \in F[t]
        <4>1. PICK p \in 1..Len(s) : s[p][key][2] = e
          BY DEF KeysOf
        <4>2. PICK t \in 0..(n - 1) : \E q \in 1..Len(u[t]) : u[t][q] = s[p]
          BY <1>1 DEF SameElems
        <4>3. e \in KeysOf(u[t], key)
          BY <4>1, <4>2 DEF KeysOf
        <4> QED
          BY <2>7, <4>3
      <3> QED
        BY <2>5, <2>7, <3>1
    <2> HIDE DEF g, v, F, E
    <2> QED
      BY <2>3, <2>6, <2>8, <2>9 DEF ListShares
  <1> QED
    BY <1>4, <1>5

-----------------------------------------------------------------------------
(* The last operator of a job whose other operators take a record at a     *)
(* time.                                                                   *)

\* What its tasks have of input f.
TaskSide(f) == [t \in 0..(total - 1) |-> Value(Before(t, total))[f][2]]

\* Before the last operator the tasks have shares.
LEMMA BeforeSplit ==
    ASSUME DataflowInv, RecordWise
    PROVE  /\ IsOk(Before(0, 1)) <=> \A t \in Tasks : IsOk(Before(t, total))
           /\ IsOk(Before(0, 1)) =>
                 /\ Len(Value(Before(0, 1))) = Len(job.inputs)
                 /\ \A t \in Tasks :
                       /\ Len(Value(Before(t, total))) = Len(job.inputs)
                       /\ \A f \in 1..Len(job.inputs) : Value(Before(t, total))[f][1] = t
                 /\ \A f \in 1..Len(job.inputs) : Split(total, TaskSide(f), Side(f)) /\ RecsOK(Side(f))
  <1> DEFINE K == Len(job.plan) - 1
  <1>1. total \in Nat /\ total > 0 /\ job \in Jobs
    BY DataflowAssumption DEF DataflowInv
  <1>2. K \in 0..Len(job.plan) /\ \A k \in 1..K : job.plan[k][1] \in RecordOps
    BY <1>1, OutputOf DEF RecordWise
  <1>3. SplitAfter(job, hash, total, K)
    <2> HIDE DEF K
    <2> QED
      BY <1>1, <1>2, AfterSplit
  <1>4. \A t, n : After(job, hash, t, n, K) = Before(t, n)
    BY DEF Before
  <1>5. \A f : ShareOf(job, hash, total, K, f) = TaskSide(f)
    BY <1>4 DEF ShareOf, TaskSide
  <1>6. \A f : Value(Before(0, 1))[f][2] = Side(f)
    BY DEF Side
  <1>7. IsOk(Before(0, 1)) /\ Len(Value(Before(0, 1))) = Len(job.inputs) =>
            \A f \in 1..Len(job.inputs) : RecsOK(Side(f))
    BY <1>1, <1>6, OutputOf DEF PartitionsOK
  <1> HIDE DEF K
  <1>8. IsOk(Before(0, 1)) <=> \A t \in Tasks : IsOk(Before(t, total))
    BY <1>3, <1>4 DEF SplitAfter, AllOk, Tasks
  <1>9. ASSUME IsOk(Before(0, 1))
        PROVE  /\ Len(Value(Before(0, 1))) = Len(job.inputs)
               /\ \A t \in Tasks :
                     /\ Len(Value(Before(t, total))) = Len(job.inputs)
                     /\ \A f \in 1..Len(job.inputs) : Value(Before(t, total))[f][1] = t
               /\ \A f \in 1..Len(job.inputs) : Split(total, TaskSide(f), Side(f))
    BY <1>3, <1>4, <1>5, <1>6, <1>9 DEF SplitAfter, Tasks
  <1> QED
    BY <1>7, <1>8, <1>9

\* The records of a partition are among those of the merge.
LEMMA MergedHas ==
    ASSUME NEW ps, PartitionsOK(ps), NEW f \in 1..Len(ps), NEW i \in 1..Len(ps[f][2])
    PROVE  ps[f][2][i] \in ToSet(Merged(ps))
  <1> DEFINE ss == [k \in 1..Len(ps) |-> ps[k][2]]
  <1>1. IsList(ps) /\ \A k \in 1..Len(ps) : RecsOK(ps[k][2]) /\ ss[k] = ps[k][2]
    BY DEF PartitionsOK
  <1>2. ss = [k \in 1..Len(ps) |-> ss[k]]
    OBVIOUS
  <1> HIDE DEF ss
  <1>3. IsList(ss) /\ Len(ss) = Len(ps)
    BY <1>1, <1>2, MappedIsList
  <1>4. IsLists(ss) /\ RecsOK(FlattenSeq(ss))
    BY <1>1, <1>3, FlattenRecords
  <1>5. PICK p \in 1..Len(FlattenSeq(ss)) : FlattenSeq(ss)[p] = ss[f][i]
    BY <1>1, <1>3, <1>4, FlattenIsList
  <1>6. ss[f][i] \in ToSet(FlattenSeq(ss))
    BY <1>4, <1>5, ToSetOfList DEF RecsOK
  <1> QED
    BY <1>1, <1>6 DEF Merged, ss

\* When keys are aligned, no task has a key of another, in any input.
LEMMA AlignedApart ==
    ASSUME DataflowInv, RecordWise, Aligned, IsOk(Before(0, 1)),
           NEW f \in 1..Len(job.inputs), NEW g \in 1..Len(job.inputs)
    PROVE  KeysApart(total, TaskSide(f), TaskSide(g), LastOp(job)[2])
  <1> DEFINE key == LastOp(job)[2]
             all(t) == ToSet(Merged(Value(Before(t, total))))
  <1>1. \A t \in Tasks : IsOk(Before(t, total)) /\ Len(Value(Before(t, total))) = Len(job.inputs)
    BY BeforeSplit
  <1>2. \A t \in Tasks : PartitionsOK(Value(Before(t, total)))
    BY <1>1, OutputOf DEF DataflowInv
  <1>3. \A t, w \in Tasks : t # w => \A a \in all(t), b \in all(w) : HashInput(a, key) # HashInput(b, key)
    BY <1>1 DEF Aligned
  <1>4. ASSUME NEW t \in Tasks, NEW i \in 1..Len(job.inputs), NEW p \in 1..Len(TaskSide(i)[t])
        PROVE  TaskSide(i)[t][p] \in all(t)
    <2>1. TaskSide(i)[t] = Value(Before(t, total))[i][2]
      BY DEF TaskSide, Tasks
    <2> QED
      BY <1>1, <1>2, <1>4, <2>1, MergedHas
  <1> HIDE DEF all, key
  <1>5. KeysApart(total, TaskSide(f), TaskSide(g), key)
    BY <1>3, <1>4 DEF KeysApart, Tasks
  <1> QED
    BY <1>5 DEF key

\* An operator that merges its inputs into one partition puts that one out.
OneResult(t, n, r) ==
    /\ IsOk(Before(t, n)) => /\ IsOk(Output(t, n)) <=> IsOk(r)
                             /\ IsOk(r) => /\ Len(Value(Output(t, n))) = 1
                                           /\ Value(Output(t, n))[1][1] = Value(Before(t, n))[1][1]
                                           /\ Value(Output(t, n))[1][2] = Value(r)
    /\ ~IsOk(Before(t, n)) => ~IsOk(Output(t, n))

\* What a task puts out if its last operator is ReduceByKey.
LEMMA ReduceOutput ==
    ASSUME job \in Jobs, Ends("ReduceByKey"), NEW t, NEW n,
           IsOk(Before(t, n)) => Len(Value(Before(t, n))) = 1
    PROVE  OneResult(t, n, ReduceByKey(Value(Before(t, n))[1][2], LastOp(job)[2], LastOp(job)[3]))
  <1> DEFINE ps == Value(Before(t, n))
             r == ReduceByKey(ps[1][2], LastOp(job)[2], LastOp(job)[3])
             id == ps[1][1]
  <1>1. Output(t, n) = IF IsOk(Before(t, n)) THEN Apply(LastOp(job), hash, ps) ELSE Err
    BY OutputOf
  <1>2. ASSUME IsOk(Before(t, n)) PROVE Output(t, n) = Partitions(<<id>>, <<r>>)
    <2>1. Merged(ps) = ps[1][2]
      BY <1>2, OutputOf, MergedOne
    <2>2. LastOp(job)[1] = "ReduceByKey"
      BY DEF Ends
    <2>3. Apply(LastOp(job), hash, ps) =
              Partitions(<<id>>, <<ReduceByKey(Merged(ps), LastOp(job)[2], LastOp(job)[3])>>)
      BY <2>2 DEF Apply, RecordOps
    <2> QED
      BY <1>1, <1>2, <2>1, <2>3
  <1> HIDE DEF ps, r, id
  <1>3. /\ IsOk(Partitions(<<id>>, <<r>>)) <=> IsOk(r)
        /\ IsOk(r) => /\ Len(Value(Partitions(<<id>>, <<r>>))) = 1
                      /\ Value(Partitions(<<id>>, <<r>>))[1] = <<id, Value(r)>>
    BY OnePartition
  <1>4. OneResult(t, n, r)
    BY <1>1, <1>2, <1>3, Results DEF OneResult, id, ps
  <1> QED
    BY <1>4 DEF r, ps

\* With aligned keys, jobs that end with ReduceByKey put out a record per key of
\* the whole.
LEMMA ReduceTransparent ==
    ASSUME DataflowInv, RecordWise, Ends("ReduceByKey"), Aligned
    PROVE  /\ Transparent
           /\ IsOk(Output(0, 1)) =>
                 /\ OnePerTask /\ IsOk(Before(0, 1)) /\ RecsOK(Side(1))
                 /\ IsOk(ReduceByKey(Side(1), LastOp(job)[2], LastOp(job)[3]))
                 /\ \E F : ListShares(total, TaskOutput, F, KeysOf(Side(1), LastOp(job)[2]),
                                      GroupRecords(Side(1), LastOp(job)[2], LastOp(job)[3]))
  <1> DEFINE key == LastOp(job)[2]
             red == LastOp(job)[3]
             s == Side(1)
             u == TaskSide(1)
  <1>1. total \in Nat /\ total > 0 /\ job \in Jobs /\ Tasks = 0..(total - 1)
    BY DataflowAssumption DEF DataflowInv, Tasks
  <1>2. Buckets(job) = 1 /\ Len(job.inputs) = 1 /\ 1 \in 1..1
    BY DEF Buckets, Ends, RecordWise
  <1>3. /\ IsOk(Before(0, 1)) <=> \A t \in Tasks : IsOk(Before(t, total))
        /\ IsOk(Before(0, 1)) =>
              /\ Len(Value(Before(0, 1))) = 1
              /\ \A t \in Tasks : Len(Value(Before(t, total))) = 1 /\ Value(Before(t, total))[1][1] = t
              /\ Split(total, u, s) /\ RecsOK(s)
    BY <1>2, BeforeSplit
  <1>4. CASE ~IsOk(Before(0, 1))
    <2>1. PICK t \in Tasks : ~IsOk(Before(t, total))
      BY <1>3, <1>4
    <2>2. ~IsOk(Output(t, total)) /\ ~IsOk(Output(0, 1))
      BY <1>1, <1>4, <2>1, OutputOf
    <2> QED
      BY <1>2, <2>2 DEF Transparent
  <1>5. CASE IsOk(Before(0, 1))
    <2>1. OneResult(0, 1, ReduceByKey(s, key, red))
      BY <1>1, <1>3, <1>5, ReduceOutput DEF Side
    <2>2. \A t \in Tasks : OneResult(t, total, ReduceByKey(u[t], key, red))
      <3> SUFFICES ASSUME NEW t \in Tasks PROVE OneResult(t, total, ReduceByKey(u[t], key, red))
        OBVIOUS
      <3>1. u[t] = Value(Before(t, total))[1][2]
        BY <1>1 DEF TaskSide
      <3> QED
        BY <1>1, <1>3, <1>5, <3>1, ReduceOutput
    <2>3. KeysApart(total, u, u, key)
      BY <1>2, <1>5, AlignedApart
    <2> DEFINE E == KeysOf(s, key)
               g == GroupRecords(s, key, red)
               F == KeyShares(total, u, key)
               v == ReduceShares(total, u, key, red)
    <2>4. /\ IsOk(ReduceByKey(s, key, red)) <=>
                 \A t \in 0..(total - 1) : IsOk(ReduceByKey(u[t], key, red))
          /\ IsOk(ReduceByKey(s, key, red)) =>
                 /\ Lists(Value(ReduceByKey(s, key, red)), E, g)
                 /\ ListShares(total, v, F, E, g)
      <3> HIDE DEF key, red, s, u
      <3> QED
        BY <1>1, <1>3, <1>5, <2>3, ReduceSplit
    <2> HIDE DEF key, red, s, u, F, E, g
    <2>5. IsOk(Output(0, 1)) <=> IsOk(ReduceByKey(s, key, red))
      BY <1>5, <2>1 DEF OneResult
    <2>6. \A t \in Tasks : IsOk(Output(t, total)) <=> IsOk(ReduceByKey(u[t], key, red))
      BY <1>3, <1>5, <2>2 DEF OneResult
    <2>7. IsOk(Output(0, 1)) <=> \A t \in Tasks : IsOk(Output(t, total))
      BY <1>1, <2>4, <2>5, <2>6
    <2>8. ASSUME IsOk(Output(0, 1))
          PROVE  /\ OnePerTask /\ Len(Value(Output(0, 1))) = 1
                 /\ ListShares(total, TaskOutput, F, E, g)
                 /\ Lists(Value(Output(0, 1))[1][2], E, g)
      <3>1. \A t \in Tasks : /\ IsOk(Output(t, total)) /\ Len(Value(Output(t, total))) = 1
                             /\ Value(Output(t, total))[1][1] = t
                             /\ Value(Output(t, total))[1][2] = Value(ReduceByKey(u[t], key, red))
        BY <1>3, <1>5, <2>2, <2>6, <2>7, <2>8 DEF OneResult
      <3>2. Len(Value(Output(0, 1))) = 1 /\ Value(Output(0, 1))[1][2] = Value(ReduceByKey(s, key, red))
        BY <1>5, <2>1, <2>5, <2>8 DEF OneResult
      <3>3. TaskOutput = v
        BY <1>1, <3>1 DEF TaskOutput, ReduceShares
      <3>4. OnePerTask
        BY <3>1 DEF OnePerTask
      <3> QED
        BY <2>4, <2>5, <2>8, <3>2, <3>3, <3>4
    <2>9. Transparent
      BY <1>2, <2>7, <2>8 DEF Transparent, ListTogether
    <2> QED
      BY <1>3, <1>5, <2>5, <2>8, <2>9 DEF s, key, red, E, g
  <1> QED
    BY <1>4, <1>5

-----------------------------------------------------------------------------
(* What the reducers compute.                                              *)

\* The values of those of 1..n that are in s, 0 for the others, and their sum.
Masked(val, s, n) == [i \in 1..n |-> IF i \in s THEN val[i] ELSE 0]
SumOf(val, s, n) == FoldNumeric("sum", Masked(val, s, n))

\* How such a sum is computed: the sums of the first numbers.
SumRun(f, val, s, n) ==
    /\ SumOf(val, s, n) = f[n] /\ f[1] = Masked(val, s, n)[1]
    /\ \A m \in 1..n : f[m] \in Int
    /\ \A m \in 1..n : m # 1 => f[m] = f[m - 1] + Masked(val, s, n)[m]

\* It is computed so.
LEMMA SumUnrolls ==
    ASSUME NEW n \in Nat, n > 0, NEW val, NEW s, \A i \in s : val[i] \in Int
    PROVE  \E f : SumRun(f, val, s, n)
  <1> DEFINE nums == Masked(val, s, n)
  <1>1. DOMAIN nums = 1..n /\ nums = [i \in 1..n |-> nums[i]] /\ \A i \in 1..n : nums[i] \in Int
    BY DEF Masked
  <1> HIDE DEF nums
  <1>2. IsList(nums) /\ Len(nums) = n
    BY <1>1, FunctionIsList
  <1>3. nums # <<>>
    BY <1>2, EmptyIsList
  <1>4. PICK f : AccUnrolls(f, "sum", nums, n) /\ FoldNumeric("sum", nums) = f[n]
    BY <1>2, <1>3, FoldIsUnrolled
  <1>5. \A m \in 1..n : f[m] = IF m = 1 THEN nums[m] ELSE Accumulated("sum", f[m - 1], nums[m])
    BY <1>4 DEF AccUnrolls
  <1> DEFINE bad == {m \in 1..n : f[m] \notin Int}
  <1>6. bad = {}
    <2> SUFFICES ASSUME bad # {} PROVE FALSE
      OBVIOUS
    <2>1. bad \subseteq Nat /\ \A m : m \in bad <=> m \in 1..n /\ f[m] \notin Int
      OBVIOUS
    <2> HIDE DEF bad
    <2>2. PICK m \in bad : \A h \in bad : m <= h
      BY <2>1, LeastExists
    <2>3. m \in 1..n /\ f[m] \notin Int
      BY <2>1
    <2>4. m # 1
      BY <1>1, <1>5, <2>3
    <2>5. m - 1 \in 1..n /\ m - 1 < m
      BY <2>3, <2>4
    <2>6. m - 1 \notin bad
      BY <2>1, <2>2, <2>5
    <2>7. f[m - 1] \in Int /\ nums[m] \in Int
      BY <1>1, <2>1, <2>3, <2>5, <2>6
    <2>8. Accumulated("sum", f[m - 1], nums[m]) \in Int
      BY <2>7, AccumulatedOK DEF Folding
    <2> QED
      BY <1>5, <2>3, <2>4, <2>8
  <1>7. \A m \in 1..n : f[m] \in Int
    BY <1>6
  <1>8. ASSUME NEW m \in 1..n, m # 1 PROVE f[m] = f[m - 1] + nums[m]
    <2>1. f[m - 1] \in Int /\ nums[m] \in Int
      BY <1>1, <1>7, <1>8
    <2>2. Accumulated("sum", f[m - 1], nums[m]) = f[m - 1] + nums[m]
      BY ZenonT(60), <2>1, AccumulatedOK DEF Folding
    <2> QED
      BY <1>5, <1>8, <2>2
  <1>9. f[1] = nums[1]
    BY <1>5
  <1> QED
    BY <1>4, <1>7, <1>8, <1>9 DEF SumRun, SumOf, nums

\* The sum of nothing is 0.
LEMMA SumOfNone ==
    ASSUME NEW n \in Nat, n > 0, NEW val
    PROVE  SumOf(val, {}, n) = 0
  <1> DEFINE nums == Masked(val, {}, n)
  <1>1. \A i \in 1..n : nums[i] = 0
    BY DEF Masked
  <1>2. PICK f : /\ SumOf(val, {}, n) = f[n]
                 /\ f[1] = nums[1]
                 /\ \A m \in 1..n : m # 1 => f[m] = f[m - 1] + nums[m]
    BY SumUnrolls DEF SumRun
  <1> HIDE DEF nums
  <1> DEFINE bad == {m \in 1..n : f[m] # 0}
  <1>3. bad = {}
    <2> SUFFICES ASSUME bad # {} PROVE FALSE
      OBVIOUS
    <2>1. bad \subseteq Nat /\ \A m : m \in bad <=> m \in 1..n /\ f[m] # 0
      OBVIOUS
    <2> HIDE DEF bad
    <2>2. PICK m \in bad : \A h \in bad : m <= h
      BY <2>1, LeastExists
    <2>3. m \in 1..n /\ f[m] # 0
      BY <2>1
    <2>4. m # 1
      BY <1>1, <1>2, <2>3
    <2>5. m - 1 \in 1..n /\ m - 1 < m
      BY <2>3, <2>4
    <2>6. m - 1 \notin bad
      BY <2>1, <2>2, <2>5
    <2>7. f[m - 1] = 0
      BY <2>1, <2>5, <2>6
    <2> QED
      BY <1>1, <1>2, <2>3, <2>4, <2>7
  <1>4. n \in 1..n
    OBVIOUS
  <1> QED
    BY <1>2, <1>3, <1>4

\* To take one away is to subtract it.
LEMMA SumOfOneLess ==
    ASSUME NEW n \in Nat, n > 0, NEW val, NEW s, \A i \in s : val[i] \in Int,
           NEW x \in s, x \in 1..n
    PROVE  SumOf(val, s, n) = val[x] + SumOf(val, s \ {x}, n)
  <1> DEFINE a == Masked(val, s, n)
             b == Masked(val, s \ {x}, n)
             c(m) == IF x <= m THEN val[x] ELSE 0
  <1>1. \A i \in 1..n : a[i] \in Int /\ b[i] \in Int /\ a[i] = b[i] + IF i = x THEN val[x] ELSE 0
    BY DEF Masked
  <1>2. PICK f : /\ SumOf(val, s, n) = f[n] /\ f[1] = a[1]
                 /\ \A m \in 1..n : f[m] \in Int
                 /\ \A m \in 1..n : m # 1 => f[m] = f[m - 1] + a[m]
    <2>1. \E f : SumRun(f, val, s, n)
      BY SumUnrolls
    <2> QED
      BY <2>1 DEF SumRun
  <1>3. PICK g : /\ SumOf(val, s \ {x}, n) = g[n] /\ g[1] = b[1]
                 /\ \A m \in 1..n : g[m] \in Int
                 /\ \A m \in 1..n : m # 1 => g[m] = g[m - 1] + b[m]
    <2> DEFINE r == s \ {x}
    <2>1. \A i \in r : val[i] \in Int
      OBVIOUS
    <2> HIDE DEF r
    <2>2. \E g : SumRun(g, val, r, n)
      BY <2>1, SumUnrolls
    <2> QED
      BY <2>2 DEF r, SumRun
  <1> HIDE DEF a, b
  <1> DEFINE bad == {m \in 1..n : f[m] # g[m] + c(m)}
  <1>4. bad = {}
    <2> SUFFICES ASSUME bad # {} PROVE FALSE
      OBVIOUS
    <2>1. bad \subseteq Nat /\ \A m : m \in bad <=> m \in 1..n /\ f[m] # g[m] + c(m)
      OBVIOUS
    <2> HIDE DEF bad
    <2>2. PICK m \in bad : \A h \in bad : m <= h
      BY <2>1, LeastExists
    <2>3. m \in 1..n /\ f[m] # g[m] + c(m)
      BY <2>1
    <2>4. m # 1
      <3>1. 1 \in 1..n /\ a[1] = b[1] + IF 1 = x THEN val[x] ELSE 0
        BY <1>1
      <3>2. c(1) = IF 1 = x THEN val[x] ELSE 0
        OBVIOUS
      <3> HIDE DEF c
      <3> QED
        BY <1>2, <1>3, <2>3, <3>1, <3>2
    <2>5. m - 1 \in 1..n /\ m - 1 < m
      BY <2>3, <2>4
    <2>6. m - 1 \notin bad
      BY <2>1, <2>2, <2>5
    <2>7. f[m - 1] = g[m - 1] + c(m - 1)
      BY <2>1, <2>5, <2>6
    <2>8. f[m] = f[m - 1] + a[m] /\ g[m] = g[m - 1] + b[m]
      BY <1>2, <1>3, <2>3, <2>4
    <2>9. a[m] = b[m] + (IF m = x THEN val[x] ELSE 0) /\ a[m] \in Int /\ b[m] \in Int
      BY <1>1, <2>3
    <2>10. c(m) = c(m - 1) + (IF m = x THEN val[x] ELSE 0) /\ c(m) \in Int /\ c(m - 1) \in Int
      BY <2>3
    <2>11. g[m - 1] \in Int /\ val[x] \in Int
      BY <1>3, <2>5
    <2> HIDE DEF c
    <2> QED
      BY <2>3, <2>7, <2>8, <2>9, <2>10, <2>11
  <1>5. n \in 1..n /\ c(n) = val[x] /\ val[x] \in Int
    OBVIOUS
  <1>6. f[n] = g[n] + c(n)
    BY <1>4, <1>5
  <1>7. g[n] \in Int
    BY <1>3, <1>5
  <1> HIDE DEF c
  <1> QED
    BY <1>2, <1>3, <1>5, <1>6, <1>7

\* A sum over the subsets of a set, taking away an element at a time.
SumsSubsets(h, val, at) ==
    h = [s \in SUBSET at |-> IF s = {} THEN 0
                             ELSE val[CHOOSE x \in s : TRUE] + h[s \ {CHOOSE x \in s : TRUE}]]

\* There is one way to take it.
LEMMA SubsetSums ==
    ASSUME NEW n \in Nat, n > 0, NEW val, NEW at, at \subseteq 1..n, \A i \in at : val[i] \in Int
    PROVE  /\ SumsSubsets([s \in SUBSET at |-> SumOf(val, s, n)], val, at)
           /\ \A h : SumsSubsets(h, val, at) => h[at] = SumOf(val, at, n)
  <1> DEFINE sums == [s \in SUBSET at |-> SumOf(val, s, n)]
             one(s) == CHOOSE x \in s : TRUE
  <1>1. ASSUME NEW s \in SUBSET at, s # {}
        PROVE  /\ one(s) \in s /\ one(s) \in 1..n /\ s \ {one(s)} \in SUBSET at
               /\ SumOf(val, s, n) = val[one(s)] + SumOf(val, s \ {one(s)}, n)
    <2>1. one(s) \in s
      BY <1>1
    <2>2. one(s) \in 1..n /\ \A i \in s : val[i] \in Int
      BY <2>1
    <2> HIDE DEF one
    <2>3. SumOf(val, s, n) = val[one(s)] + SumOf(val, s \ {one(s)}, n)
      BY <2>1, <2>2, SumOfOneLess
    <2> QED
      BY <2>1, <2>2, <2>3
  <1>2. SumOf(val, {}, n) = 0
    BY SumOfNone
  <1>3. SumsSubsets(sums, val, at)
    <2>1. ASSUME NEW s \in SUBSET at
          PROVE  sums[s] = IF s = {} THEN 0 ELSE val[one(s)] + sums[s \ {one(s)}]
      <3>1. CASE s = {}
        BY <1>2, <3>1
      <3>2. CASE s # {}
        BY <1>1, <3>2
      <3> QED
        BY <3>1, <3>2
    <2>2. sums = [s \in SUBSET at |-> IF s = {} THEN 0 ELSE val[one(s)] + sums[s \ {one(s)}]]
      <3>1. sums = [s \in SUBSET at |-> sums[s]]
        OBVIOUS
      <3> HIDE DEF sums, one
      <3> QED
        BY <2>1, <3>1
    <2> HIDE DEF sums
    <2> QED
      BY <2>2 DEF SumsSubsets
  <1>4. ASSUME NEW h, SumsSubsets(h, val, at) PROVE h[at] = SumOf(val, at, n)
    <2>1. \A s \in SUBSET at : h[s] = IF s = {} THEN 0 ELSE val[one(s)] + h[s \ {one(s)}]
      BY <1>4 DEF SumsSubsets
    <2>2. IsFiniteSet(at)
      <3>1. IsFiniteSet(1..n)
        BY FS_Interval
      <3> QED
        BY <3>1, FS_Subset
    <2> DEFINE wrong == {s \in SUBSET at : h[s] # SumOf(val, s, n)}
               bad == {Cardinality(s) : s \in wrong}
    <2>3. SUFFICES ASSUME at \in wrong PROVE FALSE
      OBVIOUS
    <2>4. \A s \in SUBSET at : IsFiniteSet(s) /\ Cardinality(s) \in Nat
      BY <2>2, FS_Subset, FS_CardinalityType
    <2>5. bad \subseteq Nat /\ bad # {}
      BY <2>3, <2>4
    <2>6. PICK c \in bad : \A d \in bad : c <= d
      <3> HIDE DEF bad
      <3> QED
        BY <2>5, LeastExists
    <2>7. PICK s \in wrong : c = Cardinality(s)
      OBVIOUS
    <2>8. s \in SUBSET at /\ h[s] # SumOf(val, s, n) /\ IsFiniteSet(s) /\ Cardinality(s) \in Nat
      BY <2>4
    <2>9. s # {}
      BY <1>2, <2>1, <2>8
    <2> DEFINE r == s \ {one(s)}
    <2>10. r \in SUBSET at /\ one(s) \in s /\ SumOf(val, s, n) = val[one(s)] + SumOf(val, r, n)
      BY <1>1, <2>8, <2>9
    <2>11. Cardinality(r) = Cardinality(s) - 1
      <3> HIDE DEF one
      <3> QED
        BY <2>8, <2>10, FS_RemoveElement
    <2>12. r \notin wrong
      <3>1. Cardinality(r) < c
        BY <2>7, <2>8, <2>11
      <3>2. Cardinality(r) \in bad => c <= Cardinality(r)
        BY <2>6
      <3>3. Cardinality(r) \in Nat /\ c \in Nat
        BY <2>4, <2>7, <2>8, <2>10
      <3>4. Cardinality(r) \notin bad
        BY <3>1, <3>2, <3>3
      <3> QED
        BY <3>4
    <2>13. h[r] = SumOf(val, r, n)
      BY <2>10, <2>12
    <2>14. h[s] = val[one(s)] + h[r]
      BY <2>1, <2>8, <2>9
    <2> QED
      BY <2>8, <2>10, <2>13, <2>14
  <1> QED
    BY <1>3, <1>4

\* MapThenSumSet takes it.
LEMMA SetSum ==
    ASSUME NEW n \in Nat, n > 0, NEW recs, NEW f, NEW at, at \subseteq 1..n,
           \A i \in at : recs[i][f][2] \in Int
    PROVE  MapThenSumSet(LAMBDA i : recs[i][f][2], at)
               = SumOf([i \in at |-> recs[i][f][2]], at, n)
  <1> DEFINE val == [i \in at |-> recs[i][f][2]]
             Run(h) == h = [s \in SUBSET at |->
                               IF s = {} THEN 0
                               ELSE recs[CHOOSE x \in s : TRUE][f][2]
                                    + h[s \ {CHOOSE x \in s : TRUE}]]
             iter == CHOOSE h : Run(h)
  <1>1. MapThenSumSet(LAMBDA i : recs[i][f][2], at) = iter[at]
    BY DEF MapThenSumSet, MapThenFoldSet
  <1>2. ASSUME NEW h PROVE Run(h) <=> SumsSubsets(h, val, at)
    <2>1. \A s \in SUBSET at : s # {} => (CHOOSE x \in s : TRUE) \in at
      OBVIOUS
    <2>2. \A s \in SUBSET at :
             (IF s = {} THEN 0 ELSE recs[CHOOSE x \in s : TRUE][f][2]
                                    + h[s \ {CHOOSE x \in s : TRUE}])
             = (IF s = {} THEN 0 ELSE val[CHOOSE x \in s : TRUE] + h[s \ {CHOOSE x \in s : TRUE}])
      BY <2>1
    <2> QED
      BY <2>2 DEF SumsSubsets
  <1>3. \A i \in at : val[i] \in Int
    OBVIOUS
  <1> HIDE DEF val
  <1>4. /\ \E h : SumsSubsets(h, val, at)
        /\ \A h : SumsSubsets(h, val, at) => h[at] = SumOf(val, at, n)
    BY <1>3, SubsetSums
  <1>5. \E h : Run(h)
    <2> HIDE DEF Run
    <2> QED
      BY <1>2, <1>4
  <1>6. Run(iter)
    <2> HIDE DEF Run
    <2> QED
      BY <1>5
  <1> HIDE DEF iter, Run
  <1> QED
    BY <1>1, <1>2, <1>4, <1>6 DEF val

\* To fold a list of the numbers of a set with sum is to sum over the set.
LEMMA FoldSum ==
    ASSUME NEW n \in Nat, n > 0, NEW val, NEW at, at \subseteq 1..n, \A i \in at : val[i] \in Int,
           NEW nums, NEW b, ListedBy(nums, b, at, val), nums # <<>>
    PROVE  FoldNumeric("sum", nums) = SumOf(val, at, n)
  <1> DEFINE m == Len(nums)
             first(k) == {b[p] : p \in 1..k}
  <1>1. /\ IsList(nums) /\ m \in Nat
        /\ \A p \in 1..m : b[p] \in at /\ nums[p] = val[b[p]] /\ nums[p] \in Int
        /\ \A p, q \in 1..m : b[p] = b[q] => p = q
        /\ \A e \in at : \E p \in 1..m : b[p] = e
    BY DEF ListedBy, IsList
  <1>2. m > 0
    BY <1>1, FoldIsUnrolled
  <1>3. PICK f : AccUnrolls(f, "sum", nums, m) /\ FoldNumeric("sum", nums) = f[m]
    BY <1>1, FoldIsUnrolled
  <1>4. \A k \in 1..m : f[k] = IF k = 1 THEN nums[k] ELSE Accumulated("sum", f[k - 1], nums[k])
    BY <1>3 DEF AccUnrolls
  <1>5. ASSUME NEW k \in 1..m
        PROVE  /\ first(k) \subseteq at /\ b[k] \in first(k) /\ first(k) \ {b[k]} = first(k - 1)
               /\ SumOf(val, first(k), n) = val[b[k]] + SumOf(val, first(k - 1), n)
    <2>1. first(k) \subseteq at /\ b[k] \in first(k) /\ k \in Nat
      BY <1>1
    <2>2. first(k) \ {b[k]} = first(k - 1)
      <3>1. ASSUME NEW p \in 1..k, b[p] # b[k] PROVE p \in 1..(k - 1)
        BY <3>1
      <3>2. ASSUME NEW p \in 1..(k - 1) PROVE p \in 1..k /\ b[p] # b[k]
        <4>1. p \in 1..m /\ k \in 1..m /\ p # k /\ p \in 1..k
          BY <1>1
        <4> QED
          BY <1>1, <4>1
      <3> QED
        BY <3>1, <3>2
    <2>3. b[k] \in 1..n /\ \A i \in first(k) : val[i] \in Int
      BY <2>1
    <2> DEFINE S == first(k)
    <2>4. SumOf(val, S, n) = val[b[k]] + SumOf(val, S \ {b[k]}, n)
      <3> HIDE DEF S
      <3>1. b[k] \in S /\ b[k] \in 1..n /\ \A i \in S : val[i] \in Int
        BY <2>1, <2>3 DEF S
      <3> QED
        BY <3>1, SumOfOneLess
    <2> QED
      BY <2>1, <2>2, <2>4
  <1>6. SumOf(val, first(0), n) = 0
    <2>1. first(0) = {}
      OBVIOUS
    <2> QED
      BY <2>1, SumOfNone
  <1> DEFINE bad == {k \in 1..m : f[k] # SumOf(val, first(k), n) \/ f[k] \notin Int}
  <1>7. bad = {}
    <2> SUFFICES ASSUME bad # {} PROVE FALSE
      OBVIOUS
    <2>1. bad \subseteq Nat
          /\ \A k : k \in bad <=> k \in 1..m /\ (f[k] # SumOf(val, first(k), n) \/ f[k] \notin Int)
      BY <1>1
    <2> HIDE DEF bad
    <2>2. PICK k \in bad : \A h \in bad : k <= h
      BY <2>1, LeastExists
    <2>3. k \in 1..m /\ (f[k] # SumOf(val, first(k), n) \/ f[k] \notin Int)
      BY <2>1
    <2>4. nums[k] \in Int /\ nums[k] = val[b[k]]
          /\ SumOf(val, first(k), n) = val[b[k]] + SumOf(val, first(k - 1), n)
      BY <1>1, <1>5, <2>3
    <2> HIDE DEF first, m
    <2>5. k # 1
      <3> SUFFICES ASSUME k = 1 PROVE FALSE
        OBVIOUS
      <3>1. f[1] = nums[1]
        BY <1>4, <2>3
      <3>2. SumOf(val, first(1), n) = nums[1] + 0
        BY <1>6, <2>4
      <3> QED
        BY <2>3, <2>4, <3>1, <3>2
    <2>6. k - 1 \in 1..m /\ k - 1 < k
      BY <1>1, <2>3, <2>5
    <2>7. k - 1 \notin bad
      BY <2>1, <2>2, <2>6
    <2>8. f[k - 1] = SumOf(val, first(k - 1), n) /\ f[k - 1] \in Int
      BY <2>1, <2>6, <2>7
    <2>9. f[k] = Accumulated("sum", f[k - 1], nums[k])
      BY <1>4, <2>3, <2>5
    <2>10. f[k] = f[k - 1] + nums[k]
      BY <2>4, <2>8, <2>9, AccumulatedOK DEF Folding
    <2> QED
      BY <2>3, <2>4, <2>8, <2>10
  <1>8. m \in 1..m /\ first(m) = at
    <2>1. m \in 1..m
      BY <1>1, <1>2
    <2>2. first(m) \subseteq at
      BY <1>5, <2>1
    <2>3. at \subseteq first(m)
      BY <1>1
    <2> QED
      BY <2>1, <2>2, <2>3
  <1> HIDE DEF first
  <1> QED
    BY <1>3, <1>7, <1>8

\* The least, or the greatest, of the first k numbers.
IsBound(how, x, nums, k) ==
    /\ x \in Int /\ \E p \in 1..k : x = nums[p]
    /\ \A p \in 1..k : IF how = "min" THEN x <= nums[p] ELSE nums[p] <= x

\* To fold with min or max is to find it.
LEMMA FoldBound ==
    ASSUME NEW how \in {"min", "max"}, NEW nums, IsList(nums), nums # <<>>,
           \A p \in 1..Len(nums) : nums[p] \in Int
    PROVE  IsBound(how, FoldNumeric(how, nums), nums, Len(nums))
  <1> DEFINE m == Len(nums)
  <1>1. m \in Nat /\ m > 0 /\ how \in Folding
    BY FoldIsUnrolled DEF Folding
  <1>2. PICK f : AccUnrolls(f, how, nums, m) /\ FoldNumeric(how, nums) = f[m]
    BY <1>1, FoldIsUnrolled
  <1>3. \A k \in 1..m : f[k] = IF k = 1 THEN nums[k] ELSE Accumulated(how, f[k - 1], nums[k])
    BY <1>2 DEF AccUnrolls
  <1> DEFINE bad == {k \in 1..m : ~IsBound(how, f[k], nums, k)}
  <1>4. bad = {}
    <2> SUFFICES ASSUME bad # {} PROVE FALSE
      OBVIOUS
    <2>1. bad \subseteq Nat /\ \A k : k \in bad <=> k \in 1..m /\ ~IsBound(how, f[k], nums, k)
      BY <1>1
    <2> HIDE DEF bad
    <2>2. PICK k \in bad : \A h \in bad : k <= h
      BY <2>1, LeastExists
    <2>3. k \in 1..m /\ ~IsBound(how, f[k], nums, k) /\ nums[k] \in Int
      BY <2>1
    <2> HIDE DEF m
    <2>4. k # 1
      <3> SUFFICES ASSUME k = 1 PROVE FALSE
        OBVIOUS
      <3>1. f[1] = nums[1] /\ nums[1] \in Int
        BY <1>3, <2>3
      <3>2. 1..1 = {1} /\ nums[1] <= nums[1]
        BY <3>1
      <3>3. IsBound(how, f[1], nums, 1)
        BY <3>1, <3>2 DEF IsBound
      <3> QED
        BY <2>3, <3>3
    <2>5. k - 1 \in 1..m /\ k - 1 < k
      BY <1>1, <2>3, <2>4
    <2>6. IsBound(how, f[k - 1], nums, k - 1)
      BY <2>1, <2>2, <2>5
    <2>7. f[k - 1] \in Int
      BY <2>6 DEF IsBound
    <2>8. f[k] = Accumulated(how, f[k - 1], nums[k])
      BY <1>3, <2>3, <2>4
    <2>9. /\ how = "min" => f[k] = IF f[k - 1] <= nums[k] THEN f[k - 1] ELSE nums[k]
          /\ how = "max" => f[k] = IF f[k - 1] >= nums[k] THEN f[k - 1] ELSE nums[k]
      BY <1>1, <2>3, <2>7, <2>8, AccumulatedOK
    <2>10. \A p \in 1..k : p = k \/ p \in 1..(k - 1)
      BY <1>1, <2>3
    <2>11. k \in 1..k /\ \A p \in 1..(k - 1) : p \in 1..k
      BY <1>1, <2>3
    <2>12. \A p \in 1..k : nums[p] \in Int
      BY <1>1, <2>3 DEF m
    <2>13. f[k] \in Int /\ \E p \in 1..k : f[k] = nums[p]
      <3>1. f[k] = nums[k] \/ f[k] = f[k - 1]
        BY <2>9
      <3>2. PICK p \in 1..(k - 1) : f[k - 1] = nums[p]
        BY <2>6 DEF IsBound
      <3> QED
        BY <2>3, <2>7, <2>11, <3>1, <3>2
    <2>14. ASSUME NEW p \in 1..k PROVE IF how = "min" THEN f[k] <= nums[p] ELSE nums[p] <= f[k]
      <3>1. CASE p = k
        BY <2>3, <2>7, <2>9, <3>1
      <3>2. CASE p \in 1..(k - 1)
        <4>1. IF how = "min" THEN f[k - 1] <= nums[p] ELSE nums[p] <= f[k - 1]
          BY <2>6, <3>2 DEF IsBound
        <4> QED
          BY <2>3, <2>7, <2>9, <2>12, <4>1
      <3> QED
        BY <2>10, <3>1, <3>2
    <2>15. IsBound(how, f[k], nums, k)
      BY <2>13, <2>14 DEF IsBound
    <2> QED
      BY <2>3, <2>15
  <1>5. m \in 1..m
    BY <1>1
  <1> QED
    BY <1>2, <1>4, <1>5

\* And to choose it from the set of the numbers.
LEMMA BoundOfSet ==
    ASSUME NEW nums, NEW m \in Nat, NEW S, \A x : x \in S <=> \E p \in 1..m : nums[p] = x,
           \A x \in S : x \in Int, NEW x
    PROVE  /\ IsBound("min", x, nums, m) => Min(S) = x
           /\ IsBound("max", x, nums, m) => Max(S) = x
  <1>1. ASSUME IsBound("min", x, nums, m) PROVE Min(S) = x
    <2>1. x \in S /\ \A y \in S : x <= y
      BY <1>1 DEF IsBound
    <2>2. Min(S) \in S /\ \A y \in S : Min(S) <= y
      BY <2>1 DEF Min
    <2>3. x <= Min(S) /\ Min(S) <= x /\ x \in Int /\ Min(S) \in Int
      BY <2>1, <2>2
    <2> QED
      BY <2>3
  <1>2. ASSUME IsBound("max", x, nums, m) PROVE Max(S) = x
    <2>1. x \in S /\ \A y \in S : x >= y
      <3>1. x \in Int /\ \A p \in 1..m : nums[p] <= x
        BY <1>2 DEF IsBound
      <3> QED
        BY <1>2, <3>1 DEF IsBound
    <2>2. Max(S) \in S /\ \A y \in S : Max(S) >= y
      BY <2>1 DEF Max
    <2>3. x >= Max(S) /\ Max(S) >= x /\ x \in Int /\ Max(S) \in Int
      BY <2>1, <2>2
    <2> QED
      BY <2>3
  <1> QED
    BY <1>1, <1>2

\* Where the numbers that Aggregate takes are.
NumbersAt(recs, f) == {i \in 1..Len(recs) : f \in DOMAIN recs[i] /\ Kind(recs[i][f]) = "Num"}

\* extract_number lists them.
LEMMA NumbersListed ==
    ASSUME NEW recs, RecsOK(recs), NEW f
    PROVE  /\ NumbersAt(recs, f) \subseteq 1..Len(recs)
           /\ \A i \in NumbersAt(recs, f) : recs[i][f][2] \in Int
           /\ \E b : ListedBy(Numbers(recs, f), b, NumbersAt(recs, f),
                              [i \in NumbersAt(recs, f) |-> recs[i][f][2]])
  <1> DEFINE at == NumbersAt(recs, f)
             with == WithNumber(recs, f)
             nums == Numbers(recs, f)
             val == [i \in at |-> recs[i][f][2]]
  <1>1. at \subseteq 1..Len(recs)
    BY DEF NumbersAt
  <1>2. ASSUME NEW i \in at PROVE recs[i][f][2] \in Int
    <2>1. i \in 1..Len(recs) /\ f \in DOMAIN recs[i] /\ Kind(recs[i][f]) = "Num"
      BY DEF NumbersAt
    <2>2. ValueOK(recs[i][f])
      BY <2>1 DEF RecsOK, RecOK
    <2> QED
      BY <2>1, <2>2 DEF ValueOK, ScalarOK
  <1>3. Picks(with, recs, at)
    <2>1. with = Kept(recs, at) /\ IsList(recs)
      BY DEF WithNumber, NumbersAt, RecsOK
    <2>2. Picks(Kept(recs, at), recs, {i \in 1..Len(recs) : i \in at})
      BY <2>1, KeptPicks
    <2>3. {i \in 1..Len(recs) : i \in at} = at
      BY <1>1
    <2> QED
      BY <2>1, <2>2, <2>3
  <1>4. PICK b : ListedBy(with, b, at, recs)
    BY <1>3, PicksLists DEF Lists
  <1>5. IsList(nums) /\ Len(nums) = Len(with) /\ \A k \in 1..Len(nums) : nums[k] = with[k][f][2]
    BY NumbersOK
  <1> HIDE DEF at, with, nums
  <1>6. \A k \in 1..Len(with) : b[k] \in at /\ with[k] = recs[b[k]]
    BY <1>4 DEF ListedBy
  <1>7. \A k \in 1..Len(nums) : nums[k] = val[b[k]]
    BY <1>5, <1>6
  <1>8. ListedBy(nums, b, at, val)
    <2> HIDE DEF val
    <2> QED
      BY <1>4, <1>5, <1>7 DEF ListedBy
  <1> QED
    BY <1>1, <1>2, <1>8 DEF at, nums

\* apply_reducer folds them to what Aggregate defines.
LEMMA AggregateFold ==
    ASSUME NEW recs, RecsOK(recs), NEW red, red[1] \in Folding, Len(red) > 1
    PROVE  Aggregate(red, recs) = Num(FoldNumeric(red[1], Numbers(recs, red[2])))
  <1> DEFINE f == red[2]
             at == NumbersAt(recs, f)
             nums == Numbers(recs, f)
             val == [i \in at |-> recs[i][f][2]]
             S == {recs[i][f][2] : i \in at}
  <1>1. /\ red[1] = "sum" => Aggregate(red, recs) = Num(MapThenSumSet(LAMBDA i : recs[i][f][2], at))
        /\ red[1] = "min" => Aggregate(red, recs) = Num(IF at = {} THEN 0 ELSE Min(S))
        /\ red[1] = "max" => Aggregate(red, recs) = Num(IF at = {} THEN 0 ELSE Max(S))
    BY DEF Aggregate, NumbersAt
  <1>2. at \subseteq 1..Len(recs) /\ \A i \in at : recs[i][f][2] \in Int
    BY NumbersListed
  <1>3. PICK b : ListedBy(nums, b, at, val)
    BY NumbersListed
  <1>4. IsList(nums) /\ Len(nums) \in Nat /\ \A p \in 1..Len(nums) : nums[p] \in Int
    BY NumbersOK DEF IsList
  <1>5. /\ \A p \in 1..Len(nums) : b[p] \in at /\ nums[p] = recs[b[p]][f][2]
        /\ \A i \in at : \E p \in 1..Len(nums) : b[p] = i
    BY <1>3 DEF ListedBy
  <1>6. nums = <<>> <=> at = {}
    <2>1. nums = <<>> <=> Len(nums) = 0
      BY <1>4, EmptyIsList, ListEqual
    <2> HIDE DEF nums, at
    <2> QED
      BY <1>4, <1>5, <2>1
  <1>7. CASE at = {}
    <2>1. FoldNumeric(red[1], nums) = 0
      BY <1>6, <1>7 DEF FoldNumeric
    <2>2. MapThenSumSet(LAMBDA i : recs[i][f][2], at) = 0
      <3> HIDE DEF at, f
      <3>1. MapThenSumSet(LAMBDA i : recs[i][f][2], at) = SumOf(val, at, 1)
        <4>1. at \subseteq 1..1 /\ 1 \in Nat /\ 1 > 0
          BY <1>7
        <4> QED
          BY <1>2, <4>1, SetSum
      <3>2. SumOf(val, {}, 1) = 0
        <4> HIDE DEF val
        <4> QED
          BY SumOfNone
      <3> QED
        BY <1>7, <3>1, <3>2
    <2> HIDE DEF at, f
    <2> QED
      BY <1>1, <1>7, <2>1, <2>2 DEF Folding, nums, f
  <1>8. CASE at # {} /\ red[1] = "sum"
    <2>1. Len(recs) \in Nat /\ Len(recs) > 0
      <3>1. Len(recs) \in Nat
        BY DEF RecsOK, IsList
      <3>2. PICK i \in at : TRUE
        BY <1>8
      <3>3. i \in 1..Len(recs)
        BY <1>2
      <3> QED
        BY <3>1, <3>3
    <2>2. \A i \in at : val[i] \in Int
      BY <1>2
    <2> HIDE DEF at, nums, f
    <2>3. MapThenSumSet(LAMBDA i : recs[i][f][2], at) = SumOf(val, at, Len(recs))
      BY <1>2, <2>1, SetSum
    <2> HIDE DEF val
    <2>4. FoldNumeric("sum", nums) = SumOf(val, at, Len(recs))
      BY <1>2, <1>3, <1>6, <1>8, <2>1, <2>2, FoldSum
    <2> QED
      BY <1>1, <1>8, <2>3, <2>4 DEF nums, f
  <1>9. CASE at # {} /\ red[1] \in {"min", "max"}
    <2>1. IsBound(red[1], FoldNumeric(red[1], nums), nums, Len(nums))
      BY <1>4, <1>6, <1>9, FoldBound
    <2>2. (\A x : x \in S <=> \E p \in 1..Len(nums) : nums[p] = x) /\ \A x \in S : x \in Int
      <3>1. ASSUME NEW x \in S PROVE x \in Int /\ \E p \in 1..Len(nums) : nums[p] = x
        <4>1. PICK i \in at : x = recs[i][f][2]
          OBVIOUS
        <4>2. PICK p \in 1..Len(nums) : b[p] = i
          BY <1>5
        <4>3. nums[p] = x
          BY <1>5, <4>1, <4>2
        <4> QED
          BY <1>2, <4>1, <4>3
      <3>2. ASSUME NEW p \in 1..Len(nums) PROVE nums[p] \in S
        BY <1>5
      <3> HIDE DEF S, nums
      <3> QED
        BY <3>1, <3>2
    <2> HIDE DEF S, nums, at, f
    <2>3. /\ red[1] = "min" => Min(S) = FoldNumeric(red[1], nums)
          /\ red[1] = "max" => Max(S) = FoldNumeric(red[1], nums)
      BY <1>4, <2>1, <2>2, BoundOfSet
    <2> QED
      BY <1>1, <1>9, <2>3 DEF nums, f
  <1> QED
    BY <1>7, <1>8, <1>9 DEF Folding

\* Without a field there is nothing to fold.
LEMMA AggregateNothing ==
    ASSUME NEW recs, NEW red, red[1] \in Folding, ~(Len(red) > 1)
    PROVE  Aggregate(red, recs) = Num(0)
  <1> DEFINE f == red[2]
             at == {}
             val == [i \in at |-> recs[i][f][2]]
  <1>1. /\ red[1] = "sum" => Aggregate(red, recs) = Num(MapThenSumSet(LAMBDA i : recs[i][f][2], at))
        /\ red[1] = "min" => Aggregate(red, recs) = Num(0)
        /\ red[1] = "max" => Aggregate(red, recs) = Num(0)
    BY DEF Aggregate
  <1>2. MapThenSumSet(LAMBDA i : recs[i][f][2], at) = 0
    <2>1. /\ at \subseteq 1..1 /\ 1 \in Nat /\ 1 > 0
          /\ \A i \in at : recs[i][f][2] \in Int
      OBVIOUS
    <2>2. at = {}
      OBVIOUS
    <2> HIDE DEF f, at
    <2>3. MapThenSumSet(LAMBDA i : recs[i][f][2], at) = SumOf(val, at, 1)
      BY <2>1, SetSum
    <2> HIDE DEF val
    <2>4. SumOf(val, {}, 1) = 0
      BY SumOfNone
    <2> QED
      BY <2>2, <2>3, <2>4
  <1> HIDE DEF f, at
  <1> QED
    BY <1>1, <1>2 DEF Folding

\* So the aggregate of a group is what it is by definition.
LEMMA ReducerAggregates ==
    ASSUME NEW recs, RecsOK(recs), NEW red, IsReducer(red)
    PROVE  ApplyReducer(red, recs) = Field(ResultField(red), Aggregate(red, recs))
  <1>1. CASE red[1] = "count"
    BY <1>1 DEF ApplyReducer, Aggregate
  <1>2. CASE red[1] = "collect"
    BY <1>2 DEF ApplyReducer, Aggregate
  <1>3. CASE red[1] \in Folding
    <2>1. Aggregate(red, recs) = Num(IF Len(red) > 1
                                     THEN FoldNumeric(red[1], Numbers(recs, red[2])) ELSE 0)
      BY <1>3, AggregateFold, AggregateNothing
    <2>2. red[1] # "count" /\ red[1] # "collect"
      BY <1>3 DEF Folding
    <2> QED
      BY <2>1, <2>2 DEF ApplyReducer
  <1> QED
    BY <1>1, <1>2, <1>3 DEF IsReducer, Folding

\* The reference for ReduceByKey, of the records s: a record per key value.
RefRecord(s, key, red, v) ==
    Over(Field(ResultField(red), Aggregate(red, Kept(s, {i \in 1..Len(s) : s[i][key] = v}))), Field(key, v))
RefList(s, key, red, keys) == [i \in 1..Len(keys) |-> RefRecord(s, key, red, keys[i])]

\* It lists the groups, too.
LEMMA ReferenceLists ==
    ASSUME NEW s, RecsOK(s), NEW key, NEW red, IsOk(ReduceByKey(s, key, red))
    PROVE  Lists(RefList(s, key, red, SetToSeq({rec[key] : rec \in ToSet(s)})),
                 KeysOf(s, key), GroupRecords(s, key, red))
  <1> DEFINE V == {rec[key] : rec \in ToSet(s)}
             K == KeysOf(s, key)
             keys == SetToSeq(V)
             out == RefList(s, key, red, keys)
             ref == [v \in V |-> RefRecord(s, key, red, v)]
             text == [v \in V |-> v[2]]
  <1>1. /\ IsList(s) /\ Len(s) \in Nat /\ IsReducer(red)
        /\ \A i \in 1..Len(s) : key \in DOMAIN s[i] /\ Kind(s[i][key]) = "Str"
    BY ReduceByKeyResult DEF RecsOK, IsList
  <1>2. ASSUME NEW v \in V PROVE \E i \in 1..Len(s) : v = s[i][key]
    BY <1>1, ToSetOfList
  <1>3. \A i \in 1..Len(s) : s[i][key] \in V
    BY <1>1, ToSetOfList
  <1>4. IsFiniteSet(V)
    <2> DEFINE f == [i \in 1..Len(s) |-> s[i][key]]
    <2>1. IsFiniteSet(1..Len(s))
      BY <1>1, FS_Interval
    <2>2. \A y : y \in V <=> \E i \in 1..Len(s) : f[i] = y
      <3> HIDE DEF V
      <3> QED
        BY <1>2, <1>3
    <2>3. DOMAIN f = 1..Len(s) /\ f = [i \in 1..Len(s) |-> f[i]]
      OBVIOUS
    <2> HIDE DEF f, V
    <2> QED
      BY <2>1, <2>2, <2>3, ImageFinite
  <1>5. ASSUME NEW i \in 1..Len(s) PROVE s[i][key] = Str(s[i][key][2])
    <2>1. ValueOK(s[i][key]) /\ Kind(s[i][key]) = "Str"
      BY <1>1 DEF RecsOK, RecOK
    <2> QED
      BY <2>1 DEF ValueOK, ScalarOK
  <1>6. ASSUME NEW v \in V
        PROVE  v = Str(v[2]) /\ v[2] \in K /\ ref[v] = GroupRecord(s, key, red, v[2])
    <2>1. v = Str(v[2])
      <3>1. PICK i \in 1..Len(s) : v = s[i][key]
        BY <1>2
      <3> QED
        BY <1>5, <3>1
    <2>2. v[2] \in K
      BY <1>2 DEF KeysOf
    <2>3. {i \in 1..Len(s) : s[i][key] = v} = {i \in 1..Len(s) : s[i][key][2] = v[2]}
      <3>1. ASSUME NEW i \in 1..Len(s) PROVE s[i][key] = v <=> s[i][key][2] = v[2]
        BY <1>5, <2>1
      <3> QED
        BY <3>1
    <2>4. Kept(s, {i \in 1..Len(s) : s[i][key] = v}) = Group(s, key, v[2])
      BY <2>3 DEF Group
    <2>5. RecsOK(Group(s, key, v[2]))
      BY GroupOK
    <2>6. ApplyReducer(red, Group(s, key, v[2])) = Field(ResultField(red), Aggregate(red, Group(s, key, v[2])))
      BY <1>1, <2>5, ReducerAggregates
    <2>7. ref[v] = Over(Field(ResultField(red), Aggregate(red, Group(s, key, v[2]))), Field(key, v))
      BY <2>4 DEF RefRecord
    <2> QED
      BY <2>1, <2>2, <2>6, <2>7 DEF GroupRecord
  <1>7. ListedBy(keys, keys, V, [v \in V |-> v])
    <2> HIDE DEF V
    <2> QED
      BY <1>4, SetToSeqLists
  <1>8. /\ IsList(keys) /\ \A i \in 1..Len(keys) : keys[i] \in V
        /\ keys \in [1..Len(keys) -> V]
    BY <1>7 DEF ListedBy
  <1>9. IsList(out) /\ Len(out) = Len(keys) /\ \A i \in 1..Len(keys) : out[i] = ref[keys[i]]
    <2>1. out = [i \in 1..Len(keys) |-> out[i]] /\ \A i \in 1..Len(keys) : out[i] = ref[keys[i]]
      <3> HIDE DEF V, keys
      <3> QED
        BY <1>8 DEF RefList
    <2> HIDE DEF out, keys, ref
    <2> QED
      BY <1>8, <2>1, MappedIsList
  <1> HIDE DEF out, keys, ref
  <1>10. ListedBy(out, keys, V, ref)
    <2> HIDE DEF V
    <2> QED
      BY <1>7, <1>8, <1>9 DEF ListedBy
  <1> DEFINE g == GroupRecords(s, key, red)
  <1>11. text \in [V -> K] /\ \A v \in V : ref[v] = g[text[v]]
    <2>1. \A v \in V : text[v] = v[2] /\ v[2] \in K /\ g[v[2]] = GroupRecord(s, key, red, v[2])
      BY <1>6 DEF GroupRecords
    <2> HIDE DEF V, K, g
    <2> QED
      BY <1>6, <2>1
  <1>12. \A k \in K : \E v \in V : text[v] = k
    BY <1>3 DEF KeysOf
  <1>13. \A u, v \in V : text[u] = text[v] => u = v
    BY <1>6
  <1> HIDE DEF V, K, text, g
  <1>14. Lists(out, K, g)
    BY SMTT(30), <1>10, <1>11, <1>12, <1>13, ListsTransport DEF Lists
  <1> QED
    BY <1>14 DEF out, K, g, keys, V

\* A finished ReduceByKey job wrote the reference.
LEMMA ReduceReference == DataflowInv => ReduceMatchesReference
  <1> SUFFICES ASSUME DataflowInv, Done, RecordWise, Ends("ReduceByKey"), Aligned
               PROVE  BagOf(Written) =
                          BagOf(RefList(Side(1), LastOp(job)[2], LastOp(job)[3],
                                        SetToSeq({rec[LastOp(job)[2]] : rec \in ToSet(Side(1))})))
    BY DEF ReduceMatchesReference, RefList, RefRecord
  <1> DEFINE s == Side(1)
             key == LastOp(job)[2]
             red == LastOp(job)[3]
  <1>1. Ended
    BY DEF Ended, Done
  <1>2. \A t \in Tasks : IsOk(Output(t, total))
    BY <1>1, EndedDone
  <1>3. Transparent
    BY ReduceTransparent
  <1>4. IsOk(Output(0, 1)) /\ Buckets(job) = 1
    BY <1>2, <1>3 DEF Transparent
  <1>5. OnePerTask /\ RecsOK(s) /\ IsOk(ReduceByKey(s, key, red))
    BY <1>4, ReduceTransparent
  <1>6. PICK F : ListShares(total, TaskOutput, F, KeysOf(s, key), GroupRecords(s, key, red))
    BY <1>4, ReduceTransparent
  <1>7. Lists(Written, KeysOf(s, key), GroupRecords(s, key, red))
    BY <1>4, <1>5, <1>6, WrittenLists
  <1> HIDE DEF s, key, red
  <1>8. Lists(RefList(s, key, red, SetToSeq({rec[key] : rec \in ToSet(s)})),
              KeysOf(s, key), GroupRecords(s, key, red))
    BY <1>5, ReferenceLists
  <1>9. BagOf(Written) = BagOf(RefList(s, key, red, SetToSeq({rec[key] : rec \in ToSet(s)})))
    BY <1>7, <1>8, ListsBag
  <1> QED
    BY <1>9 DEF s, key, red

\* ReduceByKey, whatever the records, the reducer and the number of tasks, puts
\* out one record per key with the aggregate of all records of the key, unless
\* two tasks have records with one key.
THEOREM ReduceIsReference == Spec => []ReduceMatchesReference
  <1>1. Spec => []DataflowInv
    BY DataflowInvariant
  <1>2. DataflowInv => ReduceMatchesReference
    BY ReduceReference
  <1> QED
    BY <1>1, <1>2, PTL

-----------------------------------------------------------------------------
(* What Join puts out: a record per pair of places, place 0 for nobody.    *)

\* Two lists, one after the other, list what both list.
LEMMA ConcatLists ==
    ASSUME NEW s, NEW E, NEW t, NEW F, NEW g, Lists(s, E, g), Lists(t, F, g),
           NEW D, \A e : e \in D <=> e \in E \/ e \in F, \A e \in E : e \notin F
    PROVE  Lists(s \o t, D, g)
  <1>1. PICK b : ListedBy(s, b, E, g)
    BY DEF Lists
  <1>2. PICK c : ListedBy(t, c, F, g)
    BY DEF Lists
  <1> DEFINE m == Len(s)
             n == Len(t)
             d == [p \in 1..(m + n) |-> IF p <= m THEN b[p] ELSE c[p - m]]
  <1>3. IsList(s) /\ IsList(t) /\ m \in Nat /\ n \in Nat
    BY <1>1, <1>2 DEF ListedBy, IsList
  <1>4. /\ IsList(s \o t) /\ Len(s \o t) = m + n
        /\ \A i \in 1..(m + n) : (s \o t)[i] = IF i <= m THEN s[i] ELSE t[i - m]
    BY <1>3, ConcatIsList
  <1>5. /\ \A p \in 1..m : b[p] \in E /\ s[p] = g[b[p]]
        /\ \A p, q \in 1..m : b[p] = b[q] => p = q
        /\ \A e \in E : \E p \in 1..m : b[p] = e
    BY <1>1 DEF ListedBy
  <1>6. /\ \A p \in 1..n : c[p] \in F /\ t[p] = g[c[p]]
        /\ \A p, q \in 1..n : c[p] = c[q] => p = q
        /\ \A e \in F : \E p \in 1..n : c[p] = e
    BY <1>2 DEF ListedBy
  <1> HIDE DEF m, n
  <1>7. \A p \in 1..(m + n) : (p <= m => p \in 1..m) /\ (~(p <= m) => p - m \in 1..n)
    BY <1>3
  <1>8. ASSUME NEW p \in 1..(m + n) PROVE d[p] \in D /\ (s \o t)[p] = g[d[p]]
    <2>1. CASE p <= m
      BY <1>4, <1>5, <1>7, <2>1
    <2>2. CASE ~(p <= m)
      BY <1>4, <1>6, <1>7, <2>2
    <2> QED
      BY <2>1, <2>2
  <1>9. ASSUME NEW p \in 1..(m + n), NEW q \in 1..(m + n), d[p] = d[q] PROVE p = q
    <2>1. CASE p <= m /\ q <= m
      BY <1>5, <1>7, <1>9, <2>1
    <2>2. CASE ~(p <= m) /\ ~(q <= m)
      <3>1. p - m = q - m
        BY <1>6, <1>7, <1>9, <2>2
      <3> QED
        BY <1>3, <3>1
    <2>3. CASE p <= m /\ ~(q <= m)
      BY <1>5, <1>6, <1>7, <1>9, <2>3
    <2>4. CASE ~(p <= m) /\ q <= m
      BY <1>5, <1>6, <1>7, <1>9, <2>4
    <2> QED
      BY <2>1, <2>2, <2>3, <2>4
  <1>10. ASSUME NEW e \in D PROVE \E p \in 1..(m + n) : d[p] = e
    <2>1. CASE e \in E
      <3>1. PICK p \in 1..m : b[p] = e
        BY <1>5, <2>1
      <3>2. p \in 1..(m + n) /\ p <= m
        BY <1>3
      <3> QED
        BY <3>1, <3>2
    <2>2. CASE e \in F
      <3>1. PICK p \in 1..n : c[p] = e
        BY <1>6, <2>2
      <3>2. p + m \in 1..(m + n) /\ ~(p + m <= m) /\ (p + m) - m = p
        BY <1>3
      <3>3. d[p + m] = c[(p + m) - m]
        BY <3>2
      <3> QED
        BY <3>1, <3>2, <3>3
    <2> QED
      BY <2>1, <2>2
  <1>11. d \in [1..(m + n) -> D]
    BY <1>8
  <1> HIDE DEF d
  <1>12. ListedBy(s \o t, d, D, g)
    BY <1>4, <1>8, <1>9, <1>10, <1>11 DEF ListedBy
  <1> QED
    BY <1>12 DEF Lists

\* The pairs of places that Join puts a record out for, and the record.
JoinSet(l, r, key, type) ==
    {e \in (0..Len(l)) \X (0..Len(r)) :
        \/ e[1] > 0 /\ e[2] > 0 /\ SameKey(l, r, key, e[1], e[2])
        \/ /\ e[1] > 0 /\ e[2] = 0 /\ type \in {"Left", "Full"}
           /\ \A j \in 1..Len(r) : ~SameKey(l, r, key, e[1], j)
        \/ e[1] = 0 /\ e[2] > 0 /\ type \in {"Right", "Full"} /\ e[2] \notin Matched(l, r, key)}
JoinRecords(l, r) ==
    [e \in (0..Len(l)) \X (0..Len(r)) |->
        IF e[1] = 0 THEN RightOnly(r[e[2]])
        ELSE IF e[2] = 0 THEN LeftOnly(l[e[1]]) ELSE Combined(l[e[1]], r[e[2]])]

\* A pair of places of a pair, of a left record alone or of a right one.
OneOfThree(e, l, r) ==
    \/ \E i \in 1..Len(l), j \in 1..Len(r) : e = <<i, j>>
    \/ \E i \in 1..Len(l) : e = <<i, 0>>
    \/ \E j \in 1..Len(r) : e = <<0, j>>

\* The three kinds of places.
LEMMA JoinPlaces ==
    ASSUME NEW l, NEW r, RecsOK(l), RecsOK(r), NEW key, NEW type
    PROVE  /\ \A i \in 1..Len(l), j \in 1..Len(r) :
                 /\ JoinRecords(l, r)[<<i, j>>] = Combined(l[i], r[j])
                 /\ <<i, j>> \in JoinSet(l, r, key, type) <=> SameKey(l, r, key, i, j)
           /\ \A i \in 1..Len(l) :
                 /\ JoinRecords(l, r)[<<i, 0>>] = LeftOnly(l[i])
                 /\ <<i, 0>> \in JoinSet(l, r, key, type) <=>
                       /\ type \in {"Left", "Full"}
                       /\ \A j \in 1..Len(r) : ~SameKey(l, r, key, i, j)
           /\ \A j \in 1..Len(r) :
                 /\ JoinRecords(l, r)[<<0, j>>] = RightOnly(r[j])
                 /\ <<0, j>> \in JoinSet(l, r, key, type) <=>
                       type \in {"Right", "Full"} /\ j \notin Matched(l, r, key)
           /\ \A e \in JoinSet(l, r, key, type) : OneOfThree(e, l, r)
  <1>1. Len(l) \in Nat /\ Len(r) \in Nat
    BY DEF RecsOK, IsList
  <1>2. ASSUME NEW i \in 1..Len(l), NEW j \in 1..Len(r)
        PROVE  /\ JoinRecords(l, r)[<<i, j>>] = Combined(l[i], r[j])
               /\ <<i, j>> \in JoinSet(l, r, key, type) <=> SameKey(l, r, key, i, j)
    <2>1. <<i, j>> \in (0..Len(l)) \X (0..Len(r)) /\ i > 0 /\ j > 0 /\ i # 0 /\ j # 0
      BY <1>1
    <2> QED
      BY <2>1 DEF JoinRecords, JoinSet
  <1>3. ASSUME NEW i \in 1..Len(l)
        PROVE  /\ JoinRecords(l, r)[<<i, 0>>] = LeftOnly(l[i])
               /\ <<i, 0>> \in JoinSet(l, r, key, type) <=>
                     /\ type \in {"Left", "Full"}
                     /\ \A j \in 1..Len(r) : ~SameKey(l, r, key, i, j)
    <2>1. <<i, 0>> \in (0..Len(l)) \X (0..Len(r)) /\ i > 0 /\ i # 0 /\ ~(0 > 0)
      BY <1>1
    <2> QED
      BY <2>1 DEF JoinRecords, JoinSet
  <1>4. ASSUME NEW j \in 1..Len(r)
        PROVE  /\ JoinRecords(l, r)[<<0, j>>] = RightOnly(r[j])
               /\ <<0, j>> \in JoinSet(l, r, key, type) <=>
                     type \in {"Right", "Full"} /\ j \notin Matched(l, r, key)
    <2>1. <<0, j>> \in (0..Len(l)) \X (0..Len(r)) /\ j > 0 /\ j # 0 /\ ~(0 > 0)
      BY <1>1
    <2> QED
      BY <2>1 DEF JoinRecords, JoinSet
  <1>5. ASSUME NEW e \in JoinSet(l, r, key, type)
        PROVE  OneOfThree(e, l, r)
    <2>1. /\ e = <<e[1], e[2]>> /\ e[1] \in 0..Len(l) /\ e[2] \in 0..Len(r)
          /\ (e[1] > 0 /\ e[2] > 0) \/ (e[1] > 0 /\ e[2] = 0) \/ (e[1] = 0 /\ e[2] > 0)
      BY DEF JoinSet
    <2>2. (e[1] > 0 => e[1] \in 1..Len(l)) /\ (e[2] > 0 => e[2] \in 1..Len(r))
      BY <1>1, <2>1
    <2> QED
      BY <2>1, <2>2 DEF OneOfThree
  <1> QED
    BY <1>2, <1>3, <1>4, <1>5

\* The places of left record i.
PlacesOf(l, r, key, type, i) == {e \in JoinSet(l, r, key, type) : e[1] = i}

\* What a left record becomes lists its places.
LEMMA PairsList ==
    ASSUME NEW l, NEW r, RecsOK(l), RecsOK(r), NEW key, NEW type, NEW i \in 1..Len(l)
    PROVE  Lists(Pairs(l[i], r, key, type), PlacesOf(l, r, key, type, i), JoinRecords(l, r))
  <1> DEFINE P == Partners(l[i], r, key)
             w == Kept(r, P)
             E == PlacesOf(l, r, key, type, i)
             g == JoinRecords(l, r)
             out == Pairs(l[i], r, key, type)
  <1>1. P = {j \in 1..Len(r) : SameKey(l, r, key, i, j)}
    BY DEF Partners, SameKey
  <1>2. /\ \A j \in P : <<i, j>> \in E /\ g[<<i, j>>] = Combined(l[i], r[j])
        /\ <<i, 0>> \in E <=> type \in {"Left", "Full"} /\ P = {}
        /\ g[<<i, 0>>] = LeftOnly(l[i])
    BY <1>1, JoinPlaces DEF PlacesOf
  <1>3. \A e \in E : (\E j \in P : e = <<i, j>>) \/ e = <<i, 0>>
    <2> SUFFICES ASSUME NEW e \in E PROVE (\E j \in P : e = <<i, j>>) \/ e = <<i, 0>>
      OBVIOUS
    <2>1. e \in JoinSet(l, r, key, type) /\ e[1] = i /\ i # 0
      BY DEF PlacesOf
    <2>2. CASE \E h \in 1..Len(l), j \in 1..Len(r) : e = <<h, j>>
      <3>1. PICK h \in 1..Len(l), j \in 1..Len(r) : e = <<h, j>>
        BY <2>2
      <3>2. h = i
        BY <2>1, <3>1
      <3>3. SameKey(l, r, key, i, j)
        BY <2>1, <3>1, <3>2, JoinPlaces
      <3> QED
        BY <1>1, <3>1, <3>2, <3>3
    <2>3. CASE \E h \in 1..Len(l) : e = <<h, 0>>
      BY <2>1, <2>3
    <2>4. CASE \E j \in 1..Len(r) : e = <<0, j>>
      BY <2>1, <2>4
    <2>5. \/ \E h \in 1..Len(l), j \in 1..Len(r) : e = <<h, j>>
          \/ \E h \in 1..Len(l) : e = <<h, 0>>
          \/ \E j \in 1..Len(r) : e = <<0, j>>
      <3>1. OneOfThree(e, l, r)
        BY <2>1, JoinPlaces
      <3> QED
        BY <3>1 DEF OneOfThree
    <2> HIDE DEF P
    <2> QED
      BY <2>2, <2>3, <2>4, <2>5
  <1>4. Picks(w, r, P)
    <2>1. IsList(r) /\ {j \in 1..Len(r) : j \in P} = P
      BY <1>1 DEF RecsOK
    <2> QED
      BY <2>1, KeptPicks
  <1>5. PICK b : ListedBy(w, b, P, r)
    BY <1>4, PicksLists DEF Lists
  <1>6. /\ IsList(w) /\ Len(w) \in Nat /\ \A p \in 1..Len(w) : b[p] \in P /\ w[p] = r[b[p]]
        /\ \A p, q \in 1..Len(w) : b[p] = b[q] => p = q
        /\ \A j \in P : \E p \in 1..Len(w) : b[p] = j
    BY <1>5 DEF ListedBy, IsList
  <1>7. w = <<>> <=> P = {}
    <2>1. w = <<>> <=> Len(w) = 0
      BY <1>6, EmptyIsList, ListEqual
    <2> HIDE DEF w, P
    <2> QED
      BY <1>6, <2>1
  <1>8. out = IF w # <<>> THEN [j \in 1..Len(w) |-> Combined(l[i], w[j])]
              ELSE IF type \in {"Left", "Full"} THEN <<LeftOnly(l[i])>> ELSE <<>>
    BY DEF Pairs, Partners
  <1> HIDE DEF w, P, E, g, out
  <1>9. CASE P # {}
    <2> DEFINE c == [p \in 1..Len(w) |-> <<i, b[p]>>]
    <2>1. out = [j \in 1..Len(w) |-> Combined(l[i], w[j])]
      BY <1>7, <1>8, <1>9
    <2>2. out = [j \in 1..Len(w) |-> out[j]]
      BY <2>1
    <2>3. IsList(out) /\ Len(out) = Len(w)
      BY <1>6, <2>2, MappedIsList
    <2>4. c \in [1..Len(w) -> E] /\ \A p \in 1..Len(w) : out[p] = g[c[p]]
      BY <1>2, <1>6, <2>1
    <2>5. \A p, q \in 1..Len(w) : c[p] = c[q] => p = q
      BY <1>6
    <2>6. \A e \in E : \E p \in 1..Len(w) : c[p] = e
      <3> SUFFICES ASSUME NEW e \in E PROVE \E p \in 1..Len(w) : c[p] = e
        OBVIOUS
      <3>1. PICK j \in P : e = <<i, j>>
        BY <1>2, <1>3, <1>9
      <3>2. PICK p \in 1..Len(w) : b[p] = j
        BY <1>6
      <3> QED
        BY <3>1, <3>2
    <2> HIDE DEF c
    <2>7. ListedBy(out, c, E, g)
      BY <2>3, <2>4, <2>5, <2>6 DEF ListedBy
    <2> QED
      BY <2>7 DEF Lists, out, E, g
  <1>10. CASE P = {} /\ type \in {"Left", "Full"}
    <2> DEFINE c == [p \in 1..1 |-> <<i, 0>>]
    <2>1. IsList(out) /\ Len(out) = 1 /\ out[1] = LeftOnly(l[i])
      BY <1>7, <1>8, <1>10, SingletonIsList
    <2>2. 1..1 = {1}
      OBVIOUS
    <2>3. c \in [1..1 -> E] /\ \A p \in 1..1 : out[p] = g[c[p]]
      BY <1>2, <1>10, <2>1, <2>2
    <2>4. \A e \in E : \E p \in 1..1 : c[p] = e
      BY <1>3, <1>10, <2>2
    <2>5. \A p, q \in 1..1 : c[p] = c[q] => p = q
      BY <2>2
    <2> HIDE DEF c
    <2>6. ListedBy(out, c, E, g)
      BY <2>1, <2>3, <2>4, <2>5 DEF ListedBy
    <2> QED
      BY <2>6 DEF Lists, out, E, g
  <1>11. CASE P = {} /\ ~(type \in {"Left", "Full"})
    <2> DEFINE c == [p \in 1..0 |-> 0]
    <2>1. IsList(out) /\ Len(out) = 0
      BY <1>7, <1>8, <1>11, EmptyIsList
    <2>2. E = {}
      BY <1>2, <1>3, <1>11
    <2>3. 1..0 = {} /\ c \in [1..0 -> E]
      OBVIOUS
    <2> HIDE DEF c
    <2>4. ListedBy(out, c, E, g)
      BY <2>1, <2>2, <2>3 DEF ListedBy
    <2> QED
      BY <2>4 DEF Lists, out, E, g
  <1> QED
    BY <1>9, <1>10, <1>11

\* The places of the right records that were not marked.
RestPlaces(l, r, key, type) == {e \in JoinSet(l, r, key, type) : e[1] = 0}

\* They are listed after the pairs.
LEMMA RestList ==
    ASSUME NEW l, NEW r, RecsOK(l), RecsOK(r), NEW key, NEW type
    PROVE  Lists(RestOut(l, r, key, type), RestPlaces(l, r, key, type), JoinRecords(l, r))
  <1> DEFINE R == {j \in 1..Len(r) : type \in {"Right", "Full"} /\ j \notin Matched(l, r, key)}
             w == RightRest(l, r, key, type)
             out == RestOut(l, r, key, type)
             E == RestPlaces(l, r, key, type)
             g == JoinRecords(l, r)
  <1>1. \A j \in R : <<0, j>> \in E /\ g[<<0, j>>] = RightOnly(r[j])
    BY JoinPlaces DEF RestPlaces
  <1>2. \A e \in E : \E j \in R : e = <<0, j>>
    <2> SUFFICES ASSUME NEW e \in E PROVE \E j \in R : e = <<0, j>>
      OBVIOUS
    <2>1. e \in JoinSet(l, r, key, type) /\ e[1] = 0
      BY DEF RestPlaces
    <2>2. PICK j \in 1..Len(r) : e = <<0, j>>
      <3>1. \A h \in 1..Len(l) : h # 0
        OBVIOUS
      <3>2. ~\E h \in 1..Len(l), j \in 1..Len(r) : e = <<h, j>>
        BY <2>1, <3>1
      <3>3. ~\E h \in 1..Len(l) : e = <<h, 0>>
        BY <2>1, <3>1
      <3>4. \/ \E h \in 1..Len(l), j \in 1..Len(r) : e = <<h, j>>
            \/ \E h \in 1..Len(l) : e = <<h, 0>>
            \/ \E j \in 1..Len(r) : e = <<0, j>>
        <4>1. OneOfThree(e, l, r)
          BY <2>1, JoinPlaces
        <4> QED
          BY <4>1 DEF OneOfThree
      <3> QED
        BY <3>2, <3>3, <3>4
    <2>3. j \in R
      BY <2>1, <2>2, JoinPlaces
    <2> QED
      BY <2>2, <2>3
  <1>3. Lists(w, R, r)
    <2>1. IsList(r)
      BY DEF RecsOK
    <2>2. CASE type \in {"Right", "Full"}
      <3> DEFINE I == (1..Len(r)) \ Matched(l, r, key)
      <3>1. w = Kept(r, I)
        BY <2>2 DEF RightRest, Unmatched
      <3>2. {j \in 1..Len(r) : j \in I} = R
        BY <2>2
      <3> HIDE DEF I, R, w
      <3>3. Picks(w, r, R)
        BY <2>1, <3>1, <3>2, KeptPicks
      <3> QED
        BY <3>3, PicksLists
    <2>3. CASE ~(type \in {"Right", "Full"})
      <3> DEFINE c == [p \in 1..0 |-> 0]
      <3>1. w = <<>> /\ IsList(w) /\ Len(w) = 0
        BY <2>3, EmptyIsList DEF RightRest
      <3>2. R = {} /\ 1..0 = {} /\ c \in [1..0 -> R]
        BY <2>3
      <3> HIDE DEF c, R, w
      <3>3. ListedBy(w, c, R, r)
        BY <3>1, <3>2 DEF ListedBy
      <3> QED
        BY <3>3 DEF Lists
    <2> QED
      BY <2>2, <2>3
  <1>4. PICK b : ListedBy(w, b, R, r)
    BY <1>3 DEF Lists
  <1>5. /\ Len(out) = Len(w) /\ IsList(out)
        /\ \A p \in 1..Len(w) : out[p] = RightOnly(w[p])
    BY JoinParts DEF RecsOK
  <1> HIDE DEF w, out, R, E, g
  <1>6. /\ \A p \in 1..Len(w) : b[p] \in R /\ w[p] = r[b[p]]
        /\ \A p, q \in 1..Len(w) : b[p] = b[q] => p = q
        /\ \A j \in R : \E p \in 1..Len(w) : b[p] = j
    BY <1>4 DEF ListedBy
  <1> DEFINE c == [p \in 1..Len(w) |-> <<0, b[p]>>]
  <1>7. c \in [1..Len(w) -> E] /\ \A p \in 1..Len(w) : out[p] = g[c[p]]
    BY <1>1, <1>5, <1>6
  <1>8. \A p, q \in 1..Len(w) : c[p] = c[q] => p = q
    BY <1>6
  <1>9. \A e \in E : \E p \in 1..Len(w) : c[p] = e
    <2> SUFFICES ASSUME NEW e \in E PROVE \E p \in 1..Len(w) : c[p] = e
      OBVIOUS
    <2>1. PICK j \in R : e = <<0, j>>
      BY <1>2
    <2>2. PICK p \in 1..Len(w) : b[p] = j
      BY <1>6
    <2> QED
      BY <2>1, <2>2
  <1> HIDE DEF c
  <1>10. ListedBy(out, c, E, g)
    BY <1>5, <1>7, <1>8, <1>9 DEF ListedBy
  <1> QED
    BY <1>10 DEF Lists, out, E, g

\* Join lists its places.
LEMMA JoinLists ==
    ASSUME NEW l, NEW r, RecsOK(l), RecsOK(r), NEW key, NEW type, IsOk(Join(l, r, key, type))
    PROVE  Lists(Value(Join(l, r, key, type)), JoinSet(l, r, key, type), JoinRecords(l, r))
  <1> DEFINE ss == AllPairs(l, r, key, type)
             rest == RestOut(l, r, key, type)
             g == JoinRecords(l, r)
             D == JoinSet(l, r, key, type)
             F == [i \in 1..Len(l) |-> PlacesOf(l, r, key, type, i)]
             E == {e \in D : e[1] # 0}
  <1>1. Value(Join(l, r, key, type)) = FlattenSeq(ss) \o rest
    BY JoinResult
  <1>2. /\ IsLists(ss) /\ Len(ss) = Len(l)
        /\ \A i \in 1..Len(l) : ss[i] = Pairs(l[i], r, key, type)
    BY JoinParts
  <1>3. \A i \in 1..Len(ss) : Lists(ss[i], F[i], g)
    BY <1>2, PairsList
  <1>4. \A i \in 1..Len(ss) : \A e : e \in F[i] <=> e \in D /\ e[1] = i
    BY <1>2 DEF PlacesOf
  <1>5. \A e \in E : e[1] \in 1..Len(l)
    <2>1. \A e \in D : e[1] = 0 \/ e[1] \in 1..Len(l)
      <3>1. Len(l) \in Nat
        BY DEF RecsOK, IsList
      <3>2. \A e \in D : e[1] \in 0..Len(l)
        BY DEF JoinSet
      <3> QED
        BY <3>1, <3>2
    <2> QED
      BY <2>1
  <1>6. \A i \in 1..Len(l) : i # 0
    OBVIOUS
  <1>7. \A e : e \in E <=> \E i \in 1..Len(ss) : e \in F[i]
    <2> HIDE DEF D, F, ss
    <2> QED
      BY <1>2, <1>4, <1>5, <1>6
  <1>8. \A i, j \in 1..Len(ss) : \A e : e \in F[i] /\ e \in F[j] => i = j
    <2> HIDE DEF F, ss, D
    <2> QED
      BY <1>4
  <1> HIDE DEF F, ss, E, g, rest
  <1>9. Lists(FlattenSeq(ss), E, g)
    BY <1>2, <1>3, <1>7, <1>8, FlattenLists
  <1> DEFINE R == RestPlaces(l, r, key, type)
  <1>10. Lists(rest, R, g)
    BY RestList DEF rest, g
  <1>11. (\A e : e \in D <=> e \in E \/ e \in R) /\ \A e \in E : e \notin R
    BY DEF RestPlaces, E
  <1> HIDE DEF R, D
  <1>12. Lists(FlattenSeq(ss) \o rest, D, g)
    BY <1>9, <1>10, <1>11, ConcatLists
  <1> QED
    BY <1>1, <1>12 DEF D, g

-----------------------------------------------------------------------------
(* Join on shares.  A task has the left records at A and the right ones at *)
(* B: those with one key, and equal ones, are either all there or not.     *)
Closed(s, r, key, A, B) ==
    /\ A \subseteq 1..Len(s) /\ B \subseteq 1..Len(r)
    /\ \A p \in 1..Len(s), q \in 1..Len(r) : SameKey(s, r, key, p, q) => (p \in A <=> q \in B)
    /\ \A q, m \in 1..Len(r) : r[q] = r[m] => (q \in B <=> m \in B)

\* Where the records of the share are in the whole.
Located(u, s, A, a) ==
    /\ Len(u) \in Nat /\ \A i \in 1..Len(u) : a[i] \in A /\ u[i] = s[a[i]]
    /\ \A p \in A : \E i \in 1..Len(u) : a[i] = p
    /\ \A i, j \in 1..Len(u) : /\ a[i] = a[j] => i = j
                               /\ i < j <=> a[i] < a[j]

\* They are somewhere.
LEMMA PicksLocated ==
    ASSUME NEW u, NEW s, IsList(s), NEW A, A \subseteq 1..Len(s), Picks(u, s, A)
    PROVE  \E a : Located(u, s, A, a)
  <1>1. PICK a : Enumerates(u, a, A, s, Less)
    BY DEF Picks
  <1>2. /\ Len(u) \in Nat /\ \A i \in 1..Len(u) : a[i] \in A /\ u[i] = s[a[i]]
        /\ \A p \in A : \E i \in 1..Len(u) : a[i] = p
        /\ \A i, j \in 1..Len(u) : i < j => <<a[i], a[j]>> \in Less
    BY <1>1 DEF Enumerates, IsList
  <1>3. \A i, j \in 1..Len(u) : (<<a[i], a[j]>> \in Less => i < j) /\ (a[i] = a[j] => i = j)
    BY <1>1, EnumOrder, LessAsymmetric
  <1>4. \A i \in 1..Len(u) : a[i] \in Nat
    BY <1>2 DEF IsList
  <1>5. \A i, j \in 1..Len(u) : <<a[i], a[j]>> \in Less <=> a[i] < a[j]
    BY <1>4 DEF Less
  <1> QED
    BY <1>2, <1>3, <1>5 DEF Located

\* 0 is not a place.
LEMMA NotZero == \A n \in Nat : 0 \notin 1..n
OBVIOUS

\* The same, of a list of n records.
InPlace(u, s, A, a, n) ==
    /\ \A i \in 1..Len(u) : a[i] \in A /\ a[i] \in 1..n /\ u[i] = s[a[i]] /\ i # 0
    /\ \A p \in A : \E i \in 1..Len(u) : a[i] = p
    /\ 0 \notin A

\* Places are places of that list.
LEMMA LocatedIn ==
    ASSUME NEW u, NEW s, NEW A, NEW a, Located(u, s, A, a), NEW n \in Nat, A \subseteq 1..n
    PROVE  InPlace(u, s, A, a, n)
  <1>1. Len(u) \in Nat /\ \A i \in 1..Len(u) : a[i] \in A /\ u[i] = s[a[i]] /\ i # 0
    BY DEF Located
  <1>2. \A p \in A : \E i \in 1..Len(u) : a[i] = p
    BY DEF Located
  <1>3. 0 \notin A
    BY NotZero
  <1> QED
    BY <1>1, <1>2, <1>3 DEF InPlace

\* The partners of a record of the share are those it has in the whole, and the
\* marked right records are those marked in the whole.
SameMatches(s, r, key, u, v, a, b) ==
    /\ \A i \in 1..Len(u), j \in 1..Len(v) :
          SameKey(u, v, key, i, j) <=> SameKey(s, r, key, a[i], b[j])
    /\ \A i \in 1..Len(u) :
          (\A j \in 1..Len(v) : ~SameKey(u, v, key, i, j))
          <=> (\A q \in 1..Len(r) : ~SameKey(s, r, key, a[i], q))
    /\ \A j \in 1..Len(v) : j \in Matched(u, v, key) <=> b[j] \in Matched(s, r, key)

\* So it is in a closed share.
LEMMA SharePartners ==
    ASSUME NEW s, NEW r, NEW key, NEW A, NEW B, Closed(s, r, key, A, B),
           NEW u, NEW v, NEW a, NEW b, Located(u, s, A, a), Located(v, r, B, b)
    PROVE  SameMatches(s, r, key, u, v, a, b)
  <1>1. /\ \A i \in 1..Len(u) : a[i] \in A /\ a[i] \in 1..Len(s) /\ u[i] = s[a[i]]
        /\ \A j \in 1..Len(v) : b[j] \in B /\ b[j] \in 1..Len(r) /\ v[j] = r[b[j]]
    BY DEF Located, Closed
  <1>2. \A i \in 1..Len(u), j \in 1..Len(v) :
           SameKey(u, v, key, i, j) <=> SameKey(s, r, key, a[i], b[j])
    BY <1>1 DEF SameKey
  <1>3. ASSUME NEW i \in 1..Len(u), NEW q \in 1..Len(r), SameKey(s, r, key, a[i], q)
        PROVE  \E j \in 1..Len(v) : b[j] = q /\ SameKey(u, v, key, i, j)
    <2>1. q \in B
      BY <1>1, <1>3 DEF Closed
    <2>2. PICK j \in 1..Len(v) : b[j] = q
      BY <2>1 DEF Located
    <2> QED
      BY <1>2, <1>3, <2>2
  <1>4. ASSUME NEW i \in 1..Len(u)
        PROVE  (\A j \in 1..Len(v) : ~SameKey(u, v, key, i, j))
               <=> (\A q \in 1..Len(r) : ~SameKey(s, r, key, a[i], q))
    BY <1>1, <1>2, <1>3
  <1>5. ASSUME NEW j \in 1..Len(v)
        PROVE  (\E i \in 1..Len(u) : SameKey(u, v, key, i, j))
               <=> (\E p \in 1..Len(s) : SameKey(s, r, key, p, b[j]))
    <2>1. ASSUME NEW i \in 1..Len(u), SameKey(u, v, key, i, j)
          PROVE  \E p \in 1..Len(s) : SameKey(s, r, key, p, b[j])
      BY <1>1, <1>2, <2>1
    <2>2. ASSUME NEW p \in 1..Len(s), SameKey(s, r, key, p, b[j])
          PROVE  \E i \in 1..Len(u) : SameKey(u, v, key, i, j)
      <3>1. p \in A
        BY <1>1, <2>2 DEF Closed
      <3>2. PICK i \in 1..Len(u) : a[i] = p
        BY <3>1 DEF Located
      <3> QED
        BY <1>2, <2>2, <3>2
    <2> QED
      BY <2>1, <2>2
  <1>6. ASSUME NEW j \in 1..Len(v)
        PROVE  (\A m \in 1..(j - 1) : v[m] # v[j])
               <=> (\A q \in 1..(b[j] - 1) : r[q] # r[b[j]])
    <2>1. Len(r) \in Nat => \A q \in 1..(b[j] - 1) : q \in 1..Len(r) /\ q < b[j]
      BY <1>1
    <2>2. Len(v) \in Nat /\ \A m \in 1..(j - 1) : m \in 1..Len(v) /\ m < j
      BY DEF Located
    <2>3. \A m \in 1..Len(v) : m < j <=> b[m] < b[j]
      BY DEF Located
    <2>4. ASSUME NEW m \in 1..(j - 1), v[m] = v[j] PROVE \E q \in 1..(b[j] - 1) : r[q] = r[b[j]]
      <3>1. m \in 1..Len(v) /\ b[m] < b[j]
        BY <2>2, <2>3
      <3>2. r[b[m]] = r[b[j]] /\ b[m] \in 1..Len(r) /\ b[j] \in 1..Len(r)
        BY <1>1, <2>4, <3>1
      <3>3. b[m] \in 1..(b[j] - 1)
        BY <3>1, <3>2
      <3> QED
        BY <3>2, <3>3
    <2>5. ASSUME NEW q \in 1..(b[j] - 1), r[q] = r[b[j]] PROVE \E m \in 1..(j - 1) : v[m] = v[j]
      <3>1. b[j] \in 1..Len(r) /\ b[j] \in B
        BY <1>1
      <3>2. q \in 1..Len(r) /\ q < b[j]
        BY <3>1
      <3>3. q \in B
        BY <2>5, <3>1, <3>2 DEF Closed
      <3>4. PICK m \in 1..Len(v) : b[m] = q
        BY <3>3 DEF Located
      <3>5. m < j
        BY <2>3, <3>2, <3>4
      <3>6. m \in 1..(j - 1)
        BY <3>5, <2>2
      <3>7. v[m] = v[j]
        BY <1>1, <2>5, <3>4
      <3> QED
        BY <3>6, <3>7
    <2> QED
      BY <2>4, <2>5
  <1>7. ASSUME NEW j \in 1..Len(v)
        PROVE  j \in Matched(u, v, key) <=> b[j] \in Matched(s, r, key)
    <2>1. j \in Matched(u, v, key) <=> /\ \E i \in 1..Len(u) : SameKey(u, v, key, i, j)
                                       /\ \A m \in 1..(j - 1) : v[m] # v[j]
      BY DEF Matched, SameKey
    <2>2. b[j] \in Matched(s, r, key) <=> /\ \E p \in 1..Len(s) : SameKey(s, r, key, p, b[j])
                                          /\ \A q \in 1..(b[j] - 1) : r[q] # r[b[j]]
      BY <1>1 DEF Matched, SameKey
    <2> QED
      BY <1>5, <1>6, <2>1, <2>2
  <1> QED
    BY <1>2, <1>4, <1>7 DEF SameMatches

\* The places of the whole that belong to the share.
SharePlaces(s, r, key, type, A, B) ==
    {e \in JoinSet(s, r, key, type) : e[1] \in A \/ e[2] \in B}

\* Where a place of the share is in the whole; nobody stays nobody.
PlaceIn(a, b, e) ==
    <<IF e[1] = 0 THEN 0 ELSE a[e[1]], IF e[2] = 0 THEN 0 ELSE b[e[2]]>>

\* Places of the share are places of the whole, with the same record.
LEMMA ShareInto ==
    ASSUME NEW s, NEW r, RecsOK(s), RecsOK(r), NEW u, NEW v, RecsOK(u), RecsOK(v),
           NEW key, NEW type, NEW A, NEW B, Closed(s, r, key, A, B),
           NEW a, NEW b, Located(u, s, A, a), Located(v, r, B, b),
           NEW e \in JoinSet(u, v, key, type)
    PROVE  /\ PlaceIn(a, b, e) \in SharePlaces(s, r, key, type, A, B)
           /\ JoinRecords(u, v)[e] = JoinRecords(s, r)[PlaceIn(a, b, e)]
  <1>1. /\ \A i \in 1..Len(u) : a[i] \in A /\ a[i] \in 1..Len(s) /\ u[i] = s[a[i]] /\ i # 0
        /\ \A j \in 1..Len(v) : b[j] \in B /\ b[j] \in 1..Len(r) /\ v[j] = r[b[j]] /\ j # 0
        /\ SameMatches(s, r, key, u, v, a, b)
    <2>1. A \subseteq 1..Len(s) /\ B \subseteq 1..Len(r) /\ Len(s) \in Nat /\ Len(r) \in Nat
      BY DEF Closed, RecsOK, IsList
    <2>2. InPlace(u, s, A, a, Len(s)) /\ InPlace(v, r, B, b, Len(r))
      BY <2>1, LocatedIn
    <2>3. SameMatches(s, r, key, u, v, a, b)
      BY SharePartners
    <2> QED
      BY <2>2, <2>3 DEF InPlace
  <1>2. OneOfThree(e, u, v)
    BY JoinPlaces
  <1>3. CASE \E i \in 1..Len(u), j \in 1..Len(v) : e = <<i, j>>
    <2>1. PICK i \in 1..Len(u), j \in 1..Len(v) : e = <<i, j>>
      BY <1>3
    <2>2. PlaceIn(a, b, e) = <<a[i], b[j]>>
      BY <1>1, <2>1 DEF PlaceIn
    <2>3. SameKey(u, v, key, i, j)
      BY <2>1, JoinPlaces
    <2>4. SameKey(s, r, key, a[i], b[j])
      BY <1>1, <2>3 DEF SameMatches
    <2>5. a[i] \in 1..Len(s) /\ b[j] \in 1..Len(r) /\ u[i] = s[a[i]] /\ v[j] = r[b[j]] /\ a[i] \in A
      BY <1>1
    <2>6. <<a[i], b[j]>> \in JoinSet(s, r, key, type)
      BY <2>4, <2>5, JoinPlaces
    <2>7. JoinRecords(s, r)[<<a[i], b[j]>>] = Combined(s[a[i]], r[b[j]])
      BY SMTT(30), <2>5, JoinPlaces
    <2>8. JoinRecords(u, v)[<<i, j>>] = Combined(u[i], v[j])
      BY JoinPlaces
    <2> QED
      BY SMTT(30), <2>1, <2>2, <2>5, <2>6, <2>7, <2>8 DEF SharePlaces
  <1>4. CASE \E i \in 1..Len(u) : e = <<i, 0>>
    <2>1. PICK i \in 1..Len(u) : e = <<i, 0>>
      BY <1>4
    <2>2. PlaceIn(a, b, e) = <<a[i], 0>>
      BY <1>1, <2>1 DEF PlaceIn
    <2>3. type \in {"Left", "Full"} /\ \A j \in 1..Len(v) : ~SameKey(u, v, key, i, j)
      BY <2>1, JoinPlaces
    <2>4. \A q \in 1..Len(r) : ~SameKey(s, r, key, a[i], q)
      BY <1>1, <2>3 DEF SameMatches
    <2>5. a[i] \in 1..Len(s) /\ u[i] = s[a[i]] /\ a[i] \in A
      BY <1>1
    <2>6. <<a[i], 0>> \in JoinSet(s, r, key, type)
      BY <2>3, <2>4, <2>5, JoinPlaces
    <2>7. JoinRecords(s, r)[<<a[i], 0>>] = LeftOnly(s[a[i]])
      BY <2>5, JoinPlaces
    <2>8. JoinRecords(u, v)[<<i, 0>>] = LeftOnly(u[i])
      BY JoinPlaces
    <2> QED
      BY <2>1, <2>2, <2>5, <2>6, <2>7, <2>8 DEF SharePlaces
  <1>5. CASE \E j \in 1..Len(v) : e = <<0, j>>
    <2>1. PICK j \in 1..Len(v) : e = <<0, j>>
      BY <1>5
    <2>2. PlaceIn(a, b, e) = <<0, b[j]>>
      BY <1>1, <2>1 DEF PlaceIn
    <2>3. type \in {"Right", "Full"} /\ j \notin Matched(u, v, key)
      BY <2>1, JoinPlaces
    <2>4. b[j] \notin Matched(s, r, key)
      BY <1>1, <2>3 DEF SameMatches
    <2>5. b[j] \in 1..Len(r) /\ v[j] = r[b[j]] /\ b[j] \in B
      BY <1>1
    <2>6. <<0, b[j]>> \in JoinSet(s, r, key, type)
      BY <2>3, <2>4, <2>5, JoinPlaces
    <2>7. JoinRecords(s, r)[<<0, b[j]>>] = RightOnly(r[b[j]])
      BY <2>5, JoinPlaces
    <2>8. JoinRecords(u, v)[<<0, j>>] = RightOnly(v[j])
      BY JoinPlaces
    <2> QED
      BY <2>1, <2>2, <2>5, <2>6, <2>7, <2>8 DEF SharePlaces
  <1> QED
    BY <1>2, <1>3, <1>4, <1>5 DEF OneOfThree

\* And every place of the whole that belongs to the share is one of the share.
LEMMA ShareOnto ==
    ASSUME NEW s, NEW r, RecsOK(s), RecsOK(r), NEW u, NEW v, RecsOK(u), RecsOK(v),
           NEW key, NEW type, NEW A, NEW B, Closed(s, r, key, A, B),
           NEW a, NEW b, Located(u, s, A, a), Located(v, r, B, b),
           NEW d \in SharePlaces(s, r, key, type, A, B)
    PROVE  \E e \in JoinSet(u, v, key, type) : PlaceIn(a, b, e) = d
  <1>1. /\ \A i \in 1..Len(u) : a[i] \in A /\ a[i] \in 1..Len(s) /\ u[i] = s[a[i]] /\ i # 0
        /\ \A j \in 1..Len(v) : b[j] \in B /\ b[j] \in 1..Len(r) /\ v[j] = r[b[j]] /\ j # 0
        /\ \A p \in A : \E i \in 1..Len(u) : a[i] = p
        /\ \A q \in B : \E j \in 1..Len(v) : b[j] = q
        /\ 0 \notin A /\ 0 \notin B
        /\ SameMatches(s, r, key, u, v, a, b)
    <2>1. A \subseteq 1..Len(s) /\ B \subseteq 1..Len(r) /\ Len(s) \in Nat /\ Len(r) \in Nat
      BY DEF Closed, RecsOK, IsList
    <2>2. InPlace(u, s, A, a, Len(s)) /\ InPlace(v, r, B, b, Len(r))
      BY <2>1, LocatedIn
    <2>3. SameMatches(s, r, key, u, v, a, b)
      BY SharePartners
    <2> QED
      BY <2>2, <2>3 DEF InPlace
  <1>2. d \in JoinSet(s, r, key, type) /\ (d[1] \in A \/ d[2] \in B)
    BY DEF SharePlaces
  <1>3. OneOfThree(d, s, r)
    BY <1>2, JoinPlaces
  <1>4. CASE \E p \in 1..Len(s), q \in 1..Len(r) : d = <<p, q>>
    <2>1. PICK p \in 1..Len(s), q \in 1..Len(r) : d = <<p, q>>
      BY <1>4
    <2>2. SameKey(s, r, key, p, q)
      BY <1>2, <2>1, JoinPlaces
    <2>3. p \in A \/ q \in B
      BY <1>2, <2>1
    <2>4. p \in A /\ q \in B
      BY <2>2, <2>3 DEF Closed
    <2>5. PICK i \in 1..Len(u) : a[i] = p
      BY <1>1, <2>4
    <2>6. PICK j \in 1..Len(v) : b[j] = q
      BY <1>1, <2>4
    <2>7. SameKey(u, v, key, i, j)
      BY <1>1, <2>2, <2>5, <2>6 DEF SameMatches
    <2>8. <<i, j>> \in JoinSet(u, v, key, type)
      BY <2>7, JoinPlaces
    <2>9. PlaceIn(a, b, <<i, j>>) = d
      BY <1>1, <2>1, <2>5, <2>6 DEF PlaceIn
    <2> QED
      BY <2>8, <2>9
  <1>5. CASE \E p \in 1..Len(s) : d = <<p, 0>>
    <2>1. PICK p \in 1..Len(s) : d = <<p, 0>>
      BY <1>5
    <2>2. type \in {"Left", "Full"} /\ \A q \in 1..Len(r) : ~SameKey(s, r, key, p, q)
      BY <1>2, <2>1, JoinPlaces
    <2>3. p \in A
      BY <1>1, <1>2, <2>1
    <2>4. PICK i \in 1..Len(u) : a[i] = p
      BY <1>1, <2>3
    <2>5. \A j \in 1..Len(v) : ~SameKey(u, v, key, i, j)
      BY <1>1, <2>2, <2>4 DEF SameMatches
    <2>6. <<i, 0>> \in JoinSet(u, v, key, type)
      BY <2>2, <2>5, JoinPlaces
    <2>7. PlaceIn(a, b, <<i, 0>>) = d
      BY <1>1, <2>1, <2>4 DEF PlaceIn
    <2> QED
      BY <2>6, <2>7
  <1>6. CASE \E q \in 1..Len(r) : d = <<0, q>>
    <2>1. PICK q \in 1..Len(r) : d = <<0, q>>
      BY <1>6
    <2>2. type \in {"Right", "Full"} /\ q \notin Matched(s, r, key)
      BY <1>2, <2>1, JoinPlaces
    <2>3. q \in B
      BY <1>1, <1>2, <2>1
    <2>4. PICK j \in 1..Len(v) : b[j] = q
      BY <1>1, <2>3
    <2>5. j \notin Matched(u, v, key)
      BY <1>1, <2>2, <2>4 DEF SameMatches
    <2>6. <<0, j>> \in JoinSet(u, v, key, type)
      BY <2>2, <2>5, JoinPlaces
    <2>7. PlaceIn(a, b, <<0, j>>) = d
      BY <1>1, <2>1, <2>4 DEF PlaceIn
    <2> QED
      BY <2>6, <2>7
  <1> QED
    BY <1>3, <1>4, <1>5, <1>6 DEF OneOfThree

\* So what a task joins lists what belongs to its share.
LEMMA ShareLists ==
    ASSUME NEW s, NEW r, RecsOK(s), RecsOK(r), NEW u, NEW v, RecsOK(u), RecsOK(v),
           NEW key, NEW type, NEW A, NEW B, Closed(s, r, key, A, B),
           Picks(u, s, A), Picks(v, r, B), IsOk(Join(u, v, key, type))
    PROVE  Lists(Value(Join(u, v, key, type)), SharePlaces(s, r, key, type, A, B), JoinRecords(s, r))
  <1>1. IsList(s) /\ IsList(r) /\ A \subseteq 1..Len(s) /\ B \subseteq 1..Len(r)
    BY DEF RecsOK, Closed
  <1>2. PICK a : Located(u, s, A, a)
    BY <1>1, PicksLocated
  <1>3. PICK b : Located(v, r, B, b)
    BY <1>1, PicksLocated
  <1> DEFINE E == JoinSet(u, v, key, type)
             D == SharePlaces(s, r, key, type, A, B)
             f == JoinRecords(u, v)
             g == JoinRecords(s, r)
             c == [e \in E |-> PlaceIn(a, b, e)]
  <1>4. Lists(Value(Join(u, v, key, type)), E, f)
    BY JoinLists
  <1>5. c \in [E -> D] /\ \A e \in E : f[e] = g[c[e]]
    <2>1. \A e \in E : PlaceIn(a, b, e) \in D /\ f[e] = g[PlaceIn(a, b, e)]
      BY <1>2, <1>3, ShareInto
    <2> HIDE DEF E, D, f, g
    <2> QED
      BY <2>1
  <1>6. \A d \in D : \E e \in E : c[e] = d
    <2>1. \A d \in D : \E e \in E : PlaceIn(a, b, e) = d
      BY <1>2, <1>3, ShareOnto
    <2> HIDE DEF E, D
    <2> QED
      BY <2>1
  <1>7. \A d, e \in E : c[d] = c[e] => d = e
    <2> SUFFICES ASSUME NEW d \in E, NEW e \in E, c[d] = c[e] PROVE d = e
      OBVIOUS
    <2>1. /\ \A i, j \in 1..Len(u) : a[i] = a[j] => i = j
          /\ \A i, j \in 1..Len(v) : b[i] = b[j] => i = j
          /\ \A i \in 1..Len(u) : a[i] # 0
          /\ \A j \in 1..Len(v) : b[j] # 0
          /\ Len(u) \in Nat /\ Len(v) \in Nat
      BY <1>1, <1>2, <1>3 DEF Located
    <2>2. ASSUME NEW x \in E
          PROVE  /\ x = <<x[1], x[2]>> /\ (x[1] = 0 \/ x[1] \in 1..Len(u))
                 /\ x[2] = 0 \/ x[2] \in 1..Len(v)
      <3>1. x = <<x[1], x[2]>> /\ x[1] \in 0..Len(u) /\ x[2] \in 0..Len(v)
        BY DEF JoinSet
      <3> QED
        BY <2>1, <3>1
    <2>3. PlaceIn(a, b, d) = PlaceIn(a, b, e)
      OBVIOUS
    <2> HIDE DEF E
    <2>4. /\ (IF d[1] = 0 THEN 0 ELSE a[d[1]]) = (IF e[1] = 0 THEN 0 ELSE a[e[1]])
          /\ (IF d[2] = 0 THEN 0 ELSE b[d[2]]) = (IF e[2] = 0 THEN 0 ELSE b[e[2]])
      BY <2>3 DEF PlaceIn
    <2>5. d[1] = e[1]
      BY <2>1, <2>2, <2>4
    <2>6. d[2] = e[2]
      BY <2>1, <2>2, <2>4
    <2> QED
      BY <2>2, <2>5, <2>6
  <1> HIDE DEF E, D, f, g, c
  <1>8. Lists(Value(Join(u, v, key, type)), D, g)
    BY <1>4, <1>5, <1>6, <1>7, ListsTransport
  <1> QED
    BY <1>8 DEF D, g

-----------------------------------------------------------------------------
(* A join of all tasks together.                                           *)

\* Every record has the key.
Keyed(z, key) == \A i \in 1..Len(z) : HasKey(z[i], key)

\* Join fails unless it is so on both sides.
LEMMA JoinKeyed ==
    ASSUME NEW l, NEW r, IsList(l), IsList(r), NEW key, NEW type
    PROVE  IsOk(Join(l, r, key, type)) <=> Keyed(l, key) /\ Keyed(r, key)
  <1>1. \A x : x \in ToSet(l) <=> \E i \in 1..Len(l) : l[i] = x
    BY ToSetOfList
  <1>2. \A x : x \in ToSet(r) <=> \E i \in 1..Len(r) : r[i] = x
    BY ToSetOfList
  <1>3. IsOk(Join(l, r, key, type)) <=> \A rec \in ToSet(l) \cup ToSet(r) : HasKey(rec, key)
    BY JoinResult
  <1> QED
    BY <1>1, <1>2, <1>3 DEF Keyed

\* It is so of a list if it is of its shares.
LEMMA SplitKeyed ==
    ASSUME NEW n, NEW u, NEW s, Split(n, u, s), NEW key
    PROVE  Keyed(s, key) <=> \A t \in 0..(n - 1) : Keyed(u[t], key)
  <1>1. SameElems(n, u, s)
    BY SplitElems
  <1>2. ASSUME Keyed(s, key), NEW t \in 0..(n - 1), NEW q \in 1..Len(u[t]) PROVE HasKey(u[t][q], key)
    <2>1. PICK p \in 1..Len(s) : u[t][q] = s[p]
      BY <1>1 DEF SameElems
    <2> QED
      BY <1>2, <2>1 DEF Keyed
  <1>3. ASSUME \A t \in 0..(n - 1) : Keyed(u[t], key), NEW p \in 1..Len(s) PROVE HasKey(s[p], key)
    <2>1. PICK t \in 0..(n - 1) : \E q \in 1..Len(u[t]) : u[t][q] = s[p]
      BY <1>1 DEF SameElems
    <2>2. PICK q \in 1..Len(u[t]) : u[t][q] = s[p]
      BY <2>1
    <2> QED
      BY <1>3, <2>2 DEF Keyed
  <1> QED
    BY <1>2, <1>3 DEF Keyed

\* Records with one key text hash alike.
LEMMA SameHash ==
    ASSUME NEW s, NEW r, NEW key, Keyed(s, key), Keyed(r, key),
           NEW p \in 1..Len(s), NEW q \in 1..Len(r), SameKey(s, r, key, p, q)
    PROVE  HashInput(s[p], key) = HashInput(r[q], key)
BY DEF Keyed, SameKey, HashInput

\* So what a task has is closed.
LEMMA SharesClosed ==
    ASSUME NEW n, NEW u, NEW s, NEW a, SplitBy(n, u, s, a), NEW v, NEW r, NEW b, SplitBy(n, v, r, b),
           NEW key, KeysApart(n, u, v, key), KeysApart(n, v, v, key),
           Keyed(s, key), Keyed(r, key), NEW t
    PROVE  Closed(s, r, key, Theirs(s, a, t), Theirs(r, b, t))
  <1>1. ASSUME NEW p \in 1..Len(s), NEW q \in 1..Len(r), SameKey(s, r, key, p, q) PROVE a[p] = b[q]
    <2>1. HashInput(s[p], key) = HashInput(r[q], key)
      BY <1>1, SameHash
    <2> QED
      BY <2>1, OneOwner
  <1>2. ASSUME NEW q \in 1..Len(r), NEW m \in 1..Len(r), r[q] = r[m] PROVE b[q] = b[m]
    <2>1. HashInput(r[q], key) = HashInput(r[m], key)
      BY <1>2
    <2> QED
      BY <2>1, OneOwner
  <1> QED
    BY <1>1, <1>2 DEF Closed, Theirs

\* What the tasks join, and the places that belong to them.
JoinShares(n, u, v, key, type) == [t \in 0..(n - 1) |-> Value(Join(u[t], v[t], key, type))]
PlaceShares(n, s, r, a, b, key, type) ==
    [t \in 0..(n - 1) |-> SharePlaces(s, r, key, type, Theirs(s, a, t), Theirs(r, b, t))]

\* Every task has a closed share; e belongs to one task.
AllClosed(s, r, key, a, b) == \A t : Closed(s, r, key, Theirs(s, a, t), Theirs(r, b, t))
InOneShare(n, F, e) == \E w \in 0..(n - 1) : \A t \in 0..(n - 1) : e \in F[t] <=> t = w

\* A place belongs to one task: that of its left record, or of its right one.
LEMMA PlaceOwner ==
    ASSUME NEW n, NEW u, NEW s, NEW a, SplitBy(n, u, s, a), NEW v, NEW r, NEW b, SplitBy(n, v, r, b),
           RecsOK(s), RecsOK(r), NEW key, NEW type,
           AllClosed(s, r, key, a, b), NEW e \in JoinSet(s, r, key, type)
    PROVE  InOneShare(n, PlaceShares(n, s, r, a, b, key, type), e)
  <1>1. ASSUME NEW t \in 0..(n - 1)
        PROVE  e \in PlaceShares(n, s, r, a, b, key, type)[t] <=>
                   e[1] \in Theirs(s, a, t) \/ e[2] \in Theirs(r, b, t)
    BY DEF PlaceShares, SharePlaces
  <1>2. /\ \A p \in 1..Len(s) : a[p] \in 0..(n - 1)
        /\ \A q \in 1..Len(r) : b[q] \in 0..(n - 1)
    BY DEF SplitBy
  <1>3. 0 \notin 1..Len(s) /\ 0 \notin 1..Len(r)
    BY NotZero DEF RecsOK, IsList
  <1>4. OneOfThree(e, s, r)
    BY JoinPlaces
  <1>5. CASE \E p \in 1..Len(s), q \in 1..Len(r) : e = <<p, q>>
    <2>1. PICK p \in 1..Len(s), q \in 1..Len(r) : e = <<p, q>>
      BY <1>5
    <2>2. SameKey(s, r, key, p, q)
      BY <2>1, JoinPlaces
    <2>3. \A t : p \in Theirs(s, a, t) <=> q \in Theirs(r, b, t)
      BY <2>2 DEF AllClosed, Closed
    <2>4. \A t \in 0..(n - 1) : e \in PlaceShares(n, s, r, a, b, key, type)[t] <=> t = a[p]
      BY <1>1, <2>1, <2>3 DEF Theirs
    <2> QED
      BY <1>2, <2>4 DEF InOneShare
  <1>6. CASE \E p \in 1..Len(s) : e = <<p, 0>>
    <2>1. PICK p \in 1..Len(s) : e = <<p, 0>>
      BY <1>6
    <2>2. \A t \in 0..(n - 1) : e \in PlaceShares(n, s, r, a, b, key, type)[t] <=> t = a[p]
      BY <1>1, <1>3, <2>1 DEF Theirs
    <2> QED
      BY <1>2, <2>2 DEF InOneShare
  <1>7. CASE \E q \in 1..Len(r) : e = <<0, q>>
    <2>1. PICK q \in 1..Len(r) : e = <<0, q>>
      BY <1>7
    <2>2. \A t \in 0..(n - 1) : e \in PlaceShares(n, s, r, a, b, key, type)[t] <=> t = b[q]
      BY <1>1, <1>3, <2>1 DEF Theirs
    <2> QED
      BY <1>2, <2>2 DEF InOneShare
  <1> QED
    BY <1>4, <1>5, <1>6, <1>7 DEF OneOfThree

\* Join can join the whole exactly if it can join all shares, and what the
\* tasks put out shares out the places of the whole.
LEMMA JoinSplit ==
    ASSUME NEW n \in Nat, n > 0, NEW u, NEW s, Split(n, u, s), NEW v, NEW r, Split(n, v, r),
           RecsOK(s), RecsOK(r), NEW key, NEW type, KeysApart(n, u, v, key), KeysApart(n, v, v, key)
    PROVE  /\ IsOk(Join(s, r, key, type)) <=>
                 \A t \in 0..(n - 1) : IsOk(Join(u[t], v[t], key, type))
           /\ IsOk(Join(s, r, key, type)) =>
                 /\ Lists(Value(Join(s, r, key, type)), JoinSet(s, r, key, type), JoinRecords(s, r))
                 /\ \E F : ListShares(n, JoinShares(n, u, v, key, type), F,
                                      JoinSet(s, r, key, type), JoinRecords(s, r))
  <1>1. IsList(s) /\ IsList(r)
    BY DEF RecsOK
  <1>2. \A t \in 0..(n - 1) : RecsOK(u[t]) /\ RecsOK(v[t]) /\ IsList(u[t]) /\ IsList(v[t])
    BY SharesOK DEF RecsOK
  <1>3. IsOk(Join(s, r, key, type)) <=> Keyed(s, key) /\ Keyed(r, key)
    BY <1>1, JoinKeyed
  <1>4. \A t \in 0..(n - 1) :
           IsOk(Join(u[t], v[t], key, type)) <=> Keyed(u[t], key) /\ Keyed(v[t], key)
    BY <1>2, JoinKeyed
  <1>5. (Keyed(s, key) <=> \A t \in 0..(n - 1) : Keyed(u[t], key))
        /\ (Keyed(r, key) <=> \A t \in 0..(n - 1) : Keyed(v[t], key))
    BY SplitKeyed
  <1>6. IsOk(Join(s, r, key, type)) <=> \A t \in 0..(n - 1) : IsOk(Join(u[t], v[t], key, type))
    BY <1>3, <1>4, <1>5
  <1>7. ASSUME IsOk(Join(s, r, key, type))
        PROVE  \E F : ListShares(n, JoinShares(n, u, v, key, type), F,
                                 JoinSet(s, r, key, type), JoinRecords(s, r))
    <2>1. PICK a : SplitBy(n, u, s, a)
      BY DEF Split
    <2>2. PICK b : SplitBy(n, v, r, b)
      BY DEF Split
    <2>3. \A t : Closed(s, r, key, Theirs(s, a, t), Theirs(r, b, t))
      BY <1>3, <1>7, <2>1, <2>2, SharesClosed
    <2> DEFINE F == PlaceShares(n, s, r, a, b, key, type)
               E == JoinSet(s, r, key, type)
               g == JoinRecords(s, r)
               w == JoinShares(n, u, v, key, type)
    <2>4. ASSUME NEW t \in 0..(n - 1) PROVE Lists(w[t], F[t], g)
      <3> DEFINE A == Theirs(s, a, t)
                 B == Theirs(r, b, t)
      <3>1. Picks(u[t], s, A) /\ Picks(v[t], r, B) /\ Closed(s, r, key, A, B)
        BY <2>1, <2>2, <2>3 DEF SplitBy
      <3>2. RecsOK(u[t]) /\ RecsOK(v[t]) /\ IsOk(Join(u[t], v[t], key, type))
        BY <1>2, <1>6, <1>7
      <3>3. w[t] = Value(Join(u[t], v[t], key, type)) /\ F[t] = SharePlaces(s, r, key, type, A, B)
        BY DEF JoinShares, PlaceShares
      <3> HIDE DEF A, B, w, F, g
      <3>4. Lists(Value(Join(u[t], v[t], key, type)), SharePlaces(s, r, key, type, A, B),
                  JoinRecords(s, r))
        BY <3>1, <3>2, ShareLists
      <3> QED
        BY <3>3, <3>4 DEF g
    <2>5. \A e \in E : \E x \in 0..(n - 1) : \A t \in 0..(n - 1) : e \in F[t] <=> t = x
      <3>1. AllClosed(s, r, key, a, b)
        BY <2>3 DEF AllClosed
      <3>2. \A e \in E : InOneShare(n, F, e)
        BY <2>1, <2>2, <3>1, PlaceOwner
      <3> HIDE DEF E, F
      <3> QED
        BY <3>2 DEF InOneShare
    <2>6. \A t \in 0..(n - 1) : \A e \in F[t] : e \in E
      BY DEF PlaceShares, SharePlaces
    <2> HIDE DEF F, E, g, w
    <2>7. \A t, x \in 0..(n - 1) : \A e : e \in F[t] /\ e \in F[x] => t = x
      BY <2>5, <2>6
    <2>8. \A e : e \in E <=> \E t \in 0..(n - 1) : e \in F[t]
      BY <2>5, <2>6
    <2>9. ListShares(n, w, F, E, g)
      BY <2>4, <2>7, <2>8 DEF ListShares
    <2> QED
      BY <2>9 DEF w, E, g
  <1>8. IsOk(Join(s, r, key, type)) =>
           Lists(Value(Join(s, r, key, type)), JoinSet(s, r, key, type), JoinRecords(s, r))
    BY JoinLists
  <1> QED
    BY <1>6, <1>7, <1>8

\* What a task puts out if its last operator is Join.
LEMMA JoinOutput ==
    ASSUME job \in Jobs, Ends("Join"), NEW t, NEW n,
           IsOk(Before(t, n)) => Len(Value(Before(t, n))) = 2
    PROVE  OneResult(t, n, Join(Value(Before(t, n))[1][2], Value(Before(t, n))[2][2],
                                LastOp(job)[2], LastOp(job)[3]))
  <1> DEFINE ps == Value(Before(t, n))
             r == Join(ps[1][2], ps[2][2], LastOp(job)[2], LastOp(job)[3])
             id == ps[1][1]
  <1>1. Output(t, n) = IF IsOk(Before(t, n)) THEN Apply(LastOp(job), hash, ps) ELSE Err
    BY OutputOf
  <1>2. ASSUME IsOk(Before(t, n)) PROVE Output(t, n) = Partitions(<<id>>, <<r>>)
    <2>1. LastOp(job)[1] = "Join" /\ Len(ps) = 2
      BY <1>2 DEF Ends
    <2>2. Apply(LastOp(job), hash, ps) = Partitions(<<id>>, <<r>>)
      BY <2>1 DEF Apply, RecordOps
    <2> QED
      BY <1>1, <1>2, <2>2
  <1> HIDE DEF ps, r, id
  <1>3. /\ IsOk(Partitions(<<id>>, <<r>>)) <=> IsOk(r)
        /\ IsOk(r) => /\ Len(Value(Partitions(<<id>>, <<r>>))) = 1
                      /\ Value(Partitions(<<id>>, <<r>>))[1] = <<id, Value(r)>>
    BY OnePartition
  <1>4. OneResult(t, n, r)
    BY <1>1, <1>2, <1>3, Results DEF OneResult, id, ps
  <1> QED
    BY <1>4 DEF r, ps

\* With aligned keys, jobs that end with Join put out the places of the whole.
LEMMA JoinTransparent ==
    ASSUME DataflowInv, RecordWise, Ends("Join"), Aligned
    PROVE  /\ Transparent
           /\ IsOk(Output(0, 1)) =>
                 /\ OnePerTask /\ IsOk(Before(0, 1)) /\ RecsOK(Side(1)) /\ RecsOK(Side(2))
                 /\ IsOk(Join(Side(1), Side(2), LastOp(job)[2], LastOp(job)[3]))
                 /\ \E F : ListShares(total, TaskOutput, F,
                                      JoinSet(Side(1), Side(2), LastOp(job)[2], LastOp(job)[3]),
                                      JoinRecords(Side(1), Side(2)))
  <1> DEFINE key == LastOp(job)[2]
             type == LastOp(job)[3]
             s == Side(1)
             r == Side(2)
             u == TaskSide(1)
             w == TaskSide(2)
  <1>1. total \in Nat /\ total > 0 /\ job \in Jobs /\ Tasks = 0..(total - 1)
    BY DataflowAssumption DEF DataflowInv, Tasks
  <1>2. Buckets(job) = 1 /\ Len(job.inputs) = 2 /\ 1 \in 1..2 /\ 2 \in 1..2
    BY DEF Buckets, Ends, RecordWise
  <1>3. /\ IsOk(Before(0, 1)) <=> \A t \in Tasks : IsOk(Before(t, total))
        /\ IsOk(Before(0, 1)) =>
              /\ Len(Value(Before(0, 1))) = 2
              /\ \A t \in Tasks : Len(Value(Before(t, total))) = 2 /\ Value(Before(t, total))[1][1] = t
              /\ Split(total, u, s) /\ RecsOK(s) /\ Split(total, w, r) /\ RecsOK(r)
    BY <1>2, BeforeSplit
  <1>4. CASE ~IsOk(Before(0, 1))
    <2>1. PICK t \in Tasks : ~IsOk(Before(t, total))
      BY <1>3, <1>4
    <2>2. ~IsOk(Output(t, total)) /\ ~IsOk(Output(0, 1))
      BY <1>1, <1>4, <2>1, OutputOf
    <2> QED
      BY <1>2, <2>2 DEF Transparent
  <1>5. CASE IsOk(Before(0, 1))
    <2>1. OneResult(0, 1, Join(s, r, key, type))
      BY <1>1, <1>3, <1>5, JoinOutput DEF Side
    <2>2. \A t \in Tasks : OneResult(t, total, Join(u[t], w[t], key, type))
      <3> SUFFICES ASSUME NEW t \in Tasks PROVE OneResult(t, total, Join(u[t], w[t], key, type))
        OBVIOUS
      <3>1. u[t] = Value(Before(t, total))[1][2] /\ w[t] = Value(Before(t, total))[2][2]
        BY <1>1 DEF TaskSide
      <3> QED
        BY <1>1, <1>3, <1>5, <3>1, JoinOutput
    <2>3. KeysApart(total, u, w, key) /\ KeysApart(total, w, w, key)
      BY <1>2, <1>5, AlignedApart
    <2> DEFINE E == JoinSet(s, r, key, type)
               g == JoinRecords(s, r)
               v == JoinShares(total, u, w, key, type)
    <2>4. /\ IsOk(Join(s, r, key, type)) <=>
                 \A t \in 0..(total - 1) : IsOk(Join(u[t], w[t], key, type))
          /\ IsOk(Join(s, r, key, type)) =>
                 /\ Lists(Value(Join(s, r, key, type)), E, g)
                 /\ \E F : ListShares(total, v, F, E, g)
      <3> HIDE DEF key, type, s, r, u, w
      <3> QED
        BY <1>1, <1>3, <1>5, <2>3, JoinSplit
    <2> HIDE DEF key, type, s, r, u, w, E, g
    <2>5. IsOk(Output(0, 1)) <=> IsOk(Join(s, r, key, type))
      BY <1>5, <2>1 DEF OneResult
    <2>6. \A t \in Tasks : IsOk(Output(t, total)) <=> IsOk(Join(u[t], w[t], key, type))
      BY <1>3, <1>5, <2>2 DEF OneResult
    <2>7. IsOk(Output(0, 1)) <=> \A t \in Tasks : IsOk(Output(t, total))
      BY <1>1, <2>4, <2>5, <2>6
    <2>8. ASSUME IsOk(Output(0, 1))
          PROVE  /\ OnePerTask /\ Len(Value(Output(0, 1))) = 1
                 /\ \E F : ListShares(total, TaskOutput, F, E, g)
                 /\ Lists(Value(Output(0, 1))[1][2], E, g)
      <3>1. \A t \in Tasks : /\ IsOk(Output(t, total)) /\ Len(Value(Output(t, total))) = 1
                             /\ Value(Output(t, total))[1][1] = t
                             /\ Value(Output(t, total))[1][2] = Value(Join(u[t], w[t], key, type))
        BY <1>3, <1>5, <2>2, <2>6, <2>7, <2>8 DEF OneResult
      <3>2. Len(Value(Output(0, 1))) = 1 /\ Value(Output(0, 1))[1][2] = Value(Join(s, r, key, type))
        BY <1>5, <2>1, <2>5, <2>8 DEF OneResult
      <3>3. TaskOutput = v
        BY <1>1, <3>1 DEF TaskOutput, JoinShares
      <3>4. OnePerTask
        BY <3>1 DEF OnePerTask
      <3> QED
        BY <2>4, <2>5, <2>8, <3>2, <3>3, <3>4
    <2>9. Transparent
      BY <1>2, <2>7, <2>8 DEF Transparent, ListTogether
    <2> QED
      BY <1>3, <1>5, <2>5, <2>8, <2>9 DEF s, r, key, type, E, g
  <1> QED
    BY <1>4, <1>5

\* The three kinds of jobs together.
LEMMA AllTransparent == DataflowInv => PartitionTransparent
  <1> SUFFICES ASSUME DataflowInv, Ended, RecordWise, ~Ends("ShuffleByKey"), ~Ends("Reduce"),
                      Ends("ReduceByKey") \/ Ends("Join") => Aligned
               PROVE  /\ IsOk(Output(0, 1)) <=> Done
                      /\ Done => BagOf(Written) = BagOf(Merged(Value(Output(0, 1))))
    BY DEF PartitionTransparent
  <1>1. job \in Jobs
    BY DEF DataflowInv
  <1>2. LastOp(job)[1] \in {"Filter", "Map", "FlatMap", "Reduce", "ReduceByKey", "Join",
                            "ShuffleByKey"}
    BY <1>1, PlanOK, OutputOf
  <1>3. CASE LastOp(job)[1] \in RecordOps
    BY <1>3, RecordsTransparent, TransparentWritten
  <1>4. CASE Ends("ReduceByKey")
    BY <1>4, ReduceTransparent, TransparentWritten
  <1>5. CASE Ends("Join")
    BY <1>5, JoinTransparent, TransparentWritten
  <1> QED
    BY <1>2, <1>3, <1>4, <1>5 DEF Ends, RecordOps

\* How many partitions a job is given does not show: for every job, number of
\* partitions and hash function, the part files of a finished job hold together
\* what one task alone would have put out, and a task fails exactly when that
\* one would.
THEOREM PartitionsAreTransparent == Spec => []PartitionTransparent
  <1>1. Spec => []DataflowInv
    BY DataflowInvariant
  <1>2. DataflowInv => PartitionTransparent
    BY AllTransparent
  <1> QED
    BY <1>1, <1>2, PTL

-----------------------------------------------------------------------------
(* How often Join puts a record out.                                       *)

\* Sets whose elements are paired have one size.
LEMMA PairedCount ==
    ASSUME NEW S, IsFiniteSet(S), NEW T, NEW f \in [S -> T],
           \A y \in T : \E x \in S : f[x] = y, \A x, y \in S : f[x] = f[y] => x = y
    PROVE  IsFiniteSet(T) /\ Cardinality(T) = Cardinality(S)
  <1>1. f \in Bijection(S, T)
    BY DEF Bijection, Injection, Surjection, IsInjective
  <1> QED
    BY <1>1, FS_Bijection DEF ExistsBijection

\* The size of a set of three parts.
LEMMA ThreeParts ==
    ASSUME NEW S, IsFiniteSet(S), NEW A, NEW B, NEW C, S = A \cup B \cup C,
           A \cap B = {}, A \cap C = {}, B \cap C = {}
    PROVE  /\ IsFiniteSet(A) /\ IsFiniteSet(B) /\ IsFiniteSet(C)
           /\ Cardinality(S) = Cardinality(A) + Cardinality(B) + Cardinality(C)
  <1>1. A \in SUBSET S /\ B \in SUBSET S /\ C \in SUBSET S
    OBVIOUS
  <1>2. IsFiniteSet(A) /\ IsFiniteSet(B) /\ IsFiniteSet(C)
    BY <1>1, FS_Subset
  <1>3. Cardinality(A) \in Nat /\ Cardinality(B) \in Nat /\ Cardinality(C) \in Nat
    BY <1>2, FS_CardinalityType
  <1> DEFINE D == A \cup B
  <1>4. IsFiniteSet(D) /\ Cardinality(D) = Cardinality(A) + Cardinality(B) - Cardinality(A \cap B)
    BY <1>2, FS_Union
  <1>5. Cardinality(A \cap B) = 0
    BY FS_EmptySet
  <1>6. Cardinality(D) = Cardinality(A) + Cardinality(B)
    BY <1>3, <1>4, <1>5
  <1>7. D \cap C = {} /\ S = D \cup C
    OBVIOUS
  <1> HIDE DEF D
  <1>8. Cardinality(D \cup C) = Cardinality(D) + Cardinality(C) - Cardinality(D \cap C)
    BY <1>2, <1>4, FS_Union
  <1>9. Cardinality(D \cap C) = 0
    BY <1>7, FS_EmptySet
  <1> QED
    BY <1>2, <1>3, <1>6, <1>7, <1>8, <1>9

\* Lists without a record twice.
NoneTwice(r) == \A i, j \in 1..Len(r) : r[i] = r[j] => i = j

\* They are those with as many records as places.
LEMMA AllDifferent ==
    ASSUME NEW r, IsList(r), Cardinality(ToSet(r)) = Len(r)
    PROVE  NoneTwice(r)
  <1> DEFINE S == 1..Len(r)
             T == ToSet(r)
  <1>1. Len(r) \in Nat /\ r = [i \in S |-> r[i]] /\ \A x : x \in T <=> \E i \in S : r[i] = x
    BY ToSetOfList DEF IsList
  <1>2. IsFiniteSet(S) /\ Cardinality(S) = Len(r)
    <2>1. Cardinality(1..Len(r)) = IF 1 > Len(r) THEN 0 ELSE Len(r) - 1 + 1
      BY <1>1, FS_Interval
    <2> QED
      BY <1>1, <2>1, FS_Interval
  <1> HIDE DEF S, T
  <1>3. r \in [S -> T]
    BY <1>1
  <1>4. r \in Surjection(S, T)
    BY <1>1, <1>3 DEF Surjection
  <1>5. Cardinality(S) = Cardinality(T)
    BY <1>2 DEF T
  <1>6. r \in Injection(S, T)
    BY <1>2, <1>4, <1>5, FS_SurjSameCardinalityImpliesInj
  <1>7. \A i, j \in S : r[i] = r[j] => i = j
    <2>1. DOMAIN r = S
      BY <1>3
    <2> QED
      BY <1>6, <2>1 DEF Injection, IsInjective
  <1> QED
    BY <1>7 DEF NoneTwice, S

\* Then only records with a partner are marked.
LEMMA MarkedHavePartners ==
    ASSUME NEW l, NEW r, IsList(r), NEW key, NoneTwice(r), NEW j \in 1..Len(r)
    PROVE  j \notin Matched(l, r, key) <=> \A i \in 1..Len(l) : ~SameKey(l, r, key, i, j)
  <1>1. \A m \in 1..(j - 1) : r[m] # r[j]
    <2> SUFFICES ASSUME NEW m \in 1..(j - 1), r[m] = r[j] PROVE FALSE
      OBVIOUS
    <2>1. Len(r) \in Nat
      BY DEF IsList
    <2>2. m \in 1..Len(r) /\ m # j
      BY <2>1
    <2> QED
      BY <2>2 DEF NoneTwice
  <1> QED
    BY <1>1 DEF Matched, SameKey

\* The places for x are counted by kind.
LEMMA JoinCount ==
    ASSUME NEW l, NEW r, RecsOK(l), RecsOK(r), NEW key, NEW type, NEW x,
           type \in {"Right", "Full"} => NoneTwice(r),
           IsFiniteSet(Holders(JoinSet(l, r, key, type), JoinRecords(l, r), x))
    PROVE  Cardinality(Holders(JoinSet(l, r, key, type), JoinRecords(l, r), x))
               = Joined(l, r, key, type, x)
  <1> DEFINE E == JoinSet(l, r, key, type)
             g == JoinRecords(l, r)
             S == Holders(E, g, x)
             A == {e \in S : e[1] # 0 /\ e[2] # 0}
             B == {e \in S : e[1] # 0 /\ e[2] = 0}
             C == {e \in S : e[1] = 0}
  <1>1. \A e \in S : e \in E /\ g[e] = x /\ OneOfThree(e, l, r)
    BY JoinPlaces DEF Holders
  <1>2. 0 \notin 1..Len(l) /\ 0 \notin 1..Len(r)
    BY NotZero DEF RecsOK, IsList
  <1>3. \A e \in A : \E i \in 1..Len(l), j \in 1..Len(r) : e = <<i, j>>
    BY <1>1, <1>2 DEF OneOfThree
  <1>4. \A e \in B : \E i \in 1..Len(l) : e = <<i, 0>>
    BY <1>1, <1>2 DEF OneOfThree
  <1>5. \A e \in C : \E j \in 1..Len(r) : e = <<0, j>>
    BY <1>1, <1>2 DEF OneOfThree
  <1>6. S = A \cup B \cup C /\ A \cap B = {} /\ A \cap C = {} /\ B \cap C = {}
    OBVIOUS
  <1>7. A = PairsWith(l, r, key, x)
    <2>1. ASSUME NEW e \in A PROVE e \in PairsWith(l, r, key, x)
      <3>1. PICK i \in 1..Len(l), j \in 1..Len(r) : e = <<i, j>>
        BY <1>3
      <3>2. <<i, j>> \in E /\ g[<<i, j>>] = x
        BY <1>1, <3>1
      <3>3. SameKey(l, r, key, i, j) /\ Combined(l[i], r[j]) = x
        BY <3>2, JoinPlaces
      <3> QED
        BY <3>1, <3>3 DEF PairsWith
    <2>2. ASSUME NEW p \in PairsWith(l, r, key, x) PROVE p \in A
      <3>1. PICK i \in 1..Len(l), j \in 1..Len(r) : p = <<i, j>>
        BY DEF PairsWith
      <3>2. SameKey(l, r, key, i, j) /\ Combined(l[i], r[j]) = x
        BY <3>1 DEF PairsWith
      <3>3. <<i, j>> \in E /\ g[<<i, j>>] = x
        BY <3>2, JoinPlaces
      <3> QED
        BY <1>2, <3>1, <3>3 DEF Holders
    <2> QED
      BY <2>1, <2>2
  <1>8. /\ IsFiniteSet(A) /\ IsFiniteSet(B) /\ IsFiniteSet(C)
        /\ Cardinality(S) = Cardinality(A) + Cardinality(B) + Cardinality(C)
    <2>1. IsFiniteSet(S)
      OBVIOUS
    <2> HIDE DEF S, A, B, C
    <2> QED
      BY SMTT(30), <1>6, <2>1, ThreeParts
  <1>9. Cardinality(B) = IF type \in {"Left", "Full"} THEN Cardinality(LoneLeft(l, r, key, x)) ELSE 0
    <2>1. ASSUME NEW i \in 1..Len(l)
          PROVE  <<i, 0>> \in B <=> type \in {"Left", "Full"} /\ i \in LoneLeft(l, r, key, x)
      <3>1. <<i, 0>> \in B <=> <<i, 0>> \in E /\ g[<<i, 0>>] = x
        BY <1>2 DEF Holders
      <3>2. g[<<i, 0>>] = LeftOnly(l[i])
            /\ (<<i, 0>> \in E <=> /\ type \in {"Left", "Full"}
                                   /\ \A j \in 1..Len(r) : ~SameKey(l, r, key, i, j))
        BY JoinPlaces
      <3> HIDE DEF B, E, g
      <3> QED
        BY <3>1, <3>2 DEF LoneLeft
    <2>2. CASE type \in {"Left", "Full"}
      <3> DEFINE T == LoneLeft(l, r, key, x)
                 f == [e \in B |-> e[1]]
      <3> HIDE DEF B
      <3>1. \A i \in T : i \in 1..Len(l)
        BY DEF LoneLeft
      <3> HIDE DEF T
      <3>2. f \in [B -> T]
        BY <1>4, <2>1, <2>2 DEF T
      <3>3. \A i \in T : <<i, 0>> \in B
        BY <2>1, <2>2, <3>1 DEF T
      <3>4. \A i \in T : \E e \in B : f[e] = i
        BY <3>3
      <3>5. \A d, e \in B : f[d] = f[e] => d = e
        BY <1>4
      <3> HIDE DEF f
      <3> QED
        BY <1>8, <2>2, <3>2, <3>4, <3>5, PairedCount DEF T
    <2>3. CASE ~(type \in {"Left", "Full"})
      <3>1. B = {}
        <4> HIDE DEF B
        <4> QED
          BY <1>4, <2>1, <2>3
      <3> QED
        BY <2>3, <3>1, FS_EmptySet
    <2> QED
      BY <2>2, <2>3
  <1>10. Cardinality(C) = IF type \in {"Right", "Full"} THEN Cardinality(LoneRight(l, r, key, x)) ELSE 0
    <2>1. ASSUME NEW j \in 1..Len(r)
          PROVE  <<0, j>> \in C <=> type \in {"Right", "Full"} /\ j \in LoneRight(l, r, key, x)
      <3>1. <<0, j>> \in C <=> <<0, j>> \in E /\ g[<<0, j>>] = x
        BY DEF Holders
      <3>2. g[<<0, j>>] = RightOnly(r[j])
            /\ (<<0, j>> \in E <=> type \in {"Right", "Full"} /\ j \notin Matched(l, r, key))
        BY JoinPlaces
      <3>3. type \in {"Right", "Full"} =>
               (j \notin Matched(l, r, key) <=> \A i \in 1..Len(l) : ~SameKey(l, r, key, i, j))
        BY MarkedHavePartners DEF RecsOK
      <3> HIDE DEF C, E, g
      <3> QED
        BY <3>1, <3>2, <3>3 DEF LoneRight
    <2>2. CASE type \in {"Right", "Full"}
      <3> DEFINE T == LoneRight(l, r, key, x)
                 f == [e \in C |-> e[2]]
      <3> HIDE DEF C
      <3>1. \A j \in T : j \in 1..Len(r)
        BY DEF LoneRight
      <3> HIDE DEF T
      <3>2. f \in [C -> T]
        BY <1>5, <2>1, <2>2 DEF T
      <3>3. \A j \in T : <<0, j>> \in C
        BY <2>1, <2>2, <3>1 DEF T
      <3>4. \A j \in T : \E e \in C : f[e] = j
        BY <3>3
      <3>5. \A d, e \in C : f[d] = f[e] => d = e
        BY <1>5
      <3> HIDE DEF f
      <3> QED
        BY <1>8, <2>2, <3>2, <3>4, <3>5, PairedCount DEF T
    <2>3. CASE ~(type \in {"Right", "Full"})
      <3>1. C = {}
        <4> HIDE DEF C
        <4> QED
          BY <1>5, <2>1, <2>3
      <3> QED
        BY <2>3, <3>1, FS_EmptySet
    <2> QED
      BY <2>2, <2>3
  <1> HIDE DEF A, B, C
  <1> QED
    BY <1>7, <1>8, <1>9, <1>10 DEF Joined

\* A finished Join job wrote the reference.
LEMMA JoinReference == DataflowInv => JoinMatchesReference
  <1> DEFINE l == Side(1)
             r == Side(2)
             key == LastOp(job)[2]
             type == LastOp(job)[3]
  <1>1. SUFFICES ASSUME DataflowInv, Done, RecordWise, Ends("Join"), Aligned,
                        type \in {"Inner", "Left"} \/ Cardinality(ToSet(r)) = Len(r)
                 PROVE  \A x : Cardinality({k \in 1..Len(Written) : Written[k] = x})
                                   = Joined(l, r, key, type, x)
    BY DEF JoinMatchesReference
  <1>2. Ended
    BY <1>1 DEF Ended, Done
  <1>3. \A t \in Tasks : IsOk(Output(t, total))
    BY <1>1, <1>2, EndedDone
  <1>4. Transparent
    BY <1>1, JoinTransparent
  <1>5. IsOk(Output(0, 1)) /\ Buckets(job) = 1
    BY <1>3, <1>4 DEF Transparent
  <1>6. OnePerTask /\ RecsOK(l) /\ RecsOK(r)
    BY <1>1, <1>5, JoinTransparent
  <1> DEFINE E == JoinSet(l, r, key, type)
             g == JoinRecords(l, r)
  <1>7. PICK F : ListShares(total, TaskOutput, F, E, g)
    BY <1>1, <1>5, JoinTransparent
  <1>8. Lists(Written, E, g)
    <2> HIDE DEF E, g
    <2> QED
      BY <1>1, <1>5, <1>6, <1>7, WrittenLists
  <1>9. type \in {"Right", "Full"} => NoneTwice(r)
    <2> SUFFICES ASSUME type \in {"Right", "Full"} PROVE NoneTwice(r)
      OBVIOUS
    <2>1. Cardinality(ToSet(r)) = Len(r) /\ IsList(r)
      BY <1>1, <1>6 DEF RecsOK
    <2> HIDE DEF r
    <2> QED
      BY <2>1, AllDifferent
  <1> HIDE DEF l, r, key, type
  <1> SUFFICES ASSUME NEW x
               PROVE  Cardinality({k \in 1..Len(Written) : Written[k] = x})
                          = Joined(l, r, key, type, x)
    OBVIOUS
  <1>10. IsFiniteSet(Holders(E, g, x)) /\ Cardinality(At(Written, x)) = Cardinality(Holders(E, g, x))
    <2> HIDE DEF E, g
    <2> QED
      BY <1>8, ListsCount
  <1>11. Cardinality(Holders(E, g, x)) = Joined(l, r, key, type, x)
    BY <1>6, <1>9, <1>10, JoinCount
  <1>12. At(Written, x) = {k \in 1..Len(Written) : Written[k] = x}
    BY DEF At
  <1> HIDE DEF E, g
  <1> QED
    BY <1>10, <1>11, <1>12

\* Join, whatever the records, the type and the number of tasks, puts out every
\* pair of records with equal keys once and the records without a partner that
\* its type asks for, unless two tasks have records with one key, or a Right or
\* Full join has a right record twice.
THEOREM JoinIsReference == Spec => []JoinMatchesReference
  <1>1. Spec => []DataflowInv
    BY DataflowInvariant
  <1>2. DataflowInv => JoinMatchesReference
    BY JoinReference
  <1> QED
    BY <1>1, <1>2, PTL

=============================================================================
