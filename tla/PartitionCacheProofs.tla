------------------------ MODULE PartitionCacheProofs ------------------------
(***************************************************************************)
(* Theorems about module PartitionCache, for any number of caches, any     *)
(* paths, shared or not, and any records, sizes and limit: what spilling   *)
(* keeps when caches share files, and what a cache with a file of its own  *)
(* promises.                                                               *)
(***************************************************************************)
EXTENDS PartitionCache, TLAPS

-----------------------------------------------------------------------------
(***************************************************************************)
(* Elements of sequences                                                   *)
(***************************************************************************)

\* The set of a sequence has what the sequence contains.
LEMMA ToSetHas ==
    ASSUME NEW S, NEW s \in Seq(S), NEW x PROVE x \in ToSet(s) <=> Contains(s, x)
BY DEF ToSet, Contains

\* Appending adds one element.
LEMMA AppendHas ==
    ASSUME NEW S, NEW s \in Seq(S), NEW r \in S, NEW x
    PROVE  Contains(Append(s, r), x) <=> Contains(s, x) \/ x = r
<1>1. /\ Append(s, r) \in Seq(S) /\ Len(Append(s, r)) = Len(s) + 1
      /\ \A i \in 1..Len(s) : Append(s, r)[i] = s[i]
      /\ Append(s, r)[Len(s) + 1] = r /\ Len(s) \in Nat
  OBVIOUS
<1>2. QED
  BY <1>1 DEF Contains

\* An element that was not there is appended once.
LEMMA AppendOnce ==
    ASSUME NEW S, NEW s \in Seq(S), NEW r \in S, NEW x, Once(s, x),
           x = r => ~Contains(s, x)
    PROVE  Once(Append(s, r), x)
<1>1. /\ Len(Append(s, r)) = Len(s) + 1 /\ Len(s) \in Nat
      /\ \A i \in 1..Len(s) : Append(s, r)[i] = s[i]
      /\ Append(s, r)[Len(s) + 1] = r
  OBVIOUS
<1>2. \A i \in 1..(Len(s) + 1) : i \in 1..Len(s) \/ i = Len(s) + 1
  BY <1>1
<1>3. QED
  BY <1>1, <1>2 DEF Once, Contains

\* How the positions of two sequences make up those of their concatenation.
LEMMA ConcatPositions ==
    ASSUME NEW S, NEW s \in Seq(S), NEW t \in Seq(S)
    PROVE  /\ s \o t \in Seq(S) /\ Len(s) \in Nat /\ Len(t) \in Nat
           /\ Len(s \o t) = Len(s) + Len(t)
           /\ \A i \in 1..Len(s) : i \in 1..Len(s \o t) /\ (s \o t)[i] = s[i]
           /\ \A i \in 1..Len(t) : /\ Len(s) + i \in 1..Len(s \o t)
                                   /\ (s \o t)[Len(s) + i] = t[i]
           /\ \A i \in 1..Len(s \o t) :
                  i \in 1..Len(s) \/ \E k \in 1..Len(t) : i = Len(s) + k
<1>1. /\ s \o t \in Seq(S) /\ Len(s) \in Nat /\ Len(t) \in Nat
      /\ Len(s \o t) = Len(s) + Len(t)
  OBVIOUS
<1>2. \A i \in 1..Len(s) : i \in 1..Len(s \o t) /\ (s \o t)[i] = s[i]
  OBVIOUS
<1>3. \A i \in 1..Len(t) : Len(s) + i \in 1..Len(s \o t) /\ (s \o t)[Len(s) + i] = t[i]
  OBVIOUS
<1>4. ASSUME NEW i \in 1..Len(s \o t), i \notin 1..Len(s)
      PROVE  \E k \in 1..Len(t) : i = Len(s) + k
  <2>1. i - Len(s) \in 1..Len(t) /\ i = Len(s) + (i - Len(s))
    BY <1>1, <1>4
  <2>2. QED
    BY <2>1
<1>5. QED
  BY <1>1, <1>2, <1>3, <1>4

\* A concatenation contains what its parts contain.
LEMMA ConcatHas ==
    ASSUME NEW S, NEW s \in Seq(S), NEW t \in Seq(S), NEW x
    PROVE  Contains(s \o t, x) <=> Contains(s, x) \/ Contains(t, x)
<1>1. ASSUME Contains(s \o t, x) PROVE Contains(s, x) \/ Contains(t, x)
  <2>1. PICK i \in 1..Len(s \o t) : (s \o t)[i] = x
    BY <1>1 DEF Contains
  <2>2. CASE i \in 1..Len(s)
    BY <2>1, <2>2, ConcatPositions DEF Contains
  <2>3. CASE i \notin 1..Len(s)
    <3>1. PICK k \in 1..Len(t) : i = Len(s) + k
      BY <2>3, ConcatPositions
    <3>2. t[k] = x
      BY <2>1, <3>1, ConcatPositions
    <3>3. QED
      BY <3>2 DEF Contains
  <2>4. QED
    BY <2>2, <2>3
<1>2. ASSUME Contains(s, x) PROVE Contains(s \o t, x)
  <2>1. PICK i \in 1..Len(s) : s[i] = x
    BY <1>2 DEF Contains
  <2>2. i \in 1..Len(s \o t) /\ (s \o t)[i] = x
    BY <2>1, ConcatPositions
  <2>3. QED
    BY <2>2 DEF Contains
<1>3. ASSUME Contains(t, x) PROVE Contains(s \o t, x)
  <2>1. PICK i \in 1..Len(t) : t[i] = x
    BY <1>3 DEF Contains
  <2>2. Len(s) + i \in 1..Len(s \o t) /\ (s \o t)[Len(s) + i] = x
    BY <2>1, ConcatPositions
  <2>3. QED
    BY <2>2 DEF Contains
<1>4. QED
  BY <1>1, <1>2, <1>3

\* What is once in one of the parts and not in the other is in it once.
LEMMA ConcatOnce ==
    ASSUME NEW S, NEW s \in Seq(S), NEW t \in Seq(S), NEW x,
           Once(s, x), Once(t, x), ~(Contains(s, x) /\ Contains(t, x))
    PROVE  Once(s \o t, x)
<1> SUFFICES ASSUME NEW j \in 1..Len(s \o t), NEW k \in 1..Len(s \o t),
                    (s \o t)[j] = x, (s \o t)[k] = x
             PROVE  j = k
  BY DEF Once
<1>1. \A i \in 1..Len(s) : (s \o t)[i] = x => s[i] = x
  BY ConcatPositions
<1>2. \A i \in 1..Len(t) : (s \o t)[Len(s) + i] = x => t[i] = x
  BY ConcatPositions
<1>3. CASE j \in 1..Len(s) /\ k \in 1..Len(s)
  BY <1>1, <1>3 DEF Once
<1>4. CASE j \notin 1..Len(s) /\ k \notin 1..Len(s)
  <2>1. PICK a \in 1..Len(t) : j = Len(s) + a
    BY <1>4, ConcatPositions
  <2>2. PICK b \in 1..Len(t) : k = Len(s) + b
    BY <1>4, ConcatPositions
  <2>3. t[a] = x /\ t[b] = x
    BY <1>2, <2>1, <2>2
  <2>4. QED
    BY <2>1, <2>2, <2>3 DEF Once
<1>5. CASE j \in 1..Len(s) /\ k \notin 1..Len(s)
  <2>1. PICK b \in 1..Len(t) : k = Len(s) + b
    BY <1>5, ConcatPositions
  <2>2. s[j] = x /\ t[b] = x
    BY <1>1, <1>2, <1>5, <2>1
  <2>3. QED
    BY <1>5, <2>2 DEF Contains
<1>6. CASE j \notin 1..Len(s) /\ k \in 1..Len(s)
  <2>1. PICK b \in 1..Len(t) : j = Len(s) + b
    BY <1>6, ConcatPositions
  <2>2. s[k] = x /\ t[b] = x
    BY <1>1, <1>2, <1>6, <2>1
  <2>3. QED
    BY <1>6, <2>2 DEF Contains
<1>7. QED
  BY <1>3, <1>4, <1>5, <1>6

\* A sequence cut in two.
LEMMA CutHas ==
    ASSUME NEW S, NEW s \in Seq(S), NEW n \in 0..Len(s), NEW x
    PROVE  /\ SubSeq(s, 1, n) \in Seq(S) /\ SubSeq(s, n + 1, Len(s)) \in Seq(S)
           /\ Contains(SubSeq(s, 1, n), x) => Contains(s, x)
           /\ Contains(SubSeq(s, n + 1, Len(s)), x) => Contains(s, x)
           /\ Contains(s, x) => \/ Contains(SubSeq(s, 1, n), x)
                                \/ Contains(SubSeq(s, n + 1, Len(s)), x)
           /\ Once(s, x) => Once(SubSeq(s, 1, n), x)
<1> DEFINE a == SubSeq(s, 1, n)
           b == SubSeq(s, n + 1, Len(s))
<1>0. n \in Nat /\ Len(s) \in Nat /\ n <= Len(s)
  OBVIOUS
<1>1. a \in Seq(S) /\ Len(a) = n /\ \A i \in 1..n : a[i] = s[i] /\ i \in 1..Len(s)
  BY <1>0
<1>2. b \in Seq(S) /\ Len(b) = Len(s) - n
  BY <1>0
<1>3. \A i \in 1..(Len(s) - n) : b[i] = s[n + i] /\ n + i \in 1..Len(s)
  BY <1>0
<1>4. ASSUME Contains(s, x) PROVE Contains(a, x) \/ Contains(b, x)
  <2>1. PICK i \in 1..Len(s) : s[i] = x
    BY <1>4 DEF Contains
  <2>2. CASE i <= n
    <3>1. i \in 1..Len(a) /\ a[i] = x
      BY <1>0, <1>1, <2>1, <2>2
    <3>2. QED
      BY <3>1 DEF Contains
  <2>3. CASE ~(i <= n)
    <3>1. i - n \in 1..(Len(s) - n) /\ n + (i - n) = i
      BY <1>0, <2>3
    <3>2. i - n \in 1..Len(b) /\ b[i - n] = x
      BY <1>2, <1>3, <2>1, <3>1
    <3>3. QED
      BY <3>2 DEF Contains
  <2>4. QED
    BY <2>2, <2>3
<1> HIDE DEF a, b
<1>5. Contains(a, x) => Contains(s, x)
  BY <1>1 DEF Contains
<1>6. Contains(b, x) => Contains(s, x)
  BY <1>2, <1>3 DEF Contains
<1>7. Once(s, x) => Once(a, x)
  BY <1>1 DEF Once
<1>8. QED
  BY <1>1, <1>2, <1>4, <1>5, <1>6, <1>7 DEF a, b

-----------------------------------------------------------------------------
(***************************************************************************)
(* Types                                                                   *)
(***************************************************************************)

\* A cache that is gone is empty.
Emptied ==
    \A c \in Caches : ~live[c] =>
        ~spilled[c] /\ inMemory[c] = <<>> /\ pushed[c] = <<>>

\* What a file holds once it is opened.
LEMMA OpenedType == ASSUME TypeOK, NEW p \in Paths PROVE Opened(p) \in Seq(Records)
BY DEF TypeOK, Opened

\* What the fields of a cache become when it spills.
LEMMA SpillTypes ==
    ASSUME TypeOK, NEW c \in Caches, NEW records \in Seq(Records), NEW bytes \in Nat,
           SpillToDisk(c, records, bytes)
    PROVE  /\ file' \in [Paths -> Seq(Records) \cup {NoFile}]
           /\ spilled' \in [Caches -> BOOLEAN]
           /\ spilledBytes' \in [Caches -> Nat]
           /\ inMemory' \in [Caches -> Seq(Records)]
           /\ inMemoryBytes' \in [Caches -> Nat]
           /\ own' \in [Caches -> BOOLEAN]
<1>1. PathOf[c] \in Paths
  BY CacheAssumption
<1>2. Opened(PathOf[c]) \o records \in Seq(Records)
  BY <1>1, OpenedType
<1>3. file' \in [Paths -> Seq(Records) \cup {NoFile}]
  BY <1>2 DEF SpillToDisk, TypeOK
<1>4. Len(records) \in Nat
  OBVIOUS
<1>5. spilledBytes' \in [Caches -> Nat]
  BY <1>4 DEF SpillToDisk, TypeOK
<1>6. own' \in [Caches -> BOOLEAN]
  BY DEF SpillToDisk, Uses, TypeOK
<1>7. spilled' \in [Caches -> BOOLEAN]
  BY DEF SpillToDisk, TypeOK
<1>8. inMemory' \in [Caches -> Seq(Records)]
  <2>1. <<>> \in Seq(Records)
    OBVIOUS
  <2>2. QED
    BY <2>1 DEF SpillToDisk, TypeOK
<1>9. inMemoryBytes' \in [Caches -> Nat]
  BY DEF SpillToDisk, TypeOK
<1>10. QED
  BY <1>3, <1>5, <1>6, <1>7, <1>8, <1>9

\* What a cache gives back when its file is there.
LEMMA ContentsType ==
    ASSUME TypeOK, NEW c \in Caches, spilled[c] => file[PathOf[c]] # NoFile
    PROVE  Contents(c) \in Seq(Records)
<1>1. (IF spilled[c] THEN file[PathOf[c]] ELSE <<>>) \in Seq(Records)
  BY CacheAssumption DEF TypeOK
<1>2. inMemory[c] \in Seq(Records)
  BY DEF TypeOK
<1>3. QED
  BY <1>1, <1>2 DEF Contents

\* A set of the elements of a sequence of records.
LEMMA ToSetType == ASSUME NEW s \in Seq(Records) PROVE ToSet(s) \subseteq Records
BY DEF ToSet

\* A cache that goes keeps the types.
LEMMA GoneTypes ==
    ASSUME TypeOK, NEW c \in Caches, Gone(c)
    PROVE  /\ live' \in [Caches -> BOOLEAN] /\ inMemory' \in [Caches -> Seq(Records)]
           /\ inMemoryBytes' \in [Caches -> Nat] /\ spilled' \in [Caches -> BOOLEAN]
           /\ spilledBytes' \in [Caches -> Nat] /\ pushed' \in [Caches -> Seq(Records)]
BY DEF TypeOK, Gone

\* Every step keeps the types.
LEMMA CacheTypes == TypeOK /\ [Next]_vars => TypeOK'
<1> SUFFICES ASSUME TypeOK, [Next]_vars PROVE TypeOK'
  OBVIOUS
<1>1. ASSUME NEW c \in Caches, New(c) PROVE TypeOK'
  BY <1>1 DEF New, TypeOK
<1>2. ASSUME NEW c \in Caches, NEW r \in Records, Push(c, r) PROVE TypeOK'
  <2> DEFINE records == Append(inMemory[c], r)
             bytes == inMemoryBytes[c] + Size[r]
  <2>1. records \in Seq(Records) /\ bytes \in Nat
    BY CacheAssumption DEF TypeOK
  <2>2. /\ live' = live /\ out' = out /\ pushed' \in [Caches -> Seq(Records)]
        /\ used' \subseteq Records
        /\ returned' = returned /\ kept' = kept /\ dropped' = dropped
    BY <1>2 DEF Push, TypeOK
  <2>3. CASE TotalBytes(c, r) > Limit
    <3>1. SpillToDisk(c, records, bytes)
      BY <1>2, <2>3 DEF Push
    <3>2. QED
      BY <2>1, <2>2, <3>1, SpillTypes DEF TypeOK
  <2>4. CASE ~(TotalBytes(c, r) > Limit)
    <3>1. /\ inMemory' = [inMemory EXCEPT ![c] = records]
          /\ inMemoryBytes' = [inMemoryBytes EXCEPT ![c] = bytes]
          /\ spilled' = spilled /\ spilledBytes' = spilledBytes /\ file' = file
          /\ own' = own
      BY <1>2, <2>4 DEF Push
    <3> HIDE DEF records, bytes
    <3>2. QED
      BY <2>1, <2>2, <3>1 DEF TypeOK
  <2>5. QED
    BY <2>3, <2>4
<1>3. ASSUME NEW c \in Caches, NEW r \in Records, FailPush(c, r) PROVE TypeOK'
  <2> DEFINE records == Append(inMemory[c], r)
  <2>1. records \in Seq(Records) /\ PathOf[c] \in Paths
    BY CacheAssumption DEF TypeOK
  <2>2. /\ Gone(c) /\ out' = out /\ returned' = returned /\ kept' = kept
        /\ used' \subseteq Records
    BY <1>3 DEF FailPush, TypeOK
  <2>3. /\ file' \in [Paths -> Seq(Records) \cup {NoFile}]
        /\ own' \in [Caches -> BOOLEAN] /\ dropped' \subseteq Records
    <3>1. CASE dropped' = dropped \cup ToSet(records) /\ UNCHANGED <<file, own>>
      BY <2>1, <3>1, ToSetType DEF TypeOK
    <3>2. ASSUME NEW n \in 0..Len(records),
                 file' = [file EXCEPT ![PathOf[c]] =
                             Opened(PathOf[c]) \o SubSeq(records, 1, n)],
                 dropped' = dropped \cup ToSet(SubSeq(records, n + 1, Len(records))),
                 own' = Uses(c)
          PROVE  /\ file' \in [Paths -> Seq(Records) \cup {NoFile}]
                 /\ own' \in [Caches -> BOOLEAN] /\ dropped' \subseteq Records
      <4> HIDE DEF records
      <4>1. SubSeq(records, 1, n) \in Seq(Records) /\ SubSeq(records, n + 1, Len(records)) \in Seq(Records)
        BY <2>1, CutHas
      <4>2. Opened(PathOf[c]) \o SubSeq(records, 1, n) \in Seq(Records)
        BY <2>1, <4>1, OpenedType
      <4>3. file' \in [Paths -> Seq(Records) \cup {NoFile}]
        BY <3>2, <4>2 DEF TypeOK
      <4>4. ToSet(SubSeq(records, n + 1, Len(records))) \subseteq Records
        BY <4>1, ToSetType
      <4>5. dropped' \subseteq Records
        BY <3>2, <4>4 DEF TypeOK
      <4>6. own' \in [Caches -> BOOLEAN]
        BY <3>2 DEF Uses, TypeOK
      <4>7. QED
        BY <4>3, <4>5, <4>6
    <3>3. QED
      BY <1>3, <3>1, <3>2 DEF FailPush
  <2>4. QED
    BY <2>2, <2>3, GoneTypes DEF TypeOK
<1>4. ASSUME NEW c \in Caches, DrainAll(c) PROVE TypeOK'
  <2>1. Contents(c) \in Seq(Records)
    BY <1>4, ContentsType DEF DrainAll
  <2>2. /\ out' = [out EXCEPT ![c] = Contents(c)] /\ used' = used /\ dropped' = dropped
        /\ returned' = returned \cup ToSet(Contents(c)) /\ Gone(c)
    BY <1>4 DEF DrainAll
  <2>3. out' \in [Caches -> Seq(Records)] /\ returned' \subseteq Records
    BY <2>1, <2>2, ToSetType DEF TypeOK
  <2>4. file' \in [Paths -> Seq(Records) \cup {NoFile}]
    BY <1>4 DEF DrainAll, TypeOK
  <2>5. own' \in [Caches -> BOOLEAN]
    BY <1>4 DEF DrainAll, Uses, TypeOK
  <2>6. kept' \subseteq Records
    <3>1. CASE spilled[c]
      <4>1. file[PathOf[c]] \in Seq(Records)
        BY <1>4, <3>1, CacheAssumption DEF DrainAll, TypeOK
      <4>2. kept' = kept \/ kept' = kept \cup ToSet(file[PathOf[c]])
        BY <1>4, <3>1 DEF DrainAll
      <4>3. QED
        BY <4>1, <4>2, ToSetType DEF TypeOK
    <3>2. CASE ~spilled[c]
      BY <1>4, <3>2 DEF DrainAll, TypeOK
    <3>3. QED
      BY <3>1, <3>2
  <2>7. QED
    BY <2>2, <2>3, <2>4, <2>5, <2>6, GoneTypes DEF TypeOK
<1>5. ASSUME NEW c \in Caches, FailDrain(c) \/ Drop(c) PROVE TypeOK'
  <2>1. /\ dropped' = dropped \cup ToSet(inMemory[c]) /\ Gone(c)
        /\ UNCHANGED <<file, out, own, used, returned, kept>>
    BY <1>5 DEF FailDrain, Drop
  <2>2. ToSet(inMemory[c]) \subseteq Records
    BY ToSetType DEF TypeOK
  <2>3. QED
    BY <2>1, <2>2, GoneTypes DEF TypeOK
<1>6. CASE UNCHANGED vars
  BY <1>6 DEF vars, cacheVars, historyVars, TypeOK
<1>7. QED
  BY <1>1, <1>2, <1>3, <1>4, <1>5, <1>6 DEF Next

\* Every step leaves the caches that are gone empty.
LEMMA EmptiedStep == TypeOK /\ Emptied /\ [Next]_vars => Emptied'
<1> SUFFICES ASSUME TypeOK, Emptied, [Next]_vars PROVE Emptied'
  OBVIOUS
<1>1. ASSUME NEW c \in Caches, Gone(c) PROVE Emptied'
  BY <1>1 DEF Gone, Emptied, TypeOK
<1>2. ASSUME NEW c \in Caches, New(c) PROVE Emptied'
  BY <1>2 DEF New, Emptied, TypeOK
<1>3. ASSUME NEW c \in Caches, NEW r \in Records, Push(c, r) PROVE Emptied'
  <2>1. live' = live /\ live[c]
        /\ \A d \in Caches : d # c => /\ inMemory'[d] = inMemory[d]
                                      /\ spilled'[d] = spilled[d]
                                      /\ pushed'[d] = pushed[d]
    BY <1>3 DEF Push, SpillToDisk, TypeOK
  <2>2. QED
    BY <2>1 DEF Emptied
<1>4. CASE UNCHANGED vars
  BY <1>4 DEF vars, cacheVars, historyVars, Emptied
<1>5. QED
  BY <1>1, <1>2, <1>3, <1>4 DEF Next, FailPush, DrainAll, FailDrain, Drop

-----------------------------------------------------------------------------
(***************************************************************************)
(* Where records are                                                       *)
(***************************************************************************)

\* A record that is anywhere was pushed.
Known ==
    \A x : \/ \E c \in Caches : InCache(c, x)
           \/ \E p \in Paths : InFile(p, x)
           \/ x \in returned
           => x \in used

CacheInv == TypeOK /\ Emptied /\ Known

\* Opening a file that is not there finds nothing in it.
LEMMA OpenedHas ==
    ASSUME TypeOK, NEW p \in Paths, NEW x
    PROVE  /\ Contains(Opened(p), x) <=> InFile(p, x)
           /\ (InFile(p, x) => Once(file[p], x)) => Once(Opened(p), x)
<1>1. CASE file[p] = NoFile
  <2>1. Opened(p) = <<>> /\ ~InFile(p, x)
    BY <1>1 DEF Opened, InFile
  <2>2. Len(<<>>) = 0
    OBVIOUS
  <2>3. QED
    BY <2>1, <2>2 DEF Contains, Once
<1>2. CASE file[p] # NoFile
  <2>1. Opened(p) = file[p] /\ (InFile(p, x) <=> Contains(file[p], x))
    BY <1>2 DEF Opened, InFile
  <2>2. ~Contains(file[p], x) => Once(file[p], x)
    BY DEF Contains, Once
  <2>3. QED
    BY <2>1, <2>2
<1>3. QED
  BY <1>1, <1>2

\* A file to which records are appended.
LEMMA FileGrows ==
    ASSUME TypeOK, NEW p \in Paths, NEW records \in Seq(Records),
           file' = [file EXCEPT ![p] = Opened(p) \o records], NEW x
    PROVE  /\ InFile(p, x)' <=> InFile(p, x) \/ Contains(records, x)
           /\ \A q \in Paths : q # p => (InFile(q, x)' <=> InFile(q, x))
           /\ \A q \in Paths : q # p => file'[q] = file[q]
           /\ (InFile(p, x) => Once(file[p], x)) /\ Once(records, x)
              /\ ~(InFile(p, x) /\ Contains(records, x))
              => Once(file'[p], x)
<1>1. Opened(p) \in Seq(Records) /\ Opened(p) \o records \in Seq(Records)
  BY OpenedType
<1>2. /\ file'[p] = Opened(p) \o records /\ file'[p] # NoFile
      /\ \A q \in Paths : q # p => file'[q] = file[q]
  BY <1>1, CacheAssumption DEF TypeOK
<1>3. InFile(p, x)' <=> Contains(Opened(p) \o records, x)
  BY <1>2 DEF InFile
<1>4. Contains(Opened(p) \o records, x) <=> Contains(Opened(p), x) \/ Contains(records, x)
  BY <1>1, ConcatHas
<1>5. \A q \in Paths : q # p => (InFile(q, x)' <=> InFile(q, x))
  BY <1>2 DEF InFile
<1>6. ASSUME InFile(p, x) => Once(file[p], x), Once(records, x),
             ~(InFile(p, x) /\ Contains(records, x))
      PROVE  Once(file'[p], x)
  <2>1. Once(Opened(p), x) /\ ~(Contains(Opened(p), x) /\ Contains(records, x))
    BY <1>6, OpenedHas
  <2>2. Once(Opened(p) \o records, x)
    BY <1>1, <1>6, <2>1, ConcatOnce
  <2>3. QED
    BY <1>2, <2>2
<1>7. QED
  BY <1>2, <1>3, <1>4, <1>5, <1>6, OpenedHas

\* The cache that goes has nothing in memory, the others are as they were.
LEMMA GoneHas ==
    ASSUME TypeOK, NEW c \in Caches, Gone(c), NEW x
    PROVE  /\ ~InCache(c, x)'
           /\ \A d \in Caches : d # c =>
                  inMemory'[d] = inMemory[d] /\ (InCache(d, x)' <=> InCache(d, x))
<1>1. inMemory'[c] = <<>> /\ \A d \in Caches : d # c => inMemory'[d] = inMemory[d]
  BY DEF Gone, TypeOK
<1>2. Len(<<>>) = 0
  OBVIOUS
<1>3. QED
  BY <1>1, <1>2 DEF InCache, Contains

\* What a record's place is after each operation, in one lemma per operation.
\* A push puts it into memory, or moves the memory to the file.
LEMMA PushMoves ==
    ASSUME TypeOK, NEW c \in Caches, NEW r \in Records, Push(c, r), NEW x
    PROVE  \/ /\ InCache(c, x)' <=> InCache(c, x) \/ x = r
              /\ \A d \in Caches : d # c =>
                     inMemory'[d] = inMemory[d] /\ (InCache(d, x)' <=> InCache(d, x))
              /\ file' = file /\ \A p \in Paths : InFile(p, x)' <=> InFile(p, x)
              /\ Once(inMemory[c], x) /\ (x = r => ~InCache(c, x)) => Once(inMemory'[c], x)
           \/ /\ ~InCache(c, x)'
              /\ \A d \in Caches : d # c =>
                     inMemory'[d] = inMemory[d] /\ (InCache(d, x)' <=> InCache(d, x))
              /\ InFile(PathOf[c], x)' <=> InFile(PathOf[c], x) \/ InCache(c, x) \/ x = r
              /\ \A q \in Paths : q # PathOf[c] =>
                     file'[q] = file[q] /\ (InFile(q, x)' <=> InFile(q, x))
              /\ (InFile(PathOf[c], x) => Once(file[PathOf[c]], x))
                 /\ Once(inMemory[c], x) /\ (x = r => ~InCache(c, x))
                 /\ ~(InFile(PathOf[c], x) /\ (InCache(c, x) \/ x = r))
                 => Once(file'[PathOf[c]], x)
<1> DEFINE records == Append(inMemory[c], r)
           bytes == inMemoryBytes[c] + Size[r]
<1>1. inMemory[c] \in Seq(Records) /\ records \in Seq(Records) /\ PathOf[c] \in Paths
  BY CacheAssumption DEF TypeOK
<1>2. Contains(records, x) <=> InCache(c, x) \/ x = r
  BY <1>1, AppendHas DEF InCache
<1>3. Once(inMemory[c], x) /\ (x = r => ~InCache(c, x)) => Once(records, x)
  BY <1>1, AppendOnce DEF InCache
<1>4. CASE TotalBytes(c, r) > Limit
  <2>1. SpillToDisk(c, records, bytes)
    BY <1>4, Push(c, r) DEF Push
  <2>2. file' = [file EXCEPT ![PathOf[c]] = Opened(PathOf[c]) \o records]
    BY <2>1 DEF SpillToDisk
  <2>3. inMemory'[c] = <<>> /\ \A d \in Caches : d # c => inMemory'[d] = inMemory[d]
    BY <2>1 DEF SpillToDisk, TypeOK
  <2>4. ~InCache(c, x)' /\ \A d \in Caches : d # c => (InCache(d, x)' <=> InCache(d, x))
    <3>1. Len(<<>>) = 0
      OBVIOUS
    <3>2. QED
      BY <2>3, <3>1 DEF InCache, Contains
  <2> HIDE DEF records, bytes
  <2>5. /\ InFile(PathOf[c], x)' <=> InFile(PathOf[c], x) \/ Contains(records, x)
        /\ \A q \in Paths : q # PathOf[c] => (InFile(q, x)' <=> InFile(q, x))
        /\ \A q \in Paths : q # PathOf[c] => file'[q] = file[q]
        /\ (InFile(PathOf[c], x) => Once(file[PathOf[c]], x)) /\ Once(records, x)
           /\ ~(InFile(PathOf[c], x) /\ Contains(records, x))
           => Once(file'[PathOf[c]], x)
    BY <1>1, <2>2, FileGrows
  <2>6. QED
    BY <1>2, <1>3, <2>3, <2>4, <2>5
<1>5. CASE ~(TotalBytes(c, r) > Limit)
  <2>1. inMemory' = [inMemory EXCEPT ![c] = records] /\ file' = file
    BY <1>5, Push(c, r) DEF Push
  <2>2. inMemory'[c] = records /\ \A d \in Caches : d # c => inMemory'[d] = inMemory[d]
    BY <2>1 DEF TypeOK
  <2> HIDE DEF records
  <2>3. /\ InCache(c, x)' <=> Contains(records, x)
        /\ \A d \in Caches : d # c => (InCache(d, x)' <=> InCache(d, x))
        /\ \A p \in Paths : InFile(p, x)' <=> InFile(p, x)
    BY <2>1, <2>2 DEF InCache, InFile
  <2>4. QED
    BY <1>2, <1>3, <2>1, <2>2, <2>3
<1>6. QED
  BY <1>4, <1>5

\* A push that fails leaves some of the memory in the file, the rest is dropped.
LEMMA FailPushMoves ==
    ASSUME TypeOK, NEW c \in Caches, NEW r \in Records, FailPush(c, r), NEW x
    PROVE  LET p == PathOf[c]
           IN  /\ ~InCache(c, x)'
               /\ \A d \in Caches : d # c =>
                      inMemory'[d] = inMemory[d] /\ (InCache(d, x)' <=> InCache(d, x))
               /\ InFile(p, x) => InFile(p, x)'
               /\ InFile(p, x)' => InFile(p, x) \/ InCache(c, x) \/ x = r
               /\ \A q \in Paths : q # p =>
                      file'[q] = file[q] /\ (InFile(q, x)' <=> InFile(q, x))
               /\ InCache(c, x) \/ x = r => InFile(p, x)' \/ x \in dropped'
               /\ x \in dropped => x \in dropped'
               /\ (InFile(p, x) => Once(file[p], x))
                  /\ Once(inMemory[c], x) /\ (x = r => ~InCache(c, x))
                  /\ ~(InFile(p, x) /\ (InCache(c, x) \/ x = r))
                  => (InFile(p, x)' => Once(file'[p], x))
<1> DEFINE p == PathOf[c]
           records == Append(inMemory[c], r)
<1>1. inMemory[c] \in Seq(Records) /\ records \in Seq(Records) /\ p \in Paths
  BY CacheAssumption DEF TypeOK
<1>2. Contains(records, x) <=> InCache(c, x) \/ x = r
  BY <1>1, AppendHas DEF InCache
<1>3. Once(inMemory[c], x) /\ (x = r => ~InCache(c, x)) => Once(records, x)
  BY <1>1, AppendOnce DEF InCache
<1>4. /\ ~InCache(c, x)'
      /\ \A d \in Caches : d # c =>
             inMemory'[d] = inMemory[d] /\ (InCache(d, x)' <=> InCache(d, x))
  BY GoneHas, FailPush(c, r) DEF FailPush
<1>5. CASE dropped' = dropped \cup ToSet(records) /\ UNCHANGED <<file, own>>
  <2> HIDE DEF records, p
  <2>1. \A q \in Paths : InFile(q, x)' <=> InFile(q, x)
    BY <1>5 DEF InFile
  <2>2. Contains(records, x) => x \in dropped'
    BY <1>1, <1>5, ToSetHas
  <2>3. file' = file /\ (x \in dropped => x \in dropped')
    BY <1>5
  <2>4. QED
    BY <1>1, <1>2, <1>4, <2>1, <2>2, <2>3 DEF p
<1>6. ASSUME NEW n \in 0..Len(records),
             file' = [file EXCEPT ![p] = Opened(p) \o SubSeq(records, 1, n)],
             dropped' = dropped \cup ToSet(SubSeq(records, n + 1, Len(records)))
      PROVE  /\ InFile(p, x) => InFile(p, x)'
             /\ InFile(p, x)' => InFile(p, x) \/ InCache(c, x) \/ x = r
             /\ \A q \in Paths : q # p =>
                    file'[q] = file[q] /\ (InFile(q, x)' <=> InFile(q, x))
             /\ InCache(c, x) \/ x = r => InFile(p, x)' \/ x \in dropped'
             /\ x \in dropped => x \in dropped'
             /\ (InFile(p, x) => Once(file[p], x))
                /\ Once(inMemory[c], x) /\ (x = r => ~InCache(c, x))
                /\ ~(InFile(p, x) /\ (InCache(c, x) \/ x = r))
                => (InFile(p, x)' => Once(file'[p], x))
  <2> HIDE DEF records, p
  <2> DEFINE a == SubSeq(records, 1, n)
             b == SubSeq(records, n + 1, Len(records))
  <2>1. /\ a \in Seq(Records) /\ b \in Seq(Records)
        /\ Contains(a, x) => Contains(records, x)
        /\ Contains(records, x) => Contains(a, x) \/ Contains(b, x)
        /\ Once(records, x) => Once(a, x)
    BY <1>1, CutHas
  <2>2. file' = [file EXCEPT ![p] = Opened(p) \o a] /\ dropped' = dropped \cup ToSet(b)
    BY <1>6
  <2> HIDE DEF a, b
  <2>3. /\ InFile(p, x)' <=> InFile(p, x) \/ Contains(a, x)
        /\ \A q \in Paths : q # p => (InFile(q, x)' <=> InFile(q, x))
        /\ \A q \in Paths : q # p => file'[q] = file[q]
        /\ (InFile(p, x) => Once(file[p], x)) /\ Once(a, x)
           /\ ~(InFile(p, x) /\ Contains(a, x))
           => Once(file'[p], x)
    BY <1>1, <2>1, <2>2, FileGrows
  <2>4. Contains(b, x) => x \in dropped'
    BY <2>1, <2>2, ToSetHas
  <2>5. x \in dropped => x \in dropped'
    BY <2>2
  <2>6. QED
    BY <1>2, <1>3, <2>1, <2>3, <2>4, <2>5
<1>7. QED
  BY <1>4, <1>5, <1>6, FailPush(c, r) DEF FailPush

\* A drain returns the memory of its cache and all of the file, which is removed
\* unless what it holds is counted as kept.
LEMMA DrainMoves ==
    ASSUME TypeOK, NEW c \in Caches, DrainAll(c), NEW x
    PROVE  /\ ~InCache(c, x)'
           /\ \A d \in Caches : d # c =>
                  inMemory'[d] = inMemory[d] /\ (InCache(d, x)' <=> InCache(d, x))
           /\ \A q \in Paths : InFile(q, x)' => InFile(q, x) /\ file'[q] = file[q]
           /\ \A q \in Paths : InFile(q, x) => InFile(q, x)' \/ x \in returned'
           /\ InCache(c, x) => x \in returned'
           /\ x \in returned => x \in returned'
           /\ x \in returned' => \/ x \in returned \/ InCache(c, x)
                                 \/ InFile(PathOf[c], x)
           /\ x \in returned' /\ x \notin returned /\ ~InCache(c, x) /\ x \notin kept'
              => ~InFile(PathOf[c], x)'
           /\ x \in kept => x \in kept'
<1>1. PathOf[c] \in Paths /\ inMemory[c] \in Seq(Records)
  BY CacheAssumption DEF TypeOK
<1>2. /\ ~InCache(c, x)'
      /\ \A d \in Caches : d # c =>
             inMemory'[d] = inMemory[d] /\ (InCache(d, x)' <=> InCache(d, x))
  BY GoneHas, DrainAll(c) DEF DrainAll
<1>3. Contents(c) \in Seq(Records) /\ returned' = returned \cup ToSet(Contents(c))
  BY ContentsType, DrainAll(c) DEF DrainAll
<1>4. x \in returned' <=> x \in returned \/ Contains(Contents(c), x)
  BY <1>3, ToSetHas
<1>5. CASE spilled[c]
  <2>1. file[PathOf[c]] \in Seq(Records) /\ file[PathOf[c]] # NoFile
    BY <1>1, <1>5, DrainAll(c) DEF DrainAll, TypeOK
  <2>2. Contents(c) = file[PathOf[c]] \o inMemory[c]
    BY <1>5 DEF Contents
  <2>3. Contains(Contents(c), x) <=> InFile(PathOf[c], x) \/ InCache(c, x)
    BY <1>1, <2>1, <2>2, ConcatHas DEF InFile, InCache
  <2>4. CASE file' = [file EXCEPT ![PathOf[c]] = NoFile] /\ kept' = kept
    <3>1. /\ file'[PathOf[c]] = NoFile
          /\ \A q \in Paths : q # PathOf[c] => file'[q] = file[q]
      BY <1>1, <2>4 DEF TypeOK
    <3>2. /\ ~InFile(PathOf[c], x)'
          /\ \A q \in Paths : q # PathOf[c] => (InFile(q, x)' <=> InFile(q, x))
      BY <3>1 DEF InFile
    <3>3. QED
      BY <1>2, <1>4, <2>3, <2>4, <3>1, <3>2
  <2>5. CASE file' = file /\ kept' = kept \cup ToSet(file[PathOf[c]])
    <3>1. \A q \in Paths : InFile(q, x)' <=> InFile(q, x)
      BY <2>5 DEF InFile
    <3>2. InFile(PathOf[c], x) => x \in kept'
      BY <2>1, <2>5, ToSetHas DEF InFile
    <3>3. QED
      BY <1>1, <1>2, <1>4, <2>3, <2>5, <3>1, <3>2
  <2>6. QED
    BY <1>5, <2>4, <2>5, DrainAll(c) DEF DrainAll
<1>6. CASE ~spilled[c]
  <2>1. Contents(c) = inMemory[c]
    BY <1>1, <1>6 DEF Contents
  <2>2. Contains(Contents(c), x) <=> InCache(c, x)
    BY <2>1 DEF InCache
  <2>3. file' = file /\ kept' = kept
    BY <1>6, DrainAll(c) DEF DrainAll
  <2>4. \A q \in Paths : InFile(q, x)' <=> InFile(q, x)
    BY <2>3 DEF InFile
  <2>5. QED
    BY <1>2, <1>4, <2>2, <2>3, <2>4
<1>7. QED
  BY <1>5, <1>6

\* A cache that is dropped, or cannot be drained, loses its memory only.
LEMMA DropMoves ==
    ASSUME TypeOK, NEW c \in Caches, FailDrain(c) \/ Drop(c), NEW x
    PROVE  /\ ~InCache(c, x)'
           /\ \A d \in Caches : d # c =>
                  inMemory'[d] = inMemory[d] /\ (InCache(d, x)' <=> InCache(d, x))
           /\ file' = file /\ \A q \in Paths : InFile(q, x)' <=> InFile(q, x)
           /\ InCache(c, x) => x \in dropped'
           /\ x \in dropped => x \in dropped'
           /\ UNCHANGED <<used, returned, kept>>
<1>1. /\ Gone(c) /\ dropped' = dropped \cup ToSet(inMemory[c])
      /\ UNCHANGED <<file, used, returned, kept>>
  BY DEF FailDrain, Drop
<1>2. x \in ToSet(inMemory[c]) <=> InCache(c, x)
  BY ToSetHas DEF TypeOK, InCache
<1>3. \A q \in Paths : InFile(q, x)' <=> InFile(q, x)
  BY <1>1 DEF InFile
<1>4. QED
  BY <1>1, <1>2, <1>3, GoneHas

\* Every step keeps what is known of records.
LEMMA KnownStep == TypeOK /\ Known /\ [Next]_vars => Known'
<1> SUFFICES ASSUME TypeOK, Known, [Next]_vars PROVE Known'
  OBVIOUS
<1> SUFFICES ASSUME NEW x,
                    \/ (\E c \in Caches : InCache(c, x))'
                    \/ (\E p \in Paths : InFile(p, x))'
                    \/ (x \in returned)'
             PROVE  x \in used'
  BY DEF Known
<1>0. \/ \E c \in Caches : InCache(c, x)
      \/ \E p \in Paths : InFile(p, x)
      \/ x \in returned
      => x \in used
  BY DEF Known
<1>1. ASSUME NEW c \in Caches, New(c) PROVE x \in used'
  <2>1. inMemory' = inMemory /\ file' = file /\ returned' = returned /\ used' = used
    BY <1>1 DEF New
  <2>2. QED
    BY <1>0, <2>1 DEF InCache, InFile
<1>2. ASSUME NEW c \in Caches, NEW r \in Records, Push(c, r) PROVE x \in used'
  <2>1. used' = used \cup {r} /\ returned' = returned
    BY <1>2 DEF Push
  <2>2. (\E d \in Caches : InCache(d, x)') =>
            (\E d \in Caches : InCache(d, x)) \/ x = r
    BY <1>2, PushMoves
  <2>3. (\E p \in Paths : InFile(p, x)') =>
            (\E p \in Paths : InFile(p, x)) \/ (\E d \in Caches : InCache(d, x)) \/ x = r
    BY <1>2, PushMoves
  <2>4. QED
    BY <1>0, <2>1, <2>2, <2>3
<1>3. ASSUME NEW c \in Caches, NEW r \in Records, FailPush(c, r) PROVE x \in used'
  <2>1. used' = used \cup {r} /\ returned' = returned
    BY <1>3 DEF FailPush
  <2>2. (\E d \in Caches : InCache(d, x)') => \E d \in Caches : InCache(d, x)
    BY <1>3, FailPushMoves
  <2>3. (\E p \in Paths : InFile(p, x)') =>
            (\E p \in Paths : InFile(p, x)) \/ (\E d \in Caches : InCache(d, x)) \/ x = r
    BY <1>3, FailPushMoves
  <2>4. QED
    BY <1>0, <2>1, <2>2, <2>3
<1>4. ASSUME NEW c \in Caches, DrainAll(c) PROVE x \in used'
  <2>1. used' = used
    BY <1>4 DEF DrainAll
  <2>2. (\E d \in Caches : InCache(d, x)') => \E d \in Caches : InCache(d, x)
    BY <1>4, DrainMoves
  <2>3. (\E p \in Paths : InFile(p, x)') => \E p \in Paths : InFile(p, x)
    BY <1>4, DrainMoves
  <2>4. x \in returned' => \/ x \in returned \/ \E d \in Caches : InCache(d, x)
                           \/ \E p \in Paths : InFile(p, x)
    BY <1>4, DrainMoves, CacheAssumption
  <2>5. QED
    BY <1>0, <2>1, <2>2, <2>3, <2>4
<1>5. ASSUME NEW c \in Caches, FailDrain(c) \/ Drop(c) PROVE x \in used'
  <2>1. used' = used /\ returned' = returned
    BY <1>5, DropMoves
  <2>2. (\E d \in Caches : InCache(d, x)') => \E d \in Caches : InCache(d, x)
    BY <1>5, DropMoves
  <2>3. (\E p \in Paths : InFile(p, x)') => \E p \in Paths : InFile(p, x)
    BY <1>5, DropMoves
  <2>4. QED
    BY <1>0, <2>1, <2>2, <2>3
<1>6. CASE UNCHANGED vars
  <2>1. inMemory' = inMemory /\ file' = file /\ returned' = returned /\ used' = used
    BY <1>6 DEF vars, cacheVars, historyVars
  <2>2. QED
    BY <1>0, <2>1 DEF InCache, InFile
<1>7. QED
  BY <1>1, <1>2, <1>3, <1>4, <1>5, <1>6 DEF Next

\* The inductive invariant.
LEMMA CacheSafe == Spec => []CacheInv
<1>1. Init => CacheInv
  <2>1. Init => TypeOK /\ Emptied
    BY CacheAssumption DEF Init, TypeOK, Emptied
  <2>2. Init => Known
    <3>1. Len(<<>>) = 0
      OBVIOUS
    <3>2. QED
      BY <3>1 DEF Init, Known, InCache, InFile, Contains
  <2>3. QED
    BY <2>1, <2>2 DEF CacheInv
<1>2. CacheInv /\ [Next]_vars => CacheInv'
  BY CacheTypes, EmptiedStep, KnownStep DEF CacheInv
<1>3. QED
  BY <1>1, <1>2, PTL DEF Spec

\* The record is somewhere.
Somewhere(r) ==
    \/ \E c \in Caches : InCache(c, r)
    \/ \E p \in Paths : InFile(p, r)
    \/ r \in returned \cup dropped

\* Every step keeps every record.
LEMMA NothingLostStep == TypeOK /\ NothingLost /\ [Next]_vars => NothingLost'
<1> SUFFICES ASSUME TypeOK, NothingLost, [Next]_vars, NEW x \in used' PROVE Somewhere(x)'
  BY DEF NothingLost, Somewhere
<1>0. x \in used => Somewhere(x)
  BY DEF NothingLost, Somewhere
<1>1. ASSUME NEW c \in Caches, New(c) PROVE Somewhere(x)'
  <2>1. /\ inMemory' = inMemory /\ file' = file /\ returned' = returned /\ used' = used
        /\ dropped' = dropped
    BY <1>1 DEF New
  <2>2. QED
    BY <1>0, <2>1 DEF Somewhere, InCache, InFile
<1>2. ASSUME NEW c \in Caches, NEW r \in Records, Push(c, r) PROVE Somewhere(x)'
  <2>1. used' = used \cup {r} /\ returned' = returned /\ dropped' = dropped
    BY <1>2 DEF Push
  <2>2. (\E d \in Caches : InCache(d, x)) \/ x = r =>
            (\E d \in Caches : InCache(d, x)') \/ (\E p \in Paths : InFile(p, x)')
    BY <1>2, PushMoves, CacheAssumption
  <2>3. (\E p \in Paths : InFile(p, x)) => (\E p \in Paths : InFile(p, x)')
    BY <1>2, PushMoves, SMTT(30)
  <2>4. QED
    BY <1>0, <2>1, <2>2, <2>3 DEF Somewhere
<1>3. ASSUME NEW c \in Caches, NEW r \in Records, FailPush(c, r) PROVE Somewhere(x)'
  <2>1. used' = used \cup {r} /\ returned' = returned
    BY <1>3 DEF FailPush
  <2>2. x \in dropped => x \in dropped'
    BY <1>3, FailPushMoves
  <2>3. (\E d \in Caches : InCache(d, x)) \/ x = r =>
            \/ \E d \in Caches : InCache(d, x)'
            \/ \E p \in Paths : InFile(p, x)'
            \/ x \in dropped'
    BY <1>3, FailPushMoves, CacheAssumption
  <2>4. (\E p \in Paths : InFile(p, x)) => (\E p \in Paths : InFile(p, x)')
    BY <1>3, FailPushMoves
  <2>5. QED
    BY <1>0, <2>1, <2>2, <2>3, <2>4 DEF Somewhere
<1>4. ASSUME NEW c \in Caches, DrainAll(c) PROVE Somewhere(x)'
  <2>1. used' = used /\ dropped' = dropped
    BY <1>4 DEF DrainAll
  <2>2. (\E d \in Caches : InCache(d, x)) =>
            (\E d \in Caches : InCache(d, x)') \/ x \in returned'
    BY <1>4, DrainMoves
  <2>3. (\E p \in Paths : InFile(p, x)) =>
            (\E p \in Paths : InFile(p, x)') \/ x \in returned'
    BY <1>4, DrainMoves
  <2>4. x \in returned => x \in returned'
    BY <1>4, DrainMoves
  <2>5. QED
    BY <1>0, <2>1, <2>2, <2>3, <2>4 DEF Somewhere
<1>5. ASSUME NEW c \in Caches, FailDrain(c) \/ Drop(c) PROVE Somewhere(x)'
  <2>1. used' = used /\ returned' = returned /\ (x \in dropped => x \in dropped')
    BY <1>5, DropMoves
  <2>2. (\E d \in Caches : InCache(d, x)) =>
            (\E d \in Caches : InCache(d, x)') \/ x \in dropped'
    BY <1>5, DropMoves
  <2>3. (\E p \in Paths : InFile(p, x)) => (\E p \in Paths : InFile(p, x)')
    BY <1>5, DropMoves
  <2>4. QED
    BY <1>0, <2>1, <2>2, <2>3 DEF Somewhere
<1>6. CASE UNCHANGED vars
  <2>1. /\ inMemory' = inMemory /\ file' = file /\ returned' = returned /\ used' = used
        /\ dropped' = dropped
    BY <1>6 DEF vars, cacheVars, historyVars
  <2>2. QED
    BY <1>0, <2>1 DEF Somewhere, InCache, InFile
<1>7. QED
  BY <1>1, <1>2, <1>3, <1>4, <1>5, <1>6 DEF Next

\* Whatever caches share files, and whichever are dropped or fail, a record that
\* was pushed is in memory, in a file, returned, or dropped with a memory.
THEOREM NoRecordLost == Spec => []NothingLost
<1>1. Init => NothingLost
  BY DEF Init, NothingLost
<1>2. CacheInv /\ NothingLost /\ [Next]_vars => NothingLost'
  BY NothingLostStep DEF CacheInv
<1>3. QED
  BY <1>1, <1>2, CacheSafe, PTL DEF Spec

\* What NothingTwice says of one record: in a cache, and in a file.
CachedOnce(r) ==
    \A c \in Caches : InCache(c, r) =>
        /\ r \notin returned /\ Once(inMemory[c], r)
        /\ \A d \in Caches : InCache(d, r) => c = d
        /\ \A p \in Paths : ~InFile(p, r)
FiledOnce(r) ==
    \A p \in Paths : InFile(p, r) =>
        /\ r \notin returned /\ Once(file[p], r)
        /\ \A q \in Paths : InFile(q, r) => p = q

\* A cache that does not contain a record has it at most once.
LEMMA AbsentOnce == ASSUME NEW s, NEW x, ~Contains(s, x) PROVE Once(s, x)
BY DEF Contains, Once

\* Every step keeps records in one place.
LEMMA NothingTwiceStep == CacheInv /\ NothingTwice /\ [Next]_vars => NothingTwice'
<1> SUFFICES ASSUME CacheInv, NothingTwice, [Next]_vars, NEW x \in Records, x \notin kept'
             PROVE  (CachedOnce(x) /\ FiledOnce(x))'
  BY DEF NothingTwice, CachedOnce, FiledOnce
<1> USE DEF CacheInv
<1>0. x \notin kept => CachedOnce(x) /\ FiledOnce(x)
  BY DEF NothingTwice, CachedOnce, FiledOnce
<1>00. \/ \E c \in Caches : InCache(c, x)
       \/ \E p \in Paths : InFile(p, x)
       \/ x \in returned
       => x \in used
  BY DEF Known
<1>1. ASSUME NEW c \in Caches, New(c) PROVE (CachedOnce(x) /\ FiledOnce(x))'
  <2>1. /\ inMemory' = inMemory /\ file' = file /\ returned' = returned /\ kept' = kept
    BY <1>1 DEF New
  <2>2. QED
    BY <1>0, <2>1 DEF CachedOnce, FiledOnce, InCache, InFile
<1>2. ASSUME NEW c \in Caches, NEW r \in Records, Push(c, r)
      PROVE  (CachedOnce(x) /\ FiledOnce(x))'
  <2>1. r \notin used /\ returned' = returned /\ kept' = kept /\ PathOf[c] \in Paths
    BY <1>2, CacheAssumption DEF Push
  <2>2. CachedOnce(x) /\ FiledOnce(x)
    BY <1>0, <2>1
  <2>3. x = r => /\ \A d \in Caches : ~InCache(d, x)
                 /\ \A p \in Paths : ~InFile(p, x)
                 /\ x \notin returned
    BY <1>00, <2>1
  <2>4. Once(inMemory[c], x) /\ (InFile(PathOf[c], x) => Once(file[PathOf[c]], x))
    BY <2>1, <2>2, AbsentOnce DEF CachedOnce, FiledOnce, InCache
  <2>5. CachedOnce(x)'
    BY <1>2, <2>1, <2>2, <2>3, <2>4, PushMoves DEF CachedOnce
  <2>6. FiledOnce(x)'
    BY <1>2, <2>1, <2>2, <2>3, <2>4, PushMoves DEF CachedOnce, FiledOnce
  <2>7. QED
    BY <2>5, <2>6
<1>3. ASSUME NEW c \in Caches, NEW r \in Records, FailPush(c, r)
      PROVE  (CachedOnce(x) /\ FiledOnce(x))'
  <2>1. r \notin used /\ returned' = returned /\ kept' = kept /\ PathOf[c] \in Paths
    BY <1>3, CacheAssumption DEF FailPush
  <2>2. CachedOnce(x) /\ FiledOnce(x)
    BY <1>0, <2>1
  <2>3. x = r => /\ \A d \in Caches : ~InCache(d, x)
                 /\ \A p \in Paths : ~InFile(p, x)
                 /\ x \notin returned
    BY <1>00, <2>1
  <2>4. Once(inMemory[c], x) /\ (InFile(PathOf[c], x) => Once(file[PathOf[c]], x))
    BY <2>1, <2>2, AbsentOnce DEF CachedOnce, FiledOnce, InCache
  <2>5. CachedOnce(x)'
    BY <1>3, <2>1, <2>2, <2>3, <2>4, FailPushMoves DEF CachedOnce
  <2>6. FiledOnce(x)'
    BY <1>3, <2>1, <2>2, <2>3, <2>4, FailPushMoves DEF CachedOnce, FiledOnce
  <2>7. QED
    BY <2>5, <2>6
<1>4. ASSUME NEW c \in Caches, DrainAll(c) PROVE (CachedOnce(x) /\ FiledOnce(x))'
  <2>1. PathOf[c] \in Paths
    BY CacheAssumption
  <2>2. x \notin kept
    BY <1>4, DrainMoves
  <2>3. CachedOnce(x) /\ FiledOnce(x)
    BY <1>0, <2>2
  <2>4. CachedOnce(x)'
    BY <1>4, <2>1, <2>3, DrainMoves DEF CachedOnce
  <2>5. FiledOnce(x)'
    BY <1>4, <2>1, <2>3, DrainMoves DEF CachedOnce, FiledOnce
  <2>6. QED
    BY <2>4, <2>5
<1>5. ASSUME NEW c \in Caches, FailDrain(c) \/ Drop(c)
      PROVE  (CachedOnce(x) /\ FiledOnce(x))'
  <2>1. /\ ~InCache(c, x)'
        /\ \A d \in Caches : d # c =>
               inMemory'[d] = inMemory[d] /\ (InCache(d, x)' <=> InCache(d, x))
        /\ file' = file /\ \A q \in Paths : InFile(q, x)' <=> InFile(q, x)
        /\ returned' = returned /\ kept' = kept
    BY <1>5, DropMoves
  <2>2. CachedOnce(x) /\ FiledOnce(x)
    BY <1>0, <2>1
  <2>3. QED
    BY <2>1, <2>2 DEF CachedOnce, FiledOnce
<1>6. CASE UNCHANGED vars
  <2>1. inMemory' = inMemory /\ file' = file /\ returned' = returned /\ kept' = kept
    BY <1>6 DEF vars, cacheVars, historyVars
  <2>2. QED
    BY <1>0, <2>1 DEF CachedOnce, FiledOnce, InCache, InFile
<1>7. QED
  BY <1>1, <1>2, <1>3, <1>4, <1>5, <1>6 DEF Next

\* No record is returned twice unless its file could not be removed, however
\* many caches spill to that file.
THEOREM NoRecordTwice == Spec => []NothingTwice
<1>1. Init => NothingTwice
  <2>1. Len(<<>>) = 0
    OBVIOUS
  <2>2. QED
    BY <2>1 DEF Init, NothingTwice, InCache, InFile, Contains
<1>2. CacheInv /\ NothingTwice /\ [Next]_vars => NothingTwice'
  BY NothingTwiceStep
<1>3. QED
  BY <1>1, <1>2, CacheSafe, PTL DEF Spec

-----------------------------------------------------------------------------
(***************************************************************************)
(* Caches with a file of their own                                         *)
(***************************************************************************)

\* Such a cache finds its file, and what it holds is what was pushed into it.
OwnOK ==
    \A c \in Caches : live[c] /\ own[c] =>
        /\ spilled[c] => file[PathOf[c]] # NoFile
        /\ Contents(c) = pushed[c]

\* A cache nobody touched: neither its fields, nor its file if it needs one.
LEMMA Untouched ==
    ASSUME OwnOK, NEW d \in Caches, live'[d] => live[d], own'[d] => own[d],
           spilled'[d] = spilled[d], inMemory'[d] = inMemory[d], pushed'[d] = pushed[d],
           own'[d] /\ spilled[d] => file'[PathOf[d]] = file[PathOf[d]]
    PROVE  live'[d] /\ own'[d] =>
               /\ spilled'[d] => file'[PathOf[d]] # NoFile
               /\ Contents(d)' = pushed'[d]
BY DEF OwnOK, Contents

\* The empty sequence adds nothing.
LEMMA NothingAtEnd == ASSUME NEW S, NEW s \in Seq(S) PROVE s \o <<>> = s /\ <<>> \o s = s
OBVIOUS

\* A push adds its record at the end of what such a cache holds.
LEMMA OwnPush ==
    ASSUME CacheInv, OwnOK, NEW c \in Caches, NEW r \in Records, Push(c, r), own'[c]
    PROVE  /\ spilled'[c] => file'[PathOf[c]] # NoFile
           /\ Contents(c)' = pushed'[c]
<1> DEFINE stored == IF spilled[c] THEN file[PathOf[c]] ELSE <<>>
           records == Append(inMemory[c], r)
           bytes == inMemoryBytes[c] + Size[r]
<1> USE DEF CacheInv
<1>1. PathOf[c] \in Paths /\ inMemory[c] \in Seq(Records) /\ records \in Seq(Records)
  BY CacheAssumption DEF TypeOK
<1>2. live[c] /\ pushed'[c] = Append(pushed[c], r)
  BY Push(c, r) DEF Push, TypeOK
<1>3. ASSUME own[c]
      PROVE  /\ stored \in Seq(Records) /\ stored \o records = pushed'[c]
             /\ spilled[c] => stored = file[PathOf[c]] /\ stored # NoFile
  <2>1. Contents(c) = pushed[c] /\ (spilled[c] => file[PathOf[c]] # NoFile)
    BY <1>2, <1>3 DEF OwnOK
  <2>2. stored \in Seq(Records)
    BY <1>1, <2>1 DEF TypeOK
  <2>3. Contents(c) = stored \o inMemory[c]
    BY DEF Contents
  <2>4. stored \o Append(inMemory[c], r) = Append(stored \o inMemory[c], r)
    <3> HIDE DEF stored
    <3>1. QED
      BY <1>1, <2>2, SMTT(30)
  <2>5. stored \o records = pushed'[c]
    BY <1>2, <2>1, <2>3, <2>4
  <2>6. spilled[c] => stored = file[PathOf[c]] /\ stored # NoFile
    BY <2>1
  <2>7. QED
    BY <2>2, <2>5, <2>6
<1>4. CASE TotalBytes(c, r) > Limit
  <2>1. SpillToDisk(c, records, bytes)
    BY <1>4, Push(c, r) DEF Push
  <2>2. own'[c] = (own[c] /\ (spilled[c] \/ file[PathOf[c]] = NoFile))
    BY <2>1 DEF SpillToDisk, Uses
  <2>3. own[c] /\ (spilled[c] \/ file[PathOf[c]] = NoFile)
    BY <2>2
  <2>4. Opened(PathOf[c]) = stored
    BY <1>3, <2>3 DEF Opened
  <2>5. /\ file'[PathOf[c]] = stored \o records /\ inMemory'[c] = <<>> /\ spilled'[c]
    BY <1>1, <2>1, <2>4 DEF SpillToDisk, TypeOK
  <2>6. stored \o records \in Seq(Records)
    BY <1>1, <1>3, <2>3
  <2> HIDE DEF stored, records
  <2>7. Contents(c)' = stored \o records
    BY <2>5, <2>6, NothingAtEnd DEF Contents
  <2>8. QED
    BY <1>3, <2>3, <2>5, <2>6, <2>7, CacheAssumption
<1>5. CASE ~(TotalBytes(c, r) > Limit)
  <2>1. /\ inMemory' = [inMemory EXCEPT ![c] = records] /\ own' = own
        /\ spilled' = spilled /\ file' = file
    BY <1>5, Push(c, r) DEF Push
  <2>2. inMemory'[c] = records
    BY <2>1 DEF TypeOK
  <2>3. Contents(c)' = stored \o records
    BY <2>1, <2>2 DEF Contents
  <2>4. QED
    BY <1>3, <2>1, <2>3
<1>6. QED
  BY <1>4, <1>5

\* Every step keeps what is said of caches with a file of their own.
LEMMA OwnStep == CacheInv /\ OwnOK /\ [Next]_vars => OwnOK'
<1> SUFFICES ASSUME CacheInv, OwnOK, [Next]_vars, NEW d \in Caches
             PROVE  live'[d] /\ own'[d] =>
                        /\ spilled'[d] => file'[PathOf[d]] # NoFile
                        /\ Contents(d)' = pushed'[d]
  BY DEF OwnOK
<1> USE DEF CacheInv
<1>0. PathOf \in [Caches -> Paths]
  BY CacheAssumption
<1>1. ASSUME NEW c \in Caches, New(c)
      PROVE  live'[d] /\ own'[d] =>
                 /\ spilled'[d] => file'[PathOf[d]] # NoFile
                 /\ Contents(d)' = pushed'[d]
  <2>1. /\ spilled' = spilled /\ inMemory' = inMemory /\ pushed' = pushed /\ file' = file
        /\ d # c => live'[d] = live[d] /\ own'[d] = own[d]
    BY <1>1 DEF New, TypeOK
  <2>2. CASE d = c
    <3>1. ~spilled[c] /\ inMemory[c] = <<>> /\ pushed[c] = <<>>
      BY <1>1 DEF New, Emptied
    <3>2. <<>> \o <<>> = <<>>
      OBVIOUS
    <3>3. QED
      BY <2>1, <2>2, <3>1, <3>2 DEF Contents
  <2>3. CASE d # c
    BY <2>1, <2>3, Untouched
  <2>4. QED
    BY <2>2, <2>3
<1>2. ASSUME NEW c \in Caches, NEW r \in Records, Push(c, r)
      PROVE  live'[d] /\ own'[d] =>
                 /\ spilled'[d] => file'[PathOf[d]] # NoFile
                 /\ Contents(d)' = pushed'[d]
  <2>1. CASE d = c
    BY <1>2, <2>1, OwnPush
  <2>2. CASE d # c
    <3>1. /\ live' = live /\ spilled'[d] = spilled[d] /\ inMemory'[d] = inMemory[d]
          /\ pushed'[d] = pushed[d]
      BY <1>2, <2>2 DEF Push, SpillToDisk, TypeOK
    <3>2. /\ own'[d] => own[d]
          /\ own'[d] /\ spilled[d] => file'[PathOf[d]] = file[PathOf[d]]
      <4>1. CASE file' = file /\ own' = own
        BY <4>1
      <4>2. ASSUME NEW s, file' = [file EXCEPT ![PathOf[c]] = s], own' = Uses(c)
            PROVE  /\ own'[d] => own[d]
                   /\ own'[d] /\ spilled[d] => file'[PathOf[d]] = file[PathOf[d]]
        BY <1>0, <2>2, <4>2 DEF Uses, TypeOK
      <4>3. QED
        BY <1>2, <4>1, <4>2 DEF Push, SpillToDisk
    <3>3. QED
      BY <3>1, <3>2, Untouched
  <2>3. QED
    BY <2>1, <2>2
<1>3. ASSUME NEW c \in Caches, Gone(c), d # c /\ own'[d] => own[d],
             d # c /\ own'[d] /\ spilled[d] => file'[PathOf[d]] = file[PathOf[d]]
      PROVE  live'[d] /\ own'[d] =>
                 /\ spilled'[d] => file'[PathOf[d]] # NoFile
                 /\ Contents(d)' = pushed'[d]
  <2>1. CASE d = c
    BY <1>3, <2>1 DEF Gone, TypeOK
  <2>2. CASE d # c
    <3>1. /\ live'[d] = live[d] /\ spilled'[d] = spilled[d] /\ inMemory'[d] = inMemory[d]
          /\ pushed'[d] = pushed[d]
      BY <1>3, <2>2 DEF Gone, TypeOK
    <3>2. QED
      BY <1>3, <2>2, <3>1, Untouched
  <2>3. QED
    BY <2>1, <2>2
<1>4. ASSUME NEW c \in Caches, NEW r \in Records, FailPush(c, r)
      PROVE  /\ Gone(c) /\ (d # c /\ own'[d] => own[d])
             /\ d # c /\ own'[d] /\ spilled[d] => file'[PathOf[d]] = file[PathOf[d]]
  <2>1. CASE UNCHANGED <<file, own>>
    BY <1>4, <2>1 DEF FailPush
  <2>2. ASSUME NEW s, file' = [file EXCEPT ![PathOf[c]] = s], own' = Uses(c)
        PROVE  /\ d # c /\ own'[d] => own[d]
               /\ d # c /\ own'[d] /\ spilled[d] => file'[PathOf[d]] = file[PathOf[d]]
    BY <1>0, <2>2 DEF Uses, TypeOK
  <2>3. QED
    BY <1>4, <2>1, <2>2 DEF FailPush
<1>5. ASSUME NEW c \in Caches, DrainAll(c)
      PROVE  /\ Gone(c) /\ (d # c /\ own'[d] => own[d])
             /\ d # c /\ own'[d] /\ spilled[d] => file'[PathOf[d]] = file[PathOf[d]]
  BY <1>0, <1>5 DEF DrainAll, Uses, TypeOK
<1>6. ASSUME NEW c \in Caches, FailDrain(c) \/ Drop(c)
      PROVE  /\ Gone(c) /\ (d # c /\ own'[d] => own[d])
             /\ d # c /\ own'[d] /\ spilled[d] => file'[PathOf[d]] = file[PathOf[d]]
  BY <1>6 DEF FailDrain, Drop
<1>7. CASE UNCHANGED vars
  BY <1>7, Untouched DEF vars, cacheVars, historyVars
<1>8. QED
  BY <1>1, <1>2, <1>3, <1>4, <1>5, <1>6, <1>7 DEF Next

\* What is read from a file was pushed by somebody.
LEMMA ContentsUsed ==
    ASSUME CacheInv, NEW c \in Caches, spilled[c] => file[PathOf[c]] # NoFile
    PROVE  Contents(c) \in Seq(used)
<1> USE DEF CacheInv
<1>1. Contents(c) \in Seq(Records)
  BY ContentsType
<1>2. ASSUME NEW i \in 1..Len(Contents(c)) PROVE Contents(c)[i] \in used
  <2> DEFINE x == Contents(c)[i]
             stored == IF spilled[c] THEN file[PathOf[c]] ELSE <<>>
  <2>1. PathOf[c] \in Paths /\ inMemory[c] \in Seq(Records) /\ stored \in Seq(Records)
    BY CacheAssumption DEF TypeOK
  <2>2. Contains(Contents(c), x)
    BY DEF Contains
  <2>3. Contents(c) = stored \o inMemory[c]
    BY DEF Contents
  <2> HIDE DEF x, stored, CacheInv
  <2>4. Contains(stored, x) \/ Contains(inMemory[c], x)
    <3>1. Contains(stored \o inMemory[c], x)
      BY <2>2, <2>3
    <3>2. Contains(stored \o inMemory[c], x) <=> Contains(stored, x) \/ Contains(inMemory[c], x)
      BY <2>1, ConcatHas
    <3>3. QED
      BY <3>1, <3>2
  <2>5. Contains(stored, x) => InFile(PathOf[c], x)
    <3> USE DEF stored
    <3>1. CASE spilled[c]
      BY <3>1 DEF InFile
    <3>2. CASE ~spilled[c]
      <4>1. Len(<<>>) = 0
        OBVIOUS
      <4>2. QED
        BY <3>2, <4>1 DEF Contains
    <3>3. QED
      BY <3>1, <3>2
  <2>6. x \in used
    BY <2>1, <2>4, <2>5 DEF Known, InCache, CacheInv
  <2>7. QED
    BY <2>6 DEF x
<1>3. QED
  <2> DEFINE s == Contents(c)
  <2>1. s \in [1..Len(s) -> Records] /\ Len(s) \in Nat
    BY <1>1
  <2>2. s \in [1..Len(s) -> used]
    BY <1>2, <2>1
  <2> HIDE DEF s
  <2>3. s \in Seq(used)
    BY <2>1, <2>2
  <2>4. QED
    BY <2>3 DEF s

\* Caches implement record buffers: as long as a cache has its file to itself,
\* every record comes out once, in the order it went in, whatever its size and
\* the limit, and whatever the caches with other files do.
THEOREM CachesAreBuffers == Spec => BufferSpec
<1> DEFINE bufVars == <<pushed, out, own, used>>
<1>1. Init => Buffer!Init
  BY DEF Init, Buffer!Init
<1>2. CacheInv /\ OwnOK /\ [Next]_vars => [Buffer!Next]_bufVars
  <2> SUFFICES ASSUME CacheInv, OwnOK, [Next]_vars PROVE [Buffer!Next]_bufVars
    OBVIOUS
  <2> USE DEF CacheInv
  <2>0. ASSUME NEW c \in Caches, own' = Uses(c) \/ own' = own PROVE Buffer!Shared
    BY <2>0 DEF Buffer!Shared, Uses
  <2>1. ASSUME NEW c \in Caches, New(c) PROVE Buffer!Renew(c)
    BY <2>1 DEF New, Buffer!Renew, Emptied
  <2>2. ASSUME NEW c \in Caches, NEW r \in Records, Push(c, r) PROVE Buffer!Push(c, r)
    <3>1. own' = Uses(c) \/ own' = own
      BY <2>2 DEF Push, SpillToDisk
    <3>2. QED
      BY <2>0, <2>2, <3>1 DEF Push, Buffer!Push
  <2>3. ASSUME NEW c \in Caches, NEW r \in Records, FailPush(c, r) PROVE Buffer!Drop(c)
    <3>1. own' = Uses(c) \/ own' = own
      BY <2>3 DEF FailPush
    <3>2. /\ pushed' = [pushed EXCEPT ![c] = <<>>] /\ used' = used \cup {r} /\ out' = out
      BY <2>3 DEF FailPush, Gone
    <3>3. QED
      BY <2>0, <3>1, <3>2 DEF Buffer!Drop, TypeOK
  <2>4. ASSUME NEW c \in Caches, DrainAll(c) PROVE Buffer!Drain(c)
    <3>1. own' = Uses(c) \/ own' = own
      BY <2>4 DEF DrainAll
    <3>2. live[c] /\ (spilled[c] => file[PathOf[c]] # NoFile)
      BY <2>4 DEF DrainAll
    <3>3. Contents(c) \in Seq(used) /\ (own[c] => Contents(c) = pushed[c])
      BY <3>2, ContentsUsed DEF OwnOK
    <3>4. out' = [out EXCEPT ![c] = Contents(c)] /\ out'[c] = Contents(c)
      BY <2>4 DEF DrainAll, TypeOK
    <3>5. pushed' = [pushed EXCEPT ![c] = <<>>] /\ used' = used
      BY <2>4 DEF DrainAll, Gone
    <3>6. QED
      BY <2>0, <3>1, <3>3, <3>4, <3>5 DEF Buffer!Drain
  <2>5. ASSUME NEW c \in Caches, FailDrain(c) \/ Drop(c) PROVE Buffer!Drop(c)
    <3>1. /\ pushed' = [pushed EXCEPT ![c] = <<>>] /\ used' = used /\ out' = out
          /\ own' = own
      BY <2>5 DEF FailDrain, Drop, Gone
    <3>2. QED
      BY <2>0, <3>1 DEF Buffer!Drop, TypeOK
  <2>6. CASE UNCHANGED vars
    BY <2>6 DEF vars, cacheVars, historyVars
  <2>7. QED
    BY <2>1, <2>2, <2>3, <2>4, <2>5, <2>6 DEF Next, Buffer!Next
<1>3. Init => OwnOK
  <2>1. <<>> \o <<>> = <<>>
    OBVIOUS
  <2>2. QED
    BY <2>1 DEF Init, OwnOK, Contents
<1>4. Spec => [](CacheInv /\ OwnOK)
  BY <1>3, OwnStep, CacheSafe, PTL DEF Spec
<1>5. QED
  BY <1>1, <1>2, <1>4, PTL DEF Spec, BufferSpec, Buffer!Spec

-----------------------------------------------------------------------------
(***************************************************************************)
(* The limit                                                               *)
(***************************************************************************)

\* Every step keeps the bound.
LEMMA BoundStep == CacheInv /\ MemoryBounded /\ [Next]_vars => MemoryBounded'
<1> SUFFICES ASSUME CacheInv, MemoryBounded, [Next]_vars PROVE MemoryBounded'
  OBVIOUS
<1> USE CacheAssumption DEF CacheInv, TypeOK, MemoryBounded
<1>1. ASSUME NEW c \in Caches, New(c) PROVE MemoryBounded'
  BY <1>1 DEF New
<1>2. ASSUME NEW c \in Caches, NEW r \in Records, Push(c, r) PROVE MemoryBounded'
  <2> DEFINE records == Append(inMemory[c], r)
             bytes == inMemoryBytes[c] + Size[r]
  <2>1. Len(records) \in Nat /\ bytes \in Nat
    OBVIOUS
  <2>2. TotalBytes(c, r) = spilledBytes[c] + bytes
    BY DEF TotalBytes
  <2>3. CASE TotalBytes(c, r) > Limit
    <3>1. SpillToDisk(c, records, bytes)
      BY <1>2, <2>3 DEF Push
    <3>2. QED
      <4> HIDE DEF records, bytes
      <4>1. QED
        BY <2>1, <2>2, <2>3, <3>1 DEF SpillToDisk
  <2>4. CASE ~(TotalBytes(c, r) > Limit)
    <3>1. /\ inMemory' = [inMemory EXCEPT ![c] = records]
          /\ inMemoryBytes' = [inMemoryBytes EXCEPT ![c] = bytes]
          /\ UNCHANGED <<spilled, spilledBytes>>
      BY <1>2, <2>4 DEF Push
    <3>2. QED
      <4> HIDE DEF records, bytes
      <4>1. QED
        BY <2>1, <2>2, <2>4, <3>1, SMTT(30)
  <2>5. QED
    BY <2>3, <2>4
<1>3. ASSUME NEW c \in Caches, Gone(c) PROVE MemoryBounded'
  BY <1>3 DEF Gone
<1>4. CASE UNCHANGED vars
  BY <1>4 DEF vars, cacheVars
<1>5. QED
  BY <1>1, <1>2, <1>3, <1>4 DEF Next, FailPush, DrainAll, FailDrain, Drop

\* Memory stays within the limit, and after the first spill nothing is kept in
\* it: spilled bytes count towards the limit.
THEOREM MemoryIsBounded == Spec => []MemoryBounded
<1>1. Init => MemoryBounded
  BY CacheAssumption DEF Init, MemoryBounded
<1>2. CacheInv /\ MemoryBounded /\ [Next]_vars => MemoryBounded'
  BY BoundStep
<1>3. QED
  BY <1>1, <1>2, CacheSafe, PTL DEF Spec

=============================================================================
