--------------------------- MODULE PipelineProofs ---------------------------
(***************************************************************************)
(* Theorems about modules Dag and Pipeline, for any finite graph, any      *)
(* order of the HashMap and any number of partitions: the plan has every   *)
(* operator once and, when the graph has an order, after those that feed   *)
(* it; the data follow the graph.                                          *)
(***************************************************************************)
EXTENDS Pipeline, SequenceLemmas

-----------------------------------------------------------------------------
\* What planning keeps in its variables.
Phases == {"Validate", "Rejected", "NoTasks", "Count", "Order", "Inject", "Execute",
           "Write", "Done", "Failed"}

PlanTypeOK ==
    /\ edges \subseteq Ids \X Ids /\ op \in [Nodes -> Kinds] /\ phase \in Phases
    /\ incoming \in [Ids -> Nat] /\ queue \in Seq(Ids) /\ ordered \in Seq(Ids)
    /\ next \in Nat \ {0} /\ plan \in Seq(PlanIds)

Output == {ordered[k] : k \in 1..Len(ordered)}
Queued == {queue[k] : k \in 1..Len(queue)}

\* No id is output twice, or queued once it is output.
OutputOnce ==
    /\ \A a, b \in 1..Len(ordered) : ordered[a] = ordered[b] => a = b
    /\ \A a, b \in 1..Len(queue) : queue[a] = queue[b] => a = b
    /\ Queued \cap Output = {}

\* The counters of the while loop, which ends before the for loop starts: an id
\* waits for those of its parents that are not output, and is queued when there
\* are none.
CountersOK ==
    phase = "Order" =>
        /\ next > 1 => queue = <<>>
        /\ next = 1 => \A c \in Ids : incoming[c] = Cardinality(Parents(c) \ Output)
        /\ next = 1 => \A c \in Output \cup Queued : Parents(c) \subseteq Output
        /\ next = 1 \/ WellFormed =>
              \A c \in Nodes : Parents(c) \subseteq Output => c \in Output \cup Queued

\* In a well-formed graph an id is output after its parents.
OutputSorted ==
    WellFormed =>
        \A k \in 1..Len(ordered) :
            \A p \in Parents(ordered[k]) : \E j \in 1..(k - 1) : ordered[j] = p

\* How far the for loop over the nodes has come.
NodesOutput ==
    /\ phase = "Order" => /\ next <= Len(NodeSeq)
                          /\ \A k \in 1..(next - 1) : NodeSeq[k] \in Output
    /\ phase \in {"Inject", "Execute", "Write", "Done", "Failed"} => Nodes \subseteq Output

\* What is empty before a loop starts, and where it is while it runs.
LoopsOK ==
    /\ phase \in {"Validate", "Rejected", "NoTasks", "Count", "Order"} => plan = <<>>
    /\ phase \in {"Validate", "Rejected", "NoTasks", "Count"} =>
          ordered = <<>> /\ queue = <<>> /\ next = 1
    /\ phase \notin {"Validate", "Rejected", "NoTasks"} => Nodes # {}
    /\ Planned => next = Len(ordered) + 1
    /\ phase = "Inject" => next <= Len(ordered)

\* How far inject_local_shuffle has come: the plan has the nodes among the ids
\* it has gone through, once each, after their parents if the graph has an order,
\* and does not end in a shuffle it has put in.
PlanSound ==
    phase \in {"Inject", "Execute", "Write", "Done", "Failed"} =>
        /\ \A n \in Nodes : (\E k \in 1..Len(plan) : plan[k] = n)
                               <=> (\E j \in 1..(next - 1) : ordered[j] = n)
        /\ \A a, b \in 1..Len(plan) : plan[a] \in Nodes /\ plan[a] = plan[b] => a = b
        /\ plan # <<>> => plan[Len(plan)] \in Nodes
        /\ WellFormed => \A b \in 1..Len(plan) :
                            \A p \in Parents(plan[b]) : \E a \in 1..(b - 1) : plan[a] = p

PlanInv ==
    /\ PlanTypeOK /\ OutputOnce /\ CountersOK /\ OutputSorted /\ NodesOutput /\ LoopsOK
    /\ PlanSound

-----------------------------------------------------------------------------
\* Parents and children, read off the edges.
LEMMA ParentsIds ==
    ASSUME edges \subseteq Ids \X Ids
    PROVE  /\ \A id, p : p \in Parents(id) <=> <<p, id>> \in edges
           /\ \A id, c : c \in Children(id) <=> <<id, c>> \in edges
           /\ \A id : Parents(id) \subseteq Ids /\ Children(id) \subseteq Ids
           /\ \A id : IsFiniteSet(Parents(id))
<1>1. ASSUME NEW id, NEW p PROVE p \in Parents(id) <=> <<p, id>> \in edges
  <2>1. ASSUME p \in Parents(id) PROVE <<p, id>> \in edges
    <3>1. PICK e \in edges : e[2] = id /\ p = e[1]
      BY <2>1 DEF Parents
    <3>2. QED
      BY <3>1
  <2>2. ASSUME <<p, id>> \in edges PROVE p \in Parents(id)
    BY <2>2 DEF Parents
  <2>3. QED
    BY <2>1, <2>2
<1>2. ASSUME NEW id, NEW c PROVE c \in Children(id) <=> <<id, c>> \in edges
  <2>1. ASSUME c \in Children(id) PROVE <<id, c>> \in edges
    <3>1. PICK e \in edges : e[1] = id /\ c = e[2]
      BY <2>1 DEF Children
    <3>2. QED
      BY <3>1
  <2>2. ASSUME <<id, c>> \in edges PROVE c \in Children(id)
    BY <2>2 DEF Children
  <2>3. QED
    BY <2>1, <2>2
<1>3. ASSUME NEW id PROVE Parents(id) \subseteq Ids /\ Children(id) \subseteq Ids
  <2>1. ASSUME NEW p \in Parents(id) PROVE p \in Ids
    <3>1. <<p, id>> \in edges
      BY <1>1
    <3>2. QED
      BY <3>1
  <2>2. ASSUME NEW c \in Children(id) PROVE c \in Ids
    <3>1. <<id, c>> \in edges
      BY <1>2
    <3>2. QED
      BY <3>1
  <2>3. QED
    BY <2>1, <2>2
<1>4. ASSUME NEW id PROVE IsFiniteSet(Parents(id))
  BY <1>3, DagAssumption, FS_Subset
<1>5. QED
  BY <1>1, <1>2, <1>3, <1>4

\* The nodes are the entries of NodeSeq; an injected shuffle is none.
LEMMA NodesAreIds ==
    /\ Nodes \subseteq Ids
    /\ \A n \in Nodes : \E k \in 1..Len(NodeSeq) : NodeSeq[k] = n
    /\ \A k \in 1..Len(NodeSeq) : NodeSeq[k] \in Nodes
    /\ \A n \in Nodes : Injected(n) \notin Nodes
  BY DagAssumption DEF Nodes, ToSet

\* The graph does not change while a job is planned.
LEMMA GraphSame ==
    ASSUME edges' = edges
    PROVE  /\ \A id : Parents(id)' = Parents(id)
           /\ WellFormed' <=> WellFormed
  BY DEF Parents, WellFormed, Acyclic

\* An enumeration of a finite set has each of its members, once.
LEMMA Enumerations ==
    ASSUME NEW S, IsFiniteSet(S), NEW q \in SetToSeqs(S)
    PROVE  /\ q \in Seq(S)
           /\ \A a, b \in 1..Len(q) : q[a] = q[b] => a = b
           /\ \A x \in S : \E k \in 1..Len(q) : q[k] = x
<1> DEFINE n == Cardinality(S)
<1>1. n \in Nat
  BY FS_CardinalityType
<1>2. q \in [1..n -> S] /\ \A a, b \in 1..n : a # b => q[a] # q[b]
  BY DEF SetToSeqs
<1> HIDE DEF n
<1>3. q \in Seq(S) /\ Len(q) = n
  BY <1>1, <1>2
<1>4. q \in Injection(1..n, S)
  BY <1>2 DEF Injection, IsInjective
<1>5. IsFiniteSet(1..n) /\ Cardinality(1..n) = n
  <2>1. 1 \in Int /\ n \in Int
    BY <1>1
  <2>2. QED
    BY <1>1, <2>1, FS_Interval
<1>6. q \in Surjection(1..n, S)
  BY <1>4, <1>5, FS_Injection DEF n
<1>7. QED
  BY <1>2, <1>3, <1>6 DEF Surjection

\* A queue whose head is taken and to which more is added.
LEMMA Requeued ==
    ASSUME NEW T, NEW q \in Seq(T), q # <<>>, NEW r \in Seq(T)
    PROVE  /\ Head(q) = q[1] /\ 1 \in 1..Len(q) /\ q[1] \in T
           /\ Tail(q) \o r \in Seq(T)
           /\ Len(Tail(q) \o r) = Len(q) - 1 + Len(r)
           /\ \A k \in 1..Len(Tail(q) \o r) :
                 (Tail(q) \o r)[k] = IF k < Len(q) THEN q[k + 1] ELSE r[k - Len(q) + 1]
<1>1. Len(q) \in Nat /\ Len(q) > 0 /\ Len(r) \in Nat
  BY EmptySeq
<1>2. Tail(q) \in Seq(T) /\ Len(Tail(q)) = Len(q) - 1
      /\ \A k \in 1..(Len(q) - 1) : Tail(q)[k] = q[k + 1]
  BY <1>1
<1>3. /\ Tail(q) \o r \in Seq(T)
      /\ Len(Tail(q) \o r) = Len(q) - 1 + Len(r)
      /\ \A k \in 1..(Len(q) - 1 + Len(r)) :
            (Tail(q) \o r)[k] = IF k <= Len(q) - 1 THEN Tail(q)[k] ELSE r[k - (Len(q) - 1)]
  BY <1>1, <1>2, ConcatProperties
<1>4. QED
  BY <1>1, <1>2, <1>3

\* What a turn of the while loop does to output, queue and counters.
LEMMA PopStep ==
    ASSUME PlanInv, PopFront
    PROVE  /\ next = 1 /\ queue # <<>>
           /\ queue[1] \in Queued /\ queue[1] \in Ids /\ queue[1] \notin Output
           /\ Parents(queue[1]) \subseteq Output
           /\ ordered' = Append(ordered, queue[1])
           /\ Output' = Output \cup {queue[1]}
           /\ \A c \in Ids : incoming'[c] = Cardinality(Parents(c) \ Output')
           /\ incoming' \in [Ids -> Nat]
           /\ \E ready \in SetToSeqs({c \in Children(queue[1]) : Parents(c) \subseteq Output'}) :
                 queue' = Tail(queue) \o ready
<1> DEFINE id == queue[1]
           left(c) == IF incoming[c] = 0 THEN 0 ELSE incoming[c] - 1
<1>1. /\ queue \in Seq(Ids) /\ ordered \in Seq(Ids) /\ edges \subseteq Ids \X Ids
      /\ incoming \in [Ids -> Nat] /\ next \in Nat \ {0} /\ phase = "Order" /\ queue # <<>>
  BY DEF PlanInv, PlanTypeOK, PopFront
<1>2. Head(queue) = id /\ 1 \in 1..Len(queue) /\ id \in Ids
  BY <1>1, Requeued
<1>3. next = 1
  BY <1>1 DEF PlanInv, CountersOK
<1>4. id \in Queued /\ id \notin Output
  BY <1>2 DEF PlanInv, OutputOnce, Queued
<1>5. Parents(id) \subseteq Output
  BY <1>1, <1>3, <1>4 DEF PlanInv, CountersOK
<1>6. ordered' = Append(ordered, id)
  BY <1>2 DEF PopFront
<1>7. /\ Len(ordered') = Len(ordered) + 1 /\ Len(ordered) \in Nat
      /\ \A k \in 1..Len(ordered) : ordered'[k] = ordered[k]
      /\ ordered'[Len(ordered) + 1] = id
  BY <1>1, <1>2, <1>6
<1>8. Output' = Output \cup {id}
  BY <1>7 DEF Output
<1>9. ASSUME NEW c \in Ids
      PROVE  /\ Cardinality(Parents(c) \ Output') \in Nat
             /\ c \in Children(id) => left(c) = Cardinality(Parents(c) \ Output')
             /\ c \notin Children(id) => incoming[c] = Cardinality(Parents(c) \ Output')
  <2> DEFINE P == Parents(c) \ Output
  <2>1. IsFiniteSet(P) /\ incoming[c] = Cardinality(P) /\ Cardinality(P) \in Nat
    <3>1. IsFiniteSet(Parents(c)) /\ P \in SUBSET Parents(c)
      BY <1>1, ParentsIds
    <3>2. IsFiniteSet(P)
      BY <3>1, FS_Subset
    <3>3. QED
      BY <1>1, <1>3, <3>2, FS_CardinalityType DEF PlanInv, CountersOK
  <2>2. c \in Children(id) <=> id \in P
    BY <1>1, <1>4, ParentsIds
  <2>3. Parents(c) \ Output' = P \ {id}
    BY <1>8
  <2>4. Cardinality(P \ {id}) = IF id \in P THEN Cardinality(P) - 1 ELSE Cardinality(P)
    BY <2>1, FS_RemoveElement
  <2>5. id \in P => Cardinality(P) # 0
    BY <2>1, FS_EmptySet
  <2> HIDE DEF P
  <2>6. CASE id \in P
    <3>1. c \in Children(id) /\ Cardinality(P \ {id}) = Cardinality(P) - 1
      BY <2>2, <2>4, <2>6
    <3>2. left(c) = Cardinality(P) - 1 /\ left(c) \in Nat
      BY <2>1, <2>5, <2>6
    <3>3. QED
      BY <2>3, <3>1, <3>2
  <2>7. CASE id \notin P
    <3>1. c \notin Children(id) /\ Cardinality(P \ {id}) = Cardinality(P)
      BY <2>2, <2>4, <2>7
    <3>2. QED
      BY <2>1, <2>3, <3>1
  <2>8. QED
    BY <2>6, <2>7
<1>10. incoming' = [c \in Ids |-> IF c \in Children(id) THEN left(c) ELSE incoming[c]]
  BY <1>2 DEF PopFront
<1>11. \A c \in Ids : incoming'[c] = Cardinality(Parents(c) \ Output')
  BY <1>9, <1>10
<1>12. incoming' \in [Ids -> Nat]
  BY <1>1, <1>10
<1>13. {c \in Children(id) : left(c) = 0} = {c \in Children(id) : Parents(c) \subseteq Output'}
  <2>1. ASSUME NEW c \in Children(id) PROVE left(c) = 0 <=> Parents(c) \subseteq Output'
    <3>1. c \in Ids
      BY <1>1, ParentsIds
    <3>2. IsFiniteSet(Parents(c) \ Output')
      <4>1. IsFiniteSet(Parents(c)) /\ (Parents(c) \ Output') \in SUBSET Parents(c)
        BY <1>1, ParentsIds
      <4>2. QED
        BY <4>1, FS_Subset
    <3>3. left(c) = Cardinality(Parents(c) \ Output')
      BY <1>9, <3>1
    <3>4. Cardinality(Parents(c) \ Output') = 0 <=> Parents(c) \ Output' = {}
      BY <3>2, FS_EmptySet
    <3> HIDE DEF left
    <3>5. QED
      BY <3>3, <3>4
  <2> HIDE DEF left
  <2>2. QED
    BY <2>1
<1>14. \E ready \in SetToSeqs({c \in Children(id) : left(c) = 0}) : queue' = Tail(queue) \o ready
  BY <1>2 DEF PopFront
<1>15. QED
  BY <1>1, <1>3, <1>2, <1>4, <1>5, <1>6, <1>8, <1>11, <1>12, <1>13, <1>14

\* A turn of the while loop of ordered_nodes keeps the invariant.
LEMMA PlanPop ==
    ASSUME PlanInv, PopFront
    PROVE  PlanInv'
<1> DEFINE id == queue[1]
           R == {c \in Children(id) : Parents(c) \subseteq Output'}
<1>1. /\ queue \in Seq(Ids) /\ ordered \in Seq(Ids) /\ edges \subseteq Ids \X Ids
      /\ phase = "Order" /\ queue # <<>> /\ next = 1 /\ plan = <<>>
  BY PopStep DEF PlanInv, PlanTypeOK, PopFront, LoopsOK
<1>2. UNCHANGED <<edges, op, phase, next, plan>>
  BY DEF PopFront
<1>3. /\ id \in Queued /\ id \in Ids /\ id \notin Output /\ Parents(id) \subseteq Output
      /\ ordered' = Append(ordered, id) /\ Output' = Output \cup {id}
      /\ incoming' \in [Ids -> Nat]
      /\ \A c \in Ids : incoming'[c] = Cardinality(Parents(c) \ Output')
  BY PopStep
<1>4. PICK ready \in SetToSeqs(R) : queue' = Tail(queue) \o ready
  BY PopStep
<1>5. IsFiniteSet(R) /\ R \subseteq Ids
  <2>1. R \subseteq Ids
    BY <1>1, ParentsIds
  <2>2. QED
    BY <2>1, DagAssumption, FS_Subset
<1>6. \A c : c \in R <=> c \in Ids /\ id \in Parents(c) /\ Parents(c) \subseteq Output'
  BY <1>1, ParentsIds
<1> HIDE DEF R
<1>7. /\ ready \in Seq(R) /\ ready \in Seq(Ids)
      /\ \A a, b \in 1..Len(ready) : ready[a] = ready[b] => a = b
      /\ \A x \in R : \E k \in 1..Len(ready) : ready[k] = x
  <2>1. /\ ready \in Seq(R)
        /\ \A a, b \in 1..Len(ready) : ready[a] = ready[b] => a = b
        /\ \A x \in R : \E k \in 1..Len(ready) : ready[k] = x
    BY <1>4, <1>5, Enumerations
  <2>2. ready \in Seq(Ids)
    BY <1>5, <2>1, SeqMonotonic
  <2>3. QED
    BY <2>1, <2>2
<1>8. /\ queue' \in Seq(Ids) /\ Len(queue') = Len(queue) - 1 + Len(ready)
      /\ Len(queue) \in Nat /\ Len(ready) \in Nat /\ Len(queue) > 0
      /\ \A k \in 1..Len(queue') :
            queue'[k] = IF k < Len(queue) THEN queue[k + 1] ELSE ready[k - Len(queue) + 1]
  BY <1>1, <1>4, <1>7, Requeued, EmptySeq
<1>9. \A a, b \in 1..Len(queue) : queue[a] = queue[b] => a = b
  BY DEF PlanInv, OutputOnce
<1>10. \A k \in 1..Len(ready) : ready[k] \in R
  BY <1>7
<1>11. \A c \in R : c \notin Output /\ c \notin Queued /\ c # id
  BY <1>1, <1>3, <1>6 DEF PlanInv, CountersOK
<1>12. Queued' = (Queued \ {id}) \cup R
  <2>1. ASSUME NEW c \in Queued' PROVE c \in (Queued \ {id}) \cup R
    <3>1. PICK k \in 1..Len(queue') : queue'[k] = c
      BY DEF Queued
    <3>2. CASE k < Len(queue)
      BY SMTT(30), <1>8, <1>9, <3>1, <3>2 DEF Queued
    <3>3. CASE ~(k < Len(queue))
      BY <1>8, <1>10, <3>1, <3>3
    <3>4. QED
      BY <3>2, <3>3
  <2>2. ASSUME NEW c \in Queued, c # id PROVE c \in Queued'
    <3>1. PICK k \in 1..Len(queue) : queue[k] = c
      BY DEF Queued
    <3>2. k - 1 \in 1..Len(queue') /\ k - 1 < Len(queue) /\ (k - 1) + 1 = k
      BY <1>8, <2>2, <3>1
    <3>3. queue'[k - 1] = c
      BY <1>8, <3>1, <3>2
    <3>4. QED
      BY <3>2, <3>3 DEF Queued
  <2>3. ASSUME NEW c \in R PROVE c \in Queued'
    <3>1. PICK k \in 1..Len(ready) : ready[k] = c
      BY <1>7
    <3>2. LET m == k + Len(queue) - 1
          IN  m \in 1..Len(queue') /\ ~(m < Len(queue)) /\ m - Len(queue) + 1 = k
      BY <1>8, <3>1
    <3>3. queue'[k + Len(queue) - 1] = c
      BY <1>8, <3>1, <3>2
    <3>4. QED
      BY <3>2, <3>3 DEF Queued
  <2>4. QED
    BY <2>1, <2>2, <2>3
<1>13. \A c : Parents(c)' = Parents(c)
  BY <1>2, GraphSame
<1>14. PlanTypeOK'
  BY <1>2, <1>3, <1>8, <1>1, AppendProperties DEF PlanInv, PlanTypeOK
<1>15. OutputOnce'
  <2>1. /\ Len(ordered') = Len(ordered) + 1 /\ Len(ordered) \in Nat
        /\ \A k \in 1..Len(ordered) : ordered'[k] = ordered[k]
        /\ ordered'[Len(ordered) + 1] = id
    BY <1>1, <1>3
  <2>2. \A a, b \in 1..Len(ordered') : ordered'[a] = ordered'[b] => a = b
    BY <1>3, <2>1 DEF PlanInv, OutputOnce, Output
  <2>3. \A a, b \in 1..Len(queue') : queue'[a] = queue'[b] => a = b
    <3> SUFFICES ASSUME NEW a \in 1..Len(queue'), NEW b \in 1..Len(queue'),
                        queue'[a] = queue'[b]
                 PROVE  a = b
      OBVIOUS
    <3>1. CASE a < Len(queue) /\ b < Len(queue)
      <4>1. /\ a + 1 \in 1..Len(queue) /\ queue'[a] = queue[a + 1]
            /\ b + 1 \in 1..Len(queue) /\ queue'[b] = queue[b + 1]
        BY <1>8, <3>1
      <4>2. a + 1 = b + 1
        BY <1>9, <4>1
      <4>3. QED
        BY <1>8, <4>2
    <3>2. CASE ~(a < Len(queue)) /\ ~(b < Len(queue))
      <4>1. /\ a - Len(queue) + 1 \in 1..Len(ready) /\ b - Len(queue) + 1 \in 1..Len(ready)
            /\ ready[a - Len(queue) + 1] = ready[b - Len(queue) + 1]
        BY SMTT(30), <1>8, <3>2
      <4>2. a - Len(queue) + 1 = b - Len(queue) + 1
        BY <1>7, <4>1
      <4>3. QED
        BY <1>8, <4>2
    <3>3. ASSUME NEW x \in 1..Len(queue'), NEW y \in 1..Len(queue'),
                 x < Len(queue), ~(y < Len(queue))
          PROVE  queue'[x] # queue'[y]
      <4>1. queue'[x] \in Queued
        <5>1. x + 1 \in 1..Len(queue) /\ queue'[x] = queue[x + 1]
          BY <1>8, <3>3
        <5>2. QED
          BY <5>1 DEF Queued
      <4>2. queue'[y] \in R
        <5>1. y - Len(queue) + 1 \in 1..Len(ready) /\ queue'[y] = ready[y - Len(queue) + 1]
          BY <1>8, <3>3
        <5>2. QED
          BY <1>10, <5>1
      <4>3. QED
        BY <1>11, <4>1, <4>2
    <3>4. QED
      BY <1>8, <3>1, <3>2, <3>3
  <2>4. Queued' \cap Output' = {}
    BY <1>3, <1>11, <1>12 DEF PlanInv, OutputOnce
  <2>5. QED
    BY <2>2, <2>3, <2>4 DEF OutputOnce
<1>16. CountersOK'
  <2>1. \A c \in Output' \cup Queued' : Parents(c) \subseteq Output'
    BY <1>1, <1>3, <1>6, <1>12 DEF PlanInv, CountersOK
  <2>2. ASSUME NEW c \in Nodes, Parents(c) \subseteq Output' PROVE c \in Output' \cup Queued'
    <3>1. CASE id \in Parents(c)
      BY <1>6, <1>12, <2>2, <3>1, NodesAreIds
    <3>2. CASE id \notin Parents(c)
      BY <1>1, <1>3, <1>12, <2>2, <3>2 DEF PlanInv, CountersOK
    <3>3. QED
      BY <3>1, <3>2
  <2>3. \A c \in Ids : incoming'[c] = Cardinality(Parents(c)' \ Output')
    BY <1>3, <1>13
  <2>4. \A c \in Output' \cup Queued' : Parents(c)' \subseteq Output'
    BY <1>13, <2>1
  <2>5. \A c \in Nodes : Parents(c)' \subseteq Output' => c \in Output' \cup Queued'
    BY <1>13, <2>2
  <2>6. next' = 1
    BY <1>1, <1>2
  <2>7. QED
    BY <2>3, <2>4, <2>5, <2>6 DEF CountersOK
<1>17. OutputSorted'
  <2>1. /\ Len(ordered') = Len(ordered) + 1 /\ Len(ordered) \in Nat
        /\ \A k \in 1..Len(ordered) : ordered'[k] = ordered[k]
        /\ ordered'[Len(ordered) + 1] = id
    BY <1>1, <1>3
  <2> SUFFICES ASSUME WellFormed, NEW k \in 1..Len(ordered')
               PROVE  \A p \in Parents(ordered'[k]) : \E j \in 1..(k - 1) : ordered'[j] = p
    BY <1>2, <1>13, GraphSame DEF OutputSorted
  <2>2. CASE k \in 1..Len(ordered)
    <3>1. \A j \in 1..(k - 1) : j \in 1..Len(ordered) /\ ordered'[j] = ordered[j]
      BY <2>1, <2>2
    <3>2. \A p \in Parents(ordered[k]) : \E j \in 1..(k - 1) : ordered[j] = p
      BY <2>2 DEF PlanInv, OutputSorted
    <3>3. QED
      BY <2>1, <2>2, <3>1, <3>2
  <2>3. CASE k = Len(ordered) + 1
    BY <1>3, <2>1, <2>3 DEF Output
  <2>4. QED
    BY <2>1, <2>2, <2>3
<1>18. NodesOutput' /\ LoopsOK' /\ PlanSound'
  BY <1>1, <1>2 DEF PlanInv, NodesOutput, LoopsOK, PlanSound, Planned
<1>19. QED
  BY <1>14, <1>15, <1>16, <1>17, <1>18 DEF PlanInv

\* Before validation there is no plan.
LEMMA PlanInit ==
    ASSUME Init
    PROVE  PlanInv
<1>1. /\ edges \subseteq Ids \X Ids /\ op \in [Nodes -> Kinds] /\ phase = "Validate"
      /\ incoming \in [Ids -> Nat] /\ queue = <<>> /\ ordered = <<>> /\ plan = <<>> /\ next = 1
  BY DEF Init, DagInit
<1>2. PlanTypeOK
  BY <1>1 DEF PlanTypeOK, Phases
<1>3. OutputOnce /\ OutputSorted
  BY <1>1 DEF OutputOnce, OutputSorted, Output, Queued
<1>4. QED
  BY <1>1, <1>2, <1>3 DEF PlanInv, CountersOK, NodesOutput, LoopsOK, PlanSound, Planned

\* validate and read_source change the phase only.
LEMMA PlanValidate ==
    ASSUME PlanInv, Validate
    PROVE  PlanInv'
<1>1. /\ phase = "Validate" /\ phase' \in {"Rejected", "NoTasks", "Count"}
      /\ UNCHANGED <<edges, op, incoming, queue, ordered, next, plan>>
  BY DEF Validate
<1>2. PlanTypeOK'
  BY <1>1 DEF PlanInv, PlanTypeOK, Phases
<1>3. OutputOnce'
  <2>1. Output' = Output /\ Queued' = Queued
    BY <1>1 DEF Output, Queued
  <2>2. QED
    BY <1>1, <2>1 DEF PlanInv, OutputOnce
<1>4. OutputSorted'
  BY <1>1 DEF PlanInv, LoopsOK, OutputSorted
<1>5. phase' = "Count" => Nodes # {}
  BY DEF Validate, HasSource
<1>6. QED
  BY <1>1, <1>2, <1>3, <1>4, <1>5 DEF PlanInv, CountersOK, NodesOutput, LoopsOK, PlanSound, Planned

\* Without edges the order of insertion is good.
LEMMA PlanCountNone ==
    ASSUME PlanInv, CountIncoming, edges = {}
    PROVE  PlanInv'
<1>1. /\ phase = "Count" /\ phase' = "Inject" /\ ordered' = NodeSeq
      /\ UNCHANGED <<edges, op, incoming, queue, next, plan>>
  BY DEF CountIncoming
<1>2. queue = <<>> /\ next = 1 /\ plan = <<>>
  BY <1>1 DEF PlanInv, LoopsOK
<1>3. PlanTypeOK'
  BY <1>1, DagAssumption DEF PlanInv, PlanTypeOK, Phases
<1>4. OutputOnce'
  BY <1>1, <1>2, DagAssumption DEF OutputOnce, Output, Queued
<1>5. OutputSorted'
  <2>1. \A id : Parents(id)' = {}
    BY <1>1 DEF Parents
  <2>2. QED
    BY <2>1 DEF OutputSorted
<1>6. NodesOutput'
  BY <1>1, NodesAreIds DEF NodesOutput, Output
<1>7. LoopsOK'
  <2>1. PICK n \in Nodes : TRUE
    BY <1>1 DEF PlanInv, LoopsOK
  <2>2. Len(NodeSeq) \in Nat /\ 1 <= Len(NodeSeq)
    BY <2>1, NodesAreIds, DagAssumption
  <2>3. QED
    BY <1>1, <1>2, <2>1, <2>2 DEF LoopsOK, Planned
<1>8. PlanSound'
  BY <1>1, <1>2 DEF PlanSound
<1>9. QED
  BY <1>1, <1>3, <1>4, <1>5, <1>6, <1>7, <1>8 DEF PlanInv, CountersOK

\* With edges the queue starts with the ids that have no parents.
LEMMA PlanCountSome ==
    ASSUME PlanInv, CountIncoming, edges # {}
    PROVE  PlanInv'
<1> DEFINE M == Nodes \cup {e[2] : e \in edges}
           Free == {id \in M : incoming'[id] = 0}
<1>1. /\ phase = "Count" /\ phase' = "Order"
      /\ incoming' = [id \in Ids |-> Cardinality(Parents(id))]
      /\ queue' \in SetToSeqs(Free)
      /\ UNCHANGED <<edges, op, ordered, next, plan>>
  BY DEF CountIncoming
<1>2. ordered = <<>> /\ next = 1 /\ plan = <<>> /\ edges \subseteq Ids \X Ids
  BY <1>1 DEF PlanInv, LoopsOK, PlanTypeOK
<1>3. M \subseteq Ids
  BY <1>2, NodesAreIds
<1>4. ASSUME NEW id \in Ids
      PROVE  Cardinality(Parents(id)) \in Nat /\ (incoming'[id] = 0 <=> Parents(id) = {})
  <2>1. IsFiniteSet(Parents(id))
    BY <1>2, ParentsIds
  <2>2. QED
    BY <1>1, <2>1, FS_EmptySet, FS_CardinalityType
<1>5. Free \subseteq Ids /\ IsFiniteSet(Free)
  <2>1. Free \subseteq Ids
    BY <1>3
  <2>2. QED
    BY <2>1, DagAssumption, FS_Subset
<1>6. \A c \in Free : Parents(c) = {}
  BY <1>3, <1>4
<1>7. \A c \in Nodes : Parents(c) = {} => c \in Free
  BY <1>3, <1>4
<1> HIDE DEF Free, M
<1>8. /\ queue' \in Seq(Free)
      /\ \A a, b \in 1..Len(queue') : queue'[a] = queue'[b] => a = b
      /\ \A x \in Free : \E k \in 1..Len(queue') : queue'[k] = x
  BY <1>1, <1>5, Enumerations
<1>9. queue' \in Seq(Ids)
  BY <1>5, <1>8, SeqMonotonic
<1>10. Queued' = Free
  BY SMTT(30), <1>8 DEF Queued
<1>11. Output' = {} /\ Output = {}
  BY <1>1, <1>2 DEF Output
<1>12. \A id : Parents(id)' = Parents(id)
  BY <1>1, GraphSame
<1>13. PlanTypeOK'
  <2>1. incoming' \in [Ids -> Nat]
    BY <1>1, <1>4
  <2>2. QED
    BY <1>1, <1>9, <2>1 DEF PlanInv, PlanTypeOK, Phases
<1>14. OutputOnce'
  BY <1>1, <1>2, <1>8, <1>11 DEF OutputOnce
<1>15. CountersOK'
  <2>1. \A c \in Ids : incoming'[c] = Cardinality(Parents(c)' \ Output')
    <3> SUFFICES ASSUME NEW c \in Ids PROVE incoming'[c] = Cardinality(Parents(c)' \ Output')
      OBVIOUS
    <3>1. Parents(c)' \ Output' = Parents(c)
      BY <1>11, <1>12
    <3>2. QED
      BY <1>1, <3>1
  <2>2. \A c \in Output' \cup Queued' : Parents(c)' \subseteq Output'
    BY <1>6, <1>10, <1>11, <1>12
  <2>3. \A c \in Nodes : Parents(c)' \subseteq Output' => c \in Output' \cup Queued'
    BY <1>7, <1>10, <1>11, <1>12
  <2>4. next' = 1
    BY <1>1, <1>2
  <2>5. QED
    BY <2>1, <2>2, <2>3, <2>4 DEF CountersOK
<1>16. OutputSorted'
  BY <1>1, <1>2 DEF OutputSorted
<1>17. NodesOutput' /\ LoopsOK'
  <2>1. PICK n \in Nodes : TRUE
    BY <1>1 DEF PlanInv, LoopsOK
  <2>2. Len(NodeSeq) \in Nat /\ 1 <= Len(NodeSeq)
    BY <2>1, NodesAreIds, DagAssumption
  <2>3. QED
    BY <1>1, <1>2, <2>1, <2>2 DEF NodesOutput, LoopsOK, Planned
<1>18. PlanSound'
  BY <1>1 DEF PlanSound
<1>19. QED
  BY <1>13, <1>14, <1>15, <1>16, <1>17, <1>18 DEF PlanInv

\* In a well-formed graph the while loop reaches every node: were there others,
\* one of them would have all its parents output.
LEMMA AllReached ==
    ASSUME PlanInv, WellFormed, phase = "Order", queue = <<>>
    PROVE  Nodes \subseteq Output
<1> DEFINE U == Nodes \ Output
<1>1. SUFFICES ASSUME U # {} PROVE FALSE
  OBVIOUS
<1>2. U \subseteq Ids /\ edges \subseteq Ids \X Ids
  BY NodesAreIds DEF PlanInv, PlanTypeOK
<1>3. PICK x \in U : Parents(x) \cap U = {}
  BY <1>1, <1>2 DEF WellFormed, Acyclic
<1>4. Parents(x) \subseteq Nodes
  <2>1. ASSUME NEW p \in Parents(x) PROVE p \in Nodes
    <3>1. <<p, x>> \in edges
      BY <1>2, ParentsIds
    <3>2. QED
      BY <3>1 DEF WellFormed
  <2>2. QED
    BY <2>1
<1>5. Parents(x) \subseteq Output
  BY <1>3, <1>4
<1>6. Queued = {}
  BY DEF Queued
<1>7. QED
  BY <1>3, <1>5, <1>6 DEF PlanInv, CountersOK

\* A turn of the for loop over the nodes, which adds one that was not reached.
LEMMA PlanAppend ==
    ASSUME PlanInv, AppendUnreached
    PROVE  PlanInv'
<1> DEFINE node == NodeSeq[next]
<1>1. /\ phase = "Order" /\ queue = <<>> /\ plan = <<>>
      /\ UNCHANGED <<edges, op, incoming, queue, plan>>
      /\ edges \subseteq Ids \X Ids /\ ordered \in Seq(Ids) /\ next \in Nat \ {0}
      /\ next <= Len(NodeSeq) /\ Len(NodeSeq) \in Nat
  BY DagAssumption DEF AppendUnreached, PlanInv, PlanTypeOK, LoopsOK, NodesOutput
<1>2. node \in Nodes /\ node \in Ids
  BY <1>1, NodesAreIds
<1>3. Contains(ordered, node) <=> node \in Output
  BY DEF Contains, Output
<1>4. /\ node \in Output => ordered' = ordered
      /\ node \notin Output => ordered' = Append(ordered, node)
  BY <1>3 DEF AppendUnreached
<1>5. \/ next = Len(NodeSeq) /\ phase' = "Inject" /\ next' = 1
      \/ next # Len(NodeSeq) /\ phase' = "Order" /\ next' = next + 1
  BY <1>1 DEF AppendUnreached
<1>6. Queued = {} /\ Queued' = {}
  BY <1>1 DEF Queued
<1>7. /\ ordered' \in Seq(Ids)
      /\ Output' = Output \cup {node}
      /\ \A a, b \in 1..Len(ordered') : ordered'[a] = ordered'[b] => a = b
  <2>1. CASE node \in Output
    BY <1>1, <1>4, <2>1 DEF PlanInv, OutputOnce, Output
  <2>2. CASE node \notin Output
    <3>1. /\ ordered' \in Seq(Ids)
          /\ Len(ordered') = Len(ordered) + 1 /\ Len(ordered) \in Nat
          /\ \A k \in 1..Len(ordered) : ordered'[k] = ordered[k]
          /\ ordered'[Len(ordered) + 1] = node
      BY SMTT(30), <1>1, <1>2, <1>4, <2>2
    <3>2. Output' = Output \cup {node}
      BY <3>1 DEF Output
    <3>3. \A a, b \in 1..Len(ordered') : ordered'[a] = ordered'[b] => a = b
      BY <2>2, <3>1 DEF PlanInv, OutputOnce, Output
    <3>4. QED
      BY <3>1, <3>2, <3>3
  <2>3. QED
    BY <2>1, <2>2
<1>8. WellFormed => ordered' = ordered /\ Output' = Output
  BY <1>1, <1>2, <1>4, <1>7, AllReached
<1>9. PlanTypeOK'
  BY <1>1, <1>5, <1>7 DEF PlanInv, PlanTypeOK, Phases
<1>10. OutputOnce'
  BY <1>1, <1>6, <1>7 DEF PlanInv, OutputOnce
<1>11. CountersOK'
  <2> SUFFICES ASSUME phase' = "Order" PROVE CountersOK'
    BY DEF CountersOK
  <2>1. next' > 1 /\ next' # 1
    BY <1>1, <1>5
  <2>2. WellFormed' => Nodes \subseteq Output'
    BY <1>1, <1>8, AllReached, GraphSame
  <2>3. QED
    BY <1>1, <2>1, <2>2 DEF CountersOK
<1>12. OutputSorted'
  BY <1>1, <1>8, GraphSame DEF PlanInv, OutputSorted
<1>13. NodesOutput'
  <2>1. \A k \in 1..(next - 1) : NodeSeq[k] \in Output
    BY <1>1 DEF PlanInv, NodesOutput
  <2>2. \A k \in 1..next : NodeSeq[k] \in Output'
    BY <1>1, <1>7, <2>1
  <2>3. CASE next = Len(NodeSeq) /\ phase' = "Inject"
    BY <2>2, <2>3, NodesAreIds DEF NodesOutput
  <2>4. CASE next # Len(NodeSeq) /\ phase' = "Order" /\ next' = next + 1
    BY <1>1, <2>2, <2>4 DEF NodesOutput
  <2>5. QED
    BY <1>5, <2>3, <2>4
<1>14. LoopsOK' /\ PlanSound'
  <2>1. CASE phase' = "Inject" /\ next' = 1
    <3>1. PICK k \in 1..Len(ordered') : ordered'[k] = node
      BY ZenonT(60), <1>7 DEF Output
    <3>2. Len(ordered') \in Nat /\ 1 <= Len(ordered')
      BY <1>7, <3>1
    <3>3. QED
      BY <1>1, <1>2, <2>1, <3>2 DEF LoopsOK, PlanSound, Planned
  <2>2. CASE phase' = "Order"
    BY <1>1, <1>2, <2>2 DEF LoopsOK, PlanSound, Planned
  <2>3. QED
    BY <1>5, <2>1, <2>2
<1>15. QED
  BY <1>9, <1>10, <1>11, <1>12, <1>13, <1>14 DEF PlanInv

\* A turn of inject_local_shuffle adds the node, with or without a shuffle.
LEMMA InjectStep ==
    ASSUME PlanInv, InjectLocalShuffle, ordered[next] \in Nodes
    PROVE  /\ plan' \in Seq(PlanIds)
           /\ Len(plan) \in Nat /\ Len(plan') \in {Len(plan) + 1, Len(plan) + 2}
           /\ plan'[Len(plan')] = ordered[next]
           /\ \A k \in 1..Len(plan) : plan'[k] = plan[k]
           /\ Len(plan') = Len(plan) + 2 => plan'[Len(plan) + 1] = Injected(ordered[next])
<1> DEFINE id == ordered[next]
<1>1. plan \in Seq(PlanIds) /\ id \in PlanIds /\ Injected(id) \in PlanIds
  BY DEF PlanInv, PlanTypeOK, PlanIds
<1>2. plan' = Append(plan, id) \/ plan' = plan \o <<Injected(id), id>>
  BY DEF InjectLocalShuffle
<1>3. CASE plan' = Append(plan, id)
  BY <1>1, <1>3
<1>4. CASE plan' = plan \o <<Injected(id), id>>
  <2> DEFINE two == <<Injected(id), id>>
  <2>1. two \in Seq(PlanIds) /\ Len(two) = 2 /\ two[1] = Injected(id) /\ two[2] = id
    BY <1>1
  <2> HIDE DEF two
  <2>2. /\ plan' \in Seq(PlanIds) /\ Len(plan) \in Nat /\ Len(plan') = Len(plan) + 2
        /\ \A k \in 1..(Len(plan) + 2) :
              plan'[k] = IF k <= Len(plan) THEN plan[k] ELSE two[k - Len(plan)]
    BY <1>1, <1>4, <2>1, ConcatProperties DEF two
  <2>3. QED
    BY <2>1, <2>2
<1>5. QED
  BY <1>2, <1>3, <1>4

\* A turn of inject_local_shuffle keeps the invariant.
LEMMA PlanInject ==
    ASSUME PlanInv, InjectLocalShuffle
    PROVE  PlanInv'
<1> DEFINE id == ordered[next]
<1>1. /\ phase = "Inject" /\ phase' \in {"Inject", "Execute"}
      /\ phase' = "Execute" <=> next = Len(ordered)
      /\ next' = next + 1
      /\ UNCHANGED <<edges, op, incoming, queue, ordered>>
      /\ edges \subseteq Ids \X Ids /\ ordered \in Seq(Ids) /\ next \in Nat \ {0}
      /\ next <= Len(ordered) /\ plan \in Seq(PlanIds)
  BY DEF InjectLocalShuffle, PlanInv, PlanTypeOK, LoopsOK
<1>2. /\ Len(ordered) \in Nat /\ Len(plan) \in Nat /\ next \in 1..Len(ordered) /\ id \in Ids
  BY <1>1
<1>0. (\A c : Parents(c)' = Parents(c)) /\ (WellFormed' <=> WellFormed)
  BY <1>1, GraphSame
<1>3. /\ \A n \in Nodes : (\E k \in 1..Len(plan) : plan[k] = n)
                             <=> (\E j \in 1..(next - 1) : ordered[j] = n)
      /\ \A a, b \in 1..Len(plan) : plan[a] \in Nodes /\ plan[a] = plan[b] => a = b
      /\ plan # <<>> => plan[Len(plan)] \in Nodes
      /\ WellFormed => \A b \in 1..Len(plan) :
                          \A p \in Parents(plan[b]) : \E a \in 1..(b - 1) : plan[a] = p
  BY <1>1 DEF PlanInv, PlanSound
<1>4. OutputOnce' /\ OutputSorted' /\ NodesOutput'
  <2>1. Output' = Output /\ Queued' = Queued
    BY <1>1 DEF Output, Queued
  <2>2. OutputOnce'
    BY <1>1, <2>1 DEF PlanInv, OutputOnce
  <2>3. OutputSorted'
    <3> SUFFICES ASSUME WellFormed, NEW k \in 1..Len(ordered')
                 PROVE  \A p \in Parents(ordered'[k]) : \E j \in 1..(k - 1) : ordered'[j] = p
      BY <1>0, <1>1, GraphSame DEF OutputSorted
    <3>1. QED
      BY <1>1 DEF PlanInv, OutputSorted
  <2>4. NodesOutput'
    BY <1>1, <2>1 DEF PlanInv, NodesOutput
  <2>5. QED
    BY <2>2, <2>3, <2>4
<1>5. LoopsOK' /\ CountersOK'
  BY <1>1, <1>2 DEF PlanInv, LoopsOK, CountersOK, Planned
<1>6. CASE id \notin Nodes
  <2>1. plan' = plan
    BY <1>6 DEF InjectLocalShuffle
  <2>2. PlanTypeOK'
    BY <1>1, <2>1 DEF PlanInv, PlanTypeOK, Phases
  <2>3. \A n \in Nodes : (\E j \in 1..(next - 1) : ordered[j] = n)
                            <=> (\E j \in 1..next : ordered[j] = n)
    BY <1>2, <1>6
  <2>4. next' - 1 = next
    BY <1>1
  <2>5. PlanSound'
    <3>1. \A n \in Nodes : (\E k \in 1..Len(plan') : plan'[k] = n)
                              <=> (\E j \in 1..(next' - 1) : ordered'[j] = n)
      BY <1>1, <1>3, <2>1, <2>3, <2>4
    <3>2. WellFormed' => \A b \in 1..Len(plan') :
                            \A p \in Parents(plan[b])' : \E a \in 1..(b - 1) : plan'[a] = p
      <4>1. ASSUME WellFormed, NEW b \in 1..Len(plan')
            PROVE  \A p \in Parents(plan'[b]) : \E a \in 1..(b - 1) : plan'[a] = p
        BY ZenonT(60), <1>3, <2>1, <4>1
      <4>2. QED
        BY <1>0, <1>1, <4>1 DEF Parents
    <3>3. QED
      BY <1>3, <2>1, <3>1, <3>2 DEF PlanSound
  <2>6. QED
    BY <1>4, <1>5, <2>2, <2>5 DEF PlanInv
<1>7. CASE id \in Nodes
  <2>1. /\ plan' \in Seq(PlanIds)
        /\ Len(plan') \in {Len(plan) + 1, Len(plan) + 2}
        /\ plan'[Len(plan')] = id
        /\ \A k \in 1..Len(plan) : plan'[k] = plan[k]
        /\ Len(plan') = Len(plan) + 2 => plan'[Len(plan) + 1] = Injected(id)
    BY <1>7, InjectStep
  <2>2. PlanTypeOK'
    BY SMTT(30), <1>1, <2>1 DEF PlanInv, PlanTypeOK, Phases
  <2>3. ASSUME NEW k \in 1..Len(plan')
        PROVE  \/ k \in 1..Len(plan) /\ plan'[k] = plan[k]
               \/ k = Len(plan') /\ k > Len(plan) /\ plan'[k] = id
               \/ k = Len(plan) + 1 /\ k # Len(plan') /\ plan'[k] = Injected(id)
    BY <1>2, <2>1
  <2>4. Len(plan') \in 1..Len(plan') /\ \A k \in 1..Len(plan) : k \in 1..Len(plan')
    BY <1>2, <2>1
  <2>5. Injected(id) \notin Nodes /\ Injected(id) \notin Ids
    BY <1>7, NodesAreIds, DagAssumption
  <2>6. \A k \in 1..Len(plan) : plan[k] # id
    <3> SUFFICES ASSUME NEW k \in 1..Len(plan), plan[k] = id PROVE FALSE
      OBVIOUS
    <3>1. PICK j \in 1..(next - 1) : ordered[j] = id
      BY <1>3, <1>7
    <3>2. j = next
      BY <1>2, <3>1 DEF PlanInv, OutputOnce
    <3>3. QED
      BY <1>2, <3>1, <3>2
  <2>7. \A n \in Nodes : (\E k \in 1..Len(plan') : plan'[k] = n)
                            <=> (\E j \in 1..(next' - 1) : ordered'[j] = n)
    <3> SUFFICES ASSUME NEW n \in Nodes
                 PROVE  (\E k \in 1..Len(plan') : plan'[k] = n)
                            <=> (\E j \in 1..next : ordered[j] = n)
      <4>1. next' - 1 = next /\ ordered' = ordered
        BY <1>1, <1>2
      <4>2. QED
        BY <4>1
    <3>1. (\E j \in 1..next : ordered[j] = n)
             <=> (\E j \in 1..(next - 1) : ordered[j] = n) \/ n = id
      BY <1>2
    <3>2. (\E k \in 1..Len(plan') : plan'[k] = n)
             <=> (\E k \in 1..Len(plan) : plan[k] = n) \/ n = id
      BY <2>1, <2>3, <2>4, <2>5
    <3>3. QED
      BY <1>3, <3>1, <3>2
  <2>8. \A a, b \in 1..Len(plan') : plan'[a] \in Nodes /\ plan'[a] = plan'[b] => a = b
    <3> SUFFICES ASSUME NEW a \in 1..Len(plan'), NEW b \in 1..Len(plan'),
                        plan'[a] \in Nodes, plan'[a] = plan'[b]
                 PROVE  a = b
      OBVIOUS
    <3>1. \/ a \in 1..Len(plan) /\ plan'[a] = plan[a]
          \/ a = Len(plan') /\ plan'[a] = id
      BY <2>3, <2>5
    <3>2. \/ b \in 1..Len(plan) /\ plan'[b] = plan[b]
          \/ b = Len(plan') /\ plan'[b] = id
      BY <2>3, <2>5
    <3>3. QED
      BY <1>3, <2>6, <3>1, <3>2
  <2>9. plan'[Len(plan')] \in Nodes
    BY <1>7, <2>1
  <2>10. ASSUME WellFormed, NEW b \in 1..Len(plan')
         PROVE  \A p \in Parents(plan'[b]) : \E a \in 1..(b - 1) : plan'[a] = p
    <3>1. CASE b \in 1..Len(plan) /\ plan'[b] = plan[b]
      <4>1. \A a \in 1..(b - 1) : plan'[a] = plan[a]
        BY SMTT(30), <1>2, <2>1, <3>1
      <4>2. \A p \in Parents(plan[b]) : \E a \in 1..(b - 1) : plan[a] = p
        BY <1>3, <2>10, <3>1
      <4>3. QED
        BY <3>1, <4>1, <4>2
    <3>2. CASE plan'[b] = Injected(id)
      BY <1>1, <2>5, <3>2, ParentsIds
    <3>3. CASE b = Len(plan') /\ b > Len(plan) /\ plan'[b] = id
      <4> SUFFICES ASSUME NEW p \in Parents(id) PROVE \E a \in 1..(b - 1) : plan'[a] = p
        BY <3>3
      <4>1. <<p, id>> \in edges
        BY <1>1, ParentsIds
      <4>2. p \in Nodes
        BY <2>10, <4>1 DEF WellFormed
      <4>3. \E j \in 1..(next - 1) : ordered[j] = p
        BY <1>2, <2>10 DEF PlanInv, OutputSorted
      <4>4. PICK k \in 1..Len(plan) : plan[k] = p
        BY <1>3, <4>2, <4>3
      <4>5. QED
        BY <1>2, <2>1, <3>3, <4>4
    <3>4. QED
      BY <2>3, <3>1, <3>2, <3>3
  <2>11. PlanSound'
    <3>1. WellFormed' => \A b \in 1..Len(plan') :
                            \A p \in Parents(plan[b])' : \E a \in 1..(b - 1) : plan'[a] = p
      BY <1>0, <1>1, <2>10 DEF Parents
    <3>2. QED
      BY <2>7, <2>8, <2>9, <3>1 DEF PlanSound
  <2>12. QED
    BY <1>4, <1>5, <2>2, <2>11 DEF PlanInv
<1>8. QED
  BY <1>6, <1>7

\* A task at work leaves the plan alone.
LEMMA PlanStays ==
    ASSUME PlanInv, UNCHANGED <<edges, op, incoming, queue, ordered, next, plan>>,
           phase' = phase \/ (phase \in {"Execute", "Write"} /\ phase' \in {"Write", "Done", "Failed"})
    PROVE  PlanInv'
<1>1. (\A c : Parents(c)' = Parents(c)) /\ (WellFormed' <=> WellFormed)
  BY GraphSame
<1>2. Output' = Output /\ Queued' = Queued
  BY DEF Output, Queued
<1>3. PlanTypeOK'
  BY DEF PlanInv, PlanTypeOK, Phases
<1>4. OutputOnce' /\ NodesOutput'
  <2>1. OutputOnce'
    BY <1>2 DEF PlanInv, OutputOnce
  <2>2. NodesOutput'
    BY <1>2 DEF PlanInv, NodesOutput
  <2>3. QED
    BY <2>1, <2>2
<1>5. CountersOK'
  <2> SUFFICES ASSUME phase' = "Order" PROVE CountersOK'
    BY DEF CountersOK
  <2>1. phase = "Order"
    OBVIOUS
  <2>2. next' = 1 => \A c \in Ids : incoming'[c] = Cardinality(Parents(c)' \ Output')
    BY <1>1, <1>2, <2>1 DEF PlanInv, CountersOK
  <2>3. next' = 1 => \A c \in Output' \cup Queued' : Parents(c)' \subseteq Output'
    BY <1>1, <1>2, <2>1 DEF PlanInv, CountersOK
  <2>4. next' = 1 \/ WellFormed' =>
           \A c \in Nodes : Parents(c)' \subseteq Output' => c \in Output' \cup Queued'
    BY <1>1, <1>2, <2>1 DEF PlanInv, CountersOK
  <2>5. next' > 1 => queue' = <<>>
    BY <2>1 DEF PlanInv, CountersOK
  <2>6. QED
    BY <2>2, <2>3, <2>4, <2>5 DEF CountersOK
<1>6. OutputSorted'
  <2> SUFFICES ASSUME WellFormed, NEW k \in 1..Len(ordered')
               PROVE  \A p \in Parents(ordered'[k]) : \E j \in 1..(k - 1) : ordered'[j] = p
    BY <1>1, GraphSame DEF OutputSorted
  <2>1. QED
    BY DEF PlanInv, OutputSorted
<1>7. LoopsOK'
  BY DEF PlanInv, LoopsOK, Planned
<1>8. PlanSound'
  <2> SUFFICES ASSUME phase' \in {"Inject", "Execute", "Write", "Done", "Failed"} PROVE PlanSound'
    BY DEF PlanSound
  <2>1. PlanSound /\ phase \in {"Inject", "Execute", "Write", "Done", "Failed"}
    BY DEF PlanInv
  <2>2. ASSUME WellFormed, NEW b \in 1..Len(plan')
        PROVE  \A p \in Parents(plan'[b]) : \E a \in 1..(b - 1) : plan'[a] = p
    <3>1. plan' = plan /\ b \in 1..Len(plan)
      BY <2>2
    <3>2. \A p \in Parents(plan[b]) : \E a \in 1..(b - 1) : plan[a] = p
      BY <2>1, <2>2, <3>1 DEF PlanSound
    <3>3. QED
      BY <3>1, <3>2
  <2>3. WellFormed' => \A b \in 1..Len(plan') :
                          \A p \in Parents(plan[b])' : \E a \in 1..(b - 1) : plan'[a] = p
    BY <1>1, <2>2 DEF Parents
  <2>4. QED
    BY <2>1, <2>3 DEF PlanSound
<1>9. QED
  BY <1>3, <1>4, <1>5, <1>6, <1>7, <1>8 DEF PlanInv

\* Every step keeps the invariant of planning.
LEMMA PlanStep ==
    ASSUME PlanInv, [Next]_vars
    PROVE  PlanInv'
<1>1. CASE Prepare
  <2>1. CASE CountIncoming
    <3>1. CASE edges = {}
      BY <2>1, <3>1, PlanCountNone
    <3>2. CASE edges # {}
      BY <2>1, <3>2, PlanCountSome
    <3>3. QED
      BY <3>1, <3>2
  <2>2. QED
    BY <1>1, <2>1, PlanValidate, PlanPop, PlanAppend, PlanInject DEF Prepare
<1>2. CASE \/ StartOp \/ Drain \/ Fill \/ StartWrite \/ WritePart \/ Complete \/ Fail
           \/ UNCHANGED vars
  <2>1. /\ UNCHANGED <<edges, op, incoming, queue, ordered, next, plan>>
        /\ \/ phase' = phase
           \/ phase \in {"Execute", "Write"} /\ phase' \in {"Write", "Done", "Failed"}
    BY <1>2 DEF StartOp, Drain, Fill, StartWrite, WritePart, Complete, Fail, vars, dagVars
  <2>2. QED
    BY <2>1, PlanStays
<1>3. QED
  BY <1>1, <1>2 DEF Next

\* The invariant of planning.
LEMMA PlanInvariant == Spec => []PlanInv
  BY PlanInit, PlanStep, PTL DEF Spec

-----------------------------------------------------------------------------
\* At the end of the loops the plan has each node at one position.
LEMMA OnceFromPlan ==
    ASSUME PlanInv
    PROVE  EachNodeOnce
<1> SUFFICES ASSUME Planned, NEW n \in Nodes
             PROVE  Cardinality({k \in 1..Len(plan) : plan[k] = n}) = 1
  BY DEF EachNodeOnce
<1>1. phase \in {"Execute", "Write", "Done", "Failed"} /\ next = Len(ordered) + 1 /\ ordered \in Seq(Ids)
  BY DEF Planned, PlanInv, LoopsOK, PlanTypeOK
<1>2. n \in Output
  BY <1>1 DEF PlanInv, NodesOutput
<1>3. PICK j \in 1..Len(ordered) : ordered[j] = n
  BY <1>2 DEF Output
<1>4. j \in 1..(next - 1)
  BY <1>1, <1>3
<1>5. PICK k \in 1..Len(plan) : plan[k] = n
  BY <1>1, <1>3, <1>4 DEF PlanInv, PlanSound
<1>6. {m \in 1..Len(plan) : plan[m] = n} = {k}
  BY <1>1, <1>5 DEF PlanInv, PlanSound
<1>7. QED
  BY <1>6, FS_Singleton

\* Whatever graph was sent, and in whatever order the HashMap starts, the plan of
\* ordered_nodes and inject_local_shuffle has every operator, once.
THEOREM NoNodeLost == Spec => []EachNodeOnce
  BY PlanInvariant, OnceFromPlan, PTL

\* At the end of the loops the plan is sorted.
LEMMA SortedFromPlan ==
    ASSUME PlanInv
    PROVE  TopologicalOrder
<1> SUFFICES ASSUME Planned, WellFormed, NEW a \in 1..Len(plan), NEW b \in 1..Len(plan),
                    <<plan[a], plan[b]>> \in edges
             PROVE  a < b
  BY DEF TopologicalOrder
<1>1. PlanSound /\ phase \in {"Execute", "Write", "Done", "Failed"} /\ edges \subseteq Ids \X Ids
      /\ plan \in Seq(PlanIds)
  BY DEF PlanInv, PlanTypeOK, Planned
<1>2. plan[a] \in Nodes /\ plan[a] \in Parents(plan[b])
  BY <1>1, ParentsIds DEF WellFormed
<1>3. PICK k \in 1..(b - 1) : plan[k] = plan[a]
  BY <1>1, <1>2 DEF PlanSound
<1>4. k = a
  BY <1>1, <1>2, <1>3 DEF PlanSound
<1>5. QED
  BY <1>1, <1>3, <1>4

\* The plan of a well-formed graph has every operator after those that feed it.
THEOREM PlanIsSorted == Spec => []TopologicalOrder
  BY PlanInvariant, SortedFromPlan, PTL

-----------------------------------------------------------------------------
\* Types of the variables of the flow.
FlowTypeOK ==
    /\ step \in Nat /\ step <= Len(plan)
    /\ results \in [PlanIds -> Seq(AllPartitions) \cup {Missing}]
    /\ todo \in Seq(AllPartitions) /\ slots \in Seq(Nat \X Paths)
    /\ held \in SUBSET Nodes
    /\ disk \in [Paths -> (SUBSET Nodes) \cup {NoFile}]
    /\ output \in SUBSET Nodes /\ written \in SUBSET Nat
    /\ seen \in [PlanIds -> SUBSET Nodes] /\ met \in SUBSET Paths

\* What the flow starts from, and where it is.
Untouched ==
    /\ step = 0 /\ results = [id \in PlanIds |-> Missing]
    /\ todo = <<>> /\ slots = <<>> /\ held = {}
    /\ disk = [p \in Paths |-> NoFile]
    /\ output = {} /\ written = {} /\ seen = [id \in PlanIds |-> {}] /\ met = {}

Bounds ==
    /\ ~Planned => Untouched
    /\ phase = "Execute" /\ ~Idle => step > 0 /\ slots # <<>>
    /\ phase = "Execute" /\ step > 0 => results[Current] # Missing
    /\ phase = "Execute" /\ ~Idle /\ KindOf(Current) = "Map" => Len(todo) <= Len(slots)
    /\ phase \in {"Write", "Done"} =>
          step = Len(plan) /\ \A p \in PlanIds : results[p] = Missing
    /\ phase = "Done" => todo = <<>>
    /\ phase = "Execute" => output = {}

\* A node that has not started has put out nothing.
Unstarted ==
    \A n \in Nodes : (\A k \in 1..step : plan[k] # n) => results[n] = Missing /\ seen[n] = {}

\* Injected shuffles handle no records.
InjectedEmpty ==
    /\ \A p \in PlanIds \ Nodes :
          seen[p] = {} /\ (results[p] # Missing => \A x \in Elems(results[p]) : ~x.spilled)
    /\ phase = "Execute" /\ ~Idle /\ Current \notin Nodes =>
          held = {} /\ \A x \in Elems(todo) : x.data = {} /\ ~x.spilled

\* Every partition there is has a name of its own.
Named ==
    /\ \A p \in PlanIds : results[p] # Missing =>
          \A k \in 1..Len(results[p]) : results[p][k].by = <<p, k>>
    /\ \A i, j \in 1..Len(todo) : todo[i].by = todo[j].by => i = j
    /\ \A i \in 1..Len(todo) :
          IF todo[i].by[2] = 0 THEN ~todo[i].spilled ELSE results[todo[i].by[1]] = Missing

\* What an operator has put out is in its outputs.
Kept ==
    \A p \in PlanIds : results[p] # Missing =>
        \A a : a \in seen[p] <=> \E x \in Elems(results[p]) : a \in x.data

\* Partitions that wait to be drained from a file.
Tickets ==
    {x \in AllPartitions :
        /\ x.spilled
        /\ \/ x \in Elems(todo)
           \/ \E p \in PlanIds : results[p] # Missing /\ x \in Elems(results[p])}

\* Until two caches meet, a spilled partition has its file to itself.
Apart ==
    met = {} /\ phase # "Failed" =>
        /\ \A x \in Tickets : disk[x.path] = x.data
        /\ \A x, y \in Tickets : x.path = y.path => x.by = y.by

\* Until then, an operator handles only records that feed it.
From(id) == IF id \in Nodes THEN Sources(id) ELSE {}
Within ==
    met = {} =>
        /\ \A p \in PlanIds : seen[p] \subseteq From(p)
        /\ phase = "Execute" /\ ~Idle =>
              held \subseteq From(Current) /\ \A x \in Elems(todo) : x.data \subseteq From(Current)
        /\ phase \in {"Write", "Done"} =>
              /\ output \subseteq From(Last(plan))
              /\ \A x \in Elems(todo) : x.data \subseteq From(Last(plan))

\* Until then, in a graph without forks, all of them.
Pending ==
    {a \in Nodes : \/ \E x \in Elems(todo) : a \in x.data
                   \/ /\ slots # <<>> /\ a \in held
                      /\ KindOf(Current) = "Map" => Len(todo) < Len(slots)}
Exhaustive ==
    met = {} /\ WellFormed /\ SingleConsumer =>
        /\ phase = "Execute" =>
              \A k \in 1..step : plan[k] \in Nodes =>
                  Sources(plan[k]) \subseteq
                      IF k = step THEN seen[plan[k]] \cup Pending ELSE seen[plan[k]]
        /\ phase \in {"Write", "Done"} =>
              /\ \A n \in Nodes : Sources(n) \subseteq seen[n]
              /\ \A a \in Sources(Last(plan)) : a \in output \/ \E x \in Elems(todo) : a \in x.data

\* Then the output of a node is there until it is taken; without explicit
\* shuffles, in partitions with the number of the task.
Untaken(n) == \A m \in 1..step : n \notin Parents(plan[m])
NoShuffle == \A n \in Nodes : op[n] # "ShuffleByKey"
Mine(ps) == \A x \in Elems(ps) : x.no = Partition
Waiting ==
    WellFormed /\ SingleConsumer /\ phase = "Execute" =>
        \A k \in 1..step : plan[k] \in Nodes /\ Untaken(plan[k]) =>
            /\ results[plan[k]] # Missing
            /\ NoShuffle => /\ Mine(results[plan[k]])
                            /\ results[plan[k]] # <<>> \/ (k = step /\ slots # <<>>)
Numbers ==
    WellFormed /\ SingleConsumer /\ NoShuffle =>
        /\ phase = "Execute" /\ ~Idle /\ Current \in Nodes =>
              \A k \in 1..Len(slots) : slots[k][1] = Partition
        /\ phase \in {"Write", "Done"} =>
              Mine(todo) /\ written \subseteq {Partition} /\ (written # {} \/ todo # <<>>)
        /\ phase = "Execute" => written = {}

\* In a well-formed graph an output that was taken is gone for good.
Gone ==
    WellFormed => \A m \in 1..step : \A n \in Parents(plan[m]) \cap PlanIds : results[n] = Missing

\* When every output is drained and every file removed, a file has somebody who
\* waits for it; and where two caches have met, somebody who waits in vain.
Claimed(p) == \E x \in Tickets : x.path = p
Contested(p) == \E x, y \in Tickets : x.path = p /\ y.path = p /\ x.by # y.by
Claims ==
    Planned /\ phase # "Failed" /\ ~stuck /\ WellFormed /\ AllDrained =>
        /\ \A p \in Paths : disk[p] # NoFile => Claimed(p)
        /\ \A p \in met : Claimed(p) /\ (disk[p] # NoFile => Contested(p))

FlowInv ==
    /\ PlanInv /\ FlowTypeOK /\ Bounds /\ Unstarted /\ InjectedEmpty /\ Named /\ Kept
    /\ Apart /\ Within /\ Exhaustive /\ Waiting /\ Numbers /\ Gone /\ Claims

-----------------------------------------------------------------------------
\* The first element of a sequence and the others.
LEMMA TailElems ==
    ASSUME NEW T, NEW s \in Seq(T), s # <<>>
    PROVE  /\ Len(s) \in Nat /\ Len(s) > 0 /\ s[1] \in T /\ s[1] \in Elems(s)
           /\ Tail(s) \in Seq(T) /\ Len(Tail(s)) = Len(s) - 1
           /\ \A k \in 1..Len(Tail(s)) : k + 1 \in 1..Len(s) /\ Tail(s)[k] = s[k + 1]
           /\ \A x : x \in Elems(s) <=> x = s[1] \/ x \in Elems(Tail(s))
<1>1. /\ Len(s) \in Nat /\ Len(s) > 0 /\ s[1] \in T /\ 1 \in 1..Len(s)
      /\ Tail(s) \in Seq(T) /\ Len(Tail(s)) = Len(s) - 1
      /\ \A k \in 1..Len(Tail(s)) : k + 1 \in 1..Len(s) /\ Tail(s)[k] = s[k + 1]
  BY EmptySeq, HeadTailProperties
<1>2. ASSUME NEW x \in Elems(s), x # s[1] PROVE x \in Elems(Tail(s))
  <2>1. PICK k \in 1..Len(s) : s[k] = x
    BY DEF Elems
  <2>2. k - 1 \in 1..Len(Tail(s)) /\ (k - 1) + 1 = k
    BY <1>1, <1>2, <2>1
  <2>3. Tail(s)[k - 1] = x
    BY <1>1, <2>1, <2>2
  <2>4. QED
    BY <2>2, <2>3 DEF Elems
<1>3. ASSUME NEW x \in Elems(Tail(s)) PROVE x \in Elems(s)
  <2>1. PICK k \in 1..Len(Tail(s)) : Tail(s)[k] = x
    BY DEF Elems
  <2>2. QED
    BY <1>1, <2>1 DEF Elems
<1>4. s[1] \in Elems(s)
  BY <1>1 DEF Elems
<1>5. QED
  BY <1>1, <1>2, <1>3, <1>4

\* The elements of a sequence with one more at the end.
LEMMA AppendElems ==
    ASSUME NEW T, NEW s \in Seq(T), NEW e \in T
    PROVE  /\ Append(s, e) \in Seq(T) /\ Len(s) \in Nat /\ Len(Append(s, e)) = Len(s) + 1
           /\ \A k \in 1..Len(s) : Append(s, e)[k] = s[k]
           /\ Append(s, e)[Len(s) + 1] = e /\ Append(s, e) # <<>>
           /\ \A x : x \in Elems(Append(s, e)) <=> x \in Elems(s) \/ x = e
<1> DEFINE u == Append(s, e)
<1>1. /\ u \in Seq(T) /\ Len(s) \in Nat /\ Len(u) = Len(s) + 1
      /\ \A k \in 1..Len(s) : u[k] = s[k]
      /\ u[Len(s) + 1] = e /\ u # <<>>
  BY AppendProperties
<1> HIDE DEF u
<1>2. \A k \in 1..Len(u) : k \in 1..Len(s) \/ k = Len(s) + 1
  BY <1>1
<1>3. \A k \in 1..Len(s) : k \in 1..Len(u)
  BY <1>1
<1>4. Len(s) + 1 \in 1..Len(u)
  BY <1>1
<1>5. \A x : x \in Elems(u) <=> x \in Elems(s) \/ x = e
  BY <1>1, <1>2, <1>3, <1>4 DEF Elems
<1>6. QED
  BY <1>1, <1>5 DEF u

\* The fields of a partition.
LEMMA PartitionFields ==
    ASSUME NEW x \in AllPartitions
    PROVE  /\ x.by \in PlanIds \X Nat /\ x.by = <<x.by[1], x.by[2]>>
           /\ x.by[1] \in PlanIds /\ x.by[2] \in Nat
           /\ x.no \in Nat /\ x.path \in Paths /\ x.spilled \in BOOLEAN
           /\ x.data \in SUBSET Nodes
  BY DEF AllPartitions

\* A partition that is filled.
LEMMA FilledFields ==
    ASSUME NEW p \in PlanIds, NEW k \in Nat, NEW slot \in Nat \X Paths,
           NEW spilled \in BOOLEAN, NEW data \in SUBSET Nodes,
           NEW x, x = Filled(<<p, k>>, slot, spilled, data)
    PROVE  /\ x \in AllPartitions /\ x.by = <<p, k>> /\ x.by[1] = p /\ x.by[2] = k
           /\ x.no = slot[1] /\ x.path = slot[2] /\ x.spilled = spilled /\ x.data = data
  BY DEF Filled, AllPartitions

\* The constants.
LEMMA ConstantsOK ==
    /\ Partition \in Nat /\ Partitions \in 1..MaxBuckets /\ MaxBuckets \in Nat
    /\ Spill \in Paths /\ <<Partition, Spill>> \in Nat \X Paths
    /\ NoFile \notin SUBSET Nodes /\ Missing \notin Seq(AllPartitions) /\ Missing # <<>>
<1>1. Partition \in Nat /\ Partitions \in 1..MaxBuckets /\ MaxBuckets \in Nat
  BY PipelineAssumption
<1>2. Spill \in Paths
  BY DEF Paths
<1>3. <<>> \in Seq(AllPartitions)
  OBVIOUS
<1>4. QED
  BY <1>1, <1>2, <1>3, PipelineAssumption

\* The plan once it is made.
LEMMA PlanMade ==
    ASSUME PlanInv, Planned
    PROVE  /\ plan \in Seq(PlanIds) /\ Len(plan) \in Nat /\ Len(plan) \in 1..Len(plan)
           /\ \A k \in 1..Len(plan) : plan[k] \in PlanIds
           /\ Last(plan) = plan[Len(plan)] /\ Last(plan) \in Nodes
           /\ \A n \in Nodes : \E k \in 1..Len(plan) : plan[k] = n
           /\ \A a, b \in 1..Len(plan) : plan[a] \in Nodes /\ plan[a] = plan[b] => a = b
           /\ WellFormed => \A b \in 1..Len(plan) : \A p \in Parents(plan[b]) :
                               p \in Nodes /\ \E a \in 1..(b - 1) : plan[a] = p
<1>1. /\ phase \in {"Execute", "Write", "Done", "Failed"} /\ plan \in Seq(PlanIds)
      /\ PlanSound /\ next = Len(ordered) + 1 /\ ordered \in Seq(Ids)
      /\ edges \subseteq Ids \X Ids
  BY DEF PlanInv, Planned, PlanTypeOK, LoopsOK
<1>2. ASSUME NEW n \in Nodes PROVE \E k \in 1..Len(plan) : plan[k] = n
  <2>1. PICK j \in 1..Len(ordered) : ordered[j] = n
    BY <1>1 DEF PlanInv, NodesOutput, Output
  <2>2. j \in 1..(next - 1)
    BY <1>1
  <2>3. QED
    BY <1>1, <2>1, <2>2 DEF PlanSound
<1>3. PICK n \in Nodes : TRUE
  BY <1>1 DEF PlanInv, LoopsOK
<1>4. Len(plan) \in Nat /\ Len(plan) \in 1..Len(plan) /\ plan # <<>>
  BY <1>1, <1>2, <1>3
<1>5. Last(plan) = plan[Len(plan)] /\ plan[Len(plan)] \in Nodes
  BY <1>1, <1>4 DEF Last, PlanSound
<1>6. ASSUME WellFormed, NEW b \in 1..Len(plan), NEW p \in Parents(plan[b])
      PROVE  p \in Nodes /\ \E a \in 1..(b - 1) : plan[a] = p
  <2>1. <<p, plan[b]>> \in edges
    BY <1>1, ParentsIds
  <2>2. p \in Nodes
    BY <1>6, <2>1 DEF WellFormed
  <2>3. QED
    BY <1>1, <1>6, <2>2 DEF PlanSound
<1>7. \A a, b \in 1..Len(plan) : plan[a] \in Nodes /\ plan[a] = plan[b] => a = b
  BY <1>1 DEF PlanSound
<1>8. QED
  BY <1>1, <1>2, <1>4, <1>5, <1>6, <1>7

-----------------------------------------------------------------------------
\* Where the records of an operator come from: a Read has its own, any other
\* operator those of its parents.
LEMMA SourcesStep ==
    ASSUME edges \subseteq Ids \X Ids, NEW n \in Nodes
    PROVE  /\ op[n] = "Read" => Sources(n) = {n}
           /\ op[n] # "Read" => \A a : a \in Sources(n) <=> \E p \in Parents(n) : a \in Sources(p)
<1>1. n \in Ids
  BY NodesAreIds
<1>2. ASSUME op[n] = "Read" PROVE Sources(n) = {n}
  <2>1. {n} \in Upstream(n)
    BY <1>1, <1>2 DEF Upstream, Feeds
  <2>2. \A S \in Upstream(n) : n \in S
    BY DEF Upstream
  <2>3. QED
    BY <1>2, <2>1, <2>2 DEF Sources
<1>3. ASSUME op[n] # "Read", NEW a, NEW p \in Parents(n), a \in Sources(p) PROVE a \in Sources(n)
  <2>1. a \in Nodes /\ op[a] = "Read" /\ \A S \in Upstream(p) : a \in S
    BY <1>3 DEF Sources
  <2>2. ASSUME NEW S \in Upstream(n) PROVE S \in Upstream(p)
    <3>1. S \in SUBSET Ids /\ n \in S /\ \A x \in S : Feeds(x) \subseteq S
      BY DEF Upstream
    <3>2. Feeds(n) = Parents(n)
      BY <1>3 DEF Feeds
    <3>3. p \in S
      BY <3>1, <3>2
    <3>4. QED
      BY <3>1, <3>3 DEF Upstream
  <2>3. QED
    BY <2>1, <2>2 DEF Sources
<1>4. ASSUME op[n] # "Read", NEW a \in Sources(n) PROVE \E p \in Parents(n) : a \in Sources(p)
  <2>1. a \in Nodes /\ op[a] = "Read" /\ (\A S \in Upstream(n) : a \in S) /\ a # n
    BY <1>4 DEF Sources
  <2> SUFFICES ASSUME \A p \in Parents(n) : a \notin Sources(p) PROVE FALSE
    OBVIOUS
  <2> DEFINE closed(S) == \A x \in S : Feeds(x) \subseteq S
             U == {x \in Ids : \E S \in SUBSET Ids : x \in S /\ a \notin S /\ closed(S)}
  <2>2. \A p \in Parents(n) : p \in U
    <3> SUFFICES ASSUME NEW p \in Parents(n) PROVE p \in U
      OBVIOUS
    <3>1. PICK S \in Upstream(p) : a \notin S
      BY <2>1 DEF Sources
    <3>2. S \in SUBSET Ids /\ p \in S /\ closed(S)
      BY DEF Upstream
    <3>3. p \in Ids
      BY <3>2
    <3>4. QED
      BY <3>1, <3>2, <3>3
  <2>3. ASSUME NEW x \in U, NEW y \in Feeds(x) PROVE y \in U
    <3>1. PICK S \in SUBSET Ids : x \in S /\ a \notin S /\ closed(S)
      OBVIOUS
    <3>2. y \in S /\ y \in Ids
      BY <3>1
    <3>3. QED
      BY <3>1, <3>2
  <2>4. a \notin U
    OBVIOUS
  <2>5. U \subseteq Ids
    OBVIOUS
  <2> HIDE DEF U
  <2>6. Feeds(n) = Parents(n)
    BY <1>4 DEF Feeds
  <2>7. U \cup {n} \in Upstream(n)
    BY <1>1, <2>2, <2>3, <2>5, <2>6 DEF Upstream
  <2>8. QED
    BY <2>1, <2>4, <2>7
<1>5. QED
  BY <1>2, <1>3, <1>4

\* Nodes, injected shuffles and the ids of edges.
LEMMA PlanIdKinds ==
    ASSUME edges \subseteq Ids \X Ids, NEW id \in PlanIds
    PROVE  /\ id \notin Nodes => id \notin Ids /\ Parents(id) = {} /\ KindOf(id) = "ShuffleByKey"
           /\ id \in Nodes => KindOf(id) = op[id]
           /\ \A p \in Parents(id) : p \in PlanIds => p \in Nodes
<1>1. \A x \in PlanIds : x \notin Nodes => x \notin Ids
  BY DagAssumption DEF PlanIds
<1>2. id \notin Ids => Parents(id) = {}
  <2> SUFFICES ASSUME NEW p \in Parents(id) PROVE id \in Ids
    OBVIOUS
  <2>1. <<p, id>> \in edges
    BY ParentsIds
  <2>2. QED
    BY <2>1
<1>3. \A p \in Parents(id) : p \in Ids
  BY ParentsIds
<1>4. QED
  BY <1>1, <1>2, <1>3 DEF KindOf

\* The reference definitions depend on the graph alone.
LEMMA SourcesSame ==
    ASSUME edges' = edges, op' = op
    PROVE  /\ \A n : Sources(n)' = Sources(n)
           /\ SingleConsumer' <=> SingleConsumer
           /\ NoShuffle' <=> NoShuffle
<1>1. \A n : Parents(n)' = Parents(n)
  BY GraphSame
<1>2. \A n : Sources(n)' = Sources(n)
  BY DEF Sources, Upstream, Feeds, Parents
<1>3. QED
  BY <1>2 DEF SingleConsumer, Children, NoShuffle

-----------------------------------------------------------------------------
\* What an operator is given: an empty partition, or the outputs it takes.
Given(id, ps) ==
    /\ ps \in Seq(AllPartitions)
    /\ \A i, j \in 1..Len(ps) : ps[i].by = ps[j].by => i = j
    /\ Parents(id) = {} =>
          /\ ps # <<>>
          /\ \A x \in Elems(ps) : /\ x.by[1] = id /\ x.by[2] = 0 /\ ~x.spilled
                                  /\ x.data = {} /\ x.no = Partition
    /\ Parents(id) # {} =>
          \A x : x \in Elems(ps) <=> \E p \in Taken(id) : x \in Elems(results[p])

Merged(from) == FlattenSeq([k \in 1..Len(from) |-> results[from[k]]])

\* The partitions of several outputs have names of their own.
LEMMA FlattenNames ==
    ASSUME FlowTypeOK, Named, NEW S \in SUBSET PlanIds, \A p \in S : results[p] # Missing,
           NEW from \in Seq(S), \A a, b \in 1..Len(from) : from[a] = from[b] => a = b,
           NEW ps, ps = Merged(from)
    PROVE  /\ ps \in Seq(AllPartitions)
           /\ \A i, j \in 1..Len(ps) : ps[i].by = ps[j].by => i = j
           /\ \A x : x \in Elems(ps) <=> \E k \in 1..Len(from) : x \in Elems(results[from[k]])
<1> DEFINE ss == [k \in 1..Len(from) |-> results[from[k]]]
<1>1. /\ Len(from) \in Nat /\ \A k \in 1..Len(from) : from[k] \in PlanIds /\ from[k] \in S
      /\ \A p \in S : results[p] \in Seq(AllPartitions)
  BY DEF FlowTypeOK
<1>2. ss \in Seq(Seq(AllPartitions)) /\ Len(ss) = Len(from)
  BY <1>1
<1>3. \A k \in 1..Len(from) : ss[k] = results[from[k]] /\ ss[k] \in Seq(AllPartitions)
  BY <1>1
<1>4. ps = FlattenSeq(ss)
  BY DEF Merged
<1> HIDE DEF ss
<1>5. /\ ps \in Seq(AllPartitions)
      /\ \A x : x \in Elems(ps) <=> \E k \in 1..Len(ss) : x \in Elems(ss[k])
  BY <1>2, <1>4, FlattenElems
<1>6. IsLists(ss)
  <2>1. IsList(ss)
    BY <1>2, ListOfSeq
  <2>2. \A k \in 1..Len(ss) : IsList(ss[k])
    BY <1>2, <1>3, ListOfSeq
  <2>3. QED
    BY <2>1, <2>2 DEF IsLists
<1>7. PICK b : Enumerates(ps, b, Places(ss, Len(ss)), AtPlace(ss), LexLess)
  BY <1>4, <1>6, FlattenEnumerates
<1>8. \A i, j \in 1..Len(ps) : b[i] = b[j] => i = j
  <2>1. Asymmetric(LexLess)
    BY LessAsymmetric
  <2>2. \A p, q \in 1..Len(ps) : /\ <<b[p], b[q]>> \in LexLess => p < q
                                 /\ b[p] = b[q] => p = q
    BY <1>7, <2>1, EnumOrder
  <2>3. QED
    BY <2>2
<1>9. ASSUME NEW i \in 1..Len(ps)
      PROVE  /\ b[i] = <<b[i][1], b[i][2]>> /\ b[i][1] \in 1..Len(from)
             /\ ps[i].by = <<from[b[i][1]], b[i][2]>>
  <2>1. b[i] \in Places(ss, Len(ss)) /\ ps[i] = AtPlace(ss)[b[i]]
    BY <1>7 DEF Enumerates
  <2>2. b[i] \in Nat \X Nat /\ b[i][1] \in 1..Len(from) /\ b[i][2] \in 1..Len(ss[b[i][1]])
    BY <1>2, <2>1 DEF Places
  <2>3. ps[i] = ss[b[i][1]][b[i][2]]
    BY <2>1, <2>2 DEF AtPlace
  <2>4. ps[i] = results[from[b[i][1]]][b[i][2]] /\ b[i][2] \in 1..Len(results[from[b[i][1]]])
    BY <1>3, <2>2, <2>3
  <2>5. from[b[i][1]] \in PlanIds /\ results[from[b[i][1]]] # Missing
    BY <1>1, <2>2
  <2> DEFINE q == from[b[i][1]]
  <2>6. \A k \in 1..Len(results[q]) : results[q][k].by = <<q, k>>
    BY SMTT(30), <2>5 DEF Named
  <2>7. results[q][b[i][2]].by = <<q, b[i][2]>>
    BY <2>4, <2>6
  <2>8. b[i] = <<b[i][1], b[i][2]>>
    BY SMTT(30), <2>2
  <2>9. ps[i].by = <<q, b[i][2]>>
    BY <2>4, <2>7
  <2> HIDE DEF q
  <2>10. QED
    BY <2>2, <2>8, <2>9 DEF q
<1>10. ASSUME NEW i \in 1..Len(ps), NEW j \in 1..Len(ps), ps[i].by = ps[j].by PROVE i = j
  <2>1. from[b[i][1]] = from[b[j][1]] /\ b[i][2] = b[j][2]
    BY <1>9, <1>10
  <2>2. b[i][1] = b[j][1]
    BY <1>9, <2>1
  <2>3. b[i] = b[j]
    <3>1. <<b[i][1], b[i][2]>> = <<b[j][1], b[j][2]>>
      BY <2>1, <2>2
    <3>2. b[i] = <<b[i][1], b[i][2]>> /\ b[j] = <<b[j][1], b[j][2]>>
      BY <1>9
    <3>3. QED
      BY Zenon, <3>1, <3>2
  <2>4. QED
    BY <1>8, <2>3
<1>11. \A x : x \in Elems(ps) <=> \E k \in 1..Len(from) : x \in Elems(results[from[k]])
  BY <1>2, <1>3, <1>5
<1>12. QED
  BY <1>5, <1>10, <1>11

\* The inputs an operator may get are what it is given.
LEMMA InputsGiven ==
    ASSUME PlanInv, FlowTypeOK, Named, NEW id \in PlanIds, NEW ps \in Inputs(id)
    PROVE  Given(id, ps)
<1>1. edges \subseteq Ids \X Ids /\ results \in [PlanIds -> Seq(AllPartitions) \cup {Missing}]
  BY DEF PlanInv, PlanTypeOK, FlowTypeOK
<1>2. CASE Parents(id) = {}
  <2>0. PICK e : e = Filled(<<id, 0>>, <<Partition, Spill>>, FALSE, {})
    OBVIOUS
  <2>1. /\ e \in AllPartitions /\ e.by[1] = id /\ e.by[2] = 0 /\ ~e.spilled
        /\ e.data = {} /\ e.no = Partition
    <3>1. /\ <<Partition, Spill>> \in Nat \X Paths /\ {} \in SUBSET Nodes /\ FALSE \in BOOLEAN
          /\ 0 \in Nat
      BY ConstantsOK
    <3>2. /\ e \in AllPartitions /\ e.by = <<id, 0>> /\ e.no = <<Partition, Spill>>[1]
          /\ e.spilled = FALSE /\ e.data = {}
      BY <2>0, <3>1 DEF Filled, AllPartitions
    <3>3. QED
      BY <3>2
  <2>2. ps = <<e>>
    BY <1>2, <2>0 DEF Inputs
  <2>3. ps \in Seq(AllPartitions) /\ Len(ps) = 1 /\ ps[1] = e /\ ps # <<>>
    BY <2>1, <2>2
  <2>4. \A k \in 1..Len(ps) : k = 1
    BY <2>3
  <2>5. \A x \in Elems(ps) : x = e
    BY <2>3, <2>4 DEF Elems
  <2>6. QED
    BY <1>2, <2>1, <2>3, <2>4, <2>5 DEF Given
<1>3. CASE Parents(id) # {}
  <2>1. PICK from \in SetToSeqs(Taken(id)) :
           ps = FlattenSeq([k \in 1..Len(from) |-> results[from[k]]])
    BY <1>3 DEF Inputs
  <2>2. Taken(id) \in SUBSET PlanIds /\ \A p \in Taken(id) : results[p] # Missing
    BY DEF Taken
  <2>3. IsFiniteSet(Taken(id))
    <3>1. Taken(id) \in SUBSET Parents(id) /\ IsFiniteSet(Parents(id))
      BY <1>1, ParentsIds DEF Taken
    <3>2. QED
      BY <3>1, FS_Subset
  <2>4. /\ from \in Seq(Taken(id))
        /\ \A a, b \in 1..Len(from) : from[a] = from[b] => a = b
        /\ \A p \in Taken(id) : \E k \in 1..Len(from) : from[k] = p
    BY <2>1, <2>3, Enumerations
  <2>5. /\ ps \in Seq(AllPartitions)
        /\ \A i, j \in 1..Len(ps) : ps[i].by = ps[j].by => i = j
        /\ \A x : x \in Elems(ps) <=> \E k \in 1..Len(from) : x \in Elems(results[from[k]])
    <3>1. PICK S \in SUBSET PlanIds : S = Taken(id)
      BY <2>2
    <3>2. from \in Seq(S) /\ \A p \in S : results[p] # Missing
      BY <2>2, <2>4, <3>1
    <3>3. QED
      <4>1. ps = Merged(from)
        BY <2>1 DEF Merged
      <4>2. \A a, b \in 1..Len(from) : from[a] = from[b] => a = b
        BY <2>4
      <4>3. QED
        BY <3>2, <4>1, <4>2, FlattenNames
  <2>6. \A k \in 1..Len(from) : from[k] \in Taken(id)
    BY <2>4
  <2>7. \A x : x \in Elems(ps) <=> \E p \in Taken(id) : x \in Elems(results[p])
    BY <2>4, <2>5, <2>6
  <2>8. QED
    BY <1>3, <2>5, <2>7 DEF Given
<1>4. QED
  BY <1>2, <1>3

\* What an operator is to fill.
LEMMA SlotsOK ==
    ASSUME op \in [Nodes -> Kinds], NEW id \in PlanIds, NEW ps \in Seq(AllPartitions),
           NEW n \in Buckets(id), KindOf(id) = "Join" => Len(ps) = 2
    PROVE  /\ Slots(id, ps, n) \in Seq(Nat \X Paths)
           /\ ps # <<>> \/ KindOf(id) = "Read" => Slots(id, ps, n) # <<>>
           /\ KindOf(id) = "Map" => Len(Slots(id, ps, n)) = Len(ps)
           /\ KindOf(id) # "ShuffleByKey" /\ Mine(ps) =>
                 \A k \in 1..Len(Slots(id, ps, n)) : Slots(id, ps, n)[k][1] = Partition
<1> DEFINE s == Slots(id, ps, n)
<1>1. KindOf(id) \in AllKinds
  BY DagAssumption DEF KindOf, AllKinds
<1>2. /\ Len(ps) \in Nat
      /\ \A k \in 1..Len(ps) : ps[k] \in AllPartitions /\ ps[k] \in Elems(ps)
      /\ \A k \in 1..Len(ps) : ps[k].no \in Nat /\ ps[k].path \in Paths
  BY PartitionFields DEF Elems
<1>3. ASSUME NEW i \in Nat, NEW p \in Paths
      PROVE  /\ <<<<i, p>>>> \in Seq(Nat \X Paths) /\ <<<<i, p>>>> # <<>>
             /\ i = Partition =>
                   \A k \in 1..Len(<<<<i, p>>>>) : <<<<i, p>>>>[k][1] = Partition
  <2>1. <<i, p>> \in Nat \X Paths
    OBVIOUS
  <2> DEFINE one == <<<<i, p>>>>
  <2>2. one \in Seq(Nat \X Paths) /\ Len(one) = 1 /\ one[1] = <<i, p>> /\ one # <<>>
    BY <2>1
  <2> HIDE DEF one
  <2>3. \A k \in 1..Len(one) : one[k][1] = i
    BY <2>2
  <2>4. QED
    BY <2>2, <2>3 DEF one
<1>4. CASE KindOf(id) = "Read"
  <2>1. s = <<<<Partition, Spill>>>>
    BY <1>4 DEF Slots, Read
  <2>2. QED
    BY <1>3, <1>4, <2>1, ConstantsOK
<1>5. CASE KindOf(id) = "Map"
  <2>1. s = [k \in 1..Len(ps) |-> <<ps[k].no, ps[k].path>>]
    BY <1>5 DEF Slots, Map, Slot
  <2>2. s \in Seq(Nat \X Paths) /\ Len(s) = Len(ps)
    BY <1>2, <2>1
  <2>3. ps # <<>> => s # <<>>
    BY <1>2, <2>2, EmptySeq
  <2>4. \A k \in 1..Len(ps) : s[k][1] = ps[k].no
    BY <2>1
  <2> HIDE DEF s
  <2>5. Mine(ps) => \A k \in 1..Len(s) : s[k][1] = Partition
    BY <1>2, <2>2, <2>4 DEF Mine
  <2>6. QED
    BY <1>5, <2>2, <2>3, <2>5 DEF s
<1>6. CASE KindOf(id) = "Join"
  <2> DEFINE i == IF ps[1].no <= ps[2].no THEN ps[1].no ELSE ps[2].no
  <2>1. s = <<<<i, ps[1].path>>>>
    BY <1>6 DEF Slots, Join
  <2>0. Len(ps) = 2
    BY <1>6
  <2>2. 1 \in 1..Len(ps) /\ 2 \in 1..Len(ps)
    BY <2>0
  <2>3. i \in Nat /\ ps[1].path \in Paths
    BY <1>2, <2>2
  <2>4. Mine(ps) => i = Partition
    BY <1>2, <2>2 DEF Mine
  <2> HIDE DEF i
  <2>5. QED
    BY <1>3, <1>6, <2>1, <2>3, <2>4
<1>7. CASE KindOf(id) = "ReduceByKey"
  <2>1. s = Reduce(ps)
    BY <1>7 DEF Slots
  <2>2. CASE ps = <<>>
    <3>1. s = <<>>
      BY <2>1, <2>2 DEF Reduce
    <3>2. s \in Seq(Nat \X Paths) /\ Len(s) = 0
      BY <3>1
    <3>3. \A k \in 1..Len(s) : FALSE
      BY <3>2
    <3>4. QED
      BY <1>7, <2>2, <3>2, <3>3
  <2>3. CASE ps # <<>>
    <3>1. 1 \in 1..Len(ps)
      BY <1>2, <2>3, EmptySeq
    <3>2. s = <<<<ps[1].no, ps[1].path>>>>
      BY <2>1, <2>3 DEF Reduce, Slot
    <3>3. Mine(ps) => ps[1].no = Partition
      BY <1>2, <3>1 DEF Mine
    <3>4. QED
      BY <1>2, <1>3, <1>7, <3>1, <3>2, <3>3
  <2>4. QED
    BY <2>2, <2>3
<1>8. CASE KindOf(id) = "ShuffleByKey"
  <2>1. n \in 1..MaxBuckets /\ MaxBuckets \in Nat
    BY ConstantsOK DEF Buckets
  <2>2. s = [b \in 1..n |-> <<b - 1, Bucket(b - 1)>>]
    BY <1>8 DEF Slots, Shuffle
  <2>3. \A b \in 1..n : <<b - 1, Bucket(b - 1)>> \in Nat \X Paths
    <3> SUFFICES ASSUME NEW b \in 1..n PROVE <<b - 1, Bucket(b - 1)>> \in Nat \X Paths
      OBVIOUS
    <3>1. b - 1 \in 0..(MaxBuckets - 1) /\ b - 1 \in Nat
      BY <2>1
    <3>2. Bucket(b - 1) \in Paths
      BY <3>1 DEF Paths
    <3>3. QED
      BY <3>1, <3>2
  <2>4. s \in Seq(Nat \X Paths) /\ Len(s) = n
    BY <2>1, <2>2, <2>3
  <2>5. s # <<>>
    BY <2>1, <2>4, EmptySeq
  <2>6. QED
    BY <1>8, <2>4, <2>5
<1>9. QED
  BY <1>1, <1>4, <1>5, <1>6, <1>7, <1>8 DEF AllKinds

\* In a well-formed graph where no node feeds two others, an operator finds the
\* outputs of all its parents.
LEMMA ParentsThere ==
    ASSUME PlanInv, FlowTypeOK, phase = "Execute", WellFormed, SingleConsumer,
           step + 1 \in 1..Len(plan), NEW p \in Parents(plan[step + 1])
    PROVE  p \in Nodes /\ \E k \in 1..step : plan[k] = p /\ Untaken(plan[k])
<1> DEFINE id == plan[step + 1]
<1>1. /\ edges \subseteq Ids \X Ids /\ step \in Nat /\ PlanSound
      /\ plan \in Seq(PlanIds)
  BY DEF PlanInv, PlanTypeOK, FlowTypeOK
<1>2. <<p, id>> \in edges
  BY <1>1, ParentsIds
<1>3. p \in Nodes /\ id \in Nodes
  BY <1>2 DEF WellFormed
<1>4. PICK k \in 1..step : plan[k] = p
  <2>1. \A b \in 1..Len(plan) : \A q \in Parents(plan[b]) : \E a \in 1..(b - 1) : plan[a] = q
    BY <1>1 DEF PlanSound
  <2>2. PICK b \in 1..Len(plan) : b = step + 1
    OBVIOUS
  <2>3. \E a \in 1..(b - 1) : plan[a] = p
    BY <2>1, <2>2
  <2>4. b - 1 = step
    BY <1>1, <2>2
  <2>5. QED
    BY <2>3, <2>4
<1>6. ASSUME NEW m \in 1..step, p \in Parents(plan[m]) PROVE FALSE
  <2>1. plan[m] \in Children(p) /\ id \in Children(p)
    BY <1>1, <1>2, <1>6, ParentsIds
  <2>2. IsFiniteSet(Children(p))
    <3>1. Children(p) \in SUBSET Ids
      BY <1>1, ParentsIds
    <3>2. QED
      BY <3>1, DagAssumption, FS_Subset
  <2>3. Cardinality(Children(p)) \in Nat /\ Cardinality(Children(p)) <= 1
    BY <1>3, <2>2, FS_CardinalityType DEF SingleConsumer
  <2>4. Cardinality(Children(p)) = 1
    BY <2>1, <2>2, <2>3, FS_EmptySet
  <2>5. plan[m] = id
    BY <2>1, <2>2, <2>4, FS_Singleton
  <2>6. m \in 1..Len(plan) /\ m # step + 1
    BY <1>1
  <2>7. QED
    BY <1>1, <1>3, <2>5, <2>6 DEF PlanSound
<1>7. QED
  BY <1>3, <1>4, <1>6 DEF Untaken

\* What an operator with this plan position is, and its parents.
LEMMA GraphFacts ==
    ASSUME PlanInv
    PROVE  /\ edges \subseteq Ids \X Ids /\ op \in [Nodes -> Kinds] /\ Nodes \subseteq PlanIds
           /\ \A id \in PlanIds :
                 /\ id \notin Nodes => Parents(id) = {} /\ KindOf(id) = "ShuffleByKey"
                 /\ id \in Nodes => KindOf(id) = op[id]
                 /\ KindOf(id) = "Read" => id \in Nodes
                 /\ Taken(id) \subseteq Parents(id) /\ Taken(id) \subseteq Nodes
<1>1. edges \subseteq Ids \X Ids /\ op \in [Nodes -> Kinds] /\ Nodes \subseteq PlanIds
  BY DEF PlanInv, PlanTypeOK, PlanIds
<1>2. ASSUME NEW id \in PlanIds
      PROVE  /\ id \notin Nodes => Parents(id) = {} /\ KindOf(id) = "ShuffleByKey"
             /\ id \in Nodes => KindOf(id) = op[id]
             /\ Taken(id) \subseteq Parents(id) /\ Taken(id) \subseteq Nodes
  <2>1. /\ id \notin Nodes => id \notin Ids /\ Parents(id) = {} /\ KindOf(id) = "ShuffleByKey"
        /\ id \in Nodes => KindOf(id) = op[id]
        /\ \A p \in Parents(id) : p \in PlanIds => p \in Nodes
    BY <1>1, PlanIdKinds
  <2>2. QED
    BY <2>1 DEF Taken
<1>3. QED
  BY <1>1, <1>2

\* The graph and what is defined by it stay the same while a task runs.
LEMMA FlowSame ==
    ASSUME UNCHANGED <<edges, op, plan>>
    PROVE  /\ \A n : Sources(n)' = Sources(n) /\ From(n)' = From(n)
           /\ \A n : Parents(n)' = Parents(n) /\ Children(n)' = Children(n)
           /\ \A n : KindOf(n)' = KindOf(n)
           /\ WellFormed' <=> WellFormed
           /\ SingleConsumer' <=> SingleConsumer
           /\ NoShuffle' <=> NoShuffle
           /\ AllDrained' <=> AllDrained
<1>1. /\ \A n : Sources(n)' = Sources(n)
      /\ SingleConsumer' <=> SingleConsumer
      /\ NoShuffle' <=> NoShuffle
  BY SourcesSame
<1>2. (\A n : Parents(n)' = Parents(n)) /\ (WellFormed' <=> WellFormed)
  BY GraphSame
<1>3. \A n : Children(n)' = Children(n) /\ KindOf(n)' = KindOf(n)
  BY DEF Children, KindOf
<1>4. AllDrained' <=> AllDrained
  BY DEF AllDrained, Children, Last
<1>5. \A n : From(n)' = From(n)
  BY <1>1 DEF From
<1>6. QED
  BY <1>1, <1>2, <1>3, <1>4, <1>5

-----------------------------------------------------------------------------
\* A turn of the pipeline loop starts: operator id is given ps.
Started(id, ps) ==
    /\ Given(id, ps)
    /\ todo' = IF KindOf(id) = "Read" THEN <<>> ELSE ps
    /\ held' = IF KindOf(id) = "Read" THEN {id} ELSE {}
    /\ slots' \in Seq(Nat \X Paths)
    /\ ps # <<>> \/ KindOf(id) = "Read" => slots' # <<>>
    /\ KindOf(id) = "Map" => Len(slots') = Len(ps)
    /\ KindOf(id) # "ShuffleByKey" /\ Mine(ps) =>
          \A k \in 1..Len(slots') : slots'[k][1] = Partition
    /\ results' \in [PlanIds -> Seq(AllPartitions) \cup {Missing}]
    /\ results'[id] = <<>>
    /\ \A p \in PlanIds : p # id =>
          results'[p] = IF p \in Taken(id) THEN Missing ELSE results[p]

\* What is known of the state when a turn starts.
AtStart(id) ==
    /\ phase = "Execute" /\ Idle /\ todo = <<>> /\ slots = <<>>
    /\ step \in Nat /\ step + 1 \in 1..Len(plan) /\ id = plan[step + 1] /\ id \in PlanIds
    /\ UNCHANGED <<edges, op, phase, incoming, queue, ordered, next, plan, disk, output, written,
                   seen, met, stuck>>
    /\ step' = step + 1 /\ Current' = id /\ Len(plan) \in Nat
    /\ id \in Nodes => /\ results[id] = Missing
                       /\ \A k \in 1..step : plan[k] # id
    /\ seen[id] = {}

\* The first action of a turn, taken apart.
LEMMA StartStep ==
    ASSUME FlowInv, StartOp
    PROVE  \E id \in PlanIds : AtStart(id) /\ \E ps : Started(id, ps)
<1> DEFINE id == plan[step + 1]
<1>1. /\ phase = "Execute" /\ step < Len(plan) /\ Idle /\ todo = <<>> /\ slots = <<>>
      /\ step' = step + 1
      /\ UNCHANGED <<edges, op, phase, incoming, queue, ordered, next, plan, disk, output, written,
                     seen, met, stuck>>
  BY DEF StartOp, dagVars, Idle
<1>2. Planned /\ PlanInv /\ step \in Nat
  BY <1>1 DEF Planned, FlowInv, FlowTypeOK
<1>3. /\ Len(plan) \in Nat /\ step + 1 \in 1..Len(plan) /\ id \in PlanIds
      /\ \A a, b \in 1..Len(plan) : plan[a] \in Nodes /\ plan[a] = plan[b] => a = b
  BY <1>1, <1>2, PlanMade
<1>4. Current' = id
  BY <1>1 DEF Current
<1>5. ASSUME id \in Nodes
      PROVE  /\ \A k \in 1..step : plan[k] # id
             /\ results[id] = Missing /\ seen[id] = {}
  <2>1. ASSUME NEW k \in 1..step PROVE plan[k] # id
    <3>1. k \in 1..Len(plan) /\ k # step + 1
      BY <1>2, <1>3
    <3>2. QED
      BY <1>3, <1>5, <3>1
  <2>2. QED
    BY <1>5, <2>1 DEF FlowInv, Unstarted
<1>6. seen[id] = {}
  BY <1>3, <1>5 DEF FlowInv, InjectedEmpty
<1>7. AtStart(id)
  BY <1>1, <1>2, <1>3, <1>4, <1>5, <1>6 DEF AtStart
<1>8. PICK ps \in Inputs(id), n \in Buckets(id) :
         /\ KindOf(id) = "Join" => Len(ps) = 2
         /\ todo' = IF KindOf(id) = "Read" THEN <<>> ELSE ps
         /\ slots' = Slots(id, ps, n)
         /\ held' = IF KindOf(id) = "Read" THEN {id} ELSE {}
         /\ results' = [p \in PlanIds |-> IF p = id THEN <<>>
                                          ELSE IF p \in Taken(id) THEN Missing
                                          ELSE results[p]]
  BY DEF StartOp
<1> HIDE DEF id
<1>9. Given(id, ps)
  BY <1>2, <1>3, <1>8, InputsGiven DEF FlowInv
<1>10. /\ slots' \in Seq(Nat \X Paths)
       /\ ps # <<>> \/ KindOf(id) = "Read" => slots' # <<>>
       /\ KindOf(id) = "Map" => Len(slots') = Len(ps)
       /\ KindOf(id) # "ShuffleByKey" /\ Mine(ps) =>
             \A k \in 1..Len(slots') : slots'[k][1] = Partition
  <2>1. ps \in Seq(AllPartitions) /\ op \in [Nodes -> Kinds]
    BY <1>2, <1>9, GraphFacts DEF Given
  <2>2. /\ Slots(id, ps, n) \in Seq(Nat \X Paths)
        /\ ps # <<>> \/ KindOf(id) = "Read" => Slots(id, ps, n) # <<>>
        /\ KindOf(id) = "Map" => Len(Slots(id, ps, n)) = Len(ps)
        /\ KindOf(id) # "ShuffleByKey" /\ Mine(ps) =>
              \A k \in 1..Len(Slots(id, ps, n)) : Slots(id, ps, n)[k][1] = Partition
    BY <1>3, <1>8, <2>1, SlotsOK
  <2>3. QED
    BY <1>8, <2>2
<1>11. /\ results' \in [PlanIds -> Seq(AllPartitions) \cup {Missing}]
       /\ results'[id] = <<>>
       /\ \A p \in PlanIds : p # id =>
             results'[p] = IF p \in Taken(id) THEN Missing ELSE results[p]
  <2>1. results \in [PlanIds -> Seq(AllPartitions) \cup {Missing}] /\ <<>> \in Seq(AllPartitions)
    BY DEF FlowInv, FlowTypeOK
  <2>2. QED
    BY <1>3, <1>8, <2>1
<1>12. Started(id, ps)
  BY <1>8, <1>9, <1>10, <1>11 DEF Started
<1>13. QED
  BY <1>3, <1>7, <1>12

\* A start keeps what holds of any graph.
LEMMA StartBase ==
    ASSUME FlowInv, NEW id \in PlanIds, AtStart(id), NEW ps, Started(id, ps)
    PROVE  FlowTypeOK' /\ Bounds' /\ Unstarted' /\ InjectedEmpty' /\ Named' /\ Kept'
<1>1. /\ PlanInv /\ FlowTypeOK /\ Unstarted /\ InjectedEmpty /\ Named /\ Kept
      /\ Missing # <<>> /\ step \in Nat /\ step + 1 \in 1..Len(plan) /\ Len(plan) \in Nat
  BY ConstantsOK DEF FlowInv, AtStart
<1>2. /\ phase = "Execute" /\ phase' = "Execute" /\ plan' = plan /\ seen' = seen
      /\ step' = step + 1 /\ Current' = id /\ output' = {}
      /\ \A n : KindOf(n)' = KindOf(n)
  BY FlowSame DEF AtStart, FlowInv, Bounds
<1>3. /\ Elems(<<>>) = {}
      /\ ps \in Seq(AllPartitions)
      /\ id \notin Nodes => Parents(id) = {} /\ KindOf(id) = "ShuffleByKey"
      /\ KindOf(id) = "Read" => id \in Nodes
      /\ Taken(id) \subseteq Nodes /\ Taken(id) \subseteq Parents(id)
  BY <1>1, GraphFacts DEF Elems, Started, Given
<1>4. FlowTypeOK'
  <2>1. todo' \in Seq(AllPartitions) /\ held' \in SUBSET Nodes
    BY <1>3 DEF Started
  <2>2. step' \in Nat /\ step' <= Len(plan')
    BY <1>1, <1>2
  <2>3. UNCHANGED <<disk, output, written, seen, met>>
    BY DEF AtStart
  <2>4. results' \in [PlanIds -> Seq(AllPartitions) \cup {Missing}] /\ slots' \in Seq(Nat \X Paths)
    BY DEF Started
  <2>5. QED
    BY <1>1, <2>1, <2>2, <2>3, <2>4 DEF FlowTypeOK
<1>5. Bounds'
  <2>1. todo' # <<>> => slots' # <<>>
    BY DEF Started
  <2>2. KindOf(id) = "Map" => Len(todo') = Len(slots') /\ Len(slots') \in Nat
    BY DEF Started
  <2>3. Planned'
    BY <1>2 DEF Planned
  <2>4. results'[Current'] # Missing /\ step' > 0
    BY <1>1, <1>2 DEF Started
  <2>5. KindOf(Current)' = "Map" => Len(todo') <= Len(slots')
    BY <1>2, <2>2
  <2>6. ~Idle' => slots' # <<>>
    BY <2>1 DEF Idle
  <2>7. QED
    BY <1>2, <2>3, <2>4, <2>5, <2>6 DEF Bounds
<1>6. Unstarted'
  <2> SUFFICES ASSUME NEW n \in Nodes, \A k \in 1..(step + 1) : plan[k] # n
               PROVE  results'[n] = Missing /\ seen[n] = {}
    BY <1>2 DEF Unstarted
  <2>1. n # id /\ n \in PlanIds
    BY <1>1 DEF AtStart, PlanIds
  <2>2. results[n] = Missing /\ seen[n] = {}
    BY <1>1 DEF Unstarted
  <2>3. QED
    BY <2>1, <2>2 DEF Started
<1>7. InjectedEmpty'
  <2>1. ASSUME NEW p \in PlanIds \ Nodes, results'[p] # Missing
        PROVE  \A x \in Elems(results'[p]) : ~x.spilled
    <3>1. CASE p = id
      BY <1>3, <3>1 DEF Started
    <3>2. CASE p # id
      <4>1. results'[p] = results[p]
        BY <1>3, <2>1, <3>2 DEF Started
      <4>2. QED
        BY <1>1, <2>1, <4>1 DEF InjectedEmpty
    <3>3. QED
      BY <3>1, <3>2
  <2>2. ASSUME id \notin Nodes
        PROVE  held' = {} /\ \A x \in Elems(todo') : x.data = {} /\ ~x.spilled
    <3>1. Parents(id) = {} /\ KindOf(id) = "ShuffleByKey"
      BY <1>3, <2>2
    <3>2. QED
      BY <3>1 DEF Started, Given
  <2>3. \A p \in PlanIds \ Nodes : seen'[p] = {}
    BY <1>1, <1>2 DEF InjectedEmpty
  <2>4. QED
    BY <1>2, <2>1, <2>2, <2>3 DEF InjectedEmpty
<1>8. Named'
  <2>1. ASSUME NEW p \in PlanIds, results'[p] # Missing
        PROVE  \A k \in 1..Len(results'[p]) : results'[p][k].by = <<p, k>>
    <3>1. CASE p = id
      BY <3>1 DEF Started
    <3>2. CASE p # id
      <4>1. results'[p] = results[p] /\ results[p] # Missing
        BY <2>1, <3>2 DEF Started
      <4>2. QED
        BY <1>1, <4>1 DEF Named
    <3>3. QED
      BY <3>1, <3>2
  <2>2. \A i, j \in 1..Len(todo') : todo'[i].by = todo'[j].by => i = j
    <3>1. CASE todo' = <<>>
      BY <3>1
    <3>2. CASE todo' # <<>>
      <4>1. todo' = ps
        BY <3>2 DEF Started
      <4>2. QED
        BY <4>1 DEF Started, Given
    <3>3. QED
      BY <3>1, <3>2
  <2>3. ASSUME NEW i \in 1..Len(todo')
        PROVE  IF todo'[i].by[2] = 0 THEN ~todo'[i].spilled
               ELSE results'[todo'[i].by[1]] = Missing
    <3>1. todo' = ps /\ todo'[i] = ps[i] /\ ps[i] \in Elems(ps)
      <4>1. todo' # <<>>
        OBVIOUS
      <4>2. todo' = ps
        BY <4>1 DEF Started
      <4>3. QED
        BY <4>2 DEF Elems
    <3>2. CASE Parents(id) = {}
      BY <3>1, <3>2 DEF Started, Given
    <3>3. CASE Parents(id) # {}
      <4>1. PICK p \in Taken(id) : ps[i] \in Elems(results[p])
        BY <3>1, <3>3 DEF Started, Given
      <4>2. p \in PlanIds /\ results[p] # Missing /\ p # id
        BY <1>3, <3>3, <4>1 DEF Taken, AtStart
      <4>3. PICK k \in 1..Len(results[p]) : ps[i] = results[p][k]
        BY <4>1 DEF Elems
      <4>4. ps[i].by = <<p, k>>
        BY <1>1, <4>2, <4>3 DEF Named
      <4>5. ps[i].by[1] = p /\ ps[i].by[2] = k /\ k # 0
        BY <4>3, <4>4
      <4>6. results'[p] = Missing
        BY <4>1, <4>2 DEF Started
      <4>7. QED
        BY <3>1, <4>5, <4>6
    <3>4. QED
      BY <3>2, <3>3
  <2>4. QED
    BY <2>1, <2>2, <2>3 DEF Named
<1>9. Kept'
  <2>1. ASSUME NEW p \in PlanIds, results'[p] # Missing, NEW a
        PROVE  a \in seen'[p] <=> \E x \in Elems(results'[p]) : a \in x.data
    <3>1. CASE p = id
      BY <1>2, <1>3, <3>1 DEF Started, AtStart
    <3>2. CASE p # id
      <4>1. results'[p] = results[p] /\ results[p] # Missing
        BY <2>1, <3>2 DEF Started
      <4>2. QED
        BY <1>1, <1>2, <4>1 DEF Kept
    <3>3. QED
      BY <3>1, <3>2
  <2>2. QED
    BY <2>1 DEF Kept
<1>10. QED
  BY <1>4, <1>5, <1>6, <1>7, <1>8, <1>9

\* No file changes hands when a turn starts; when every output is drained, no
\* partition that waits for a file is dropped either.
LEMMA StartTickets ==
    ASSUME FlowInv, NEW id \in PlanIds, AtStart(id), NEW ps, Started(id, ps)
    PROVE  /\ Tickets' \subseteq Tickets
           /\ WellFormed /\ AllDrained => Tickets \subseteq Tickets'
<1>1. /\ PlanInv /\ FlowTypeOK /\ InjectedEmpty /\ Elems(<<>>) = {} /\ Missing # <<>>
      /\ Planned /\ todo = <<>>
  BY ConstantsOK DEF FlowInv, AtStart, Planned, Elems
<1>2. /\ edges \subseteq Ids \X Ids
      /\ id \notin Nodes => Parents(id) = {} /\ KindOf(id) = "ShuffleByKey"
      /\ id \in Nodes => KindOf(id) = op[id]
      /\ Taken(id) \subseteq Nodes /\ Taken(id) \subseteq Parents(id) /\ Taken(id) \subseteq PlanIds
  BY <1>1, GraphFacts DEF Taken
<1>3. ASSUME NEW x \in Tickets' PROVE x \in Tickets
  <2>1. x \in AllPartitions /\ x.spilled
    BY DEF Tickets
  <2>2. CASE x \in Elems(todo')
    <3>1. todo' = ps /\ x \in Elems(ps)
      BY <1>1, <2>2 DEF Started
    <3>2. Parents(id) # {}
      BY <2>1, <3>1 DEF Started, Given
    <3>3. PICK p \in Taken(id) : x \in Elems(results[p])
      BY <3>1, <3>2 DEF Started, Given
    <3>4. p \in PlanIds /\ results[p] # Missing
      BY <1>2, <3>3 DEF Taken
    <3>5. QED
      BY <2>1, <3>3, <3>4 DEF Tickets
  <2>3. ASSUME NEW p \in PlanIds, results'[p] # Missing, x \in Elems(results'[p])
        PROVE  x \in Tickets
    <3>1. p # id
      BY <1>1, <2>3 DEF Started
    <3>2. results'[p] = results[p]
      BY <2>3, <3>1 DEF Started
    <3>3. QED
      BY <2>1, <2>3, <3>2 DEF Tickets
  <2>4. QED
    BY <2>2, <2>3 DEF Tickets
<1>4. ASSUME WellFormed, AllDrained, NEW x \in Tickets PROVE x \in Tickets'
  <2>1. x \in AllPartitions /\ x.spilled
    BY DEF Tickets
  <2>2. PICK p \in PlanIds : results[p] # Missing /\ x \in Elems(results[p])
    BY <1>1 DEF Tickets
  <2>3. p # id
    <3>1. id \notin Nodes => \A y \in Elems(results[id]) : results[id] # Missing => ~y.spilled
      BY <1>1 DEF InjectedEmpty
    <3>2. QED
      BY <2>1, <2>2, <3>1 DEF AtStart
  <2>4. CASE p \in Taken(id)
    <3>1. p \in Parents(id) /\ p \in Nodes /\ id \in Nodes
      BY <1>2, <2>4
    <3>2. p # Last(plan)
      <4>1. PICK k \in 1..Len(plan) : k = step + 1
        BY DEF AtStart
      <4>2. PICK a \in 1..(k - 1) : plan[a] = p
        BY <1>1, <1>4, <3>1, <4>1, PlanMade DEF AtStart
      <4>3. a \in 1..Len(plan) /\ a # Len(plan)
        BY <4>1, <4>2 DEF AtStart
      <4>4. QED
        BY <1>1, <3>1, <4>2, <4>3, PlanMade
    <3>3. id \in Children(p)
      BY <1>2, <3>1, ParentsIds
    <3>4. KindOf(id) # "Read"
      BY <1>2, <1>4, <3>1, <3>2, <3>3 DEF AllDrained
    <3>5. todo' = ps /\ x \in Elems(ps)
      BY <2>2, <2>4, <3>1, <3>4 DEF Started, Given
    <3>6. QED
      BY <2>1, <3>5 DEF Tickets
  <2>5. CASE p \notin Taken(id)
    <3>1. results'[p] = results[p]
      BY <2>3, <2>5 DEF Started
    <3>2. QED
      BY <2>1, <2>2, <3>1 DEF Tickets
  <2>6. QED
    BY <2>4, <2>5
<1>5. QED
  BY <1>3, <1>4

\* A start and the files.
LEMMA StartFiles ==
    ASSUME FlowInv, NEW id \in PlanIds, AtStart(id), NEW ps, Started(id, ps)
    PROVE  Apart' /\ Claims'
<1>1. /\ Tickets' \subseteq Tickets
      /\ WellFormed /\ AllDrained => Tickets \subseteq Tickets'
  BY StartTickets
<1>2. /\ disk' = disk /\ met' = met /\ stuck' = stuck /\ phase' = phase /\ phase = "Execute"
      /\ WellFormed' <=> WellFormed
      /\ AllDrained' <=> AllDrained
      /\ Apart /\ Claims
  BY FlowSame DEF AtStart, FlowInv
<1>3. Apart'
  BY <1>1, <1>2 DEF Apart
<1>4. ASSUME ~stuck, WellFormed, AllDrained
      PROVE  /\ \A p \in Paths : disk[p] # NoFile => Claimed(p)
             /\ \A p \in met : Claimed(p) /\ (disk[p] # NoFile => Contested(p))
  BY <1>2, <1>4 DEF Claims, Planned
<1>5. ASSUME WellFormed, AllDrained, NEW p
      PROVE  /\ Claimed(p) => Claimed(p)'
             /\ Contested(p) => Contested(p)'
  BY <1>1, <1>5 DEF Claimed, Contested
<1>6. QED
  BY <1>2, <1>3, <1>4, <1>5 DEF Claims

\* What an operator is given comes from what feeds it.
LEMMA StartWithin ==
    ASSUME FlowInv, NEW id \in PlanIds, AtStart(id), NEW ps, Started(id, ps)
    PROVE  Within'
<1> SUFFICES ASSUME met = {} PROVE Within'
  BY DEF AtStart, Within
<1>1. /\ PlanInv /\ Kept /\ Elems(<<>>) = {}
      /\ \A p \in PlanIds : seen[p] \subseteq From(p)
  BY DEF FlowInv, Within, Elems
<1>2. /\ edges \subseteq Ids \X Ids
      /\ id \notin Nodes => Parents(id) = {} /\ KindOf(id) = "ShuffleByKey"
      /\ id \in Nodes => KindOf(id) = op[id]
      /\ KindOf(id) = "Read" => id \in Nodes
      /\ Taken(id) \subseteq Nodes /\ Taken(id) \subseteq Parents(id) /\ Taken(id) \subseteq PlanIds
  BY <1>1, GraphFacts DEF Taken
<1>3. held' \subseteq From(id)
  <2>1. KindOf(id) = "Read" => Sources(id) = {id}
    BY <1>2, SourcesStep
  <2>2. QED
    BY <1>2, <2>1 DEF Started, From
<1>4. ASSUME NEW x \in Elems(todo') PROVE x.data \subseteq From(id)
  <2>1. todo' = ps /\ x \in Elems(ps) /\ KindOf(id) # "Read"
    BY <1>1 DEF Started
  <2>2. CASE Parents(id) = {}
    BY <2>1, <2>2 DEF Started, Given
  <2>3. CASE Parents(id) # {}
    <3>1. PICK p \in Taken(id) : x \in Elems(results[p])
      BY <2>1, <2>3 DEF Started, Given
    <3>2. /\ p \in PlanIds /\ p \in Nodes /\ p \in Parents(id) /\ results[p] # Missing
          /\ id \in Nodes /\ op[id] # "Read"
      BY <1>2, <2>1, <2>3, <3>1 DEF Taken
    <3>3. ASSUME NEW a \in x.data PROVE a \in Sources(id)
      <4>1. a \in seen[p]
        BY <1>1, <3>1, <3>2 DEF Kept
      <4>2. a \in Sources(p)
        BY <1>1, <3>2, <4>1 DEF From
      <4>3. QED
        BY <1>2, <3>2, <4>2, SourcesStep
    <3>4. QED
      BY <3>2, <3>3 DEF From
  <2>4. QED
    BY <2>2, <2>3
<1>5. /\ met' = {} /\ seen' = seen /\ phase' = "Execute" /\ Current' = id
      /\ \A n : From(n)' = From(n)
  BY FlowSame DEF AtStart
<1>6. QED
  BY <1>1, <1>3, <1>4, <1>5 DEF Within

\* In a graph without forks it is all that feeds it.
LEMMA StartExhaustive ==
    ASSUME FlowInv, NEW id \in PlanIds, AtStart(id), NEW ps, Started(id, ps)
    PROVE  Exhaustive'
<1>0. /\ met' = met /\ seen' = seen /\ phase' = "Execute" /\ plan' = plan /\ step' = step + 1
      /\ phase = "Execute" /\ step \in Nat /\ step + 1 \in 1..Len(plan) /\ id = plan[step + 1]
      /\ todo = <<>> /\ slots = <<>> /\ Current' = id
      /\ \A n : Sources(n)' = Sources(n) /\ KindOf(n)' = KindOf(n)
      /\ WellFormed' <=> WellFormed
      /\ SingleConsumer' <=> SingleConsumer
  BY FlowSame DEF AtStart
<1>1. SUFFICES ASSUME met = {}, WellFormed, SingleConsumer, NEW k \in 1..(step + 1),
                      plan[k] \in Nodes, NEW a \in Sources(plan[k])
               PROVE  IF k = step + 1 THEN a \in seen[plan[k]] \/ a \in Pending'
                      ELSE a \in seen[plan[k]]
  <2>1. ASSUME met = {}, WellFormed, SingleConsumer, NEW k \in 1..(step + 1), plan[k] \in Nodes
        PROVE  Sources(plan[k]) \subseteq
                   IF k = step + 1 THEN seen[plan[k]] \cup Pending' ELSE seen[plan[k]]
    BY <1>1, <2>1
  <2>2. QED
    BY <1>0, <2>1 DEF Exhaustive
<1>2. /\ PlanInv /\ FlowTypeOK /\ Kept /\ Elems(<<>>) = {}
  BY DEF FlowInv, Elems
<1>3. Pending = {}
  BY <1>0, <1>2 DEF Pending
<1>4. \A j \in 1..step : plan[j] \in Nodes => Sources(plan[j]) \subseteq seen[plan[j]]
  BY <1>0, <1>1, <1>3 DEF FlowInv, Exhaustive
<1>5. CASE k # step + 1
  <2>1. k \in 1..step
    BY <1>0, <1>5
  <2>2. QED
    BY <1>1, <1>4, <1>5, <2>1
<1>6. CASE k = step + 1
  <2>1. id \in Nodes /\ a \in Sources(id) /\ KindOf(id) = op[id] /\ edges \subseteq Ids \X Ids
    BY <1>0, <1>1, <1>2, <1>6, GraphFacts
  <2>2. a \in Nodes
    BY <2>1 DEF Sources
  <2>3. CASE op[id] = "Read"
    <3>1. a = id
      BY <2>1, <2>3, SourcesStep
    <3>2. held' = {id} /\ slots' # <<>> /\ KindOf(Current)' # "Map"
      BY <1>0, <2>1, <2>3 DEF Started
    <3>3. a \in Pending'
      BY <2>2, <3>1, <3>2 DEF Pending
    <3>4. QED
      BY <1>6, <3>3
  <2>4. CASE op[id] # "Read"
    <3>1. PICK p \in Parents(id) : a \in Sources(p)
      BY <2>1, <2>4, SourcesStep
    <3>2. p \in Nodes /\ \E j \in 1..step : plan[j] = p /\ Untaken(plan[j])
      BY <1>0, <1>1, <1>2, <3>1, ParentsThere
    <3>3. PICK j \in 1..step : plan[j] = p /\ Untaken(plan[j])
      BY <3>2
    <3>4. results[p] # Missing /\ a \in seen[p]
      BY <1>0, <1>1, <1>4, <3>1, <3>2, <3>3 DEF FlowInv, Waiting
    <3>5. p \in Taken(id) /\ p \in PlanIds
      BY <3>1, <3>2, <3>4 DEF Taken, PlanIds
    <3>6. PICK x \in Elems(results[p]) : a \in x.data
      BY <1>2, <3>4, <3>5 DEF Kept
    <3>7. x \in Elems(ps)
      BY <3>1, <3>5 DEF Started, Given
    <3>8. todo' = ps
      BY <2>1, <2>4 DEF Started
    <3>9. a \in Pending'
      BY <2>2, <3>6, <3>7, <3>8 DEF Pending
    <3>10. QED
      BY <1>6, <3>9
  <2>5. QED
    BY <2>3, <2>4
<1>7. QED
  BY <1>5, <1>6

\* A start leaves the outputs there that nobody has taken.
LEMMA StartWaiting ==
    ASSUME FlowInv, NEW id \in PlanIds, AtStart(id), NEW ps, Started(id, ps)
    PROVE  Waiting' /\ Numbers'
<1>0. /\ phase' = "Execute" /\ plan' = plan /\ step' = step + 1 /\ written' = written
      /\ phase = "Execute" /\ step \in Nat /\ step + 1 \in 1..Len(plan) /\ id = plan[step + 1]
      /\ todo = <<>> /\ slots = <<>> /\ Current' = id /\ Elems(<<>>) = {}
      /\ \A n : Parents(n)' = Parents(n) /\ KindOf(n)' = KindOf(n)
      /\ WellFormed' <=> WellFormed
      /\ SingleConsumer' <=> SingleConsumer
      /\ NoShuffle' <=> NoShuffle
      /\ Missing # <<>>
  BY FlowSame, ConstantsOK DEF AtStart, Elems
<1>1. /\ PlanInv /\ FlowTypeOK /\ Waiting /\ Numbers
      /\ id \notin Nodes => Parents(id) = {} /\ KindOf(id) = "ShuffleByKey"
      /\ id \in Nodes => KindOf(id) = op[id]
      /\ Taken(id) \subseteq Parents(id)
  BY GraphFacts DEF FlowInv
<1>2. ASSUME WellFormed, SingleConsumer, NEW p \in Parents(id)
      PROVE  /\ p \in Taken(id) /\ results[p] # Missing
             /\ NoShuffle => Mine(results[p]) /\ results[p] # <<>>
  <2>1. p \in Nodes /\ \E j \in 1..step : plan[j] = p /\ Untaken(plan[j])
    BY <1>0, <1>1, <1>2, ParentsThere
  <2>2. PICK j \in 1..step : plan[j] = p /\ Untaken(plan[j])
    BY <2>1
  <2>3. results[p] # Missing /\ (NoShuffle => Mine(results[p]) /\ results[p] # <<>>)
    BY <1>0, <1>1, <1>2, <2>1, <2>2 DEF Waiting
  <2>4. QED
    BY <2>1, <2>3 DEF Taken, PlanIds
<1>3. ASSUME WellFormed, SingleConsumer, NoShuffle PROVE Mine(ps) /\ ps # <<>>
  <2>1. CASE Parents(id) = {}
    BY <2>1 DEF Started, Given, Mine
  <2>2. CASE Parents(id) # {}
    <3>1. \A x \in Elems(ps) : \E p \in Parents(id) : Mine(results[p]) /\ x \in Elems(results[p])
      BY <1>1, <1>2, <1>3, <2>2 DEF Started, Given
    <3>2. PICK p \in Parents(id) : p \in Taken(id) /\ results[p] # Missing /\ results[p] # <<>>
      BY <1>2, <1>3, <2>2
    <3>3. results[p] \in Seq(AllPartitions)
      BY <1>1, <3>2 DEF FlowTypeOK, Taken
    <3>4. results[p][1] \in Elems(results[p])
      BY <3>2, <3>3, TailElems
    <3>5. results[p][1] \in Elems(ps)
      BY <2>2, <3>2, <3>4 DEF Started, Given
    <3>6. QED
      BY <1>0, <3>1, <3>5 DEF Mine
  <2>3. QED
    BY <2>1, <2>2
<1>4. Waiting'
  <2>0. SUFFICES ASSUME WellFormed, SingleConsumer, NEW k \in 1..(step + 1), plan[k] \in Nodes,
                        \A m \in 1..(step + 1) : plan[k] \notin Parents(plan[m])
                 PROVE  /\ results'[plan[k]] # Missing
                        /\ NoShuffle => /\ Mine(results'[plan[k]])
                                        /\ \/ results'[plan[k]] # <<>>
                                           \/ k = step + 1 /\ slots' # <<>>
    BY <1>0 DEF Waiting, Untaken, Mine
  <2>1. CASE k = step + 1
    <3>1. plan[k] = id /\ results'[id] = <<>>
      BY <1>0, <2>1 DEF Started
    <3>2. NoShuffle => slots' # <<>>
      BY <1>3, <2>0 DEF Started
    <3>3. Mine(<<>>)
      BY <1>0 DEF Mine
    <3>4. QED
      BY <1>0, <2>1, <3>1, <3>2, <3>3
  <2>2. CASE k # step + 1
    <3>1. k \in 1..step /\ plan[k] # id /\ plan[k] \in PlanIds
      BY <1>0, <2>0, <2>2 DEF AtStart, PlanIds
    <3>2. Untaken(plan[k]) /\ plan[k] \notin Parents(id)
      BY <1>0, <2>0 DEF Untaken
    <3>3. /\ results[plan[k]] # Missing
          /\ NoShuffle => Mine(results[plan[k]]) /\ results[plan[k]] # <<>>
      BY <1>0, <1>1, <2>0, <3>1, <3>2 DEF Waiting
    <3>4. results'[plan[k]] = results[plan[k]]
      BY <1>1, <3>1, <3>2 DEF Started
    <3>5. QED
      BY <3>3, <3>4
  <2>3. QED
    BY <2>1, <2>2
<1>5. Numbers'
  <2>1. ASSUME WellFormed, SingleConsumer, NoShuffle, id \in Nodes
        PROVE  \A k \in 1..Len(slots') : slots'[k][1] = Partition
    <3>1. KindOf(id) # "ShuffleByKey"
      BY <1>1, <2>1 DEF NoShuffle
    <3>2. QED
      BY <1>3, <2>1, <3>1 DEF Started
  <2>2. QED
    BY <1>0, <1>1, <2>1 DEF Numbers
<1>6. QED
  BY <1>4, <1>5

\* What was taken is gone.
LEMMA StartGone ==
    ASSUME FlowInv, NEW id \in PlanIds, AtStart(id), NEW ps, Started(id, ps)
    PROVE  Gone'
<1>0. /\ plan' = plan /\ step' = step + 1 /\ Planned /\ PlanInv /\ Gone
      /\ step \in Nat /\ step + 1 \in 1..Len(plan) /\ id = plan[step + 1] /\ Len(plan) \in Nat
      /\ \A n : Parents(n)' = Parents(n)
      /\ WellFormed' <=> WellFormed
  BY FlowSame DEF AtStart, Planned, FlowInv
<1>1. SUFFICES ASSUME WellFormed, NEW m \in 1..(step + 1), NEW n \in Parents(plan[m]),
                      n \in PlanIds
               PROVE  results'[n] = Missing
  BY <1>0 DEF Gone
<1>2. m \in 1..Len(plan)
  BY <1>0
<1>3. n \in Nodes /\ \E a \in 1..(m - 1) : plan[a] = n
  BY <1>0, <1>1, <1>2, PlanMade
<1>4. PICK a \in 1..(m - 1) : plan[a] = n
  BY <1>3
<1>5. a \in 1..step
  BY <1>0, <1>4
<1>6. n # id
  BY <1>3, <1>4, <1>5 DEF AtStart
<1>7. CASE m = step + 1
  <2>1. n \in Parents(id)
    BY <1>0, <1>1, <1>7
  <2>2. n \in Taken(id) \/ results[n] = Missing
    BY <1>1, <2>1 DEF Taken
  <2>3. QED
    BY <1>1, <1>6, <2>2 DEF Started
<1>8. CASE m # step + 1
  <2>1. m \in 1..step
    BY <1>0, <1>8
  <2>2. results[n] = Missing
    BY <1>0, <1>1, <2>1 DEF Gone
  <2>3. QED
    BY <1>1, <1>6, <2>2 DEF Started
<1>9. QED
  BY <1>7, <1>8

\* The start of a turn keeps the invariant.
LEMMA FlowStart ==
    ASSUME FlowInv, StartOp, PlanInv'
    PROVE  FlowInv'
<1>1. PICK id \in PlanIds : AtStart(id) /\ \E ps : Started(id, ps)
  BY StartStep
<1>2. PICK ps : Started(id, ps)
  BY <1>1
<1>3. FlowTypeOK' /\ Bounds' /\ Unstarted' /\ InjectedEmpty' /\ Named' /\ Kept'
  BY <1>1, <1>2, StartBase
<1>4. Apart' /\ Claims'
  BY <1>1, <1>2, StartFiles
<1>5. Within'
  BY <1>1, <1>2, StartWithin
<1>6. Exhaustive'
  BY <1>1, <1>2, StartExhaustive
<1>7. Waiting' /\ Numbers'
  BY <1>1, <1>2, StartWaiting
<1>8. Gone'
  BY <1>1, <1>2, StartGone
<1>9. QED
  BY <1>3, <1>4, <1>5, <1>6, <1>7, <1>8 DEF FlowInv

-----------------------------------------------------------------------------
\* The first partition is drained, by an operator or by the writer.
Drained ==
    /\ phase \in {"Execute", "Write"} /\ todo # <<>> /\ ~FileMissing
    /\ todo' = Tail(todo) /\ RemoveFile
    /\ UNCHANGED <<edges, op, phase, incoming, queue, ordered, next, plan, step, results, slots,
                   seen, met>>

\* What the other partitions and files are then.
LEMMA DrainTypes ==
    ASSUME FlowInv, Drained
    PROVE  /\ Input \in AllPartitions /\ Input \in Elems(todo) /\ Got \in SUBSET Nodes
           /\ todo' \in Seq(AllPartitions) /\ Len(todo) \in Nat /\ Len(todo') = Len(todo) - 1
           /\ \A k \in 1..Len(todo') : k + 1 \in 1..Len(todo) /\ todo'[k] = todo[k + 1]
           /\ \A x : x \in Elems(todo) <=> x = Input \/ x \in Elems(todo')
           /\ disk \in [Paths -> (SUBSET Nodes) \cup {NoFile}]
           /\ disk' \in [Paths -> (SUBSET Nodes) \cup {NoFile}]
<1>1. /\ todo \in Seq(AllPartitions) /\ todo # <<>> /\ todo' = Tail(todo)
      /\ disk \in [Paths -> (SUBSET Nodes) \cup {NoFile}]
  BY DEF FlowInv, FlowTypeOK, Drained
<1>2. /\ Input \in AllPartitions /\ Input \in Elems(todo)
      /\ todo' \in Seq(AllPartitions) /\ Len(todo) \in Nat /\ Len(todo') = Len(todo) - 1
      /\ \A k \in 1..Len(todo') : k + 1 \in 1..Len(todo) /\ todo'[k] = todo[k + 1]
      /\ \A x : x \in Elems(todo) <=> x = Input \/ x \in Elems(todo')
  BY <1>1, TailElems DEF Input
<1>3. Input.path \in Paths /\ Input.data \in SUBSET Nodes /\ Input.spilled \in BOOLEAN
  BY <1>2, PartitionFields
<1>4. Got \in SUBSET Nodes
  BY <1>1, <1>3 DEF Drained, FileMissing, Got
<1>5. disk' \in [Paths -> (SUBSET Nodes) \cup {NoFile}]
  BY <1>1, <1>3 DEF Drained, RemoveFile
<1>6. QED
  BY <1>1, <1>2, <1>4, <1>5

\* Nobody but the one that is drained loses its claim; its name is gone.
LEMMA DrainTickets ==
    ASSUME FlowInv, Drained
    PROVE  /\ Tickets' \subseteq Tickets
           /\ \A x \in Tickets : x # Input => x \in Tickets'
           /\ Input.spilled => Input \in Tickets /\ \A x \in Tickets' : x.by # Input.by
<1>1. /\ Input \in AllPartitions /\ Input \in Elems(todo)
      /\ todo' \in Seq(AllPartitions) /\ Len(todo) \in Nat /\ Len(todo') = Len(todo) - 1
      /\ \A k \in 1..Len(todo') : k + 1 \in 1..Len(todo) /\ todo'[k] = todo[k + 1]
      /\ \A x : x \in Elems(todo) <=> x = Input \/ x \in Elems(todo')
  BY DrainTypes
<1>2. results' = results /\ Named
  BY DEF Drained, FlowInv
<1>3. Tickets' \subseteq Tickets /\ \A x \in Tickets : x # Input => x \in Tickets'
  BY <1>1, <1>2 DEF Tickets
<1>4. ASSUME Input.spilled PROVE Input \in Tickets
  BY <1>1, <1>4 DEF Tickets
<1>5. ASSUME Input.spilled, NEW x \in Tickets', x.by = Input.by PROVE FALSE
  <2>1. 1 \in 1..Len(todo) /\ Input = todo[1]
    <3>1. todo \in Seq(AllPartitions) /\ todo # <<>>
      BY DEF FlowInv, FlowTypeOK, Drained
    <3>2. QED
      BY <1>1, <3>1, EmptySeq DEF Input
  <2>2. CASE x \in Elems(todo')
    <3>1. PICK k \in 1..Len(todo') : todo'[k] = x
      BY <2>2 DEF Elems
    <3>2. k + 1 \in 1..Len(todo) /\ todo[k + 1].by = todo[1].by
      BY <1>1, <1>5, <2>1, <3>1
    <3>3. k + 1 = 1
      BY <1>2, <2>1, <3>2 DEF Named
    <3>4. QED
      BY <1>1, <3>1, <3>3
  <2>3. ASSUME NEW p \in PlanIds, results[p] # Missing, x \in Elems(results[p]) PROVE FALSE
    <3>1. PICK k \in 1..Len(results[p]) : results[p][k] = x
      BY <2>3 DEF Elems
    <3>2. Input.by = <<p, k>>
      BY <1>2, <1>5, <2>3, <3>1 DEF Named
    <3>3. IF Input.by[2] = 0 THEN ~Input.spilled ELSE results[Input.by[1]] = Missing
      BY <1>2, <2>1 DEF Named
    <3>4. Input.by[1] = p /\ Input.by[2] # 0
      BY <3>1, <3>2
    <3>5. QED
      BY <1>5, <2>3, <3>3, <3>4
  <2>4. QED
    BY <1>2, <2>2, <2>3 DEF Tickets
<1>6. QED
  BY <1>3, <1>4, <1>5

\* The files when a partition is drained.
LEMMA DrainFiles ==
    ASSUME FlowInv, Drained
    PROVE  /\ Apart' /\ Claims'
           /\ met = {} => Got = Input.data
<1>1. /\ Tickets' \subseteq Tickets
      /\ \A x \in Tickets : x # Input => x \in Tickets'
      /\ Input.spilled => Input \in Tickets /\ \A x \in Tickets' : x.by # Input.by
  BY DrainTickets
<1>2. /\ met' = met /\ phase' = phase /\ phase \in {"Execute", "Write"} /\ ~FileMissing
      /\ WellFormed' <=> WellFormed
      /\ AllDrained' <=> AllDrained
      /\ Apart /\ Claims /\ Planned /\ met \subseteq Paths
  BY FlowSame DEF Drained, FlowInv, Planned, FlowTypeOK
<1>3. /\ Input \in AllPartitions /\ Input.path \in Paths
      /\ disk \in [Paths -> (SUBSET Nodes) \cup {NoFile}]
      /\ \A x \in Tickets : x.path \in Paths /\ x.spilled
  BY DrainTypes, PartitionFields DEF Tickets
<1>4. ASSUME NEW p \in Paths PROVE \/ disk'[p] = disk[p]
                                   \/ Input.spilled /\ p = Input.path /\ disk'[p] = NoFile
  BY <1>3 DEF Drained, RemoveFile
<1>5. met = {} => Got = Input.data
  BY <1>1, <1>2 DEF Apart, Got
<1>6. Apart'
  <2> SUFFICES ASSUME met = {} PROVE Apart'
    BY <1>2 DEF Apart
  <2>1. /\ \A x \in Tickets : disk[x.path] = x.data
        /\ \A x, y \in Tickets : x.path = y.path => x.by = y.by
    BY <1>2 DEF Apart
  <2>2. ASSUME NEW x \in Tickets' PROVE disk'[x.path] = x.data
    <3>1. x \in Tickets /\ x.path \in Paths
      BY <1>1, <1>3
    <3>2. ~(Input.spilled /\ x.path = Input.path)
      BY <1>1, <2>1, <3>1
    <3>3. QED
      BY <1>4, <2>1, <3>1, <3>2
  <2>3. QED
    BY <1>1, <2>1, <2>2 DEF Apart
<1>7. Claims'
  <2>0. SUFFICES ASSUME ~stuck', WellFormed, AllDrained
                 PROVE  /\ \A p \in Paths : disk'[p] # NoFile => Claimed(p)'
                        /\ \A p \in met : Claimed(p)' /\ (disk'[p] # NoFile => Contested(p)')
    BY <1>2 DEF Claims
  <2>1. ~stuck /\ (Input.spilled => disk'[Input.path] = NoFile)
    BY <1>3, <2>0 DEF Drained, RemoveFile
  <2>2. /\ \A p \in Paths : disk[p] # NoFile => Claimed(p)
        /\ \A p \in met : Claimed(p) /\ (disk[p] # NoFile => Contested(p))
    BY <1>2, <2>0, <2>1 DEF Claims
  <2>3. ASSUME NEW p \in Paths, ~(Input.spilled /\ p = Input.path)
        PROVE  (Claimed(p) => Claimed(p)') /\ (Contested(p) => Contested(p)') /\ disk'[p] = disk[p]
    <3>1. \A x \in Tickets : x.path = p => x \in Tickets'
      BY <1>1, <1>3, <2>3
    <3>2. QED
      BY <1>4, <2>3, <3>1 DEF Claimed, Contested
  <2>4. ASSUME NEW p \in met, Input.spilled, p = Input.path PROVE Claimed(p)'
    <3>1. p \in Paths /\ disk[p] # NoFile
      BY <1>2, <2>4 DEF FileMissing
    <3>2. PICK x \in Tickets, y \in Tickets : x.path = p /\ y.path = p /\ x.by # y.by
      BY <2>2, <2>4, <3>1 DEF Contested
    <3>3. x # Input \/ y # Input
      BY <3>2
    <3>4. \E z \in Tickets' : z.path = p
      BY <1>1, <3>2, <3>3
    <3>5. QED
      BY <3>4 DEF Claimed
  <2>5. ASSUME NEW p \in Paths, disk'[p] # NoFile PROVE Claimed(p)'
    BY <2>1, <2>2, <2>3, <2>5
  <2>6. ASSUME NEW p \in met PROVE Claimed(p)' /\ (disk'[p] # NoFile => Contested(p)')
    <3>1. CASE Input.spilled /\ p = Input.path
      BY <2>1, <2>4, <3>1
    <3>2. CASE ~(Input.spilled /\ p = Input.path)
      BY <1>2, <2>2, <2>3, <3>2
    <3>3. QED
      BY <3>1, <3>2
  <2>7. QED
    BY <2>5, <2>6
<1>8. QED
  BY <1>5, <1>6, <1>7

\* What a drain does not touch.
LEMMA DrainShared ==
    ASSUME FlowInv, Drained
    PROVE  Unstarted' /\ Named' /\ Kept' /\ Gone' /\ Waiting'
<1>1. /\ plan' = plan /\ step' = step /\ results' = results /\ seen' = seen /\ slots' = slots
      /\ phase' = phase
      /\ \A n : Parents(n)' = Parents(n)
      /\ WellFormed' <=> WellFormed
      /\ SingleConsumer' <=> SingleConsumer
      /\ NoShuffle' <=> NoShuffle
  BY FlowSame DEF Drained
<1>2. Unstarted /\ Named /\ Kept /\ Gone /\ Waiting
  BY DEF FlowInv
<1>3. Unstarted' /\ Kept'
  BY <1>1, <1>2 DEF Unstarted, Kept
<1>4. Gone'
  BY <1>1, <1>2 DEF Gone
<1>5. Waiting'
  <2>1. \A n : Untaken(n)' = Untaken(n)
    BY <1>1 DEF Untaken
  <2>2. QED
    BY <1>1, <1>2, <2>1 DEF Waiting, Mine, Untaken
<1>6. Named'
  <2>1. /\ Len(todo) \in Nat /\ Len(todo') = Len(todo) - 1
        /\ \A k \in 1..Len(todo') : k + 1 \in 1..Len(todo) /\ todo'[k] = todo[k + 1]
    BY DrainTypes
  <2>2. ASSUME NEW i \in 1..Len(todo'), NEW j \in 1..Len(todo'), todo'[i].by = todo'[j].by
        PROVE  i = j
    <3>1. /\ i + 1 \in 1..Len(todo) /\ j + 1 \in 1..Len(todo)
          /\ todo[i + 1].by = todo[j + 1].by
      BY <2>1, <2>2
    <3>2. i + 1 = j + 1
      BY <1>2, <3>1 DEF Named
    <3>3. QED
      BY <2>1, <2>2, <3>2
  <2>3. ASSUME NEW i \in 1..Len(todo')
        PROVE  IF todo'[i].by[2] = 0 THEN ~todo'[i].spilled
               ELSE results[todo'[i].by[1]] = Missing
    <3>1. i + 1 \in 1..Len(todo) /\ todo'[i] = todo[i + 1]
      BY <2>1
    <3>2. QED
      BY <1>2, <3>1 DEF Named
  <2>4. QED
    BY <1>1, <1>2, <2>2, <2>3 DEF Named
<1>7. QED
  BY <1>3, <1>4, <1>5, <1>6

\* An operator drains an input.
LEMMA FlowDrain ==
    ASSUME FlowInv, Drain, PlanInv'
    PROVE  FlowInv'
<1>0. /\ Drained /\ phase = "Execute"
      /\ UNCHANGED <<output, written>>
      /\ KindOf(Current) = "Map" => Len(todo) = Len(slots)
      /\ held' = IF KindOf(Current) = "Map" THEN Got ELSE held \cup Got
  BY DEF Drain, Drained, dagVars
<1>1. /\ plan' = plan /\ step' = step /\ results' = results /\ seen' = seen /\ slots' = slots
      /\ phase' = phase /\ met' = met /\ Current' = Current
      /\ \A n : Sources(n)' = Sources(n) /\ From(n)' = From(n) /\ KindOf(n)' = KindOf(n)
      /\ WellFormed' <=> WellFormed
      /\ SingleConsumer' <=> SingleConsumer
      /\ NoShuffle' <=> NoShuffle
  BY <1>0, FlowSame DEF Drained, Current
<1>2. /\ Input \in AllPartitions /\ Input \in Elems(todo) /\ Got \in SUBSET Nodes
      /\ todo' \in Seq(AllPartitions) /\ Len(todo) \in Nat /\ Len(todo') = Len(todo) - 1
      /\ \A x : x \in Elems(todo) <=> x = Input \/ x \in Elems(todo')
      /\ disk' \in [Paths -> (SUBSET Nodes) \cup {NoFile}]
  BY <1>0, DrainTypes
<1>3. ~Idle /\ slots # <<>> /\ step > 0 /\ results[Current] # Missing
  BY <1>0 DEF Drained, Idle, FlowInv, Bounds
<1>4. Unstarted' /\ Named' /\ Kept' /\ Gone' /\ Waiting'
  BY <1>0, DrainShared
<1>5. Apart' /\ Claims' /\ (met = {} => Got = Input.data)
  BY <1>0, DrainFiles
<1>6. FlowTypeOK'
  BY <1>0, <1>1, <1>2 DEF FlowInv, FlowTypeOK
<1>7. Bounds'
  <2>1. Planned'
    BY <1>0, <1>1 DEF Planned
  <2>2. KindOf(Current)' = "Map" => Len(todo') <= Len(slots')
    BY <1>0, <1>1, <1>2
  <2>3. QED
    BY <1>0, <1>1, <1>3, <2>1, <2>2 DEF Bounds, FlowInv
<1>8. InjectedEmpty'
  <2>1. ASSUME Current \notin Nodes
        PROVE  held' = {} /\ \A x \in Elems(todo') : x.data = {} /\ ~x.spilled
    <3>1. held = {} /\ \A x \in Elems(todo) : x.data = {} /\ ~x.spilled
      BY <1>0, <1>3, <2>1 DEF FlowInv, InjectedEmpty
    <3>2. Got = {}
      BY <1>2, <3>1 DEF Got
    <3>3. QED
      BY <1>0, <1>2, <3>1, <3>2
  <2>2. QED
    BY <1>1, <2>1 DEF FlowInv, InjectedEmpty
<1>9. Within'
  <2> SUFFICES ASSUME met = {} PROVE Within'
    BY <1>1 DEF Within
  <2>1. /\ \A p \in PlanIds : seen[p] \subseteq From(p)
        /\ held \subseteq From(Current)
        /\ \A x \in Elems(todo) : x.data \subseteq From(Current)
    BY <1>0, <1>3 DEF FlowInv, Within
  <2>2. held' \subseteq From(Current) /\ \A x \in Elems(todo') : x.data \subseteq From(Current)
    BY <1>0, <1>2, <1>5, <2>1
  <2>3. QED
    BY <1>0, <1>1, <2>1, <2>2 DEF Within
<1>10. Exhaustive'
  <2>1. ASSUME met = {}, NEW a \in Pending PROVE a \in Pending'
    <3>1. a \in Nodes
      BY DEF Pending
    <3>2. KindOf(Current) = "Map" => Len(todo') < Len(slots)
      BY <1>0, <1>2
    <3>3. CASE a \in held'
      BY <1>1, <1>3, <3>1, <3>2, <3>3 DEF Pending
    <3>4. CASE \E x \in Elems(todo') : a \in x.data
      BY <3>1, <3>4 DEF Pending
    <3>5. a \in held' \/ \E x \in Elems(todo') : a \in x.data
      <4>1. CASE \E x \in Elems(todo) : a \in x.data
        BY <1>0, <1>2, <1>5, <2>1, <4>1
      <4>2. CASE a \in held /\ (KindOf(Current) = "Map" => Len(todo) < Len(slots))
        BY <1>0, <1>2, <4>2
      <4>3. QED
        BY <4>1, <4>2 DEF Pending
    <3>6. QED
      BY <3>3, <3>4, <3>5
  <2>2. SUFFICES ASSUME met = {}, WellFormed, SingleConsumer, NEW k \in 1..step, plan[k] \in Nodes
                 PROVE  Sources(plan[k]) \subseteq
                            IF k = step THEN seen[plan[k]] \cup Pending' ELSE seen[plan[k]]
    BY <1>0, <1>1 DEF Exhaustive
  <2>3. Sources(plan[k]) \subseteq IF k = step THEN seen[plan[k]] \cup Pending ELSE seen[plan[k]]
    BY <1>0, <2>2 DEF FlowInv, Exhaustive
  <2>4. QED
    BY <2>1, <2>2, <2>3
<1>11. Numbers'
  BY <1>0, <1>1, <1>3 DEF FlowInv, Numbers
<1>12. QED
  BY <1>4, <1>5, <1>6, <1>7, <1>8, <1>9, <1>10, <1>11 DEF FlowInv

\* The writer drains a partition.
LEMMA FlowWritePart ==
    ASSUME FlowInv, WritePart, PlanInv'
    PROVE  FlowInv'
<1>0. /\ Drained /\ phase = "Write" /\ held' = held
      /\ output' = output \cup Got /\ written' = written \cup {Input.no}
  BY DEF WritePart, Drained, dagVars
<1>1. /\ plan' = plan /\ step' = step /\ results' = results /\ seen' = seen /\ slots' = slots
      /\ phase' = phase /\ met' = met
      /\ \A n : Sources(n)' = Sources(n) /\ From(n)' = From(n)
      /\ WellFormed' <=> WellFormed
      /\ SingleConsumer' <=> SingleConsumer
      /\ NoShuffle' <=> NoShuffle
  BY <1>0, FlowSame DEF Drained
<1>2. /\ Input \in AllPartitions /\ Input \in Elems(todo) /\ Got \in SUBSET Nodes
      /\ todo' \in Seq(AllPartitions) /\ Input.no \in Nat
      /\ \A x : x \in Elems(todo) <=> x = Input \/ x \in Elems(todo')
      /\ disk' \in [Paths -> (SUBSET Nodes) \cup {NoFile}]
  BY <1>0, DrainTypes, PartitionFields
<1>4. Unstarted' /\ Named' /\ Kept' /\ Gone' /\ Waiting'
  BY <1>0, DrainShared
<1>5. Apart' /\ Claims' /\ (met = {} => Got = Input.data)
  BY <1>0, DrainFiles
<1>6. FlowTypeOK'
  BY <1>0, <1>1, <1>2 DEF FlowInv, FlowTypeOK
<1>7. Bounds' /\ InjectedEmpty'
  <2>1. Planned'
    BY <1>0, <1>1 DEF Planned
  <2>2. QED
    BY <1>0, <1>1, <2>1 DEF FlowInv, Bounds, InjectedEmpty
<1>9. Within'
  <2> SUFFICES ASSUME met = {} PROVE Within'
    BY <1>1 DEF Within
  <2>1. /\ \A p \in PlanIds : seen[p] \subseteq From(p)
        /\ output \subseteq From(Last(plan))
        /\ \A x \in Elems(todo) : x.data \subseteq From(Last(plan))
    BY <1>0 DEF FlowInv, Within
  <2>2. /\ output' \subseteq From(Last(plan))
        /\ \A x \in Elems(todo') : x.data \subseteq From(Last(plan))
    BY <1>0, <1>2, <1>5, <2>1
  <2>3. QED
    BY <1>0, <1>1, <2>1, <2>2 DEF Within
<1>10. Exhaustive'
  <2> SUFFICES ASSUME met = {}, WellFormed, SingleConsumer PROVE Exhaustive'
    BY <1>1 DEF Exhaustive
  <2>1. /\ \A n \in Nodes : Sources(n) \subseteq seen[n]
        /\ \A a \in Sources(Last(plan)) : a \in output \/ \E x \in Elems(todo) : a \in x.data
    BY <1>0 DEF FlowInv, Exhaustive
  <2>2. \A a \in Sources(Last(plan)) : a \in output' \/ \E x \in Elems(todo') : a \in x.data
    BY <1>0, <1>2, <1>5, <2>1
  <2>3. QED
    BY <1>0, <1>1, <2>1, <2>2 DEF Exhaustive
<1>11. Numbers'
  <2> SUFFICES ASSUME WellFormed, SingleConsumer, NoShuffle PROVE Numbers'
    BY <1>1 DEF Numbers
  <2>1. Mine(todo) /\ written \subseteq {Partition}
    BY <1>0 DEF FlowInv, Numbers
  <2>2. Mine(todo)' /\ written' \subseteq {Partition} /\ written' # {}
    BY <1>0, <1>2, <2>1 DEF Mine
  <2>3. QED
    BY <1>0, <1>1, <2>2 DEF Numbers
<1>12. QED
  BY <1>4, <1>5, <1>6, <1>7, <1>9, <1>10, <1>11 DEF FlowInv

-----------------------------------------------------------------------------
\* An operator fills its next output, partition y.
Filling(y) ==
    /\ phase = "Execute" /\ slots # <<>>
    /\ IF KindOf(Current) = "Map" THEN Len(todo) < Len(slots) ELSE todo = <<>>
    /\ step \in Nat /\ step > 0 /\ Current \in PlanIds /\ results[Current] \in Seq(AllPartitions)
    /\ y \in AllPartitions /\ y.by = <<Current, Len(results[Current]) + 1>>
    /\ y.no = slots[1][1] /\ y.path = slots[1][2] /\ y.data = held /\ y.path \in Paths
    /\ y.spilled => held # {} \/ KindOf(Current) = "ReduceByKey"
    /\ disk' \in [Paths -> (SUBSET Nodes) \cup {NoFile}]
    /\ \A p \in Paths :
          disk'[p] = IF y.spilled /\ p = y.path
                     THEN IF disk[p] = NoFile THEN held ELSE disk[p] \cup held
                     ELSE disk[p]
    /\ met' = IF y.spilled /\ disk[y.path] # NoFile THEN met \cup {y.path} ELSE met
    /\ results' \in [PlanIds -> Seq(AllPartitions) \cup {Missing}]
    /\ results'[Current] = Append(results[Current], y)
    /\ \A p \in PlanIds : p # Current => results'[p] = results[p]
    /\ slots' = Tail(slots)
    /\ seen' \in [PlanIds -> SUBSET Nodes] /\ seen'[Current] = seen[Current] \cup held
    /\ \A p \in PlanIds : p # Current => seen'[p] = seen[p]
    /\ UNCHANGED <<edges, op, phase, incoming, queue, ordered, next, plan, step, todo, held, output,
                   written, stuck>>

\* A fill, taken apart.
LEMMA FillStep ==
    ASSUME FlowInv, Fill
    PROVE  \E y : Filling(y)
<1>1. /\ phase = "Execute" /\ slots # <<>> /\ PlanInv /\ Planned
      /\ IF KindOf(Current) = "Map" THEN Len(todo) < Len(slots) ELSE todo = <<>>
      /\ slots' = Tail(slots) /\ seen' = [seen EXCEPT ![Current] = @ \cup held]
      /\ UNCHANGED <<edges, op, phase, incoming, queue, ordered, next, plan, step, todo, held,
                     output, written, stuck>>
  BY DEF Fill, dagVars, FlowInv, Planned
<1>2. /\ step \in Nat /\ step <= Len(plan) /\ step > 0 /\ results[Current] # Missing
      /\ results \in [PlanIds -> Seq(AllPartitions) \cup {Missing}]
      /\ slots \in Seq(Nat \X Paths) /\ held \in SUBSET Nodes
      /\ disk \in [Paths -> (SUBSET Nodes) \cup {NoFile}]
      /\ seen \in [PlanIds -> SUBSET Nodes]
  BY <1>1 DEF FlowInv, FlowTypeOK, Bounds, Idle
<1>3. Current \in PlanIds
  BY <1>1, <1>2, PlanMade DEF Current
<1>4. results[Current] \in Seq(AllPartitions) /\ Len(results[Current]) + 1 \in Nat
  BY <1>2, <1>3
<1>5. slots[1] \in Nat \X Paths
  BY <1>1, <1>2, TailElems
<1>6. PICK spills \in BOOLEAN :
         /\ spills => held # {} \/ KindOf(Current) = "ReduceByKey"
         /\ disk' = IF spills
                    THEN [disk EXCEPT ![slots[1][2]] =
                             (IF disk[slots[1][2]] = NoFile THEN {} ELSE disk[slots[1][2]]) \cup held]
                    ELSE disk
         /\ met' = IF spills /\ disk[slots[1][2]] # NoFile THEN met \cup {slots[1][2]} ELSE met
         /\ results' = [results EXCEPT ![Current] =
               Append(@, Filled(<<Current, Len(@) + 1>>, slots[1], spills, held))]
  BY DEF Fill
<1>7. PICK y : y = Filled(<<Current, Len(results[Current]) + 1>>, slots[1], spills, held)
  OBVIOUS
<1>8. /\ y \in AllPartitions /\ y.by = <<Current, Len(results[Current]) + 1>>
      /\ y.no = slots[1][1] /\ y.path = slots[1][2] /\ y.spilled = spills /\ y.data = held
      /\ y.path \in Paths
  BY SMTT(30), <1>2, <1>3, <1>4, <1>5, <1>7, FilledFields, PartitionFields
<1>9. /\ results' \in [PlanIds -> Seq(AllPartitions) \cup {Missing}]
      /\ results'[Current] = Append(results[Current], y)
      /\ \A p \in PlanIds : p # Current => results'[p] = results[p]
  <2>1. Append(results[Current], y) \in Seq(AllPartitions)
    BY <1>4, <1>8, AppendElems
  <2>2. results' = [results EXCEPT ![Current] = Append(results[Current], y)]
    BY <1>2, <1>3, <1>6, <1>7
  <2>3. QED
    BY <1>2, <1>3, <2>1, <2>2
<1>10. /\ disk' \in [Paths -> (SUBSET Nodes) \cup {NoFile}]
       /\ \A p \in Paths :
             disk'[p] = IF y.spilled /\ p = y.path
                        THEN IF disk[p] = NoFile THEN held ELSE disk[p] \cup held
                        ELSE disk[p]
  <2>1. disk' = IF spills
                THEN [disk EXCEPT ![y.path] =
                         IF disk[y.path] = NoFile THEN held ELSE disk[y.path] \cup held]
                ELSE disk
    BY <1>6, <1>8
  <2>2. QED
    BY <1>2, <1>8, <2>1
<1>11. met' = IF y.spilled /\ disk[y.path] # NoFile THEN met \cup {y.path} ELSE met
  BY <1>6, <1>8
<1>12. /\ seen' \in [PlanIds -> SUBSET Nodes] /\ seen'[Current] = seen[Current] \cup held
       /\ \A p \in PlanIds : p # Current => seen'[p] = seen[p]
  BY <1>1, <1>2, <1>3
<1>13. Filling(y)
  BY <1>1, <1>2, <1>3, <1>4, <1>6, <1>8, <1>9, <1>10, <1>11, <1>12 DEF Filling
<1>14. QED
  BY <1>13

\* What the outputs of the operator are then.
LEMMA FillElems ==
    ASSUME FlowInv, NEW y, Filling(y)
    PROVE  /\ results'[Current] # Missing /\ results[Current] # Missing
           /\ results'[Current] # <<>> /\ Len(results[Current]) \in Nat
           /\ Len(results'[Current]) = Len(results[Current]) + 1
           /\ \A k \in 1..Len(results[Current]) : results'[Current][k] = results[Current][k]
           /\ results'[Current][Len(results[Current]) + 1] = y
           /\ \A x : x \in Elems(results'[Current]) <=> x \in Elems(results[Current]) \/ x = y
           /\ ~Idle /\ phase' = "Execute" /\ Current' = Current
           /\ Len(slots) \in Nat /\ Len(slots') = Len(slots) - 1 /\ Len(slots) > 0
           /\ \A k \in 1..Len(slots') : k + 1 \in 1..Len(slots) /\ slots'[k] = slots[k + 1]
<1>1. /\ results[Current] \in Seq(AllPartitions) /\ y \in AllPartitions
      /\ results'[Current] = Append(results[Current], y)
      /\ slots \in Seq(Nat \X Paths) /\ slots # <<>> /\ slots' = Tail(slots)
      /\ phase = "Execute" /\ phase' = phase /\ plan' = plan /\ step' = step
  BY DEF Filling, FlowInv, FlowTypeOK
<1>2. /\ results'[Current] \in Seq(AllPartitions)
      /\ results'[Current] # <<>> /\ Len(results[Current]) \in Nat
      /\ Len(results'[Current]) = Len(results[Current]) + 1
      /\ \A k \in 1..Len(results[Current]) : results'[Current][k] = results[Current][k]
      /\ results'[Current][Len(results[Current]) + 1] = y
      /\ \A x : x \in Elems(results'[Current]) <=> x \in Elems(results[Current]) \/ x = y
  <2>1. \A s \in Seq(AllPartitions), e \in AllPartitions :
           /\ Append(s, e) \in Seq(AllPartitions)
           /\ Append(s, e) # <<>> /\ Len(s) \in Nat
           /\ Len(Append(s, e)) = Len(s) + 1
           /\ \A k \in 1..Len(s) : Append(s, e)[k] = s[k]
           /\ Append(s, e)[Len(s) + 1] = e
           /\ \A x : x \in Elems(Append(s, e)) <=> x \in Elems(s) \/ x = e
    BY AppendElems
  <2>2. PICK s, u : s = results[Current] /\ u = results'[Current]
    OBVIOUS
  <2>3. s \in Seq(AllPartitions) /\ u = Append(s, y)
    BY <1>1, <2>2
  <2>4. /\ u \in Seq(AllPartitions) /\ u # <<>> /\ Len(s) \in Nat
        /\ Len(u) = Len(s) + 1
        /\ \A k \in 1..Len(s) : u[k] = s[k]
        /\ u[Len(s) + 1] = y
        /\ \A x : x \in Elems(u) <=> x \in Elems(s) \/ x = y
    BY <1>1, <2>1, <2>3
  <2>5. QED
    BY <2>2, <2>4
<1>3. results'[Current] # Missing /\ results[Current] # Missing
  BY <1>1, <1>2, ConstantsOK
<1>4. /\ Len(slots) \in Nat /\ Len(slots') = Len(slots) - 1 /\ Len(slots) > 0
      /\ \A k \in 1..Len(slots') : k + 1 \in 1..Len(slots) /\ slots'[k] = slots[k + 1]
  BY <1>1, TailElems
<1>5. ~Idle /\ Current' = Current
  BY <1>1 DEF Idle, Current
<1>6. QED
  BY <1>1, <1>2, <1>3, <1>4, <1>5

\* A fill keeps what holds of any graph.
LEMMA FillBase ==
    ASSUME FlowInv, NEW y, Filling(y)
    PROVE  FlowTypeOK' /\ Bounds' /\ Unstarted' /\ InjectedEmpty' /\ Named' /\ Kept'
<1>1. /\ FlowTypeOK /\ Bounds /\ Unstarted /\ InjectedEmpty /\ Named /\ Kept /\ PlanInv
      /\ Current \in PlanIds /\ step \in Nat /\ step > 0 /\ phase = "Execute"
  BY DEF FlowInv, Filling
<1>2. /\ results'[Current] # Missing /\ results[Current] # Missing
      /\ Len(results[Current]) \in Nat
      /\ Len(results'[Current]) = Len(results[Current]) + 1
      /\ \A k \in 1..Len(results[Current]) : results'[Current][k] = results[Current][k]
      /\ results'[Current][Len(results[Current]) + 1] = y
      /\ \A x : x \in Elems(results'[Current]) <=> x \in Elems(results[Current]) \/ x = y
      /\ ~Idle /\ phase' = "Execute" /\ Current' = Current
      /\ Len(slots) \in Nat /\ Len(slots') = Len(slots) - 1 /\ Len(slots) > 0
  BY FillElems
<1>3. /\ plan' = plan /\ step' = step /\ todo' = todo /\ held' = held
      /\ \A p \in PlanIds : p # Current => results'[p] = results[p] /\ seen'[p] = seen[p]
      /\ \A n : KindOf(n)' = KindOf(n)
  BY FlowSame DEF Filling
<1>4. FlowTypeOK'
  <2>1. slots' \in Seq(Nat \X Paths) /\ met' \in SUBSET Paths
    <3>1. slots \in Seq(Nat \X Paths) /\ slots # <<>> /\ slots' = Tail(slots) /\ met \in SUBSET Paths
      BY <1>1 DEF FlowTypeOK, Filling
    <3>2. slots' \in Seq(Nat \X Paths)
      BY <3>1, TailElems
    <3>3. met' \in SUBSET Paths
      BY <3>1 DEF Filling
    <3>4. QED
      BY <3>2, <3>3
  <2>2. /\ results' \in [PlanIds -> Seq(AllPartitions) \cup {Missing}]
        /\ disk' \in [Paths -> (SUBSET Nodes) \cup {NoFile}]
        /\ seen' \in [PlanIds -> SUBSET Nodes]
        /\ UNCHANGED <<output, written>>
    BY DEF Filling
  <2>3. QED
    BY <1>1, <1>3, <2>1, <2>2 DEF FlowTypeOK
<1>5. Bounds'
  <2>1. Len(todo) \in Nat /\ (Len(todo) = 0 => todo = <<>>)
    BY <1>1, EmptySeq DEF FlowTypeOK
  <2>2. ASSUME slots' = <<>> PROVE todo = <<>>
    <3>1. Len(slots) = 1
      BY <1>2, <2>2
    <3>2. QED
      BY <2>1, <3>1 DEF Filling
  <2>3. KindOf(Current) = "Map" => Len(todo) <= Len(slots')
    BY <1>2, <2>1 DEF Filling
  <2>4. Planned'
    BY <1>2 DEF Planned
  <2>5. ~Idle' => slots' # <<>>
    BY <1>3, <2>2 DEF Idle
  <2>6. KindOf(Current)' = "Map" => Len(todo') <= Len(slots')
    BY <1>2, <1>3, <2>3
  <2>7. results'[Current'] # Missing
    BY <1>2
  <2>8. QED
    BY <1>1, <1>2, <1>3, <2>4, <2>5, <2>6, <2>7 DEF Bounds, Filling
<1>6. Unstarted'
  <2> SUFFICES ASSUME NEW n \in Nodes, \A k \in 1..step : plan[k] # n
               PROVE  results'[n] = Missing /\ seen'[n] = {}
    BY <1>3 DEF Unstarted
  <2>1. n # Current /\ n \in PlanIds
    BY <1>1 DEF Current, PlanIds
  <2>2. results[n] = Missing /\ seen[n] = {}
    BY <1>1 DEF Unstarted
  <2>3. QED
    BY <1>3, <2>1, <2>2
<1>7. InjectedEmpty'
  <2>1. ASSUME Current \notin Nodes
        PROVE  ~y.spilled /\ held = {} /\ \A x \in Elems(todo) : x.data = {} /\ ~x.spilled
    <3>1. held = {} /\ \A x \in Elems(todo) : x.data = {} /\ ~x.spilled
      BY <1>1, <1>2, <2>1 DEF InjectedEmpty
    <3>2. KindOf(Current) = "ShuffleByKey"
      BY <1>1, <2>1, GraphFacts
    <3>3. QED
      BY <3>1, <3>2 DEF Filling
  <2>2. ASSUME NEW p \in PlanIds \ Nodes
        PROVE  seen'[p] = {} /\ (results'[p] # Missing => \A x \in Elems(results'[p]) : ~x.spilled)
    <3>1. seen[p] = {} /\ (results[p] # Missing => \A x \in Elems(results[p]) : ~x.spilled)
      BY <1>1 DEF InjectedEmpty
    <3>2. CASE p # Current
      BY <1>3, <3>1, <3>2
    <3>3. CASE p = Current
      <4>1. held = {} /\ ~y.spilled /\ seen'[p] = seen[p] \cup held
        BY <2>1, <3>3 DEF Filling
      <4>2. QED
        BY <1>2, <3>1, <3>3, <4>1
    <3>4. QED
      BY <3>2, <3>3
  <2>3. Current' \notin Nodes => held' = {} /\ \A x \in Elems(todo') : x.data = {} /\ ~x.spilled
    BY <1>2, <1>3, <2>1
  <2>4. QED
    BY <2>2, <2>3 DEF InjectedEmpty
<1>8. Named'
  <2>1. ASSUME NEW p \in PlanIds, results'[p] # Missing
        PROVE  \A k \in 1..Len(results'[p]) : results'[p][k].by = <<p, k>>
    <3>1. CASE p # Current
      BY <1>1, <1>3, <2>1, <3>1 DEF Named
    <3>2. CASE p = Current
      <4> SUFFICES ASSUME NEW k \in 1..Len(results'[Current])
                   PROVE  results'[Current][k].by = <<Current, k>>
        BY <3>2
      <4>1. CASE k \in 1..Len(results[Current])
        BY SMTT(30), <1>1, <1>2, <4>1 DEF Named
      <4>2. CASE k = Len(results[Current]) + 1
        BY <1>2, <4>2 DEF Filling
      <4>3. QED
        BY <1>2, <4>1, <4>2
    <3>3. QED
      BY <3>1, <3>2
  <2>2. ASSUME NEW i \in 1..Len(todo)
        PROVE  IF todo[i].by[2] = 0 THEN ~todo[i].spilled
               ELSE results'[todo[i].by[1]] = Missing
    <3>1. IF todo[i].by[2] = 0 THEN ~todo[i].spilled ELSE results[todo[i].by[1]] = Missing
      BY <1>1 DEF Named
    <3>2. todo[i] \in AllPartitions
      BY <1>1 DEF FlowTypeOK
    <3>3. todo[i].by[1] \in PlanIds
      BY <3>2, PartitionFields
    <3>4. QED
      BY <1>2, <1>3, <3>1, <3>3
  <2>3. \A i, j \in 1..Len(todo) : todo[i].by = todo[j].by => i = j
    BY <1>1 DEF Named
  <2>4. QED
    BY <1>3, <2>1, <2>2, <2>3 DEF Named
<1>9. Kept'
  <2>1. ASSUME NEW p \in PlanIds, results'[p] # Missing, NEW a
        PROVE  a \in seen'[p] <=> \E x \in Elems(results'[p]) : a \in x.data
    <3>1. CASE p # Current
      BY <1>1, <1>3, <2>1, <3>1 DEF Kept
    <3>2. CASE p = Current
      <4>1. a \in seen[Current] <=> \E x \in Elems(results[Current]) : a \in x.data
        BY <1>1, <1>2 DEF Kept
      <4>2. seen'[Current] = seen[Current] \cup held /\ y.data = held
        BY DEF Filling
      <4>3. QED
        BY <1>2, <3>2, <4>1, <4>2
    <3>3. QED
      BY <3>1, <3>2
  <2>2. QED
    BY <2>1 DEF Kept
<1>10. QED
  BY <1>4, <1>5, <1>6, <1>7, <1>8, <1>9

\* A fill adds at most one that waits for a file, under a new name.
LEMMA FillTickets ==
    ASSUME FlowInv, NEW y, Filling(y)
    PROVE  /\ \A x : x \in Tickets' <=> x \in Tickets \/ (x = y /\ y.spilled)
           /\ \A x \in Tickets : x.by # y.by
<1>1. /\ results'[Current] # Missing /\ results[Current] # Missing
      /\ Len(results[Current]) \in Nat
      /\ \A x : x \in Elems(results'[Current]) <=> x \in Elems(results[Current]) \/ x = y
  BY FillElems
<1>2. /\ Current \in PlanIds /\ todo' = todo /\ y \in AllPartitions
      /\ y.by = <<Current, Len(results[Current]) + 1>>
      /\ \A p \in PlanIds : p # Current => results'[p] = results[p]
      /\ Named
  BY DEF Filling, FlowInv
<1>3. ASSUME NEW x \in Tickets' PROVE x \in Tickets \/ (x = y /\ y.spilled)
  <2>1. x \in AllPartitions /\ x.spilled
    BY DEF Tickets
  <2>2. CASE x \in Elems(todo)
    BY <2>1, <2>2 DEF Tickets
  <2>3. ASSUME NEW p \in PlanIds, results'[p] # Missing, x \in Elems(results'[p])
        PROVE  x \in Tickets \/ (x = y /\ y.spilled)
    <3>1. CASE p # Current
      BY <1>2, <2>1, <2>3, <3>1 DEF Tickets
    <3>2. CASE p = Current
      BY <1>1, <1>2, <2>1, <2>3, <3>2 DEF Tickets
    <3>3. QED
      BY <3>1, <3>2
  <2>4. QED
    BY <1>2, <2>2, <2>3 DEF Tickets
<1>4. ASSUME NEW x \in Tickets PROVE x \in Tickets'
  <2>1. x \in AllPartitions /\ x.spilled
    BY DEF Tickets
  <2>2. CASE x \in Elems(todo)
    BY <1>2, <2>1, <2>2 DEF Tickets
  <2>3. ASSUME NEW p \in PlanIds, results[p] # Missing, x \in Elems(results[p])
        PROVE  x \in Tickets'
    <3>1. results'[p] # Missing /\ x \in Elems(results'[p])
      BY <1>1, <1>2, <2>3
    <3>2. QED
      BY <2>1, <3>1 DEF Tickets
  <2>4. QED
    BY <2>2, <2>3 DEF Tickets
<1>5. ASSUME y.spilled PROVE y \in Tickets'
  BY <1>1, <1>2, <1>5 DEF Tickets
<1>6. ASSUME NEW x \in Tickets, x.by = y.by PROVE FALSE
  <2>1. x \in AllPartitions /\ x.spilled
    BY DEF Tickets
  <2>2. x.by[1] = Current /\ x.by[2] = Len(results[Current]) + 1
    BY <1>2, <1>6
  <2>3. CASE x \in Elems(todo)
    <3>1. PICK i \in 1..Len(todo) : todo[i] = x
      BY <2>3 DEF Elems
    <3>2. IF x.by[2] = 0 THEN ~x.spilled ELSE results[x.by[1]] = Missing
      BY <1>2, <3>1 DEF Named
    <3>3. QED
      BY <1>1, <2>1, <2>2, <3>2
  <2>4. ASSUME NEW p \in PlanIds, results[p] # Missing, x \in Elems(results[p]) PROVE FALSE
    <3>1. PICK k \in 1..Len(results[p]) : results[p][k] = x
      BY <2>4 DEF Elems
    <3>2. x.by = <<p, k>>
      BY <1>2, <2>4, <3>1 DEF Named
    <3>3. p = Current /\ k = Len(results[Current]) + 1
      BY <2>2, <3>2
    <3>4. QED
      BY <1>1, <3>1, <3>3
  <2>5. QED
    BY <2>3, <2>4 DEF Tickets
<1>7. QED
  BY <1>3, <1>4, <1>5, <1>6

\* The files when a partition is filled.
LEMMA FillFiles ==
    ASSUME FlowInv, NEW y, Filling(y)
    PROVE  Apart' /\ Claims'
<1>1. /\ \A x : x \in Tickets' <=> x \in Tickets \/ (x = y /\ y.spilled)
      /\ \A x \in Tickets : x.by # y.by
  BY FillTickets
<1>2. /\ Apart /\ Claims /\ Planned /\ phase = "Execute" /\ phase' = "Execute"
      /\ y.path \in Paths /\ y.data = held /\ held \in SUBSET Nodes /\ stuck' = stuck
      /\ met \subseteq Paths
      /\ WellFormed' <=> WellFormed
      /\ AllDrained' <=> AllDrained
  BY FlowSame DEF Filling, FlowInv, FlowTypeOK, Planned
<1>3. /\ \A p \in Paths :
            disk'[p] = IF y.spilled /\ p = y.path
                       THEN IF disk[p] = NoFile THEN held ELSE disk[p] \cup held
                       ELSE disk[p]
      /\ met' = IF y.spilled /\ disk[y.path] # NoFile THEN met \cup {y.path} ELSE met
  BY DEF Filling
<1>4. \A x \in Tickets : x.path \in Paths /\ x.data \in SUBSET Nodes /\ x.data # NoFile
  BY PartitionFields, ConstantsOK DEF Tickets
<1>5. Apart'
  <2>1. SUFFICES ASSUME met' = {} PROVE Apart'
    BY DEF Apart
  <2>2. met = {} /\ (y.spilled => disk[y.path] = NoFile)
    BY <1>3, <2>1
  <2>3. /\ \A x \in Tickets : disk[x.path] = x.data
        /\ \A x, z \in Tickets : x.path = z.path => x.by = z.by
    BY <1>2, <2>2 DEF Apart
  <2>4. y.spilled => \A x \in Tickets : x.path # y.path
    BY <1>4, <2>2, <2>3
  <2>5. ASSUME NEW x \in Tickets' PROVE disk'[x.path] = x.data
    <3>1. CASE x \in Tickets
      BY <1>3, <1>4, <2>3, <2>4, <3>1
    <3>2. CASE x = y /\ y.spilled
      BY <1>2, <1>3, <2>2, <3>2
    <3>3. QED
      BY <1>1, <3>1, <3>2
  <2>6. ASSUME NEW x \in Tickets', NEW z \in Tickets', x.path = z.path PROVE x.by = z.by
    BY <1>1, <2>3, <2>4, <2>6
  <2>7. QED
    BY <2>5, <2>6 DEF Apart
<1>6. Claims'
  <2>0. SUFFICES ASSUME ~stuck, WellFormed, AllDrained
                 PROVE  /\ \A p \in Paths : disk'[p] # NoFile => Claimed(p)'
                        /\ \A p \in met' : Claimed(p)' /\ (disk'[p] # NoFile => Contested(p)')
    BY <1>2 DEF Claims
  <2>1. /\ \A p \in Paths : disk[p] # NoFile => Claimed(p)
        /\ \A p \in met : Claimed(p) /\ (disk[p] # NoFile => Contested(p))
    BY <1>2, <2>0 DEF Claims
  <2>2. ASSUME NEW p \in Paths PROVE (Claimed(p) => Claimed(p)') /\ (Contested(p) => Contested(p)')
    <3>1. \A x \in Tickets : x \in Tickets'
      BY <1>1
    <3>2. QED
      BY <3>1 DEF Claimed, Contested
  <2>3. ASSUME NEW p \in Paths, y.spilled, p = y.path
        PROVE  Claimed(p)' /\ (Claimed(p) => Contested(p)')
    <3>1. y \in Tickets' /\ \A x \in Tickets : x \in Tickets' /\ x.by # y.by
      BY <1>1, <2>3
    <3>2. \E x \in Tickets' : x.path = p
      BY <2>3, <3>1
    <3>3. ASSUME Claimed(p)
          PROVE  \E x \in Tickets', z \in Tickets' : x.path = p /\ z.path = p /\ x.by # z.by
      BY <2>3, <3>1, <3>3 DEF Claimed
    <3>4. QED
      BY <3>2, <3>3 DEF Claimed, Contested
  <2>4. ASSUME NEW p \in Paths, disk'[p] # NoFile PROVE Claimed(p)'
    <3>1. CASE y.spilled /\ p = y.path
      BY <2>3, <3>1
    <3>2. CASE ~(y.spilled /\ p = y.path)
      BY <1>3, <2>1, <2>2, <2>4, <3>2
    <3>3. QED
      BY <3>1, <3>2
  <2>5. ASSUME NEW p \in met' PROVE Claimed(p)' /\ (disk'[p] # NoFile => Contested(p)')
    <3>0. p \in Paths /\ (p \in met \/ (y.spilled /\ p = y.path /\ disk[p] # NoFile))
      BY <1>2, <1>3
    <3>1. CASE y.spilled /\ p = y.path
      <4>1. Claimed(p)
        BY <2>1, <3>0
      <4>2. QED
        BY <2>3, <3>0, <3>1, <4>1
    <3>2. CASE ~(y.spilled /\ p = y.path)
      BY <1>3, <2>1, <2>2, <3>0, <3>2
    <3>3. QED
      BY <3>1, <3>2
  <2>6. QED
    BY <2>4, <2>5
<1>7. QED
  BY <1>5, <1>6

\* The records when a partition is filled.
LEMMA FillRecords ==
    ASSUME FlowInv, NEW y, Filling(y)
    PROVE  Within' /\ Exhaustive'
<1>1. /\ phase = "Execute" /\ phase' = "Execute" /\ plan' = plan /\ step' = step
      /\ todo' = todo /\ held' = held /\ Current \in PlanIds
      /\ seen'[Current] = seen[Current] \cup held
      /\ \A p \in PlanIds : p # Current => seen'[p] = seen[p]
      /\ met' = {} => met = {}
      /\ Within /\ Exhaustive
  BY DEF Filling, FlowInv
<1>2. /\ \A n : Sources(n)' = Sources(n) /\ From(n)' = From(n)
      /\ WellFormed' <=> WellFormed
      /\ SingleConsumer' <=> SingleConsumer
  BY FlowSame DEF Filling
<1>3. ~Idle /\ Current' = Current
  BY FillElems
<1>4. Within'
  <2> SUFFICES ASSUME met = {} PROVE Within'
    BY <1>1 DEF Within
  <2>1. /\ \A p \in PlanIds : seen[p] \subseteq From(p)
        /\ held \subseteq From(Current)
        /\ \A x \in Elems(todo) : x.data \subseteq From(Current)
    BY <1>1, <1>3 DEF Within
  <2>2. \A p \in PlanIds : seen'[p] \subseteq From(p)
    BY <1>1, <2>1
  <2>3. QED
    BY <1>1, <1>2, <1>3, <2>1, <2>2 DEF Within
<1>5. Exhaustive'
  <2>1. \A a \in Pending : a \in Pending' \/ a \in held
    BY <1>1 DEF Pending
  <2>2. SUFFICES ASSUME met = {}, WellFormed, SingleConsumer, NEW k \in 1..step, plan[k] \in Nodes
                 PROVE  Sources(plan[k]) \subseteq
                            IF k = step THEN seen'[plan[k]] \cup Pending' ELSE seen'[plan[k]]
    BY <1>1, <1>2 DEF Exhaustive
  <2>3. Sources(plan[k]) \subseteq IF k = step THEN seen[plan[k]] \cup Pending ELSE seen[plan[k]]
    BY <1>1, <2>2 DEF Exhaustive
  <2>4. plan[k] \in PlanIds
    BY <2>2 DEF PlanIds
  <2>5. CASE k = step
    BY <1>1, <2>1, <2>3, <2>5 DEF Current
  <2>6. CASE k # step
    BY <1>1, <2>3, <2>4, <2>6
  <2>7. QED
    BY <2>5, <2>6
<1>6. QED
  BY <1>4, <1>5

\* The numbers when a partition is filled.
LEMMA FillNumbers ==
    ASSUME FlowInv, NEW y, Filling(y)
    PROVE  Waiting' /\ Numbers' /\ Gone'
<1>1. /\ phase = "Execute" /\ phase' = "Execute" /\ plan' = plan /\ step' = step /\ slots # <<>>
      /\ written' = written /\ Current \in PlanIds /\ y.no = slots[1][1]
      /\ \A p \in PlanIds : p # Current => results'[p] = results[p]
      /\ Waiting /\ Numbers /\ Gone
  BY DEF Filling, FlowInv
<1>2. /\ \A n : Parents(n)' = Parents(n)
      /\ WellFormed' <=> WellFormed
      /\ SingleConsumer' <=> SingleConsumer
      /\ NoShuffle' <=> NoShuffle
  BY FlowSame DEF Filling
<1>3. /\ results'[Current] # Missing /\ results[Current] # Missing /\ results'[Current] # <<>>
      /\ \A x : x \in Elems(results'[Current]) <=> x \in Elems(results[Current]) \/ x = y
      /\ ~Idle /\ Current' = Current
      /\ Len(slots) \in Nat /\ Len(slots) > 0
      /\ \A k \in 1..Len(slots') : k + 1 \in 1..Len(slots) /\ slots'[k] = slots[k + 1]
  BY FillElems
<1>4. ASSUME WellFormed, SingleConsumer, NoShuffle, Current \in Nodes
      PROVE  \A k \in 1..Len(slots) : slots[k][1] = Partition
  BY <1>1, <1>3, <1>4 DEF Numbers
<1>5. Gone'
  BY <1>1, <1>2, <1>3 DEF Gone
<1>6. Numbers'
  <2>1. ASSUME WellFormed, SingleConsumer, NoShuffle, Current \in Nodes
        PROVE  \A k \in 1..Len(slots') : slots'[k][1] = Partition
    BY <1>3, <1>4, <2>1
  <2>2. WellFormed /\ SingleConsumer /\ NoShuffle => written = {}
    BY <1>1 DEF Numbers
  <2>3. QED
    BY <1>1, <1>2, <1>3, <2>1, <2>2 DEF Numbers
<1>7. Waiting'
  <2>1. \A n : Untaken(n)' = Untaken(n)
    BY <1>1, <1>2 DEF Untaken
  <2>2. ASSUME WellFormed, SingleConsumer, NEW k \in 1..step, plan[k] \in Nodes, Untaken(plan[k])
        PROVE  /\ results'[plan[k]] # Missing
               /\ NoShuffle => /\ Mine(results[plan[k]])'
                               /\ results'[plan[k]] # <<>>
    <3>1. /\ results[plan[k]] # Missing /\ plan[k] \in PlanIds
          /\ NoShuffle => /\ Mine(results[plan[k]])
                          /\ results[plan[k]] # <<>> \/ k = step
      BY <1>1, <2>2 DEF Waiting, PlanIds
    <3>2. CASE plan[k] # Current
      <4>1. results'[plan[k]] = results[plan[k]] /\ k # step
        BY <1>1, <3>1, <3>2 DEF Current
      <4>2. QED
        BY <1>1, <3>1, <4>1 DEF Mine
    <3>3. CASE plan[k] = Current
      <4>1. ASSUME NoShuffle PROVE \A x \in Elems(results'[Current]) : x.no = Partition
        <5>1. y.no = Partition
          BY <1>1, <1>3, <1>4, <2>2, <3>3, <4>1
        <5>2. QED
          BY <1>3, <3>1, <3>3, <4>1, <5>1 DEF Mine
      <4>2. NoShuffle => Mine(results[plan[k]])'
        BY <1>1, <3>3, <4>1 DEF Mine
      <4>3. QED
        BY <1>3, <3>3, <4>2
    <3>4. QED
      BY <3>2, <3>3
  <2>3. QED
    BY <1>1, <1>2, <2>1, <2>2 DEF Waiting, Untaken
<1>8. QED
  BY <1>5, <1>6, <1>7

\* A fill keeps the invariant.
LEMMA FlowFill ==
    ASSUME FlowInv, Fill, PlanInv'
    PROVE  FlowInv'
<1>1. PICK y : Filling(y)
  BY FillStep
<1>2. QED
  BY <1>1, FillBase, FillFiles, FillRecords, FillNumbers DEF FlowInv

-----------------------------------------------------------------------------
\* The last operator of a well-formed graph feeds nobody, and the others have
\* somebody before the end who takes what they put out.
LEMMA LastUntaken ==
    ASSUME FlowInv, Planned, WellFormed
    PROVE  /\ \A m \in 1..Len(plan) : Last(plan) \notin Parents(plan[m])
           /\ \A n \in Nodes : Children(n) # {} => \E m \in 1..Len(plan) : n \in Parents(plan[m])
<1>1. /\ Len(plan) \in Nat /\ Len(plan) \in 1..Len(plan)
      /\ Last(plan) = plan[Len(plan)] /\ Last(plan) \in Nodes
      /\ \A n \in Nodes : \E k \in 1..Len(plan) : plan[k] = n
      /\ \A a, b \in 1..Len(plan) : plan[a] \in Nodes /\ plan[a] = plan[b] => a = b
      /\ \A b \in 1..Len(plan) : \A p \in Parents(plan[b]) :
            p \in Nodes /\ \E a \in 1..(b - 1) : plan[a] = p
  BY PlanMade DEF FlowInv
<1>2. ASSUME NEW m \in 1..Len(plan), Last(plan) \in Parents(plan[m]) PROVE FALSE
  <2>1. PICK a \in 1..(m - 1) : plan[a] = Last(plan)
    BY <1>1, <1>2
  <2>2. a \in 1..Len(plan) /\ a # Len(plan)
    BY <1>1, <2>1
  <2>3. QED
    BY <1>1, <2>1, <2>2
<1>3. ASSUME NEW n \in Nodes, Children(n) # {} PROVE \E m \in 1..Len(plan) : n \in Parents(plan[m])
  <2>1. edges \subseteq Ids \X Ids
    BY DEF FlowInv, PlanInv, PlanTypeOK
  <2>2. PICK c \in Children(n) : <<n, c>> \in edges
    BY <1>3, <2>1, ParentsIds
  <2>3. c \in Nodes /\ n \in Parents(c)
    BY <2>1, <2>2, ParentsIds DEF WellFormed
  <2>4. QED
    BY <1>1, <2>3
<1>4. QED
  BY <1>2, <1>3

\* What the writer starts with.
LEMMA WriteTypes ==
    ASSUME FlowInv, StartWrite
    PROVE  /\ phase = "Execute" /\ phase' = "Write" /\ step = Len(plan) /\ Idle
           /\ todo = <<>> /\ slots = <<>> /\ PlanInv /\ Planned
           /\ Last(plan) = Current /\ Last(plan) \in Nodes /\ Last(plan) \in PlanIds
           /\ Last(plan) = plan[step] /\ step \in 1..Len(plan) /\ step \in Nat
           /\ results[Last(plan)] # Missing /\ results[Last(plan)] \in Seq(AllPartitions)
           /\ todo' = results[Last(plan)] /\ todo' \in Seq(AllPartitions)
           /\ results' = [id \in PlanIds |-> Missing]
           /\ UNCHANGED <<edges, op, incoming, queue, ordered, next, plan, step, slots, held, disk,
                          output, written, seen, met, stuck>>
<1>1. /\ phase = "Execute" /\ phase' = "Write" /\ step = Len(plan) /\ Idle
      /\ todo = <<>> /\ slots = <<>> /\ PlanInv /\ Planned
      /\ todo' = results[Last(plan)] /\ results' = [id \in PlanIds |-> Missing]
      /\ UNCHANGED <<edges, op, incoming, queue, ordered, next, plan, step, slots, held, disk,
                     output, written, seen, met, stuck>>
  BY DEF StartWrite, Idle, FlowInv, Planned
<1>2. /\ Len(plan) \in Nat /\ Len(plan) \in 1..Len(plan)
      /\ Last(plan) = plan[Len(plan)] /\ Last(plan) \in Nodes
  BY <1>1, PlanMade
<1>3. Last(plan) = Current /\ Last(plan) \in PlanIds
  BY <1>1, <1>2 DEF Current, PlanIds
<1>4. results[Last(plan)] # Missing
  BY <1>1, <1>2, <1>3 DEF FlowInv, Bounds
<1>5. results[Last(plan)] \in Seq(AllPartitions)
  BY <1>3, <1>4 DEF FlowInv, FlowTypeOK
<1>6. QED
  BY <1>1, <1>2, <1>3, <1>4, <1>5

\* No file changes hands when the writer starts; when every output is drained, no
\* partition that waits for a file is dropped either.
LEMMA WriteTickets ==
    ASSUME FlowInv, StartWrite
    PROVE  /\ Tickets' \subseteq Tickets
           /\ WellFormed /\ AllDrained => Tickets \subseteq Tickets'
<1>1. /\ step = Len(plan) /\ todo = <<>> /\ Planned
      /\ Last(plan) \in PlanIds /\ results[Last(plan)] # Missing
      /\ todo' = results[Last(plan)] /\ results' = [id \in PlanIds |-> Missing]
      /\ Elems(<<>>) = {}
  BY WriteTypes DEF Elems
<1>2. ASSUME NEW x \in Tickets' PROVE x \in Tickets
  <2>1. x \in AllPartitions /\ x.spilled /\ x \in Elems(todo')
    BY <1>1 DEF Tickets
  <2>2. QED
    BY <1>1, <2>1 DEF Tickets
<1>3. ASSUME WellFormed, AllDrained, NEW x \in Tickets PROVE x \in Tickets'
  <2>1. x \in AllPartitions /\ x.spilled
    BY DEF Tickets
  <2>2. PICK p \in PlanIds : results[p] # Missing /\ x \in Elems(results[p])
    BY <1>1 DEF Tickets
  <2>3. p \in Nodes
    BY <2>1, <2>2 DEF FlowInv, InjectedEmpty
  <2>4. p = Last(plan)
    <3> SUFFICES ASSUME p # Last(plan) PROVE FALSE
      OBVIOUS
    <3>1. Children(p) # {}
      BY <1>3, <2>3 DEF AllDrained
    <3>2. PICK m \in 1..Len(plan) : p \in Parents(plan[m])
      BY <1>1, <1>3, <2>3, <3>1, LastUntaken
    <3>3. results[p] = Missing
      BY <1>1, <1>3, <3>2 DEF FlowInv, Gone
    <3>4. QED
      BY <2>2, <3>3
  <2>5. x \in Elems(todo')
    BY <1>1, <2>2, <2>4
  <2>6. QED
    BY <2>1, <2>5 DEF Tickets
<1>4. QED
  BY <1>2, <1>3

\* The writer starts.
LEMMA FlowStartWrite ==
    ASSUME FlowInv, StartWrite, PlanInv'
    PROVE  FlowInv'
<1>1. /\ phase = "Execute" /\ phase' = "Write" /\ step = Len(plan) /\ Idle
      /\ todo = <<>> /\ slots = <<>> /\ PlanInv /\ Planned
      /\ Last(plan) = Current /\ Last(plan) \in Nodes /\ Last(plan) \in PlanIds
      /\ Last(plan) = plan[step] /\ step \in 1..Len(plan) /\ step \in Nat
      /\ results[Last(plan)] # Missing /\ results[Last(plan)] \in Seq(AllPartitions)
      /\ todo' = results[Last(plan)] /\ todo' \in Seq(AllPartitions)
      /\ results' = [id \in PlanIds |-> Missing]
      /\ UNCHANGED <<edges, op, incoming, queue, ordered, next, plan, step, slots, held, disk,
                     output, written, seen, met, stuck>>
  BY WriteTypes
<1>2. /\ \A n : Sources(n)' = Sources(n) /\ From(n)' = From(n) /\ Parents(n)' = Parents(n)
      /\ WellFormed' <=> WellFormed
      /\ SingleConsumer' <=> SingleConsumer
      /\ NoShuffle' <=> NoShuffle
      /\ AllDrained' <=> AllDrained
      /\ Last(plan)' = Last(plan)
  BY <1>1, FlowSame DEF Last
<1>3. \A p \in PlanIds : results'[p] = Missing
  BY <1>1
<1>4. \A a : a \in seen[Last(plan)] <=> \E x \in Elems(todo') : a \in x.data
  BY <1>1 DEF FlowInv, Kept
<1>5. Planned'
  BY <1>1 DEF Planned
<1>6. FlowTypeOK'
  BY <1>1 DEF FlowInv, FlowTypeOK
<1>7. Bounds' /\ InjectedEmpty' /\ Kept'
  BY <1>1, <1>3, <1>5 DEF Bounds, InjectedEmpty, Kept, FlowInv
<1>8. Unstarted'
  BY <1>1, <1>3 DEF Unstarted, FlowInv, PlanIds
<1>9. Gone' /\ Waiting'
  BY <1>1, <1>2, <1>3 DEF Gone, Waiting
<1>10. Named'
  <2>1. \A i \in 1..Len(todo') : todo'[i].by = <<Last(plan), i>>
    BY <1>1 DEF FlowInv, Named
  <2>2. \A i \in 1..Len(todo') : todo'[i].by[1] = Last(plan) /\ todo'[i].by[2] = i /\ i # 0
    BY <2>1
  <2>3. \A i, j \in 1..Len(todo') : todo'[i].by = todo'[j].by => i = j
    BY <2>2
  <2>4. \A i \in 1..Len(todo') :
           IF todo'[i].by[2] = 0 THEN ~todo'[i].spilled ELSE results'[todo'[i].by[1]] = Missing
    BY <1>1, <1>3, <2>2
  <2>5. QED
    BY <1>3, <2>3, <2>4 DEF Named
<1>11. Apart'
  BY <1>1, WriteTickets DEF Apart, FlowInv
<1>12. Claims'
  <2>1. SUFFICES ASSUME ~stuck, WellFormed, AllDrained PROVE Claims'
    BY <1>1, <1>2 DEF Claims
  <2>2. Tickets' = Tickets
    BY <2>1, WriteTickets
  <2>3. /\ \A p \in Paths : disk[p] # NoFile => Claimed(p)
        /\ \A p \in met : Claimed(p) /\ (disk[p] # NoFile => Contested(p))
    BY <1>1, <2>1 DEF FlowInv, Claims
  <2>4. \A p : (Claimed(p)' <=> Claimed(p)) /\ (Contested(p)' <=> Contested(p))
    BY <2>2 DEF Claimed, Contested
  <2>5. QED
    BY <1>1, <2>3, <2>4 DEF Claims
<1>13. Within'
  <2> SUFFICES ASSUME met = {} PROVE Within'
    BY <1>1 DEF Within
  <2>1. \A p \in PlanIds : seen[p] \subseteq From(p)
    BY DEF FlowInv, Within
  <2>2. \A x \in Elems(todo') : x.data \subseteq seen[Last(plan)]
    BY <1>4
  <2>3. \A x \in Elems(todo') : x.data \subseteq From(Last(plan))
    BY <1>1, <2>1, <2>2
  <2>4. output = {}
    BY <1>1 DEF FlowInv, Bounds
  <2>5. QED
    BY <1>1, <1>2, <2>1, <2>3, <2>4 DEF Within
<1>14. Exhaustive'
  <2>0. SUFFICES ASSUME met = {}, WellFormed, SingleConsumer PROVE Exhaustive'
    BY <1>1, <1>2 DEF Exhaustive
  <2>1. Pending = {}
    BY <1>1 DEF Pending, Elems
  <2>2. ASSUME NEW n \in Nodes PROVE Sources(n) \subseteq seen[n]
    <3>1. PICK k \in 1..Len(plan) : plan[k] = n
      BY <1>1, PlanMade
    <3>2. Sources(plan[k]) \subseteq
             IF k = step THEN seen[plan[k]] \cup Pending ELSE seen[plan[k]]
      BY <1>1, <2>0, <3>1 DEF FlowInv, Exhaustive
    <3>3. QED
      BY <2>1, <3>1, <3>2
  <2>3. \A a \in Sources(Last(plan)) : \E x \in Elems(todo') : a \in x.data
    BY <1>1, <1>4, <2>2
  <2>4. QED
    BY <1>1, <1>2, <2>2, <2>3 DEF Exhaustive
<1>15. Numbers'
  <2>0. SUFFICES ASSUME WellFormed, SingleConsumer, NoShuffle PROVE Numbers'
    BY <1>2 DEF Numbers
  <2>1. Untaken(plan[step])
    BY <1>1, <2>0, LastUntaken DEF Untaken
  <2>2. Mine(results[plan[step]]) /\ results[plan[step]] # <<>>
    <3>1. step \in 1..step
      BY <1>1
    <3>2. QED
      BY <1>1, <2>0, <2>1, <3>1 DEF FlowInv, Waiting
  <2>3. Mine(todo)' /\ todo' # <<>>
    BY <1>1, <2>2 DEF Mine
  <2>4. written = {}
    BY <1>1, <2>0 DEF FlowInv, Numbers
  <2>5. QED
    BY <1>1, <2>3, <2>4 DEF Numbers
<1>16. QED
  BY <1>6, <1>7, <1>8, <1>9, <1>10, <1>11, <1>12, <1>13, <1>14, <1>15 DEF FlowInv

\* The task completes.
LEMMA FlowComplete ==
    ASSUME FlowInv, Complete, PlanInv'
    PROVE  FlowInv'
<1>1. /\ phase = "Write" /\ phase' = "Done" /\ todo = <<>> /\ Planned /\ Planned'
      /\ UNCHANGED <<edges, op, incoming, queue, ordered, next, plan, step, results, todo, slots,
                     held, disk, output, written, seen, met, stuck>>
  BY DEF Complete, flowVars, Planned
<1>2. /\ \A n : Sources(n)' = Sources(n) /\ From(n)' = From(n) /\ Parents(n)' = Parents(n)
      /\ WellFormed' <=> WellFormed
      /\ SingleConsumer' <=> SingleConsumer
      /\ NoShuffle' <=> NoShuffle
      /\ AllDrained' <=> AllDrained
      /\ Last(plan)' = Last(plan)
      /\ Tickets' = Tickets
  BY <1>1, FlowSame DEF Last, Tickets
<1>3. FlowTypeOK' /\ Bounds' /\ Unstarted' /\ Named' /\ Kept'
  BY <1>1 DEF FlowInv, FlowTypeOK, Bounds, Unstarted, Named, Kept
<1>4. InjectedEmpty' /\ Apart'
  BY <1>1, <1>2 DEF FlowInv, InjectedEmpty, Apart
<1>5. Within' /\ Exhaustive'
  BY <1>1, <1>2 DEF FlowInv, Within, Exhaustive
<1>6. Waiting' /\ Gone'
  BY <1>1, <1>2 DEF FlowInv, Waiting, Gone
<1>7. Numbers'
  BY <1>1, <1>2 DEF FlowInv, Numbers, Mine
<1>8. Claims'
  BY <1>1, <1>2 DEF FlowInv, Claims, Claimed, Contested
<1>9. QED
  BY <1>3, <1>4, <1>5, <1>6, <1>7, <1>8 DEF FlowInv

\* The task fails.
LEMMA FlowFail ==
    ASSUME FlowInv, Fail, PlanInv'
    PROVE  FlowInv'
<1>1. /\ phase \in {"Execute", "Write"} /\ phase' = "Failed" /\ Planned'
      /\ results' = [id \in PlanIds |-> Missing]
      /\ todo' = <<>> /\ slots' = <<>> /\ held' = {}
      /\ UNCHANGED <<edges, op, incoming, queue, ordered, next, plan, step, disk, output, written,
                     seen, met, stuck>>
  BY DEF Fail, Planned
<1>2. /\ \A n : Sources(n)' = Sources(n) /\ From(n)' = From(n)
      /\ \A p \in PlanIds : results'[p] = Missing
  BY <1>1, FlowSame
<1>3. FlowTypeOK'
  BY <1>1 DEF FlowInv, FlowTypeOK
<1>4. Bounds' /\ Named' /\ Kept' /\ InjectedEmpty'
  BY <1>1, <1>2 DEF FlowInv, Bounds, Named, Kept, InjectedEmpty
<1>5. Unstarted' /\ Gone'
  BY <1>1, <1>2 DEF FlowInv, Unstarted, Gone, PlanIds
<1>6. Within'
  BY <1>1, <1>2 DEF FlowInv, Within
<1>7. Apart' /\ Exhaustive' /\ Waiting' /\ Numbers' /\ Claims'
  BY <1>1 DEF Apart, Exhaustive, Waiting, Numbers, Claims
<1>8. QED
  BY <1>3, <1>4, <1>5, <1>6, <1>7 DEF FlowInv

\* The invariant before any operator has started.
LEMMA FlowUntouched ==
    ASSUME PlanInv, Untouched, phase \notin {"Write", "Done"}
    PROVE  FlowInv
<1>1. /\ step = 0 /\ results = [id \in PlanIds |-> Missing]
      /\ todo = <<>> /\ slots = <<>> /\ held = {}
      /\ disk = [p \in Paths |-> NoFile]
      /\ output = {} /\ written = {} /\ seen = [id \in PlanIds |-> {}] /\ met = {}
      /\ Idle /\ 1..step = {} /\ Len(plan) \in Nat
  BY DEF Untouched, Idle, PlanInv, PlanTypeOK
<1>2. /\ \A p \in PlanIds : results[p] = Missing /\ seen[p] = {}
      /\ \A p \in Paths : disk[p] = NoFile
      /\ Elems(<<>>) = {} /\ Nodes \subseteq PlanIds
  BY <1>1 DEF Elems, PlanIds
<1>3. Tickets = {}
  BY <1>1, <1>2 DEF Tickets
<1>4. FlowTypeOK
  BY <1>1 DEF FlowTypeOK
<1>5. Bounds /\ Unstarted /\ InjectedEmpty /\ Named /\ Kept
  BY <1>1, <1>2 DEF Bounds, Unstarted, InjectedEmpty, Named, Kept
<1>6. Apart /\ Claims
  BY <1>1, <1>2, <1>3 DEF Apart, Claims
<1>7. Within /\ Exhaustive
  BY <1>1, <1>2 DEF Within, Exhaustive
<1>8. Waiting /\ Numbers /\ Gone
  BY <1>1, <1>2 DEF Waiting, Numbers, Gone
<1>9. QED
  BY <1>4, <1>5, <1>6, <1>7, <1>8 DEF FlowInv

\* The invariant when a job comes in.
LEMMA FlowInit ==
    ASSUME Init
    PROVE  FlowInv
<1>1. PlanInv
  BY PlanInit
<1>2. Untouched
  BY DEF Init, Untouched
<1>3. phase \notin {"Write", "Done"}
  BY DEF Init, DagInit
<1>4. QED
  BY <1>1, <1>2, <1>3, FlowUntouched

\* A step of the master.
LEMMA FlowPrepare ==
    ASSUME FlowInv, Prepare, PlanInv'
    PROVE  FlowInv'
<1>1. /\ ~Planned /\ phase' \notin {"Write", "Done"} /\ UNCHANGED flowVars
  BY DEF Prepare, Validate, CountIncoming, PopFront, AppendUnreached, InjectLocalShuffle, Planned
<1>2. Untouched'
  BY <1>1 DEF FlowInv, Bounds, Untouched, flowVars
<1>3. QED
  <2>1. (PlanInv /\ Untouched /\ phase \notin {"Write", "Done"} => FlowInv)'
    BY FlowUntouched, PTL
  <2>2. QED
    BY <1>1, <1>2, <2>1

\* A step that changes nothing.
LEMMA FlowStutter ==
    ASSUME FlowInv, UNCHANGED vars
    PROVE  FlowInv'
<1>1. UNCHANGED <<edges, op, phase, incoming, queue, ordered, next, plan, step, results, todo,
                  slots, held, disk, output, written, seen, met, stuck>>
  BY DEF vars, dagVars, flowVars
<1>2. /\ \A n : Sources(n)' = Sources(n) /\ From(n)' = From(n) /\ Parents(n)' = Parents(n)
      /\ \A n : KindOf(n)' = KindOf(n)
      /\ WellFormed' <=> WellFormed
      /\ SingleConsumer' <=> SingleConsumer
      /\ NoShuffle' <=> NoShuffle
      /\ AllDrained' <=> AllDrained
      /\ Last(plan)' = Last(plan) /\ Current' = Current
      /\ Tickets' = Tickets /\ Pending' = Pending
      /\ Idle' <=> Idle
      /\ Planned' <=> Planned
  BY <1>1, FlowSame DEF Last, Tickets, Current, Pending, KindOf, Idle, Planned
<1>3. PlanInv'
  BY PlanStep DEF FlowInv
<1>4. FlowTypeOK' /\ Bounds' /\ Unstarted' /\ Named' /\ Kept'
  BY <1>1, <1>2 DEF FlowInv, FlowTypeOK, Bounds, Untouched, Unstarted, Named, Kept
<1>5. InjectedEmpty' /\ Apart'
  BY <1>1, <1>2 DEF FlowInv, InjectedEmpty, Apart
<1>6. Within' /\ Exhaustive'
  BY <1>1, <1>2 DEF FlowInv, Within, Exhaustive
<1>7. Waiting' /\ Gone'
  BY <1>1, <1>2 DEF FlowInv, Waiting, Gone, Untaken, Mine
<1>8. Numbers'
  BY <1>1, <1>2 DEF FlowInv, Numbers, Mine
<1>9. Claims'
  BY <1>1, <1>2 DEF FlowInv, Claims, Claimed, Contested
<1>10. QED
  BY <1>3, <1>4, <1>5, <1>6, <1>7, <1>8, <1>9 DEF FlowInv

\* Every step keeps the invariant of the pipeline.
LEMMA FlowStep ==
    ASSUME FlowInv, [Next]_vars
    PROVE  FlowInv'
<1>1. PlanInv'
  BY PlanStep DEF FlowInv
<1>2. QED
  BY <1>1, FlowPrepare, FlowStart, FlowDrain, FlowFill, FlowStartWrite, FlowWritePart,
     FlowComplete, FlowFail, FlowStutter DEF Next

\* The invariant of the pipeline.
LEMMA FlowInvariant == Spec => []FlowInv
  BY FlowInit, FlowStep, PTL DEF Spec

\* As long as no two caches meet in a spill file, what an operator puts out comes
\* from Reads that feed it, on any graph; and in a completed task whose graph is
\* well-formed and has no forks, from all of them.
THEOREM DataFollowGraph == Spec => []DataflowExact
<1>1. ASSUME FlowInv PROVE DataflowExact
  <2>0. SUFFICES ASSUME met = {} PROVE DataflowExact
    BY DEF DataflowExact
  <2>1. ASSUME NEW n \in Nodes PROVE seen[n] \subseteq Sources(n)
    BY <1>1, <2>0 DEF FlowInv, Within, From, PlanIds
  <2>2. ASSUME phase = "Done", WellFormed, SingleConsumer
        PROVE  output = Sources(Last(plan)) /\ \A n \in Nodes : seen[n] = Sources(n)
    <3>1. Last(plan) \in Nodes /\ todo = <<>> /\ Elems(<<>>) = {}
      BY <1>1, <2>2, PlanMade DEF FlowInv, Planned, Bounds, Elems
    <3>2. output \subseteq Sources(Last(plan))
      BY <1>1, <2>0, <2>2, <3>1 DEF FlowInv, Within, From
    <3>3. /\ \A n \in Nodes : Sources(n) \subseteq seen[n]
          /\ Sources(Last(plan)) \subseteq output
      BY <1>1, <2>0, <2>2, <3>1 DEF FlowInv, Exhaustive
    <3>4. QED
      BY <2>1, <3>2, <3>3
  <2>3. QED
    BY <2>1, <2>2 DEF DataflowExact
<1>2. QED
  BY <1>1, FlowInvariant, PTL

\* In a well-formed graph whose outputs are all drained, a task two of whose
\* caches have met in a spill file never completes, as long as every drained file
\* could be removed.
THEOREM CollisionsFail == Spec => []CollisionFails
<1>1. ASSUME FlowInv PROVE CollisionFails
  <2>0. SUFFICES ASSUME met # {}, ~stuck, WellFormed, AllDrained, phase = "Done" PROVE FALSE
    BY DEF CollisionFails
  <2>1. todo = <<>> /\ Elems(<<>>) = {} /\ \A p \in PlanIds : results[p] = Missing
    BY <1>1, <2>0 DEF FlowInv, Bounds, Elems
  <2>2. Tickets = {}
    BY <2>1 DEF Tickets
  <2>3. \A p \in met : Claimed(p)
    BY <1>1, <2>0 DEF FlowInv, Claims, Planned
  <2>4. QED
    BY <2>0, <2>2, <2>3 DEF Claimed
<1>2. QED
  BY <1>1, FlowInvariant, PTL

\* Without forks and explicit shuffles the only file such a task writes is the
\* one it reports.
THEOREM ReportedFileExists == Spec => []ReportedFileWritten
<1>1. ASSUME FlowInv PROVE ReportedFileWritten
  <2>0. SUFFICES ASSUME phase = "Done", WellFormed, SingleConsumer, NoShuffle
                 PROVE  written = {Partition}
    BY DEF ReportedFileWritten, NoShuffle
  <2>1. todo = <<>>
    BY <1>1, <2>0 DEF FlowInv, Bounds
  <2>2. written \subseteq {Partition} /\ written # {}
    BY <1>1, <2>0, <2>1 DEF FlowInv, Numbers
  <2>3. QED
    BY <2>2
<1>2. QED
  BY <1>1, FlowInvariant, PTL

=============================================================================
