--------------------------- MODULE ExecutorProofs ---------------------------
(***************************************************************************)
(* Theorems about module Executor, for any number of requests, tasks and   *)
(* permits and any retry limit: permits, threads, retries and the slot of  *)
(* the current task, whichever handlers are dropped.  They hold of the     *)
(* executor with its files too, since module TaskFiles implements it; the  *)
(* theorems of the second half are about the files themselves.             *)
(***************************************************************************)
EXTENDS TaskFiles, FiniteSetTheorems, SequenceTheorems, TLAPS

-----------------------------------------------------------------------------
\* The queue holds each waiting request at most once, and no other.
QueueOK ==
    /\ \A a \in 1..Len(waiters) : state[waiters[a]] = "Waiting"
    /\ \A a, b \in 1..Len(waiters) : waiters[a] = waiters[b] => a = b

\* How far each handler has come with its attempts.
AttemptsOK ==
    \A r \in Requests :
        /\ state[r] = "Starting" => attempt[r] <= RetryLimit
        /\ state[r] \in {"Unsent", "Waiting"} => attempt[r] = 0
        /\ state[r] \in {"Unsent", "Waiting", "Starting", "Running"} => outcome[r] = None

\* Only a handler at work, or dropped, has a thread.
ThreadsOK == \A r \in threads : state[r] \in {"Running", "Cancelled"}

AtWork == {r \in Requests : Holds(r)}
Succeeded == {r \in Requests : outcome[r] = "Completed"}

ExecInv ==
    /\ TypeOK /\ InFlightExact /\ QueueOK /\ AttemptsOK /\ ThreadsOK
    /\ RetriesExhausted /\ CurrentTaskReal

-----------------------------------------------------------------------------
\* Sets of requests are finite; one member more or less is one more or less.
LEMMA Counting ==
    ASSUME NEW S \in SUBSET Requests, NEW r \in Requests
    PROVE  /\ IsFiniteSet(S) /\ Cardinality(S) \in Nat
           /\ r \notin S => Cardinality(S \cup {r}) = Cardinality(S) + 1
           /\ r \in S => Cardinality(S \ {r}) = Cardinality(S) - 1 /\ Cardinality(S) >= 1
<1>1. IsFiniteSet(S)
  BY ExecutorAssumption, FS_Subset
<1>2. r \in S => Cardinality(S \ {r}) \in Nat
  BY <1>1, FS_RemoveElement, FS_CardinalityType
<1>3. Cardinality(S) \in Nat
  BY <1>1, FS_CardinalityType
<1>4. r \notin S => Cardinality(S \cup {r}) = Cardinality(S) + 1
  BY <1>1, FS_AddElement
<1>5. ASSUME r \in S PROVE Cardinality(S \ {r}) = Cardinality(S) - 1
  BY <1>1, <1>5, FS_RemoveElement
<1>6. QED
  BY <1>1, <1>2, <1>3, <1>4, <1>5

\* Leaving the queue takes away one place and keeps the others.
LEMMA WithoutOK ==
    ASSUME NEW q \in Seq(Requests), NEW r \in Requests
    PROVE  /\ Without(q, r) \in Seq(Requests)
           /\ \A a \in 1..Len(Without(q, r)) : \E b \in 1..Len(q) : Without(q, r)[a] = q[b]
           /\ (\A a, b \in 1..Len(q) : q[a] = q[b] => a = b) =>
                 /\ \A a \in 1..Len(Without(q, r)) : Without(q, r)[a] # r
                 /\ \A a, b \in 1..Len(Without(q, r)) :
                       Without(q, r)[a] = Without(q, r)[b] => a = b
<1> DEFINE places == {k \in 1..Len(q) : q[k] = r}
           k == CHOOSE p \in places : TRUE
           front == SubSeq(q, 1, k - 1)
           back == SubSeq(q, k + 1, Len(q))
<1>1. CASE places = {}
  BY <1>1 DEF Without
<1>2. CASE places # {}
  <2>1. k \in places
    BY <1>2
  <2>2. k \in 1..Len(q) /\ q[k] = r
    BY <2>1
  <2>3. Without(q, r) = front \o back
    BY <1>2 DEF Without
  <2> HIDE DEF k, places
  <2>4. Len(q) \in Nat /\ \A a \in 1..Len(q) : q[a] \in Requests
    BY LenProperties, ElementOfSeq
  <2>5. /\ front \in Seq(Requests) /\ Len(front) = k - 1
        /\ \A a \in 1..(k - 1) : front[a] = q[a]
    BY <2>2, <2>4, SubSeqProperties
  <2>6. /\ back \in Seq(Requests) /\ Len(back) = Len(q) - k
        /\ \A a \in 1..(Len(q) - k) : back[a] = q[k + a]
    BY <2>2, <2>4, SubSeqProperties
  <2> HIDE DEF front, back
  <2>7. /\ front \o back \in Seq(Requests)
        /\ Len(front \o back) = Len(q) - 1
        /\ \A a \in 1..(Len(q) - 1) :
              (front \o back)[a] = IF a < k THEN q[a] ELSE q[a + 1]
    <3>1. /\ front \o back \in Seq(Requests)
          /\ Len(front \o back) = Len(front) + Len(back)
          /\ \A a \in 1..(Len(front) + Len(back)) :
                (front \o back)[a] = IF a <= Len(front) THEN front[a] ELSE back[a - Len(front)]
      BY <2>5, <2>6, ConcatProperties
    <3>2. Len(front) + Len(back) = Len(q) - 1
      BY <2>2, <2>4, <2>5, <2>6
    <3>3. ASSUME NEW a \in 1..(Len(q) - 1)
          PROVE  (front \o back)[a] = IF a < k THEN q[a] ELSE q[a + 1]
      <4>1. CASE a < k
        BY <2>2, <2>4, <2>5, <3>1, <3>2, <4>1
      <4>2. CASE a >= k
        <5>1. a - (k - 1) \in 1..(Len(q) - k) /\ k + (a - (k - 1)) = a + 1
          BY <2>2, <2>4, <4>2
        <5>2. back[a - (k - 1)] = q[a + 1]
          BY <2>6, <5>1
        <5>3. QED
          BY <2>2, <2>4, <2>5, <3>1, <3>2, <4>2, <5>2
      <4>3. a < k \/ a >= k
        BY <2>2, <2>4
      <4>4. QED
        BY <4>1, <4>2, <4>3
    <3>4. QED
      BY <3>1, <3>2, <3>3
  <2> DEFINE rest == front \o back
  <2>8. rest = Without(q, r) /\ rest \in Seq(Requests) /\ Len(rest) = Len(q) - 1
        /\ \A a \in 1..(Len(q) - 1) : rest[a] = IF a < k THEN q[a] ELSE q[a + 1]
    BY <2>3, <2>7
  <2> HIDE DEF rest
  <2> DEFINE place(a) == IF a < k THEN a ELSE a + 1
  <2>9. \A a \in 1..Len(rest) : place(a) \in 1..Len(q) /\ place(a) # k /\ rest[a] = q[place(a)]
    BY <2>2, <2>4, <2>8
  <2>10. \A a, b \in 1..Len(rest) : place(a) = place(b) => a = b
    BY <2>2, <2>4, <2>8
  <2> HIDE DEF place
  <2>11. \A a \in 1..Len(rest) : \E b \in 1..Len(q) : rest[a] = q[b]
    BY <2>9
  <2>12. ASSUME \A a, b \in 1..Len(q) : q[a] = q[b] => a = b
         PROVE  /\ \A a \in 1..Len(rest) : rest[a] # r
                /\ \A a, b \in 1..Len(rest) : rest[a] = rest[b] => a = b
    <3>1. \A a \in 1..Len(rest) : rest[a] # r
      BY <2>2, <2>9, <2>12
    <3>2. \A a, b \in 1..Len(rest) : rest[a] = rest[b] => a = b
      BY <2>9, <2>10, <2>12
    <3>3. QED
      BY <3>1, <3>2
  <2>13. QED
    BY <2>8, <2>11, <2>12
<1>3. QED
  BY <1>1, <1>2

-----------------------------------------------------------------------------
\* The invariant holds initially.
LEMMA ExecInit == Init => ExecInv
<1> SUFFICES ASSUME Init PROVE ExecInv
  OBVIOUS
<1> USE ExecutorAssumption DEF Init
<1>1. {r \in Requests : Holds(r)} = {} /\ {r \in Requests : outcome[r] = "Completed"} = {}
  BY DEF Holds
<1>2. Cardinality({}) = 0
  BY FS_EmptySet
<1>3. TypeOK
  BY DEF TypeOK, States
<1>4. InFlightExact
  <2>1. MaxParallel - MaxParallel = 0
    OBVIOUS
  <2>2. QED
    BY <1>1, <1>2, <2>1 DEF InFlightExact, TasksInFlight
<1>5. QueueOK
  BY EmptySeq DEF QueueOK
<1>6. AttemptsOK /\ ThreadsOK /\ CurrentTaskReal
  BY DEF AttemptsOK, ThreadsOK, CurrentTaskReal
<1>7. RetriesExhausted
  BY <1>1, <1>2 DEF RetriesExhausted
<1>8. QED
  BY <1>3, <1>4, <1>5, <1>6, <1>7 DEF ExecInv

\* Every step keeps it.
LEMMA ExecStep == ExecInv /\ [Next]_vars => ExecInv'
<1> SUFFICES ASSUME ExecInv, [Next]_vars PROVE ExecInv'
  OBVIOUS
<1> USE ExecutorAssumption DEF ExecInv
<1>0. InFlightExact <=> permits = MaxParallel - Cardinality(AtWork)
  BY Counting DEF InFlightExact, TasksInFlight, AtWork, TypeOK
<1>a. ASSUME NEW r \in AtWork PROVE permits < MaxParallel
  <2>1. AtWork \in SUBSET Requests /\ r \in Requests
    BY DEF AtWork
  <2>2. Cardinality(AtWork) >= 1 /\ Cardinality(AtWork) \in Nat
    BY <2>1, Counting
  <2>3. QED
    BY <1>0, <2>2 DEF TypeOK
<1>1. ASSUME NEW r \in Requests, Accept(r) PROVE ExecInv'
  <2>1. TypeOK'
    BY <1>1, AppendProperties DEF Accept, TypeOK, States
  <2>2. QueueOK'
    <3>1. /\ waiters' \in Seq(Requests) /\ Len(waiters') = Len(waiters) + 1
          /\ \A a \in 1..Len(waiters) : waiters'[a] = waiters[a]
          /\ waiters'[Len(waiters) + 1] = r
      BY <1>1, AppendProperties DEF Accept, TypeOK
    <3>2. Len(waiters) \in Nat /\ \A a \in 1..Len(waiters) : waiters[a] \in Requests
      BY LenProperties, ElementOfSeq DEF TypeOK
    <3>3. \A a \in 1..Len(waiters) : waiters[a] # r
      BY <1>1 DEF Accept, QueueOK
    <3>4. \A a \in 1..Len(waiters') : state'[waiters'[a]] = "Waiting"
      BY <1>1, <3>1, <3>2 DEF Accept, QueueOK, TypeOK
    <3>5. ASSUME NEW a \in 1..Len(waiters'), NEW b \in 1..Len(waiters'),
                 waiters'[a] = waiters'[b]
          PROVE  a = b
      <4>1. CASE a \in 1..Len(waiters) /\ b \in 1..Len(waiters)
        BY <3>1, <3>5, <4>1 DEF QueueOK
      <4>2. CASE a = Len(waiters) + 1 \/ b = Len(waiters) + 1
        BY <3>1, <3>2, <3>3, <3>5, <4>2
      <4>3. QED
        BY <3>1, <3>2, <4>1, <4>2
    <3>6. QED
      BY <3>4, <3>5 DEF QueueOK
  <2>3. AtWork' = AtWork
    BY <1>1 DEF Accept, AtWork, Holds, TypeOK
  <2>4. InFlightExact'
    BY <1>1, <2>3 DEF Accept, InFlightExact, TasksInFlight, AtWork
  <2>5. AttemptsOK' /\ ThreadsOK' /\ RetriesExhausted' /\ CurrentTaskReal'
    BY <1>1 DEF Accept, TypeOK, AttemptsOK, ThreadsOK, RetriesExhausted, CurrentTaskReal
  <2>6. QED
    BY <2>1, <2>2, <2>4, <2>5
<1>2. ASSUME NEW r \in Requests, Acquire(r) PROVE ExecInv'
  <2>1. /\ waiters' \in Seq(Requests) /\ Len(waiters') = Len(waiters) - 1
        /\ \A a \in 1..Len(waiters') : waiters'[a] = waiters[a + 1]
    BY <1>2, HeadTailProperties DEF Acquire, TypeOK
  <2>2. /\ Len(waiters) \in Nat /\ Len(waiters) > 0 /\ waiters[1] = r
        /\ \A a \in 1..Len(waiters) : waiters[a] \in Requests
    BY <1>2, EmptySeq, LenProperties, ElementOfSeq DEF Acquire, TypeOK
  <2>3. state[r] = "Waiting"
    BY <2>2 DEF QueueOK
  <2>4. TypeOK'
    BY <1>2, <2>1 DEF Acquire, TypeOK, States
  <2>5. QueueOK'
    BY <1>2, <2>1, <2>2 DEF Acquire, QueueOK, TypeOK
  <2>6. AtWork' = AtWork \cup {r} /\ r \notin AtWork
    BY <1>2, <2>3 DEF Acquire, AtWork, Holds, TypeOK
  <2>7. Cardinality(AtWork') = Cardinality(AtWork) + 1
    BY <2>6, Counting DEF AtWork
  <2>8. InFlightExact'
    BY <1>2, <2>7, Counting DEF Acquire, InFlightExact, TasksInFlight, AtWork, TypeOK
  <2>9. AttemptsOK' /\ ThreadsOK' /\ RetriesExhausted' /\ CurrentTaskReal'
    BY <1>2, <2>3
       DEF Acquire, TypeOK, AttemptsOK, ThreadsOK, RetriesExhausted, CurrentTaskReal
  <2>10. QED
    BY <2>4, <2>5, <2>8, <2>9
<1>3. ASSUME NEW r \in Requests, StartAttempt(r) PROVE ExecInv'
  <2>1. TypeOK'
    BY <1>3 DEF StartAttempt, TypeOK, States, AttemptsOK
  <2>2. QueueOK'
    BY <1>3, ElementOfSeq, LenProperties DEF StartAttempt, QueueOK, TypeOK
  <2>3. AtWork' = AtWork
    BY <1>3 DEF StartAttempt, AtWork, Holds, TypeOK
  <2>4. InFlightExact'
    BY <1>3, <2>3 DEF StartAttempt, InFlightExact, TasksInFlight, AtWork
  <2>5. AttemptsOK' /\ ThreadsOK'
    BY <1>3 DEF StartAttempt, TypeOK, AttemptsOK, ThreadsOK
  <2>6. RetriesExhausted'
    BY <1>3 DEF StartAttempt, TypeOK, AttemptsOK, RetriesExhausted
  <2>7. CurrentTaskReal'
    BY <1>3 DEF StartAttempt, TypeOK, CurrentTaskReal
  <2>8. QED
    BY <2>1, <2>2, <2>4, <2>5, <2>6, <2>7
<1>4. ASSUME NEW r \in Requests, NEW ok \in BOOLEAN, EndAttempt(r, ok) PROVE ExecInv'
  <2>0. r \in AtWork
    BY <1>4 DEF EndAttempt, AtWork, Holds
  <2>1. permits < MaxParallel /\ permits \in Nat
    BY <1>a, <2>0 DEF TypeOK
  <2>2. TypeOK'
    <3>1. state' \in [Requests -> States]
      BY <1>4 DEF EndAttempt, TypeOK, States
    <3>2. outcome' \in [Requests -> {"Completed", "Failed", None}]
      BY <1>4 DEF EndAttempt, TypeOK
    <3>3. permits' \in 0..MaxParallel
      BY <1>4, <2>1 DEF EndAttempt, TypeOK
    <3>4. completed' \in Nat /\ failed' \in Nat
      BY <1>4 DEF EndAttempt, TypeOK
    <3>5. QED
      BY <1>4, <3>1, <3>2, <3>3, <3>4 DEF EndAttempt, TypeOK
  <2>3. QueueOK'
    BY <1>4, ElementOfSeq, LenProperties DEF EndAttempt, QueueOK, TypeOK
  <2>4. InFlightExact'
    <3>1. CASE ~ok /\ attempt[r] <= RetryLimit
      <4>1. AtWork' = AtWork /\ permits' = permits
        BY <1>4, <3>1 DEF EndAttempt, AtWork, Holds, TypeOK
      <4>2. QED
        BY <4>1 DEF InFlightExact, TasksInFlight, AtWork
    <3>2. CASE ok \/ attempt[r] > RetryLimit
      <4>1. AtWork' = AtWork \ {r} /\ permits' = permits + 1
        BY <1>4, <3>2 DEF EndAttempt, AtWork, Holds, TypeOK
      <4>2. Cardinality(AtWork') = Cardinality(AtWork) - 1
        BY <2>0, <4>1, Counting DEF AtWork
      <4>3. Cardinality(AtWork) \in Nat
        BY Counting DEF AtWork
      <4>4. QED
        BY <1>0, <2>1, <4>1, <4>2, <4>3 DEF InFlightExact, TasksInFlight, AtWork, TypeOK
    <3>3. QED
      BY <3>1, <3>2 DEF TypeOK
  <2>5. AttemptsOK' /\ ThreadsOK'
    BY <1>4 DEF EndAttempt, TypeOK, AttemptsOK, ThreadsOK
  <2>6. RetriesExhausted'
    <3>1. outcome[r] = None
      BY <1>4 DEF EndAttempt, AttemptsOK
    <3>2. \A q \in Requests : outcome'[q] = "Failed" => attempt'[q] = RetryLimit + 1
      BY <1>4 DEF EndAttempt, RetriesExhausted, TypeOK
    <3>3. CASE ok
      <4>1. Succeeded' = Succeeded \cup {r} /\ r \notin Succeeded
        BY <1>4, <3>1, <3>3 DEF EndAttempt, Succeeded, TypeOK
      <4>2. completed' = completed + 1
        BY <1>4, <3>3 DEF EndAttempt
      <4>3. Cardinality(Succeeded') = Cardinality(Succeeded) + 1
        BY <4>1, Counting DEF Succeeded
      <4>4. QED
        BY <3>2, <4>2, <4>3 DEF RetriesExhausted, Succeeded
    <3>4. CASE ~ok
      <4>1. Succeeded' = Succeeded
        BY <1>4, <3>1, <3>4 DEF EndAttempt, Succeeded, TypeOK
      <4>2. completed' = completed
        BY <1>4, <3>4 DEF EndAttempt
      <4>3. QED
        BY <3>2, <4>1, <4>2 DEF RetriesExhausted, Succeeded
    <3>5. QED
      BY <3>3, <3>4
  <2>7. CurrentTaskReal'
    BY <1>4 DEF EndAttempt, TypeOK, CurrentTaskReal
  <2>8. QED
    BY <2>2, <2>3, <2>4, <2>5, <2>6, <2>7
<1>5. ASSUME NEW r \in Requests, Report(r) PROVE ExecInv'
  <2>1. TypeOK' /\ QueueOK'
    BY <1>5, ElementOfSeq, LenProperties DEF Report, TypeOK, States, QueueOK
  <2>2. AtWork' = AtWork
    BY <1>5 DEF Report, AtWork, Holds, TypeOK
  <2>3. InFlightExact'
    BY <1>5, <2>2 DEF Report, InFlightExact, TasksInFlight, AtWork
  <2>4. AttemptsOK' /\ ThreadsOK' /\ RetriesExhausted' /\ CurrentTaskReal'
    BY <1>5 DEF Report, TypeOK, AttemptsOK, ThreadsOK, RetriesExhausted, CurrentTaskReal
  <2>5. QED
    BY <2>1, <2>3, <2>4
<1>6. ASSUME NEW r \in Requests, Cancel(r) PROVE ExecInv'
  <2>1. waiters' \in Seq(Requests)
    BY <1>6, WithoutOK DEF Cancel, TypeOK
  <2>2. r \in AtWork => permits < MaxParallel
    BY <1>a
  <2>3. permits' = IF r \in AtWork THEN permits + 1 ELSE permits
    BY <1>6 DEF Cancel, AtWork
  <2>4. TypeOK'
    BY <1>6, <2>1, <2>2, <2>3 DEF Cancel, TypeOK, States
  <2>5. QueueOK'
    <3>1. /\ \A a \in 1..Len(waiters') : \E b \in 1..Len(waiters) : waiters'[a] = waiters[b]
          /\ \A a \in 1..Len(waiters') : waiters'[a] # r
          /\ \A a, b \in 1..Len(waiters') : waiters'[a] = waiters'[b] => a = b
      <4>1. waiters \in Seq(Requests) /\ waiters' = Without(waiters, r)
        BY <1>6 DEF Cancel, TypeOK
      <4>2. \A a, b \in 1..Len(waiters) : waiters[a] = waiters[b] => a = b
        BY DEF QueueOK
      <4> DEFINE left == Without(waiters, r)
      <4>3. /\ \A a \in 1..Len(left) : \E b \in 1..Len(waiters) : left[a] = waiters[b]
            /\ \A a \in 1..Len(left) : left[a] # r
            /\ \A a, b \in 1..Len(left) : left[a] = left[b] => a = b
        BY <4>1, <4>2, WithoutOK
      <4>4. QED
        BY <4>1, <4>3
    <3>2. \A q \in Requests : q # r => state'[q] = state[q]
      BY <1>6 DEF Cancel, TypeOK
    <3>3. \A b \in 1..Len(waiters) : waiters[b] \in Requests
      BY ElementOfSeq DEF TypeOK
    <3>4. ASSUME NEW a \in 1..Len(waiters') PROVE state'[waiters'[a]] = "Waiting"
      <4>1. PICK b \in 1..Len(waiters) : waiters'[a] = waiters[b]
        BY <3>1
      <4>2. QED
        BY <3>1, <3>2, <3>3, <4>1 DEF QueueOK
    <3>5. QED
      BY <3>1, <3>4 DEF QueueOK
  <2>6. AtWork' = AtWork \ {r}
    BY <1>6 DEF Cancel, AtWork, Holds, TypeOK
  <2>7. InFlightExact'
    <3>1. Cardinality(AtWork) \in Nat
      BY Counting DEF AtWork
    <3>2. CASE r \in AtWork
      <4>1. Cardinality(AtWork') = Cardinality(AtWork) - 1
        BY <2>6, <3>2, Counting DEF AtWork
      <4>2. QED
        BY <1>0, <2>3, <3>1, <3>2, <4>1 DEF InFlightExact, TasksInFlight, AtWork, TypeOK
    <3>3. CASE r \notin AtWork
      <4>1. AtWork' = AtWork
        BY <2>6, <3>3
      <4>2. QED
        BY <2>3, <3>3, <4>1 DEF InFlightExact, TasksInFlight, AtWork
    <3>4. QED
      BY <3>2, <3>3
  <2>8. AttemptsOK' /\ ThreadsOK' /\ RetriesExhausted' /\ CurrentTaskReal'
    BY <1>6 DEF Cancel, TypeOK, AttemptsOK, ThreadsOK, RetriesExhausted, CurrentTaskReal
  <2>9. QED
    BY <2>4, <2>5, <2>7, <2>8
<1>7. ASSUME NEW r \in Requests, OrphanEnds(r) PROVE ExecInv'
  <2>1. TypeOK' /\ QueueOK' /\ InFlightExact'
    BY <1>7 DEF OrphanEnds, TypeOK, QueueOK, InFlightExact, TasksInFlight, Holds
  <2>2. AttemptsOK' /\ ThreadsOK' /\ RetriesExhausted' /\ CurrentTaskReal'
    BY <1>7 DEF OrphanEnds, AttemptsOK, ThreadsOK, RetriesExhausted, CurrentTaskReal
  <2>3. QED
    BY <2>1, <2>2
<1>8. CASE UNCHANGED vars
  BY <1>8 DEF vars, TypeOK, QueueOK, InFlightExact, TasksInFlight, Holds, AttemptsOK,
              ThreadsOK, RetriesExhausted, CurrentTaskReal
<1>9. QED
  BY <1>1, <1>2, <1>3, <1>4, <1>5, <1>6, <1>7, <1>8 DEF Next, Step

\* The invariant holds of every behaviour of the executor.
LEMMA ExecInvariant == Spec => []ExecInv
BY ExecInit, ExecStep, PTL DEF Spec

-----------------------------------------------------------------------------
\* The variables of the executor keep their types.
THEOREM ExecutorTypeCorrect == Spec => []TypeOK
<1>1. ExecInv => TypeOK
  BY DEF ExecInv
<1>2. QED
  BY <1>1, ExecInvariant, PTL

\* acquire_owned, the end of execute_task and the drop of a handler keep the
\* semaphore exact: no permit is lost or minted.
THEOREM PermitsExact == Spec => []InFlightExact
<1>1. ExecInv => InFlightExact
  BY DEF ExecInv
<1>2. QED
  BY <1>1, ExecInvariant, PTL

\* No more threads than max_parallel_tasks, but for those of dropped handlers.
THEOREM ThreadsBounded == Spec => []ParallelBound
<1>1. ExecInv => ParallelBound
  <2> SUFFICES ASSUME ExecInv PROVE ParallelBound
    OBVIOUS
  <2> DEFINE own == {r \in threads : state[r] # "Cancelled"}
  <2>1. own \subseteq AtWork
    BY DEF ExecInv, TypeOK, ThreadsOK, AtWork, Holds
  <2>2. IsFiniteSet(AtWork)
    BY ExecutorAssumption, FS_Subset DEF AtWork
  <2>3. Cardinality(own) <= Cardinality(AtWork) /\ Cardinality(own) \in Nat
        /\ Cardinality(AtWork) \in Nat
    BY <2>1, <2>2, FS_Subset, FS_CardinalityType
  <2>4. Cardinality(AtWork) = MaxParallel - permits
    BY DEF ExecInv, InFlightExact, TasksInFlight, AtWork
  <2>5. Cardinality(own) <= MaxParallel
    BY <2>3, <2>4, ExecutorAssumption DEF ExecInv, TypeOK
  <2>6. QED
    BY <2>5 DEF ExecInv, ThreadsOK, ParallelBound
<1>2. QED
  BY <1>1, ExecInvariant, PTL

\* The retry loop of execute_task gives up only after its last retry, and
\* tasks_completed counts every successful request once.
THEOREM RetriesAreExhausted == Spec => []RetriesExhausted
<1>1. ExecInv => RetriesExhausted
  BY DEF ExecInv
<1>2. QED
  BY <1>1, ExecInvariant, PTL

\* active_task names a task at work, or one whose handler was dropped.
THEOREM CurrentTaskIsReal == Spec => []CurrentTaskReal
<1>1. ExecInv => CurrentTaskReal
  BY DEF ExecInv
<1>2. QED
  BY <1>1, ExecInvariant, PTL

\* The executor that works on files, with threads that take their time, is an
\* executor: what is proved above holds of it.
THEOREM FilesImplementExecutor == FilesSpec => Spec
<1>1. FilesNext => Next \/ UNCHANGED vars
  BY DEF FilesNext, Next, Step, Compute, Handle
<1>2. UNCHANGED allVars => UNCHANGED vars
  BY DEF allVars, vars
<1>3. [FilesNext]_allVars => [Next]_vars
  BY <1>1, <1>2
<1>4. FilesInit => Init
  BY DEF FilesInit
<1>5. QED
  BY <1>3, <1>4, PTL DEF FilesSpec, Spec

-----------------------------------------------------------------------------
\* How many caches a thread holds after each of its instructions.
Depths ==
    CASE job.plan = "Read" -> <<0, 1, 0, 0>>
      [] job.plan = "Map" -> <<0, 1, 0, 1, 0, 0>>
      [] job.plan = "Join" -> <<0, 1, 2, 1, 0, 1, 0, 0>>
      [] job.plan = "Stray" -> <<0, 0, 1, 0, 0>>
      [] job.plan = "Shuffle" -> <<0, 1, 0, 1, 2, 1, 1, 0, 0>>

Cache == [path : Scratch, spilled : BOOLEAN, mem : Contents]

FilesTypeOK ==
    /\ job \in Jobs
    /\ file \in [Paths -> Contents \cup {NoFile}]
    /\ pc \in [Requests -> Nat]
    /\ caches \in [Requests -> Seq(Cache)]
    /\ taken \in [Requests -> Contents]
    /\ thread \in [Requests -> {"None", "Work", "Ok", "Err"}]
    /\ alone \in [Requests -> BOOLEAN]

\* A thread has come from the start of its program to where it is.
ProgressOK ==
    \A r \in Requests :
        /\ thread[r] # "None" <=> r \in threads
        /\ thread[r] = "Work" => pc[r] < Len(Program(TaskOf[r]))
        /\ thread[r] = "Ok" => pc[r] = Len(Program(TaskOf[r]))
        /\ thread[r] \in {"Work", "Ok"} => Len(caches[r]) = Depths[pc[r] + 1]

\* Executions of a task hold records of the task, in caches with its path.
Owned(t, b) == \A rec \in Record : b[rec] > 0 => rec[1] = t
RecordsOwned ==
    job.plan # "Shuffle" =>
        \A r \in Requests :
            /\ Owned(TaskOf[r], taken[r])
            /\ \A k \in 1..Len(caches[r]) : /\ caches[r][k].path = SpillPath(TaskOf[r])
                                           /\ Owned(TaskOf[r], caches[r][k].mem)

\* A spill file has a thread that will drain it, until an attempt has failed or
\* a handler was dropped, if every output is drained and files can be removed.
Disturbed ==
    \/ job.sticky \/ job.plan = "Stray" \/ failed > 0
    \/ \E r \in Requests : state[r] = "Cancelled" \/ thread[r] = "Err"
SpillHeld ==
    Disturbed \/ \A path \in Scratch : file[path] # NoFile =>
                    \E r \in Requests : thread[r] = "Work" /\
                        \E k \in 1..Len(caches[r]) :
                            caches[r][k].spilled /\ caches[r][k].path = path

FilesInv ==
    /\ ExecInv /\ FilesTypeOK /\ ProgressOK
    /\ RecordsOwned /\ OtherPartitionsUntouched /\ SpillHeld

-----------------------------------------------------------------------------
\* What each instruction of a program is, and what it does to the caches.
LEMMA InstrFacts ==
    ASSUME job \in Jobs, NEW r \in Requests, pc[r] \in Nat, pc[r] < Len(Program(TaskOf[r]))
    PROVE  LET t == TaskOf[r]
               last == pc[r] + 1 = Len(Program(t))
               now == Depths[pc[r] + 1]
               then == Depths[pc[r] + 2]
           IN  /\ Instr(r).op \in {"PutRead", "Leave", "Put", "Take", "Write"}
               /\ pc[r] + 1 <= Len(Program(t)) /\ now \in Nat /\ then \in Nat
               /\ Instr(r).op \in {"PutRead", "Leave", "Put"} =>
                     /\ ~last /\ Instr(r).path \in Scratch
                     /\ then = IF Instr(r).op = "Leave" THEN now ELSE now + 1
                     /\ Instr(r).of \in SUBSET Sides
                     /\ job.plan # "Shuffle" => Instr(r).path = SpillPath(t)
               /\ Instr(r).op = "Take" => ~last /\ now > 0 /\ then = now - 1
               /\ Instr(r).op = "Write" =>
                     /\ then = now
                     /\ last => now = 0
                     /\ \E p \in Targets(t) : Instr(r).path = PartPath(p)
<1> USE DEF Instr, PutRead, Leave, Put, Take, Write, Depths, Sides, Targets, Scratch
<1>0. TaskOf[r] \in Tasks /\ job.plan \in {"Read", "Map", "Join", "Stray", "Shuffle"}
  BY ExecutorAssumption, TaskFilesAssumption
<1>1. CASE job.plan = "Read"
  <2>1. pc[r] \in 0..2
    BY <1>1 DEF Program
  <2>2. QED
    BY <1>0, <1>1, <2>1 DEF Program
<1>2. CASE job.plan = "Map"
  <2>1. pc[r] \in 0..4
    BY <1>2 DEF Program
  <2>2. QED
    BY <1>0, <1>2, <2>1 DEF Program
<1>3. CASE job.plan = "Join"
  <2>1. pc[r] \in 0..6
    BY <1>3 DEF Program
  <2>2. QED
    BY SMTT(30), <1>0, <1>3, <2>1 DEF Program
<1>4. CASE job.plan = "Shuffle"
  <2>1. pc[r] \in 0..7
    BY <1>4 DEF Program
  <2>2. Len(Program(TaskOf[r])) = 8 /\ Instr(r) = Program(TaskOf[r])[pc[r] + 1]
    BY <1>4 DEF Program
  <2>3. BucketPath(0) \in Scratch /\ BucketPath(1) \in Scratch
    OBVIOUS
  <2>4. CASE pc[r] \in 0..2
    <3>1. CASE pc[r] = 0
      BY SMTT(30), <1>0, <1>4, <2>2, <3>1 DEF Program
    <3>2. CASE pc[r] = 1
      BY SMTT(30), <1>0, <1>4, <2>2, <3>2 DEF Program
    <3>3. CASE pc[r] = 2
      <4>1. Program(TaskOf[r])[3] = Put(BucketPath(0), {0}) /\ Depths[3] = 0 /\ Depths[4] = 1
        BY <1>4 DEF Program
      <4>2. Instr(r) = Put(BucketPath(0), {0})
        BY <3>3, <4>1
      <4>3. /\ Instr(r).op = "Put" /\ Instr(r).path = BucketPath(0)
            /\ Instr(r).of \in SUBSET Sides
        <5> HIDE DEF Instr
        <5>1. QED
          BY <4>2
      <4> HIDE DEF Instr, Depths, Scratch, Put
      <4>4. QED
        BY <1>4, <2>2, <2>3, <3>3, <4>1, <4>3
    <3>4. pc[r] = 0 \/ pc[r] = 1 \/ pc[r] = 2
      BY <2>4
    <3>5. QED
      BY <3>1, <3>2, <3>3, <3>4, Zenon
  <2>5. CASE pc[r] \in 3..5
    BY <1>0, <1>4, <2>2, <2>3, <2>5 DEF Program
  <2>6. CASE pc[r] \in 6..7
    BY <1>0, <1>4, <2>2, <2>3, <2>6 DEF Program
  <2>7. pc[r] \in 0..2 \/ pc[r] \in 3..5 \/ pc[r] \in 6..7
    BY <2>1
  <2>8. QED
    BY <2>4, <2>5, <2>6, <2>7, Zenon
<1>5. CASE job.plan = "Stray"
  <2>1. pc[r] \in 0..3
    BY <1>5 DEF Program
  <2>2. QED
    BY SMTT(30), <1>0, <1>5, <2>1 DEF Program
<1>6. QED
  BY <1>0, <1>1, <1>2, <1>3, <1>4, <1>5

\* Vectors of records stay such, and keep to the task they come from.
LEMMA ContentsFacts ==
    ASSUME NEW t \in Tasks, NEW S, NEW b \in Contents, NEW c \in Contents
    PROVE  /\ Records(t, S) \in Contents /\ Nothing \in Contents
           /\ Plus(b, c) \in Contents /\ Only(b, S) \in Contents
           /\ Owned(t, Records(t, S)) /\ Owned(t, Nothing)
           /\ Owned(t, b) => Owned(t, Only(b, S))
           /\ Owned(t, b) /\ Owned(t, c) => Owned(t, Plus(b, c))
BY DEF Contents, Records, Nothing, Plus, Only, Owned

\* Part files are no scratch files, and each task has its own of both.
LEMMA PathFacts ==
    /\ \A p, t : SpillPath(p) = SpillPath(t) => p = t
    /\ \A p, t : PartPath(p) = PartPath(t) => p = t
    /\ \A p : PartPath(p) \notin Scratch
    /\ \A p, t : PartPath(p) # SpillPath(t)
    /\ Scratch \subseteq Paths
    /\ \A t \in Tasks : SpillPath(t) \in Scratch /\ PartPath(t) \in Paths
    /\ job \in Jobs => \A t \in Tasks : \A p \in Targets(t) : PartPath(p) \in Paths
BY DEF SpillPath, PartPath, BucketPath, Scratch, Paths, Targets

\* The invariant of the files holds initially.
LEMMA FilesInvInit == FilesInit => FilesInv
<1> SUFFICES ASSUME FilesInit PROVE FilesInv
  OBVIOUS
<1> USE DEF FilesInit
<1>1. ExecInv
  BY ExecInit
<1>2. Nothing \in Contents
  BY DEF Nothing, Contents
<1>3. FilesTypeOK
  BY <1>2 DEF FilesTypeOK
<1>4. ProgressOK
  BY DEF ProgressOK, Init
<1>5. RecordsOwned
  BY EmptySeq DEF RecordsOwned, Owned, Nothing
<1>6. OtherPartitionsUntouched /\ SpillHeld
  BY PathFacts DEF OtherPartitionsUntouched, SpillHeld
<1>7. QED
  BY <1>1, <1>3, <1>4, <1>5, <1>6 DEF FilesInv

\* What a thread does to its caches and files keeps the invariant of the files.
LEMMA FillKeeps ==
    ASSUME FilesInv, NEW r \in Requests, Fill(r), Instr(r).op # "Leave", UNCHANGED vars, ExecInv'
    PROVE  FilesInv'
<1> DEFINE t == TaskOf[r]
           path == Instr(r).path
           of == Instr(r).of
           recs == IF Instr(r).op = "Put" THEN Only(taken[r], of) ELSE Records(t, of)
           spills == t \in job.spilling /\ recs # Nothing
           old == IF file[path] = NoFile THEN Nothing ELSE file[path]
           filled == [path |-> path, spilled |-> spills,
                      mem |-> IF spills THEN Nothing ELSE recs]
<1>1. /\ thread[r] = "Work" /\ Instr(r).op \in {"PutRead", "Put"}
      /\ file' = IF spills THEN [file EXCEPT ![path] = Plus(old, recs)] ELSE file
      /\ caches' = [caches EXCEPT ![r] = Append(@, filled)]
      /\ taken' = IF Instr(r).op = "Put" THEN [taken EXCEPT ![r] = Only(@, Sides \ of)] ELSE taken
      /\ pc' = [pc EXCEPT ![r] = @ + 1]
      /\ UNCHANGED <<job, thread, alone, threads, state, failed>>
  BY DEF Fill, Working, vars
<1>2. /\ FilesTypeOK /\ t \in Tasks /\ pc[r] \in Nat /\ pc[r] < Len(Program(t))
      /\ caches[r] \in Seq(Cache) /\ taken[r] \in Contents /\ job \in Jobs
      /\ Len(caches[r]) = Depths[pc[r] + 1] /\ Len(caches[r]) \in Nat
  BY <1>1, ExecutorAssumption, LenProperties DEF FilesInv, FilesTypeOK, ProgressOK
<1>3. /\ pc[r] + 1 < Len(Program(t)) /\ path \in Scratch
      /\ Depths[pc[r] + 2] = Depths[pc[r] + 1] + 1
      /\ job.plan # "Shuffle" => path = SpillPath(t)
  <2>1. pc[r] + 1 # Len(Program(t)) /\ pc[r] + 1 <= Len(Program(t))
        /\ path \in Scratch /\ Depths[pc[r] + 2] = Depths[pc[r] + 1] + 1
        /\ (job.plan # "Shuffle" => path = SpillPath(t))
    BY <1>1, <1>2, InstrFacts
  <2>2. Len(Program(t)) \in Nat
    BY <1>2, TaskFilesAssumption DEF Program
  <2>3. QED
    BY <1>2, <2>1, <2>2
<1>4. recs \in Contents /\ Nothing \in Contents /\ Only(taken[r], Sides \ of) \in Contents
  BY <1>2, ContentsFacts
<1>5. old \in Contents /\ Plus(old, recs) \in Contents /\ path \in Paths
  <2>1. old \in Contents /\ path \in Paths
    BY <1>2, <1>3, <1>4, PathFacts DEF FilesTypeOK
  <2>2. QED
    BY <1>2, <1>4, <2>1, ContentsFacts
<1>6. job.plan # "Shuffle" =>
         /\ Owned(t, recs) /\ Owned(t, Nothing) /\ Owned(t, Only(taken[r], Sides \ of))
         /\ Owned(t, Plus(old, recs))
  <2> SUFFICES ASSUME job.plan # "Shuffle"
               PROVE  /\ Owned(t, recs) /\ Owned(t, Nothing)
                      /\ Owned(t, Only(taken[r], Sides \ of)) /\ Owned(t, Plus(old, recs))
    OBVIOUS
  <2>1. Owned(t, taken[r])
    BY DEF FilesInv, RecordsOwned
  <2>2. Owned(t, recs) /\ Owned(t, Nothing) /\ Owned(t, Only(taken[r], Sides \ of))
    BY <1>2, <2>1, ContentsFacts
  <2>3. Owned(t, old)
    BY <1>2, <1>3, <2>2 DEF FilesInv, OtherPartitionsUntouched, Owned
  <2>4. QED
    BY <1>2, <1>4, <1>5, <2>2, <2>3, ContentsFacts
<1> HIDE DEF path, of, recs, old
<1>7. filled \in Cache /\ filled.path = path /\ filled.spilled = spills
      /\ filled.mem \in {Nothing, recs}
  BY <1>3, <1>4 DEF Cache
<1> HIDE DEF spills, filled
<1>8. /\ caches'[r] = Append(caches[r], filled) /\ pc'[r] = pc[r] + 1
      /\ \A q \in Requests : q # r => caches'[q] = caches[q] /\ pc'[q] = pc[q]
      /\ \A q \in Requests : q # r => taken'[q] = taken[q]
      /\ taken'[r] \in {taken[r], Only(taken[r], Sides \ of)}
  BY <1>1, <1>2 DEF FilesTypeOK
<1>9. /\ caches'[r] \in Seq(Cache) /\ Len(caches'[r]) = Len(caches[r]) + 1
      /\ \A k \in 1..Len(caches[r]) : caches'[r][k] = caches[r][k]
      /\ caches'[r][Len(caches[r]) + 1] = filled
  BY <1>2, <1>7, <1>8, AppendProperties
<1>10. FilesTypeOK'
  <2>1. file' \in [Paths -> Contents \cup {NoFile}]
    BY <1>1, <1>2, <1>5 DEF FilesTypeOK
  <2>2. caches' \in [Requests -> Seq(Cache)] /\ pc' \in [Requests -> Nat]
    BY <1>1, <1>2, <1>8, <1>9 DEF FilesTypeOK
  <2>3. taken' \in [Requests -> Contents]
    BY <1>1, <1>2, <1>4 DEF FilesTypeOK
  <2>4. QED
    BY <1>1, <1>2, <2>1, <2>2, <2>3 DEF FilesTypeOK
<1>11. ProgressOK'
  <2>1. Depths' = Depths /\ \A u : Program(u)' = Program(u)
    BY <1>1 DEF Depths, Program
  <2>2. Len(caches'[r]) = Depths[pc'[r] + 1] /\ pc'[r] < Len(Program(t))
    BY <1>2, <1>3, <1>8, <1>9
  <2>3. QED
    BY <1>1, <1>8, <2>1, <2>2 DEF FilesInv, ProgressOK
<1>12. RecordsOwned'
  <2> SUFFICES ASSUME job.plan # "Shuffle", NEW q \in Requests
               PROVE  /\ Owned(TaskOf[q], taken'[q])
                      /\ \A k \in 1..Len(caches'[q]) :
                            /\ caches'[q][k].path = SpillPath(TaskOf[q])
                            /\ Owned(TaskOf[q], caches'[q][k].mem)
    BY <1>1 DEF RecordsOwned, SpillPath, Owned
  <2>1. /\ Owned(TaskOf[q], taken[q])
        /\ \A k \in 1..Len(caches[q]) : /\ caches[q][k].path = SpillPath(TaskOf[q])
                                       /\ Owned(TaskOf[q], caches[q][k].mem)
    BY DEF FilesInv, RecordsOwned
  <2>2. CASE q # r
    BY <1>8, <2>1, <2>2
  <2>3. CASE q = r
    <3>1. Owned(TaskOf[q], taken'[q])
      BY <1>6, <1>8, <2>1, <2>3
    <3>2. filled.path = SpillPath(TaskOf[q]) /\ Owned(TaskOf[q], filled.mem)
      BY <1>3, <1>6, <1>7, <2>3
    <3>3. ASSUME NEW k \in 1..Len(caches'[q])
          PROVE  /\ caches'[q][k].path = SpillPath(TaskOf[q])
                 /\ Owned(TaskOf[q], caches'[q][k].mem)
      <4>1. CASE k = Len(caches[r]) + 1
        BY <1>9, <2>3, <3>2, <4>1
      <4>2. CASE k # Len(caches[r]) + 1
        <5>1. k \in 1..Len(caches[r])
          BY <1>2, <1>9, <2>3, <4>2
        <5>2. QED
          BY <1>9, <2>1, <2>3, <5>1
      <4>3. QED
        BY <4>1, <4>2
    <3>4. QED
      BY <3>1, <3>3
  <2>4. QED
    BY <2>2, <2>3
<1>13. OtherPartitionsUntouched'
  <2> SUFFICES ASSUME job.plan # "Shuffle", NEW u \in Tasks,
                      NEW p \in {SpillPath(u), PartPath(u)}, file'[p] # NoFile
               PROVE  Owned(u, file'[p])
    BY <1>1 DEF OtherPartitionsUntouched, SpillPath, PartPath, Owned, Record
  <2>1. CASE file'[p] = file[p]
    BY <2>1 DEF FilesInv, OtherPartitionsUntouched, Owned
  <2>2. CASE file'[p] # file[p]
    <3>1. p = path /\ file'[p] = Plus(old, recs)
      BY <1>1, <1>2, <1>5, <2>2 DEF FilesTypeOK
    <3>2. u = t
      BY <1>3, <3>1, PathFacts
    <3>3. QED
      BY <1>6, <3>1, <3>2
  <2>3. QED
    BY <2>1, <2>2
<1>14. SpillHeld'
  <2>1. CASE Disturbed
    BY <1>1, <2>1 DEF SpillHeld, Disturbed
  <2>2. CASE ~Disturbed
    <3> SUFFICES ASSUME NEW p \in Scratch, file'[p] # NoFile
                 PROVE  \E q \in Requests : thread'[q] = "Work" /\
                           \E k \in 1..Len(caches'[q]) :
                              caches'[q][k].spilled /\ caches'[q][k].path = p
      BY DEF SpillHeld, Scratch, SpillPath, BucketPath
    <3>1. CASE spills /\ p = path
      <4>1. Len(caches[r]) + 1 \in 1..Len(caches'[r])
        BY <1>2, <1>9
      <4>2. caches'[r][Len(caches[r]) + 1].spilled /\ caches'[r][Len(caches[r]) + 1].path = p
        BY <1>7, <1>9, <3>1
      <4>3. QED
        BY <1>1, <4>1, <4>2
    <3>2. CASE ~(spills /\ p = path)
      <4>1. file[p] # NoFile
        BY <1>1, <1>2, <1>5, <3>2 DEF FilesTypeOK
      <4>2. PICK q \in Requests : thread[q] = "Work" /\
               \E k \in 1..Len(caches[q]) : caches[q][k].spilled /\ caches[q][k].path = p
        BY <2>2, <4>1 DEF FilesInv, SpillHeld
      <4>3. PICK k \in 1..Len(caches[q]) : caches[q][k].spilled /\ caches[q][k].path = p
        BY <4>2
      <4>4. k \in 1..Len(caches'[q]) /\ caches'[q][k] = caches[q][k]
        <5>1. CASE q = r
          BY <1>2, <1>9, <5>1
        <5>2. CASE q # r
          BY <1>8, <5>2
        <5>3. QED
          BY <5>1, <5>2
      <4>5. QED
        BY <1>1, <4>2, <4>3, <4>4
    <3>3. QED
      BY <3>1, <3>2
  <2>3. QED
    BY <2>1, <2>2
<1>15. QED
  BY <1>10, <1>11, <1>12, <1>13, <1>14 DEF FilesInv

\* An output that nobody will drain is filled.
LEMMA LeaveKeeps ==
    ASSUME FilesInv, NEW r \in Requests, Fill(r), Instr(r).op = "Leave", UNCHANGED vars, ExecInv'
    PROVE  FilesInv'
<1> DEFINE t == TaskOf[r]
           path == Instr(r).path
           recs == Records(t, Instr(r).of)
           spills == t \in job.spilling /\ recs # Nothing
           old == IF file[path] = NoFile THEN Nothing ELSE file[path]
<1>1. /\ thread[r] = "Work"
      /\ file' = IF spills THEN [file EXCEPT ![path] = Plus(old, recs)] ELSE file
      /\ pc' = [pc EXCEPT ![r] = @ + 1]
      /\ UNCHANGED <<job, caches, taken, thread, alone, threads, state, failed>>
  BY DEF Fill, Working, vars
<1>2. /\ FilesTypeOK /\ t \in Tasks /\ pc[r] \in Nat /\ pc[r] < Len(Program(t)) /\ job \in Jobs
      /\ Len(caches[r]) = Depths[pc[r] + 1]
  BY <1>1, ExecutorAssumption DEF FilesInv, FilesTypeOK, ProgressOK
<1>3. /\ pc[r] + 1 < Len(Program(t)) /\ path \in Scratch
      /\ Depths[pc[r] + 2] = Depths[pc[r] + 1]
      /\ job.plan # "Shuffle" => path = SpillPath(t)
  <2>1. pc[r] + 1 # Len(Program(t)) /\ pc[r] + 1 <= Len(Program(t))
        /\ path \in Scratch /\ Depths[pc[r] + 2] = Depths[pc[r] + 1]
        /\ (job.plan # "Shuffle" => path = SpillPath(t))
    BY <1>2, InstrFacts
  <2>2. Len(Program(t)) \in Nat
    BY <1>2, TaskFilesAssumption DEF Program
  <2>3. QED
    BY <1>2, <2>1, <2>2
<1>4. recs \in Contents /\ Nothing \in Contents /\ Owned(t, recs) /\ Owned(t, Nothing)
  <2>1. Instr(r).of \in SUBSET Sides
    BY <1>2, InstrFacts
  <2>2. recs \in Contents
    BY DEF Records, Contents
  <2>3. Nothing \in Contents /\ Owned(t, Nothing)
    BY DEF Nothing, Contents, Owned
  <2>4. Owned(t, recs)
    BY DEF Records, Owned, Record
  <2>5. QED
    BY <2>2, <2>3, <2>4
<1>5. old \in Contents /\ path \in Paths
  BY <1>2, <1>3, <1>4, PathFacts DEF FilesTypeOK
<1>6. Plus(old, recs) \in Contents
  BY <1>2, <1>4, <1>5, ContentsFacts
<1>7. ASSUME job.plan # "Shuffle" PROVE Owned(t, Plus(old, recs))
  <2>1. Owned(t, old)
    BY <1>2, <1>3, <1>4, <1>7 DEF FilesInv, OtherPartitionsUntouched, Owned
  <2>2. QED
    BY <1>2, <1>4, <1>5, <2>1, ContentsFacts
<1> HIDE DEF path, recs, spills, old
<1>8. FilesTypeOK'
  BY <1>1, <1>2, <1>5, <1>6 DEF FilesTypeOK
<1>9. ProgressOK'
  <2>1. Depths' = Depths /\ \A u : Program(u)' = Program(u)
    BY <1>1 DEF Depths, Program
  <2>2. /\ Len(caches'[r]) = Depths[pc'[r] + 1] /\ pc'[r] < Len(Program(t))
        /\ \A q \in Requests : q # r => pc'[q] = pc[q]
    BY <1>1, <1>2, <1>3 DEF FilesTypeOK
  <2>3. QED
    BY <1>1, <2>1, <2>2 DEF FilesInv, ProgressOK
<1>10. RecordsOwned'
  BY <1>1 DEF FilesInv, RecordsOwned, SpillPath, Owned
<1>11. OtherPartitionsUntouched'
  <2> SUFFICES ASSUME job.plan # "Shuffle", NEW u \in Tasks,
                      NEW p \in {SpillPath(u), PartPath(u)}, file'[p] # NoFile
               PROVE  Owned(u, file'[p])
    BY <1>1 DEF OtherPartitionsUntouched, SpillPath, PartPath, Owned, Record
  <2>1. CASE file'[p] = file[p]
    BY <2>1 DEF FilesInv, OtherPartitionsUntouched, Owned
  <2>2. CASE file'[p] # file[p]
    <3>1. p = path /\ file'[p] = Plus(old, recs)
      BY <1>1, <1>2, <1>5, <2>2 DEF FilesTypeOK
    <3>2. u = t
      BY <1>3, <3>1, PathFacts
    <3>3. QED
      BY <1>7, <3>1, <3>2
  <2>3. QED
    BY <2>1, <2>2
<1>12. SpillHeld'
  <2>1. job.plan = "Stray"
    <3>1. job.plan \in {"Read", "Map", "Join", "Stray", "Shuffle"}
      BY <1>2, TaskFilesAssumption
    <3>2. CASE job.plan \in {"Read", "Map"}
      BY <1>2, <3>2 DEF Program, Instr, PutRead, Put, Take, Write
    <3>3. CASE job.plan = "Join"
      BY <1>2, <3>3 DEF Program, Instr, PutRead, Put, Take, Write
    <3>4. CASE job.plan = "Shuffle"
      BY <1>2, <3>4 DEF Program, Instr, PutRead, Put, Take, Write
    <3>5. QED
      BY <3>1, <3>2, <3>3, <3>4
  <2>2. QED
    BY <1>1, <2>1 DEF SpillHeld, Disturbed
<1>13. QED
  BY <1>8, <1>9, <1>10, <1>11, <1>12 DEF FilesInv

\* drain takes from the head of the caches and removes what it has read.
LEMMA DrainKeeps ==
    ASSUME FilesInv, NEW r \in Requests, Drain(r), UNCHANGED vars, ExecInv'
    PROVE  FilesInv'
<1> DEFINE t == TaskOf[r]
           cache == Head(caches[r])
           got == IF cache.spilled THEN file[cache.path] ELSE cache.mem
<1>1. /\ thread[r] = "Work" /\ Instr(r).op = "Take" /\ ~FileMissing(r)
      /\ taken' = [taken EXCEPT ![r] = Plus(@, got)]
      /\ RemoveFile(r, cache)
      /\ caches' = [caches EXCEPT ![r] = Tail(@)]
      /\ pc' = [pc EXCEPT ![r] = @ + 1]
      /\ UNCHANGED <<job, thread, threads, state, failed>>
  BY DEF Drain, Working, vars
<1>a. /\ file' \in {file, [file EXCEPT ![cache.path] = NoFile]}
      /\ cache.spilled /\ ~job.sticky => file' = [file EXCEPT ![cache.path] = NoFile]
  BY <1>1 DEF RemoveFile
<1>b. alone' \in [Requests -> BOOLEAN]
  <2>1. alone \in [Requests -> BOOLEAN]
    BY DEF FilesInv, FilesTypeOK
  <2>2. alone' = alone \/ alone' = [q \in Requests |-> alone[q] /\ ~Share(q, r)]
    BY <1>1 DEF RemoveFile
  <2>3. QED
    BY <2>1, <2>2
<1>2. /\ FilesTypeOK /\ t \in Tasks /\ pc[r] \in Nat /\ pc[r] < Len(Program(t))
      /\ caches[r] \in Seq(Cache) /\ taken[r] \in Contents /\ job \in Jobs
      /\ Len(caches[r]) = Depths[pc[r] + 1] /\ Len(caches[r]) \in Nat
  BY <1>1, ExecutorAssumption, LenProperties DEF FilesInv, FilesTypeOK, ProgressOK
<1>3. /\ pc[r] + 1 < Len(Program(t)) /\ Depths[pc[r] + 1] > 0
      /\ Depths[pc[r] + 2] = Depths[pc[r] + 1] - 1
  <2>1. pc[r] + 1 # Len(Program(t)) /\ pc[r] + 1 <= Len(Program(t))
        /\ Depths[pc[r] + 1] > 0 /\ Depths[pc[r] + 2] = Depths[pc[r] + 1] - 1
    BY <1>1, <1>2, InstrFacts
  <2>2. Len(Program(t)) \in Nat
    BY <1>2, TaskFilesAssumption DEF Program
  <2>3. QED
    BY <1>2, <2>1, <2>2
<1>4. /\ caches'[r] = Tail(caches[r]) /\ pc'[r] = pc[r] + 1
      /\ \A q \in Requests : q # r => /\ caches'[q] = caches[q] /\ pc'[q] = pc[q]
                                     /\ taken'[q] = taken[q]
      /\ taken'[r] = Plus(taken[r], got)
  BY <1>1, <1>2 DEF FilesTypeOK
<1>5. /\ caches'[r] \in Seq(Cache) /\ Len(caches'[r]) = Len(caches[r]) - 1
      /\ \A k \in 1..Len(caches'[r]) : caches'[r][k] = caches[r][k + 1]
      /\ cache = caches[r][1] /\ cache \in Cache
  <2>1. caches[r] # <<>>
    BY <1>2, <1>3
  <2>2. QED
    BY <1>2, <1>4, <2>1, HeadTailProperties, ElementOfSeq
<1>6. cache.path \in Scratch /\ cache.path \in Paths
  BY <1>5, PathFacts DEF Cache
<1>7. got \in Contents /\ Plus(taken[r], got) \in Contents
  <2>1. got \in Contents
    BY <1>1, <1>2, <1>5, <1>6 DEF Cache, FileMissing, FilesTypeOK
  <2>2. QED
    BY <1>2, <2>1, ContentsFacts
<1>8. ASSUME job.plan # "Shuffle"
      PROVE  Owned(t, Plus(taken[r], got))
  <2>1. Owned(t, taken[r]) /\ cache.path = SpillPath(t) /\ Owned(t, cache.mem)
    BY SMTT(30), <1>2, <1>3, <1>5, <1>8 DEF FilesInv, RecordsOwned
  <2>2. Owned(t, got)
    BY <1>1, <1>2, <1>8, <2>1 DEF FilesInv, OtherPartitionsUntouched, Owned, FileMissing
  <2>3. QED
    BY <1>2, <1>7, <2>1, <2>2, ContentsFacts
<1> HIDE DEF got, cache
<1>9. FilesTypeOK'
  <2>1. file' \in [Paths -> Contents \cup {NoFile}]
    BY <1>a, <1>2, <1>6 DEF FilesTypeOK
  <2>2. caches' \in [Requests -> Seq(Cache)] /\ pc' \in [Requests -> Nat]
    BY <1>1, <1>2, <1>4, <1>5 DEF FilesTypeOK
  <2>3. taken' \in [Requests -> Contents]
    BY <1>1, <1>2, <1>7 DEF FilesTypeOK
  <2>4. QED
    BY <1>1, <1>2, <1>b, <2>1, <2>2, <2>3 DEF FilesTypeOK
<1>10. ProgressOK'
  <2>1. Depths' = Depths /\ \A u : Program(u)' = Program(u)
    BY <1>1 DEF Depths, Program
  <2>2. Len(caches'[r]) = Depths[pc'[r] + 1] /\ pc'[r] < Len(Program(t))
    BY <1>2, <1>3, <1>4, <1>5
  <2>3. QED
    BY <1>1, <1>4, <2>1, <2>2 DEF FilesInv, ProgressOK
<1>11. RecordsOwned'
  <2> SUFFICES ASSUME job.plan # "Shuffle", NEW q \in Requests
               PROVE  /\ Owned(TaskOf[q], taken'[q])
                      /\ \A k \in 1..Len(caches'[q]) :
                            /\ caches'[q][k].path = SpillPath(TaskOf[q])
                            /\ Owned(TaskOf[q], caches'[q][k].mem)
    BY <1>1 DEF RecordsOwned, SpillPath, Owned
  <2>1. /\ Owned(TaskOf[q], taken[q])
        /\ \A k \in 1..Len(caches[q]) : /\ caches[q][k].path = SpillPath(TaskOf[q])
                                       /\ Owned(TaskOf[q], caches[q][k].mem)
    BY DEF FilesInv, RecordsOwned
  <2>2. CASE q # r
    BY <1>4, <2>1, <2>2
  <2>3. CASE q = r
    <3>1. Owned(TaskOf[q], taken'[q])
      BY <1>4, <1>8, <2>3
    <3>2. \A k \in 1..Len(caches'[q]) : k + 1 \in 1..Len(caches[q])
      BY <1>2, <1>5, <2>3
    <3>3. QED
      BY <1>5, <2>1, <2>3, <3>1, <3>2
  <2>4. QED
    BY <2>2, <2>3
<1>12. OtherPartitionsUntouched'
  <2> SUFFICES ASSUME job.plan # "Shuffle", NEW u \in Tasks,
                      NEW p \in {SpillPath(u), PartPath(u)}, file'[p] # NoFile
               PROVE  Owned(u, file'[p])
    BY <1>1 DEF OtherPartitionsUntouched, SpillPath, PartPath, Owned, Record
  <2>a. p \in Paths /\ file \in [Paths -> Contents \cup {NoFile}]
    BY PathFacts DEF FilesInv, FilesTypeOK, Paths, Scratch
  <2>1. file'[p] = file[p]
    BY <1>a, <2>a
  <2>2. QED
    BY <2>1 DEF FilesInv, OtherPartitionsUntouched, Owned
<1>13. SpillHeld'
  <2>1. CASE Disturbed
    BY <1>1, <2>1 DEF SpillHeld, Disturbed
  <2>2. CASE ~Disturbed
    <3> SUFFICES ASSUME NEW p \in Scratch, file'[p] # NoFile
                 PROVE  \E q \in Requests : thread'[q] = "Work" /\
                           \E k \in 1..Len(caches'[q]) :
                              caches'[q][k].spilled /\ caches'[q][k].path = p
      BY DEF SpillHeld, Scratch, SpillPath, BucketPath
    <3>0. ~job.sticky
      BY <2>2 DEF Disturbed
    <3>1. file[p] # NoFile /\ ~(cache.spilled /\ cache.path = p)
      BY <1>2, <1>6, <1>a, <3>0, PathFacts DEF FilesTypeOK
    <3>2. PICK q \in Requests : thread[q] = "Work" /\
             \E k \in 1..Len(caches[q]) : caches[q][k].spilled /\ caches[q][k].path = p
      BY <2>2, <3>1 DEF FilesInv, SpillHeld
    <3>3. PICK k \in 1..Len(caches[q]) : caches[q][k].spilled /\ caches[q][k].path = p
      BY <3>2
    <3>4. CASE q # r
      BY <1>1, <1>4, <3>2, <3>3, <3>4
    <3>5. CASE q = r
      <4>1. k # 1
        BY <1>5, <3>1, <3>3, <3>5
      <4>2. k - 1 \in 1..Len(caches'[q]) /\ (k - 1) + 1 = k
        BY <1>2, <1>5, <3>5, <4>1
      <4>3. caches'[q][k - 1] = caches[q][k]
        BY <1>5, <3>5, <4>2
      <4>4. QED
        BY <1>1, <3>2, <3>3, <4>2, <4>3
    <3>6. QED
      BY <3>4, <3>5
  <2>3. QED
    BY <2>1, <2>2
<1>14. QED
  BY <1>9, <1>10, <1>11, <1>12, <1>13 DEF FilesInv

\* A part file is written whole, by what the thread has taken.
LEMMA WriteKeeps ==
    ASSUME FilesInv, NEW r \in Requests, WritePart(r), UNCHANGED vars, ExecInv'
    PROVE  FilesInv'
<1> DEFINE t == TaskOf[r]
           path == Instr(r).path
           n == Len(Program(t))
<1>1. /\ thread[r] = "Work" /\ Instr(r).op = "Write"
      /\ file' = [file EXCEPT ![path] = taken[r]]
      /\ taken' = [taken EXCEPT ![r] = Nothing]
      /\ pc' = [pc EXCEPT ![r] = @ + 1]
      /\ thread' = [thread EXCEPT ![r] = IF pc'[r] = n THEN "Ok" ELSE @]
      /\ UNCHANGED <<job, caches, alone, threads, state, failed>>
  BY DEF WritePart, Working, vars
<1>2. /\ FilesTypeOK /\ t \in Tasks /\ pc[r] \in Nat /\ pc[r] < n
      /\ caches[r] \in Seq(Cache) /\ taken[r] \in Contents /\ job \in Jobs
      /\ Len(caches[r]) = Depths[pc[r] + 1] /\ Len(caches[r]) \in Nat
  BY <1>1, ExecutorAssumption, LenProperties DEF FilesInv, FilesTypeOK, ProgressOK
<1>3. /\ pc[r] + 1 <= n /\ Depths[pc[r] + 2] = Depths[pc[r] + 1]
      /\ pc[r] + 1 = n => Depths[pc[r] + 1] = 0
  <2>1. Instr(r).op = "Write" /\ job \in Jobs /\ pc[r] \in Nat /\ pc[r] < Len(Program(TaskOf[r]))
    BY <1>1, <1>2
  <2>2. QED
    BY <2>1, InstrFacts
<1>4. PICK target \in Targets(t) : path = PartPath(target)
  <2>1. Instr(r).op = "Write" /\ job \in Jobs /\ pc[r] \in Nat /\ pc[r] < Len(Program(TaskOf[r]))
    BY <1>1, <1>2
  <2>2. QED
    BY <2>1, InstrFacts
<1>5. /\ path \in Paths /\ path \notin Scratch
      /\ job.plan # "Shuffle" => path = PartPath(t)
  BY <1>2, <1>4, PathFacts DEF Targets
<1>6. /\ Nothing \in Contents /\ n \in Nat
      /\ pc'[r] = pc[r] + 1 /\ taken'[r] = Nothing /\ thread'[r] \in {"Work", "Ok"}
      /\ thread'[r] = "Work" => pc[r] + 1 # n
      /\ \A q \in Requests : q # r => /\ thread'[q] = thread[q] /\ pc'[q] = pc[q]
                                     /\ taken'[q] = taken[q]
  <2>1. n \in Nat
    BY <1>2, TaskFilesAssumption DEF Program
  <2>2. QED
    BY <1>1, <1>2, <2>1 DEF FilesTypeOK, Nothing, Contents
<1> HIDE DEF path, n
<1>7. FilesTypeOK'
  BY <1>1, <1>2, <1>5, <1>6 DEF FilesTypeOK
<1>8. ProgressOK'
  <2>1. Depths' = Depths /\ \A u : Program(u)' = Program(u)
    BY <1>1 DEF Depths, Program
  <2>2. /\ Len(caches'[r]) = Depths[pc'[r] + 1]
        /\ thread'[r] = "Work" => pc'[r] < n
        /\ thread'[r] = "Ok" => pc'[r] = n
    BY <1>1, <1>2, <1>3, <1>6 DEF FilesTypeOK
  <2>3. QED
    BY <1>1, <1>6, <2>1, <2>2 DEF FilesInv, ProgressOK, n
<1>9. RecordsOwned'
  <2>1. Owned(t, Nothing)
    BY DEF Owned, Nothing
  <2> SUFFICES ASSUME job.plan # "Shuffle", NEW q \in Requests
               PROVE  /\ Owned(TaskOf[q], taken'[q])
                      /\ \A k \in 1..Len(caches[q]) :
                            /\ caches[q][k].path = SpillPath(TaskOf[q])
                            /\ Owned(TaskOf[q], caches[q][k].mem)
    BY <1>1 DEF RecordsOwned, SpillPath, Owned
  <2>2. QED
    BY <1>6, <2>1 DEF FilesInv, RecordsOwned
<1>10. OtherPartitionsUntouched'
  <2> SUFFICES ASSUME job.plan # "Shuffle", NEW u \in Tasks,
                      NEW p \in {SpillPath(u), PartPath(u)}, file'[p] # NoFile
               PROVE  Owned(u, file'[p])
    BY <1>1 DEF OtherPartitionsUntouched, SpillPath, PartPath, Owned, Record
  <2>1. CASE p = path
    <3>1. u = t
      BY <1>5, <2>1, PathFacts
    <3>2. Owned(t, taken[r])
      BY DEF FilesInv, RecordsOwned
    <3>3. QED
      BY <1>1, <1>2, <1>5, <2>1, <3>1, <3>2 DEF FilesTypeOK
  <2>2. CASE p # path
    <3>1. file'[p] = file[p]
      BY <1>1, <1>2, <2>2 DEF FilesTypeOK
    <3>2. QED
      BY <3>1 DEF FilesInv, OtherPartitionsUntouched, Owned
  <2>3. QED
    BY <2>1, <2>2
<1>11. SpillHeld'
  <2>1. CASE Disturbed
    BY <1>1, <1>6, <2>1 DEF SpillHeld, Disturbed
  <2>2. CASE ~Disturbed
    <3> SUFFICES ASSUME NEW p \in Scratch, file'[p] # NoFile
                 PROVE  \E q \in Requests : thread'[q] = "Work" /\
                           \E k \in 1..Len(caches'[q]) :
                              caches'[q][k].spilled /\ caches'[q][k].path = p
      BY DEF SpillHeld, Scratch, SpillPath, BucketPath
    <3>1. file[p] # NoFile
      BY <1>1, <1>2, <1>5 DEF FilesTypeOK
    <3>2. PICK q \in Requests : thread[q] = "Work" /\
             \E k \in 1..Len(caches[q]) : caches[q][k].spilled /\ caches[q][k].path = p
      BY <2>2, <3>1 DEF FilesInv, SpillHeld
    <3>3. thread'[q] = "Work"
      <4>1. CASE q # r
        BY <1>6, <3>2, <4>1
      <4>2. CASE q = r
        <5>1. Len(caches[r]) # 0
          BY <3>2, <4>2, <1>2
        <5>2. pc[r] + 1 # n
          BY <1>2, <1>3, <5>1
        <5>3. QED
          BY <1>1, <1>2, <1>6, <4>2, <5>2 DEF FilesTypeOK
      <4>3. QED
        BY <4>1, <4>2
    <3>4. QED
      BY <1>1, <3>2, <3>3
  <2>3. QED
    BY <2>1, <2>2
<1>12. QED
  BY <1>7, <1>8, <1>9, <1>10, <1>11 DEF FilesInv

\* A thread that fails leaves the files as they are.
LEMMA FailKeeps ==
    ASSUME FilesInv, NEW r \in Requests, Fail(r), UNCHANGED vars, ExecInv'
    PROVE  FilesInv'
<1> DEFINE t == TaskOf[r]
           path == Instr(r).path
<1>1. /\ thread[r] = "Work"
      /\ thread' = [thread EXCEPT ![r] = "Err"]
      /\ UNCHANGED <<job, pc, caches, taken, alone, threads, state, failed>>
  BY DEF Fail, Working, vars
<1>2. /\ FilesTypeOK /\ t \in Tasks /\ pc[r] \in Nat /\ pc[r] < Len(Program(t)) /\ job \in Jobs
  BY <1>1, ExecutorAssumption DEF FilesInv, FilesTypeOK, ProgressOK
<1>3. \/ file' = file
      \/ path \in Paths /\ file' = [file EXCEPT ![path] = Nothing]
  <2>1. CASE UNCHANGED file
    BY <2>1
  <2>2. CASE Instr(r).op = "Write" /\ file' = [file EXCEPT ![path] = Nothing]
    <3>1. PICK target \in Targets(t) : path = PartPath(target)
      BY <1>2, <2>2, InstrFacts
    <3>2. QED
      BY <1>2, <2>2, <3>1, PathFacts
  <2>3. QED
    BY <2>1, <2>2 DEF Fail
<1> HIDE DEF path
<1>4. Nothing \in Contents /\ \A u : Owned(u, Nothing)
  BY DEF Nothing, Contents, Owned
<1>5. FilesTypeOK'
  BY <1>1, <1>2, <1>3, <1>4 DEF FilesTypeOK
<1>6. ProgressOK'
  <2>1. Depths' = Depths /\ \A u : Program(u)' = Program(u)
    BY <1>1 DEF Depths, Program
  <2>2. thread'[r] = "Err" /\ \A q \in Requests : q # r => thread'[q] = thread[q]
    BY <1>1, <1>2 DEF FilesTypeOK
  <2>3. QED
    BY <1>1, <2>1, <2>2 DEF FilesInv, ProgressOK
<1>7. RecordsOwned'
  BY <1>1 DEF FilesInv, RecordsOwned, SpillPath, Owned
<1>8. OtherPartitionsUntouched'
  <2> SUFFICES ASSUME job.plan # "Shuffle", NEW u \in Tasks,
                      NEW p \in {SpillPath(u), PartPath(u)}, file'[p] # NoFile
               PROVE  Owned(u, file'[p])
    BY <1>1 DEF OtherPartitionsUntouched, SpillPath, PartPath, Owned, Record
  <2>1. file'[p] = file[p] \/ file'[p] = Nothing
    <3>1. p \in Paths
      BY PathFacts
    <3>2. QED
      BY <1>2, <1>3, <3>1 DEF FilesTypeOK
  <2>2. QED
    BY <1>4, <2>1 DEF FilesInv, OtherPartitionsUntouched, Owned
<1>9. SpillHeld'
  <2>1. thread'[r] = "Err"
    BY <1>1, <1>2 DEF FilesTypeOK
  <2>2. QED
    BY <2>1 DEF SpillHeld, Disturbed
<1>10. QED
  BY <1>5, <1>6, <1>7, <1>8, <1>9 DEF FilesInv

\* A new attempt starts without caches and with nothing taken.
LEMMA SpawnKeeps ==
    ASSUME FilesInv, NEW r \in Requests, StartAttempt(r), Spawn(r), ExecInv'
    PROVE  FilesInv'
<1>1. /\ pc' = [pc EXCEPT ![r] = 0] /\ caches' = [caches EXCEPT ![r] = <<>>]
      /\ taken' = [taken EXCEPT ![r] = Nothing] /\ thread' = [thread EXCEPT ![r] = "Work"]
      /\ job' = job /\ file' = file /\ threads' = threads \cup {r} /\ failed' = failed
      /\ state[r] = "Starting" /\ state' = [state EXCEPT ![r] = "Running"]
  BY DEF Spawn, StartAttempt
<1>2. FilesTypeOK /\ job \in Jobs /\ TypeOK
  BY DEF FilesInv, FilesTypeOK, ExecInv
<1>3. r \notin threads /\ thread[r] = "None"
  BY <1>1, <1>2 DEF FilesInv, ExecInv, ThreadsOK, ProgressOK
<1>4. /\ pc'[r] = 0 /\ caches'[r] = <<>> /\ taken'[r] = Nothing /\ thread'[r] = "Work"
      /\ \A q \in Requests : q # r =>
            /\ pc'[q] = pc[q] /\ caches'[q] = caches[q] /\ taken'[q] = taken[q]
            /\ thread'[q] = thread[q] /\ state'[q] = state[q]
  BY <1>1, <1>2 DEF FilesTypeOK, TypeOK
<1>5. Nothing \in Contents /\ \A u : Owned(u, Nothing)
  BY DEF Nothing, Contents, Owned
<1>6. FilesTypeOK'
  <2>1. alone' \in [Requests -> BOOLEAN]
    BY <1>2 DEF Spawn, FilesTypeOK
  <2>2. QED
    BY <1>1, <1>2, <1>5, <2>1 DEF FilesTypeOK
<1>7. ProgressOK'
  <2>1. Depths' = Depths /\ \A u : Program(u)' = Program(u)
    BY <1>1 DEF Depths, Program
  <2>2. Len(Program(TaskOf[r])) > 0 /\ Depths[1] = 0
    BY <1>2, TaskFilesAssumption DEF Program, Depths
  <2>3. QED
    BY <1>1, <1>3, <1>4, <2>1, <2>2 DEF FilesInv, ProgressOK
<1>8. RecordsOwned'
  <2> SUFFICES ASSUME job.plan # "Shuffle", NEW q \in Requests
               PROVE  /\ Owned(TaskOf[q], taken'[q])
                      /\ \A k \in 1..Len(caches'[q]) :
                            /\ caches'[q][k].path = SpillPath(TaskOf[q])
                            /\ Owned(TaskOf[q], caches'[q][k].mem)
    BY <1>1 DEF RecordsOwned, SpillPath, Owned
  <2>1. CASE q = r
    BY <1>4, <1>5, <2>1
  <2>2. CASE q # r
    BY <1>4, <2>2 DEF FilesInv, RecordsOwned
  <2>3. QED
    BY <2>1, <2>2
<1>9. OtherPartitionsUntouched'
  BY <1>1 DEF FilesInv, OtherPartitionsUntouched, SpillPath, PartPath, Record
<1>10. SpillHeld'
  <2>1. CASE Disturbed
    BY <1>1, <1>3, <1>4, <2>1 DEF SpillHeld, Disturbed
  <2>2. CASE ~Disturbed
    <3> SUFFICES ASSUME NEW p \in Scratch, file[p] # NoFile
                 PROVE  \E q \in Requests : thread'[q] = "Work" /\
                           \E k \in 1..Len(caches'[q]) :
                              caches'[q][k].spilled /\ caches'[q][k].path = p
      BY <1>1 DEF SpillHeld, Scratch, SpillPath, BucketPath
    <3>1. PICK q \in Requests : thread[q] = "Work" /\
             \E k \in 1..Len(caches[q]) : caches[q][k].spilled /\ caches[q][k].path = p
      BY <2>2 DEF FilesInv, SpillHeld
    <3>2. q # r
      BY <1>3, <3>1
    <3>3. QED
      BY <1>4, <3>1, <3>2
  <2>3. QED
    BY <2>1, <2>2
<1>11. QED
  BY <1>6, <1>7, <1>8, <1>9, <1>10 DEF FilesInv

\* A thread that has ended drops its caches; their files stay.
LEMMA GoneKeeps ==
    ASSUME FilesInv, NEW r \in Requests, Gone(r), ExecInv', thread[r] # "Work",
           \/ thread[r] = "Ok" /\ EndAttempt(r, TRUE)
           \/ thread[r] = "Err" /\ EndAttempt(r, FALSE)
           \/ OrphanEnds(r)
    PROVE  FilesInv'
<1>1. /\ pc' = [pc EXCEPT ![r] = 0] /\ caches' = [caches EXCEPT ![r] = <<>>]
      /\ taken' = [taken EXCEPT ![r] = Nothing] /\ thread' = [thread EXCEPT ![r] = "None"]
      /\ alone' = [alone EXCEPT ![r] = FALSE]
      /\ job' = job /\ file' = file /\ threads' = threads \ {r}
  BY DEF Gone, EndAttempt, OrphanEnds
<1>2. FilesTypeOK /\ job \in Jobs /\ TypeOK
  BY DEF FilesInv, FilesTypeOK, ExecInv
<1>3. /\ pc'[r] = 0 /\ caches'[r] = <<>> /\ taken'[r] = Nothing /\ thread'[r] = "None"
      /\ \A q \in Requests : q # r =>
            /\ pc'[q] = pc[q] /\ caches'[q] = caches[q] /\ taken'[q] = taken[q]
            /\ thread'[q] = thread[q]
  BY <1>1, <1>2 DEF FilesTypeOK
<1>4. Nothing \in Contents /\ \A u : Owned(u, Nothing)
  BY DEF Nothing, Contents, Owned
<1>5. FilesTypeOK'
  BY <1>1, <1>2, <1>4 DEF FilesTypeOK
<1>6. ProgressOK'
  <2>1. Depths' = Depths /\ \A u : Program(u)' = Program(u)
    BY <1>1 DEF Depths, Program
  <2>2. QED
    BY <1>1, <1>3, <2>1 DEF FilesInv, ProgressOK
<1>7. RecordsOwned'
  <2> SUFFICES ASSUME job.plan # "Shuffle", NEW q \in Requests
               PROVE  /\ Owned(TaskOf[q], taken'[q])
                      /\ \A k \in 1..Len(caches'[q]) :
                            /\ caches'[q][k].path = SpillPath(TaskOf[q])
                            /\ Owned(TaskOf[q], caches'[q][k].mem)
    BY <1>1 DEF RecordsOwned, SpillPath, Owned
  <2>1. CASE q = r
    BY <1>3, <1>4, <2>1
  <2>2. CASE q # r
    BY <1>3, <2>2 DEF FilesInv, RecordsOwned
  <2>3. QED
    BY <2>1, <2>2
<1>8. OtherPartitionsUntouched'
  BY <1>1 DEF FilesInv, OtherPartitionsUntouched, SpillPath, PartPath, Record
<1>9. SpillHeld'
  <2>1. CASE OrphanEnds(r)
    BY <2>1 DEF OrphanEnds, SpillHeld, Disturbed
  <2>2. CASE thread[r] = "Err" /\ EndAttempt(r, FALSE)
    <3>1. failed \in Nat /\ failed' = failed + 1
      BY <1>2, <2>2 DEF EndAttempt, TypeOK
    <3>2. QED
      BY <3>1 DEF SpillHeld, Disturbed
  <2>3. CASE thread[r] = "Ok" /\ EndAttempt(r, TRUE)
    <3>1. /\ failed' = failed /\ state[r] = "Running"
          /\ \A q \in Requests : q # r => state'[q] = state[q]
      BY <1>2, <2>3 DEF EndAttempt, TypeOK
    <3>2. CASE Disturbed
      BY <1>1, <1>3, <2>3, <3>1, <3>2 DEF SpillHeld, Disturbed
    <3>3. CASE ~Disturbed
      <4> SUFFICES ASSUME NEW p \in Scratch, file[p] # NoFile
                   PROVE  \E q \in Requests : thread'[q] = "Work" /\
                             \E k \in 1..Len(caches'[q]) :
                                caches'[q][k].spilled /\ caches'[q][k].path = p
        BY <1>1 DEF SpillHeld, Scratch, SpillPath, BucketPath
      <4>1. PICK q \in Requests : thread[q] = "Work" /\
               \E k \in 1..Len(caches[q]) : caches[q][k].spilled /\ caches[q][k].path = p
        BY <3>3 DEF FilesInv, SpillHeld
      <4>2. QED
        BY <1>3, <4>1
    <3>4. QED
      BY <3>2, <3>3
  <2>4. QED
    BY <2>1, <2>2, <2>3
<1>10. QED
  BY <1>5, <1>6, <1>7, <1>8, <1>9 DEF FilesInv

\* Handlers that queue, report or are dropped leave threads and files alone.
LEMMA HandlersKeep ==
    ASSUME FilesInv, UNCHANGED <<fileVars, threads, failed>>, ExecInv',
           \A q \in Requests : state[q] = "Cancelled" => state'[q] = "Cancelled"
    PROVE  FilesInv'
<1> USE DEF fileVars
<1>1. FilesTypeOK' /\ RecordsOwned' /\ OtherPartitionsUntouched'
  BY SMTT(30) DEF FilesInv, FilesTypeOK, RecordsOwned, OtherPartitionsUntouched, SpillPath, PartPath,
         Record, Owned
<1>2. ProgressOK'
  <2>1. Depths' = Depths /\ \A u : Program(u)' = Program(u)
    BY DEF Depths, Program
  <2>2. QED
    BY <2>1 DEF FilesInv, ProgressOK
<1>3. SpillHeld'
  <2>1. CASE Disturbed
    BY <2>1 DEF SpillHeld, Disturbed
  <2>2. CASE ~Disturbed
    BY <2>2 DEF FilesInv, SpillHeld, Scratch, SpillPath, BucketPath
  <2>3. QED
    BY <2>1, <2>2
<1>4. QED
  BY <1>1, <1>2, <1>3 DEF FilesInv

\* Every step keeps the invariant of the files.
LEMMA FilesInvStep == FilesInv /\ [FilesNext]_allVars => FilesInv'
<1> SUFFICES ASSUME FilesInv, [FilesNext]_allVars PROVE FilesInv'
  OBVIOUS
<1>0. ExecInv'
  <2>1. [Next]_vars
    BY DEF FilesNext, Next, Step, Compute, Handle, allVars, vars
  <2>2. QED
    BY <2>1, ExecStep DEF FilesInv
<1>1. ASSUME NEW r \in Requests, Compute(r) PROVE FilesInv'
  BY <1>0, <1>1, FillKeeps, LeaveKeeps, DrainKeeps, WriteKeeps, FailKeeps DEF Compute
<1>2. ASSUME NEW r \in Requests, Acquire(r) \/ Report(r) \/ Accept(r) \/ Cancel(r),
             UNCHANGED fileVars
      PROVE  FilesInv'
  <2>1. /\ UNCHANGED <<threads, failed>>
        /\ \A q \in Requests : state[q] = "Cancelled" => state'[q] = "Cancelled"
    <3>1. TypeOK /\ QueueOK
      BY DEF FilesInv, ExecInv
    <3>2. CASE Acquire(r)
      <4>1. state[r] = "Waiting"
        <5>1. Len(waiters) > 0 /\ waiters[1] = r /\ Len(waiters) \in Nat
          BY <3>1, <3>2, EmptySeq, LenProperties DEF Acquire, TypeOK
        <5>2. QED
          BY <3>1, <5>1 DEF QueueOK
      <4>2. QED
        BY <3>1, <3>2, <4>1 DEF Acquire, TypeOK
    <3>3. CASE Report(r)
      BY <3>1, <3>3 DEF Report, TypeOK
    <3>4. CASE Accept(r)
      BY <3>1, <3>4 DEF Accept, TypeOK
    <3>5. CASE Cancel(r)
      BY <3>1, <3>5 DEF Cancel, TypeOK
    <3>6. QED
      BY <1>2, <3>2, <3>3, <3>4, <3>5
  <2>2. QED
    BY <1>0, <1>2, <2>1, HandlersKeep
<1>3. ASSUME NEW r \in Requests, Handle(r) PROVE FilesInv'
  <2>1. CASE (Acquire(r) \/ Report(r)) /\ UNCHANGED fileVars
    BY <1>2, <2>1
  <2>2. CASE StartAttempt(r) /\ Spawn(r)
    BY <1>0, <2>2, SpawnKeeps
  <2>3. CASE thread[r] = "Ok" /\ EndAttempt(r, TRUE) /\ Gone(r)
    BY <1>0, <2>3, GoneKeeps
  <2>4. CASE thread[r] = "Err" /\ EndAttempt(r, FALSE) /\ Gone(r)
    BY <1>0, <2>4, GoneKeeps
  <2>5. QED
    BY <1>3, <2>1, <2>2, <2>3, <2>4 DEF Handle
<1>4. ASSUME NEW r \in Requests, thread[r] # "Work", OrphanEnds(r), Gone(r) PROVE FilesInv'
  BY <1>0, <1>4, GoneKeeps
<1>5. CASE UNCHANGED allVars
  BY <1>0, <1>5, HandlersKeep DEF allVars, vars, fileVars
<1>6. QED
  BY <1>1, <1>2, <1>3, <1>4, <1>5 DEF FilesNext

\* The invariant of the files holds of every behaviour of the executor.
LEMMA FilesInvariant == FilesSpec => []FilesInv
BY FilesInvInit, FilesInvStep, PTL DEF FilesSpec

-----------------------------------------------------------------------------
\* The paths of spill_path and partition_path keep the executions of a task,
\* however many and whichever are dropped, from the files of other partitions.
THEOREM PartitionsAreIsolated == FilesSpec => []OtherPartitionsUntouched
<1>1. FilesInv => OtherPartitionsUntouched
  BY DEF FilesInv
<1>2. QED
  BY <1>1, FilesInvariant, PTL

\* When every output is drained and files can be removed, drain_all leaves no
\* spill file behind, unless an attempt failed or a handler was dropped: also when
\* several executions spill to one file.
THEOREM SpillIsReclaimed == FilesSpec => []SpillReclaimed
<1>1. FilesInv => SpillReclaimed
  <2> SUFFICES ASSUME FilesInv, failed = 0, ~job.sticky, job.plan # "Stray",
                      \A r \in Requests : state[r] # "Cancelled" /\ thread[r] \in {"None", "Ok"},
                      NEW path \in Scratch, file[path] # NoFile
               PROVE  FALSE
    BY DEF SpillReclaimed
  <2>1. ~Disturbed
    BY DEF Disturbed, FilesInv, ExecInv, TypeOK
  <2>2. QED
    BY <2>1 DEF FilesInv, SpillHeld
<1>2. QED
  BY <1>1, FilesInvariant, PTL

-----------------------------------------------------------------------------
\* What an execution that meets no other one holds: no cache, one, or two, with
\* records of the sides O, and records of the sides S at hand; the scratch files
\* have what it spilled.
Filled(t, p, O) == [path |-> p, spilled |-> t \in job.spilling,
                    mem |-> IF t \in job.spilling THEN Nothing ELSE Records(t, O)]
Idle(r, S) ==
    /\ Len(caches[r]) = 0
    /\ taken[r] = Records(TaskOf[r], S)
    /\ \A path \in ScratchOf(TaskOf[r]) : file[path] = NoFile
One(r, p, O, S) ==
    /\ Len(caches[r]) = 1 /\ caches[r][1] = Filled(TaskOf[r], p, O)
    /\ taken[r] = Records(TaskOf[r], S)
    /\ \A path \in ScratchOf(TaskOf[r]) :
          file[path] = IF path = p /\ TaskOf[r] \in job.spilling
                       THEN Records(TaskOf[r], O) ELSE NoFile
Two(r, p1, O1, p2, O2, S) ==
    /\ Len(caches[r]) = 2
    /\ caches[r][1] = Filled(TaskOf[r], p1, O1) /\ caches[r][2] = Filled(TaskOf[r], p2, O2)
    /\ taken[r] = Records(TaskOf[r], S)
    /\ \A path \in ScratchOf(TaskOf[r]) :
          file[path] = IF path \in {p1, p2} /\ TaskOf[r] \in job.spilling
                       THEN Records(TaskOf[r], (IF path = p1 THEN O1 ELSE {})
                                               \cup (IF path = p2 THEN O2 ELSE {}))
                       ELSE NoFile

\* The two spilled inputs of a join were in one file, which is drained.
Stuck(r) == /\ Len(caches[r]) = 1 /\ caches[r][1].spilled
            /\ file[caches[r][1].path] = NoFile

Done(r, p) == file[PartPath(p)] = Expected(TaskOf[r], p)

\* Where such an execution is, by the instructions it has done.
OnCourse(r) ==
    LET t == TaskOf[r]
        spill == SpillPath(t)
    IN  \/ /\ job.plan = "Read"
           /\ \/ pc[r] = 0 /\ Idle(r, {})
              \/ pc[r] = 1 /\ One(r, spill, Sides, {})
              \/ pc[r] = 2 /\ Idle(r, Sides)
              \/ pc[r] = 3 /\ Done(r, t)
        \/ /\ job.plan = "Map"
           /\ \/ pc[r] = 0 /\ Idle(r, {})
              \/ pc[r] \in {1, 3} /\ One(r, spill, Sides, {})
              \/ pc[r] \in {2, 4} /\ Idle(r, Sides)
              \/ pc[r] = 5 /\ Done(r, t)
        \/ /\ job.plan = "Join"
           /\ \/ pc[r] = 0 /\ Idle(r, {})
              \/ pc[r] = 1 /\ One(r, spill, {0}, {})
              \/ pc[r] = 2 /\ Two(r, spill, {0}, spill, {1}, {})
              \/ pc[r] = 3 /\ (One(r, spill, {1}, {0}) \/ Stuck(r))
              \/ pc[r] \in {4, 6} /\ Idle(r, Sides)
              \/ pc[r] = 5 /\ One(r, spill, Sides, {})
              \/ pc[r] = 7 /\ Done(r, t)
        \/ /\ job.plan = "Stray"
           /\ \/ Mixed(t)
              \/ pc[r] \in {0, 1} /\ Idle(r, {})
              \/ pc[r] = 2 /\ One(r, spill, {1}, {})
              \/ pc[r] = 3 /\ Idle(r, {1})
              \/ pc[r] = 4 /\ Done(r, t)
        \/ /\ job.plan = "Shuffle"
           /\ \/ pc[r] = 0 /\ Idle(r, {})
              \/ pc[r] = 1 /\ One(r, spill, Sides, {})
              \/ pc[r] = 2 /\ Idle(r, Sides)
              \/ pc[r] = 3 /\ One(r, BucketPath(0), {0}, {1})
              \/ pc[r] = 4 /\ Two(r, BucketPath(0), {0}, BucketPath(1), {1}, {})
              \/ pc[r] = 5 /\ One(r, BucketPath(1), {1}, {0})
              \/ pc[r] = 6 /\ One(r, BucketPath(1), {1}, {}) /\ Done(r, 0)
              \/ pc[r] = 7 /\ Idle(r, {1}) /\ Done(r, 0)
              \/ pc[r] = 8 /\ Done(r, 0) /\ Done(r, 1)

\* An execution that is alone shares its files with no thread, and is on course.
Apart == \A r \in Requests : alone[r] => /\ r \in threads
                                         /\ \A q \in threads : q # r => ~Share(q, r)
AloneOK ==
    /\ Apart
    /\ \A r \in Requests : alone[r] /\ thread[r] \in {"Work", "Ok"} => OnCourse(r)

\* Sums and selections of the records of a task.
LEMMA RecordsFacts ==
    ASSUME NEW t \in Tasks, NEW A \in SUBSET Sides, NEW B \in SUBSET Sides
    PROVE  /\ Records(t, {}) = Nothing /\ Records(t, A) \in Contents
           /\ A \cap B = {} => Plus(Records(t, A), Records(t, B)) = Records(t, A \cup B)
           /\ Only(Records(t, A), B) = Records(t, A \cap B)
           /\ A # {} => Records(t, A) # Nothing
           /\ Records(t, A) # NoFile
<1>1. Records(t, {}) = Nothing /\ Records(t, A) \in Contents
  BY DEF Records, Nothing, Contents
<1>2. ASSUME A \cap B = {} PROVE Plus(Records(t, A), Records(t, B)) = Records(t, A \cup B)
  BY <1>2 DEF Records, Plus
<1>3. Only(Records(t, A), B) = Records(t, A \cap B)
  BY DEF Records, Only
<1>4. ASSUME NEW s \in A PROVE Records(t, A) # Nothing
  <2>1. <<t, s>> \in Record
    BY DEF Record
  <2>2. Records(t, A)[<<t, s>>] = 1 /\ Nothing[<<t, s>>] = 0
    BY <2>1 DEF Records, Nothing
  <2>3. QED
    BY <2>2
<1>5. QED
  BY <1>1, <1>2, <1>3, <1>4, NoFileAssumption

\* The records of O come from the input, or from the sides S at hand.
Moves(r, O, S, S2) == \/ Instr(r).op = "PutRead" /\ S2 = S
                      \/ Instr(r).op = "Put" /\ O \subseteq S /\ S2 = S \ O

\* The cache, the records at hand and the file after records of O went to a cache.
Poured(r, p, O, S2) ==
    /\ caches'[r] = Append(caches[r], Filled(TaskOf[r], p, O))
    /\ taken'[r] = Records(TaskOf[r], S2)
    /\ TaskOf[r] \notin job.spilling => file' = file
    /\ TaskOf[r] \in job.spilling =>
          file' = [file EXCEPT ![p] = Plus(IF file[p] = NoFile THEN Nothing ELSE file[p],
                                           Records(TaskOf[r], O))]

\* What a fill does to an execution that is alone: records O go to a cache.
LEMMA FillEffect ==
    ASSUME FilesInv, NEW r \in Requests, Fill(r), NEW p \in Scratch, NEW O \in SUBSET Sides,
           Instr(r).path = p, Instr(r).of = O, O # {},
           NEW S \in SUBSET Sides, taken[r] = Records(TaskOf[r], S),
           NEW S2 \in SUBSET Sides, Moves(r, O, S, S2)
    PROVE  Poured(r, p, O, S2)
<1> DEFINE t == TaskOf[r]
           recs == IF Instr(r).op = "Put" THEN Only(taken[r], O) ELSE Records(t, O)
           spills == t \in job.spilling /\ recs # Nothing
<1>1. t \in Tasks /\ FilesTypeOK
  BY ExecutorAssumption DEF FilesInv
<1>2. recs = Records(t, O)
  <2>1. CASE Instr(r).op = "PutRead"
    BY <2>1
  <2>2. CASE Instr(r).op = "Put" /\ O \subseteq S
    <3>1. S \cap O = O
      BY <2>2
    <3>2. QED
      BY <1>1, <2>2, <3>1, RecordsFacts
  <2>3. QED
    BY <2>1, <2>2 DEF Moves
<1>3. spills <=> t \in job.spilling
  BY <1>1, <1>2, RecordsFacts
<1>4. /\ caches' = [caches EXCEPT ![r] =
             Append(@, [path |-> p, spilled |-> spills, mem |-> IF spills THEN Nothing ELSE recs])]
      /\ file' = IF spills
                 THEN [file EXCEPT ![p] = Plus(IF file[p] = NoFile THEN Nothing ELSE file[p], recs)]
                 ELSE file
      /\ taken' = IF Instr(r).op = "Put" THEN [taken EXCEPT ![r] = Only(@, Sides \ O)]
                  ELSE taken
  BY DEF Fill, Moves
<1>5. [path |-> p, spilled |-> spills, mem |-> IF spills THEN Nothing ELSE recs] = Filled(t, p, O)
  BY <1>2, <1>3 DEF Filled
<1>6. taken'[r] = Records(t, S2)
  <2>1. CASE Instr(r).op = "PutRead" /\ S2 = S
    BY <1>4, <2>1
  <2>2. CASE Instr(r).op = "Put" /\ S2 = S \ O
    <3>1. S \cap (Sides \ O) = S \ O /\ Sides \ O \in SUBSET Sides
      OBVIOUS
    <3>2. taken'[r] = Only(Records(t, S), Sides \ O)
      BY <1>1, <1>4, <2>2 DEF FilesTypeOK
    <3>3. Only(Records(t, S), Sides \ O) = Records(t, S \cap (Sides \ O))
      BY DEF Records, Only
    <3>4. QED
      BY <2>2, <3>1, <3>2, <3>3
  <2>3. QED
    BY <2>1, <2>2 DEF Moves
<1> HIDE DEF recs, spills
<1>7. QED
  BY <1>1, <1>2, <1>3, <1>4, <1>5, <1>6 DEF FilesTypeOK, Poured

\* An insert into no cache makes one.
LEMMA FillIdle ==
    ASSUME FilesInv, NEW r \in Requests, Fill(r), NEW p \in Scratch, NEW O \in SUBSET Sides,
           Instr(r).path = p, Instr(r).of = O, O # {},
           NEW S \in SUBSET Sides, Idle(r, S), p \in ScratchOf(TaskOf[r]),
           NEW S2 \in SUBSET Sides, Moves(r, O, S, S2)
    PROVE  One(r, p, O, S2)'
<1> DEFINE t == TaskOf[r]
<1>1. /\ t \in Tasks /\ file \in [Paths -> Contents \cup {NoFile}] /\ caches[r] \in Seq(Cache)
      /\ job' = job /\ Scratch \subseteq Paths
  BY ExecutorAssumption, PathFacts DEF FilesInv, FilesTypeOK, Fill
<1>2. taken[r] = Records(t, S) /\ Len(caches[r]) = 0
      /\ \A path \in ScratchOf(t) : file[path] = NoFile
  BY DEF Idle
<1>3. /\ caches'[r] = Append(caches[r], Filled(t, p, O)) /\ taken'[r] = Records(t, S2)
      /\ t \notin job.spilling => file' = file
      /\ t \in job.spilling => file' = [file EXCEPT ![p] = Plus(Nothing, Records(t, O))]
  <2>1. Poured(r, p, O, S2)
    BY <1>2, FillEffect
  <2>2. file[p] = NoFile
    BY <1>2
  <2>3. QED
    BY <2>1, <2>2 DEF Poured
<1>4. Plus(Nothing, Records(t, O)) = Records(t, O)
  <2>1. {} \cap O = {} /\ {} \cup O = O /\ {} \in SUBSET Sides
    OBVIOUS
  <2>2. Plus(Records(t, {}), Records(t, O)) = Records(t, {} \cup O) /\ Records(t, {}) = Nothing
    BY <1>1, <2>1, RecordsFacts
  <2>3. QED
    BY <2>1, <2>2
<1>5. ScratchOf(t)' = ScratchOf(t) /\ ScratchOf(t) \subseteq Paths
  BY <1>1, PathFacts DEF ScratchOf
<1>6. Len(caches'[r]) = 1 /\ caches'[r][1] = Filled(t, p, O)
  BY <1>1, <1>2, <1>3, AppendProperties
<1>7. \A path \in ScratchOf(t) :
         file'[path] = IF path = p /\ t \in job.spilling THEN Records(t, O) ELSE NoFile
  BY <1>1, <1>2, <1>3, <1>4, <1>5
<1>8. Filled(t, p, O)' = Filled(t, p, O)
  BY <1>1 DEF Filled, Nothing, Records, Record
<1>9. Records(t, O)' = Records(t, O) /\ Records(t, S2)' = Records(t, S2)
  BY DEF Records, Record
<1>10. QED
  BY <1>1, <1>3, <1>5, <1>6, <1>7, <1>8, <1>9 DEF One

\* An insert next to one cache makes two, on paths of their own.
LEMMA FillOne ==
    ASSUME FilesInv, NEW r \in Requests, Fill(r), NEW p \in Scratch, NEW O \in SUBSET Sides,
           NEW p2 \in Scratch, NEW O2 \in SUBSET Sides,
           Instr(r).path = p2, Instr(r).of = O2, O2 # {},
           NEW S \in SUBSET Sides, One(r, p, O, S),
           p2 \in ScratchOf(TaskOf[r]), p2 # p \/ O \cap O2 = {},
           NEW S2 \in SUBSET Sides, Moves(r, O2, S, S2)
    PROVE  Two(r, p, O, p2, O2, S2)'
<1> DEFINE t == TaskOf[r]
           old == IF file[p2] = NoFile THEN Nothing ELSE file[p2]
           Sum(path) == (IF path = p THEN O ELSE {}) \cup (IF path = p2 THEN O2 ELSE {})
<1>1. /\ t \in Tasks /\ file \in [Paths -> Contents \cup {NoFile}] /\ caches[r] \in Seq(Cache)
      /\ job' = job /\ Scratch \subseteq Paths
  BY ExecutorAssumption, PathFacts DEF FilesInv, FilesTypeOK, Fill
<1>2. /\ taken[r] = Records(t, S) /\ Len(caches[r]) = 1 /\ caches[r][1] = Filled(t, p, O)
      /\ \A path \in ScratchOf(t) :
            file[path] = IF path = p /\ t \in job.spilling THEN Records(t, O) ELSE NoFile
  BY DEF One
<1>3. Poured(r, p2, O2, S2)
  BY <1>2, FillEffect
<1>4. /\ caches'[r] = Append(caches[r], Filled(t, p2, O2)) /\ taken'[r] = Records(t, S2)
      /\ t \notin job.spilling => file' = file
      /\ t \in job.spilling => file' = [file EXCEPT ![p2] = Plus(old, Records(t, O2))]
  BY <1>3 DEF Poured
<1>5. ScratchOf(t)' = ScratchOf(t) /\ ScratchOf(t) \subseteq Paths
  BY <1>1, PathFacts DEF ScratchOf
<1>6. /\ Len(caches'[r]) = 2 /\ caches'[r][1] = Filled(t, p, O)
      /\ caches'[r][2] = Filled(t, p2, O2)
  BY <1>1, <1>2, <1>4, AppendProperties
<1>7. ASSUME t \in job.spilling PROVE Plus(old, Records(t, O2)) = Records(t, Sum(p2))
  <2>1. CASE p2 = p
    <3>1. old = Records(t, O) /\ O \cap O2 = {} /\ Sum(p2) = O \cup O2
      BY <1>1, <1>2, <1>7, <2>1, RecordsFacts
    <3>2. Plus(Records(t, O), Records(t, O2)) = Records(t, O \cup O2)
      BY <1>1, <3>1, RecordsFacts
    <3>3. QED
      BY <3>1, <3>2
  <2>2. CASE p2 # p
    <3>1. old = Nothing /\ Sum(p2) = O2
      BY <1>2, <2>2
    <3>2. Plus(Nothing, Records(t, O2)) = Records(t, O2)
      BY DEF Plus, Nothing, Records
    <3>3. QED
      BY <3>1, <3>2
  <2>3. QED
    BY <2>1, <2>2
<1>8. ASSUME NEW path \in ScratchOf(t)
      PROVE  file'[path] = IF path \in {p, p2} /\ t \in job.spilling
                           THEN Records(t, Sum(path)) ELSE NoFile
  <2>1. CASE t \notin job.spilling
    BY <1>2, <1>4, <2>1
  <2>2. CASE t \in job.spilling /\ path = p2
    <3>1. file'[path] = Plus(old, Records(t, O2))
      BY <1>1, <1>4, <1>5, <2>2
    <3>2. QED
      BY <1>7, <2>2, <3>1
  <2>3. CASE t \in job.spilling /\ path # p2
    <3>1. file'[path] = file[path]
      BY <1>1, <1>4, <1>5, <2>3
    <3>2. path = p => Sum(path) = O
      BY <2>3
    <3>3. QED
      BY <1>2, <2>3, <3>1, <3>2
  <2>4. QED
    BY <2>1, <2>2, <2>3
<1>9. Filled(t, p, O)' = Filled(t, p, O) /\ Filled(t, p2, O2)' = Filled(t, p2, O2)
  BY <1>1 DEF Filled, Nothing, Records, Record
<1>10. /\ \A T \in SUBSET Sides : Records(t, T)' = Records(t, T)
       /\ \A path : Sum(path) \in SUBSET Sides
  BY DEF Records, Record
<1>11. QED
  BY <1>1, <1>4, <1>5, <1>6, <1>8, <1>9, <1>10 DEF Two

\* What a drain does: the first cache is gone, with its file.
Drained(r) ==
    LET cache == caches[r][1]
    IN  /\ taken'[r] = Plus(taken[r], IF cache.spilled THEN file[cache.path] ELSE cache.mem)
        /\ \A path \in Paths :
              file'[path] = IF cache.spilled /\ path = cache.path THEN NoFile ELSE file[path]
        /\ Len(caches'[r]) = Len(caches[r]) - 1
        /\ \A k \in 1..Len(caches'[r]) : caches'[r][k] = caches[r][k + 1]

\* drain does so.
LEMMA DrainEffect ==
    ASSUME FilesInv, NEW r \in Requests, Drain(r), alone'[r], Len(caches[r]) > 0
    PROVE  Drained(r)
<1>1. /\ file \in [Paths -> Contents \cup {NoFile}] /\ caches[r] \in Seq(Cache)
      /\ caches \in [Requests -> Seq(Cache)] /\ taken \in [Requests -> Contents]
      /\ caches[r] # <<>>
  BY DEF FilesInv, FilesTypeOK
<1>2. /\ Head(caches[r]) = caches[r][1] /\ Len(Tail(caches[r])) = Len(caches[r]) - 1
      /\ \A k \in 1..Len(Tail(caches[r])) : Tail(caches[r])[k] = caches[r][k + 1]
  BY <1>1, HeadTailProperties
<1>3. caches'[r] = Tail(caches[r])
  BY <1>1 DEF Drain
<1>4. /\ taken'[r] = Plus(taken[r], IF Head(caches[r]).spilled
                                    THEN file[Head(caches[r]).path] ELSE Head(caches[r]).mem)
      /\ file' = IF Head(caches[r]).spilled
                 THEN [file EXCEPT ![Head(caches[r]).path] = NoFile] ELSE file
  BY <1>1 DEF Drain, RemoveFile, Share
<1>5. QED
  BY <1>1, <1>2, <1>3, <1>4 DEF Drained

\* Draining the only cache leaves its sides taken and no file behind.
LEMMA DrainOne ==
    ASSUME FilesInv, NEW r \in Requests, Drain(r), alone'[r], NEW p \in Scratch, NEW O \in SUBSET Sides,
           NEW S \in SUBSET Sides, One(r, p, O, S), S \cap O = {}, p \in ScratchOf(TaskOf[r])
    PROVE  Idle(r, S \cup O)'
<1> DEFINE t == TaskOf[r]
<1>1. /\ t \in Tasks /\ job' = job /\ Scratch \subseteq Paths
  BY ExecutorAssumption, PathFacts DEF Drain
<1>2. /\ taken[r] = Records(t, S) /\ Len(caches[r]) = 1 /\ caches[r][1] = Filled(t, p, O)
      /\ \A path \in ScratchOf(t) :
            file[path] = IF path = p /\ t \in job.spilling THEN Records(t, O) ELSE NoFile
  BY DEF One
<1>3. Drained(r)
  BY <1>2, DrainEffect
<1>4. /\ caches[r][1].path = p /\ caches[r][1].spilled = (t \in job.spilling)
      /\ caches[r][1].mem = IF t \in job.spilling THEN Nothing ELSE Records(t, O)
  BY <1>2 DEF Filled
<1>5. ScratchOf(t)' = ScratchOf(t) /\ ScratchOf(t) \subseteq Paths
  BY <1>1, PathFacts DEF ScratchOf
<1>6. taken'[r] = Records(t, S \cup O)
  <2>1. taken'[r] = Plus(Records(t, S), Records(t, O))
    BY <1>2, <1>3, <1>4 DEF Drained
  <2>2. QED
    BY <1>1, <2>1, RecordsFacts
<1>7. Len(caches'[r]) = 0 /\ \A path \in ScratchOf(t) : file'[path] = NoFile
  <2>1. Len(caches'[r]) = 0
    BY <1>2, <1>3 DEF Drained
  <2>2. ASSUME NEW path \in ScratchOf(t) PROVE file'[path] = NoFile
    <3>1. file'[path] = IF t \in job.spilling /\ path = p THEN NoFile ELSE file[path]
      BY <1>3, <1>4, <1>5 DEF Drained
    <3>2. QED
      BY <1>2, <3>1
  <2>3. QED
    BY <2>1, <2>2
<1>8. Records(t, S \cup O)' = Records(t, S \cup O)
  BY DEF Records, Record
<1>9. QED
  BY <1>5, <1>6, <1>7, <1>8 DEF Idle

\* Draining the first of two caches leaves the second as it was, unless both
\* spilled to one path.
LEMMA DrainTwo ==
    ASSUME FilesInv, NEW r \in Requests, Drain(r), alone'[r],
           NEW p1 \in Scratch, NEW O1 \in SUBSET Sides,
           NEW p2 \in Scratch, NEW O2 \in SUBSET Sides,
           NEW S \in SUBSET Sides, Two(r, p1, O1, p2, O2, S), S \cap O1 = {},
           p1 \in ScratchOf(TaskOf[r]), p1 # p2 \/ TaskOf[r] \notin job.spilling
    PROVE  One(r, p2, O2, S \cup O1)'
<1> DEFINE t == TaskOf[r]
           Sum(path) == (IF path = p1 THEN O1 ELSE {}) \cup (IF path = p2 THEN O2 ELSE {})
<1>1. /\ t \in Tasks /\ job' = job /\ Scratch \subseteq Paths
  BY ExecutorAssumption, PathFacts DEF Drain
<1>2. /\ taken[r] = Records(t, S) /\ Len(caches[r]) = 2
      /\ caches[r][1] = Filled(t, p1, O1) /\ caches[r][2] = Filled(t, p2, O2)
      /\ \A path \in ScratchOf(t) :
            file[path] = IF path \in {p1, p2} /\ t \in job.spilling
                         THEN Records(t, Sum(path)) ELSE NoFile
  BY DEF Two
<1>3. Drained(r)
  BY <1>2, DrainEffect
<1>4. /\ caches[r][1].path = p1 /\ caches[r][1].spilled = (t \in job.spilling)
      /\ caches[r][1].mem = IF t \in job.spilling THEN Nothing ELSE Records(t, O1)
  BY <1>2 DEF Filled
<1>5. ScratchOf(t)' = ScratchOf(t) /\ ScratchOf(t) \subseteq Paths
  BY <1>1, PathFacts DEF ScratchOf
<1>6. taken'[r] = Records(t, S \cup O1)
  <2>1. t \in job.spilling => file[p1] = Records(t, O1)
    <3>1. ASSUME t \in job.spilling PROVE Sum(p1) = O1
      BY <3>1
    <3>2. QED
      BY <1>2, <3>1
  <2>2. taken'[r] = Plus(Records(t, S), Records(t, O1))
    BY <1>2, <1>3, <1>4, <2>1 DEF Drained
  <2>3. QED
    BY <1>1, <2>2, RecordsFacts
<1>7. Len(caches'[r]) = 1 /\ caches'[r][1] = Filled(t, p2, O2)
  BY <1>2, <1>3 DEF Drained
<1>8. ASSUME NEW path \in ScratchOf(t)
      PROVE  file'[path] = IF path = p2 /\ t \in job.spilling THEN Records(t, O2) ELSE NoFile
  <2>1. file'[path] = IF t \in job.spilling /\ path = p1 THEN NoFile ELSE file[path]
    BY <1>3, <1>4, <1>5 DEF Drained
  <2>2. CASE t \notin job.spilling
    BY <1>2, <2>1, <2>2
  <2>3. CASE t \in job.spilling /\ path = p2
    <3>1. path # p1 /\ Sum(path) = O2
      BY <2>3
    <3>2. QED
      BY <1>2, <2>1, <2>3, <3>1
  <2>4. CASE t \in job.spilling /\ path # p2
    BY <1>2, <2>1, <2>4
  <2>5. QED
    BY <2>2, <2>3, <2>4
<1>9. Filled(t, p2, O2)' = Filled(t, p2, O2)
  BY <1>1 DEF Filled, Nothing, Records, Record
<1>10. Records(t, S \cup O1)' = Records(t, S \cup O1) /\ Records(t, O2)' = Records(t, O2)
  BY DEF Records, Record
<1>11. QED
  BY <1>1, <1>5, <1>6, <1>7, <1>8, <1>9, <1>10 DEF One

\* The first of two caches in one file takes the records of both.
LEMMA DrainShared ==
    ASSUME FilesInv, NEW r \in Requests, Drain(r), alone'[r], NEW p \in Scratch,
           NEW O1 \in SUBSET Sides, NEW O2 \in SUBSET Sides, NEW S \in SUBSET Sides,
           Two(r, p, O1, p, O2, S), TaskOf[r] \in job.spilling
    PROVE  Stuck(r)'
<1> DEFINE t == TaskOf[r]
<1>1. /\ Len(caches[r]) = 2 /\ caches[r][1] = Filled(t, p, O1)
      /\ caches[r][2] = Filled(t, p, O2)
  BY DEF Two
<1>2. Drained(r)
  BY <1>1, DrainEffect
<1>3. /\ caches[r][1].path = p /\ caches[r][1].spilled = (t \in job.spilling)
      /\ caches[r][2].path = p /\ caches[r][2].spilled = (t \in job.spilling)
  BY <1>1 DEF Filled
<1>4. Len(caches'[r]) = 1 /\ caches'[r][1] = caches[r][2]
  BY <1>1, <1>2 DEF Drained
<1>5. file'[p] = NoFile
  BY <1>2, <1>3, PathFacts DEF Drained
<1>6. QED
  BY <1>3, <1>4, <1>5 DEF Stuck

\* A write leaves the caches and the scratch files, and the other part files.
LEMMA WriteEffect ==
    ASSUME FilesInv, NEW r \in Requests, WritePart(r), NEW w, PartPath(w) \in Paths,
           Instr(r).path = PartPath(w)
    PROVE  /\ file'[PartPath(w)] = taken[r]
           /\ \A q : q # w /\ PartPath(q) \in Paths => file'[PartPath(q)] = file[PartPath(q)]
           /\ \A S : Idle(r, S) => Idle(r, {})'
           /\ \A p, O, S : One(r, p, O, S) => One(r, p, O, {})'
<1> DEFINE t == TaskOf[r]
<1>1. /\ t \in Tasks /\ file \in [Paths -> Contents \cup {NoFile}]
      /\ job' = job /\ Scratch \subseteq Paths /\ caches' = caches /\ job \in Jobs
  BY ExecutorAssumption, PathFacts DEF FilesInv, FilesTypeOK, WritePart
<1>2. file' = [file EXCEPT ![PartPath(w)] = taken[r]] /\ taken'[r] = Nothing
  BY DEF FilesInv, FilesTypeOK, WritePart
<1>3. ScratchOf(t)' = ScratchOf(t) /\ ScratchOf(t) \subseteq Scratch
  BY <1>1, PathFacts DEF ScratchOf
<1>4. \A path \in ScratchOf(t) : file'[path] = file[path]
  BY <1>1, <1>2, <1>3, PathFacts
<1>5. /\ \A q : q # w /\ PartPath(q) \in Paths => file'[PartPath(q)] = file[PartPath(q)]
      /\ file'[PartPath(w)] = taken[r]
  BY <1>1, <1>2, PathFacts
<1>6. Nothing = Records(t, {}) /\ Records(t, {})' = Records(t, {})
  BY DEF Nothing, Records, Record
<1>7. ASSUME NEW S, Idle(r, S) PROVE Idle(r, {})'
  BY <1>1, <1>2, <1>3, <1>4, <1>6, <1>7 DEF Idle
<1>8. ASSUME NEW p, NEW O, NEW S, One(r, p, O, S) PROVE One(r, p, O, {})'
  <2>1. Filled(t, p, O)' = Filled(t, p, O) /\ Records(t, O)' = Records(t, O)
    BY <1>1 DEF Filled, Nothing, Records, Record
  <2>2. /\ Len(caches'[r]) = 1 /\ caches'[r][1] = Filled(t, p, O)'
        /\ taken'[r] = Records(t, {})'
    BY <1>1, <1>2, <1>6, <1>8, <2>1 DEF One
  <2>3. \A path \in ScratchOf(t) :
           file'[path] = IF path = p /\ t \in job.spilling THEN Records(t, O)' ELSE NoFile
    BY <1>4, <1>8, <2>1 DEF One
  <2>4. QED
    BY <1>1, <1>3, <2>2, <2>3 DEF One
<1>9. QED
  BY <1>5, <1>7, <1>8

\* A thread that is alone, and stays so, does its next instruction.
Advances(r) == (Fill(r) \/ Drain(r) \/ WritePart(r)) /\ alone'[r]

\* What it does is what its program says next.
LEMMA AdvanceFacts ==
    ASSUME FilesInv, NEW r \in Requests, Advances(r)
    PROVE  /\ TaskOf[r] \in Tasks /\ SpillPath(TaskOf[r]) \in Scratch
           /\ SpillPath(TaskOf[r]) \in ScratchOf(TaskOf[r])
           /\ job' = job /\ pc[r] \in Nat /\ pc'[r] = pc[r] + 1
           /\ pc[r] < Len(Program(TaskOf[r]))
           /\ Instr(r).op \in {"PutRead", "Leave", "Put"} => Fill(r)
           /\ Instr(r).op = "Take" => Drain(r) /\ alone'[r] /\ ~FileMissing(r)
           /\ Instr(r).op = "Write" => WritePart(r)
<1>1. /\ TaskOf[r] \in Tasks /\ SpillPath(TaskOf[r]) \in Scratch
      /\ pc \in [Requests -> Nat] /\ job' = job
  BY ExecutorAssumption, PathFacts DEF FilesInv, FilesTypeOK, Advances, Fill, Drain, WritePart
<1>2. SpillPath(TaskOf[r]) \in ScratchOf(TaskOf[r])
  BY <1>1 DEF ScratchOf
<1>3. thread[r] = "Work" /\ pc' = [pc EXCEPT ![r] = @ + 1]
  BY DEF Advances, Fill, Drain, WritePart, Working
<1>4. pc[r] < Len(Program(TaskOf[r]))
  BY <1>3 DEF FilesInv, ProgressOK
<1>5. /\ Instr(r).op \in {"PutRead", "Leave", "Put"} => Fill(r)
      /\ Instr(r).op = "Take" => Drain(r) /\ alone'[r] /\ ~FileMissing(r)
      /\ Instr(r).op = "Write" => WritePart(r)
  BY DEF Advances, Fill, Drain, WritePart
<1>6. QED
  BY <1>1, <1>2, <1>3, <1>4, <1>5

\* The first read, the drain of a single output, and the final write.
LEMMA CommonSteps ==
    ASSUME FilesInv, NEW r \in Requests, Advances(r)
    PROVE  LET spill == SpillPath(TaskOf[r])
           IN  /\ Instr(r) = PutRead(spill, Sides) /\ Idle(r, {}) => One(r, spill, Sides, {})'
               /\ Instr(r) = Put(spill, Sides) /\ Idle(r, Sides) => One(r, spill, Sides, {})'
               /\ Instr(r) = Take /\ One(r, spill, Sides, {}) => Idle(r, Sides)'
               /\ /\ Instr(r) = Write(PartPath(TaskOf[r])) /\ Idle(r, Sides)
                  /\ job.plan \notin {"Shuffle", "Stray"}
                  => Done(r, TaskOf[r])'
<1> DEFINE t == TaskOf[r]
           spill == SpillPath(t)
<1>0. Sides \in SUBSET Sides /\ {} \in SUBSET Sides /\ Sides # {}
      /\ {} \cap Sides = {} /\ {} \cup Sides = Sides /\ Sides \ Sides = {}
  BY DEF Sides
<1>1. ASSUME Instr(r) = PutRead(spill, Sides), Idle(r, {}) PROVE One(r, spill, Sides, {})'
  <2>1. Fill(r) /\ Instr(r).path = spill /\ Instr(r).of = Sides /\ Moves(r, Sides, {}, {})
    BY <1>1, AdvanceFacts DEF PutRead, Moves
  <2>2. QED
    BY <1>0, <1>1, <2>1, AdvanceFacts, FillIdle
<1>2. ASSUME Instr(r) = Put(spill, Sides), Idle(r, Sides) PROVE One(r, spill, Sides, {})'
  <2>1. Fill(r) /\ Instr(r).path = spill /\ Instr(r).of = Sides /\ Moves(r, Sides, Sides, {})
    BY <1>0, <1>2, AdvanceFacts DEF Put, Moves
  <2>2. QED
    BY <1>0, <1>2, <2>1, AdvanceFacts, FillIdle
<1>3. ASSUME Instr(r) = Take, One(r, spill, Sides, {}) PROVE Idle(r, Sides)'
  <2>1. Drain(r) /\ alone'[r]
    BY <1>3, AdvanceFacts DEF Take
  <2>2. Idle(r, {} \cup Sides)'
    BY <1>0, <1>3, <2>1, AdvanceFacts, DrainOne
  <2>3. QED
    BY <1>0, <2>2
<1>4. ASSUME Instr(r) = Write(PartPath(t)), Idle(r, Sides), job.plan \notin {"Shuffle", "Stray"}
      PROVE  Done(r, t)'
  <2>1. WritePart(r) /\ Instr(r).path = PartPath(t)
    BY <1>4, AdvanceFacts DEF Write
  <2>2. taken[r] = Records(t, Sides) /\ PartPath(t) \in Paths
    BY <1>4, AdvanceFacts, PathFacts DEF Idle
  <2>3. file'[PartPath(t)] = taken[r]
    BY <2>1, <2>2, WriteEffect
  <2>4. Expected(t, t)' = Records(t, Sides)
    BY <1>4, AdvanceFacts DEF Expected, Records, Record, Sides
  <2>5. QED
    BY <2>2, <2>3, <2>4 DEF Done, PartPath
<1>5. QED
  BY <1>1, <1>2, <1>3, <1>4

\* A plan that only reads stays on course.
LEMMA CourseRead ==
    ASSUME FilesInv, NEW r \in Requests, Advances(r), job.plan = "Read", OnCourse(r)
    PROVE  OnCourse(r)'
<1> DEFINE t == TaskOf[r]
           spill == SpillPath(t)
<1>0. /\ job'.plan = "Read" /\ pc[r] \in 0..2 /\ pc'[r] = pc[r] + 1
  BY AdvanceFacts DEF Program
<1>1. CASE pc[r] = 0
  <2>1. Instr(r) = PutRead(spill, Sides) /\ Idle(r, {})
    BY <1>1 DEF Instr, Program, OnCourse
  <2>2. One(r, spill, Sides, {})'
    BY <2>1, CommonSteps
  <2>3. QED
    BY <1>0, <1>1, <2>2 DEF OnCourse, SpillPath
<1>2. CASE pc[r] = 1
  <2>1. Instr(r) = Take /\ One(r, spill, Sides, {})
    BY <1>2 DEF Instr, Program, OnCourse
  <2>2. Idle(r, Sides)'
    BY <2>1, CommonSteps
  <2>3. QED
    BY <1>0, <1>2, <2>2 DEF OnCourse
<1>3. CASE pc[r] = 2
  <2>1. Instr(r) = Write(PartPath(t)) /\ Idle(r, Sides)
    BY <1>3 DEF Instr, Program, OnCourse
  <2>2. Done(r, t)'
    BY <2>1, CommonSteps
  <2>3. QED
    BY <1>0, <1>3, <2>2 DEF OnCourse
<1>4. QED
  BY <1>0, <1>1, <1>2, <1>3

\* A plan with one operator stays on course.
LEMMA CourseMap ==
    ASSUME FilesInv, NEW r \in Requests, Advances(r), job.plan = "Map", OnCourse(r)
    PROVE  OnCourse(r)'
<1> DEFINE t == TaskOf[r]
           spill == SpillPath(t)
<1>0. /\ job'.plan = "Map" /\ pc[r] \in 0..4 /\ pc'[r] = pc[r] + 1
  BY AdvanceFacts DEF Program
<1>1. CASE pc[r] = 0
  <2>1. Instr(r) = PutRead(spill, Sides) /\ Idle(r, {})
    BY <1>1 DEF Instr, Program, OnCourse
  <2>2. One(r, spill, Sides, {})'
    BY <2>1, CommonSteps
  <2>3. QED
    BY <1>0, <1>1, <2>2 DEF OnCourse, SpillPath
<1>2. CASE pc[r] \in {1, 3}
  <2>1. Instr(r) = Take /\ One(r, spill, Sides, {})
    BY <1>2 DEF Instr, Program, OnCourse
  <2>2. Idle(r, Sides)'
    BY <2>1, CommonSteps
  <2>3. QED
    BY <1>0, <1>2, <2>2 DEF OnCourse
<1>3. CASE pc[r] = 2
  <2>1. Instr(r) = Put(spill, Sides) /\ Idle(r, Sides)
    BY <1>3 DEF Instr, Program, OnCourse
  <2>2. One(r, spill, Sides, {})'
    BY <2>1, CommonSteps
  <2>3. QED
    BY <1>0, <1>3, <2>2 DEF OnCourse, SpillPath
<1>4. CASE pc[r] = 4
  <2>1. Instr(r) = Write(PartPath(t)) /\ Idle(r, Sides)
    BY <1>4 DEF Instr, Program, OnCourse
  <2>2. Done(r, t)'
    BY <2>1, CommonSteps
  <2>3. QED
    BY <1>0, <1>4, <2>2 DEF OnCourse
<1>5. QED
  BY <1>0, <1>1, <1>2, <1>3, <1>4

\* The two inputs of a join: spilled, the second one finds no file.
LEMMA CourseJoin ==
    ASSUME FilesInv, NEW r \in Requests, Advances(r), job.plan = "Join", OnCourse(r)
    PROVE  OnCourse(r)'
<1> DEFINE t == TaskOf[r]
           spill == SpillPath(t)
<1>0. /\ job'.plan = "Join" /\ pc[r] \in 0..6 /\ pc'[r] = pc[r] + 1
      /\ {} \in SUBSET Sides /\ {0} \in SUBSET Sides /\ {1} \in SUBSET Sides
      /\ {0} # {} /\ {1} # {} /\ {0} \cap {1} = {} /\ {} \cap {0} = {}
      /\ {} \cup {0} = {0} /\ {0} \cup {1} = Sides
  BY AdvanceFacts DEF Program, Sides
<1>1. CASE pc[r] = 0
  <2>1. Instr(r) = PutRead(spill, {0}) /\ Idle(r, {})
    BY <1>1 DEF Instr, Program, OnCourse
  <2>2. Fill(r) /\ Instr(r).path = spill /\ Instr(r).of = {0} /\ Moves(r, {0}, {}, {})
    BY <2>1, AdvanceFacts DEF PutRead, Moves
  <2>3. One(r, spill, {0}, {})'
    BY <1>0, <2>1, <2>2, AdvanceFacts, FillIdle
  <2>4. QED
    BY <1>0, <1>1, <2>3 DEF OnCourse, SpillPath
<1>2. CASE pc[r] = 1
  <2>1. Instr(r) = PutRead(spill, {1}) /\ One(r, spill, {0}, {})
    BY <1>2 DEF Instr, Program, OnCourse
  <2>2. Fill(r) /\ Instr(r).path = spill /\ Instr(r).of = {1} /\ Moves(r, {1}, {}, {})
    BY <2>1, AdvanceFacts DEF PutRead, Moves
  <2>3. Two(r, spill, {0}, spill, {1}, {})'
    BY <1>0, <2>1, <2>2, AdvanceFacts, FillOne
  <2>4. QED
    BY <1>0, <1>2, <2>3 DEF OnCourse, SpillPath
<1>3. CASE pc[r] = 2
  <2>1. Instr(r) = Take /\ Two(r, spill, {0}, spill, {1}, {})
    BY <1>3 DEF Instr, Program, OnCourse
  <2>2. Drain(r) /\ alone'[r]
    BY <2>1, AdvanceFacts DEF Take
  <2>3. CASE t \in job.spilling
    <3>1. Stuck(r)'
      BY <1>0, <2>1, <2>2, <2>3, AdvanceFacts, DrainShared
    <3>2. QED
      BY <1>0, <1>3, <3>1 DEF OnCourse
  <2>4. CASE t \notin job.spilling
    <3>1. One(r, spill, {1}, {} \cup {0})'
      BY <1>0, <2>1, <2>2, <2>4, AdvanceFacts, DrainTwo
    <3>2. One(r, spill, {1}, {0})'
      BY <1>0, <3>1
    <3>3. QED
      BY <1>0, <1>3, <3>2 DEF OnCourse, SpillPath
  <2>5. QED
    BY <2>3, <2>4
<1>4. CASE pc[r] = 3
  <2>1. Instr(r) = Take /\ (One(r, spill, {1}, {0}) \/ Stuck(r))
    BY <1>4 DEF Instr, Program, OnCourse
  <2>2. Drain(r) /\ alone'[r] /\ ~FileMissing(r) /\ Instr(r).op = "Take"
    BY <2>1, AdvanceFacts DEF Take
  <2>3. ~Stuck(r)
    <3> SUFFICES ASSUME Stuck(r) PROVE FALSE
      OBVIOUS
    <3>1. /\ caches[r] \in Seq(Cache) /\ Len(caches[r]) = 1 /\ caches[r][1].spilled
          /\ file[caches[r][1].path] = NoFile
      BY DEF Stuck, FilesInv, FilesTypeOK
    <3>2. Head(caches[r]) = caches[r][1]
      BY <3>1, HeadTailProperties
    <3>3. QED
      BY <2>2, <3>1, <3>2 DEF FileMissing
  <2>4. Idle(r, {0} \cup {1})'
    BY <1>0, <2>1, <2>2, <2>3, AdvanceFacts, DrainOne
  <2>5. Idle(r, Sides)'
    BY <1>0, <2>4
  <2>6. QED
    BY <1>0, <1>4, <2>5 DEF OnCourse
<1>5. CASE pc[r] = 4
  <2>1. Instr(r) = Put(spill, Sides) /\ Idle(r, Sides)
    BY <1>5 DEF Instr, Program, OnCourse
  <2>2. One(r, spill, Sides, {})'
    BY <2>1, CommonSteps
  <2>3. QED
    BY <1>0, <1>5, <2>2 DEF OnCourse, SpillPath
<1>6. CASE pc[r] = 5
  <2>1. Instr(r) = Take /\ One(r, spill, Sides, {})
    BY <1>6 DEF Instr, Program, OnCourse
  <2>2. Idle(r, Sides)'
    BY <2>1, CommonSteps
  <2>3. QED
    BY <1>0, <1>6, <2>2 DEF OnCourse
<1>7. CASE pc[r] = 6
  <2>1. Instr(r) = Write(PartPath(t)) /\ Idle(r, Sides)
    BY <1>7 DEF Instr, Program, OnCourse
  <2>2. Done(r, t)'
    BY <2>1, CommonSteps
  <2>3. QED
    BY <1>0, <1>7, <2>2 DEF OnCourse
<1>8. pc[r] \in {0, 1, 2, 3, 4, 5, 6}
  BY <1>0
<1>9. QED
  BY <1>1, <1>2, <1>3, <1>4, <1>5, <1>6, <1>7, <1>8

\* An output that nobody drains does no harm in memory.
LEMMA CourseStray ==
    ASSUME FilesInv, NEW r \in Requests, Advances(r), job.plan = "Stray", OnCourse(r)
    PROVE  OnCourse(r)'
<1> DEFINE t == TaskOf[r]
           spill == SpillPath(t)
<1>0. /\ job' = job /\ job'.plan = "Stray" /\ pc[r] \in 0..3 /\ pc'[r] = pc[r] + 1
      /\ {} \in SUBSET Sides /\ {0} \in SUBSET Sides /\ {1} \in SUBSET Sides
      /\ {1} # {} /\ {} \cap {1} = {} /\ {} \cup {1} = {1}
      /\ Mixed(t)' <=> Mixed(t)
  BY AdvanceFacts DEF Program, Sides, Mixed
<1>1. CASE Mixed(t)
  BY <1>0, <1>1 DEF OnCourse
<1>2. CASE ~Mixed(t) /\ pc[r] = 0
  <2>1. Instr(r) = Leave(spill, {0}) /\ Idle(r, {}) /\ t \notin job.spilling
    BY <1>2 DEF Instr, Program, OnCourse, Mixed
  <2>2. Fill(r) /\ Instr(r).op = "Leave"
    BY <2>1, AdvanceFacts DEF Leave
  <2>3. UNCHANGED <<file, caches, taken, job>>
    BY <2>1, <2>2 DEF Fill
  <2>4. Idle(r, {})'
    BY <2>1, <2>3 DEF Idle, ScratchOf, Scratch, SpillPath, BucketPath, Records, Record
  <2>5. QED
    BY <1>0, <1>2, <2>4 DEF OnCourse
<1>3. CASE ~Mixed(t) /\ pc[r] = 1
  <2>1. Instr(r) = PutRead(spill, {1}) /\ Idle(r, {})
    BY <1>3 DEF Instr, Program, OnCourse
  <2>2. Fill(r) /\ Instr(r).path = spill /\ Instr(r).of = {1} /\ Moves(r, {1}, {}, {})
    BY <2>1, AdvanceFacts DEF PutRead, Moves
  <2>3. One(r, spill, {1}, {})'
    BY <1>0, <2>1, <2>2, AdvanceFacts, FillIdle
  <2>4. QED
    BY <1>0, <1>3, <2>3 DEF OnCourse, SpillPath
<1>4. CASE ~Mixed(t) /\ pc[r] = 2
  <2>1. Instr(r) = Take /\ One(r, spill, {1}, {})
    BY <1>4 DEF Instr, Program, OnCourse
  <2>2. Drain(r) /\ alone'[r]
    BY <2>1, AdvanceFacts DEF Take
  <2>3. Idle(r, {} \cup {1})'
    BY <1>0, <2>1, <2>2, AdvanceFacts, DrainOne
  <2>4. Idle(r, {1})'
    BY <1>0, <2>3
  <2>5. QED
    BY <1>0, <1>4, <2>4 DEF OnCourse
<1>5. CASE ~Mixed(t) /\ pc[r] = 3
  <2>1. Instr(r) = Write(PartPath(t)) /\ Idle(r, {1})
    BY <1>5 DEF Instr, Program, OnCourse
  <2>2. WritePart(r) /\ Instr(r).path = PartPath(t)
    BY <2>1, AdvanceFacts DEF Write
  <2>3. taken[r] = Records(t, {1}) /\ PartPath(t) \in Paths
    BY <2>1, AdvanceFacts, PathFacts DEF Idle
  <2>4. file'[PartPath(t)] = taken[r]
    BY <2>2, <2>3, WriteEffect
  <2>5. Expected(t, t)' = Records(t, {1})
    BY <1>0 DEF Expected, Records, Record
  <2>6. Done(r, t)'
    BY <2>3, <2>4, <2>5 DEF Done, PartPath
  <2>7. QED
    BY <1>0, <1>5, <2>6 DEF OnCourse
<1>6. QED
  BY <1>0, <1>1, <1>2, <1>3, <1>4, <1>5

\* The buckets of a shuffle: part file 0 is written while bucket 1 is filled.
LEMMA CourseShuffle ==
    ASSUME FilesInv, NEW r \in Requests, Advances(r), job.plan = "Shuffle", OnCourse(r)
    PROVE  OnCourse(r)'
<1> DEFINE t == TaskOf[r]
           spill == SpillPath(t)
<1>0. /\ job' = job /\ job'.plan = "Shuffle" /\ pc[r] \in 0..7 /\ pc'[r] = pc[r] + 1
      /\ {} \in SUBSET Sides /\ {0} \in SUBSET Sides /\ {1} \in SUBSET Sides
      /\ {0} # {} /\ {1} # {} /\ {1} \cap {0} = {} /\ {} \cap {0} = {} /\ {} \cap {1} = {}
      /\ {} \cup {0} = {0} /\ {} \cup {1} = {1}
  BY AdvanceFacts DEF Program, Sides
<1>a. /\ BucketPath(0) \in Scratch /\ BucketPath(1) \in Scratch
       /\ BucketPath(0) # BucketPath(1) /\ ScratchOf(t) = Scratch
       /\ PartPath(0) \in Paths /\ PartPath(1) \in Paths
       /\ Expected(t, 0)' = Records(t, {0}) /\ Expected(t, 1)' = Records(t, {1})
       /\ Expected(t, 0) = Records(t, {0})
  <2>1. /\ BucketPath(0) \in Scratch /\ BucketPath(1) \in Scratch
        /\ ScratchOf(t) = Scratch /\ PartPath(0) \in Paths /\ PartPath(1) \in Paths
    BY <1>0 DEF Scratch, Sides, Paths, ScratchOf
  <2>2. BucketPath(0) # BucketPath(1)
    BY DEF BucketPath
  <2>3. /\ Expected(t, 0)' = Records(t, {0}) /\ Expected(t, 1)' = Records(t, {1})
        /\ Expected(t, 0) = Records(t, {0})
    BY <1>0 DEF Expected, Records, Record, Sides
  <2>4. QED
    BY <2>1, <2>2, <2>3
<1>1. CASE pc[r] = 0
  <2>1. Instr(r) = PutRead(spill, Sides) /\ Idle(r, {})
    BY <1>1 DEF Instr, Program, OnCourse
  <2>2. One(r, spill, Sides, {})'
    BY <2>1, CommonSteps
  <2>3. QED
    BY <1>0, <1>1, <2>2 DEF OnCourse, SpillPath
<1>2. CASE pc[r] = 1
  <2>1. Instr(r) = Take /\ One(r, spill, Sides, {})
    BY <1>2 DEF Instr, Program, OnCourse
  <2>2. Idle(r, Sides)'
    BY <2>1, CommonSteps
  <2>3. QED
    BY <1>0, <1>2, <2>2 DEF OnCourse
<1>3. CASE pc[r] = 2
  <2>1. Instr(r) = Put(BucketPath(0), {0}) /\ Idle(r, Sides)
    BY <1>3 DEF Instr, Program, OnCourse
  <2>2. Fill(r) /\ Instr(r).path = BucketPath(0) /\ Instr(r).of = {0}
        /\ Moves(r, {0}, Sides, {1})
    BY <2>1, AdvanceFacts DEF Put, Moves, Sides
  <2>3. One(r, BucketPath(0), {0}, {1})'
    BY <1>0, <1>a, <2>1, <2>2, FillIdle
  <2>4. QED
    BY <1>0, <1>3, <2>3 DEF OnCourse, BucketPath
<1>4. CASE pc[r] = 3
  <2>1. Instr(r) = Put(BucketPath(1), {1}) /\ One(r, BucketPath(0), {0}, {1})
    BY <1>4 DEF Instr, Program, OnCourse
  <2>2. Fill(r) /\ Instr(r).path = BucketPath(1) /\ Instr(r).of = {1}
        /\ Moves(r, {1}, {1}, {})
    BY <2>1, AdvanceFacts DEF Put, Moves, Sides
  <2>3. Two(r, BucketPath(0), {0}, BucketPath(1), {1}, {})'
    BY <1>0, <1>a, <2>1, <2>2, FillOne
  <2>4. QED
    BY <1>0, <1>4, <2>3 DEF OnCourse, BucketPath
<1>5. CASE pc[r] = 4
  <2>1. Instr(r) = Take /\ Two(r, BucketPath(0), {0}, BucketPath(1), {1}, {})
    BY <1>5 DEF Instr, Program, OnCourse
  <2>2. Drain(r) /\ alone'[r]
    BY <2>1, AdvanceFacts DEF Take
  <2>3. One(r, BucketPath(1), {1}, {} \cup {0})'
    BY <1>0, <1>a, <2>1, <2>2, DrainTwo
  <2>4. One(r, BucketPath(1), {1}, {0})'
    BY <1>0, <2>3
  <2>5. QED
    BY <1>0, <1>5, <2>4 DEF OnCourse, BucketPath
<1>6. CASE pc[r] = 5
  <2>1. Instr(r) = Write(PartPath(0)) /\ One(r, BucketPath(1), {1}, {0})
    BY <1>6 DEF Instr, Program, OnCourse
  <2>2. WritePart(r) /\ Instr(r).path = PartPath(0) /\ taken[r] = Records(t, {0})
    BY <2>1, AdvanceFacts DEF Write, One
  <2>3. One(r, BucketPath(1), {1}, {})' /\ file'[PartPath(0)] = taken[r]
    BY <1>a, <2>1, <2>2, WriteEffect
  <2>4. Done(r, 0)'
    BY <1>a, <2>2, <2>3 DEF Done, PartPath
  <2>5. QED
    BY <1>0, <1>6, <2>3, <2>4 DEF OnCourse, BucketPath
<1>7. CASE pc[r] = 6
  <2>1. Instr(r) = Take /\ One(r, BucketPath(1), {1}, {}) /\ Done(r, 0)
    BY <1>7 DEF Instr, Program, OnCourse
  <2>2. /\ Drain(r) /\ alone'[r] /\ Len(caches[r]) = 1
        /\ caches[r][1] = Filled(t, BucketPath(1), {1})
    BY <2>1, AdvanceFacts DEF Take, One
  <2>3. Idle(r, {} \cup {1})'
    BY <1>0, <1>a, <2>1, <2>2, DrainOne
  <2>4. Idle(r, {1})'
    BY <1>0, <2>3
  <2>5. file'[PartPath(0)] = file[PartPath(0)]
    <3>1. Drained(r)
      BY <2>2, DrainEffect
    <3>2. PartPath(0) # caches[r][1].path
      BY <2>2 DEF Filled, PartPath, BucketPath
    <3>3. QED
      BY <1>a, <3>1, <3>2 DEF Drained
  <2>6. Done(r, 0)'
    BY <1>a, <2>1, <2>5 DEF Done, PartPath
  <2>7. QED
    BY <1>0, <1>7, <2>4, <2>6 DEF OnCourse
<1>8. CASE pc[r] = 7
  <2>1. Instr(r) = Write(PartPath(1)) /\ Idle(r, {1}) /\ Done(r, 0)
    BY <1>8 DEF Instr, Program, OnCourse
  <2>2. WritePart(r) /\ Instr(r).path = PartPath(1) /\ taken[r] = Records(t, {1})
    BY <2>1, AdvanceFacts DEF Write, Idle
  <2>3. file'[PartPath(1)] = taken[r] /\ file'[PartPath(0)] = file[PartPath(0)]
    BY <1>a, <2>2, WriteEffect
  <2>4. Done(r, 0)' /\ Done(r, 1)'
    BY <1>a, <2>1, <2>2, <2>3 DEF Done, PartPath
  <2>5. QED
    BY <1>0, <1>8, <2>4 DEF OnCourse
<1>9. pc[r] \in {0, 1, 2, 3, 4, 5, 6, 7}
  BY <1>0
<1>10. QED
  BY <1>1, <1>2, <1>3, <1>4, <1>5, <1>6, <1>7, <1>8, <1>9

-----------------------------------------------------------------------------
\* A step of somebody else that leaves what r holds and its files alone leaves
\* it on course.
LEMMA CourseKept ==
    ASSUME FilesInv, NEW r \in Requests, OnCourse(r), job' = job, pc'[r] = pc[r],
           caches'[r] = caches[r], taken'[r] = taken[r],
           \A path \in ScratchOf(TaskOf[r]) : file'[path] = file[path],
           \A p \in Targets(TaskOf[r]) : file'[PartPath(p)] = file[PartPath(p)]
    PROVE  OnCourse(r)'
<1> DEFINE t == TaskOf[r]
<1>1. /\ ScratchOf(t)' = ScratchOf(t) /\ \A S : Records(t, S)' = Records(t, S)
      /\ \A p, O : Filled(t, p, O)' = Filled(t, p, O)
      /\ \A p : Expected(t, p)' = Expected(t, p)
  BY DEF ScratchOf, Scratch, SpillPath, BucketPath, Records, Record, Filled, Nothing, Expected,
         Sides
<1>2. ASSUME NEW S, Idle(r, S) PROVE Idle(r, S)'
  BY <1>1, <1>2 DEF Idle
<1>3. ASSUME NEW p, NEW O, NEW S, One(r, p, O, S) PROVE One(r, p, O, S)'
  BY <1>1, <1>3 DEF One
<1>4. ASSUME NEW p1, NEW O1, NEW p2, NEW O2, NEW S, Two(r, p1, O1, p2, O2, S)
      PROVE  Two(r, p1, O1, p2, O2, S)'
  BY <1>1, <1>4 DEF Two
<1>5. ASSUME NEW p \in Targets(t), Done(r, p) PROVE Done(r, p)'
  BY <1>1, <1>5 DEF Done, PartPath
<1>6. ASSUME job.plan # "Shuffle", Stuck(r) PROVE Stuck(r)'
  <2>1. caches[r][1].path \in ScratchOf(t)
    BY <1>6 DEF Stuck, FilesInv, RecordsOwned, ScratchOf
  <2>2. QED
    BY <1>6, <2>1 DEF Stuck
<1>7. /\ job.plan # "Shuffle" => t \in Targets(t)
      /\ job.plan = "Shuffle" => 0 \in Targets(t) /\ 1 \in Targets(t)
  BY DEF Targets, Sides
<1>8. CASE job.plan = "Read"
  BY <1>2, <1>3, <1>5, <1>7, <1>8 DEF OnCourse, SpillPath, Sides
<1>9. CASE job.plan = "Map"
  BY <1>2, <1>3, <1>5, <1>7, <1>9 DEF OnCourse, SpillPath, Sides
<1>10. CASE job.plan = "Join"
  BY <1>2, <1>3, <1>4, <1>5, <1>6, <1>7, <1>10 DEF OnCourse, SpillPath, Sides
<1>11. CASE job.plan = "Shuffle"
  BY <1>2, <1>3, <1>4, <1>5, <1>7, <1>11 DEF OnCourse, SpillPath, BucketPath, Sides
<1>12. CASE job.plan = "Stray"
  BY <1>2, <1>3, <1>5, <1>7, <1>12 DEF OnCourse, SpillPath, Mixed
<1>13. job.plan \in {"Read", "Map", "Join", "Stray", "Shuffle"}
  BY DEF OnCourse
<1>14. QED
  BY <1>8, <1>9, <1>10, <1>11, <1>12, <1>13

\* Without a shuffle, a thread changes the files of its task only, and nothing
\* that other threads hold.
LEMMA ComputeStaysIn ==
    ASSUME FilesInv, NEW q \in Requests, Compute(q)
    PROVE  /\ q \in threads /\ threads' = threads /\ job' = job
           /\ \A r \in Requests : alone'[r] => alone[r]
           /\ \A r \in Requests : r # q => /\ pc'[r] = pc[r] /\ caches'[r] = caches[r]
                                           /\ taken'[r] = taken[r] /\ thread'[r] = thread[r]
           /\ job.plan # "Shuffle" =>
                 \A path \in Paths : path \notin {SpillPath(TaskOf[q]), PartPath(TaskOf[q])} =>
                    file'[path] = file[path]
<1>1. /\ FilesTypeOK /\ Working(q) /\ threads' = threads /\ job' = job
      /\ \A r \in Requests : alone'[r] => alone[r]
  BY DEF FilesInv, Compute, vars, Fill, Drain, RemoveFile, WritePart, Fail
<1>2. \A r \in Requests : r # q => /\ pc'[r] = pc[r] /\ caches'[r] = caches[r]
                                   /\ taken'[r] = taken[r] /\ thread'[r] = thread[r]
  BY <1>1 DEF FilesTypeOK, Compute, Fill, Drain, WritePart, Fail
<1>3. ASSUME job.plan # "Shuffle", NEW path \in Paths,
             path \notin {SpillPath(TaskOf[q]), PartPath(TaskOf[q])}
      PROVE  file'[path] = file[path]
  <2>1. pc[q] < Len(Program(TaskOf[q])) /\ pc[q] \in Nat /\ job \in Jobs
    BY <1>1 DEF FilesInv, ProgressOK, Working, FilesTypeOK
  <2>2. /\ Instr(q).op \in {"PutRead", "Leave", "Put"} => Instr(q).path = SpillPath(TaskOf[q])
        /\ Instr(q).op = "Write" => Instr(q).path = PartPath(TaskOf[q])
    BY <1>3, <2>1, InstrFacts DEF Targets
  <2>3. CASE Fill(q)
    BY <1>1, <1>3, <2>2, <2>3 DEF Fill, FilesTypeOK
  <2>4. CASE Drain(q)
    <3>1. caches[q] \in Seq(Cache) /\ Len(caches[q]) > 0 /\ caches[q] # <<>>
      <4>1. Instr(q).op = "Take" /\ thread[q] = "Work"
        BY <1>1, <2>4 DEF Drain, Working
      <4>2. Depths[pc[q] + 1] > 0
        BY <2>1, <4>1, InstrFacts
      <4>3. Len(caches[q]) > 0
        BY <4>1, <4>2 DEF FilesInv, ProgressOK
      <4>4. QED
        BY <1>1, <4>3 DEF FilesTypeOK
    <3>2. Head(caches[q]) = caches[q][1] /\ 1 \in 1..Len(caches[q])
      BY <3>1, HeadTailProperties, LenProperties
    <3>3. Head(caches[q]).path = SpillPath(TaskOf[q])
      BY <1>3, <3>2 DEF FilesInv, RecordsOwned
    <3>4. QED
      BY <1>1, <1>3, <2>4, <3>3 DEF Drain, RemoveFile, FilesTypeOK
  <2>5. CASE WritePart(q)
    BY <1>1, <1>3, <2>2, <2>5 DEF WritePart, FilesTypeOK
  <2>6. CASE Fail(q)
    BY <1>1, <1>3, <2>2, <2>6 DEF Fail, FilesTypeOK
  <2>7. QED
    BY <2>3, <2>4, <2>5, <2>6 DEF Compute
<1>4. QED
  BY <1>1, <1>2, <1>3 DEF Working

\* Work of one thread does not disturb a thread that is alone.
LEMMA AloneCompute ==
    ASSUME FilesInv, AloneOK, NEW q \in Requests, Compute(q)
    PROVE  AloneOK'
<1>1. /\ q \in threads /\ threads' = threads /\ job' = job
      /\ \A r \in Requests : alone'[r] => alone[r]
      /\ \A r \in Requests : r # q => /\ pc'[r] = pc[r] /\ caches'[r] = caches[r]
                                      /\ taken'[r] = taken[r] /\ thread'[r] = thread[r]
  BY ComputeStaysIn
<1>2. Apart'
  BY <1>1 DEF AloneOK, Apart, Share
<1>3. ASSUME NEW r \in Requests, alone'[r], thread'[r] \in {"Work", "Ok"} PROVE OnCourse(r)'
  <2>1. CASE r = q
    <3>1. thread[r] = "Work" /\ OnCourse(r)
      BY <1>1, <1>3, <2>1 DEF AloneOK, Compute, Fill, Drain, WritePart, Fail, Working
    <3>2. ~Fail(r)
      <4>1. Fail(r) => thread'[r] = "Err"
        BY DEF Fail, FilesInv, FilesTypeOK
      <4>2. QED
        BY <1>3, <4>1
    <3>3. Advances(r)
      BY <1>3, <2>1, <3>2 DEF Compute, Advances
    <3>4. job.plan \in {"Read", "Map", "Join", "Stray", "Shuffle"}
      BY <3>1 DEF OnCourse
    <3>5. QED
      BY <3>1, <3>3, <3>4, CourseRead, CourseMap, CourseJoin, CourseStray, CourseShuffle
  <2>2. CASE r # q
    <3>1. OnCourse(r) /\ ~Share(q, r)
      BY <1>1, <1>3, <2>2 DEF AloneOK, Apart
    <3>2. job.plan # "Shuffle" /\ TaskOf[q] # TaskOf[r] /\ TaskOf[r] \in Tasks
      BY <3>1, ExecutorAssumption DEF Share
    <3>3. \A path \in Paths : path \notin {SpillPath(TaskOf[q]), PartPath(TaskOf[q])} =>
             file'[path] = file[path]
      BY <3>2, ComputeStaysIn
    <3>4. ScratchOf(TaskOf[r]) = {SpillPath(TaskOf[r])} /\ Targets(TaskOf[r]) = {TaskOf[r]}
      BY <3>2 DEF ScratchOf, Targets
    <3>5. /\ SpillPath(TaskOf[r]) \in Paths /\ PartPath(TaskOf[r]) \in Paths
          /\ SpillPath(TaskOf[r]) # SpillPath(TaskOf[q])
          /\ PartPath(TaskOf[r]) # PartPath(TaskOf[q])
          /\ SpillPath(TaskOf[r]) # PartPath(TaskOf[q])
          /\ PartPath(TaskOf[r]) # SpillPath(TaskOf[q])
      BY <3>2, PathFacts
    <3>6. /\ \A path \in ScratchOf(TaskOf[r]) : file'[path] = file[path]
          /\ \A p \in Targets(TaskOf[r]) : file'[PartPath(p)] = file[PartPath(p)]
      BY <3>3, <3>4, <3>5
    <3>7. QED
      BY <1>1, <2>2, <3>1, <3>6, CourseKept
  <2>3. QED
    BY <2>1, <2>2
<1>4. QED
  BY <1>2, <1>3 DEF AloneOK

\* A new thread is alone only if it finds nobody at its files and none of them.
LEMMA AloneSpawn ==
    ASSUME FilesInv, AloneOK, NEW q \in Requests, StartAttempt(q), Spawn(q)
    PROVE  AloneOK'
<1>1. /\ pc' = [pc EXCEPT ![q] = 0] /\ caches' = [caches EXCEPT ![q] = <<>>]
      /\ taken' = [taken EXCEPT ![q] = Nothing] /\ thread' = [thread EXCEPT ![q] = "Work"]
      /\ job' = job /\ file' = file /\ threads' = threads \cup {q}
      /\ alone' = [x \in Requests |->
            IF x = q THEN /\ \A y \in threads : y # q => ~Share(y, q)
                          /\ \A path \in ScratchOf(TaskOf[q]) : file[path] = NoFile
            ELSE alone[x] /\ ~Share(x, q)]
  BY DEF Spawn, StartAttempt
<1>2. FilesTypeOK
  BY DEF FilesInv
<1>3. /\ pc'[q] = 0 /\ caches'[q] = <<>> /\ taken'[q] = Nothing
      /\ \A r \in Requests : r # q => /\ pc'[r] = pc[r] /\ caches'[r] = caches[r]
                                      /\ taken'[r] = taken[r] /\ thread'[r] = thread[r]
  BY <1>1, <1>2 DEF FilesTypeOK
<1>4. \A x, y : Share(x, y) => Share(y, x)
  BY DEF Share
<1>5. \A x, y : Share(x, y)' <=> Share(x, y)
  BY <1>1 DEF Share
<1>6. /\ alone'[q] => /\ \A y \in threads : y # q => ~Share(y, q)
                      /\ \A path \in ScratchOf(TaskOf[q]) : file[path] = NoFile
      /\ \A r \in Requests : r # q /\ alone'[r] => alone[r] /\ ~Share(r, q)
  BY <1>1
<1>7. Apart'
  <2> SUFFICES ASSUME NEW r \in Requests, alone'[r]
               PROVE  r \in threads' /\ \A x \in threads' : x # r => ~Share(x, r)
    BY <1>5 DEF Apart
  <2>1. CASE r = q
    BY <1>1, <1>6, <2>1
  <2>2. CASE r # q
    BY <1>1, <1>4, <1>6, <2>2 DEF AloneOK, Apart
  <2>3. QED
    BY <2>1, <2>2
<1>8. ASSUME NEW r \in Requests, alone'[r], thread'[r] \in {"Work", "Ok"} PROVE OnCourse(r)'
  <2>1. CASE r = q
    <3>1. \A path \in ScratchOf(TaskOf[q])' : file'[path] = NoFile
      BY <1>1, <1>6, <1>8, <2>1 DEF ScratchOf, Scratch, SpillPath, BucketPath
    <3>2. Len(caches'[q]) = 0 /\ taken'[q] = Records(TaskOf[q], {})'
      BY <1>3 DEF Nothing, Records, Record
    <3>3. Idle(q, {})'
      BY <3>1, <3>2 DEF Idle
    <3>4. job'.plan \in {"Read", "Map", "Join", "Stray", "Shuffle"}
      BY <1>1, <1>2, TaskFilesAssumption DEF FilesTypeOK
    <3>5. QED
      BY <1>3, <2>1, <3>3, <3>4 DEF OnCourse
  <2>2. CASE r # q
    <3>1. OnCourse(r)
      BY <1>3, <1>6, <1>8, <2>2 DEF AloneOK
    <3>2. QED
      BY <1>1, <1>3, <2>2, <3>1, CourseKept
  <2>3. QED
    BY <2>1, <2>2
<1>9. QED
  BY <1>7, <1>8 DEF AloneOK

\* Threads that end and handlers that do not start one disturb nobody.
LEMMA AloneRest ==
    ASSUME FilesInv, AloneOK, NEW Q \in SUBSET Requests, job' = job, file' = file,
           \A r \in Requests : r \notin Q =>
              /\ alone'[r] = alone[r] /\ pc'[r] = pc[r] /\ caches'[r] = caches[r]
              /\ taken'[r] = taken[r] /\ thread'[r] = thread[r],
           \A r \in Q : ~alone'[r], threads' = threads \ Q
    PROVE  AloneOK'
<1>1. \A x, y : Share(x, y)' <=> Share(x, y)
  BY DEF Share
<1>2. Apart'
  BY <1>1 DEF AloneOK, Apart
<1>3. ASSUME NEW r \in Requests, alone'[r], thread'[r] \in {"Work", "Ok"} PROVE OnCourse(r)'
  <2>1. r \notin Q /\ OnCourse(r)
    BY <1>3 DEF AloneOK
  <2>2. QED
    BY <2>1, CourseKept
<1>4. QED
  BY <1>2, <1>3 DEF AloneOK

\* Every step keeps threads that are alone on course.
LEMMA AloneStep == FilesInv /\ AloneOK /\ [FilesNext]_allVars => AloneOK'
<1> SUFFICES ASSUME FilesInv, AloneOK, [FilesNext]_allVars PROVE AloneOK'
  OBVIOUS
<1>1. ASSUME NEW r \in Requests, Compute(r) PROVE AloneOK'
  BY <1>1, AloneCompute
<1>2. ASSUME UNCHANGED fileVars, threads' = threads PROVE AloneOK'
  <2>1. threads' = threads \ {} /\ {} \in SUBSET Requests
    BY <1>2
  <2>2. QED
    BY <1>2, <2>1, AloneRest DEF fileVars
<1>3. ASSUME NEW r \in Requests, Acquire(r) \/ Report(r) \/ Accept(r) \/ Cancel(r),
             UNCHANGED fileVars
      PROVE  AloneOK'
  BY <1>2, <1>3 DEF Acquire, Report, Accept, Cancel
<1>4. ASSUME NEW r \in Requests, Gone(r), EndAttempt(r, TRUE) \/ EndAttempt(r, FALSE) \/ OrphanEnds(r)
      PROVE  AloneOK'
  <2>1. /\ job' = job /\ file' = file /\ threads' = threads \ {r} /\ ~alone'[r]
        /\ \A q \in Requests : q \notin {r} =>
              /\ alone'[q] = alone[q] /\ pc'[q] = pc[q] /\ caches'[q] = caches[q]
              /\ taken'[q] = taken[q] /\ thread'[q] = thread[q]
    BY <1>4 DEF Gone, EndAttempt, OrphanEnds, FilesInv, FilesTypeOK
  <2>2. {r} \in SUBSET Requests /\ \A q \in {r} : ~alone'[q]
    BY <2>1
  <2>3. QED
    BY <2>1, <2>2, AloneRest
<1>5. ASSUME NEW r \in Requests, Handle(r) PROVE AloneOK'
  <2>1. CASE (Acquire(r) \/ Report(r)) /\ UNCHANGED fileVars
    BY <1>3, <2>1
  <2>2. CASE StartAttempt(r) /\ Spawn(r)
    BY <2>2, AloneSpawn
  <2>3. CASE (EndAttempt(r, TRUE) \/ EndAttempt(r, FALSE)) /\ Gone(r)
    BY <1>4, <2>3
  <2>4. QED
    BY <1>5, <2>1, <2>2, <2>3 DEF Handle
<1>6. CASE UNCHANGED allVars
  BY <1>2, <1>6 DEF allVars, vars
<1>7. QED
  BY <1>1, <1>3, <1>4, <1>5, <1>6 DEF FilesNext

\* An execution that met no other one on its files, no leftovers and no file that
\* resists removal, and that completes, has written exactly its records:
\* from_records, drain_all and write_records lose and repeat nothing, in memory or
\* through a file, and the two spilled inputs of a join end in an error, never in
\* a wrong part file.  Excepted is a task with a spilled output nobody drains.
THEOREM AloneIsExact == FilesSpec => []AloneExact
<1>1. FilesInit => AloneOK
  BY DEF FilesInit, AloneOK, Apart
<1>2. FilesInv /\ AloneOK => AloneExact
  <2> SUFFICES ASSUME FilesInv, AloneOK, NEW r \in threads, thread[r] = "Ok", alone[r],
                      ~Mixed(TaskOf[r]), NEW p \in Targets(TaskOf[r])
               PROVE  file[PartPath(p)] = Expected(TaskOf[r], p)
    BY DEF AloneExact
  <2>1. r \in Requests
    BY DEF FilesInv, ExecInv, TypeOK
  <2>2. OnCourse(r) /\ pc[r] = Len(Program(TaskOf[r]))
    BY <2>1 DEF AloneOK, FilesInv, ProgressOK
  <2>3. Done(r, p)
    <3>1. CASE job.plan = "Read"
      BY <2>2, <3>1 DEF OnCourse, Program, Targets
    <3>2. CASE job.plan = "Map"
      BY <2>2, <3>2 DEF OnCourse, Program, Targets
    <3>3. CASE job.plan = "Join"
      BY <2>2, <3>3 DEF OnCourse, Program, Targets
    <3>4. CASE job.plan = "Shuffle"
      BY <2>2, <3>4 DEF OnCourse, Program, Targets, Sides
    <3>5. CASE job.plan = "Stray"
      BY <2>2, <3>5 DEF OnCourse, Program, Targets
    <3>6. job.plan \in {"Read", "Map", "Join", "Stray", "Shuffle"}
      BY <2>2 DEF OnCourse
    <3>7. QED
      BY <3>1, <3>2, <3>3, <3>4, <3>5, <3>6
  <2>4. QED
    BY <2>3 DEF Done
<1>3. QED
  BY <1>1, <1>2, AloneStep, FilesInvariant, PTL DEF FilesSpec

=============================================================================
