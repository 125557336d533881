--------------------------- MODULE SchedulerProofs ---------------------------
(***************************************************************************)
(* Theorems about module Scheduler, for any number of workers, any metrics *)
(* and any heartbeat interval: the rotation queue, its fairness, the       *)
(* contract of select_worker, the watchdog's bounds and the addresses of   *)
(* workers.                                                                *)
(***************************************************************************)
EXTENDS Scheduler, FiniteSetTheorems, SequenceTheorems, WellFoundedInduction, TLAPS

-----------------------------------------------------------------------------
\* How old an Active worker can be depends on when the watchdog last ran.
AgeOK == \A w \in Workers : status[w] = "Active" => age[w] <= Grace + timer

\* A live worker is never older than its latest heartbeat may be late.
HeartbeatOK == \A w \in Workers : alive[w] => age[w] <= Interval + Delay

\* Which address the registry has for each worker it knows.
AddressOK ==
    \A w \in Workers :
        /\ w \in joined => status[w] # "Unknown" /\ address[w] = "Advertised"
        /\ w \notin joined /\ status[w] # "Unknown" => address[w] = "Listen"

SchedInv ==
    /\ TypeOK /\ QueueSound /\ SelectContract
    /\ AgeOK /\ HeartbeatOK /\ NoFalseSuspicion /\ AddressOK

-----------------------------------------------------------------------------
\* A set of positions has a first one.
LEMMA FirstExists ==
    ASSUME NEW hits, hits \subseteq Nat, hits # {}
    PROVE  \E k \in hits : \A h \in hits : k <= h
<1>1. PICK k \in hits : \A h \in hits : ~(<<h, k>> \in OpToRel(<, Nat))
  BY NatLessThanWellFounded, WFMin
<1>2. \A h \in hits : ~(h < k)
  BY <1>1 DEF OpToRel
<1>3. QED
  BY <1>2

\* select_worker stops within one round of a queue that is not empty.
LEMMA StepsInRange ==
    ASSUME NEW q \in Seq(Workers), Len(q) > 0
    PROVE  Steps(q) \in 1..Len(q)
<1> DEFINE hits == {k \in 1..Len(q) : q[k] \in LeastLoaded}
<1>0. Len(q) \in Nat
  BY LenProperties
<1>1. CASE hits = {}
  BY <1>0, <1>1 DEF Steps
<1>2. CASE hits # {}
  <2>1. Steps(q) = CHOOSE k \in hits : \A h \in hits : k <= h
    BY <1>2 DEF Steps
  <2>2. hits \subseteq 1..Len(q) /\ hits \subseteq Nat
    BY <1>0
  <2> HIDE DEF hits
  <2>3. \E k \in hits : \A h \in hits : k <= h
    BY <1>2, <2>2, FirstExists
  <2>4. Steps(q) \in hits
    BY <2>1, <2>3
  <2>5. QED
    BY <2>2, <2>4
<1>3. QED
  BY <1>1, <1>2

\* Where rotation puts the entries of the queue.
LEMMA RotatedPlaces ==
    ASSUME NEW q \in Seq(Workers), NEW k \in 1..Len(q)
    PROVE  /\ Rotated(q, k) \in Seq(Workers) /\ Len(Rotated(q, k)) = Len(q)
           /\ \A a \in 1..(Len(q) - k) : Rotated(q, k)[a] = q[a + k]
           /\ \A a \in 1..k : Rotated(q, k)[Len(q) - k + a] = q[a]
<1> DEFINE n == Len(q)
           tail == SubSeq(q, k + 1, n)
           head == SubSeq(q, 1, k)
           turned == tail \o head
<1>1. n \in Nat /\ k \in Nat /\ 1 <= k /\ k <= n /\ \A a \in 1..n : q[a] \in Workers
  BY LenProperties, ElementOfSeq
<1> HIDE DEF n
<1>2. /\ tail \in Seq(Workers) /\ Len(tail) = n - k
      /\ \A a \in 1..(n - k) : tail[a] = q[k + a]
  BY <1>1, SubSeqProperties
<1>3. /\ head \in Seq(Workers) /\ Len(head) = k
      /\ \A a \in 1..k : head[a] = q[a]
  BY <1>1, SubSeqProperties
<1> HIDE DEF tail, head
<1>4. /\ turned \in Seq(Workers) /\ Len(turned) = n
      /\ \A a \in 1..n : turned[a] = IF a <= n - k THEN tail[a] ELSE head[a - (n - k)]
  <2>1. Len(tail) + Len(head) = n
    BY <1>1, <1>2, <1>3
  <2>2. /\ turned \in Seq(Workers) /\ Len(turned) = Len(tail) + Len(head)
        /\ \A a \in 1..(Len(tail) + Len(head)) :
              turned[a] = IF a <= Len(tail) THEN tail[a] ELSE head[a - Len(tail)]
    BY ZenonT(60), <1>2, <1>3, ConcatProperties
  <2> HIDE DEF turned
  <2>3. QED
    BY <1>2, <2>1, <2>2
<1>5. Rotated(q, k) = turned
  BY DEF Rotated, tail, head, n
<1> HIDE DEF turned
<1>6. \A a \in 1..(n - k) : turned[a] = q[a + k]
  BY SMTT(30), <1>1, <1>2, <1>4
<1>7. ASSUME NEW a \in 1..k PROVE turned[n - k + a] = q[a]
  <2>1. n - k + a \in 1..n /\ ~(n - k + a <= n - k) /\ (n - k + a) - (n - k) = a
    BY <1>1
  <2>2. turned[n - k + a] = head[a]
    BY <1>4, <2>1
  <2>3. QED
    BY <1>3, <2>2
<1>8. QED
  BY <1>4, <1>5, <1>6, <1>7 DEF n

\* Rotation permutes the entries of the queue.
LEMMA RotatedOK ==
    ASSUME NEW q \in Seq(Workers), NEW k \in 1..Len(q)
    PROVE  /\ Rotated(q, k) \in Seq(Workers)
           /\ \A a \in 1..Len(Rotated(q, k)) : \E b \in 1..Len(q) : Rotated(q, k)[a] = q[b]
           /\ (\A a, b \in 1..Len(q) : q[a] = q[b] => a = b) =>
                 \A a, b \in 1..Len(Rotated(q, k)) :
                     Rotated(q, k)[a] = Rotated(q, k)[b] => a = b
<1> DEFINE n == Len(q)
           turned == Rotated(q, k)
           place(a) == IF a <= n - k THEN a + k ELSE a - (n - k)
<1>1. n \in Nat /\ k \in Nat /\ 1 <= k /\ k <= n
  BY LenProperties
<1>2. /\ turned \in Seq(Workers) /\ Len(turned) = n
      /\ \A a \in 1..(n - k) : turned[a] = q[a + k]
      /\ \A a \in 1..k : turned[n - k + a] = q[a]
  BY RotatedPlaces
<1> HIDE DEF n, turned
<1>3. ASSUME NEW a \in 1..n PROVE place(a) \in 1..n /\ turned[a] = q[place(a)]
  <2>1. CASE a <= n - k
    BY <1>1, <1>2, <2>1
  <2>2. CASE ~(a <= n - k)
    <3>1. a - (n - k) \in 1..k /\ n - k + (a - (n - k)) = a
      BY <1>1, <2>2
    <3>2. turned[a] = q[a - (n - k)]
      BY <1>2, <3>1
    <3>3. QED
      BY <1>1, <2>2, <3>1, <3>2
  <2>3. QED
    BY <2>1, <2>2
<1>4. \A a, b \in 1..n : place(a) = place(b) => a = b
  BY <1>1
<1> HIDE DEF place
<1>5. \A a \in 1..Len(turned) : \E b \in 1..n : turned[a] = q[b]
  BY <1>2, <1>3
<1>6. (\A a, b \in 1..n : q[a] = q[b] => a = b) =>
         \A a, b \in 1..Len(turned) : turned[a] = turned[b] => a = b
  <2> SUFFICES ASSUME \A a, b \in 1..n : q[a] = q[b] => a = b,
                      NEW a \in 1..n, NEW b \in 1..n, turned[a] = turned[b]
               PROVE  a = b
    BY <1>2
  <2>1. q[place(a)] = q[place(b)] /\ place(a) \in 1..n /\ place(b) \in 1..n
    BY <1>3
  <2>2. place(a) = place(b)
    BY <2>1
  <2>3. QED
    BY <1>4, <2>2
<1>7. QED
  BY <1>2, <1>5, <1>6 DEF n, turned

\* The queue select_worker walks: the old one, or a new one of the Active.
LEMMA WalkedQueue ==
    ASSUME TypeOK, QueueSound, Active # {},
           NEW q \in IF Len(queue) = Cardinality(Active) THEN {queue} ELSE Orders(Active)
    PROVE  /\ q \in Seq(Workers) /\ Len(q) > 0
           /\ \A a, b \in 1..Len(q) : q[a] = q[b] => a = b
           /\ \A a \in 1..Len(q) : q[a] \in Workers /\ status[q[a]] # "Unknown"
<1>1. IsFiniteSet(Active) /\ Active \subseteq Workers
  BY SchedulerAssumption, FS_Subset DEF Active
<1>2. Cardinality(Active) \in Nat /\ Cardinality(Active) > 0
  BY <1>1, FS_CardinalityType, FS_EmptySet
<1>3. CASE Len(queue) = Cardinality(Active)
  <2>1. q = queue
    BY <1>3
  <2>2. QED
    BY <1>2, <1>3, <2>1, ElementOfSeq DEF TypeOK, QueueSound
<1>4. CASE Len(queue) # Cardinality(Active)
  <2>1. /\ q \in [1..Cardinality(Active) -> Active]
        /\ \A a, b \in 1..Cardinality(Active) : q[a] = q[b] => a = b
    BY <1>4 DEF Orders
  <2>2. q \in Seq(Active) /\ Len(q) = Cardinality(Active)
    BY <1>2, <2>1
  <2>3. q \in Seq(Workers)
    BY <1>1, <1>2, <2>1
  <2>4. \A a \in 1..Len(q) : q[a] \in Active
    BY <2>1, <2>2
  <2>5. \A w \in Active : w \in Workers /\ status[w] # "Unknown"
    BY DEF Active
  <2>6. QED
    BY <1>2, <2>1, <2>2, <2>3, <2>4, <2>5
<1>5. QED
  BY <1>3, <1>4

-----------------------------------------------------------------------------
\* The invariant holds initially.
LEMMA SchedInit == Init => SchedInv
<1> SUFFICES ASSUME Init PROVE SchedInv
  OBVIOUS
<1> USE SchedulerAssumption DEF Init
<1>1. Cardinality(Workers) \in Nat
  BY FS_CardinalityType
<1>2. TypeOK
  BY <1>1 DEF TypeOK, Period
<1>3. QueueSound
  BY EmptySeq DEF QueueSound
<1>4. SelectContract /\ AgeOK /\ HeartbeatOK /\ NoFalseSuspicion /\ AddressOK
  BY DEF SelectContract, AgeOK, HeartbeatOK, NoFalseSuspicion, AddressOK
<1>5. QED
  BY <1>2, <1>3, <1>4 DEF SchedInv

\* Every step keeps it.
LEMMA SchedStep == SchedInv /\ [Next]_vars => SchedInv'
<1> SUFFICES ASSUME SchedInv, [Next]_vars PROVE SchedInv'
  OBVIOUS
<1> USE SchedulerAssumption DEF SchedInv
<1>0. Cardinality(Workers) \in Nat /\ Grace \in Nat /\ Period = Grace /\ Grace = 2 * Interval
  BY FS_CardinalityType DEF Grace, Period
<1>q. \A a \in 1..Len(queue) : queue[a] \in Workers
  BY ElementOfSeq DEF TypeOK
<1>1. ASSUME NEW w \in Workers, AddWorker(w) PROVE SchedInv'
  <2>1. TypeOK'
    BY <1>0, <1>1 DEF AddWorker, Changed, TypeOK
  <2>2. QueueSound'
    BY <1>1, <1>q DEF AddWorker, TypeOK, QueueSound
  <2>3. SelectContract'
    BY <1>1 DEF AddWorker, Changed, SelectContract
  <2>4. AgeOK' /\ HeartbeatOK'
    <3>1. timer \in Nat /\ 0 <= Grace + timer /\ 0 <= Interval + Delay
      BY <1>0 DEF TypeOK
    <3>2. age'[w] = 0 /\ timer' = timer
          /\ \A v \in Workers : v # w => /\ age'[v] = age[v] /\ status'[v] = status[v]
                                       /\ alive'[v] = alive[v]
      BY <1>1 DEF AddWorker, TypeOK
    <3>3. QED
      BY <3>1, <3>2 DEF AgeOK, HeartbeatOK, Grace
  <2>5. NoFalseSuspicion'
    BY <1>1 DEF AddWorker, TypeOK, NoFalseSuspicion
  <2>6. AddressOK'
    BY <1>1 DEF AddWorker, TypeOK, AddressOK
  <2>7. QED
    BY <2>1, <2>2, <2>3, <2>4, <2>5, <2>6
<1>2. ASSUME NEW w \in Workers, Die(w) PROVE SchedInv'
  <2>1. TypeOK' /\ QueueSound'
    BY <1>2 DEF Die, TypeOK, QueueSound
  <2>2. SelectContract' /\ AgeOK' /\ AddressOK'
    BY <1>2 DEF Die, SelectContract, Active, AgeOK, AddressOK
  <2>3. HeartbeatOK' /\ NoFalseSuspicion'
    BY <1>2 DEF Die, TypeOK, HeartbeatOK, NoFalseSuspicion
  <2>4. QED
    BY <2>1, <2>2, <2>3
<1>3. ASSUME NEW w \in Workers, NEW m \in Metrics, RecordHeartbeat(w, m) PROVE SchedInv'
  <2>1. TypeOK'
    <3>1. /\ status' \in [Workers -> {"Unknown", "Active", "Down"}]
          /\ metrics' \in [Workers -> Metrics] /\ age' \in [Workers -> Nat]
      BY <1>3 DEF RecordHeartbeat, TypeOK
    <3>2. address' \in [Workers -> {"None", "Advertised", "Listen"}]
      BY <1>3 DEF RecordHeartbeat, TypeOK
    <3>3. last' = NoPick /\ waits' \in [Workers -> 0..Cardinality(Workers)]
      BY <1>0, <1>3 DEF RecordHeartbeat, Changed
    <3>4. QED
      BY <1>3, <3>1, <3>2, <3>3 DEF RecordHeartbeat, TypeOK
  <2>2. QueueSound'
    BY <1>3, <1>q DEF RecordHeartbeat, TypeOK, QueueSound
  <2>3. SelectContract'
    BY <1>3 DEF RecordHeartbeat, Changed, SelectContract
  <2>4. AgeOK' /\ HeartbeatOK'
    <3>1. timer \in Nat /\ 0 <= Grace + timer /\ 0 <= Interval + Delay
      BY <1>0 DEF TypeOK
    <3>2. age'[w] = 0 /\ timer' = timer
          /\ \A v \in Workers : v # w => /\ age'[v] = age[v] /\ status'[v] = status[v]
                                       /\ alive'[v] = alive[v]
      BY <1>3 DEF RecordHeartbeat, TypeOK
    <3>3. QED
      BY <3>1, <3>2 DEF AgeOK, HeartbeatOK, Grace
  <2>5. NoFalseSuspicion'
    BY <1>3 DEF RecordHeartbeat, TypeOK, NoFalseSuspicion
  <2>6. AddressOK'
    BY <1>3 DEF RecordHeartbeat, TypeOK, AddressOK
  <2>7. QED
    BY <2>1, <2>2, <2>3, <2>4, <2>5, <2>6
<1>4. ASSUME MarkStaleWorkers PROVE SchedInv'
  <2>1. TypeOK'
    BY <1>0, <1>4 DEF MarkStaleWorkers, Changed, TypeOK
  <2>2. QueueSound'
    BY <1>4, <1>q DEF MarkStaleWorkers, TypeOK, QueueSound
  <2>3. SelectContract'
    <3>1. CASE status' = status
      BY <1>4, <3>1 DEF MarkStaleWorkers, SelectContract, Active
    <3>2. CASE status' # status
      BY <1>4, <3>2 DEF MarkStaleWorkers, Changed, SelectContract
    <3>3. QED
      BY <3>1, <3>2
  <2>4. AgeOK'
    BY <1>0, <1>4 DEF MarkStaleWorkers, TypeOK, AgeOK
  <2>5. HeartbeatOK'
    BY <1>4 DEF MarkStaleWorkers, TypeOK, HeartbeatOK
  <2>6. NoFalseSuspicion'
    BY <1>0, <1>4 DEF MarkStaleWorkers, TypeOK, HeartbeatOK, NoFalseSuspicion
  <2>7. AddressOK'
    BY <1>4 DEF MarkStaleWorkers, TypeOK, AddressOK
  <2>8. QED
    BY <2>1, <2>2, <2>3, <2>4, <2>5, <2>6, <2>7
<1>5. ASSUME MasterRestarts PROVE SchedInv'
  <2>1. TypeOK'
    BY <1>0, <1>5 DEF MasterRestarts, Changed, TypeOK
  <2>2. QueueSound'
    BY <1>5, EmptySeq DEF MasterRestarts, QueueSound
  <2>3. SelectContract' /\ AgeOK' /\ HeartbeatOK' /\ NoFalseSuspicion' /\ AddressOK'
    BY <1>5 DEF MasterRestarts, Changed, TypeOK, SelectContract, AgeOK, HeartbeatOK,
                NoFalseSuspicion, AddressOK
  <2>4. QED
    BY <2>1, <2>2, <2>3
<1>6. ASSUME Tick PROVE SchedInv'
  <2>1. TypeOK'
    BY <1>0, <1>6 DEF Tick, TypeOK
  <2>2. QueueSound' /\ SelectContract' /\ NoFalseSuspicion' /\ AddressOK'
    BY <1>6 DEF Tick, QueueSound, SelectContract, Active, NoFalseSuspicion, AddressOK
  <2>3. AgeOK'
    BY <1>0, <1>6 DEF Tick, TypeOK, AgeOK
  <2>4. HeartbeatOK'
    BY <1>6 DEF Tick, TypeOK, HeartbeatOK
  <2>5. QED
    BY <2>1, <2>2, <2>3, <2>4
<1>7. ASSUME SelectWorker PROVE SchedInv'
  <2>0. UNCHANGED <<alive, status, metrics, age, address, joined, timer>>
    BY <1>7 DEF SelectWorker
  <2>1. AgeOK' /\ HeartbeatOK' /\ NoFalseSuspicion' /\ AddressOK'
    BY <2>0 DEF AgeOK, HeartbeatOK, NoFalseSuspicion, AddressOK
  <2>2. CASE Active = {}
    <3>1. last' = None /\ UNCHANGED <<queue, waits>>
      BY <1>7, <2>2 DEF SelectWorker
    <3>2. TypeOK' /\ QueueSound'
      BY <2>0, <3>1 DEF TypeOK, QueueSound
    <3>3. SelectContract'
      BY <2>0, <2>2, <3>1 DEF SelectContract, Active
    <3>4. QED
      BY <2>1, <3>2, <3>3
  <2>3. CASE Active # {}
    <3>1. PICK q \in IF Len(queue) = Cardinality(Active) THEN {queue} ELSE Orders(Active) :
             queue' = Rotated(q, Steps(q)) /\ last' = q[Steps(q)]
      BY <1>7, <2>3 DEF SelectWorker
    <3>2. /\ q \in Seq(Workers) /\ Len(q) > 0
          /\ \A a, b \in 1..Len(q) : q[a] = q[b] => a = b
          /\ \A a \in 1..Len(q) : q[a] \in Workers /\ status[q[a]] # "Unknown"
      BY <2>3, WalkedQueue
    <3>3. Steps(q) \in 1..Len(q)
      BY <3>2, StepsInRange
    <3>4. last' \in Workers /\ status[last'] # "Unknown"
      BY <3>1, <3>2, <3>3
    <3> DEFINE turned == Rotated(q, Steps(q))
    <3>5. /\ turned \in Seq(Workers)
          /\ \A a \in 1..Len(turned) : \E b \in 1..Len(q) : turned[a] = q[b]
          /\ \A a, b \in 1..Len(turned) : turned[a] = turned[b] => a = b
      BY <3>2, <3>3, RotatedOK
    <3>6. waits' \in [Workers -> 0..Cardinality(Workers)]
      <4>1. waits' = [w \in Workers |->
                         IF w = last' THEN 0
                         ELSE IF waits[w] < Cardinality(Workers) THEN waits[w] + 1
                         ELSE waits[w]]
        BY <1>7, <2>3 DEF SelectWorker
      <4>2. QED
        BY <1>0, <4>1 DEF TypeOK
    <3>7. queue' = turned
      BY <3>1
    <3> HIDE DEF turned
    <3>8. TypeOK'
      BY <2>0, <3>4, <3>5, <3>6, <3>7 DEF TypeOK
    <3>9. QueueSound'
      BY <2>0, <3>2, <3>5, <3>7 DEF QueueSound
    <3>10. SelectContract'
      BY <2>0, <2>3, <3>4 DEF SelectContract, Active
    <3>11. QED
      BY <2>1, <3>8, <3>9, <3>10
  <2>4. QED
    BY <2>2, <2>3
<1>8. CASE UNCHANGED vars
  BY <1>8 DEF vars, TypeOK, QueueSound, SelectContract, Active, AgeOK, HeartbeatOK,
              NoFalseSuspicion, AddressOK
<1>9. QED
  BY <1>1, <1>2, <1>3, <1>4, <1>5, <1>6, <1>7, <1>8 DEF Next

\* The invariant holds of every behaviour.
LEMMA SchedInvariant == Spec => []SchedInv
BY SchedInit, SchedStep, PTL DEF Spec

-----------------------------------------------------------------------------
\* The least loaded workers that select_worker reaches after w.
Behind(q, w) ==
    {v \in LeastLoaded : \E a, b \in 1..Len(q) : a < b /\ q[a] = w /\ q[b] = v}

\* A worker has been passed over by no more selections than there are least
\* loaded workers behind it; a queue that is due to be rebuilt has passed over
\* nobody since the registry changed.
RotationOK ==
    /\ Len(queue) # Cardinality(Active) => \A w \in Workers : waits[w] = 0
    /\ InQueue = Active =>
          /\ last \in Workers => last \in LeastLoaded
          /\ \A w \in LeastLoaded : waits[w] <= Cardinality(Behind(queue, w))

\* Sets of least loaded workers are finite.
LEMMA LeastLoadedFinite ==
    ASSUME NEW S \in SUBSET LeastLoaded
    PROVE  IsFiniteSet(S) /\ Cardinality(S) \in Nat /\ S \subseteq Workers
<1>1. S \subseteq Workers
  BY DEF LeastLoaded, Active
<1>2. QED
  BY <1>1, SchedulerAssumption, FS_Subset, FS_CardinalityType

\* Some Active worker has the least load, if any is Active.
LEMMA LeastLoadedExists ==
    ASSUME TypeOK, Active # {}
    PROVE  LeastLoaded # {}
<1> DEFINE loads == {ComputeLoad(w) : w \in Active}
<1>1. \A w \in Active : ComputeLoad(w) \in Nat
  <2> SUFFICES ASSUME NEW w \in Active PROVE ComputeLoad(w) \in Nat
    OBVIOUS
  <2>1. metrics[w] \in Nat \X Nat
    BY SchedulerAssumption DEF TypeOK, Active
  <2>2. QED
    BY <2>1 DEF ComputeLoad
<1>2. loads \subseteq Nat /\ loads # {}
  BY <1>1
<1>3. PICK least \in loads : \A h \in loads : least <= h
  BY <1>2, FirstExists
<1>4. PICK w \in Active : least = ComputeLoad(w)
  BY <1>3
<1>5. \A v \in Active : ComputeLoad(w) <= ComputeLoad(v)
  BY <1>3, <1>4
<1>6. QED
  BY <1>4, <1>5 DEF LeastLoaded

\* The walk of select_worker over a queue of the Active workers ends at the
\* first least loaded one.
LEMMA FirstHit ==
    ASSUME TypeOK, Active # {}, NEW q \in Seq(Workers), Len(q) > 0,
           Active = {q[a] : a \in 1..Len(q)}
    PROVE  /\ Steps(q) \in 1..Len(q) /\ q[Steps(q)] \in LeastLoaded
           /\ \A a \in 1..Len(q) : q[a] \in LeastLoaded => Steps(q) <= a
<1> DEFINE hits == {a \in 1..Len(q) : q[a] \in LeastLoaded}
<1>1. Len(q) \in Nat
  BY LenProperties
<1>2. hits # {}
  <2>1. PICK w \in LeastLoaded : TRUE
    BY LeastLoadedExists
  <2>2. w \in Active
    BY DEF LeastLoaded
  <2>3. PICK a \in 1..Len(q) : w = q[a]
    BY <2>2
  <2>4. QED
    BY <2>1, <2>3
<1>3. hits \subseteq 1..Len(q) /\ hits \subseteq Nat
  BY <1>1
<1>4. Steps(q) = CHOOSE a \in hits : \A h \in hits : a <= h
  BY <1>2 DEF Steps
<1>5. \E a \in hits : \A h \in hits : a <= h
  <2> HIDE DEF hits
  <2>1. QED
    BY <1>2, <1>3, FirstExists
<1>6. Steps(q) \in hits /\ \A h \in hits : Steps(q) <= h
  BY <1>4, <1>5
<1>7. QED
  BY <1>6

\* A selection adds the worker it picks to those behind each other least
\* loaded one.
LEMMA BehindGrows ==
    ASSUME TypeOK, Active # {}, NEW q \in Seq(Workers), Len(q) > 0,
           \A a, b \in 1..Len(q) : q[a] = q[b] => a = b,
           Active = {q[a] : a \in 1..Len(q)},
           NEW w \in LeastLoaded, w # q[Steps(q)]
    PROVE  Cardinality(Behind(q, w)) + 1 <= Cardinality(Behind(Rotated(q, Steps(q)), w))
<1> DEFINE k == Steps(q)
           n == Len(q)
           turned == Rotated(q, k)
           old == Behind(q, w)
           new == Behind(turned, w)
<1>1. /\ k \in 1..n /\ q[k] \in LeastLoaded
      /\ \A a \in 1..n : q[a] \in LeastLoaded => k <= a
  BY FirstHit
<1>2. n \in Nat
  BY LenProperties
<1>3. /\ Len(turned) = n
      /\ \A a \in 1..(n - k) : turned[a] = q[a + k]
      /\ \A a \in 1..k : turned[n - k + a] = q[a]
  BY <1>1, RotatedPlaces
<1> HIDE DEF k, turned
<1>4. PICK p \in 1..n : w = q[p]
  <2>1. w \in Active
    BY DEF LeastLoaded
  <2>2. QED
    BY <2>1
<1>5. p > k
  <2>1. k <= p
    BY <1>1, <1>4
  <2>2. p # k
    BY <1>1, <1>4 DEF k
  <2>3. QED
    BY <1>1, <1>2, <2>1, <2>2
<1>6. p - k \in 1..(n - k) /\ (p - k) + k = p
  BY <1>1, <1>2, <1>5
<1>7. turned[p - k] = w
  BY <1>3, <1>4, <1>6
<1>8. turned[n] = q[k] /\ n \in 1..n /\ p - k < n
  <2>1. n - k + k = n /\ k \in 1..k /\ n \in 1..n /\ p - k < n
    BY SMTT(30), <1>1, <1>2, <1>6
  <2>2. turned[n - k + k] = q[k]
    BY <1>3, <2>1
  <2>3. QED
    BY <2>1, <2>2
<1>9. q[k] \in new
  <2>1. p - k \in 1..n
    BY <1>1, <1>2, <1>6
  <2>2. \E a, b \in 1..Len(turned) : a < b /\ turned[a] = w /\ turned[b] = q[k]
    BY <1>3, <1>7, <1>8, <2>1
  <2>3. QED
    BY <1>1, <2>2 DEF Behind
<1>10. q[k] \notin old
  <2> SUFFICES ASSUME q[k] \in old PROVE FALSE
    OBVIOUS
  <2>1. PICK a \in 1..n, b \in 1..n : a < b /\ q[a] = w /\ q[b] = q[k]
    BY DEF Behind
  <2>2. a = p /\ b = k
    BY <1>1, <1>4, <2>1
  <2>3. QED
    BY <1>1, <1>2, <1>5, <2>1, <2>2
<1>11. ASSUME NEW v \in old PROVE v \in new
  <2>1. PICK a \in 1..n, b \in 1..n : a < b /\ q[a] = w /\ q[b] = v
    BY DEF Behind
  <2>2. a = p
    BY <1>4, <2>1
  <2>3. /\ b - k \in 1..(n - k) /\ (b - k) + k = b /\ p - k < b - k
        /\ b - k \in 1..n /\ p - k \in 1..n
    BY <1>1, <1>2, <1>5, <2>1, <2>2
  <2>4. turned[b - k] = v
    BY <1>3, <2>1, <2>3
  <2>5. \E x, y \in 1..Len(turned) : x < y /\ turned[x] = w /\ turned[y] = v
    BY <1>3, <1>7, <2>3, <2>4
  <2>6. v \in LeastLoaded
    BY DEF Behind
  <2>7. QED
    BY <2>5, <2>6 DEF Behind
<1>12. old \in SUBSET LeastLoaded /\ new \in SUBSET LeastLoaded
  BY DEF Behind
<1> HIDE DEF old, new
<1>13. IsFiniteSet(old) /\ IsFiniteSet(new) /\ Cardinality(old) \in Nat
  BY <1>12, LeastLoadedFinite
<1>14. Cardinality(old \cup {q[k]}) = Cardinality(old) + 1
  BY <1>10, <1>13, FS_AddElement
<1>15. Cardinality(old \cup {q[k]}) <= Cardinality(new)
  <2>1. old \cup {q[k]} \subseteq new
    BY <1>9, <1>11
  <2>2. QED
    BY <1>13, <2>1, FS_Subset
<1>16. QED
  BY <1>14, <1>15 DEF old, new, turned, k

\* The rotation is fair initially, and every step keeps it so.
LEMMA RotationInit == Init => RotationOK
<1> SUFFICES ASSUME Init PROVE RotationOK
  OBVIOUS
<1>1. Active = {} /\ LeastLoaded = {}
  BY DEF Init, Active, LeastLoaded
<1>2. QED
  BY <1>1, SchedulerAssumption DEF Init, RotationOK

\* Every step keeps the bounds on how long a worker is passed over.
LEMMA RotationStep == SchedInv /\ RotationOK /\ [Next]_vars => RotationOK'
<1> SUFFICES ASSUME SchedInv, RotationOK, [Next]_vars PROVE RotationOK'
  OBVIOUS
<1> USE SchedulerAssumption DEF SchedInv
<1>1. ASSUME Changed PROVE RotationOK'
  <2>1. \A w \in Workers : waits'[w] = 0
    BY <1>1 DEF Changed
  <2>2. last' \notin Workers
    BY <1>1 DEF Changed
  <2>3. ASSUME NEW w \in LeastLoaded' PROVE waits'[w] <= Cardinality(Behind(queue, w)')
    <3>1. Behind(queue, w)' \subseteq Workers /\ w \in Workers
      BY DEF Behind, LeastLoaded, Active
    <3>2. Cardinality(Behind(queue, w)') \in Nat
      BY <3>1, FS_Subset, FS_CardinalityType
    <3>3. QED
      BY <2>1, <3>1, <3>2
  <2>4. QED
    BY <2>1, <2>2, <2>3 DEF RotationOK
<1>2. ASSUME UNCHANGED <<status, metrics, queue, last, waits>> PROVE RotationOK'
  <2>1. Active' = Active /\ InQueue' = InQueue
    BY <1>2 DEF Active, InQueue
  <2>2. LeastLoaded' = LeastLoaded
    BY <1>2, <2>1 DEF LeastLoaded, ComputeLoad
  <2>3. \A w : Behind(queue, w)' = Behind(queue, w)
    BY <1>2, <2>2 DEF Behind
  <2>4. QED
    BY <1>2, <2>1, <2>2, <2>3 DEF RotationOK
<1>3. ASSUME NEW w \in Workers, AddWorker(w) \/ Die(w) PROVE RotationOK'
  BY <1>1, <1>2, <1>3 DEF AddWorker, Die
<1>4. ASSUME NEW w \in Workers, NEW m \in Metrics, RecordHeartbeat(w, m) PROVE RotationOK'
  BY <1>1, <1>4 DEF RecordHeartbeat
<1>5. ASSUME MarkStaleWorkers PROVE RotationOK'
  <2>1. CASE status' = status
    BY <1>2, <1>5, <2>1 DEF MarkStaleWorkers
  <2>2. CASE status' # status
    BY <1>1, <1>5, <2>2 DEF MarkStaleWorkers
  <2>3. QED
    BY <2>1, <2>2
<1>6. ASSUME MasterRestarts \/ Tick PROVE RotationOK'
  BY <1>1, <1>2, <1>6 DEF MasterRestarts, Tick
<1>7. ASSUME SelectWorker PROVE RotationOK'
  <2>0. UNCHANGED <<status, metrics>> /\ Active' = Active /\ LeastLoaded' = LeastLoaded
    BY <1>7 DEF SelectWorker, Active, LeastLoaded, ComputeLoad
  <2>1. CASE Active = {}
    <3>1. last' = None /\ UNCHANGED <<queue, waits>>
      BY <1>7, <2>1 DEF SelectWorker
    <3>2. LeastLoaded' = {}
      BY <2>0, <2>1 DEF LeastLoaded
    <3>3. QED
      BY <2>0, <3>1, <3>2 DEF RotationOK
  <2>2. CASE Active # {}
    <3>1. PICK q \in IF Len(queue) = Cardinality(Active) THEN {queue} ELSE Orders(Active) :
             queue' = Rotated(q, Steps(q)) /\ last' = q[Steps(q)]
      BY <1>7, <2>2 DEF SelectWorker
    <3>2. waits' = [w \in Workers |->
                       IF w = last' THEN 0
                       ELSE IF waits[w] < Cardinality(Workers) THEN waits[w] + 1
                       ELSE waits[w]]
      BY <1>7, <2>2 DEF SelectWorker
    <3>3. /\ q \in Seq(Workers) /\ Len(q) > 0 /\ Len(q) \in Nat
          /\ \A a, b \in 1..Len(q) : q[a] = q[b] => a = b
      BY <2>2, WalkedQueue, LenProperties
    <3>4. Steps(q) \in 1..Len(q)
      BY <3>3, StepsInRange
    <3>5. Len(q) = Cardinality(Active)
      <4>1. Cardinality(Active) \in Nat
        BY FS_Subset, FS_CardinalityType DEF Active
      <4>2. QED
        BY <4>1 DEF Orders
    <3> DEFINE k == Steps(q)
               n == Len(q)
    <3>6. /\ Len(queue') = n
          /\ \A a \in 1..(n - k) : queue'[a] = q[a + k]
          /\ \A a \in 1..k : queue'[n - k + a] = q[a]
      BY ZenonT(60), <3>1, <3>3, <3>4, RotatedPlaces
    <3>7. Len(queue') = Cardinality(Active')
      BY <2>0, <3>5, <3>6
    <3>8. ASSUME InQueue' = Active'
          PROVE  /\ last' \in Workers => last' \in LeastLoaded'
                 /\ \A w \in LeastLoaded' : waits'[w] <= Cardinality(Behind(queue, w)')
      <4>1. Active = {q[a] : a \in 1..n}
        <5>1. InQueue' = {queue'[a] : a \in 1..n}
          BY <3>6 DEF InQueue
        <5>2. \A a \in 1..n : \E b \in 1..n : queue'[a] = q[b]
          <6> DEFINE turned == Rotated(q, Steps(q))
          <6>1. \A a \in 1..Len(turned) : \E b \in 1..Len(q) : turned[a] = q[b]
            BY <3>3, <3>4, RotatedOK
          <6>2. QED
            BY <3>1, <3>6, <6>1
        <5>3. ASSUME NEW a \in 1..n PROVE \E b \in 1..n : queue'[b] = q[a]
          <6>1. CASE a <= k
            <7>1. n - k + a \in 1..n /\ a \in 1..k
              BY <3>3, <3>4, <6>1
            <7>2. QED
              BY <3>6, <7>1
          <6>2. CASE ~(a <= k)
            <7>1. a - k \in 1..n /\ a - k \in 1..(n - k) /\ (a - k) + k = a
              BY <3>3, <3>4, <6>2
            <7>2. QED
              BY <3>6, <7>1
          <6>3. QED
            BY <6>1, <6>2
        <5>4. InQueue' = {q[a] : a \in 1..n}
          <6> HIDE DEF n, k
          <6>1. \A v : v \in {queue'[a] : a \in 1..n} <=> \E a \in 1..n : v = queue'[a]
            OBVIOUS
          <6>2. \A v : v \in {q[a] : a \in 1..n} <=> \E a \in 1..n : v = q[a]
            OBVIOUS
          <6>3. {queue'[a] : a \in 1..n} = {q[a] : a \in 1..n}
            BY ZenonT(60), <5>2, <5>3, <6>1, <6>2
          <6>4. QED
            BY <5>1, <6>3
        <5>5. QED
          BY <2>0, <3>8, <5>4
      <4>2. last' \in LeastLoaded'
        BY <2>0, <2>2, <3>1, <3>3, <4>1, FirstHit
      <4>3. ASSUME NEW w \in LeastLoaded' PROVE waits'[w] <= Cardinality(Behind(queue, w)')
        <5>0. w \in LeastLoaded /\ w \in Workers
          BY <2>0 DEF LeastLoaded, Active
        <5>1. Behind(queue, w)' = Behind(queue', w)
          BY <2>0 DEF Behind
        <5>2. Behind(queue', w) \in SUBSET LeastLoaded /\ Behind(q, w) \in SUBSET LeastLoaded
          BY DEF Behind
        <5>3. Cardinality(Behind(queue', w)) \in Nat /\ Cardinality(Behind(q, w)) \in Nat
          BY <5>2, LeastLoadedFinite
        <5>4. CASE w = last'
          <6>1. waits'[w] = 0
            BY <3>2, <5>0, <5>4
          <6>2. QED
            BY <5>1, <5>3, <6>1
        <5>5. CASE w # last'
          <6>1. waits[w] <= Cardinality(Behind(q, w))
            <7>1. CASE Len(queue) = Cardinality(Active)
              <8>1. q = queue
                BY <7>1
              <8>2. InQueue = Active
                BY <4>1, <8>1 DEF InQueue
              <8>3. QED
                BY <5>0, <8>1, <8>2 DEF RotationOK
            <7>2. CASE Len(queue) # Cardinality(Active)
              BY <5>0, <5>3, <7>2 DEF RotationOK
            <7>3. QED
              BY <7>1, <7>2
          <6>2. Cardinality(Behind(q, w)) + 1 <= Cardinality(Behind(queue', w))
            BY <2>2, <3>1, <3>3, <4>1, <5>0, <5>5, BehindGrows
          <6>3. waits[w] \in Nat /\ waits'[w] <= waits[w] + 1 /\ waits'[w] \in Nat
            <7>1. waits[w] \in 0..Cardinality(Workers) /\ Cardinality(Workers) \in Nat
              BY <5>0, FS_CardinalityType DEF TypeOK
            <7>2. QED
              BY <3>2, <5>0, <5>5, <7>1
          <6>4. QED
            BY <5>1, <5>3, <6>1, <6>2, <6>3
        <5>6. QED
          BY <5>4, <5>5
      <4>4. QED
        BY <4>2, <4>3
    <3>9. QED
      BY <3>7, <3>8 DEF RotationOK
  <2>3. QED
    BY <2>1, <2>2
<1>8. CASE UNCHANGED vars
  BY <1>2, <1>8 DEF vars
<1>9. QED
  BY <1>3, <1>4, <1>5, <1>6, <1>7, <1>8 DEF Next

-----------------------------------------------------------------------------
\* The variables of registry, watchdog and scheduler keep their types.
THEOREM SchedulerTypeCorrect == Spec => []TypeOK
<1>1. SchedInv => TypeOK
  BY DEF SchedInv
<1>2. QED
  BY <1>1, SchedInvariant, PTL

\* The pop_front and push_back of select_worker neither lose nor repeat an
\* entry, and every entry is known to the registry.
THEOREM QueueIsSound == Spec => []QueueSound
<1>1. SchedInv => QueueSound
  BY DEF SchedInv
<1>2. QED
  BY <1>1, SchedInvariant, PTL

\* What schedule_task relies on when it unwraps a selection.
THEOREM SelectionContract == Spec => []SelectContract
<1>1. SchedInv => SelectContract
  BY DEF SchedInv
<1>2. QED
  BY <1>1, SchedInvariant, PTL

\* select_worker picks a least loaded worker and gives each of them its turn
\* within a round, for as long as its queue lists the Active workers.
THEOREM RotationIsFair == Spec => []FairRotation
<1>1. SchedInv /\ RotationOK => FairRotation
  <2> SUFFICES ASSUME SchedInv, RotationOK, InQueue = Active,
                      NEW w \in LeastLoaded
               PROVE  waits[w] < Cardinality(LeastLoaded)
    BY DEF RotationOK, FairRotation
  <2> DEFINE behind == Behind(queue, w)
             all == LeastLoaded
  <2>1. w \notin behind
    BY LenProperties DEF SchedInv, TypeOK, QueueSound, Behind
  <2>2. behind \in SUBSET LeastLoaded /\ waits[w] <= Cardinality(behind)
    BY DEF Behind, RotationOK
  <2> HIDE DEF behind
  <2>3. /\ IsFiniteSet(behind) /\ Cardinality(behind) \in Nat
        /\ IsFiniteSet(all) /\ Cardinality(all) \in Nat
    BY <2>2, LeastLoadedFinite
  <2>4. Cardinality(behind \cup {w}) = Cardinality(behind) + 1
    BY <2>1, <2>3, FS_AddElement
  <2>5. Cardinality(behind \cup {w}) <= Cardinality(all)
    <3>1. behind \cup {w} \subseteq all
      BY <2>2
    <3>2. QED
      BY <2>3, <3>1, FS_Subset
  <2>6. waits[w] \in Nat
    <3>1. w \in Workers /\ Cardinality(Workers) \in Nat
      BY FS_CardinalityType, SchedulerAssumption DEF LeastLoaded, Active
    <3>2. QED
      BY <3>1 DEF SchedInv, TypeOK
  <2>7. QED
    BY <2>2, <2>3, <2>4, <2>5, <2>6
<1>2. Spec => []RotationOK
  BY RotationInit, RotationStep, SchedInvariant, PTL DEF Spec
<1>3. QED
  BY <1>1, <1>2, SchedInvariant, PTL

\* mark_stale_workers, run every second interval, is at most four intervals late.
THEOREM DetectionIsBounded == Spec => []DetectionBound
<1>1. SchedInv => DetectionBound
  BY SchedulerAssumption DEF SchedInv, TypeOK, AgeOK, DetectionBound, Active, Grace, Period
<1>2. QED
  BY <1>1, SchedInvariant, PTL

\* Heartbeats at most an interval late keep mark_stale_workers from marking a
\* live worker Down.
THEOREM NoWrongSuspicion == Spec => []NoFalseSuspicion
<1>1. SchedInv => NoFalseSuspicion
  BY DEF SchedInv
<1>2. QED
  BY <1>1, SchedInvariant, PTL

\* record_heartbeat never replaces the address a worker registered with.
THEOREM AddressIsAdvertised == Spec => []AdvertisedAddressUsed
<1>1. SchedInv => AdvertisedAddressUsed
  BY DEF SchedInv, SelectContract, AddressOK, AdvertisedAddressUsed
<1>2. QED
  BY <1>1, SchedInvariant, PTL

=============================================================================
