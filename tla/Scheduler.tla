------------------------------ MODULE Scheduler ------------------------------
(***************************************************************************)
(* The worker registry, the watchdog that ages it, and the round-robin     *)
(* scheduler that picks a worker from it.  Time is discrete: one Tick is   *)
(* one unit in which the heartbeat interval is Interval units.  Module     *)
(* Master uses only the contract of select_worker stated here.             *)
(***************************************************************************)
EXTENDS Integers, Sequences, FiniteSets

CONSTANTS
    Workers,    \* worker ids
    None,       \* select_worker found nobody
    NoPick,     \* no selection since the registry last changed
    Metrics,    \* <<tasks_in_flight, cpu_pct>> pairs a heartbeat may carry
    Interval,   \* heartbeat_interval_ms in units of time
    Delay       \* bound: how late a heartbeat of a live worker arrives

\* garbage_collect_workers and spawn_watchdog use the same constant.
Grace == 2 * Interval
Period == 2 * Interval

ASSUME SchedulerAssumption ==
    /\ None \notin Workers /\ NoPick \notin Workers /\ None # NoPick
    /\ Metrics \subseteq Nat \X Nat /\ <<0, 0>> \in Metrics
    /\ Interval \in Nat /\ Interval > 0 /\ Delay \in Nat
    /\ IsFiniteSet(Workers)

VARIABLES
    alive,      \* the worker process runs and sends heartbeats
    status,     \* registry: status of each worker, "Unknown" if not there
    metrics,    \* registry: metrics of the last heartbeat
    age,        \* registry: time since the last heartbeat of an Active worker
    address,    \* registry: where tasks for each worker are posted
    joined,     \* history: workers that registered with this master process
    timer,      \* time since the watchdog last ran
    queue,      \* RoundRobinScheduler.queue
    last,       \* what the last select_worker returned
    waits       \* history: selections in a row that passed over a worker

vars == <<alive, status, metrics, age, address, joined, timer, queue, last, waits>>

-----------------------------------------------------------------------------
\* available_workers
Active == {w \in Workers : status[w] = "Active"}

\* compute_load
ComputeLoad(w) == metrics[w][1] * 2 + metrics[w][2]

LeastLoaded == {w \in Active : \A v \in Active : ComputeLoad(w) <= ComputeLoad(v)}

\* Sequences that list a set once each: the orders its HashMap may have.
Orders(S) == {q \in [1..Cardinality(S) -> S] :
                 \A a, b \in 1..Cardinality(S) : q[a] = q[b] => a = b}

InQueue == {queue[k] : k \in 1..Len(queue)}

\* Mutants of Rotated: push_back without pop_front; no rotation at all.
RotatedKeepingFront(q, k) == q \o SubSeq(q, 1, k)
RotatedNot(q, k) == q

\* pop_front and push_back, k times.
Rotated(q, k) == SubSeq(q, k + 1, Len(q)) \o SubSeq(q, 1, k)

\* How far select_worker rotates q: to the first eligible worker, or, when
\* the whole round finds none, one more place.
Steps(q) ==
    LET hits == {k \in 1..Len(q) : q[k] \in LeastLoaded}
    IN  IF hits = {} THEN 1
        ELSE CHOOSE k \in hits : \A h \in hits : k <= h

-----------------------------------------------------------------------------
Init ==
    /\ alive = [w \in Workers |-> FALSE]
    /\ status = [w \in Workers |-> "Unknown"]
    /\ metrics = [w \in Workers |-> <<0, 0>>]
    /\ age = [w \in Workers |-> 0]
    /\ address = [w \in Workers |-> "None"]
    /\ joined = {}
    /\ timer = Period
    /\ queue = <<>>
    /\ last = NoPick
    /\ waits = [w \in Workers |-> 0]

\* The registry changed: what was picked before was picked from another one.
Changed == last' = NoPick /\ waits' = [w \in Workers |-> 0]

\* add_worker; metrics start at their default, the address is the one the
\* worker advertises.
AddWorker(w) ==
    /\ ~alive[w]
    /\ alive' = [alive EXCEPT ![w] = TRUE]
    /\ status' = [status EXCEPT ![w] = "Active"]
    /\ metrics' = [metrics EXCEPT ![w] = <<0, 0>>]
    /\ age' = [age EXCEPT ![w] = 0]
    /\ address' = [address EXCEPT ![w] = "Advertised"]
    /\ joined' = joined \cup {w}
    /\ Changed
    /\ UNCHANGED <<timer, queue>>

\* Mutant of RecordHeartbeat: every heartbeat updates the address.
RecordHeartbeatAddress(w, m) ==
    /\ alive[w]
    /\ status' = [status EXCEPT ![w] = "Active"]
    /\ metrics' = [metrics EXCEPT ![w] = m]
    /\ age' = [age EXCEPT ![w] = 0]
    /\ address' = [address EXCEPT ![w] = "Listen"]
    /\ Changed
    /\ UNCHANGED <<alive, joined, timer, queue>>

\* record_heartbeat; a worker the registry does not know is inserted, with the
\* address in the heartbeat, which is the one the worker listens on.
RecordHeartbeat(w, m) ==
    /\ alive[w]
    /\ status' = [status EXCEPT ![w] = "Active"]
    /\ metrics' = [metrics EXCEPT ![w] = m]
    /\ age' = [age EXCEPT ![w] = 0]
    /\ address' = [address EXCEPT ![w] = IF status[w] = "Unknown" THEN "Listen" ELSE @]
    /\ Changed
    /\ UNCHANGED <<alive, joined, timer, queue>>

\* The process dies and falls silent.
Die(w) ==
    /\ alive[w]
    /\ alive' = [alive EXCEPT ![w] = FALSE]
    /\ UNCHANGED <<status, metrics, age, address, joined, timer, queue, last, waits>>

\* The master crashes and starts again: registry and scheduler are empty.
MasterRestarts ==
    /\ status' = [w \in Workers |-> "Unknown"]
    /\ metrics' = [w \in Workers |-> <<0, 0>>]
    /\ age' = [w \in Workers |-> 0]
    /\ address' = [w \in Workers |-> "None"]
    /\ joined' = {}
    /\ timer' = Period
    /\ queue' = <<>>
    /\ Changed
    /\ UNCHANGED alive

\* Mutants of MarkStaleWorkers: a deadline of twice the grace period, and of
\* one heartbeat interval.
MarkStaleAfter(deadline) ==
    /\ timer = Period
    /\ timer' = 0
    /\ status' = [w \in Workers |->
                     IF status[w] = "Active" /\ age[w] > deadline THEN "Down"
                     ELSE status[w]]
    /\ age' = [w \in Workers |-> IF status'[w] = "Active" THEN age[w] ELSE 0]
    /\ Changed
    /\ UNCHANGED <<alive, metrics, address, joined, queue>>
MarkStaleLate == MarkStaleAfter(2 * Grace)
MarkStaleEarly == MarkStaleAfter(Interval)

\* mark_stale_workers, run by the watchdog every Period.
MarkStaleWorkers ==
    /\ timer = Period
    /\ timer' = 0
    /\ status' = [w \in Workers |->
                     IF status[w] = "Active" /\ age[w] > Grace THEN "Down"
                     ELSE status[w]]
    /\ age' = [w \in Workers |-> IF status'[w] = "Active" THEN age[w] ELSE 0]
    /\ IF status' = status THEN UNCHANGED <<last, waits>> ELSE Changed
    /\ UNCHANGED <<alive, metrics, address, joined, queue>>

\* Time passes; the watchdog is on time, and a live worker that registered
\* sends within Interval of its last heartbeat, arriving at most Delay later.
Tick ==
    /\ timer < Period
    /\ \A w \in Workers : alive[w] => age[w] < Interval + Delay
    /\ timer' = timer + 1
    /\ age' = [w \in Workers |-> IF status[w] = "Active" THEN age[w] + 1 ELSE 0]
    /\ UNCHANGED <<alive, status, metrics, address, joined, queue, last, waits>>

\* Mutant of SelectWorker: it gives up when a round finds no eligible worker.
SelectWorkerOrGiveUp ==
    /\ \E q \in IF Len(queue) = Cardinality(Active) THEN {queue} ELSE Orders(Active) :
          /\ queue' = q
          /\ last' = IF \E k \in 1..Len(q) : q[k] \in LeastLoaded
                     THEN q[Steps(q)] ELSE None
    /\ UNCHANGED <<alive, status, metrics, age, address, joined, timer, waits>>

\* select_worker.  The queue is rebuilt only when its length is not the
\* number of Active workers.
SelectWorker ==
    IF Active = {}
    THEN /\ last' = None
         /\ UNCHANGED <<alive, status, metrics, age, address, joined, timer, queue, waits>>
    ELSE /\ \E q \in IF Len(queue) = Cardinality(Active) THEN {queue}
                     ELSE Orders(Active) :
               /\ queue' = Rotated(q, Steps(q))
               /\ last' = q[Steps(q)]
         /\ waits' = [w \in Workers |->
                         IF w = last' THEN 0
                         ELSE IF waits[w] < Cardinality(Workers) THEN waits[w] + 1
                         ELSE waits[w]]
         /\ UNCHANGED <<alive, status, metrics, age, address, joined, timer>>

Next ==
    \/ \E w \in Workers : AddWorker(w) \/ Die(w)
    \/ \E w \in Workers, m \in Metrics : RecordHeartbeat(w, m)
    \/ MarkStaleWorkers
    \/ MasterRestarts
    \/ Tick
    \/ SelectWorker

Spec == Init /\ [][Next]_vars

-----------------------------------------------------------------------------
\* The values of the variables.
TypeOK ==
    /\ alive \in [Workers -> BOOLEAN]
    /\ status \in [Workers -> {"Unknown", "Active", "Down"}]
    /\ metrics \in [Workers -> Metrics]
    /\ age \in [Workers -> Nat]
    /\ address \in [Workers -> {"None", "Advertised", "Listen"}]
    /\ joined \in SUBSET Workers
    /\ timer \in 0..Period
    /\ queue \in Seq(Workers)
    /\ last \in Workers \cup {None, NoPick}
    /\ waits \in [Workers -> 0..Cardinality(Workers)]

\* The rotation never loses or duplicates an entry, and every entry is a
\* worker the registry has seen, whatever joined or left since it was built.
QueueSound ==
    /\ \A a, b \in 1..Len(queue) : queue[a] = queue[b] => a = b
    /\ \A a \in 1..Len(queue) : status[queue[a]] # "Unknown"

\* What schedule_task relies on: nobody is selected exactly when nobody is
\* Active, and a selected worker is in the registry, so that get_worker
\* finds its address.
SelectContract ==
    /\ last = None => Active = {}
    /\ last \in Workers => Active # {} /\ status[last] # "Unknown"

\* While the queue lists the Active workers, the selected one is Active and
\* least loaded, and no least loaded worker is passed over for longer than
\* a round of them.
FairRotation ==
    InQueue = Active =>
        /\ last \in Workers => last \in LeastLoaded
        /\ \A w \in LeastLoaded : waits[w] < Cardinality(LeastLoaded)

\* The watchdog notices a silent worker within the grace period plus one of
\* its own periods: no Active worker is older.
DetectionBound == \A w \in Active : age[w] <= Grace + Period

\* A worker whose heartbeats are at most one interval late is never marked
\* Down.
NoFalseSuspicion ==
    Delay <= Interval => \A w \in Workers : alive[w] => status[w] # "Down"

\* A worker that registered with this master process is sent its tasks at the
\* address it advertised, whatever its heartbeats carry and however often it
\* was marked Down; only a restarted master uses the one it listens on.
AdvertisedAddressUsed ==
    last \in Workers =>
        address[last] = IF last \in joined THEN "Advertised" ELSE "Listen"

\* A worker marked Down is out of the scheduling rotation (README).
SelectedIsActive == last \in Workers => last \in Active

=============================================================================
