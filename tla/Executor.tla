------------------------------ MODULE Executor ------------------------------
(***************************************************************************)
(* The worker's executor: every POST to /tasks/execute is a request whose  *)
(* handler waits for a permit, runs the task on a blocking thread, retries *)
(* it, and reports the result.  The handler is a future: when the master's *)
(* connection breaks it is dropped wherever it stands, while a blocking    *)
(* thread it started runs to its end.  Module Pipeline says what one run   *)
(* of a task does; module Master sees a request from its Dispatch to its   *)
(* Finish, or not at all when it is cancelled.                             *)
(***************************************************************************)
EXTENDS Naturals, Sequences, FiniteSets

CONSTANTS
    Requests,       \* POSTs the worker receives; a task may come twice
    Tasks,
    TaskOf,         \* the task each request carries
    None,
    MaxParallel,    \* max_parallel_tasks
    RetryLimit      \* task_retry_limit

ASSUME ExecutorAssumption ==
    /\ TaskOf \in [Requests -> Tasks]
    /\ None \notin Tasks /\ None \notin {"Completed", "Failed"}
    /\ MaxParallel \in Nat /\ MaxParallel > 0
    /\ RetryLimit \in Nat
    /\ IsFiniteSet(Requests)

VARIABLES
    state,          \* where the handler of a request is
    attempt,        \* attempt, in execute_task
    outcome,        \* status of the result execute_task returned
    permits,        \* available permits of the semaphore
    waiters,        \* handlers waiting for one, first come first served
    threads,        \* requests with a blocking thread at work
    activeTask,     \* active_task, one slot for the whole worker
    completed,      \* tasks_completed
    failed          \* tasks_failed, one per attempt

vars == <<state, attempt, outcome, permits, waiters, threads, activeTask,
          completed, failed>>

States == {"Unsent", "Waiting", "Starting", "Running", "Reporting", "Reported",
           "Cancelled"}
Holds(r) == state[r] \in {"Starting", "Running"}

\* A queue without the place of r, if it has one.
Without(q, r) ==
    LET places == {k \in 1..Len(q) : q[k] = r}
        k == CHOOSE p \in places : TRUE
    IN  IF places = {} THEN q ELSE SubSeq(q, 1, k - 1) \o SubSeq(q, k + 1, Len(q))

-----------------------------------------------------------------------------
Init ==
    /\ state = [r \in Requests |-> "Unsent"]
    /\ attempt = [r \in Requests |-> 0]
    /\ outcome = [r \in Requests |-> None]
    /\ permits = MaxParallel
    /\ waiters = <<>>
    /\ threads = {}
    /\ activeTask = None
    /\ completed = 0
    /\ failed = 0

\* execute_task, the handler: the request queues for a permit.
Accept(r) ==
    /\ state[r] = "Unsent"
    /\ state' = [state EXCEPT ![r] = "Waiting"]
    /\ waiters' = Append(waiters, r)
    /\ UNCHANGED <<attempt, outcome, permits, threads, activeTask, completed, failed>>

\* Mutant of Acquire: no permit is taken.
AcquireNothing(r) ==
    /\ waiters # <<>> /\ Head(waiters) = r
    /\ waiters' = Tail(waiters)
    /\ state' = [state EXCEPT ![r] = "Starting"]
    /\ UNCHANGED <<attempt, outcome, permits, threads, activeTask, completed, failed>>

\* Mutant of Acquire: all permits are taken, of which only one is given back.
AcquireAll(r) ==
    /\ permits = MaxParallel /\ waiters # <<>> /\ Head(waiters) = r
    /\ permits' = 0
    /\ waiters' = Tail(waiters)
    /\ state' = [state EXCEPT ![r] = "Starting"]
    /\ UNCHANGED <<attempt, outcome, threads, activeTask, completed, failed>>

\* acquire_owned: tokio's semaphore serves its waiters in order.
Acquire(r) ==
    /\ permits > 0 /\ waiters # <<>> /\ Head(waiters) = r
    /\ permits' = permits - 1
    /\ waiters' = Tail(waiters)
    /\ state' = [state EXCEPT ![r] = "Starting"]
    /\ UNCHANGED <<attempt, outcome, threads, activeTask, completed, failed>>

\* The head of the retry loop, and execute_once up to its spawn_blocking.
StartAttempt(r) ==
    /\ state[r] = "Starting"
    /\ state' = [state EXCEPT ![r] = "Running"]
    /\ attempt' = [attempt EXCEPT ![r] = @ + 1]
    /\ activeTask' = TaskOf[r]
    /\ threads' = threads \cup {r}
    /\ UNCHANGED <<outcome, permits, waiters, completed, failed>>

\* Mutants of EndAttempt: another limit on the retries, a slot that is not
\* cleared.
EndAttemptWith(r, ok, limit, slot) ==
    /\ state[r] = "Running"
    /\ threads' = threads \ {r}
    /\ completed' = IF ok THEN completed + 1 ELSE completed
    /\ failed' = IF ok THEN failed ELSE failed + 1
    /\ IF ~ok /\ attempt[r] <= limit
       THEN /\ state' = [state EXCEPT ![r] = "Starting"]
            /\ UNCHANGED <<outcome, permits, activeTask>>
       ELSE /\ state' = [state EXCEPT ![r] = "Reporting"]
            /\ outcome' = [outcome EXCEPT ![r] = IF ok THEN "Completed" ELSE "Failed"]
            /\ permits' = permits + 1
            /\ activeTask' = slot
    /\ UNCHANGED <<attempt, waiters>>
EndAttemptEarly(r, ok) == EndAttemptWith(r, ok, RetryLimit - 1, None)
EndAttemptKeepingSlot(r, ok) == EndAttemptWith(r, ok, RetryLimit, activeTask)

\* The thread ends with a result.  A failure is retried while the limit
\* allows; otherwise execute_task clears the slot and returns the result,
\* which releases the permit.
EndAttempt(r, ok) ==
    /\ state[r] = "Running"
    /\ threads' = threads \ {r}
    /\ completed' = IF ok THEN completed + 1 ELSE completed
    /\ failed' = IF ok THEN failed ELSE failed + 1
    /\ \/ /\ ~ok /\ attempt[r] <= RetryLimit
          /\ state' = [state EXCEPT ![r] = "Starting"]
          /\ UNCHANGED <<outcome, permits, activeTask>>
       \/ /\ ok \/ attempt[r] > RetryLimit
          /\ state' = [state EXCEPT ![r] = "Reporting"]
          /\ outcome' = [outcome EXCEPT ![r] = IF ok THEN "Completed" ELSE "Failed"]
          /\ permits' = permits + 1
          /\ activeTask' = None
    /\ UNCHANGED <<attempt, waiters>>

\* execute_and_report: the result is posted once; an error is only logged.
Report(r) ==
    /\ state[r] = "Reporting"
    /\ state' = [state EXCEPT ![r] = "Reported"]
    /\ UNCHANGED <<attempt, outcome, permits, waiters, threads, activeTask,
                   completed, failed>>

\* Mutant of Cancel: the permit of a dropped handler is not released.
CancelLeaking(r) ==
    /\ state[r] \in {"Waiting", "Starting", "Running", "Reporting"}
    /\ state' = [state EXCEPT ![r] = "Cancelled"]
    /\ waiters' = Without(waiters, r)
    /\ UNCHANGED <<attempt, outcome, permits, threads, activeTask, completed, failed>>

\* The connection breaks and the handler is dropped: it leaves the queue, or
\* its permit is released.  Slot and thread stay as they are.
Cancel(r) ==
    /\ state[r] \in {"Waiting", "Starting", "Running", "Reporting"}
    /\ state' = [state EXCEPT ![r] = "Cancelled"]
    /\ permits' = IF Holds(r) THEN permits + 1 ELSE permits
    /\ waiters' = Without(waiters, r)
    /\ UNCHANGED <<attempt, outcome, threads, activeTask, completed, failed>>

\* The thread of a dropped handler ends and nobody takes its result.
OrphanEnds(r) ==
    /\ state[r] = "Cancelled" /\ r \in threads
    /\ threads' = threads \ {r}
    /\ UNCHANGED <<state, attempt, outcome, permits, waiters, activeTask,
                   completed, failed>>

\* snapshot_metrics: tasks_in_flight, which the scheduler turns into load.
TasksInFlight == MaxParallel - permits

Step(r) == Acquire(r) \/ StartAttempt(r) \/ Report(r)
           \/ \E ok \in BOOLEAN : EndAttempt(r, ok)

Next == \E r \in Requests : Accept(r) \/ Step(r) \/ Cancel(r) \/ OrphanEnds(r)

Spec == Init /\ [][Next]_vars

-----------------------------------------------------------------------------
\* The values of the variables.
TypeOK ==
    /\ state \in [Requests -> States]
    /\ attempt \in [Requests -> 0..(RetryLimit + 1)]
    /\ outcome \in [Requests -> {"Completed", "Failed", None}]
    /\ permits \in 0..MaxParallel
    /\ waiters \in Seq(Requests)
    /\ threads \in SUBSET Requests
    /\ activeTask \in Tasks \cup {None}
    /\ completed \in Nat /\ failed \in Nat

\* No permit is lost or minted, whatever is dropped: the load a heartbeat
\* reports is the number of handlers at work.
InFlightExact == TasksInFlight = Cardinality({r \in Requests : Holds(r)})

\* Threads exceed max_parallel_tasks only by those of dropped handlers.
ParallelBound ==
    /\ Cardinality({r \in threads : state[r] # "Cancelled"}) <= MaxParallel
    /\ \A r \in threads : state[r] \in {"Running", "Cancelled"}

\* A failure is returned only after every retry, and tasks_completed counts a
\* request that succeeds once, however many attempts it took.
RetriesExhausted ==
    /\ \A r \in Requests : outcome[r] = "Failed" => attempt[r] = RetryLimit + 1
    /\ completed = Cardinality({r \in Requests : outcome[r] = "Completed"})

\* The task a heartbeat names as current is at work, or was dropped.
CurrentTaskReal ==
    activeTask # None =>
        \E r \in Requests : TaskOf[r] = activeTask
                            /\ state[r] \in {"Starting", "Running", "Cancelled"}

\* Every request that arrives is answered, unless its connection breaks.
EveryRequestReported ==
    \A r \in Requests : (state[r] = "Waiting") ~> (state[r] \in {"Reported", "Cancelled"})

=============================================================================
