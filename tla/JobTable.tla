------------------------------ MODULE JobTable ------------------------------
(***************************************************************************)
(* What the rows of state.db promise whoever reads them: a job, its tasks, *)
(* their results and the job's status appear in an order from which the    *)
(* job can be resumed.  No mutexes, passes, workers or processes: module   *)
(* Master implements this with all of them.  Once a statement has failed   *)
(* (faulty), the table promises less.                                      *)
(***************************************************************************)
EXTENDS Naturals

CONSTANTS Jobs, MaxParts, Outcomes, None

VARIABLES
    status,     \* status of each job, "Absent" without a row
    size,       \* partitions of its stored DAG
    rows,       \* tasks that have a row
    result,     \* result of each task, or None
    faulty      \* a statement has failed

vars == <<status, size, rows, result, faulty>>

RowsOf(j) == {t \in rows : t[1] = j}

Init ==
    /\ status = [j \in Jobs |-> "Absent"]
    /\ size = [j \in Jobs |-> 0]
    /\ rows = {}
    /\ result = [t \in Jobs \X (1..MaxParts) |-> None]
    /\ faulty = FALSE

\* A job comes first, with its whole DAG.
Create(j, n) ==
    /\ status[j] = "Absent"
    /\ status' = [status EXCEPT ![j] = "Accepted"]
    /\ size' = [size EXCEPT ![j] = n]
    /\ UNCHANGED <<rows, result, faulty>>

\* Its tasks are added while it is Accepted, each once.
AddTask(j, p) ==
    /\ status[j] = "Accepted" /\ p <= size[j] /\ <<j, p>> \notin rows
    /\ rows' = rows \cup {<<j, p>>}
    /\ UNCHANGED <<status, size, result, faulty>>

\* A result is stored, perhaps over an earlier one.
Record(t, r) ==
    /\ status[t[1]] # "Absent"
    /\ rows' = rows \cup {t}
    /\ result' = [result EXCEPT ![t] = r]
    /\ UNCHANGED <<status, size, faulty>>

\* The status changes; the DAG is the one that was submitted.
Update(j, s) ==
    /\ status[j] # "Absent"
    /\ status' = [status EXCEPT ![j] = s]
    /\ \E n \in 0..MaxParts : size' = [size EXCEPT ![j] = n] /\ (faulty \/ n = size[j])
    /\ UNCHANGED <<rows, result, faulty>>

\* A job that runs has a task; a job that fails has a failed one; a job that
\* succeeds has a result of each of its tasks.
Run(j) == Update(j, "Running") /\ (faulty \/ RowsOf(j) # {})
Fail(j) == Update(j, "Failed") /\ \E p \in 1..MaxParts : result[<<j, p>>] = "Failed"
Succeed(j) == Update(j, "Succeeded") /\ (faulty \/ \A t \in RowsOf(j) : result[t] # None)

\* A statement fails and changes nothing.
Fault == faulty' = TRUE /\ UNCHANGED <<status, size, rows, result>>

Next ==
    \/ \E j \in Jobs, n \in 0..MaxParts : Create(j, n)
    \/ \E j \in Jobs, p \in 1..MaxParts : AddTask(j, p)
    \/ \E t \in Jobs \X (1..MaxParts), r \in Outcomes : Record(t, r)
    \/ \E j \in Jobs : Run(j) \/ Fail(j) \/ Succeed(j)
    \/ Fault

Spec == Init /\ [][Next]_vars

=============================================================================
