------------------------------- MODULE Master -------------------------------
(***************************************************************************)
(* The master of the distributed processing engine: its jobs map, the      *)
(* SQLite state store it writes through, the scheduling passes that run    *)
(* concurrently in it, and the workers and the network as far as the       *)
(* master can tell them apart.                                             *)
(*                                                                         *)
(* A job is one DAG; it has one task per partition, each of which carries  *)
(* the whole pipeline (materialize_tasks).  A task's partition is the      *)
(* second component of its name.  Its id is a hash of the job, of the      *)
(* length of the plan and of the partition, computed anew by every sweep.  *)
(* The length may depend on the order of a HashMap: a ReduceByKey gets a   *)
(* shuffle of its own unless its predecessor in the plan is one already.   *)
(* Where it does, the job is Ambiguous, and a sweep may look for ids that  *)
(* no task of it has.                                                      *)
(*                                                                         *)
(* A "pass" is one thread of control inside the master that schedules      *)
(* tasks: the rest of a submit_job call, or one schedule_all_queued_tasks  *)
(* sweep spawned by a heartbeat or a registration.  Passes share the jobs  *)
(* map under its mutex and release it between the steps of schedule_task,  *)
(* so every critical section, and every disk write outside one, is a step  *)
(* of its own.                                                             *)
(***************************************************************************)
EXTENDS Naturals, FiniteSets

CONSTANTS
    Jobs,           \* the job ids the master may draw
    Ambiguous,      \* those whose DAG has plans of two lengths
    MaxParts,       \* bound: partitions of a DAG
    Workers,        \* worker ids
    Passes,         \* bound: scheduling passes in progress at once
    None,           \* Option::None
    Outcomes,       \* task statuses the workers may report
    MaxCrashes,     \* bound: crashes of the master
    MaxDeaths,      \* bound: deaths of workers
    MaxLosses,      \* bound: POSTs lost between two live processes
    MaxSuspicions,  \* bound: live workers marked Down by the watchdog
    MaxDbErrors     \* bound: SQLite statements that return an error

Tasks == Jobs \X (1..MaxParts)
JobOf(t) == t[1]
TasksOf(j, n) == {j} \X (1..n)

JobStatus == {"Accepted", "Pending", "Running", "Succeeded", "Failed"}
TaskStatus == {"Queued", "Assigned", "Completed", "Failed"}
PassStates == {"Idle", "PersistTasks", "Snapshot", "Select", "Assign",
               "Persist", "Mark", "Dispatch"}

ASSUME MasterAssumption ==
    /\ MaxParts \in Nat
    /\ Ambiguous \subseteq Jobs
    /\ None \notin Tasks /\ None \notin Workers /\ None \notin Jobs
    /\ None \notin TaskStatus /\ None \notin Tasks \X Outcomes
    /\ "Absent" \notin JobStatus /\ "Absent" \notin TaskStatus
    /\ Outcomes \subseteq {"Completed", "Failed"}
    /\ MaxCrashes \in Nat /\ MaxDeaths \in Nat /\ MaxLosses \in Nat
    /\ MaxSuspicions \in Nat /\ MaxDbErrors \in Nat

VARIABLES
    \* memory of the master
    up,         \* the process runs
    jobStatus,  \* jobs[j].status, "Absent" when j is not in the map
    parts,      \* partitions of jobs[j].dag
    task,       \* jobs[j].tasks[t], without the assignee, which nobody reads
    results,    \* how many entries of jobs[j].results are t's
    total,      \* jobs[j].metrics.total_tasks
    completed,  \* jobs[j].metrics.completed_tasks
    completing, \* the report complete_task is at, holding the jobs mutex
    reg,        \* the registry: status of each worker it knows
    \* the passes
    pc, job, todo, cur, target,
    \* state.db
    dJob, dParts, dTask, dResult,
    \* workers and network
    worker,     \* state of each worker process
    running,    \* executions of a task on a worker, their POST included
    reports,    \* task reports on their way to the master
    lost,       \* history: tasks of which an execution or a report was lost
    \* what the environment has used of its bounds
    crashes, deaths, losses, suspicions, dbErrors

jobsMap  == <<jobStatus, parts, task, results, total, completed, completing>>
passes   == <<pc, job, todo, cur, target>>
disk     == <<dJob, dParts, dTask, dResult>>
network  == <<worker, running, reports, lost>>
bounds   == <<crashes, deaths, losses, suspicions>>
vars     == <<up, jobsMap, reg, passes, disk, network, bounds, dbErrors>>

-----------------------------------------------------------------------------
(***************************************************************************)
(* Helpers                                                                 *)
(***************************************************************************)

\* The jobs mutex: complete_task keeps it across its two disk writes.  All
\* other critical sections are one step here.
JobsUnlocked == completing = None

\* A statement on state.db succeeds (ok) or returns an error.
Errors(ok) == IF ok THEN 0 ELSE 1
Sql(ok) ==
    /\ dbErrors' = dbErrors + Errors(ok)
    /\ dbErrors' <= MaxDbErrors

\* StateStore::persist_job: insert or update the row of a job.
PersistJob(j, s, n, ok) ==
    /\ Sql(ok)
    /\ dJob' = IF ok THEN [dJob EXCEPT ![j] = s] ELSE dJob
    /\ dParts' = IF ok THEN [dParts EXCEPT ![j] = n] ELSE dParts

\* Mutant of PersistTaskStatus: INSERT OR REPLACE, which clears result_json.
PersistTaskStatusReplacing(t, s, ok) ==
    /\ Sql(ok)
    /\ dTask' = IF ok THEN [dTask EXCEPT ![t] = s] ELSE dTask
    /\ dResult' = IF ok THEN [dResult EXCEPT ![t] = None] ELSE dResult

\* StateStore::persist_task_status: insert or update, without result_json.
PersistTaskStatus(t, s, ok) ==
    /\ Sql(ok)
    /\ dTask' = IF ok THEN [dTask EXCEPT ![t] = s] ELSE dTask
    /\ UNCHANGED dResult

\* Mutant of PersistTaskResult: the statement leaves result_json out.
PersistTaskResultBare(t, r, ok) ==
    /\ Sql(ok)
    /\ dTask' = IF ok THEN [dTask EXCEPT ![t] = r] ELSE dTask
    /\ UNCHANGED dResult

\* StateStore::persist_task_result: status and result_json in one statement.
PersistTaskResult(t, r, ok) ==
    /\ Sql(ok)
    /\ dTask' = IF ok THEN [dTask EXCEPT ![t] = r] ELSE dTask
    /\ dResult' = IF ok THEN [dResult EXCEPT ![t] = r] ELSE dResult

\* StateStore::load_all_jobs and load_all_tasks; a failure loads nothing.
LoadAllJobs(ok) == {j \in Jobs : ok /\ dJob[j] # "Absent"}
LoadAllTasks(ok) == {t \in Tasks : ok /\ dTask[t] # "Absent"}

\* Within one job, materialize_tasks yields the partitions in order; jobs
\* come in the HashMap's order, which is arbitrary.
Heads(S) == {t \in S : \A u \in S : JobOf(u) = JobOf(t) => t[2] <= u[2]}

\* Pass i is done with task t and goes on with the rest.
Advance(i, rest) ==
    /\ todo' = [todo EXCEPT ![i] = rest]
    /\ cur' = [cur EXCEPT ![i] = None]
    /\ target' = [target EXCEPT ![i] = None]
    /\ pc' = [pc EXCEPT ![i] = IF rest = {} THEN "Idle" ELSE "Select"]

Goto(i, label) == pc' = [pc EXCEPT ![i] = label]

\* available_workers
Active == {w \in Workers : reg[w] = "Active"}
Registered == {w \in Workers : reg[w] # "Unknown"}

\* get_job_status: the percentage it reports.
Progress(j) == IF total[j] = 0 THEN 0 ELSE (completed[j] * 100) \div total[j]

-----------------------------------------------------------------------------
Init ==
    /\ up = TRUE
    /\ jobStatus = [j \in Jobs |-> "Absent"]
    /\ parts = [j \in Jobs |-> 0]
    /\ task = [t \in Tasks |-> "Absent"]
    /\ results = [t \in Tasks |-> 0]
    /\ total = [j \in Jobs |-> 0]
    /\ completed = [j \in Jobs |-> 0]
    /\ completing = None
    /\ reg = [w \in Workers |-> "Unknown"]
    /\ pc = [i \in Passes |-> "Idle"]
    /\ job = [i \in Passes |-> None]
    /\ todo = [i \in Passes |-> {}]
    /\ cur = [i \in Passes |-> None]
    /\ target = [i \in Passes |-> None]
    /\ dJob = [j \in Jobs |-> "Absent"]
    /\ dParts = [j \in Jobs |-> 0]
    /\ dTask = [t \in Tasks |-> "Absent"]
    /\ dResult = [t \in Tasks |-> None]
    /\ worker = [w \in Workers |-> "Off"]
    /\ running = [x \in Workers \X Tasks |-> 0]
    /\ reports = [x \in Tasks \X Outcomes |-> 0]
    /\ lost = {}
    /\ crashes = 0 /\ deaths = 0 /\ losses = 0 /\ suspicions = 0
    /\ dbErrors = 0

-----------------------------------------------------------------------------
(***************************************************************************)
(* submit_job                                                              *)
(***************************************************************************)

\* A validated DAG of n partitions (0 when it has no Read node) gets a fresh
\* id, and its row is written first.  A rejected DAG, or an error on this
\* row, ends the call with nothing changed.
SubmitJob(i, j, n) ==
    /\ up /\ pc[i] = "Idle" /\ dJob[j] = "Absent"
    /\ PersistJob(j, "Accepted", n, TRUE)
    /\ job' = [job EXCEPT ![i] = j]
    /\ todo' = [todo EXCEPT ![i] = TasksOf(j, n)]
    /\ Goto(i, "PersistTasks")
    /\ UNCHANGED <<up, jobsMap, reg, cur, target, dTask, dResult, network,
                   bounds>>

\* Mutant of SubmitTask: the tasks enter the map and get no row.
SubmitTaskUnwritten(i, ok) ==
    /\ pc[i] = "PersistTasks" /\ todo[i] # {} /\ ok
    /\ todo' = [todo EXCEPT ![i] = {}]
    /\ UNCHANGED <<up, jobsMap, reg, pc, job, cur, target, disk, network, bounds,
                   dbErrors>>

\* One iteration of the loop that writes the Queued rows.  An error returns
\* from submit_job: the rows written so far stay, the job never enters the
\* map of this process.
SubmitTask(i, ok) ==
    /\ pc[i] = "PersistTasks"
    /\ \E t \in Heads(todo[i]) :
          /\ PersistTaskStatus(t, "Queued", ok)
          /\ \/ /\ ok
                /\ todo' = [todo EXCEPT ![i] = @ \ {t}]
                /\ UNCHANGED <<pc, job>>
             \/ /\ ~ok
                /\ todo' = [todo EXCEPT ![i] = {}]
                /\ job' = [job EXCEPT ![i] = None]
                /\ Goto(i, "Idle")
    /\ UNCHANGED <<up, jobsMap, reg, cur, target, dJob, dParts, network, bounds>>

\* The job enters the map; the call goes on to schedule every task.
Publish(i) ==
    /\ pc[i] = "PersistTasks" /\ todo[i] = {} /\ JobsUnlocked
    /\ LET j == job[i]
           n == dParts[j]
           new == TasksOf(j, n)
       IN  /\ jobStatus' = [jobStatus EXCEPT ![j] = "Accepted"]
           /\ parts' = [parts EXCEPT ![j] = n]
           /\ task' = [t \in Tasks |-> IF t \in new THEN "Queued" ELSE task[t]]
           /\ total' = [total EXCEPT ![j] = n]
           /\ Advance(i, new)
    /\ job' = [job EXCEPT ![i] = None]
    /\ UNCHANGED <<up, results, completed, completing, reg, disk, network,
                   bounds, dbErrors>>

-----------------------------------------------------------------------------
(***************************************************************************)
(* schedule_all_queued_tasks and schedule_task                             *)
(***************************************************************************)

\* Mutant of Snapshot: it takes tasks of every status.
SnapshotAll(i) ==
    /\ pc[i] = "Snapshot" /\ JobsUnlocked
    /\ Advance(i, {t \in Tasks : t[2] <= parts[JobOf(t)]})
    /\ UNCHANGED <<up, jobsMap, reg, job, disk, network, bounds, dbErrors>>

\* queued_tasks_snapshot, under the jobs mutex.  The plans of all jobs are made
\* again; of a job whose plan comes out with another length than the one it was
\* submitted with (it is not in found), no task has the id that is looked for.
Snapshot(i) ==
    /\ pc[i] = "Snapshot" /\ JobsUnlocked
    /\ \E found \in SUBSET Jobs :
          /\ Jobs \ Ambiguous \subseteq found
          /\ Advance(i, {t \in Tasks : /\ JobOf(t) \in found /\ t[2] <= parts[JobOf(t)]
                                      /\ task[t] = "Queued"})
    /\ UNCHANGED <<up, jobsMap, reg, job, disk, network, bounds, dbErrors>>

\* select_worker, by its contract (module Scheduler): None exactly when no
\* worker is Active, else a worker the registry knows, which may be Down.
\* Without a worker the task is left as it is.
Select(i) ==
    /\ pc[i] = "Select"
    /\ \E t \in Heads(todo[i]) :
          \/ /\ Active = {}
             /\ Advance(i, todo[i] \ {t})
          \/ /\ Active # {}
             /\ \E w \in Registered : target' = [target EXCEPT ![i] = w]
             /\ cur' = [cur EXCEPT ![i] = t]
             /\ todo' = [todo EXCEPT ![i] = @ \ {t}]
             /\ Goto(i, "Assign")
    /\ UNCHANGED <<up, jobsMap, reg, job, disk, network, bounds, dbErrors>>

\* tasks.insert(task_id, Assigned(worker)), whatever was there.
Assign(i) ==
    /\ pc[i] = "Assign" /\ JobsUnlocked
    /\ task' = [task EXCEPT ![cur[i]] = "Assigned"]
    /\ Goto(i, "Persist")
    /\ UNCHANGED <<up, jobStatus, parts, results, total, completed, completing,
                   reg, job, todo, cur, target, disk, network, bounds, dbErrors>>

\* The Assigned row is written after the mutex was released; result_json
\* stays, an error is ignored.
PersistAssign(i, ok) ==
    /\ pc[i] = "Persist"
    /\ PersistTaskStatus(cur[i], "Assigned", ok)
    /\ Goto(i, "Mark")
    /\ UNCHANGED <<up, jobsMap, reg, job, todo, cur, target, dJob, dParts,
                   network, bounds>>

\* Mutant of MarkRunning: the new status is not written to its row.
MarkRunningInMemory(i, ok) ==
    /\ pc[i] = "Mark" /\ JobsUnlocked /\ ok
    /\ jobStatus' = [jobStatus EXCEPT ![JobOf(cur[i])] = "Running"]
    /\ Goto(i, "Dispatch")
    /\ UNCHANGED <<up, parts, task, results, total, completed, completing, reg,
                   job, todo, cur, target, disk, network, bounds, dbErrors>>

\* The job becomes Running from any other status, terminal ones included.
\* The row is written inside the critical section.
MarkRunning(i, ok) ==
    /\ pc[i] = "Mark" /\ JobsUnlocked
    /\ LET j == JobOf(cur[i])
       IN  IF jobStatus[j] = "Running"
           THEN ok /\ UNCHANGED <<jobStatus, dJob, dParts, dbErrors>>
           ELSE /\ jobStatus' = [jobStatus EXCEPT ![j] = "Running"]
                /\ PersistJob(j, "Running", parts[j], ok)
    /\ Goto(i, "Dispatch")
    /\ UNCHANGED <<up, parts, task, results, total, completed, completing, reg,
                   job, todo, cur, target, dTask, dResult, network, bounds>>

\* The spawned POST to /tasks/execute.  It reaches a live worker, or it is
\* lost; then the master only logs it.
Dispatch(i, arrives) ==
    /\ pc[i] = "Dispatch"
    /\ LET t == cur[i]
           w == target[i]
       IN  IF arrives
           THEN /\ worker[w] = "Up"
                /\ running' = [running EXCEPT ![<<w, t>>] = @ + 1]
                /\ UNCHANGED <<lost, losses>>
           ELSE /\ worker[w] = "Up" => losses < MaxLosses
                /\ losses' = IF worker[w] = "Up" THEN losses + 1 ELSE losses
                /\ lost' = lost \cup {t}
                /\ UNCHANGED running
    /\ Advance(i, todo[i])
    /\ UNCHANGED <<up, jobsMap, reg, job, disk, worker, reports, crashes, deaths,
                   suspicions, dbErrors>>

-----------------------------------------------------------------------------
(***************************************************************************)
(* complete_task                                                           *)
(***************************************************************************)

\* First half: the status in memory, then persist_task_result.  An error
\* returns at once, with the status in memory already changed.  A report for
\* a job the master does not know is ignored.
CompleteTask(t, r, ok) ==
    /\ up /\ JobsUnlocked /\ reports[<<t, r>>] > 0
    /\ reports' = [reports EXCEPT ![<<t, r>>] = @ - 1]
    /\ IF jobStatus[JobOf(t)] = "Absent"
       THEN ok /\ UNCHANGED <<task, dTask, dResult, completing, dbErrors>>
       ELSE /\ task' = [task EXCEPT ![t] = r]
            /\ PersistTaskResult(t, r, ok)
            /\ completing' = IF ok THEN <<t, r>> ELSE None
    /\ UNCHANGED <<up, jobStatus, parts, results, total, completed, reg, passes,
                   dJob, dParts, worker, running, lost, bounds>>

\* Mutant of NonePending: an Assigned task does not count as pending.
NonePendingUnlessQueued(j) ==
    \A t \in Tasks : JobOf(t) = j => task[t] \notin {"Queued", "Failed"}

\* No task of the job has a status other than Completed.
NonePending(j) ==
    \A t \in Tasks : JobOf(t) = j => task[t] \in {"Absent", "Completed"}

\* Second half, same critical section: the metrics, and the job's status with
\* its row when it changes.  An error on the row is ignored.
FinishCompletion(ok) ==
    /\ ~JobsUnlocked
    /\ LET t == completing[1]
           r == completing[2]
           j == JobOf(t)
           new == IF r = "Failed" THEN "Failed"
                  ELSE IF NonePending(j) THEN "Succeeded" ELSE jobStatus[j]
       IN  /\ results' = IF r = "Completed" THEN [results EXCEPT ![t] = @ + 1]
                         ELSE results
           /\ completed' = IF r = "Completed"
                           THEN [completed EXCEPT ![j] = @ + 1] ELSE completed
           /\ jobStatus' = [jobStatus EXCEPT ![j] = new]
           /\ IF r = "Failed" \/ NonePending(j)
              THEN PersistJob(j, new, parts[j], ok)
              ELSE ok /\ UNCHANGED <<dJob, dParts, dbErrors>>
    /\ completing' = None
    /\ UNCHANGED <<up, parts, task, total, reg, passes, dTask, dResult, network,
                   bounds>>

-----------------------------------------------------------------------------
(***************************************************************************)
(* register_worker, handle_heartbeat, garbage_collect_workers              *)
(***************************************************************************)

\* A worker starts and registers; the master spawns a sweep.  One that died
\* may come back under the id it was given on the command line.
Register(w, i) ==
    /\ up /\ worker[w] # "Up" /\ pc[i] = "Idle"
    /\ worker' = [worker EXCEPT ![w] = "Up"]
    /\ reg' = [reg EXCEPT ![w] = "Active"]
    /\ Goto(i, "Snapshot")
    /\ UNCHANGED <<up, jobsMap, job, todo, cur, target, disk, running, reports,
                   lost, bounds, dbErrors>>

\* Mutant of Heartbeat: it spawns no sweep.
HeartbeatNoSweep(w, i) ==
    /\ up /\ worker[w] = "Up" /\ pc[i] = "Idle"
    /\ reg' = [reg EXCEPT ![w] = "Active"]
    /\ UNCHANGED <<up, jobsMap, passes, disk, network, bounds, dbErrors>>

\* A heartbeat makes its sender Active, registering it when the master does
\* not know it (after a restart); the master spawns a sweep.
Heartbeat(w, i) ==
    /\ up /\ worker[w] = "Up" /\ pc[i] = "Idle"
    /\ reg' = [reg EXCEPT ![w] = "Active"]
    /\ Goto(i, "Snapshot")
    /\ UNCHANGED <<up, jobsMap, job, todo, cur, target, disk, network, bounds,
                   dbErrors>>

\* The watchdog finds the last heartbeat older than the grace period (module
\* Scheduler has the clock).  That is all it does: no task is touched.
MarkStale(w) ==
    /\ up /\ reg[w] = "Active"
    /\ worker[w] = "Up" => suspicions < MaxSuspicions
    /\ reg' = [reg EXCEPT ![w] = "Down"]
    /\ suspicions' = IF worker[w] = "Up" THEN suspicions + 1 ELSE suspicions
    /\ UNCHANGED <<up, jobsMap, passes, disk, network, crashes, deaths, losses,
                   dbErrors>>

-----------------------------------------------------------------------------
(***************************************************************************)
(* The workers and the network                                             *)
(***************************************************************************)

\* An execution ends with outcome r and the worker posts its report once.  A
\* report posted while the master is down is gone.
Finish(w, t, r) ==
    /\ running[<<w, t>>] > 0
    /\ running' = [running EXCEPT ![<<w, t>>] = @ - 1]
    /\ reports' = IF up THEN [reports EXCEPT ![<<t, r>>] = @ + 1] ELSE reports
    /\ UNCHANGED <<up, jobsMap, reg, passes, disk, worker, lost, bounds, dbErrors>>

\* A report is lost between two live processes; the worker only logs it.
LoseReport(t, r) ==
    /\ up /\ reports[<<t, r>>] > 0 /\ losses < MaxLosses
    /\ reports' = [reports EXCEPT ![<<t, r>>] = @ - 1]
    /\ losses' = losses + 1
    /\ lost' = lost \cup {t}
    /\ UNCHANGED <<up, jobsMap, reg, passes, disk, worker, running, crashes,
                   deaths, suspicions, dbErrors>>

\* A worker process dies with what it executes.
WorkerDies(w) ==
    /\ worker[w] = "Up" /\ deaths < MaxDeaths
    /\ worker' = [worker EXCEPT ![w] = "Off"]
    /\ lost' = lost \cup {t \in Tasks : running[<<w, t>>] > 0}
    /\ running' = [x \in Workers \X Tasks |-> IF x[1] = w THEN 0 ELSE running[x]]
    /\ deaths' = deaths + 1
    /\ UNCHANGED <<up, jobsMap, reg, passes, disk, reports, crashes, losses,
                   suspicions, dbErrors>>

-----------------------------------------------------------------------------
(***************************************************************************)
(* Crash and restart of the master                                         *)
(***************************************************************************)

\* Memory, passes and requests in progress are gone.  A worker whose
\* connection to the master breaks drops the execution; one that does not
\* notice goes on with it.
Crash ==
    /\ up /\ crashes < MaxCrashes
    /\ up' = FALSE
    /\ crashes' = crashes + 1
    /\ jobStatus' = [j \in Jobs |-> "Absent"]
    /\ parts' = [j \in Jobs |-> 0]
    /\ task' = [t \in Tasks |-> "Absent"]
    /\ results' = [t \in Tasks |-> 0]
    /\ total' = [j \in Jobs |-> 0]
    /\ completed' = [j \in Jobs |-> 0]
    /\ completing' = None
    /\ reg' = [w \in Workers |-> "Unknown"]
    /\ pc' = [i \in Passes |-> "Idle"]
    /\ job' = [i \in Passes |-> None]
    /\ todo' = [i \in Passes |-> {}]
    /\ cur' = [i \in Passes |-> None]
    /\ target' = [i \in Passes |-> None]
    /\ \E dropped \in SUBSET {x \in Workers \X Tasks : running[x] > 0} :
          running' = [x \in Workers \X Tasks |->
                         IF x \in dropped THEN 0 ELSE running[x]]
    /\ reports' = [x \in Tasks \X Outcomes |-> 0]
    /\ lost' = {}
    /\ UNCHANGED <<disk, worker, deaths, losses, suspicions, dbErrors>>

\* Mutant of Normalized: an Assigned row is taken as it is.
NormalizedNot(s) == s

\* What Master::new makes of a task row.
Normalized(s) == IF s = "Assigned" THEN "Queued" ELSE s

\* tasks_to_requeue
Requeued == {t \in Tasks : dTask[t] = "Assigned"}

\* Master::new.  Either SELECT may fail, and then counts as empty.  Jobs come
\* back with their status and DAG but with default metrics; a task of a job
\* that was not loaded gets a placeholder job without a DAG.  The requeued
\* rows are written back, except those (kept) whose statement fails.
Restart(okJobs, okTasks, kept) ==
    /\ ~up
    /\ dbErrors' = dbErrors + Errors(okJobs) + Errors(okTasks) + Errors(kept = {})
    /\ dbErrors' <= MaxDbErrors
    /\ up' = TRUE
    /\ LET rows == LoadAllTasks(okTasks)
           loaded == LoadAllJobs(okJobs)
           orphaned == {JobOf(t) : t \in rows} \ loaded
       IN  /\ jobStatus' = [j \in Jobs |-> IF j \in loaded THEN dJob[j]
                                           ELSE IF j \in orphaned THEN "Pending"
                                           ELSE "Absent"]
           /\ parts' = [j \in Jobs |-> IF j \in loaded THEN dParts[j] ELSE 0]
           /\ task' = [t \in Tasks |-> IF t \in rows THEN Normalized(dTask[t])
                                       ELSE "Absent"]
           /\ results' = [t \in Tasks |->
                             IF t \in rows /\ dResult[t] = "Completed" THEN 1 ELSE 0]
           /\ dTask' = [t \in Tasks |-> IF t \in rows \ kept THEN Normalized(dTask[t])
                                        ELSE dTask[t]]
    /\ UNCHANGED <<total, completed, completing, reg, passes, dJob, dParts,
                   dResult, network, bounds>>

-----------------------------------------------------------------------------
PassStep(i) ==
    \/ \E ok \in BOOLEAN : SubmitTask(i, ok)
    \/ Publish(i)
    \/ Snapshot(i)
    \/ Select(i)
    \/ Assign(i)
    \/ \E ok \in BOOLEAN : PersistAssign(i, ok)
    \/ \E ok \in BOOLEAN : MarkRunning(i, ok)
    \/ \E arrives \in BOOLEAN : Dispatch(i, arrives)

\* Everything but the arrival of a job.
Serve ==
    \/ \E i \in Passes : PassStep(i)
    \/ \E t \in Tasks, r \in Outcomes, ok \in BOOLEAN : CompleteTask(t, r, ok)
    \/ \E ok \in BOOLEAN : FinishCompletion(ok)
    \/ \E w \in Workers, i \in Passes : Register(w, i) \/ Heartbeat(w, i)
    \/ \E w \in Workers : MarkStale(w) \/ WorkerDies(w)
    \/ \E w \in Workers, t \in Tasks, r \in Outcomes : Finish(w, t, r)
    \/ \E t \in Tasks, r \in Outcomes : LoseReport(t, r)
    \/ Crash
    \/ \E okJobs, okTasks \in BOOLEAN, kept \in SUBSET Requeued :
          Restart(okJobs, okTasks, kept)

Next ==
    \/ \E i \in Passes, j \in Jobs, n \in 0..MaxParts : SubmitJob(i, j, n)
    \/ Serve

\* Threads of the master are not starved, a report that is not lost is
\* handled, an execution ends, a live worker keeps sending heartbeats, and
\* somebody starts the master again.  Nothing makes a client submit, a worker
\* start, or a process die.
Fairness ==
    /\ \A i \in Passes : WF_vars(PassStep(i))
    /\ \A t \in Tasks, r \in Outcomes :
          WF_vars(\E ok \in BOOLEAN : CompleteTask(t, r, ok))
    /\ WF_vars(\E ok \in BOOLEAN : FinishCompletion(ok))
    /\ \A w \in Workers, t \in Tasks : WF_vars(\E r \in Outcomes : Finish(w, t, r))
    /\ \A w \in Workers : WF_vars(\E i \in Passes : Heartbeat(w, i))
    /\ WF_vars(\E okJobs, okTasks \in BOOLEAN, kept \in SUBSET Requeued :
                  Restart(okJobs, okTasks, kept))

Spec == Init /\ [][Next]_vars
FairSpec == Spec /\ Fairness

-----------------------------------------------------------------------------
(***************************************************************************)
(* Properties                                                              *)
(***************************************************************************)

MemoryOK ==
    /\ up \in BOOLEAN
    /\ jobStatus \in [Jobs -> JobStatus \cup {"Absent"}]
    /\ parts \in [Jobs -> 0..MaxParts]
    /\ task \in [Tasks -> TaskStatus \cup {"Absent"}]
    /\ results \in [Tasks -> Nat]
    /\ total \in [Jobs -> 0..MaxParts]
    /\ completed \in [Jobs -> Nat]
    /\ completing \in (Tasks \X Outcomes) \cup {None}
    /\ reg \in [Workers -> {"Unknown", "Active", "Down"}]

PassesOK ==
    /\ pc \in [Passes -> PassStates]
    /\ job \in [Passes -> Jobs \cup {None}]
    /\ todo \in [Passes -> SUBSET Tasks]
    /\ cur \in [Passes -> Tasks \cup {None}]
    /\ target \in [Passes -> Workers \cup {None}]

DiskOK ==
    /\ dJob \in [Jobs -> JobStatus \cup {"Absent"}]
    /\ dParts \in [Jobs -> 0..MaxParts]
    /\ dTask \in [Tasks -> TaskStatus \cup {"Absent"}]
    /\ dResult \in [Tasks -> Outcomes \cup {None}]

NetworkOK ==
    /\ worker \in [Workers -> {"Off", "Up"}]
    /\ running \in [Workers \X Tasks -> Nat]
    /\ reports \in [Tasks \X Outcomes -> Nat]
    /\ lost \in SUBSET Tasks

BoundsOK ==
    /\ crashes \in 0..MaxCrashes /\ deaths \in 0..MaxDeaths
    /\ losses \in 0..MaxLosses /\ suspicions \in 0..MaxSuspicions
    /\ dbErrors \in 0..MaxDbErrors

\* The values the variables of the master, its passes, the store, the network
\* and the bounds take.
TypeOK == MemoryOK /\ PassesOK /\ DiskOK /\ NetworkOK /\ BoundsOK

\* Somebody is still going to report on t: a pass that will dispatch it, an
\* execution, or a report on its way.
Carried(t) ==
    \/ \E i \in Passes : cur[i] = t /\ pc[i] \in {"Persist", "Mark", "Dispatch"}
    \/ \E w \in Workers : running[<<w, t>>] > 0
    \/ \E r \in Outcomes : reports[<<t, r>>] > 0

\* An Assigned task nobody is going to report on lost an execution or a
\* report to a dead worker or to the network: the passes, complete_task and
\* recovery never drop an assignment themselves, however they interleave.
NoTaskStranded == \A t \in Tasks : task[t] = "Assigned" => Carried(t) \/ t \in lost

\* Without database errors, a job that is Succeeded, in memory or in its row,
\* has a stored result for every task row it has, whatever stale passes and
\* duplicate reports do and wherever the master crashed.
SucceededHasResults ==
    dbErrors = 0 =>
        \A t \in Tasks :
            /\ "Succeeded" \in {jobStatus[JobOf(t)], dJob[JobOf(t)]}
            /\ dTask[t] # "Absent"
            => dResult[t] # None

\* Without database errors, the row of a job agrees with its status in memory
\* outside the critical sections that change it: a restart resumes exactly
\* the status clients have seen.
StatusDurable ==
    dbErrors = 0 =>
        \A j \in Jobs : jobStatus[j] # "Absent" => dJob[j] = jobStatus[j]

\* Without database errors, a restart at this point forgets nothing: every
\* task in memory has a row, and one that has reported has its result stored.
NothingForgotten ==
    dbErrors = 0 =>
        \A t \in Tasks :
            /\ task[t] # "Absent" => dTask[t] # "Absent"
            /\ task[t] \in {"Completed", "Failed"} => dResult[t] # None

\* With or without database errors, the rows are consistent: a task row has a
\* job row (so a restart that reads both tables makes no placeholder), and a
\* row that a restart takes for finished holds that very result.
RowsConsistent ==
    \A t \in Tasks :
        /\ dTask[t] # "Absent" => dJob[JobOf(t)] # "Absent"
        /\ dTask[t] \in {"Completed", "Failed"} => dResult[t] = dTask[t]

\* A stored result is replaced but never erased: rescheduling a task that has
\* reported, and requeueing it on restart, leave result_json alone.
ResultsKept ==
    [][\A t \in Tasks : dResult[t] # None => dResult'[t] # None]_vars

\* The store keeps the promises of module JobTable, with overlapping passes,
\* crashes between any two statements and failing statements: in particular a
\* job fails only on a stored failure, succeeds only on stored results, runs
\* only with a task, and keeps its DAG.
Table == INSTANCE JobTable WITH
            status <- dJob, size <- dParts, result <- dResult,
            rows <- {t \in Tasks : dTask[t] # "Absent"}, faulty <- (dbErrors > 0)
TableSpec == Table!Spec

\* The percentage reported to clients is one (README: the master can tell
\* fresh executions from duplicated attempts).
ProgressIsPercentage == \A j \in Jobs : Progress(j) <= 100

\* While a worker lives, every queued task of a job with plans of one length is
\* eventually reported on, or loses an execution to a death or to the network:
\* the sweeps find it, whatever passes overlap and wherever the master crashes.
QueuedIsReported ==
    \A t \in Tasks :
        (JobOf(t) \notin Ambiguous /\ task[t] = "Queued")
            ~> (task[t] \in {"Completed", "Failed"} \/ t \in lost
                \/ \A w \in Workers : worker[w] # "Up")

\* A job with tasks ends in a terminal status and stays there, as long as a
\* worker lives.
JobTerminates ==
    \A j \in Jobs :
        (total[j] > 0)
            ~> ([](jobStatus[j] \in {"Succeeded", "Failed"})
                \/ \A w \in Workers : worker[w] # "Up")

\* A task assigned to a worker that died is rescheduled or ends, while another
\* worker lives.
LostTaskIsRescheduled ==
    \A t \in Tasks :
        (task[t] = "Assigned" /\ t \in lost)
            ~> (task[t] # "Assigned" \/ \A w \in Workers : worker[w] # "Up")

=============================================================================
