---------------------------- MODULE MasterProofs ----------------------------
(***************************************************************************)
(* Theorems about module Master, for every value of its constants: any     *)
(* number of jobs, partitions, workers, overlapping passes, crashes,       *)
(* deaths, losses and database errors.  No assignment is dropped by the    *)
(* master itself; the state store is enough to recover from, however       *)
(* passes, reports, crashes and restarts interleave; and the master        *)
(* implements module JobTable: every step changes the rows of state.db as  *)
(* one step of the table does, or not at all.                              *)
(***************************************************************************)
EXTENDS Master, TLAPS

-----------------------------------------------------------------------------
(***************************************************************************)
(* Types                                                                   *)
(***************************************************************************)

\* A pass that writes rows knows its job; one past Select knows its task and
\* its worker.
PassOK ==
    \A i \in Passes :
        /\ pc[i] = "PersistTasks" => job[i] \in Jobs
        /\ pc[i] \in {"Assign", "Persist", "Mark", "Dispatch"} =>
              cur[i] \in Tasks /\ target[i] \in Workers

TypeInv == TypeOK /\ PassOK

\* Names of tasks: what the product tells about them.
LEMMA TaskNames ==
    /\ \A t \in Tasks : JobOf(t) \in Jobs /\ t[2] \in 1..MaxParts
    /\ \A j \in Jobs, n \in 0..MaxParts : TasksOf(j, n) \subseteq Tasks
    /\ \A j \in Jobs, n \in 0..MaxParts : \A t \in TasksOf(j, n) : JobOf(t) = j
BY MasterAssumption DEF Tasks, JobOf, TasksOf

\* A pair is made of its components.
LEMMA Pairs ==
    ASSUME NEW A, NEW B, NEW x \in A \X B
    PROVE  x[1] \in A /\ x[2] \in B /\ x = <<x[1], x[2]>>
OBVIOUS

\* Every initial state has the types.
LEMMA TypeInit == Init => TypeInv
BY MasterAssumption
   DEF Init, TypeInv, TypeOK, PassOK, MemoryOK, PassesOK, DiskOK, NetworkOK,
       BoundsOK, JobStatus, TaskStatus, PassStates

\* Every step keeps the types.
LEMMA TypeStep == TypeInv /\ [Next]_vars => TypeInv'
<1> SUFFICES ASSUME TypeInv, [Next]_vars PROVE TypeInv'
  OBVIOUS
<1> USE MasterAssumption DEF TypeInv, TypeOK
<1>1. ASSUME NEW i \in Passes, NEW j \in Jobs, NEW n \in 0..MaxParts,
             SubmitJob(i, j, n)
      PROVE  TypeInv'
  <2>1. PassesOK'
    BY <1>1, TaskNames DEF SubmitJob, Goto, PassStates, PassesOK, passes
  <2>2. DiskOK'
    BY <1>1 DEF SubmitJob, PersistJob, JobStatus, DiskOK, disk
  <2>3. BoundsOK'
    BY <1>1 DEF SubmitJob, PersistJob, Sql, Errors, BoundsOK, bounds
  <2>4. PassOK'
    BY <1>1 DEF SubmitJob, PassOK, PassesOK, Goto, passes
  <2>5. MemoryOK' /\ NetworkOK'
    BY <1>1 DEF SubmitJob, MemoryOK, NetworkOK, jobsMap, network
  <2>6. QED
    BY <2>1, <2>2, <2>3, <2>4, <2>5
<1>2. ASSUME NEW i \in Passes, NEW ok \in BOOLEAN,
             SubmitTask(i, ok)
      PROVE  TypeInv'
  <2>1. PassesOK'
    BY <1>2 DEF SubmitTask, Goto, PassStates, PassesOK, passes
  <2>2. DiskOK'
    BY <1>2 DEF SubmitTask, PersistTaskStatus, TaskStatus, DiskOK, disk
  <2>3. BoundsOK'
    BY <1>2 DEF SubmitTask, PersistTaskStatus, Sql, Errors, BoundsOK, bounds
  <2>4. PassOK'
    BY <1>2 DEF SubmitTask, PassOK, PassesOK, Goto, passes
  <2>5. MemoryOK' /\ NetworkOK'
    BY <1>2 DEF SubmitTask, MemoryOK, NetworkOK, jobsMap, network
  <2>6. QED
    BY <2>1, <2>2, <2>3, <2>4, <2>5
<1>3. ASSUME NEW i \in Passes,
             Publish(i)
      PROVE  TypeInv'
  <2>1. MemoryOK'
    BY <1>3 DEF Publish, DiskOK, JobStatus, TaskStatus, MemoryOK, jobsMap
  <2>2. PassesOK'
    BY <1>3, TaskNames DEF Publish, DiskOK, PassOK, Advance, PassStates,
       PassesOK, passes
  <2>3. PassOK'
    BY <1>3 DEF Publish, PassOK, PassesOK, Advance, passes
  <2>4. DiskOK' /\ NetworkOK' /\ BoundsOK'
    BY <1>3 DEF Publish, DiskOK, NetworkOK, BoundsOK, disk, network, bounds
  <2>5. QED
    BY <2>1, <2>2, <2>3, <2>4
<1>4. ASSUME NEW i \in Passes,
             Snapshot(i)
      PROVE  TypeInv'
  <2>1. PassesOK'
    BY <1>4 DEF Snapshot, Advance, PassStates, PassesOK, passes
  <2>2. PassOK'
    BY <1>4 DEF Snapshot, PassOK, PassesOK, Advance, passes
  <2>3. MemoryOK' /\ DiskOK' /\ NetworkOK' /\ BoundsOK'
    BY <1>4 DEF Snapshot, MemoryOK, DiskOK, NetworkOK, BoundsOK, jobsMap,
       disk, network, bounds
  <2>4. QED
    BY <2>1, <2>2, <2>3
<1>5. ASSUME NEW i \in Passes,
             Select(i)
      PROVE  TypeInv'
  <2>1. PassesOK'
    BY <1>5 DEF Select, Heads, Registered, Goto, Advance, PassStates,
       PassesOK, passes
  <2>2. PassOK'
    BY <1>5 DEF Select, PassOK, PassesOK, Advance, Goto, Heads, Registered,
       passes
  <2>3. MemoryOK' /\ DiskOK' /\ NetworkOK' /\ BoundsOK'
    BY <1>5 DEF Select, MemoryOK, DiskOK, NetworkOK, BoundsOK, jobsMap, disk,
       network, bounds
  <2>4. QED
    BY <2>1, <2>2, <2>3
<1>6. ASSUME NEW i \in Passes,
             Assign(i)
      PROVE  TypeInv'
  <2>1. MemoryOK'
    BY <1>6 DEF Assign, TaskStatus, MemoryOK, jobsMap
  <2>2. PassesOK'
    BY <1>6 DEF Assign, Goto, PassStates, PassesOK, passes
  <2>3. PassOK'
    BY <1>6 DEF Assign, PassOK, PassesOK, Goto, passes
  <2>4. DiskOK' /\ NetworkOK' /\ BoundsOK'
    BY <1>6 DEF Assign, DiskOK, NetworkOK, BoundsOK, disk, network, bounds
  <2>5. QED
    BY <2>1, <2>2, <2>3, <2>4
<1>7. ASSUME NEW i \in Passes, NEW ok \in BOOLEAN,
             PersistAssign(i, ok)
      PROVE  TypeInv'
  <2>1. PassesOK'
    BY <1>7 DEF PersistAssign, Goto, PassStates, PassesOK, passes
  <2>2. DiskOK'
    BY <1>7 DEF PersistAssign, PersistTaskStatus, TaskStatus, DiskOK, disk
  <2>3. BoundsOK'
    BY <1>7 DEF PersistAssign, PersistTaskStatus, Sql, Errors, BoundsOK,
       bounds
  <2>4. PassOK'
    BY <1>7 DEF PersistAssign, PassOK, PassesOK, Goto, passes
  <2>5. MemoryOK' /\ NetworkOK'
    BY <1>7 DEF PersistAssign, MemoryOK, NetworkOK, jobsMap, network
  <2>6. QED
    BY <2>1, <2>2, <2>3, <2>4, <2>5
<1>8. ASSUME NEW i \in Passes, NEW ok \in BOOLEAN,
             MarkRunning(i, ok)
      PROVE  TypeInv'
  <2>1. MemoryOK'
    BY <1>8 DEF MarkRunning, JobStatus, MemoryOK, jobsMap
  <2>2. PassesOK'
    BY <1>8 DEF MarkRunning, Goto, PassStates, PassesOK, passes
  <2>3. DiskOK'
    BY <1>8 DEF MarkRunning, MemoryOK, PersistJob, JobStatus, DiskOK, disk
  <2>4. BoundsOK'
    BY <1>8 DEF MarkRunning, PersistJob, Sql, Errors, BoundsOK, bounds
  <2>5. PassOK'
    BY <1>8 DEF MarkRunning, PassOK, PassesOK, Goto, passes
  <2>6. NetworkOK'
    BY <1>8 DEF MarkRunning, NetworkOK, network
  <2>7. QED
    BY <2>1, <2>2, <2>3, <2>4, <2>5, <2>6
<1>9. ASSUME NEW i \in Passes, NEW arrives \in BOOLEAN,
             Dispatch(i, arrives)
      PROVE  TypeInv'
  <2>1. PassesOK'
    BY <1>9 DEF Dispatch, Advance, PassStates, PassesOK, passes
  <2>2. NetworkOK'
    BY <1>9 DEF Dispatch, PassOK, NetworkOK, network
  <2>3. BoundsOK'
    BY <1>9 DEF Dispatch, BoundsOK, bounds
  <2>4. PassOK'
    BY <1>9 DEF Dispatch, PassOK, PassesOK, Advance, passes
  <2>5. MemoryOK' /\ DiskOK'
    BY <1>9 DEF Dispatch, MemoryOK, DiskOK, jobsMap, disk
  <2>6. QED
    BY <2>1, <2>2, <2>3, <2>4, <2>5
<1>10. ASSUME NEW t \in Tasks, NEW r \in Outcomes, NEW ok \in BOOLEAN,
             CompleteTask(t, r, ok)
      PROVE  TypeInv'
  <2>1. MemoryOK'
    <3>1. task' \in [Tasks -> TaskStatus \cup {"Absent"}]
      BY <1>10 DEF CompleteTask, TaskStatus, MemoryOK
    <3>2. completing' \in (Tasks \X Outcomes) \cup {None}
      BY <1>10 DEF CompleteTask, MemoryOK
    <3>3. QED
      BY <1>10, <3>1, <3>2 DEF CompleteTask, MemoryOK
  <2>2. DiskOK'
    BY <1>10 DEF CompleteTask, PersistTaskResult, TaskStatus, DiskOK, disk
  <2>3. NetworkOK'
    BY <1>10 DEF CompleteTask, NetworkOK, network
  <2>4. BoundsOK'
    BY <1>10 DEF CompleteTask, PersistTaskResult, Sql, Errors, BoundsOK,
       bounds
  <2>5. PassOK'
    BY <1>10 DEF CompleteTask, PassOK, PassesOK, passes
  <2>6. PassesOK'
    BY <1>10 DEF CompleteTask, PassesOK, passes
  <2>7. QED
    BY <2>1, <2>2, <2>3, <2>4, <2>5, <2>6
<1>11. ASSUME NEW ok \in BOOLEAN,
             FinishCompletion(ok)
      PROVE  TypeInv'
  <2>1. MemoryOK'
    <3>1. PICK t \in Tasks, r \in Outcomes : completing = <<t, r>>
      <4>1. completing \in Tasks \X Outcomes
        BY <1>11 DEF FinishCompletion, JobsUnlocked, MemoryOK
      <4>2. completing[1] \in Tasks /\ completing[2] \in Outcomes
            /\ completing = <<completing[1], completing[2]>>
        BY <4>1, Pairs, Zenon
      <4>3. QED
        BY <4>2, Zenon
    <3>2. jobStatus' \in [Jobs -> JobStatus \cup {"Absent"}]
      <4>1. PICK new \in JobStatus \cup {"Absent"} :
               jobStatus' = [jobStatus EXCEPT ![JobOf(t)] = new]
        <5>1. jobStatus[JobOf(t)] \in JobStatus \cup {"Absent"}
          BY <3>1, TaskNames DEF MemoryOK
        <5>2. completing[1] = t
          BY <3>1
        <5>3. QED
          BY <1>11, <5>1, <5>2 DEF FinishCompletion, JobStatus
      <4>2. QED
        BY <4>1 DEF MemoryOK
    <3>3. results' \in [Tasks -> Nat] /\ completed' \in [Jobs -> Nat]
      BY <1>11, <3>1, TaskNames DEF FinishCompletion, MemoryOK
    <3>4. QED
      BY <1>11, <3>2, <3>3 DEF FinishCompletion, MemoryOK
  <2>2. DiskOK'
    BY <1>11 DEF FinishCompletion, MemoryOK, PersistJob, JobStatus, DiskOK,
       disk
  <2>3. BoundsOK'
    BY <1>11 DEF FinishCompletion, PersistJob, Sql, Errors, BoundsOK, bounds
  <2>4. PassOK'
    BY <1>11 DEF FinishCompletion, PassOK, PassesOK, passes
  <2>5. PassesOK' /\ NetworkOK'
    BY <1>11 DEF FinishCompletion, PassesOK, NetworkOK, passes, network
  <2>6. QED
    BY <2>1, <2>2, <2>3, <2>4, <2>5
<1>12. ASSUME NEW w \in Workers, NEW i \in Passes,
             Register(w, i)
      PROVE  TypeInv'
  <2>1. MemoryOK'
    BY <1>12 DEF Register, MemoryOK, jobsMap
  <2>2. PassesOK'
    BY <1>12 DEF Register, Goto, PassStates, PassesOK, passes
  <2>3. NetworkOK'
    BY <1>12 DEF Register, NetworkOK, network
  <2>4. PassOK'
    BY <1>12 DEF Register, PassOK, PassesOK, Goto, passes
  <2>5. DiskOK' /\ BoundsOK'
    BY <1>12 DEF Register, DiskOK, BoundsOK, disk, bounds
  <2>6. QED
    BY <2>1, <2>2, <2>3, <2>4, <2>5
<1>13. ASSUME NEW w \in Workers, NEW i \in Passes,
             Heartbeat(w, i)
      PROVE  TypeInv'
  <2>1. MemoryOK'
    BY <1>13 DEF Heartbeat, MemoryOK, jobsMap
  <2>2. PassesOK'
    BY <1>13 DEF Heartbeat, Goto, PassStates, PassesOK, passes
  <2>3. PassOK'
    BY <1>13 DEF Heartbeat, PassOK, PassesOK, Goto, passes
  <2>4. DiskOK' /\ NetworkOK' /\ BoundsOK'
    BY <1>13 DEF Heartbeat, DiskOK, NetworkOK, BoundsOK, disk, network, bounds
  <2>5. QED
    BY <2>1, <2>2, <2>3, <2>4
<1>14. ASSUME NEW w \in Workers,
             MarkStale(w)
      PROVE  TypeInv'
  <2>1. MemoryOK'
    BY <1>14 DEF MarkStale, MemoryOK, jobsMap
  <2>2. BoundsOK'
    BY <1>14 DEF MarkStale, BoundsOK, bounds
  <2>3. PassOK'
    BY <1>14 DEF MarkStale, PassOK, PassesOK, passes
  <2>4. PassesOK' /\ DiskOK' /\ NetworkOK'
    BY <1>14 DEF MarkStale, PassesOK, DiskOK, NetworkOK, passes, disk, network
  <2>5. QED
    BY <2>1, <2>2, <2>3, <2>4
<1>15. ASSUME NEW w \in Workers,
             WorkerDies(w)
      PROVE  TypeInv'
  <2>1. NetworkOK'
    BY <1>15 DEF WorkerDies, NetworkOK, network
  <2>2. BoundsOK'
    BY <1>15 DEF WorkerDies, BoundsOK, bounds
  <2>3. PassOK'
    BY <1>15 DEF WorkerDies, PassOK, PassesOK, passes
  <2>4. MemoryOK' /\ PassesOK' /\ DiskOK'
    BY <1>15 DEF WorkerDies, MemoryOK, PassesOK, DiskOK, jobsMap, passes, disk
  <2>5. QED
    BY <2>1, <2>2, <2>3, <2>4
<1>16. ASSUME NEW w \in Workers, NEW t \in Tasks, NEW r \in Outcomes,
             Finish(w, t, r)
      PROVE  TypeInv'
  <2>1. NetworkOK'
    BY <1>16 DEF Finish, NetworkOK, network
  <2>2. PassOK'
    BY <1>16 DEF Finish, PassOK, PassesOK, passes
  <2>3. MemoryOK' /\ PassesOK' /\ DiskOK' /\ BoundsOK'
    BY <1>16 DEF Finish, MemoryOK, PassesOK, DiskOK, BoundsOK, jobsMap,
       passes, disk, bounds
  <2>4. QED
    BY <2>1, <2>2, <2>3
<1>17. ASSUME NEW t \in Tasks, NEW r \in Outcomes,
             LoseReport(t, r)
      PROVE  TypeInv'
  <2>1. NetworkOK'
    BY <1>17 DEF LoseReport, NetworkOK, network
  <2>2. BoundsOK'
    BY <1>17 DEF LoseReport, BoundsOK, bounds
  <2>3. PassOK'
    BY <1>17 DEF LoseReport, PassOK, PassesOK, passes
  <2>4. MemoryOK' /\ PassesOK' /\ DiskOK'
    BY <1>17 DEF LoseReport, MemoryOK, PassesOK, DiskOK, jobsMap, passes, disk
  <2>5. QED
    BY <2>1, <2>2, <2>3, <2>4
<1>18. CASE Crash
  <2>1. MemoryOK'
    <3>1. up' \in BOOLEAN
      BY <1>18 DEF Crash
    <3>2. jobStatus' \in [Jobs -> JobStatus \cup {"Absent"}]
      BY <1>18 DEF Crash
    <3>3. task' \in [Tasks -> TaskStatus \cup {"Absent"}]
      BY <1>18 DEF Crash
    <3>4. /\ parts' \in [Jobs -> 0..MaxParts]
          /\ results' \in [Tasks -> Nat]
          /\ total' \in [Jobs -> 0..MaxParts]
          /\ completed' \in [Jobs -> Nat]
      BY <1>18 DEF Crash
    <3>5. /\ completing' \in (Tasks \X Outcomes) \cup {None}
          /\ reg' \in [Workers -> {"Unknown", "Active", "Down"}]
      BY <1>18 DEF Crash
    <3>6. QED
      BY <3>1, <3>2, <3>3, <3>4, <3>5 DEF MemoryOK
  <2>2. PassesOK'
    BY <1>18 DEF Crash, PassStates, PassesOK, passes
  <2>3. NetworkOK'
    BY <1>18 DEF Crash, NetworkOK, network
  <2>4. BoundsOK'
    BY <1>18 DEF Crash, BoundsOK, bounds
  <2>5. PassOK'
    BY <1>18 DEF Crash, PassOK, PassesOK, passes
  <2>6. DiskOK'
    BY <1>18 DEF Crash, DiskOK, disk
  <2>7. QED
    BY <2>1, <2>2, <2>3, <2>4, <2>5, <2>6
<1>19. ASSUME NEW okJobs \in BOOLEAN, NEW okTasks \in BOOLEAN, NEW kept,
             Restart(okJobs, okTasks, kept)
      PROVE  TypeInv'
  <2>1. MemoryOK'
    BY <1>19 DEF Restart, DiskOK, LoadAllJobs, LoadAllTasks, Normalized,
       JobStatus, TaskStatus, MemoryOK, jobsMap
  <2>2. DiskOK'
    BY <1>19 DEF Restart, LoadAllTasks, Normalized, TaskStatus, DiskOK, disk
  <2>3. BoundsOK'
    BY <1>19 DEF Restart, Errors, BoundsOK, bounds
  <2>4. PassOK'
    BY <1>19 DEF Restart, PassOK, PassesOK, passes
  <2>5. PassesOK' /\ NetworkOK'
    BY <1>19 DEF Restart, PassesOK, NetworkOK, passes, network
  <2>6. QED
    BY <2>1, <2>2, <2>3, <2>4, <2>5
<1>20. CASE UNCHANGED vars
  BY <1>20 DEF vars, TypeOK, PassOK, MemoryOK, PassesOK, DiskOK, NetworkOK,
     BoundsOK, jobsMap, disk, network, passes, bounds
<1>21. QED
  BY <1>1, <1>2, <1>3, <1>4, <1>5, <1>6, <1>7, <1>8, <1>9, <1>10, <1>11,
     <1>12, <1>13, <1>14, <1>15, <1>16, <1>17, <1>18, <1>19, <1>20 DEF Next, Serve,
     PassStep

\* The master, its store and its network keep their types, in every execution.
THEOREM TypeCorrect == Spec => []TypeOK
<1>1. Spec => []TypeInv
  BY TypeInit, TypeStep, PTL DEF Spec
<1>2. TypeInv => TypeOK
  BY DEF TypeInv
<1>3. QED
  BY <1>1, <1>2, PTL

-----------------------------------------------------------------------------
(***************************************************************************)
(* Memory: what a pass carries is in the map                               *)
(***************************************************************************)

Scheduling == {"Select", "Assign", "Persist", "Mark", "Dispatch"}
Holding == {"Assign", "Persist", "Mark", "Dispatch"}

\* A process that is down has no memory and no passes.
DownIsEmpty ==
    ~up => /\ \A t \in Tasks : task[t] = "Absent"
           /\ \A j \in Jobs : jobStatus[j] = "Absent"
           /\ \A i \in Passes : pc[i] = "Idle"
           /\ completing = None

\* A task in a map belongs to a job in the map.
JobKnown == \A t \in Tasks : task[t] # "Absent" => jobStatus[JobOf(t)] # "Absent"

\* Every task that a pass, or complete_task, is at is in the map.
TodoKnown ==
    \A i \in Passes : pc[i] \in Scheduling => \A t \in todo[i] : task[t] # "Absent"
CurKnown == \A i \in Passes : pc[i] \in Holding => task[cur[i]] # "Absent"
ReportKnown == completing # None => task[completing[1]] # "Absent"

MemoryInv ==
    TypeInv /\ DownIsEmpty /\ JobKnown /\ TodoKnown /\ CurKnown /\ ReportKnown

\* It holds initially.
LEMMA MemoryInit == Init => MemoryInv
BY TypeInit
   DEF Init, MemoryInv, DownIsEmpty, JobKnown, TodoKnown, CurKnown, ReportKnown,
       Scheduling, Holding

\* Every step keeps it.
LEMMA MemoryStep == MemoryInv /\ [Next]_vars => MemoryInv'
<1> SUFFICES ASSUME MemoryInv, [Next]_vars PROVE MemoryInv'
  OBVIOUS
<1> USE MasterAssumption, TaskNames DEF MemoryInv, TypeInv, TypeOK, PassOK,
       MemoryOK, PassesOK, Scheduling, Holding
<1>0. TypeInv'
  BY TypeStep
<1>1. ASSUME NEW i \in Passes, NEW j \in Jobs, NEW n \in 0..MaxParts,
             SubmitJob(i, j, n)
      PROVE  MemoryInv'
  <2>1. DownIsEmpty'
    BY <1>1 DEF SubmitJob, Goto, PersistJob, DownIsEmpty, jobsMap
  <2>2. JobKnown'
    BY <1>1 DEF SubmitJob, Goto, PersistJob, JobKnown, jobsMap
  <2>3. TodoKnown'
    BY <1>1 DEF SubmitJob, Goto, PersistJob, TodoKnown, jobsMap
  <2>4. CurKnown'
    BY <1>1 DEF SubmitJob, Goto, PersistJob, CurKnown, jobsMap
  <2>5. ReportKnown'
    BY <1>1 DEF SubmitJob, Goto, PersistJob, ReportKnown, jobsMap
  <2>6. QED
    BY <1>0, <2>1, <2>2, <2>3, <2>4, <2>5
<1>2. ASSUME NEW i \in Passes, NEW ok \in BOOLEAN,
             SubmitTask(i, ok)
      PROVE  MemoryInv'
  <2>1. DownIsEmpty'
    BY <1>2 DEF SubmitTask, Goto, PersistTaskStatus, Heads, DownIsEmpty,
       jobsMap
  <2>2. JobKnown'
    BY <1>2 DEF SubmitTask, Goto, PersistTaskStatus, Heads, JobKnown, jobsMap
  <2>3. TodoKnown'
    <3>1. task' = task /\ \A k \in Passes : pc'[k] \in Scheduling =>
             pc[k] \in Scheduling /\ todo'[k] = todo[k]
      BY <1>2 DEF SubmitTask, Goto, jobsMap
    <3>2. QED
      BY <3>1 DEF TodoKnown
  <2>4. CurKnown'
    BY <1>2 DEF SubmitTask, Goto, PersistTaskStatus, Heads, CurKnown, jobsMap
  <2>5. ReportKnown'
    BY <1>2 DEF SubmitTask, Goto, PersistTaskStatus, Heads, ReportKnown,
       jobsMap
  <2>6. QED
    BY <1>0, <2>1, <2>2, <2>3, <2>4, <2>5
<1>3. ASSUME NEW i \in Passes,
             Publish(i)
      PROVE  MemoryInv'
  <2>1. DownIsEmpty'
    BY <1>3 DEF Publish, Advance, DownIsEmpty
  <2>2. JobKnown'
    <3>1. ASSUME NEW t \in Tasks, task'[t] # "Absent"
          PROVE  jobStatus'[JobOf(t)] # "Absent"
      <4>1. job[i] \in Jobs /\ dParts[job[i]] \in 0..MaxParts
        BY <1>3 DEF Publish, DiskOK
      <4>2. CASE t \in TasksOf(job[i], dParts[job[i]])
        BY <1>3, <4>1, <4>2 DEF Publish
      <4>3. CASE t \notin TasksOf(job[i], dParts[job[i]])
        BY <1>3, <3>1, <4>1, <4>3 DEF Publish, JobKnown
      <4>4. QED
        BY <4>2, <4>3
    <3>2. QED
      BY <3>1 DEF JobKnown
  <2>3. TodoKnown'
    <3>1. job[i] \in Jobs /\ dParts[job[i]] \in 0..MaxParts
      BY <1>3 DEF Publish, DiskOK
    <3>2. QED
      BY <1>3, <3>1 DEF Publish, Advance, TodoKnown
  <2>4. CurKnown'
    BY <1>3 DEF Publish, Advance, CurKnown
  <2>5. ReportKnown'
    BY <1>3 DEF Publish, Advance, ReportKnown
  <2>6. QED
    BY <1>0, <2>1, <2>2, <2>3, <2>4, <2>5
<1>4. ASSUME NEW i \in Passes,
             Snapshot(i)
      PROVE  MemoryInv'
  <2>1. DownIsEmpty'
    BY <1>4 DEF Snapshot, Advance, DownIsEmpty, jobsMap
  <2>2. JobKnown'
    BY <1>4 DEF Snapshot, Advance, JobKnown, jobsMap
  <2>3. TodoKnown'
    BY <1>4 DEF Snapshot, Advance, TodoKnown, jobsMap
  <2>4. CurKnown'
    BY <1>4 DEF Snapshot, Advance, CurKnown, jobsMap
  <2>5. ReportKnown'
    BY <1>4 DEF Snapshot, Advance, ReportKnown, jobsMap
  <2>6. QED
    BY <1>0, <2>1, <2>2, <2>3, <2>4, <2>5
<1>5. ASSUME NEW i \in Passes,
             Select(i)
      PROVE  MemoryInv'
  <2>1. DownIsEmpty'
    BY <1>5 DEF Select, Advance, Goto, Heads, DownIsEmpty, jobsMap
  <2>2. JobKnown'
    BY <1>5 DEF Select, Advance, Goto, Heads, JobKnown, jobsMap
  <2>3. TodoKnown'
    <3>1. /\ task' = task /\ pc[i] = "Select"
          /\ \E t \in Heads(todo[i]) :
                todo' = [todo EXCEPT ![i] = todo[i] \ {t}]
          /\ \A j \in Passes : j # i => pc'[j] = pc[j]
      BY <1>5 DEF Select, Advance, Goto, jobsMap
    <3>2. \A j \in Passes : todo'[j] \subseteq todo[j]
      BY <3>1 DEF TypeInv, TypeOK, PassesOK
    <3>3. \A j \in Passes : pc'[j] \in Scheduling => pc[j] \in Scheduling
      BY <3>1 DEF Scheduling
    <3>4. QED
      BY <3>1, <3>2, <3>3 DEF TodoKnown
  <2>4. CurKnown'
    BY <1>5 DEF Select, Advance, Goto, Heads, CurKnown, TodoKnown, jobsMap
  <2>5. ReportKnown'
    BY <1>5 DEF Select, Advance, Goto, Heads, ReportKnown, jobsMap
  <2>6. QED
    BY <1>0, <2>1, <2>2, <2>3, <2>4, <2>5
<1>6. ASSUME NEW i \in Passes,
             Assign(i)
      PROVE  MemoryInv'
  <2>1. DownIsEmpty'
    BY <1>6 DEF Assign, Goto, DownIsEmpty
  <2>2. JobKnown'
    BY <1>6 DEF Assign, Goto, JobKnown, CurKnown
  <2>3. TodoKnown'
    BY <1>6 DEF Assign, Goto, TodoKnown
  <2>4. CurKnown'
    BY <1>6 DEF Assign, Goto, CurKnown
  <2>5. ReportKnown'
    BY <1>6 DEF Assign, Goto, ReportKnown
  <2>6. QED
    BY <1>0, <2>1, <2>2, <2>3, <2>4, <2>5
<1>7. ASSUME NEW i \in Passes, NEW ok \in BOOLEAN,
             PersistAssign(i, ok)
      PROVE  MemoryInv'
  <2>1. DownIsEmpty'
    BY <1>7 DEF PersistAssign, Goto, PersistTaskStatus, DownIsEmpty, jobsMap
  <2>2. JobKnown'
    BY <1>7 DEF PersistAssign, Goto, PersistTaskStatus, JobKnown, jobsMap
  <2>3. TodoKnown'
    BY <1>7 DEF PersistAssign, Goto, PersistTaskStatus, TodoKnown, jobsMap
  <2>4. CurKnown'
    BY <1>7 DEF PersistAssign, Goto, PersistTaskStatus, CurKnown, jobsMap
  <2>5. ReportKnown'
    BY <1>7 DEF PersistAssign, Goto, PersistTaskStatus, ReportKnown, jobsMap
  <2>6. QED
    BY <1>0, <2>1, <2>2, <2>3, <2>4, <2>5
<1>8. ASSUME NEW i \in Passes, NEW ok \in BOOLEAN,
             MarkRunning(i, ok)
      PROVE  MemoryInv'
  <2>1. DownIsEmpty'
    BY <1>8 DEF MarkRunning, Goto, PersistJob, DownIsEmpty
  <2>2. JobKnown'
    BY <1>8 DEF MarkRunning, Goto, PersistJob, JobKnown
  <2>3. TodoKnown'
    BY <1>8 DEF MarkRunning, Goto, PersistJob, TodoKnown
  <2>4. CurKnown'
    BY <1>8 DEF MarkRunning, Goto, PersistJob, CurKnown
  <2>5. ReportKnown'
    BY <1>8 DEF MarkRunning, Goto, PersistJob, ReportKnown
  <2>6. QED
    BY <1>0, <2>1, <2>2, <2>3, <2>4, <2>5
<1>9. ASSUME NEW i \in Passes, NEW arrives \in BOOLEAN,
             Dispatch(i, arrives)
      PROVE  MemoryInv'
  <2>1. DownIsEmpty'
    BY <1>9 DEF Dispatch, Advance, DownIsEmpty, jobsMap
  <2>2. JobKnown'
    BY <1>9 DEF Dispatch, Advance, JobKnown, jobsMap
  <2>3. TodoKnown'
    BY <1>9 DEF Dispatch, Advance, TodoKnown, jobsMap
  <2>4. CurKnown'
    BY <1>9 DEF Dispatch, Advance, CurKnown, jobsMap
  <2>5. ReportKnown'
    BY <1>9 DEF Dispatch, Advance, ReportKnown, jobsMap
  <2>6. QED
    BY <1>0, <2>1, <2>2, <2>3, <2>4, <2>5
<1>10. ASSUME NEW t \in Tasks, NEW r \in Outcomes, NEW ok \in BOOLEAN,
             CompleteTask(t, r, ok)
      PROVE  MemoryInv'
  <2>1. DownIsEmpty'
    BY <1>10 DEF CompleteTask, PersistTaskResult, DownIsEmpty, passes
  <2>2. JobKnown'
    BY <1>10 DEF CompleteTask, PersistTaskResult, JobKnown, passes
  <2>3. TodoKnown'
    BY <1>10 DEF CompleteTask, PersistTaskResult, TodoKnown, passes
  <2>4. CurKnown'
    BY <1>10 DEF CompleteTask, PersistTaskResult, CurKnown, passes
  <2>5. ReportKnown'
    BY <1>10 DEF CompleteTask, PersistTaskResult, ReportKnown, passes
  <2>6. QED
    BY <1>0, <2>1, <2>2, <2>3, <2>4, <2>5
<1>11. ASSUME NEW ok \in BOOLEAN,
             FinishCompletion(ok)
      PROVE  MemoryInv'
  <2>1. DownIsEmpty'
    BY <1>11 DEF FinishCompletion, PersistJob, JobsUnlocked, DownIsEmpty,
       passes
  <2>2. JobKnown'
    BY <1>11 DEF FinishCompletion, PersistJob, JobsUnlocked, JobKnown, passes
  <2>3. TodoKnown'
    BY <1>11 DEF FinishCompletion, PersistJob, JobsUnlocked, TodoKnown,
       passes
  <2>4. CurKnown'
    BY <1>11 DEF FinishCompletion, PersistJob, JobsUnlocked, CurKnown, passes
  <2>5. ReportKnown'
    BY <1>11 DEF FinishCompletion, PersistJob, JobsUnlocked, ReportKnown,
       passes
  <2>6. QED
    BY <1>0, <2>1, <2>2, <2>3, <2>4, <2>5
<1>12. ASSUME NEW w \in Workers, NEW i \in Passes,
             Register(w, i)
      PROVE  MemoryInv'
  <2>1. DownIsEmpty'
    BY <1>12 DEF Register, Goto, DownIsEmpty, jobsMap
  <2>2. JobKnown'
    BY <1>12 DEF Register, Goto, JobKnown, jobsMap
  <2>3. TodoKnown'
    BY <1>12 DEF Register, Goto, TodoKnown, jobsMap
  <2>4. CurKnown'
    BY <1>12 DEF Register, Goto, CurKnown, jobsMap
  <2>5. ReportKnown'
    BY <1>12 DEF Register, Goto, ReportKnown, jobsMap
  <2>6. QED
    BY <1>0, <2>1, <2>2, <2>3, <2>4, <2>5
<1>13. ASSUME NEW w \in Workers, NEW i \in Passes,
             Heartbeat(w, i)
      PROVE  MemoryInv'
  <2>1. DownIsEmpty'
    BY <1>13 DEF Heartbeat, Goto, DownIsEmpty, jobsMap
  <2>2. JobKnown'
    BY <1>13 DEF Heartbeat, Goto, JobKnown, jobsMap
  <2>3. TodoKnown'
    BY <1>13 DEF Heartbeat, Goto, TodoKnown, jobsMap
  <2>4. CurKnown'
    BY <1>13 DEF Heartbeat, Goto, CurKnown, jobsMap
  <2>5. ReportKnown'
    BY <1>13 DEF Heartbeat, Goto, ReportKnown, jobsMap
  <2>6. QED
    BY <1>0, <2>1, <2>2, <2>3, <2>4, <2>5
<1>14. ASSUME NEW w \in Workers,
             MarkStale(w)
      PROVE  MemoryInv'
  BY <1>0, <1>14 DEF MarkStale, DownIsEmpty, JobKnown, TodoKnown, CurKnown,
       ReportKnown, jobsMap, passes
<1>15. ASSUME NEW w \in Workers,
             WorkerDies(w)
      PROVE  MemoryInv'
  BY <1>0, <1>15 DEF WorkerDies, DownIsEmpty, JobKnown, TodoKnown, CurKnown,
       ReportKnown, jobsMap, passes
<1>16. ASSUME NEW w \in Workers, NEW t \in Tasks, NEW r \in Outcomes,
             Finish(w, t, r)
      PROVE  MemoryInv'
  BY <1>0, <1>16 DEF Finish, DownIsEmpty, JobKnown, TodoKnown, CurKnown,
       ReportKnown, jobsMap, passes
<1>17. ASSUME NEW t \in Tasks, NEW r \in Outcomes,
             LoseReport(t, r)
      PROVE  MemoryInv'
  BY <1>0, <1>17 DEF LoseReport, DownIsEmpty, JobKnown, TodoKnown, CurKnown,
       ReportKnown, jobsMap, passes
<1>18. CASE Crash
  <2>1. DownIsEmpty'
    BY <1>18 DEF Crash, DownIsEmpty
  <2>2. JobKnown'
    BY <1>18 DEF Crash, JobKnown
  <2>3. TodoKnown'
    BY <1>18 DEF Crash, TodoKnown
  <2>4. CurKnown'
    BY <1>18 DEF Crash, CurKnown
  <2>5. ReportKnown'
    BY <1>18 DEF Crash, ReportKnown
  <2>6. QED
    BY <1>0, <2>1, <2>2, <2>3, <2>4, <2>5
<1>19. ASSUME NEW okJobs \in BOOLEAN, NEW okTasks \in BOOLEAN, NEW kept,
             Restart(okJobs, okTasks, kept)
      PROVE  MemoryInv'
  <2>1. DownIsEmpty'
    BY <1>19 DEF Restart, LoadAllJobs, LoadAllTasks, Normalized, DownIsEmpty,
       passes
  <2>2. JobKnown'
    BY <1>19 DEF Restart, LoadAllJobs, LoadAllTasks, Normalized, JobKnown,
       passes
  <2>3. TodoKnown'
    BY <1>19 DEF Restart, LoadAllJobs, LoadAllTasks, Normalized, TodoKnown,
       DownIsEmpty, passes
  <2>4. CurKnown'
    BY <1>19 DEF Restart, LoadAllJobs, LoadAllTasks, Normalized, CurKnown,
       DownIsEmpty, passes
  <2>5. ReportKnown'
    BY <1>19 DEF Restart, LoadAllJobs, LoadAllTasks, Normalized, ReportKnown,
       DownIsEmpty, passes
  <2>6. QED
    BY <1>0, <2>1, <2>2, <2>3, <2>4, <2>5
<1>20. CASE UNCHANGED vars
  BY <1>0, <1>20 DEF vars, DownIsEmpty, JobKnown, TodoKnown, CurKnown,
       ReportKnown, jobsMap, passes
<1> HIDE DEF MemoryInv, TypeInv, TypeOK, PassOK, MemoryOK, PassesOK
<1>21. QED
  BY <1>1, <1>2, <1>3, <1>4, <1>5, <1>6, <1>7, <1>8, <1>9, <1>10, <1>11,
       <1>12, <1>13, <1>14, <1>15, <1>16, <1>17, <1>18, <1>19, <1>20 DEF Next, Serve, PassStep

\* No step strands a task.
LEMMA StrandedStep == MemoryInv /\ NoTaskStranded /\ [Next]_vars => NoTaskStranded'
<1> SUFFICES ASSUME MemoryInv, NoTaskStranded, [Next]_vars, NEW u \in Tasks,
                    task'[u] = "Assigned"
             PROVE  Carried(u)' \/ u \in lost'
  BY DEF NoTaskStranded
<1> USE MasterAssumption DEF MemoryInv, TypeInv, TypeOK, PassOK, MemoryOK,
        PassesOK, NetworkOK, NoTaskStranded, Carried
<1>1. ASSUME NEW i \in Passes, NEW j \in Jobs, NEW n \in 0..MaxParts,
             SubmitJob(i, j, n)
      PROVE  Carried(u)' \/ u \in lost'
  BY <1>1 DEF SubmitJob, Goto, jobsMap, network
<1>2. ASSUME NEW i \in Passes, NEW ok \in BOOLEAN,
             SubmitTask(i, ok)
      PROVE  Carried(u)' \/ u \in lost'
  BY <1>2 DEF SubmitTask, Goto, jobsMap, network
<1>3. ASSUME NEW i \in Passes,
             Publish(i)
      PROVE  Carried(u)' \/ u \in lost'
  BY <1>3 DEF Publish, Advance, network
<1>4. ASSUME NEW i \in Passes,
             Snapshot(i)
      PROVE  Carried(u)' \/ u \in lost'
  BY <1>4 DEF Snapshot, Advance, jobsMap, network
<1>5. ASSUME NEW i \in Passes,
             Select(i)
      PROVE  Carried(u)' \/ u \in lost'
  <2>1. /\ task' = task /\ lost' = lost
        /\ running' = running /\ reports' = reports
    BY <1>5 DEF Select, jobsMap, network
  <2>2. \A k \in Passes : pc[k] \in {"Persist", "Mark", "Dispatch"} =>
           pc'[k] = pc[k] /\ cur'[k] = cur[k]
    BY <1>5 DEF Select, Advance, Goto
  <2>3. QED
    BY <2>1, <2>2
<1>6. ASSUME NEW i \in Passes,
             Assign(i)
      PROVE  Carried(u)' \/ u \in lost'
  BY <1>6 DEF Assign, Goto, network
<1>7. ASSUME NEW i \in Passes, NEW ok \in BOOLEAN,
             PersistAssign(i, ok)
      PROVE  Carried(u)' \/ u \in lost'
  BY <1>7 DEF PersistAssign, Goto, jobsMap, network
<1>8. ASSUME NEW i \in Passes, NEW ok \in BOOLEAN,
             MarkRunning(i, ok)
      PROVE  Carried(u)' \/ u \in lost'
  BY <1>8 DEF MarkRunning, Goto, network
<1>9. ASSUME NEW i \in Passes, NEW arrives \in BOOLEAN,
             Dispatch(i, arrives)
      PROVE  Carried(u)' \/ u \in lost'
  <2>1. task[u] = "Assigned" /\ lost \subseteq lost'
    BY <1>9 DEF Dispatch, jobsMap
  <2>2. CASE u = cur[i]
    <3>1. CASE arrives
      <4>1. target[i] \in Workers
        BY <1>9 DEF Dispatch
      <4>2. running'[<<target[i], u>>] = running[<<target[i], u>>] + 1
        BY <1>9, <2>2, <3>1, <4>1 DEF Dispatch
      <4>3. running'[<<target[i], u>>] > 0
        BY <4>1, <4>2
      <4>4. QED
        BY <4>1, <4>3
    <3>2. CASE ~arrives
      BY <1>9, <2>2, <3>2 DEF Dispatch
    <3>3. QED
      BY <3>1, <3>2
  <2>3. CASE u # cur[i]
    <3>1. \A k \in Passes : cur[k] = u => cur'[k] = u /\ pc'[k] = pc[k]
      BY <1>9, <2>3 DEF Dispatch, Advance
    <3>2. \A w \in Workers : running'[<<w, u>>] = running[<<w, u>>]
      BY <1>9, <2>3 DEF Dispatch
    <3>3. reports' = reports
      BY <1>9 DEF Dispatch
    <3>4. QED
      BY <2>1, <3>1, <3>2, <3>3
  <2>4. QED
    BY <2>2, <2>3
<1>10. ASSUME NEW t \in Tasks, NEW r \in Outcomes, NEW ok \in BOOLEAN,
             CompleteTask(t, r, ok)
      PROVE  Carried(u)' \/ u \in lost'
  <2>1. u # t
    BY <1>10 DEF CompleteTask, JobKnown
  <2>2. task[u] = "Assigned" /\ \A x \in Outcomes : reports'[<<u, x>>] = reports[<<u, x>>]
    BY <1>10, <2>1 DEF CompleteTask
  <2>3. QED
    BY <1>10, <2>2 DEF CompleteTask, passes
<1>11. ASSUME NEW ok \in BOOLEAN,
             FinishCompletion(ok)
      PROVE  Carried(u)' \/ u \in lost'
  BY <1>11 DEF FinishCompletion, JobsUnlocked, passes, network
<1>12. ASSUME NEW w \in Workers, NEW i \in Passes,
             Register(w, i)
      PROVE  Carried(u)' \/ u \in lost'
  BY <1>12 DEF Register, Goto, jobsMap
<1>13. ASSUME NEW w \in Workers, NEW i \in Passes,
             Heartbeat(w, i)
      PROVE  Carried(u)' \/ u \in lost'
  BY <1>13 DEF Heartbeat, Goto, jobsMap, network
<1>14. ASSUME NEW w \in Workers,
             MarkStale(w)
      PROVE  Carried(u)' \/ u \in lost'
  BY <1>14 DEF MarkStale, jobsMap, passes, network
<1>15. ASSUME NEW w \in Workers,
             WorkerDies(w)
      PROVE  Carried(u)' \/ u \in lost'
  BY <1>15 DEF WorkerDies, jobsMap, passes
<1>16. ASSUME NEW w \in Workers, NEW t \in Tasks, NEW r \in Outcomes,
             Finish(w, t, r)
      PROVE  Carried(u)' \/ u \in lost'
  <2>1. task[u] = "Assigned" /\ up
    BY <1>16 DEF Finish, DownIsEmpty, jobsMap
  <2>2. CASE u = t
    <3>1. reports'[<<t, r>>] > 0
      BY <1>16, <2>1 DEF Finish
    <3>2. QED
      BY <2>2, <3>1
  <2>3. CASE u # t
    <3>1. \A v \in Workers : running'[<<v, u>>] = running[<<v, u>>]
      BY <1>16, <2>3 DEF Finish
    <3>2. \A x \in Outcomes : reports'[<<u, x>>] = reports[<<u, x>>]
      BY <1>16, <2>3 DEF Finish
    <3>3. QED
      BY <1>16, <2>1, <3>1, <3>2 DEF Finish, passes
  <2>4. QED
    BY <2>2, <2>3
<1>17. ASSUME NEW t \in Tasks, NEW r \in Outcomes,
             LoseReport(t, r)
      PROVE  Carried(u)' \/ u \in lost'
  BY <1>17 DEF LoseReport, jobsMap, passes
<1>18. CASE Crash
  BY <1>18 DEF Crash
<1>19. ASSUME NEW okJobs \in BOOLEAN, NEW okTasks \in BOOLEAN, NEW kept,
             Restart(okJobs, okTasks, kept)
      PROVE  Carried(u)' \/ u \in lost'
  BY <1>19 DEF Restart, Normalized, passes, network
<1>20. CASE UNCHANGED vars
  BY <1>20 DEF vars, jobsMap, passes, network
<1> HIDE DEF MemoryInv, TypeInv, TypeOK, PassOK, MemoryOK, PassesOK, NetworkOK,
             NoTaskStranded, Carried
<1>21. QED
  BY <1>1, <1>2, <1>3, <1>4, <1>5, <1>6, <1>7, <1>8, <1>9, <1>10, <1>11,
       <1>12, <1>13, <1>14, <1>15, <1>16, <1>17, <1>18, <1>19, <1>20 DEF Next, Serve, PassStep

\* Whatever passes, reports, deaths, losses and crashes do, and in whatever
\* order: an Assigned task has an execution or a report under way, or lost one
\* to a dead worker or to the network.  The master itself drops none.
THEOREM NoStranding == Spec => []NoTaskStranded
<1>1. Init => MemoryInv /\ NoTaskStranded
  <2>1. Init => NoTaskStranded
    BY DEF Init, NoTaskStranded
  <2>2. QED
    BY <2>1, MemoryInit
<1>2. MemoryInv /\ NoTaskStranded /\ [Next]_vars => (MemoryInv /\ NoTaskStranded)'
  BY MemoryStep, StrandedStep
<1>3. QED
  BY <1>1, <1>2, PTL DEF Spec

-----------------------------------------------------------------------------
(***************************************************************************)
(* Disk                                                                    *)
(***************************************************************************)

\* A submission in progress owns its job: the job row is there, the map does
\* not have the job, and the task rows are those already taken off its list.
SubmissionOwnsJob ==
    \A i \in Passes : pc[i] = "PersistTasks" =>
        /\ dJob[job[i]] = "Accepted" /\ jobStatus[job[i]] = "Absent"
        /\ todo[i] \subseteq TasksOf(job[i], dParts[job[i]])
        /\ \A t \in Tasks : JobOf(t) = job[i] =>
              (dTask[t] # "Absent" <=> t \in TasksOf(job[i], dParts[job[i]]) \ todo[i])
        /\ \A k \in Passes : pc[k] = "PersistTasks" /\ job[k] = job[i] => k = i

\* A job in the map has a row.
JobsStored == \A j \in Jobs : jobStatus[j] # "Absent" => dJob[j] # "Absent"

\* Without database errors, the map of a job has every task that has a row.
RowsLoaded ==
    dbErrors = 0 =>
        \A t \in Tasks : jobStatus[JobOf(t)] # "Absent" /\ dTask[t] # "Absent"
                         => task[t] # "Absent"

DiskInv ==
    /\ MemoryInv
    /\ SubmissionOwnsJob /\ JobsStored /\ RowsConsistent
    /\ RowsLoaded /\ NothingForgotten /\ StatusDurable /\ SucceededHasResults

\* It holds initially.
LEMMA DiskInit == Init => DiskInv
BY MemoryInit, TaskNames, MasterAssumption
   DEF Init, DiskInv, SubmissionOwnsJob, JobsStored, RowsConsistent, RowsLoaded,
       NothingForgotten, StatusDurable, SucceededHasResults

\* Every step keeps it.
LEMMA DiskStep == DiskInv /\ [Next]_vars => DiskInv'
<1> SUFFICES ASSUME DiskInv, [Next]_vars PROVE DiskInv'
  OBVIOUS
<1> USE MasterAssumption, TaskNames DEF DiskInv, MemoryInv, TypeInv, TypeOK,
       PassOK, MemoryOK, PassesOK, DiskOK, BoundsOK
<1>0. MemoryInv'
  BY MemoryStep
<1>1. ASSUME NEW i \in Passes, NEW j \in Jobs, NEW n \in 0..MaxParts,
             SubmitJob(i, j, n)
      PROVE  DiskInv'
  <2>1. SubmissionOwnsJob'
    BY <1>1 DEF SubmitJob, Goto, PersistJob, Sql, Errors, SubmissionOwnsJob,
       RowsConsistent, JobsStored, jobsMap
  <2>2. JobsStored'
    BY <1>1 DEF SubmitJob, Goto, PersistJob, Sql, Errors, JobsStored, jobsMap
  <2>3. RowsConsistent'
    BY <1>1 DEF SubmitJob, Goto, PersistJob, Sql, Errors, RowsConsistent,
       jobsMap
  <2>4. RowsLoaded'
    BY <1>1 DEF SubmitJob, Goto, PersistJob, Sql, Errors, RowsLoaded, jobsMap
  <2>5. NothingForgotten'
    BY <1>1 DEF SubmitJob, Goto, PersistJob, Sql, Errors, NothingForgotten,
       jobsMap
  <2>6. StatusDurable'
    BY <1>1 DEF SubmitJob, Goto, PersistJob, Sql, Errors, StatusDurable,
       jobsMap
  <2>7. SucceededHasResults'
    BY <1>1 DEF SubmitJob, Goto, PersistJob, Sql, Errors,
       SucceededHasResults, jobsMap
  <2>8. QED
    BY <1>0, <2>1, <2>2, <2>3, <2>4, <2>5, <2>6, <2>7
<1>2. ASSUME NEW i \in Passes, NEW ok \in BOOLEAN,
             SubmitTask(i, ok)
      PROVE  DiskInv'
  <2>1. SubmissionOwnsJob'
    <3>1. job[i] \in Jobs /\ dParts[job[i]] \in 0..MaxParts
      BY <1>2 DEF SubmitTask
    <3>2. PICK t \in todo[i] :
             /\ dTask' = IF ok THEN [dTask EXCEPT ![t] = "Queued"] ELSE dTask
             /\ ok => /\ todo' = [todo EXCEPT ![i] = @ \ {t}]
                      /\ pc' = pc /\ job' = job
             /\ ~ok => /\ todo' = [todo EXCEPT ![i] = {}]
                       /\ job' = [job EXCEPT ![i] = None]
                       /\ pc' = [pc EXCEPT ![i] = "Idle"]
      BY <1>2 DEF SubmitTask, Heads, PersistTaskStatus, Goto
    <3>3. t \in Tasks /\ JobOf(t) = job[i] /\ t \in TasksOf(job[i], dParts[job[i]])
      BY <1>2, <3>1, <3>2 DEF SubmitTask, SubmissionOwnsJob
    <3>4. dJob' = dJob /\ dParts' = dParts /\ jobStatus' = jobStatus
      BY <1>2 DEF SubmitTask, jobsMap
    <3>5. CASE ok
      <4>1. pc' = pc /\ job' = job /\ dTask' = [dTask EXCEPT ![t] = "Queued"]
        BY <3>2, <3>5
      <4>2. todo' = [todo EXCEPT ![i] = @ \ {t}] /\ pc[i] = "PersistTasks"
        BY <1>2, <3>2, <3>5 DEF SubmitTask
      <4>3. ASSUME NEW k \in Passes, pc'[k] = "PersistTasks"
            PROVE  /\ todo'[k] \subseteq TasksOf(job'[k], dParts'[job'[k]])
                   /\ \A u \in Tasks : JobOf(u) = job'[k] =>
                        (dTask'[u] # "Absent"
                           <=> u \in TasksOf(job'[k], dParts'[job'[k]]) \ todo'[k])
        <5>1. CASE k = i
          <6>1. todo'[k] = todo[i] \ {t}
            BY <4>2, <5>1
          <6>2. \A u \in Tasks : dTask'[u] = IF u = t THEN "Queued" ELSE dTask[u]
            BY <3>3, <4>1
          <6>3. QED
            BY <3>3, <3>4, <4>1, <4>2, <5>1, <6>1, <6>2 DEF SubmissionOwnsJob
        <5>2. CASE k # i
          <6>1. todo'[k] = todo[k] /\ job[k] # job[i]
            BY <4>1, <4>2, <4>3, <5>2 DEF SubmissionOwnsJob
          <6>2. \A u \in Tasks : JobOf(u) = job[k] => dTask'[u] = dTask[u]
            BY <3>3, <4>1, <6>1
          <6>3. QED
            BY <3>4, <4>1, <4>3, <6>1, <6>2 DEF SubmissionOwnsJob
        <5>3. QED
          BY <5>1, <5>2
      <4>4. QED
        BY <3>4, <4>1, <4>3 DEF SubmissionOwnsJob
    <3>6. CASE ~ok
      <4>1. dTask' = dTask
        BY <3>2, <3>6
      <4>2. ASSUME NEW k \in Passes, pc'[k] = "PersistTasks"
            PROVE  pc[k] = "PersistTasks" /\ job'[k] = job[k] /\ todo'[k] = todo[k]
        BY <3>2, <3>6, <4>2
      <4>3. QED
        BY <3>4, <4>1, <4>2 DEF SubmissionOwnsJob
    <3>7. QED
      BY <3>5, <3>6
  <2>2. JobsStored'
    BY <1>2 DEF SubmitTask, Goto, PersistTaskStatus, Heads, Sql, Errors,
       JobsStored, jobsMap
  <2>3. RowsConsistent'
    BY <1>2 DEF SubmitTask, Goto, PersistTaskStatus, Heads, Sql, Errors,
       RowsConsistent, SubmissionOwnsJob, jobsMap
  <2>4. RowsLoaded'
    BY <1>2 DEF SubmitTask, Goto, PersistTaskStatus, Heads, Sql, Errors,
       RowsLoaded, SubmissionOwnsJob, jobsMap
  <2>5. NothingForgotten'
    BY <1>2 DEF SubmitTask, Goto, PersistTaskStatus, Heads, Sql, Errors,
       NothingForgotten, jobsMap
  <2>6. StatusDurable'
    BY <1>2 DEF SubmitTask, Goto, PersistTaskStatus, Heads, Sql, Errors,
       StatusDurable, jobsMap
  <2>7. SucceededHasResults'
    BY <1>2 DEF SubmitTask, Goto, PersistTaskStatus, Heads, Sql, Errors,
       SucceededHasResults, SubmissionOwnsJob, jobsMap
  <2>8. QED
    BY <1>0, <2>1, <2>2, <2>3, <2>4, <2>5, <2>6, <2>7
<1>3. ASSUME NEW i \in Passes,
             Publish(i)
      PROVE  DiskInv'
  <2>1. SubmissionOwnsJob'
    BY <1>3 DEF Publish, Advance, SubmissionOwnsJob, disk
  <2>2. JobsStored'
    BY <1>3 DEF Publish, Advance, JobsStored, SubmissionOwnsJob, disk
  <2>3. RowsConsistent'
    BY <1>3 DEF Publish, Advance, RowsConsistent, disk
  <2>4. RowsLoaded'
    BY <1>3 DEF Publish, Advance, RowsLoaded, SubmissionOwnsJob, disk
  <2>5. NothingForgotten'
    BY <1>3 DEF Publish, Advance, NothingForgotten, SubmissionOwnsJob, disk
  <2>6. StatusDurable'
    BY <1>3 DEF Publish, Advance, StatusDurable, SubmissionOwnsJob, disk
  <2>7. SucceededHasResults'
    BY <1>3 DEF Publish, Advance, SucceededHasResults, disk
  <2>8. QED
    BY <1>0, <2>1, <2>2, <2>3, <2>4, <2>5, <2>6, <2>7
<1>4. ASSUME NEW i \in Passes,
             Snapshot(i)
      PROVE  DiskInv'
  <2>1. SubmissionOwnsJob'
    BY <1>4 DEF Snapshot, Advance, SubmissionOwnsJob, jobsMap, disk
  <2>2. JobsStored'
    BY <1>4 DEF Snapshot, Advance, JobsStored, jobsMap, disk
  <2>3. RowsConsistent'
    BY <1>4 DEF Snapshot, Advance, RowsConsistent, jobsMap, disk
  <2>4. RowsLoaded'
    BY <1>4 DEF Snapshot, Advance, RowsLoaded, jobsMap, disk
  <2>5. NothingForgotten'
    BY <1>4 DEF Snapshot, Advance, NothingForgotten, jobsMap, disk
  <2>6. StatusDurable'
    BY <1>4 DEF Snapshot, Advance, StatusDurable, jobsMap, disk
  <2>7. SucceededHasResults'
    BY <1>4 DEF Snapshot, Advance, SucceededHasResults, jobsMap, disk
  <2>8. QED
    BY <1>0, <2>1, <2>2, <2>3, <2>4, <2>5, <2>6, <2>7
<1>5. ASSUME NEW i \in Passes,
             Select(i)
      PROVE  DiskInv'
  <2>1. SubmissionOwnsJob'
    BY <1>5 DEF Select, Advance, Goto, Heads, SubmissionOwnsJob, jobsMap,
       disk
  <2>2. JobsStored'
    BY <1>5 DEF Select, Advance, Goto, Heads, JobsStored, jobsMap, disk
  <2>3. RowsConsistent'
    BY <1>5 DEF Select, Advance, Goto, Heads, RowsConsistent, jobsMap, disk
  <2>4. RowsLoaded'
    BY <1>5 DEF Select, Advance, Goto, Heads, RowsLoaded, jobsMap, disk
  <2>5. NothingForgotten'
    BY <1>5 DEF Select, Advance, Goto, Heads, NothingForgotten, jobsMap, disk
  <2>6. StatusDurable'
    BY <1>5 DEF Select, Advance, Goto, Heads, StatusDurable, jobsMap, disk
  <2>7. SucceededHasResults'
    BY <1>5 DEF Select, Advance, Goto, Heads, SucceededHasResults, jobsMap,
       disk
  <2>8. QED
    BY <1>0, <2>1, <2>2, <2>3, <2>4, <2>5, <2>6, <2>7
<1>6. ASSUME NEW i \in Passes,
             Assign(i)
      PROVE  DiskInv'
  <2>1. SubmissionOwnsJob'
    BY <1>6 DEF Assign, Goto, SubmissionOwnsJob, disk
  <2>2. JobsStored'
    BY <1>6 DEF Assign, Goto, JobsStored, disk
  <2>3. RowsConsistent'
    BY <1>6 DEF Assign, Goto, RowsConsistent, disk
  <2>4. RowsLoaded'
    BY <1>6 DEF Assign, Goto, RowsLoaded, disk
  <2>5. NothingForgotten'
    BY <1>6 DEF Assign, Goto, NothingForgotten, CurKnown, Holding, disk
  <2>6. StatusDurable'
    BY <1>6 DEF Assign, Goto, StatusDurable, disk
  <2>7. SucceededHasResults'
    BY <1>6 DEF Assign, Goto, SucceededHasResults, disk
  <2>8. QED
    BY <1>0, <2>1, <2>2, <2>3, <2>4, <2>5, <2>6, <2>7
<1>7. ASSUME NEW i \in Passes, NEW ok \in BOOLEAN,
             PersistAssign(i, ok)
      PROVE  DiskInv'
  <2>1. SubmissionOwnsJob'
    BY <1>7 DEF PersistAssign, Goto, PersistTaskStatus, Sql, Errors,
       SubmissionOwnsJob, CurKnown, JobKnown, Holding, jobsMap
  <2>2. JobsStored'
    BY <1>7 DEF PersistAssign, Goto, PersistTaskStatus, Sql, Errors,
       JobsStored, jobsMap
  <2>3. RowsConsistent'
    BY <1>7 DEF PersistAssign, Goto, PersistTaskStatus, Sql, Errors,
       RowsConsistent, CurKnown, JobKnown, Holding, JobsStored, jobsMap
  <2>4. RowsLoaded'
    BY <1>7 DEF PersistAssign, Goto, PersistTaskStatus, Sql, Errors,
       RowsLoaded, CurKnown, JobKnown, Holding, jobsMap
  <2>5. NothingForgotten'
    BY <1>7 DEF PersistAssign, Goto, PersistTaskStatus, Sql, Errors,
       NothingForgotten, jobsMap
  <2>6. StatusDurable'
    BY <1>7 DEF PersistAssign, Goto, PersistTaskStatus, Sql, Errors,
       StatusDurable, jobsMap
  <2>7. SucceededHasResults'
    BY <1>7 DEF PersistAssign, Goto, PersistTaskStatus, Sql, Errors,
       SucceededHasResults, CurKnown, JobKnown, Holding, NothingForgotten,
       jobsMap
  <2>8. QED
    BY <1>0, <2>1, <2>2, <2>3, <2>4, <2>5, <2>6, <2>7
<1>8. ASSUME NEW i \in Passes, NEW ok \in BOOLEAN,
             MarkRunning(i, ok)
      PROVE  DiskInv'
  <2>1. SubmissionOwnsJob'
    <3>1. JobOf(cur[i]) \in Jobs /\ jobStatus[JobOf(cur[i])] # "Absent"
      BY <1>8 DEF MarkRunning, CurKnown, JobKnown, Holding
    <3>2. ASSUME NEW k \in Passes, pc'[k] = "PersistTasks"
          PROVE  /\ pc[k] = "PersistTasks" /\ job'[k] = job[k] /\ todo'[k] = todo[k]
                 /\ dJob'[job[k]] = dJob[job[k]] /\ dParts'[job[k]] = dParts[job[k]]
                 /\ jobStatus'[job[k]] = jobStatus[job[k]]
      <4>1. pc[k] = "PersistTasks" /\ job'[k] = job[k] /\ todo'[k] = todo[k]
        BY <1>8, <3>2 DEF MarkRunning, Goto
      <4>2. job[k] \in Jobs /\ job[k] # JobOf(cur[i])
        BY <3>1, <4>1 DEF SubmissionOwnsJob
      <4>3. QED
        BY <1>8, <3>1, <4>1, <4>2 DEF MarkRunning, PersistJob
    <3>3. dTask' = dTask
      BY <1>8 DEF MarkRunning
    <3>4. QED
      BY <3>2, <3>3 DEF SubmissionOwnsJob
  <2>2. JobsStored'
    BY <1>8 DEF MarkRunning, Goto, PersistJob, Sql, Errors, JobsStored,
       CurKnown, JobKnown, Holding
  <2>3. RowsConsistent'
    BY <1>8 DEF MarkRunning, Goto, PersistJob, Sql, Errors, RowsConsistent
  <2>4. RowsLoaded'
    BY <1>8 DEF MarkRunning, Goto, PersistJob, Sql, Errors, RowsLoaded,
       CurKnown, JobKnown, Holding
  <2>5. NothingForgotten'
    BY <1>8 DEF MarkRunning, Goto, PersistJob, Sql, Errors, NothingForgotten
  <2>6. StatusDurable'
    <3>1. JobOf(cur[i]) \in Jobs
      BY <1>8 DEF MarkRunning
    <3>2. CASE jobStatus[JobOf(cur[i])] = "Running"
      BY <1>8, <3>2 DEF MarkRunning, StatusDurable
    <3>3. CASE jobStatus[JobOf(cur[i])] # "Running"
      <4>1. dbErrors' = 0 => dbErrors = 0 /\ ok
        BY <1>8, <3>3 DEF MarkRunning, PersistJob, Sql, Errors
      <4>2. /\ jobStatus' = [jobStatus EXCEPT ![JobOf(cur[i])] = "Running"]
            /\ ok => dJob' = [dJob EXCEPT ![JobOf(cur[i])] = "Running"]
        BY <1>8, <3>3 DEF MarkRunning, PersistJob
      <4>3. QED
        BY <3>1, <4>1, <4>2 DEF StatusDurable
    <3>4. QED
      BY <3>2, <3>3
  <2>7. SucceededHasResults'
    BY <1>8 DEF MarkRunning, Goto, PersistJob, Sql, Errors,
       SucceededHasResults
  <2>8. QED
    BY <1>0, <2>1, <2>2, <2>3, <2>4, <2>5, <2>6, <2>7
<1>9. ASSUME NEW i \in Passes, NEW arrives \in BOOLEAN,
             Dispatch(i, arrives)
      PROVE  DiskInv'
  <2>1. SubmissionOwnsJob'
    BY <1>9 DEF Dispatch, Advance, SubmissionOwnsJob, jobsMap, disk
  <2>2. JobsStored'
    BY <1>9 DEF Dispatch, Advance, JobsStored, jobsMap, disk
  <2>3. RowsConsistent'
    BY <1>9 DEF Dispatch, Advance, RowsConsistent, jobsMap, disk
  <2>4. RowsLoaded'
    BY <1>9 DEF Dispatch, Advance, RowsLoaded, jobsMap, disk
  <2>5. NothingForgotten'
    BY <1>9 DEF Dispatch, Advance, NothingForgotten, jobsMap, disk
  <2>6. StatusDurable'
    BY <1>9 DEF Dispatch, Advance, StatusDurable, jobsMap, disk
  <2>7. SucceededHasResults'
    BY <1>9 DEF Dispatch, Advance, SucceededHasResults, jobsMap, disk
  <2>8. QED
    BY <1>0, <2>1, <2>2, <2>3, <2>4, <2>5, <2>6, <2>7
<1>10. ASSUME NEW t \in Tasks, NEW r \in Outcomes, NEW ok \in BOOLEAN,
             CompleteTask(t, r, ok)
      PROVE  DiskInv'
  <2>1. SubmissionOwnsJob'
    BY <1>10 DEF CompleteTask, PersistTaskResult, Sql, Errors,
       SubmissionOwnsJob, passes
  <2>2. JobsStored'
    BY <1>10 DEF CompleteTask, PersistTaskResult, Sql, Errors, JobsStored,
       passes
  <2>3. RowsConsistent'
    BY <1>10 DEF CompleteTask, PersistTaskResult, Sql, Errors,
       RowsConsistent, JobsStored, passes
  <2>4. RowsLoaded'
    <3>1. CASE jobStatus[JobOf(t)] = "Absent"
      BY <1>10, <3>1 DEF CompleteTask, RowsLoaded
    <3>2. CASE jobStatus[JobOf(t)] # "Absent"
      <4>1. SUFFICES ASSUME dbErrors' = 0 PROVE RowsLoaded'
        BY DEF RowsLoaded
      <4>2. dbErrors = 0 /\ ok
        BY <1>10, <3>2, <4>1 DEF CompleteTask, PersistTaskResult, Sql, Errors
      <4>3. /\ task' = [task EXCEPT ![t] = r] /\ dTask' = [dTask EXCEPT ![t] = r]
            /\ dResult' = [dResult EXCEPT ![t] = r]
        BY <1>10, <3>2, <4>2 DEF CompleteTask, PersistTaskResult
      <4>4. r # "Absent" /\ r # None
        BY DEF TaskStatus
      <4>5. QED
        BY <1>10, <4>2, <4>3, <4>4 DEF CompleteTask, RowsLoaded
    <3>3. QED
      BY <3>1, <3>2
  <2>5. NothingForgotten'
    <3>1. CASE jobStatus[JobOf(t)] = "Absent"
      BY <1>10, <3>1 DEF CompleteTask, NothingForgotten
    <3>2. CASE jobStatus[JobOf(t)] # "Absent"
      <4>1. SUFFICES ASSUME dbErrors' = 0 PROVE NothingForgotten'
        BY DEF NothingForgotten
      <4>2. dbErrors = 0 /\ ok
        BY <1>10, <3>2, <4>1 DEF CompleteTask, PersistTaskResult, Sql, Errors
      <4>3. /\ task' = [task EXCEPT ![t] = r] /\ dTask' = [dTask EXCEPT ![t] = r]
            /\ dResult' = [dResult EXCEPT ![t] = r]
        BY <1>10, <3>2, <4>2 DEF CompleteTask, PersistTaskResult
      <4>4. r # "Absent" /\ r # None
        BY DEF TaskStatus
      <4>5. QED
        BY <1>10, <4>2, <4>3, <4>4 DEF CompleteTask, NothingForgotten
    <3>3. QED
      BY <3>1, <3>2
  <2>6. StatusDurable'
    BY <1>10 DEF CompleteTask, PersistTaskResult, Sql, Errors, StatusDurable,
       passes
  <2>7. SucceededHasResults'
    <3>1. CASE jobStatus[JobOf(t)] = "Absent"
      BY <1>10, <3>1 DEF CompleteTask, SucceededHasResults
    <3>2. CASE jobStatus[JobOf(t)] # "Absent"
      <4>1. SUFFICES ASSUME dbErrors' = 0 PROVE SucceededHasResults'
        BY DEF SucceededHasResults
      <4>2. dbErrors = 0 /\ ok
        BY <1>10, <3>2, <4>1 DEF CompleteTask, PersistTaskResult, Sql, Errors
      <4>3. /\ task' = [task EXCEPT ![t] = r] /\ dTask' = [dTask EXCEPT ![t] = r]
            /\ dResult' = [dResult EXCEPT ![t] = r]
        BY <1>10, <3>2, <4>2 DEF CompleteTask, PersistTaskResult
      <4>4. r # "Absent" /\ r # None
        BY DEF TaskStatus
      <4>5. QED
        BY <1>10, <4>2, <4>3, <4>4 DEF CompleteTask, SucceededHasResults
    <3>3. QED
      BY <3>1, <3>2
  <2>8. QED
    BY <1>0, <2>1, <2>2, <2>3, <2>4, <2>5, <2>6, <2>7
<1>11. ASSUME NEW ok \in BOOLEAN,
             FinishCompletion(ok)
      PROVE  DiskInv'
  <2>1. SubmissionOwnsJob'
    BY <1>11 DEF FinishCompletion, PersistJob, JobsUnlocked, Sql, Errors,
       SubmissionOwnsJob, ReportKnown, JobKnown, passes
  <2>2. JobsStored'
    BY <1>11 DEF FinishCompletion, PersistJob, JobsUnlocked, Sql, Errors,
       JobsStored, ReportKnown, JobKnown, passes
  <2>3. RowsConsistent'
    BY <1>11 DEF FinishCompletion, PersistJob, JobsUnlocked, Sql, Errors,
       RowsConsistent, passes
  <2>4. RowsLoaded'
    BY <1>11 DEF FinishCompletion, PersistJob, JobsUnlocked, Sql, Errors,
       RowsLoaded, ReportKnown, JobKnown, passes
  <2>5. NothingForgotten'
    BY <1>11 DEF FinishCompletion, PersistJob, JobsUnlocked, Sql, Errors,
       NothingForgotten, passes
  <2>6. StatusDurable'
    BY <1>11 DEF FinishCompletion, PersistJob, JobsUnlocked, Sql, Errors,
       StatusDurable, passes
  <2>7. SucceededHasResults'
    <3> DEFINE done == JobOf(completing[1])
    <3>1. completing[1] \in Tasks /\ done \in Jobs /\ jobStatus[done] # "Absent"
      BY <1>11 DEF FinishCompletion, JobsUnlocked, ReportKnown, JobKnown
    <3>2. SUFFICES ASSUME dbErrors' = 0, NEW u \in Tasks,
                          "Succeeded" \in {jobStatus'[JobOf(u)], dJob'[JobOf(u)]},
                          dTask'[u] # "Absent"
                   PROVE  dResult'[u] # None
      BY DEF SucceededHasResults
    <3>3. dbErrors = 0 /\ dTask' = dTask /\ dResult' = dResult /\ dTask[u] # "Absent"
      BY <1>11, <3>2 DEF FinishCompletion, PersistJob, Sql, Errors
    <3>4. CASE JobOf(u) # done \/ ~NonePending(done)
      BY <1>11, <3>1, <3>2, <3>3, <3>4
         DEF FinishCompletion, PersistJob, Sql, Errors, SucceededHasResults
    <3>5. CASE JobOf(u) = done /\ NonePending(done)
      BY <3>1, <3>3, <3>5 DEF NonePending, RowsLoaded, NothingForgotten
    <3>6. QED
      BY <3>4, <3>5
  <2>8. QED
    BY <1>0, <2>1, <2>2, <2>3, <2>4, <2>5, <2>6, <2>7
<1>12. ASSUME NEW w \in Workers, NEW i \in Passes,
             Register(w, i)
      PROVE  DiskInv'
  BY <1>0, <1>12 DEF Register, Goto, SubmissionOwnsJob, JobsStored, RowsConsistent,
       RowsLoaded, NothingForgotten, StatusDurable, SucceededHasResults,
       jobsMap, disk
<1>13. ASSUME NEW w \in Workers, NEW i \in Passes,
             Heartbeat(w, i)
      PROVE  DiskInv'
  BY <1>0, <1>13 DEF Heartbeat, Goto, SubmissionOwnsJob, JobsStored,
       RowsConsistent, RowsLoaded, NothingForgotten, StatusDurable,
       SucceededHasResults, jobsMap, disk
<1>14. ASSUME NEW w \in Workers,
             MarkStale(w)
      PROVE  DiskInv'
  BY <1>0, <1>14 DEF MarkStale, SubmissionOwnsJob, JobsStored,
       RowsConsistent, RowsLoaded, NothingForgotten, StatusDurable,
       SucceededHasResults, jobsMap, passes, disk
<1>15. ASSUME NEW w \in Workers,
             WorkerDies(w)
      PROVE  DiskInv'
  BY <1>0, <1>15 DEF WorkerDies, SubmissionOwnsJob, JobsStored,
       RowsConsistent, RowsLoaded, NothingForgotten, StatusDurable,
       SucceededHasResults, jobsMap, passes, disk
<1>16. ASSUME NEW w \in Workers, NEW t \in Tasks, NEW r \in Outcomes,
             Finish(w, t, r)
      PROVE  DiskInv'
  BY <1>0, <1>16 DEF Finish, SubmissionOwnsJob, JobsStored, RowsConsistent,
       RowsLoaded, NothingForgotten, StatusDurable, SucceededHasResults,
       jobsMap, passes, disk
<1>17. ASSUME NEW t \in Tasks, NEW r \in Outcomes,
             LoseReport(t, r)
      PROVE  DiskInv'
  BY <1>0, <1>17 DEF LoseReport, SubmissionOwnsJob, JobsStored,
       RowsConsistent, RowsLoaded, NothingForgotten, StatusDurable,
       SucceededHasResults, jobsMap, passes, disk
<1>18. CASE Crash
  <2>1. SubmissionOwnsJob'
    BY <1>18 DEF Crash, SubmissionOwnsJob, disk
  <2>2. JobsStored'
    BY <1>18 DEF Crash, JobsStored, disk
  <2>3. RowsConsistent'
    BY <1>18 DEF Crash, RowsConsistent, disk
  <2>4. RowsLoaded'
    BY <1>18 DEF Crash, RowsLoaded, disk
  <2>5. NothingForgotten'
    BY <1>18 DEF Crash, NothingForgotten, disk
  <2>6. StatusDurable'
    BY <1>18 DEF Crash, StatusDurable, disk
  <2>7. SucceededHasResults'
    BY <1>18 DEF Crash, SucceededHasResults, disk
  <2>8. QED
    BY <1>0, <2>1, <2>2, <2>3, <2>4, <2>5, <2>6, <2>7
<1>19. ASSUME NEW okJobs \in BOOLEAN, NEW okTasks \in BOOLEAN, NEW kept,
             Restart(okJobs, okTasks, kept)
      PROVE  DiskInv'
  <2>1. SubmissionOwnsJob'
    BY <1>19 DEF Restart, LoadAllJobs, LoadAllTasks, Normalized, Errors,
       SubmissionOwnsJob, DownIsEmpty, passes
  <2>2. JobsStored'
    BY <1>19 DEF Restart, LoadAllJobs, LoadAllTasks, Normalized, Errors,
       JobsStored, RowsConsistent, passes
  <2>3. RowsConsistent'
    BY <1>19 DEF Restart, LoadAllJobs, LoadAllTasks, Normalized, Errors,
       RowsConsistent, passes
  <2>4. RowsLoaded'
    BY <1>19 DEF Restart, LoadAllJobs, LoadAllTasks, Normalized, Errors,
       RowsLoaded, passes
  <2>5. NothingForgotten'
    BY <1>19 DEF Restart, LoadAllJobs, LoadAllTasks, Normalized, Errors,
       NothingForgotten, RowsConsistent, TaskStatus, passes
  <2>6. StatusDurable'
    BY <1>19 DEF Restart, LoadAllJobs, LoadAllTasks, Normalized, Errors,
       StatusDurable, RowsConsistent, passes
  <2>7. SucceededHasResults'
    BY <1>19 DEF Restart, LoadAllJobs, LoadAllTasks, Normalized, Errors,
       SucceededHasResults, passes
  <2>8. QED
    BY <1>0, <2>1, <2>2, <2>3, <2>4, <2>5, <2>6, <2>7
<1>20. CASE UNCHANGED vars
  BY <1>0, <1>20 DEF vars, SubmissionOwnsJob, JobsStored, RowsConsistent,
       RowsLoaded, NothingForgotten, StatusDurable, SucceededHasResults,
       jobsMap, passes, disk
<1> HIDE DEF DiskInv, MemoryInv, TypeInv, TypeOK, PassOK, MemoryOK, PassesOK,
         DiskOK, BoundsOK
<1>21. QED
  BY <1>1, <1>2, <1>3, <1>4, <1>5, <1>6, <1>7, <1>8, <1>9, <1>10, <1>11,
       <1>12, <1>13, <1>14, <1>15, <1>16, <1>17, <1>18, <1>19, <1>20 DEF Next, Serve, PassStep

\* Database errors or not, a task row has its job row and a finished row has its
\* result, wherever the master crashed: Master::new never has to invent a job.
THEOREM ConsistentRows == Spec => []RowsConsistent
<1>1. Spec => []DiskInv
  BY DiskInit, DiskStep, PTL DEF Spec
<1>2. DiskInv => RowsConsistent
  BY DEF DiskInv
<1>3. QED
  BY <1>1, <1>2, PTL

\* Without database errors, a crash at any point loses no task and no result.
THEOREM RecoveryForgetsNothing == Spec => []NothingForgotten
<1>1. Spec => []DiskInv
  BY DiskInit, DiskStep, PTL DEF Spec
<1>2. DiskInv => NothingForgotten
  BY DEF DiskInv
<1>3. QED
  BY <1>1, <1>2, PTL

\* Without database errors, the row of a job is what memory says of it.
THEOREM DurableStatus == Spec => []StatusDurable
<1>1. Spec => []DiskInv
  BY DiskInit, DiskStep, PTL DEF Spec
<1>2. DiskInv => StatusDurable
  BY DEF DiskInv
<1>3. QED
  BY <1>1, <1>2, PTL

\* Without database errors, a Succeeded job has a result for each of its rows.
THEOREM SuccessHasResults == Spec => []SucceededHasResults
<1>1. Spec => []DiskInv
  BY DiskInit, DiskStep, PTL DEF Spec
<1>2. DiskInv => SucceededHasResults
  BY DEF DiskInv
<1>3. QED
  BY <1>1, <1>2, PTL

\* No statement erases a result.
LEMMA ResultsStep ==
    TypeInv /\ [Next]_vars => \A u \in Tasks : dResult[u] # None => dResult'[u] # None
<1> SUFFICES ASSUME TypeInv, [Next]_vars, NEW u \in Tasks, dResult[u] # None
             PROVE  dResult'[u] # None
  OBVIOUS
<1>1. ASSUME NEW t \in Tasks, NEW r \in Outcomes, NEW ok \in BOOLEAN,
             CompleteTask(t, r, ok)
      PROVE  dResult'[u] # None
  <2>1. r # None /\ dResult \in [Tasks -> Outcomes \cup {None}]
    BY MasterAssumption DEF TypeInv, TypeOK, DiskOK, TaskStatus
  <2>2. QED
    BY <1>1, <2>1 DEF CompleteTask, PersistTaskResult
<1>2. ASSUME NEW i \in Passes, PassStep(i)
      PROVE  dResult'[u] # None
  BY <1>2 DEF PassStep, SubmitTask, Publish, Snapshot, Select, Assign,
     PersistAssign, MarkRunning, Dispatch, PersistTaskStatus, disk
<1>3. CASE Crash
  BY <1>3 DEF Crash, disk
<1>4. ASSUME NEW okJobs \in BOOLEAN, NEW okTasks \in BOOLEAN, NEW kept,
             Restart(okJobs, okTasks, kept)
      PROVE  dResult'[u] # None
  BY <1>4 DEF Restart
<1>5. ASSUME NEW i \in Passes, NEW j \in Jobs, NEW n \in 0..MaxParts, SubmitJob(i, j, n)
      PROVE  dResult'[u] # None
  BY <1>5 DEF SubmitJob
<1>6. ASSUME NEW ok \in BOOLEAN, FinishCompletion(ok)
      PROVE  dResult'[u] # None
  BY <1>6 DEF FinishCompletion
<1>7. ASSUME NEW w \in Workers, NEW i \in Passes, Register(w, i) \/ Heartbeat(w, i)
      PROVE  dResult'[u] # None
  BY <1>7 DEF Register, Heartbeat, disk
<1>8. ASSUME NEW w \in Workers, MarkStale(w) \/ WorkerDies(w)
      PROVE  dResult'[u] # None
  BY <1>8 DEF MarkStale, WorkerDies, disk
<1>9. ASSUME NEW w \in Workers, NEW t \in Tasks, NEW r \in Outcomes,
             Finish(w, t, r)
      PROVE  dResult'[u] # None
  BY <1>9 DEF Finish, disk
<1>10. ASSUME NEW t \in Tasks, NEW r \in Outcomes, LoseReport(t, r)
      PROVE  dResult'[u] # None
  BY <1>10 DEF LoseReport, disk
<1>11. CASE UNCHANGED vars
  BY <1>11 DEF vars, disk
<1>12. QED
  BY <1>1, <1>2, <1>3, <1>4, <1>5, <1>6, <1>7, <1>8, <1>9, <1>10, <1>11 DEF Next, Serve

\* A stored result is never erased, whatever the interleaving.
THEOREM ResultsAreKept == Spec => ResultsKept
<1>1. Spec => []TypeInv
  BY TypeInit, TypeStep, PTL DEF Spec
<1>2. TypeInv /\ [Next]_vars =>
         [\A t \in Tasks : dResult[t] # None => dResult'[t] # None]_vars
  BY ResultsStep
<1>3. QED
  BY <1>1, <1>2, PTL DEF Spec, ResultsKept

-----------------------------------------------------------------------------
(***************************************************************************)
(* What the refinement needs beyond DiskInv                                *)
(***************************************************************************)

\* A task in the map, in execution or reported on has a row, whatever failed.
RowsHeld ==
    \A t \in Tasks :
        /\ task[t] # "Absent" => dTask[t] # "Absent"
        /\ \A w \in Workers : running[<<w, t>>] > 0 => dTask[t] # "Absent"
        /\ \A r \in Outcomes : reports[<<t, r>>] > 0 => dTask[t] # "Absent"

\* complete_task holds the mutex over a result it has stored.
CompletingStored == completing # None => dResult[completing[1]] = completing[2]

\* Without database errors, the DAG in the map is the one that was stored.
PartsStored ==
    dbErrors = 0 => \A j \in Jobs : jobStatus[j] # "Absent" => parts[j] = dParts[j]

TableInv == DiskInv /\ RowsHeld /\ CompletingStored /\ PartsStored

\* It holds initially.
LEMMA TableInit == Init => TableInv
BY DiskInit, MasterAssumption DEF Init, TableInv, RowsHeld, CompletingStored, PartsStored

\* No step removes a row.
LEMMA RowsStay ==
    DiskInv /\ [Next]_vars => \A t \in Tasks : dTask[t] # "Absent" => dTask'[t] # "Absent"
<1> SUFFICES ASSUME DiskInv, [Next]_vars, NEW u \in Tasks, dTask[u] # "Absent"
             PROVE  dTask'[u] # "Absent"
  OBVIOUS
<1>0. dTask \in [Tasks -> TaskStatus \cup {"Absent"}]
  BY DEF DiskInv, MemoryInv, TypeInv, TypeOK, DiskOK
<1>1. ASSUME NEW i \in Passes, PassStep(i) PROVE dTask'[u] # "Absent"
  <2>1. CASE \E ok \in BOOLEAN : SubmitTask(i, ok)
    BY <1>0, <2>1 DEF SubmitTask, PersistTaskStatus
  <2>2. CASE \E ok \in BOOLEAN : PersistAssign(i, ok)
    BY <1>0, <2>2 DEF PersistAssign, PersistTaskStatus
  <2>3. QED
    BY <1>1, <2>1, <2>2 DEF PassStep, Publish, Snapshot, Select, Assign, MarkRunning,
                            Dispatch, disk
<1>2. ASSUME NEW t \in Tasks, NEW r \in Outcomes, NEW ok \in BOOLEAN, CompleteTask(t, r, ok)
      PROVE  dTask'[u] # "Absent"
  BY <1>0, <1>2, MasterAssumption DEF CompleteTask, PersistTaskResult
<1>3. ASSUME NEW okJobs \in BOOLEAN, NEW okTasks \in BOOLEAN, NEW kept,
             Restart(okJobs, okTasks, kept)
      PROVE  dTask'[u] # "Absent"
  BY <1>0, <1>3 DEF Restart, LoadAllTasks, Normalized
<1>4. CASE UNCHANGED dTask
  BY <1>4
<1>5. QED
  BY <1>1, <1>2, <1>3, <1>4
     DEF Next, Serve, SubmitJob, FinishCompletion, Register, Heartbeat, MarkStale,
         WorkerDies, Finish, LoseReport, Crash, disk, vars

\* Every step keeps the rows of what is known, executed or reported.
LEMMA RowsHeldStep == TableInv /\ [Next]_vars => RowsHeld'
<1> SUFFICES ASSUME TableInv, [Next]_vars, NEW u \in Tasks,
                    dTask'[u] = "Absent"
             PROVE  /\ task'[u] = "Absent"
                    /\ \A w \in Workers : ~(running'[<<w, u>>] > 0)
                    /\ \A r \in Outcomes : ~(reports'[<<u, r>>] > 0)
  BY DEF RowsHeld
<1>0. /\ task \in [Tasks -> TaskStatus \cup {"Absent"}]
      /\ running \in [Workers \X Tasks -> Nat] /\ reports \in [Tasks \X Outcomes -> Nat]
  BY DEF TableInv, DiskInv, MemoryInv, TypeInv, TypeOK, MemoryOK, NetworkOK
<1>1. /\ dTask[u] = "Absent" /\ task[u] = "Absent"
      /\ \A w \in Workers : ~(running[<<w, u>>] > 0)
      /\ \A r \in Outcomes : ~(reports[<<u, r>>] > 0)
  BY RowsStay DEF TableInv, RowsHeld
<1> DEFINE Goal == /\ task'[u] = "Absent"
                   /\ \A w \in Workers : ~(running'[<<w, u>>] > 0)
                   /\ \A r \in Outcomes : ~(reports'[<<u, r>>] > 0)
<1>2. ASSUME NEW i \in Passes, PassStep(i) PROVE Goal
  <2>1. CASE Publish(i)
    <3>1. /\ pc[i] = "PersistTasks" /\ todo[i] = {} /\ job[i] \in Jobs
          /\ dParts[job[i]] \in 0..MaxParts /\ UNCHANGED <<running, reports>>
          /\ task' = [t \in Tasks |-> IF t \in TasksOf(job[i], dParts[job[i]])
                                      THEN "Queued" ELSE task[t]]
      BY <2>1 DEF Publish, network, TableInv, DiskInv, MemoryInv, TypeInv, PassOK, TypeOK,
                  DiskOK
    <3>2. u \notin TasksOf(job[i], dParts[job[i]])
      BY <1>1, <3>1, TaskNames DEF TableInv, DiskInv, SubmissionOwnsJob
    <3>3. QED
      BY <1>1, <3>1, <3>2
  <2>2. CASE Assign(i)
    <3>1. cur[i] # u
      BY <1>1, <2>2 DEF Assign, TableInv, DiskInv, MemoryInv, CurKnown, Holding
    <3>2. QED
      BY <1>0, <1>1, <2>2, <3>1 DEF Assign, network
  <2>3. CASE \E arrives \in BOOLEAN : Dispatch(i, arrives)
    <3>1. cur[i] # u
      BY <1>1, <2>3 DEF Dispatch, TableInv, DiskInv, MemoryInv, CurKnown, Holding
    <3>2. task' = task /\ reports' = reports
          /\ running' \in {running, [running EXCEPT ![<<target[i], cur[i]>>] = @ + 1]}
      BY <2>3 DEF Dispatch, jobsMap
    <3>3. \A w \in Workers : running'[<<w, u>>] = running[<<w, u>>]
      BY <1>0, <3>1, <3>2
    <3>4. QED
      BY <1>1, <3>2, <3>3
  <2>4. CASE UNCHANGED <<task, running, reports>>
    BY <1>1, <2>4
  <2>5. QED
    BY <1>2, <2>1, <2>2, <2>3, <2>4
       DEF PassStep, SubmitTask, Snapshot, Select, PersistAssign, MarkRunning, jobsMap, network
<1>3. ASSUME NEW t \in Tasks, NEW r \in Outcomes, NEW ok \in BOOLEAN, CompleteTask(t, r, ok)
      PROVE  Goal
  <2>1. t # u
    BY <1>1, <1>3 DEF CompleteTask
  <2>2. /\ task'[u] = task[u] /\ running' = running
        /\ \A q \in Outcomes : reports'[<<u, q>>] = reports[<<u, q>>]
    BY <1>0, <1>3, <2>1 DEF CompleteTask
  <2>3. QED
    BY <1>1, <2>2
<1>4. ASSUME NEW w \in Workers, WorkerDies(w) PROVE Goal
  BY <1>0, <1>1, <1>4 DEF WorkerDies, jobsMap
<1>5. ASSUME NEW w \in Workers, NEW t \in Tasks, NEW r \in Outcomes, Finish(w, t, r)
      PROVE  Goal
  <2>1. t # u
    BY <1>1, <1>5 DEF Finish
  <2>2. /\ task' = task
        /\ \A v \in Workers : running'[<<v, u>>] = running[<<v, u>>]
        /\ \A q \in Outcomes : reports'[<<u, q>>] = reports[<<u, q>>]
    BY <1>0, <1>5, <2>1 DEF Finish, jobsMap
  <2>3. QED
    BY <1>1, <2>2
<1>6. ASSUME NEW t \in Tasks, NEW r \in Outcomes, LoseReport(t, r) PROVE Goal
  <2>1. t # u
    BY <1>1, <1>6 DEF LoseReport
  <2>2. /\ task' = task /\ running' = running
        /\ \A q \in Outcomes : reports'[<<u, q>>] = reports[<<u, q>>]
    BY <1>0, <1>6, <2>1 DEF LoseReport, jobsMap
  <2>3. QED
    BY <1>1, <2>2
<1>7. CASE Crash
  <2>1. task'[u] = "Absent" /\ \A r \in Outcomes : reports'[<<u, r>>] = 0
    BY <1>7 DEF Crash
  <2>2. \A w \in Workers : ~(running'[<<w, u>>] > 0)
    BY <1>0, <1>1, <1>7 DEF Crash
  <2>3. QED
    BY <2>1, <2>2
<1>8. ASSUME NEW okJobs \in BOOLEAN, NEW okTasks \in BOOLEAN, NEW kept,
             Restart(okJobs, okTasks, kept)
      PROVE  Goal
  BY <1>1, <1>8 DEF Restart, LoadAllTasks, network
<1>9. CASE UNCHANGED <<task, running, reports>>
  BY <1>1, <1>9
<1>10. QED
  BY <1>2, <1>3, <1>4, <1>5, <1>6, <1>7, <1>8, <1>9
     DEF Next, Serve, SubmitJob, FinishCompletion, Register, Heartbeat, MarkStale,
         jobsMap, network, vars

\* Every step keeps the stored result complete_task is at.
LEMMA CompletingStep == TableInv /\ [Next]_vars => CompletingStored'
<1> SUFFICES ASSUME TableInv, [Next]_vars PROVE CompletingStored'
  OBVIOUS
<1>1. ASSUME NEW t \in Tasks, NEW r \in Outcomes, NEW ok \in BOOLEAN, CompleteTask(t, r, ok)
      PROVE  CompletingStored'
  <2>1. dResult \in [Tasks -> Outcomes \cup {None}]
    BY DEF TableInv, DiskInv, MemoryInv, TypeInv, TypeOK, DiskOK
  <2>2. CASE completing' = None
    BY <2>2 DEF CompletingStored
  <2>3. CASE completing' # None
    <3>1. completing' = <<t, r>> /\ dResult' = [dResult EXCEPT ![t] = r]
      BY <1>1, <2>3 DEF CompleteTask, PersistTaskResult, JobsUnlocked
    <3>2. QED
      BY <2>1, <3>1 DEF CompletingStored
  <2>4. QED
    BY <2>2, <2>3
<1>2. CASE completing' = None
  BY <1>2 DEF CompletingStored
<1>3. CASE UNCHANGED <<completing, dResult>>
  BY <1>3 DEF TableInv, CompletingStored
<1>4. ASSUME NEW i \in Passes, PassStep(i) PROVE UNCHANGED <<completing, dResult>>
  BY <1>4 DEF PassStep, SubmitTask, Publish, Snapshot, Select, Assign, PersistAssign,
              MarkRunning, Dispatch, PersistTaskStatus, jobsMap, disk
<1>5. QED
  BY <1>1, <1>2, <1>3, <1>4
     DEF Next, Serve, SubmitJob, FinishCompletion, Register, Heartbeat, MarkStale,
         WorkerDies, Finish, LoseReport, Crash, Restart, jobsMap, disk, vars

\* Every step keeps the DAG in the map equal to the one in the row.
LEMMA PartsStep == TableInv /\ [Next]_vars => PartsStored'
<1> SUFFICES ASSUME TableInv, [Next]_vars PROVE PartsStored'
  OBVIOUS
<1> USE MasterAssumption, TaskNames
    DEF TableInv, DiskInv, MemoryInv, TypeInv, TypeOK, MemoryOK, DiskOK, BoundsOK
<1>1. ASSUME NEW i \in Passes, NEW j \in Jobs, NEW n \in 0..MaxParts, SubmitJob(i, j, n)
      PROVE  PartsStored'
  BY <1>1 DEF SubmitJob, PersistJob, Sql, Errors, PartsStored, JobsStored, jobsMap
<1>2. ASSUME NEW i \in Passes, Publish(i) PROVE PartsStored'
  <2>1. job[i] \in Jobs
    BY <1>2 DEF Publish, PassOK
  <2>2. QED
    BY <1>2, <2>1 DEF Publish, PartsStored, disk
<1>3. ASSUME NEW i \in Passes, NEW ok \in BOOLEAN, MarkRunning(i, ok) PROVE PartsStored'
  <2>1. cur[i] \in Tasks /\ jobStatus[JobOf(cur[i])] # "Absent"
    BY <1>3 DEF MarkRunning, PassOK, CurKnown, JobKnown, Holding
  <2>2. QED
    BY <1>3, <2>1 DEF MarkRunning, PersistJob, Sql, Errors, PartsStored
<1>4. ASSUME NEW ok \in BOOLEAN, FinishCompletion(ok) PROVE PartsStored'
  <2>1. completing[1] \in Tasks /\ jobStatus[JobOf(completing[1])] # "Absent"
    BY <1>4 DEF FinishCompletion, JobsUnlocked, ReportKnown, JobKnown
  <2>2. QED
    BY <1>4, <2>1 DEF FinishCompletion, PersistJob, Sql, Errors, PartsStored
<1>5. ASSUME NEW okJobs \in BOOLEAN, NEW okTasks \in BOOLEAN, NEW kept,
             Restart(okJobs, okTasks, kept)
      PROVE  PartsStored'
  BY <1>5 DEF Restart, LoadAllJobs, LoadAllTasks, Errors, PartsStored, RowsConsistent
<1>6. CASE Crash
  BY <1>6 DEF Crash, PartsStored
<1>7. ASSUME UNCHANGED <<jobStatus, parts, dParts>>, dbErrors' >= dbErrors PROVE PartsStored'
  BY <1>7 DEF PartsStored
<1>8. ASSUME NEW i \in Passes, NEW ok \in BOOLEAN, SubmitTask(i, ok) \/ PersistAssign(i, ok)
      PROVE  UNCHANGED <<jobStatus, parts, dParts>> /\ dbErrors' >= dbErrors
  BY <1>8 DEF SubmitTask, PersistAssign, PersistTaskStatus, Sql, Errors, jobsMap
<1>9. ASSUME NEW t \in Tasks, NEW r \in Outcomes, NEW ok \in BOOLEAN, CompleteTask(t, r, ok)
      PROVE  UNCHANGED <<jobStatus, parts, dParts>> /\ dbErrors' >= dbErrors
  BY <1>9 DEF CompleteTask, PersistTaskResult, Sql, Errors
<1>10. ASSUME UNCHANGED <<jobStatus, parts, dParts, dbErrors>> PROVE PartsStored'
  BY <1>7, <1>10
<1> HIDE DEF TableInv, DiskInv, MemoryInv, TypeInv, TypeOK, MemoryOK, DiskOK, BoundsOK
<1>11. QED
  BY <1>1, <1>2, <1>3, <1>4, <1>5, <1>6, <1>7, <1>8, <1>9, <1>10
     DEF Next, Serve, PassStep, Snapshot, Select, Assign, Dispatch, Register, Heartbeat,
         MarkStale, WorkerDies, Finish, LoseReport, jobsMap, disk, vars

\* The invariant holds of every behaviour.
LEMMA TableInvariant == Spec => []TableInv
<1>1. TableInv /\ [Next]_vars => TableInv'
  BY DiskStep, RowsHeldStep, CompletingStep, PartsStep DEF TableInv
<1>2. QED
  BY <1>1, TableInit, PTL DEF Spec

-----------------------------------------------------------------------------
(***************************************************************************)
(* The refinement                                                          *)
(***************************************************************************)

Rows == {t \in Tasks : dTask[t] # "Absent"}
TableSame == UNCHANGED <<dJob, dParts, dResult, Rows, dbErrors>>
Failing == UNCHANGED <<dJob, dParts, dResult, Rows>> /\ dbErrors' > 0

\* A step that leaves the rows alone is none of the table, and a failing
\* statement is its Fault.
LEMMA NoTableStep ==
    /\ TableSame => UNCHANGED Table!vars
    /\ Failing => Table!Fault
<1>1. TableSame => UNCHANGED Table!vars
  BY DEF TableSame, Rows, Table!vars
<1>2. ASSUME Failing PROVE Table!Fault
  <2>1. (dbErrors > 0)' = TRUE
    BY <1>2 DEF Failing
  <2>2. QED
    BY <1>2, <2>1 DEF Failing, Rows, Table!Fault
<1>3. QED
  BY <1>1, <1>2

\* Every step of the master is a step of the table, or none.
LEMMA TableStep ==
    TableInv /\ TableInv' /\ [Next]_vars => [Table!Next]_(Table!vars)
<1> SUFFICES ASSUME TableInv, TableInv', [Next]_vars
             PROVE  Table!Next \/ UNCHANGED Table!vars
  OBVIOUS
<1>0. /\ dJob \in [Jobs -> JobStatus \cup {"Absent"}] /\ dParts \in [Jobs -> 0..MaxParts]
      /\ dTask \in [Tasks -> TaskStatus \cup {"Absent"}]
      /\ dResult \in [Tasks -> Outcomes \cup {None}]
      /\ parts \in [Jobs -> 0..MaxParts] /\ dbErrors \in Nat
  BY MasterAssumption
     DEF TableInv, DiskInv, MemoryInv, TypeInv, TypeOK, MemoryOK, DiskOK, BoundsOK
<1>s. ASSUME TableSame \/ Failing PROVE Table!Next \/ UNCHANGED Table!vars
  BY <1>s, NoTableStep DEF Table!Next
<1>1. ASSUME NEW i \in Passes, NEW j \in Jobs, NEW n \in 0..MaxParts, SubmitJob(i, j, n)
      PROVE  Table!Next
  <2>1. Table!Create(j, n)
    BY <1>0, <1>1 DEF SubmitJob, PersistJob, Sql, Errors, Table!Create
  <2>2. QED
    BY <2>1 DEF Table!Next
<1>2. ASSUME NEW i \in Passes, NEW ok \in BOOLEAN, SubmitTask(i, ok)
      PROVE  Table!Next \/ UNCHANGED Table!vars
  <2>1. CASE ~ok
    <3>1. Failing
      BY <1>0, <1>2, <2>1 DEF SubmitTask, PersistTaskStatus, Sql, Errors, Failing, Rows
    <3>2. QED
      BY <1>s, <3>1
  <2>2. CASE ok
    <3>1. job[i] \in Jobs /\ pc[i] = "PersistTasks" /\ dParts[job[i]] \in 0..MaxParts
      BY <1>0, <1>2 DEF SubmitTask, TableInv, DiskInv, MemoryInv, TypeInv, PassOK
    <3>2. PICK t \in todo[i] : dTask' = [dTask EXCEPT ![t] = "Queued"]
      BY <1>2, <2>2 DEF SubmitTask, PersistTaskStatus, Heads
    <3>3. /\ t \in TasksOf(job[i], dParts[job[i]]) /\ dJob[job[i]] = "Accepted"
          /\ t \in Tasks /\ dTask[t] = "Absent"
      BY <3>1, <3>2, TaskNames DEF TableInv, DiskInv, SubmissionOwnsJob
    <3>4. PICK p \in 1..MaxParts : t = <<job[i], p>> /\ p <= dParts[job[i]]
      BY <3>1, <3>3, MasterAssumption DEF TasksOf
    <3>5. Rows' = Rows \cup {t} /\ t \notin Rows
      BY <1>0, <3>2, <3>3 DEF Rows
    <3>6. UNCHANGED <<dJob, dParts, dResult, dbErrors>>
      BY <1>0, <1>2, <2>2 DEF SubmitTask, PersistTaskStatus, Sql, Errors
    <3>7. Table!AddTask(job[i], p)
      BY <3>1, <3>3, <3>4, <3>5, <3>6 DEF Rows, Table!AddTask
    <3>8. QED
      BY <3>1, <3>7 DEF Table!Next
  <2>3. QED
    BY <2>1, <2>2
<1>3. ASSUME NEW i \in Passes, NEW ok \in BOOLEAN, PersistAssign(i, ok)
      PROVE  TableSame \/ Failing
  <2>1. cur[i] \in Tasks /\ dTask[cur[i]] # "Absent"
    BY <1>3 DEF PersistAssign, TableInv, DiskInv, MemoryInv, TypeInv, PassOK, CurKnown,
                Holding, RowsHeld
  <2>2. Rows' = Rows
    BY <1>0, <1>3, <2>1 DEF PersistAssign, PersistTaskStatus, Rows
  <2>3. QED
    BY <1>0, <1>3, <2>2 DEF PersistAssign, PersistTaskStatus, Sql, Errors, TableSame, Failing
<1>4. ASSUME NEW i \in Passes, NEW ok \in BOOLEAN, MarkRunning(i, ok)
      PROVE  Table!Next \/ UNCHANGED Table!vars
  <2> DEFINE j == JobOf(cur[i])
  <2>1. /\ cur[i] \in Tasks /\ j \in Jobs /\ dTask[cur[i]] # "Absent"
        /\ jobStatus[j] # "Absent" /\ dJob[j] # "Absent"
    BY <1>4, TaskNames DEF MarkRunning, TableInv, DiskInv, MemoryInv, TypeInv, PassOK,
       CurKnown, JobKnown, JobsStored, Holding, RowsHeld
  <2>2. Rows' = Rows /\ dResult' = dResult
    BY <1>4 DEF MarkRunning, Rows
  <2>3. CASE jobStatus[j] = "Running"
    <3>1. TableSame
      BY <1>4, <2>2, <2>3 DEF MarkRunning, TableSame
    <3>2. QED
      BY <1>s, <3>1
  <2>4. CASE jobStatus[j] # "Running" /\ ~ok
    <3>1. Failing
      BY <1>0, <1>4, <2>2, <2>4 DEF MarkRunning, PersistJob, Sql, Errors, Failing
    <3>2. QED
      BY <1>s, <3>1
  <2>5. CASE jobStatus[j] # "Running" /\ ok
    <3>1. /\ dJob' = [dJob EXCEPT ![j] = "Running"] /\ dParts' = [dParts EXCEPT ![j] = parts[j]]
          /\ dbErrors' = dbErrors
      BY <1>0, <1>4, <2>5 DEF MarkRunning, PersistJob, Sql, Errors
    <3>2. parts[j] \in 0..MaxParts /\ (dbErrors > 0 \/ parts[j] = dParts[j])
      BY <1>0, <2>1 DEF TableInv, PartsStored
    <3>3. cur[i] \in Rows /\ cur[i][1] = j
      BY <2>1 DEF Rows, JobOf
    <3>4. Table!Update(j, "Running")
      BY <2>1, <2>2, <3>1, <3>2 DEF Rows, Table!Update
    <3>5. Table!Run(j)
      BY <3>3, <3>4 DEF Rows, Table!Run, Table!RowsOf
    <3>6. QED
      BY <2>1, <3>5 DEF Table!Next
  <2>6. QED
    BY <2>3, <2>4, <2>5
<1>5. ASSUME NEW t \in Tasks, NEW r \in Outcomes, NEW ok \in BOOLEAN, CompleteTask(t, r, ok)
      PROVE  Table!Next \/ UNCHANGED Table!vars
  <2>1. CASE jobStatus[JobOf(t)] = "Absent"
    <3>1. TableSame
      BY <1>5, <2>1 DEF CompleteTask, TableSame, Rows
    <3>2. QED
      BY <1>s, <3>1
  <2>2. CASE jobStatus[JobOf(t)] # "Absent" /\ ~ok
    <3>1. Failing
      BY <1>0, <1>5, <2>2 DEF CompleteTask, PersistTaskResult, Sql, Errors, Failing, Rows
    <3>2. QED
      BY <1>s, <3>1
  <2>3. CASE jobStatus[JobOf(t)] # "Absent" /\ ok
    <3>1. /\ dTask' = [dTask EXCEPT ![t] = r] /\ dResult' = [dResult EXCEPT ![t] = r]
          /\ UNCHANGED <<dJob, dParts, dbErrors>>
      BY <1>0, <1>5, <2>3 DEF CompleteTask, PersistTaskResult, Sql, Errors
    <3>2. Rows' = Rows \cup {t}
      BY <1>0, <3>1, MasterAssumption DEF Rows
    <3>3. dJob[t[1]] # "Absent"
      BY <2>3, TaskNames DEF TableInv, DiskInv, JobsStored, JobOf
    <3>4. Table!Record(t, r)
      BY <3>1, <3>2, <3>3 DEF Rows, Table!Record
    <3>5. QED
      BY <3>4 DEF Table!Next, Tasks
  <2>4. QED
    BY <2>1, <2>2, <2>3
<1>6. ASSUME NEW ok \in BOOLEAN, FinishCompletion(ok)
      PROVE  Table!Next \/ UNCHANGED Table!vars
  <2> DEFINE t == completing[1]
             r == completing[2]
             j == JobOf(t)
  <2>1. /\ t \in Tasks /\ r \in Outcomes /\ j \in Jobs /\ dResult[t] = r
        /\ jobStatus[j] # "Absent" /\ dJob[j] # "Absent"
    <3>1. completing # None /\ completing \in (Tasks \X Outcomes) \cup {None}
      BY <1>6 DEF FinishCompletion, JobsUnlocked, TableInv, DiskInv, MemoryInv, TypeInv,
                  TypeOK, MemoryOK
    <3>2. t \in Tasks /\ r \in Outcomes /\ j \in Jobs
      BY <3>1, TaskNames
    <3>3. QED
      BY <3>1, <3>2 DEF TableInv, DiskInv, MemoryInv, ReportKnown, JobKnown, JobsStored,
                        CompletingStored
  <2>2. Rows' = Rows /\ dResult' = dResult
    BY <1>6 DEF FinishCompletion, Rows
  <2> DEFINE new == IF r = "Failed" THEN "Failed"
                    ELSE IF NonePending(j) THEN "Succeeded" ELSE jobStatus[j]
  <2>3. CASE ~(r = "Failed" \/ NonePending(j))
    <3>1. TableSame
      BY <1>6, <2>2, <2>3 DEF FinishCompletion, TableSame
    <3>2. QED
      BY <1>s, <3>1
  <2>4. CASE (r = "Failed" \/ NonePending(j)) /\ ~ok
    <3>1. Failing
      BY <1>0, <1>6, <2>2, <2>4 DEF FinishCompletion, PersistJob, Sql, Errors, Failing
    <3>2. QED
      BY <1>s, <3>1
  <2>5. CASE (r = "Failed" \/ NonePending(j)) /\ ok
    <3>1. /\ dJob' = [dJob EXCEPT ![j] = new] /\ dParts' = [dParts EXCEPT ![j] = parts[j]]
          /\ dbErrors' = dbErrors
      BY <1>0, <1>6, <2>5 DEF FinishCompletion, PersistJob, Sql, Errors
    <3>2. parts[j] \in 0..MaxParts /\ (dbErrors > 0 \/ parts[j] = dParts[j])
      BY <1>0, <2>1 DEF TableInv, PartsStored
    <3> HIDE DEF new, t, r, j
    <3>3. Table!Update(j, new)
      BY <2>1, <2>2, <3>1, <3>2 DEF Rows, Table!Update
    <3>4. CASE r = "Failed"
      <4>1. PICK p \in 1..MaxParts : t = <<j, p>>
        BY <2>1, MasterAssumption DEF Tasks, JobOf, j
      <4>2. new = "Failed" /\ dResult[<<j, p>>] = "Failed"
        BY <2>1, <3>4, <4>1 DEF new
      <4>3. Table!Fail(j)
        BY <3>3, <4>2 DEF Table!Fail
      <4>4. QED
        BY <2>1, <4>3 DEF Table!Next
    <3>5. CASE r # "Failed"
      <4>1. new = "Succeeded" /\ dJob'[j] = "Succeeded"
        BY <1>0, <2>1, <2>5, <3>1, <3>5 DEF new
      <4>2. ASSUME dbErrors = 0, NEW u \in Rows, u[1] = j PROVE dResult[u] # None
        <5>1. u \in Tasks /\ dTask'[u] # "Absent" /\ JobOf(u) = j
          BY <2>2, <4>2 DEF Rows, JobOf
        <5>2. dResult'[u] # None
          BY <3>1, <4>1, <4>2, <5>1 DEF TableInv, DiskInv, SucceededHasResults
        <5>3. QED
          BY <2>2, <5>2
      <4>3. dbErrors > 0 \/ \A u \in Rows : u[1] = j => dResult[u] # None
        BY <1>0, <4>2
      <4>4. Table!Succeed(j)
        BY <3>3, <4>1, <4>3 DEF Rows, Table!Succeed, Table!RowsOf
      <4>5. QED
        BY <2>1, <4>4 DEF Table!Next
    <3>6. QED
      BY <3>4, <3>5
  <2>6. QED
    BY <2>3, <2>4, <2>5
<1>7. ASSUME NEW okJobs \in BOOLEAN, NEW okTasks \in BOOLEAN, NEW kept,
             Restart(okJobs, okTasks, kept)
      PROVE  TableSame \/ Failing
  <2>1. Rows' = Rows
    BY <1>0, <1>7 DEF Restart, LoadAllTasks, Normalized, Rows
  <2>2. UNCHANGED <<dJob, dParts, dResult>> /\ dbErrors' \in Nat /\ dbErrors' >= dbErrors
    BY <1>0, <1>7 DEF Restart, Errors
  <2>3. QED
    BY <1>0, <2>1, <2>2 DEF TableSame, Failing
<1>8. ASSUME UNCHANGED <<dJob, dParts, dTask, dResult, dbErrors>> PROVE TableSame
  BY <1>8 DEF TableSame, Rows
<1>9. QED
  BY <1>1, <1>2, <1>3, <1>4, <1>5, <1>6, <1>7, <1>8, <1>s
     DEF Next, Serve, PassStep, Publish, Snapshot, Select, Assign, Dispatch, Register,
         Heartbeat, MarkStale, WorkerDies, Finish, LoseReport, Crash, disk, vars

\* The master, with its passes, its mutex, crashes and failing statements,
\* implements the table: what JobTable promises a reader of state.db is so.
THEOREM MasterImplementsTable == Spec => TableSpec
<1>1. Init => Table!Init
  <2>1. ASSUME Init PROVE (dbErrors > 0) = FALSE
    BY <2>1 DEF Init
  <2>2. ASSUME Init PROVE {t \in Tasks : dTask[t] # "Absent"} = {}
    BY <2>2 DEF Init
  <2>3. QED
    BY <2>1, <2>2 DEF Init, Table!Init, Tasks
<1>2. QED
  BY <1>1, TableInvariant, TableStep, PTL DEF Spec, TableSpec, Table!Spec

=============================================================================
