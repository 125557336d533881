---------------------------- MODULE ClientProofs ----------------------------
(***************************************************************************)
(* What the answers of the API are worth, for any number of clients, jobs  *)
(* and overlapping passes: an id a client was given stays good across any  *)
(* number of crashes of the master, a client that has seen Succeeded gets  *)
(* every output from then on, and while no two passes hold one task, every *)
(* task is counted once and Succeeded is final.                            *)
(***************************************************************************)
EXTENDS Client, MasterProofs, FiniteSetTheorems

-----------------------------------------------------------------------------
\* The job has its rows, all of them, and a master that is up knows it.
Safe(j) ==
    /\ dJob[j] # "Absent" /\ (up => jobStatus[j] # "Absent")
    /\ \A t \in TasksOf(j, dParts[j]) : dTask[t] # "Absent"

\* A submission in progress is a pass, which still writes the rows of the job
\* or has already published it.
Underway(i, j) ==
    \/ pc[i] = "PersistTasks" /\ job[i] = j
    \/ pc[i] \in Scheduling /\ (dbErrors = 0 => Safe(j))

ClientsOK ==
    /\ client \in [Clients -> {"Idle", "Submitting", "Known", "Watching", "Told"}]
    /\ mine \in [Clients -> Jobs \cup {None}]
    /\ handler \in [Clients -> Passes \cup {None}]
    /\ \A c \in Clients :
          /\ HasId(c) => mine[c] \in Jobs /\ (dbErrors = 0 => Safe(mine[c]))
          /\ client[c] = "Submitting" =>
                mine[c] \in Jobs /\ handler[c] \in Passes /\ Underway(handler[c], mine[c])

ClientInv == TableInv /\ ClientsOK

-----------------------------------------------------------------------------
\* Errors are counted up.
LEMMA ErrorsGrow == TableInv /\ [Next]_vars => dbErrors \in Nat /\ dbErrors' >= dbErrors
<1> SUFFICES ASSUME TableInv, [Next]_vars PROVE dbErrors \in Nat /\ dbErrors' >= dbErrors
  OBVIOUS
<1>0. dbErrors \in Nat
  BY MasterAssumption DEF TableInv, DiskInv, MemoryInv, TypeInv, TypeOK, BoundsOK
<1>1. ASSUME NEW i \in Passes, PassStep(i) PROVE dbErrors' >= dbErrors
  BY <1>0, <1>1
     DEF PassStep, SubmitTask, Publish, Snapshot, Select, Assign, PersistAssign,
         MarkRunning, Dispatch, PersistTaskStatus, PersistJob, Sql, Errors
<1>2. ASSUME NEW i \in Passes, NEW j \in Jobs, NEW n \in 0..MaxParts, SubmitJob(i, j, n)
      PROVE  dbErrors' >= dbErrors
  BY <1>0, <1>2 DEF SubmitJob, PersistJob, Sql, Errors
<1>3. ASSUME NEW t \in Tasks, NEW r \in Outcomes, NEW ok \in BOOLEAN, CompleteTask(t, r, ok)
      PROVE  dbErrors' >= dbErrors
  BY <1>0, <1>3 DEF CompleteTask, PersistTaskResult, Sql, Errors
<1>4. ASSUME NEW ok \in BOOLEAN, FinishCompletion(ok) PROVE dbErrors' >= dbErrors
  BY <1>0, <1>4 DEF FinishCompletion, PersistJob, Sql, Errors
<1>5. ASSUME NEW okJobs \in BOOLEAN, NEW okTasks \in BOOLEAN, NEW kept,
             Restart(okJobs, okTasks, kept)
      PROVE  dbErrors' >= dbErrors
  BY <1>0, <1>5 DEF Restart, Errors
<1>6. CASE dbErrors' = dbErrors
  BY <1>0, <1>6
<1>7. QED
  BY <1>0, <1>1, <1>2, <1>3, <1>4, <1>5, <1>6
     DEF Next, Serve, Register, Heartbeat, MarkStale, WorkerDies, Finish, LoseReport,
         Crash, vars

\* A job that has a row keeps it, and its DAG, while statements succeed; and a
\* master that knows it goes on knowing it until it dies.
LEMMA JobStays ==
    ASSUME TableInv, [Next]_vars, dbErrors' = 0, NEW j \in Jobs, dJob[j] # "Absent"
    PROVE  /\ dJob'[j] # "Absent" /\ dParts'[j] = dParts[j]
           /\ (up => jobStatus[j] # "Absent") => (up' => jobStatus'[j] # "Absent")
<1> DEFINE Goal == /\ dJob'[j] # "Absent" /\ dParts'[j] = dParts[j]
                   /\ (up => jobStatus[j] # "Absent") => (up' => jobStatus'[j] # "Absent")
<1>0. /\ jobStatus \in [Jobs -> JobStatus \cup {"Absent"}]
      /\ dJob \in [Jobs -> JobStatus \cup {"Absent"}] /\ dParts \in [Jobs -> 0..MaxParts]
      /\ dbErrors = 0
  BY ErrorsGrow DEF TableInv, DiskInv, MemoryInv, TypeInv, TypeOK, MemoryOK, DiskOK
<1>1. \A k \in Jobs : jobStatus[k] # "Absent" => parts[k] = dParts[k]
  BY <1>0 DEF TableInv, PartsStored
<1>2. ASSUME NEW i \in Passes, NEW k \in Jobs, NEW n \in 0..MaxParts, SubmitJob(i, k, n)
      PROVE  Goal
  BY <1>0, <1>2 DEF SubmitJob, PersistJob, jobsMap
<1>3. ASSUME NEW i \in Passes, NEW ok \in BOOLEAN, MarkRunning(i, ok) PROVE Goal
  <2>1. jobStatus[JobOf(cur[i])] # "Absent" /\ JobOf(cur[i]) \in Jobs
    BY <1>3, TaskNames DEF MarkRunning, TableInv, DiskInv, MemoryInv, TypeInv, PassOK,
       CurKnown, JobKnown, Holding
  <2>2. QED
    BY <1>0, <1>1, <1>3, <2>1 DEF MarkRunning, PersistJob
<1>4. ASSUME NEW ok \in BOOLEAN, FinishCompletion(ok) PROVE Goal
  <2>1. completing # None /\ completing \in (Tasks \X Outcomes) \cup {None}
    BY <1>4 DEF FinishCompletion, JobsUnlocked, TableInv, DiskInv, MemoryInv, TypeInv,
                TypeOK, MemoryOK
  <2>2. JobOf(completing[1]) \in Jobs /\ jobStatus[JobOf(completing[1])] # "Absent"
    BY <2>1, TaskNames DEF TableInv, DiskInv, MemoryInv, ReportKnown, JobKnown
  <2>3. QED
    BY <1>0, <1>1, <1>4, <2>2 DEF FinishCompletion, PersistJob
<1>5. ASSUME NEW okJobs \in BOOLEAN, NEW okTasks \in BOOLEAN, NEW kept,
             Restart(okJobs, okTasks, kept)
      PROVE  Goal
  <2>1. okJobs
    BY <1>0, <1>5 DEF Restart, Errors
  <2>2. QED
    BY <1>0, <1>5, <2>1 DEF Restart, LoadAllJobs
<1>6. ASSUME NEW i \in Passes, Publish(i) PROVE Goal
  <2>1. job[i] \in Jobs
    BY <1>6 DEF Publish, TableInv, DiskInv, MemoryInv, TypeInv, PassOK
  <2>2. QED
    BY <1>0, <1>6, <2>1 DEF Publish, disk
<1>7. CASE Crash
  BY <1>7 DEF Crash, disk
<1>8. CASE UNCHANGED <<up, jobStatus, dJob, dParts>>
  BY <1>8
<1>9. QED
  BY <1>2, <1>3, <1>4, <1>5, <1>6, <1>7, <1>8
     DEF Next, Serve, PassStep, SubmitTask, Snapshot, Select, Assign, PersistAssign,
         Dispatch, CompleteTask, Register, Heartbeat, MarkStale, WorkerDies, Finish,
         LoseReport, jobsMap, disk, vars

\* A safe job stays safe.
LEMMA SafeStays ==
    ASSUME TableInv, [Next]_vars, dbErrors' = 0, NEW j \in Jobs, dbErrors = 0 => Safe(j)
    PROVE  Safe(j)'
<1>1. dbErrors = 0 /\ Safe(j)
  BY ErrorsGrow
<1>2. dJob'[j] # "Absent" /\ dParts'[j] = dParts[j] /\ (up' => jobStatus'[j] # "Absent")
  BY <1>1, JobStays DEF Safe
<1>3. dParts[j] \in 0..MaxParts
  BY DEF TableInv, DiskInv, MemoryInv, TypeInv, TypeOK, DiskOK
<1>4. \A t \in TasksOf(j, dParts[j]) : dTask'[t] # "Absent"
  BY <1>1, <1>3, RowsStay, TaskNames DEF Safe, TableInv
<1>5. QED
  BY <1>2, <1>4 DEF Safe

\* What a step of the master does to a submission: it goes on writing rows, or
\* it has published a job that is safe, or it goes on scheduling.
LEMMA PassMoves ==
    ASSUME TableInv, Serve, up', NEW i \in Passes, NEW j \in Jobs,
           pc[i] \in {"PersistTasks"} \cup Scheduling, pc[i] = "PersistTasks" => job[i] = j
    PROVE  \/ pc[i] = "PersistTasks" /\ pc'[i] = "PersistTasks" /\ job'[i] = job[i]
           \/ /\ pc[i] = "PersistTasks" /\ pc'[i] \in Scheduling \cup {"Idle"}
              /\ dbErrors' = 0 => Safe(j)'
           \/ pc[i] \in Scheduling /\ pc'[i] \in Scheduling \cup {"Idle"}
<1> DEFINE Goal == \/ pc[i] = "PersistTasks" /\ pc'[i] = "PersistTasks" /\ job'[i] = job[i]
                   \/ /\ pc[i] = "PersistTasks" /\ pc'[i] \in Scheduling \cup {"Idle"}
                      /\ dbErrors' = 0 => Safe(j)'
                   \/ pc[i] \in Scheduling /\ pc'[i] \in Scheduling \cup {"Idle"}
<1>0. pc \in [Passes -> PassStates] /\ job \in [Passes -> Jobs \cup {None}] /\ dbErrors \in Nat
  BY MasterAssumption
     DEF TableInv, DiskInv, MemoryInv, TypeInv, TypeOK, PassesOK, BoundsOK
<1>1. CASE UNCHANGED <<pc, job>>
  BY <1>1 DEF Scheduling
<1>2. ASSUME NEW k \in Passes, PassStep(k) PROVE Goal
  <2>1. CASE k # i
    <3>1. pc'[i] = pc[i] /\ job'[i] = job[i]
      BY <1>0, <1>2, <2>1
         DEF PassStep, SubmitTask, Publish, Snapshot, Select, Assign, PersistAssign,
             MarkRunning, Dispatch, Advance, Goto
    <3>2. QED
      BY <3>1 DEF Scheduling
  <2>2. CASE k = i
    <3>1. ASSUME NEW ok \in BOOLEAN, SubmitTask(i, ok) PROVE Goal
      <4>1. CASE ok
        BY <3>1, <4>1 DEF SubmitTask
      <4>2. CASE ~ok
        <5>1. dbErrors' # 0
          BY <1>0, <3>1, <4>2 DEF SubmitTask, PersistTaskStatus, Sql, Errors
        <5>2. pc[i] = "PersistTasks" /\ pc'[i] = "Idle"
          BY <1>0, <3>1, <4>2 DEF SubmitTask, Goto
        <5>3. QED
          BY <5>1, <5>2
      <4>3. QED
        BY <4>1, <4>2
    <3>2. ASSUME Publish(i) PROVE Goal
      <4>1. /\ pc[i] = "PersistTasks" /\ todo[i] = {} /\ job[i] = j
            /\ UNCHANGED <<up, dJob, dParts, dTask>>
        BY <3>2 DEF Publish, disk, TableInv, DiskInv, MemoryInv, TypeInv, PassOK
      <4>2. pc'[i] \in Scheduling \cup {"Idle"}
        BY <1>0, <3>2 DEF Publish, Advance, Scheduling
      <4>3. jobStatus'[j] = "Accepted"
        BY <3>2, <4>1 DEF Publish, TableInv, DiskInv, MemoryInv, TypeInv, TypeOK, MemoryOK
      <4>4. dParts[j] \in 0..MaxParts
        BY <4>1 DEF TableInv, DiskInv, MemoryInv, TypeInv, TypeOK, DiskOK
      <4>5. /\ dJob[j] = "Accepted"
            /\ \A t \in TasksOf(j, dParts[j]) : dTask[t] # "Absent"
        BY <4>1, <4>4, TaskNames DEF TableInv, DiskInv, SubmissionOwnsJob
      <4>6. QED
        BY <4>1, <4>2, <4>3, <4>5 DEF Safe
    <3>3. ASSUME pc[i] \in Scheduling PROVE pc'[i] \in Scheduling \cup {"Idle"}
      BY <1>0, <1>2, <2>2, <3>3
         DEF PassStep, SubmitTask, Publish, Snapshot, Select, Assign, PersistAssign,
             MarkRunning, Dispatch, Advance, Goto, Scheduling
    <3>4. CASE pc[i] = "PersistTasks"
      BY <1>2, <2>2, <3>1, <3>2, <3>4
         DEF PassStep, Snapshot, Select, Assign, PersistAssign, MarkRunning, Dispatch
    <3>5. QED
      BY <3>3, <3>4
  <2>3. QED
    BY <2>1, <2>2
<1>3. ASSUME NEW w \in Workers, NEW k \in Passes, Register(w, k) \/ Heartbeat(w, k) PROVE Goal
  <2>1. k # i
    BY <1>3 DEF Register, Heartbeat, Scheduling
  <2>2. pc'[i] = pc[i] /\ job'[i] = job[i]
    BY <1>0, <1>3, <2>1 DEF Register, Heartbeat, Goto
  <2>3. QED
    BY <2>2 DEF Scheduling
<1>4. QED
  BY <1>1, <1>2, <1>3
     DEF Serve, CompleteTask, FinishCompletion, MarkStale, WorkerDies, Finish, LoseReport,
         Crash, Restart, passes

-----------------------------------------------------------------------------
\* The invariant holds initially.
LEMMA ClientStart == Init /\ ClientInit => ClientInv
BY TableInit DEF ClientInit, ClientInv, ClientsOK, HasId

\* A step of the master keeps it.
LEMMA ServeStep == ClientInv /\ ServeClients => ClientsOK'
<1> SUFFICES ASSUME ClientInv, ServeClients PROVE ClientsOK'
  OBVIOUS
<1>0. [Next]_vars /\ Serve
  BY DEF ServeClients, Next
<1>1. TableInv /\ ClientsOK
  BY DEF ClientInv
<1>2. /\ client' \in [Clients -> {"Idle", "Submitting", "Known", "Watching", "Told"}]
      /\ mine' \in [Clients -> Jobs \cup {None}]
      /\ handler' \in [Clients -> Passes \cup {None}]
  BY <1>1 DEF ServeClients, ClientsOK
<1>3. ASSUME NEW c \in Clients, HasId(c)', NEW j, mine'[c] = j
      PROVE  j \in Jobs /\ (dbErrors' = 0 => Safe(j)')
  <2>1. CASE c \in Accepted
    <3>1. /\ client[c] = "Submitting" /\ pc'[handler[c]] = "Idle" /\ up'
          /\ mine[c] = j
      BY <1>3, <2>1 DEF Accepted, Answered, ServeClients
    <3>2. PICK i \in Passes : i = handler[c] /\ j \in Jobs /\ Underway(i, j)
      BY <1>1, <3>1 DEF ClientsOK
    <3>3. CASE pc[i] = "PersistTasks" /\ job[i] = j
      BY <1>0, <1>1, <3>1, <3>2, <3>3, PassMoves DEF Scheduling
    <3>4. CASE pc[i] \in Scheduling /\ (dbErrors = 0 => Safe(j))
      BY <1>0, <1>1, <3>2, <3>4, SafeStays
    <3>5. QED
      BY <3>2, <3>3, <3>4 DEF Underway
  <2>2. CASE c \notin Accepted
    <3>1. client'[c] = client[c] /\ mine[c] = j /\ HasId(c)
      BY <1>3, <2>2 DEF ServeClients, HasId
    <3>2. j \in Jobs /\ (dbErrors = 0 => Safe(j))
      BY <1>1, <3>1 DEF ClientsOK
    <3>3. QED
      BY <1>0, <1>1, <3>2, SafeStays
  <2>3. QED
    BY <2>1, <2>2
<1>4. ASSUME NEW c \in Clients, client'[c] = "Submitting",
             NEW j, mine'[c] = j, NEW i, handler'[c] = i
      PROVE  j \in Jobs /\ i \in Passes /\ Underway(i, j)'
  <2>1. /\ client[c] = "Submitting" /\ c \notin Answered
        /\ mine[c] = j /\ handler[c] = i
    BY <1>4 DEF ServeClients, Accepted, Answered
  <2>2. j \in Jobs /\ i \in Passes /\ Underway(i, j)
    BY <1>1, <2>1 DEF ClientsOK
  <2>3. pc'[i] # "Idle"
    BY <2>1 DEF Answered
  <2>4. up'
    BY <2>2, <2>3, MemoryStep, <1>0, <1>1 DEF TableInv, DiskInv, MemoryInv, DownIsEmpty
  <2>5. CASE pc[i] = "PersistTasks" /\ job[i] = j
    BY <1>0, <1>1, <2>2, <2>3, <2>4, <2>5, PassMoves DEF Underway, Scheduling
  <2>6. CASE pc[i] \in Scheduling /\ (dbErrors = 0 => Safe(j))
    <3>1. pc'[i] \in Scheduling
      BY <1>0, <1>1, <2>2, <2>3, <2>4, <2>6, PassMoves DEF Scheduling
    <3>2. dbErrors' = 0 => Safe(j)'
      BY <1>0, <1>1, <2>2, <2>6, SafeStays
    <3>3. QED
      BY <2>2, <3>1, <3>2 DEF Underway
  <2>7. QED
    BY <2>2, <2>5, <2>6 DEF Underway
<1>5. \A c \in Clients : HasId(c)' => mine'[c] \in Jobs /\ (dbErrors = 0 => Safe(mine[c]))'
  BY <1>3 DEF Safe
<1>6. \A c \in Clients : client'[c] = "Submitting" =>
         mine'[c] \in Jobs /\ handler'[c] \in Passes /\ Underway(handler[c], mine[c])'
  BY <1>4 DEF Underway, Safe
<1>7. QED
  BY <1>2, <1>5, <1>6 DEF ClientsOK

\* A submission keeps it.
LEMMA SubmitStep ==
    ASSUME ClientInv, NEW c \in Clients, NEW i \in Passes, NEW j \in Jobs,
           NEW n \in 0..MaxParts, Submit(c, i, j, n)
    PROVE  ClientsOK'
<1>0. [Next]_vars /\ SubmitJob(i, j, n)
  BY DEF Submit, Next
<1>1. TableInv /\ ClientsOK
  BY DEF ClientInv
<1>2. /\ client' = [client EXCEPT ![c] = "Submitting"] /\ mine' = [mine EXCEPT ![c] = j]
      /\ handler' = [handler EXCEPT ![c] = i]
  BY DEF Submit
<1>3. /\ client' \in [Clients -> {"Idle", "Submitting", "Known", "Watching", "Told"}]
      /\ mine' \in [Clients -> Jobs \cup {None}]
      /\ handler' \in [Clients -> Passes \cup {None}]
  BY <1>1, <1>2 DEF ClientsOK
<1>4. pc[i] = "Idle" /\ pc'[i] = "PersistTasks" /\ job'[i] = j
      /\ \A k \in Passes : k # i => pc'[k] = pc[k] /\ job'[k] = job[k]
  BY <1>0, <1>1 DEF SubmitJob, Goto, TableInv, DiskInv, MemoryInv, TypeInv, TypeOK, PassesOK
<1>5. ASSUME NEW d \in Clients, d # c
      PROVE  /\ HasId(d)' => mine'[d] \in Jobs /\ (dbErrors = 0 => Safe(mine[d]))'
             /\ client'[d] = "Submitting" =>
                   mine'[d] \in Jobs /\ handler'[d] \in Passes /\ Underway(handler[d], mine[d])'
  <2>1. client'[d] = client[d] /\ mine'[d] = mine[d] /\ handler'[d] = handler[d]
    BY <1>1, <1>2, <1>5 DEF ClientsOK
  <2>2. ASSUME HasId(d)' PROVE mine'[d] \in Jobs /\ (dbErrors' = 0 => Safe(mine[d])')
    <3>1. mine[d] \in Jobs /\ (dbErrors = 0 => Safe(mine[d]))
      BY <1>1, <2>1, <2>2 DEF ClientsOK, HasId
    <3>2. QED
      BY <1>0, <1>1, <2>1, <3>1, SafeStays DEF Safe
  <2>3. ASSUME client'[d] = "Submitting"
        PROVE  mine'[d] \in Jobs /\ handler'[d] \in Passes /\ Underway(handler[d], mine[d])'
    <3>1. mine[d] \in Jobs /\ handler[d] \in Passes /\ Underway(handler[d], mine[d])
      BY <1>1, <2>1, <2>3 DEF ClientsOK
    <3>2. handler[d] # i
      BY <1>4, <3>1 DEF Underway, Scheduling
    <3>3. pc'[handler[d]] = pc[handler[d]] /\ job'[handler[d]] = job[handler[d]]
      BY <1>4, <3>1, <3>2
    <3>4. (dbErrors = 0 => Safe(mine[d])) => (dbErrors' = 0 => Safe(mine[d])')
      BY <1>0, <1>1, <2>1, <3>1, SafeStays DEF Safe
    <3>5. QED
      BY <2>1, <3>1, <3>3, <3>4 DEF Underway, Safe
  <2>4. QED
    BY <2>2, <2>3
<1>6. /\ ~HasId(c)' /\ mine'[c] \in Jobs /\ handler'[c] \in Passes
      /\ Underway(handler[c], mine[c])'
  BY <1>1, <1>2, <1>4 DEF ClientsOK, HasId, Underway
<1>7. QED
  BY <1>3, <1>5, <1>6 DEF ClientsOK

\* What a client does alone keeps it.
LEMMA AloneStep ==
    ASSUME ClientInv, NEW c \in Clients, GiveUp(c) \/ Watch(c) \/ Poll(c) \/ Fetch(c)
    PROVE  ClientsOK'
<1>0. ClientsOK /\ UNCHANGED vars
  BY DEF ClientInv, GiveUp, Watch, Poll, Fetch
<1>1. /\ \A j : Safe(j)' <=> Safe(j)
      /\ \A i, j : Underway(i, j)' <=> Underway(i, j)
      /\ dbErrors' = dbErrors
  BY <1>0 DEF vars, jobsMap, passes, disk, Safe, Underway
<1>2. CASE GiveUp(c)
  BY <1>0, <1>1, <1>2 DEF GiveUp, ClientsOK, HasId
<1>3. CASE Watch(c) \/ Poll(c) \/ Fetch(c)
  <2>1. HasId(c) /\ mine' = mine /\ handler' = handler
    BY <1>3 DEF Watch, Poll, Fetch, HasId
  <2>2. PICK s \in {"Known", "Watching", "Told"} : client' = [client EXCEPT ![c] = s]
    BY <1>3 DEF Watch, Poll, Fetch, Shown
  <2>3. QED
    BY <1>0, <1>1, <2>1, <2>2 DEF ClientsOK, HasId
<1>4. QED
  BY <1>2, <1>3

\* Every step with clients is one of the master, and every behaviour too.
LEMMA ClientStepsAreMasterSteps == [ClientNext]_allVars => [Next]_vars
<1>1. ClientNext => Next \/ UNCHANGED vars
  BY DEF ClientNext, ServeClients, Submit, GiveUp, Watch, Poll, Fetch, Next
<1>2. UNCHANGED allVars => UNCHANGED vars
  BY DEF allVars
<1>3. QED
  BY <1>1, <1>2

\* The clients ask and the master acts as if nobody asked: what is proved of the
\* master alone holds with clients.
LEMMA ClientsImplementMaster == ClientSpec => Spec
BY ClientStepsAreMasterSteps, PTL DEF ClientSpec, Spec

\* Every step keeps what clients rely on.
LEMMA ClientsStep == ClientInv /\ [ClientNext]_allVars => ClientsOK'
<1> SUFFICES ASSUME ClientInv, [ClientNext]_allVars PROVE ClientsOK'
  OBVIOUS
<1>1. CASE UNCHANGED allVars
  BY <1>1 DEF ClientInv, ClientsOK, HasId, Underway, Safe, allVars, clientVars, vars,
              jobsMap, passes, disk
<1>2. QED
  BY <1>1, ServeStep, SubmitStep, AloneStep DEF ClientNext

\* The id in the answer to POST /jobs is good for ever: without database
\* errors, a crash at any point forgets neither the job nor one of its tasks,
\* and a restarted master answers for it.
THEOREM AcknowledgedJobsSurvive == ClientSpec => []AcknowledgedSurvives
<1>1. ClientInv /\ [ClientNext]_allVars => ClientsOK'
  BY ClientsStep
<1>2. ClientInv => AcknowledgedSurvives
  <2> SUFFICES ASSUME ClientInv, dbErrors = 0, NEW c \in Clients, HasId(c)
               PROVE  LET j == mine[c]
                      IN  /\ dJob[j] # "Absent" /\ (up => jobStatus[j] # "Absent")
                          /\ \A t \in TasksOf(j, dParts[j]) :
                                dTask[t] # "Absent" /\ (up => task[t] # "Absent")
    BY DEF AcknowledgedSurvives
  <2>1. mine[c] \in Jobs /\ Safe(mine[c]) /\ dParts[mine[c]] \in 0..MaxParts
    BY DEF ClientInv, ClientsOK, TableInv, DiskInv, MemoryInv, TypeInv, TypeOK, DiskOK
  <2>2. \A t \in TasksOf(mine[c], dParts[mine[c]]) :
           t \in Tasks /\ JobOf(t) = mine[c] /\ dTask[t] # "Absent"
    BY <2>1, TaskNames DEF Safe
  <2>3. QED
    BY <2>1, <2>2 DEF Safe, ClientInv, TableInv, DiskInv, RowsLoaded
<1>3. ClientSpec => []TableInv
  BY ClientsImplementMaster, TableInvariant, PTL
<1>4. ClientInv <=> TableInv /\ ClientsOK
  BY DEF ClientInv
<1>5. QED
  BY <1>1, <1>2, <1>3, <1>4, ClientStart, PTL DEF ClientSpec

-----------------------------------------------------------------------------
\* Outputs: rows are within the DAG of their job, an output has a row, and a
\* stored result is among the outputs unless complete_task is still at it.
RowsInside ==
    dbErrors = 0 => \A t \in Tasks : dTask[t] # "Absent" => t[2] <= dParts[JobOf(t)]
OutputsReal == \A t \in Tasks : results[t] > 0 \/ dResult[t] # None => dTask[t] # "Absent"
OutputsLoaded ==
    dbErrors = 0 => \A t \in Tasks : up /\ dResult[t] = "Completed" =>
                       results[t] > 0 \/ (completing # None /\ completing[1] = t)

\* A client that was told Succeeded has all outputs, in memory and stored.
Delivered ==
    dbErrors = 0 /\ "Failed" \notin Outcomes =>
        \A c \in Clients : client[c] = "Told" =>
            \A t \in TasksOf(mine[c], dParts[mine[c]]) :
                dResult[t] = "Completed" /\ (up => results[t] > 0)

OutputsInv == RowsInside /\ OutputsReal /\ OutputsLoaded

\* A new state store has no rows and no outputs.
LEMMA OutputsStart == Init => OutputsInv
BY MasterAssumption DEF TaskStatus, Init, OutputsInv, RowsInside, OutputsReal, OutputsLoaded

\* Rows are written within the DAG that is stored with the job.
LEMMA RowsInsideStep == TableInv /\ RowsInside /\ [Next]_vars => RowsInside'
<1> SUFFICES ASSUME TableInv, RowsInside, [Next]_vars, dbErrors' = 0,
                    NEW u \in Tasks, dTask'[u] # "Absent"
             PROVE  u[2] <= dParts'[JobOf(u)]
  BY DEF RowsInside
<1>0. /\ dTask \in [Tasks -> TaskStatus \cup {"Absent"}] /\ dbErrors = 0
      /\ dJob \in [Jobs -> JobStatus \cup {"Absent"}] /\ JobOf(u) \in Jobs
      /\ \A i \in Passes : pc[i] \in Holding => task[cur[i]] # "Absent" /\ cur[i] \in Tasks
      /\ \A t \in Tasks : task[t] # "Absent" => dTask[t] # "Absent"
  BY ErrorsGrow, TaskNames
     DEF TableInv, DiskInv, MemoryInv, TypeInv, TypeOK, DiskOK, CurKnown, PassOK, Holding, RowsHeld
<1>1. dTask[u] # "Absent" => u[2] <= dParts[JobOf(u)] /\ dJob[JobOf(u)] # "Absent"
  BY <1>0 DEF RowsInside, TableInv, DiskInv, RowsConsistent
<1>2. CASE dTask[u] # "Absent"
  BY <1>0, <1>1, <1>2, JobStays
<1>3. CASE dTask[u] = "Absent"
  <2>1. PICK i \in Passes, ok \in BOOLEAN : SubmitTask(i, ok)
    <3>1. ASSUME NEW i \in Passes, NEW ok \in BOOLEAN, PersistAssign(i, ok) PROVE FALSE
      <4>1. cur[i] # u
        BY <1>0, <1>3, <3>1 DEF PersistAssign, Holding
      <4>2. QED
        BY <1>0, <1>3, <3>1, <4>1 DEF PersistAssign, PersistTaskStatus
    <3>2. ASSUME NEW t \in Tasks, NEW r \in Outcomes, NEW ok \in BOOLEAN, CompleteTask(t, r, ok)
          PROVE  FALSE
      <4>1. t # u
        BY <1>3, <3>2 DEF CompleteTask, TableInv, RowsHeld
      <4>2. QED
        BY <1>0, <1>3, <3>2, <4>1 DEF CompleteTask, PersistTaskResult
    <3>3. ASSUME NEW okJobs \in BOOLEAN, NEW okTasks \in BOOLEAN, NEW kept,
                 Restart(okJobs, okTasks, kept)
          PROVE  FALSE
      BY <1>0, <1>3, <3>3 DEF Restart, LoadAllTasks
    <3>4. dTask' # dTask
      BY <1>3
    <3>5. QED
      BY <3>1, <3>2, <3>3, <3>4
         DEF Next, Serve, PassStep, SubmitJob, Publish, Snapshot, Select, Assign, MarkRunning,
             Dispatch, FinishCompletion, Register, Heartbeat, MarkStale, WorkerDies, Finish,
             LoseReport, Crash, disk, vars
  <2>2. u \in todo[i] /\ pc[i] = "PersistTasks" /\ dParts' = dParts
    <3>1. PICK t \in Heads(todo[i]) : PersistTaskStatus(t, "Queued", ok)
      BY <2>1 DEF SubmitTask
    <3>2. t = u
      BY <1>0, <1>3, <3>1 DEF PersistTaskStatus
    <3>3. QED
      BY <2>1, <3>1, <3>2 DEF SubmitTask, Heads
  <2>3. u \in TasksOf(job[i], dParts[job[i]]) /\ job[i] \in Jobs /\ dParts[job[i]] \in 0..MaxParts
    BY <2>2 DEF TableInv, DiskInv, SubmissionOwnsJob, MemoryInv, TypeInv, PassOK, TypeOK, DiskOK
  <2>4. JobOf(u) = job[i] /\ u[2] <= dParts[job[i]]
    BY <2>3 DEF TasksOf, JobOf
  <2>5. QED
    BY <2>2, <2>4
<1>4. QED
  BY <1>2, <1>3

\* The outputs grow by the report complete_task is at, until the process dies.
LEMMA OutputsStep ==
    ASSUME TableInv, [Next]_vars
    PROVE  \/ UNCHANGED results /\ (up' => up)
           \/ /\ completing # None /\ completing' = None /\ UNCHANGED <<up, dResult, dTask>>
              /\ completing[1] \in Tasks /\ completing[2] \in Outcomes
              /\ completing[2] = "Failed" => results' = results
              /\ completing[2] # "Failed" =>
                    results' = [results EXCEPT ![completing[1]] = @ + 1]
           \/ ~up' /\ \A t \in Tasks : results'[t] = 0
           \/ /\ ~up /\ up' /\ UNCHANGED <<dResult, dJob>>
              /\ \A t \in Tasks : results'[t] > 0 => dTask'[t] # "Absent"
              /\ dbErrors' = 0 =>
                    \A t \in Tasks : dTask[t] # "Absent" /\ dResult[t] = "Completed" => results'[t] > 0
<1> DEFINE Goal ==
       \/ UNCHANGED results /\ (up' => up)
       \/ /\ completing # None /\ completing' = None /\ UNCHANGED <<up, dResult, dTask>>
          /\ completing[1] \in Tasks /\ completing[2] \in Outcomes
          /\ completing[2] = "Failed" => results' = results
          /\ completing[2] # "Failed" => results' = [results EXCEPT ![completing[1]] = @ + 1]
       \/ ~up' /\ \A t \in Tasks : results'[t] = 0
       \/ /\ ~up /\ up' /\ UNCHANGED <<dResult, dJob>>
          /\ \A t \in Tasks : results'[t] > 0 => dTask'[t] # "Absent"
          /\ dbErrors' = 0 =>
                \A t \in Tasks : dTask[t] # "Absent" /\ dResult[t] = "Completed" => results'[t] > 0
<1>0. dbErrors \in Nat /\ completing \in (Tasks \X Outcomes) \cup {None}
  BY ErrorsGrow DEF TableInv, DiskInv, MemoryInv, TypeInv, TypeOK, MemoryOK
<1>1. ASSUME NEW ok \in BOOLEAN, FinishCompletion(ok) PROVE Goal
  <2>1. completing # None /\ completing[1] \in Tasks /\ completing[2] \in Outcomes
    BY <1>0, <1>1 DEF FinishCompletion, JobsUnlocked
  <2>2. QED
    BY <1>1, <2>1, MasterAssumption DEF FinishCompletion
<1>2. CASE Crash
  BY <1>2 DEF Crash
<1>3. ASSUME NEW okJobs \in BOOLEAN, NEW okTasks \in BOOLEAN, NEW kept \in SUBSET Requeued,
             Restart(okJobs, okTasks, kept)
      PROVE  Goal
  <2>1. dbErrors' = 0 => okTasks
    BY <1>0, <1>3 DEF Restart, Errors
  <2>2. /\ ~up /\ up' /\ UNCHANGED <<dResult, dJob>>
        /\ results' = [t \in Tasks |-> IF t \in LoadAllTasks(okTasks) /\ dResult[t] = "Completed"
                                       THEN 1 ELSE 0]
    BY <1>3 DEF Restart
  <2>3. \A t \in LoadAllTasks(okTasks) : dTask'[t] # "Absent"
    BY <1>3, RowsStay DEF TableInv, LoadAllTasks
  <2>4. \A t \in Tasks : results'[t] > 0 => t \in LoadAllTasks(okTasks)
    BY <2>2
  <2>5. ASSUME dbErrors' = 0, NEW t \in Tasks, dTask[t] # "Absent", dResult[t] = "Completed"
        PROVE  results'[t] > 0
    <3>1. t \in LoadAllTasks(okTasks)
      BY <2>1, <2>5 DEF LoadAllTasks
    <3>2. results'[t] = 1
      BY <2>2, <2>5, <3>1
    <3>3. QED
      BY <3>2
  <2>6. QED
    BY <2>2, <2>3, <2>4, <2>5
<1>4. CASE UNCHANGED <<results, up>>
  BY <1>4
<1>5. QED
  BY ZenonT(60), <1>1, <1>2, <1>3, <1>4
     DEF Next, Serve, PassStep, SubmitJob, SubmitTask, Publish, Snapshot, Select, Assign,
         PersistAssign, MarkRunning, Dispatch, CompleteTask, Register, Heartbeat, MarkStale,
         WorkerDies, Finish, LoseReport, jobsMap, vars

\* No step loses an output or leaves one out.
LEMMA OutputsKeep == TableInv /\ OutputsInv /\ [Next]_vars => OutputsReal' /\ OutputsLoaded'
<1> SUFFICES ASSUME TableInv, OutputsInv, [Next]_vars PROVE OutputsReal' /\ OutputsLoaded'
  OBVIOUS
<1>0. /\ results \in [Tasks -> Nat] /\ dResult \in [Tasks -> Outcomes \cup {None}]
      /\ None # "Completed" /\ dbErrors \in Nat /\ dbErrors' >= dbErrors
      /\ \A t \in Tasks : dTask[t] # "Absent" => dTask'[t] # "Absent"
      /\ completing # None => dTask[completing[1]] # "Absent"
      /\ completing # None => completing \in Tasks \X Outcomes
  BY ErrorsGrow, RowsStay, MasterAssumption
     DEF TableInv, DiskInv, MemoryInv, TypeInv, TypeOK, MemoryOK, DiskOK, TaskStatus, RowsHeld,
         ReportKnown
<1>1. OutputsReal'
  <2>1. ASSUME NEW t \in Tasks, results'[t] > 0 PROVE dTask'[t] # "Absent"
    <3>1. results[t] > 0 => dTask'[t] # "Absent"
      BY <1>0 DEF OutputsInv, OutputsReal
    <3>2. QED
      BY <1>0, <2>1, <3>1, OutputsStep
  <2>2. ASSUME NEW t \in Tasks, dResult'[t] # None PROVE dTask'[t] # "Absent"
    <3>1. CASE dResult[t] # None
      BY <1>0, <3>1 DEF OutputsInv, OutputsReal
    <3>2. CASE dResult[t] = None
      <4>1. \E r \in Outcomes : reports[<<t, r>>] > 0
        <5>1. ASSUME NEW u \in Tasks, NEW r \in Outcomes, NEW ok \in BOOLEAN, CompleteTask(u, r, ok)
              PROVE  \E o \in Outcomes : reports[<<t, o>>] > 0
          <6>1. u = t
            BY <1>0, <2>2, <3>2, <5>1 DEF CompleteTask, PersistTaskResult
          <6>2. QED
            BY <5>1, <6>1 DEF CompleteTask
        <5>2. ASSUME NEW i \in Passes, PassStep(i) PROVE UNCHANGED dResult
          BY <5>2 DEF PassStep, SubmitTask, Publish, Snapshot, Select, Assign, PersistAssign,
                      MarkRunning, Dispatch, PersistTaskStatus, disk
        <5>3. CASE \/ UNCHANGED vars \/ Crash
                   \/ \E i \in Passes, j \in Jobs, n \in 0..MaxParts : SubmitJob(i, j, n)
                   \/ \E ok \in BOOLEAN : FinishCompletion(ok)
                   \/ \E okJobs, okTasks \in BOOLEAN, kept \in SUBSET Requeued :
                         Restart(okJobs, okTasks, kept)
          <6>1. UNCHANGED dResult
            BY <5>3 DEF vars, Crash, SubmitJob, FinishCompletion, Restart, disk
          <6>2. QED
            BY <2>2, <3>2, <6>1
        <5>4. CASE \/ \E w \in Workers, i \in Passes : Register(w, i) \/ Heartbeat(w, i)
                   \/ \E w \in Workers : MarkStale(w) \/ WorkerDies(w)
                   \/ \E w \in Workers, u \in Tasks, r \in Outcomes : Finish(w, u, r)
                   \/ \E u \in Tasks, r \in Outcomes : LoseReport(u, r)
          <6>1. UNCHANGED dResult
            BY <5>4 DEF Register, Heartbeat, MarkStale, WorkerDies, Finish, LoseReport, disk
          <6>2. QED
            BY <2>2, <3>2, <6>1
        <5>5. QED
          BY <2>2, <3>2, <5>1, <5>2, <5>3, <5>4 DEF Next, Serve
      <4>2. QED
        BY <1>0, <4>1 DEF TableInv, RowsHeld
    <3>3. QED
      BY <3>1, <3>2
  <2>3. QED
    BY <2>1, <2>2 DEF OutputsReal
<1>2. OutputsLoaded'
  <2> SUFFICES ASSUME dbErrors' = 0, NEW t \in Tasks, up', dResult'[t] = "Completed"
               PROVE  results'[t] > 0 \/ (completing' # None /\ completing'[1] = t)
    BY DEF OutputsLoaded
  <2>0. dbErrors = 0
    BY <1>0
  <2>1. ASSUME up, dResult[t] = "Completed"
        PROVE  results[t] > 0 \/ (completing # None /\ completing[1] = t)
    BY <2>0, <2>1 DEF OutputsInv, OutputsLoaded
  <2>2. CASE \E u \in Tasks, r \in Outcomes, ok \in BOOLEAN : CompleteTask(u, r, ok)
    <3>1. PICK u \in Tasks, r \in Outcomes, ok \in BOOLEAN : CompleteTask(u, r, ok)
      BY <2>2
    <3>2. up /\ results' = results /\ completing = None
      BY <3>1 DEF CompleteTask, JobsUnlocked
    <3>3. CASE dResult[t] = "Completed"
      BY <2>1, <3>2, <3>3
    <3>4. CASE dResult[t] # "Completed"
      <4>1. t = u /\ ok /\ completing' = <<t, r>>
        BY <1>0, <3>1, <3>4 DEF CompleteTask, PersistTaskResult
      <4>2. <<t, r>> # None
        BY MasterAssumption
      <4>3. QED
        BY <4>1, <4>2
    <3>5. QED
      BY <3>3, <3>4
  <2>3. CASE \E ok \in BOOLEAN : FinishCompletion(ok)
    <3>1. PICK ok \in BOOLEAN : FinishCompletion(ok)
      BY <2>3
    <3>2. /\ UNCHANGED <<up, dResult>> /\ completing # None
          /\ completing[1] \in Tasks /\ completing[2] \in Outcomes
      BY <1>0, <3>1 DEF FinishCompletion, JobsUnlocked
    <3>3. dResult[completing[1]] = completing[2]
      BY <3>2 DEF TableInv, CompletingStored
    <3>4. completing[1] = t => results'[t] > 0
      BY <1>0, <3>1, <3>2, <3>3 DEF FinishCompletion
    <3>5. completing[1] # t => results'[t] = results[t]
      BY <1>0, <3>1, <3>2 DEF FinishCompletion
    <3>6. QED
      BY <2>1, <3>2, <3>4, <3>5
  <2>4. CASE \E okJobs, okTasks \in BOOLEAN, kept \in SUBSET Requeued :
                Restart(okJobs, okTasks, kept)
    <3>1. ~up /\ up' /\ dResult' = dResult
      BY <2>4 DEF Restart
    <3>2. dTask[t] # "Absent"
      BY <1>0, <3>1 DEF OutputsInv, OutputsReal
    <3>3. QED
      BY <1>0, <3>1, <3>2, OutputsStep
  <2>5. CASE UNCHANGED <<up, results, completing, dResult>>
    BY <2>1, <2>5
  <2>6. CASE Crash
    BY <2>6 DEF Crash
  <2>7. QED
    BY ZenonT(60), <2>2, <2>3, <2>4, <2>5, <2>6
       DEF Next, Serve, PassStep, SubmitJob, SubmitTask, Publish, Snapshot, Select, Assign,
           PersistAssign, MarkRunning, Dispatch, Register, Heartbeat, MarkStale,
           WorkerDies, Finish, LoseReport, jobsMap, disk, vars, PersistTaskStatus
<1>3. QED
  BY <1>1, <1>2

\* Who was told Succeeded found all outputs there.
LEMMA ToldWhenDelivered ==
    ASSUME ClientInv, OutputsInv, dbErrors = 0, "Failed" \notin Outcomes, NEW j \in Jobs, Safe(j),
           up, JobsUnlocked, jobStatus[j] = "Succeeded", NEW t \in TasksOf(j, dParts[j])
    PROVE  dResult[t] = "Completed" /\ results[t] > 0
<1>1. t \in Tasks /\ JobOf(t) = j /\ dTask[t] # "Absent"
  BY TaskNames DEF Safe, ClientInv, TableInv, DiskInv, MemoryInv, TypeInv, TypeOK, DiskOK
<1>2. dResult[t] # None
  BY <1>1 DEF ClientInv, TableInv, DiskInv, SucceededHasResults
<1>3. dResult[t] = "Completed"
  BY <1>1, <1>2, MasterAssumption
     DEF ClientInv, TableInv, DiskInv, MemoryInv, TypeInv, TypeOK, DiskOK
<1>4. QED
  BY <1>1, <1>3 DEF OutputsInv, OutputsLoaded, JobsUnlocked

\* Steps of the master take nothing away from a job that has all its outputs.
LEMMA DeliveredStays ==
    ASSUME TableInv, OutputsInv, [Next]_vars, dbErrors' = 0, "Failed" \notin Outcomes,
           NEW j \in Jobs, Safe(j), NEW t \in TasksOf(j, dParts'[j]),
           \A u \in TasksOf(j, dParts[j]) : dResult[u] = "Completed" /\ (up => results[u] > 0)
    PROVE  dResult'[t] = "Completed" /\ (up' => results'[t] > 0)
<1>0. dbErrors = 0 /\ dParts'[j] = dParts[j] /\ dParts[j] \in 0..MaxParts
  BY ErrorsGrow, JobStays
     DEF Safe, TableInv, DiskInv, MemoryInv, TypeInv, TypeOK, DiskOK
<1>1. /\ t \in Tasks /\ dTask[t] # "Absent" /\ dResult[t] = "Completed"
      /\ up => results[t] > 0
  BY <1>0, TaskNames DEF Safe
<1>2. /\ dResult' \in [Tasks -> Outcomes \cup {None}] /\ results \in [Tasks -> Nat]
      /\ None # "Completed"
  BY MasterAssumption, MemoryStep
     DEF TableInv, DiskInv, MemoryInv, TypeInv, TypeOK, DiskOK, MemoryOK, TaskStatus
<1>3. dResult'[t] # None
  BY <1>1, <1>2, ResultsStep DEF TableInv, DiskInv, MemoryInv
<1>4. dResult'[t] = "Completed"
  BY <1>1, <1>2, <1>3, MasterAssumption
<1>5. ASSUME up' PROVE results'[t] > 0
  <2>1. CASE ~up
    BY <1>1, <1>5, <2>1, OutputsStep
  <2>2. CASE up
    <3>1. results[t] > 0 /\ results[t] \in Nat
      BY <1>1, <1>2, <2>2
    <3>2. \/ results' = results
          \/ completing[1] \in Tasks /\ results' = [results EXCEPT ![completing[1]] = @ + 1]
      BY <1>5, <2>2, OutputsStep
    <3>3. QED
      BY <1>1, <1>2, <3>1, <3>2
  <2>3. QED
    BY <2>1, <2>2
<1>6. QED
  BY <1>4, <1>5

\* No step takes an output away from a client that has seen Succeeded.
LEMMA DeliveredStep ==
    ClientInv /\ OutputsInv /\ Delivered /\ [ClientNext]_allVars => Delivered'
<1> SUFFICES ASSUME ClientInv, OutputsInv, Delivered, [ClientNext]_allVars,
                    dbErrors' = 0, "Failed" \notin Outcomes, NEW c \in Clients,
                    client'[c] = "Told", NEW t \in TasksOf(mine'[c], dParts'[mine'[c]])
             PROVE  dResult'[t] = "Completed" /\ (up' => results'[t] > 0)
  BY DEF Delivered
<1>0. TableInv /\ ClientsOK
  BY DEF ClientInv
<1>1. ASSUME [Next]_vars, client[c] = "Told", mine'[c] = mine[c]
      PROVE  dResult'[t] = "Completed" /\ (up' => results'[t] > 0)
  <2>1. dbErrors = 0
    BY <1>0, <1>1, ErrorsGrow
  <2>2. mine[c] \in Jobs /\ Safe(mine[c])
    BY <1>0, <1>1, <2>1 DEF ClientsOK, HasId
  <2>3. \A u \in TasksOf(mine[c], dParts[mine[c]]) :
           dResult[u] = "Completed" /\ (up => results[u] > 0)
    BY <1>1, <2>1 DEF Delivered
  <2>4. QED
    BY <1>0, <1>1, <2>2, <2>3, DeliveredStays
<1>2. CASE ServeClients
  <2>1. client[c] = "Told" /\ mine'[c] = mine[c]
    BY <1>2 DEF ServeClients, Answered, Accepted
  <2>2. QED
    BY <1>1, <1>2, <2>1 DEF ServeClients, Next
<1>3. ASSUME NEW d \in Clients, NEW i \in Passes, NEW j \in Jobs, NEW n \in 0..MaxParts,
             Submit(d, i, j, n)
      PROVE  dResult'[t] = "Completed" /\ (up' => results'[t] > 0)
  <2>1. client[c] = "Told" /\ mine'[c] = mine[c]
    BY <1>0, <1>3 DEF Submit, ClientsOK
  <2>2. QED
    BY <1>1, <1>3, <2>1 DEF Submit, Next
<1>4. ASSUME NEW d \in Clients, GiveUp(d) \/ Watch(d)
      PROVE  dResult'[t] = "Completed" /\ (up' => results'[t] > 0)
  <2>1. client[c] = "Told" /\ mine'[c] = mine[c] /\ UNCHANGED vars
    BY <1>0, <1>4 DEF GiveUp, Watch, ClientsOK
  <2>2. QED
    BY <1>1, <2>1
<1>5. ASSUME NEW d \in Clients, Poll(d) \/ Fetch(d)
      PROVE  dResult'[t] = "Completed" /\ (up' => results'[t] > 0)
  <2>1. mine' = mine /\ UNCHANGED vars
    BY <1>5 DEF Poll, Fetch
  <2>2. CASE client[c] = "Told"
    BY <1>1, <2>1, <2>2
  <2>3. CASE client[c] # "Told"
    <3>1. c = d /\ HasId(c)
      BY <1>0, <1>5, <2>3 DEF Poll, Fetch, Shown, ClientsOK, HasId
    <3>2. Reachable(mine[c]) /\ jobStatus[mine[c]] = "Succeeded"
      BY <1>0, <1>5, <2>3, <3>1 DEF Poll, Fetch, Shown, ClientsOK
    <3>3. dbErrors = 0 /\ dParts' = dParts /\ dResult' = dResult /\ results' = results /\ up' = up
      BY <2>1 DEF vars, disk, jobsMap
    <3>4. mine[c] \in Jobs /\ Safe(mine[c])
      BY <1>0, <3>1, <3>3 DEF ClientsOK
    <3>5. QED
      BY <2>1, <3>2, <3>3, <3>4, ToldWhenDelivered DEF Reachable
  <2>4. QED
    BY <2>2, <2>3
<1>6. CASE UNCHANGED allVars
  BY <1>1, <1>6 DEF allVars, clientVars
<1>7. QED
  BY <1>2, <1>3, <1>4, <1>5, <1>6 DEF ClientNext

\* The invariant of module Client, with the tables and the outputs.
LEMMA ClientInvariant == ClientSpec => [](ClientInv /\ OutputsInv)
<1>1. ClientSpec => []TableInv
  BY ClientsImplementMaster, TableInvariant, PTL
<1>2. ClientInv /\ [ClientNext]_allVars => ClientsOK'
  BY ClientsStep
<1>3. ClientInv <=> TableInv /\ ClientsOK
  BY DEF ClientInv
<1>4. [ClientNext]_allVars => [Next]_vars
  BY ClientStepsAreMasterSteps
<1>5. TableInv /\ OutputsInv /\ [Next]_vars => OutputsInv'
  BY RowsInsideStep, OutputsKeep DEF OutputsInv
<1>6. QED
  BY <1>1, <1>2, <1>3, <1>4, <1>5, ClientStart, OutputsStart, PTL DEF ClientSpec

\* Without database errors and failed tasks, a client that has been told
\* Succeeded finds an output of every task, and no other, in every later answer
\* of get_job_status: overlapping passes that run tasks again add entries, and a
\* restart rebuilds them from result_json.
THEOREM OutputsAreKept == ClientSpec => []OutputsStay
<1>1. Init /\ ClientInit => Delivered
  BY DEF ClientInit, Delivered
<1>2. ClientInv /\ OutputsInv /\ Delivered => OutputsStay
  <2> SUFFICES ASSUME ClientInv, OutputsInv, Delivered, dbErrors = 0, "Failed" \notin Outcomes,
                      NEW c \in Clients, client[c] = "Told", up
               PROVE  Outputs(mine[c]) = TasksOf(mine[c], dParts[mine[c]])
    BY DEF OutputsStay
  <2>1. mine[c] \in Jobs /\ dParts[mine[c]] \in 0..MaxParts
    BY DEF ClientInv, ClientsOK, HasId, TableInv, DiskInv, MemoryInv, TypeInv, TypeOK, DiskOK
  <2>2. ASSUME NEW t \in Outputs(mine[c]) PROVE t \in TasksOf(mine[c], dParts[mine[c]])
    <3>1. t \in Tasks /\ JobOf(t) = mine[c] /\ results[t] > 0
      BY <2>2 DEF Outputs
    <3>2. t[2] <= dParts[mine[c]]
      BY <3>1 DEF OutputsInv, OutputsReal, RowsInside
    <3>3. t = <<t[1], t[2]>> /\ t[1] = mine[c] /\ t[2] \in 1..MaxParts
      BY <3>1, Pairs DEF Tasks, JobOf
    <3>4. t[2] \in 1..dParts[mine[c]]
      BY <2>1, <3>2, <3>3, MasterAssumption
    <3>5. QED
      BY <3>3, <3>4 DEF TasksOf
  <2>3. ASSUME NEW t \in TasksOf(mine[c], dParts[mine[c]]) PROVE t \in Outputs(mine[c])
    <3>1. t \in Tasks /\ JobOf(t) = mine[c]
      BY <2>1, <2>3, TaskNames
    <3>2. QED
      BY <2>3, <3>1 DEF Outputs, Delivered
  <2>4. QED
    BY <2>2, <2>3
<1>3. QED
  BY <1>1, <1>2, ClientInvariant, DeliveredStep, PTL DEF ClientSpec

-----------------------------------------------------------------------------
\* As long as no two passes hold the same task, there is at most one pass,
\* execution or report for it, and its status says how far it is.
Disjoint == \A i, k \in Passes : i # k => Held(i) \cap Held(k) = {}
Idle(t) == /\ \A w \in Workers : running[<<w, t>>] = 0
           /\ \A r \in Outcomes : reports[<<t, r>>] = 0
OneCopy(t) ==
    /\ \A w \in Workers : running[<<w, t>>] <= 1
    /\ \A r \in Outcomes : reports[<<t, r>>] <= 1
    /\ \A w, v \in Workers : running[<<w, t>>] > 0 /\ running[<<v, t>>] > 0 => w = v
    /\ \A r, q \in Outcomes : reports[<<t, r>>] > 0 /\ reports[<<t, q>>] > 0 => r = q
    /\ \A w \in Workers, r \in Outcomes : ~(running[<<w, t>>] > 0 /\ reports[<<t, r>>] > 0)
HeldOK ==
    \A i \in Passes :
        /\ pc[i] \in Scheduling => \A t \in todo[i] : task[t] = "Queued"
        /\ pc[i] \in Holding => cur[i] \notin todo[i]
        /\ pc[i] = "Assign" => task[cur[i]] = "Queued"
        /\ pc[i] \in {"Persist", "Mark", "Dispatch"} => task[cur[i]] = "Assigned" /\ Idle(cur[i])
Copies == \A t \in Tasks : OneCopy(t) /\ (~Idle(t) => task[t] = "Assigned")

\* complete_task has set the status it is at; a job that succeeded is done.
StatusOK ==
    /\ completing # None => task[completing[1]] = completing[2]
    /\ \A t \in Tasks : jobStatus[JobOf(t)] = "Succeeded" => task[t] \in {"Absent", "Completed"}

SoloNow == up /\ Disjoint /\ HeldOK /\ Copies /\ StatusOK
Solo == ~shared /\ crashes = 0 => SoloNow

\* Each completed task is counted, but the one complete_task is at.
CountedNow ==
    /\ \A t \in Tasks :
          results[t] = IF /\ task[t] = "Completed"
                          /\ completing # None => completing[1] # t
                       THEN 1 ELSE 0
    /\ \A j \in Jobs : completed[j] = Cardinality({t \in Tasks : JobOf(t) = j /\ results[t] > 0})
Counted == ~shared /\ crashes = 0 /\ dbErrors = 0 => CountedNow

\* Steps that touch no task and no pass at work.
LEMMA SoloQuiet ==
    ASSUME SoloNow, Disjoint', up', task' = task, UNCHANGED <<running, reports>>,
           completing' = completing, NEW i \in Passes,
           \A k \in Passes : k # i => /\ pc'[k] = pc[k] /\ todo'[k] = todo[k] /\ cur'[k] = cur[k],
           pc'[i] \notin Scheduling,
           \A j \in Jobs : jobStatus'[j] = "Succeeded" => jobStatus[j] = "Succeeded"
    PROVE  SoloNow'
<1>1. HeldOK'
  BY DEF SoloNow, HeldOK, Scheduling, Holding, Idle
<1>2. Copies'
  BY DEF SoloNow, Copies, OneCopy, Idle
<1>3. StatusOK'
  BY TaskNames DEF SoloNow, StatusOK
<1>4. QED
  BY <1>1, <1>2, <1>3 DEF SoloNow

\* submit_job puts tasks into the map that no other pass holds.
LEMMA SoloPublish ==
    ASSUME TableInv, SoloNow, Disjoint', NEW i \in Passes, Publish(i)
    PROVE  SoloNow'
<1> DEFINE new == TasksOf(job[i], dParts[job[i]])
<1>0. /\ pc[i] = "PersistTasks" /\ job[i] \in Jobs /\ dParts[job[i]] \in 0..MaxParts
      /\ jobStatus[job[i]] = "Absent" /\ new \subseteq Tasks
      /\ pc \in [Passes -> PassStates] /\ todo \in [Passes -> SUBSET Tasks]
      /\ cur \in [Passes -> Tasks \cup {None}]
      /\ jobStatus \in [Jobs -> JobStatus \cup {"Absent"}]
      /\ \A t \in new : JobOf(t) = job[i]
  BY TaskNames DEF Publish, TableInv, DiskInv, MemoryInv, TypeInv, TypeOK, PassesOK, PassOK,
     DiskOK, MemoryOK, SubmissionOwnsJob
<1>1. /\ task' = [t \in Tasks |-> IF t \in new THEN "Queued" ELSE task[t]]
      /\ jobStatus' = [jobStatus EXCEPT ![job[i]] = "Accepted"] /\ Advance(i, new)
      /\ UNCHANGED <<up, running, reports, completing>> /\ completing = None
  BY DEF Publish, network, JobsUnlocked
<1>2. \A t \in new : task[t] = "Absent"
  BY <1>0 DEF TableInv, DiskInv, MemoryInv, JobKnown
<1>3. HeldOK'
  <2> SUFFICES ASSUME NEW k \in Passes
               PROVE  /\ pc'[k] \in Scheduling => \A t \in todo'[k] : task'[t] = "Queued"
                      /\ pc'[k] \in Holding => cur'[k] \notin todo'[k]
                      /\ pc'[k] = "Assign" => task'[cur'[k]] = "Queued"
                      /\ pc'[k] \in {"Persist", "Mark", "Dispatch"} =>
                            task'[cur'[k]] = "Assigned" /\ Idle(cur'[k])
    BY <1>1 DEF HeldOK, Idle
  <2>1. CASE k = i
    <3>1. todo'[i] = new /\ pc'[i] \in {"Idle", "Select"}
      BY <1>0, <1>1 DEF Advance
    <3>2. QED
      BY <1>0, <1>1, <2>1, <3>1 DEF Holding
  <2>2. CASE k # i
    <3>1. pc'[k] = pc[k] /\ todo'[k] = todo[k] /\ cur'[k] = cur[k]
      BY <1>0, <1>1, <2>2 DEF Advance
    <3>2. pc[k] \in Holding => cur[k] \in Tasks /\ cur[k] \notin new
      BY <1>2 DEF TableInv, DiskInv, MemoryInv, CurKnown, TypeInv, PassOK, Holding
    <3>3. pc[k] \in Holding => task'[cur[k]] = task[cur[k]]
      BY <1>1, <3>2
    <3>4. QED
      BY <1>0, <1>1, <3>1, <3>3 DEF SoloNow, HeldOK, Holding
  <2>3. QED
    BY <2>1, <2>2
<1>4. Copies'
  BY <1>0, <1>1, <1>2 DEF SoloNow, Copies, OneCopy, Idle
<1>5. StatusOK'
  BY <1>0, <1>1, TaskNames DEF SoloNow, StatusOK
<1>6. QED
  BY <1>1, <1>3, <1>4, <1>5 DEF SoloNow

\* A pass that lists or picks tasks changes none.
LEMMA SoloSnapshot ==
    ASSUME TableInv, SoloNow, Disjoint', NEW i \in Passes, Snapshot(i) \/ Select(i)
    PROVE  SoloNow'
<1>0. /\ pc \in [Passes -> PassStates] /\ todo \in [Passes -> SUBSET Tasks]
      /\ cur \in [Passes -> Tasks \cup {None}]
  BY DEF TableInv, DiskInv, MemoryInv, TypeInv, TypeOK, PassesOK
<1>1. UNCHANGED <<up, task, running, reports, completing, jobStatus>>
  BY DEF Snapshot, Select, jobsMap, network
<1>2. \A k \in Passes : k # i => /\ pc'[k] = pc[k] /\ todo'[k] = todo[k] /\ cur'[k] = cur[k]
  BY <1>0 DEF Snapshot, Select, Advance, Goto
<1>3. /\ pc'[i] \in {"Idle", "Select", "Assign"}
      /\ \A t \in todo'[i] : task[t] = "Queued"
      /\ pc'[i] = "Assign" => task[cur'[i]] = "Queued" /\ cur'[i] \notin todo'[i]
  <2>1. CASE Snapshot(i)
    BY <1>0, <2>1 DEF Snapshot, Advance
  <2>2. CASE Select(i)
    <3>1. \A t \in todo[i] : task[t] = "Queued"
      BY <2>2 DEF Select, SoloNow, HeldOK, Scheduling
    <3>2. QED
      BY <1>0, <2>2, <3>1 DEF Select, Advance, Goto, Heads
  <2>3. QED
    BY <2>1, <2>2
<1>4. HeldOK'
  BY <1>1, <1>2, <1>3 DEF SoloNow, HeldOK, Idle, Scheduling, Holding
<1>5. Copies' /\ StatusOK'
  BY <1>1 DEF SoloNow, Copies, OneCopy, Idle, StatusOK
<1>6. QED
  BY <1>1, <1>4, <1>5 DEF SoloNow

\* A task is assigned by the one pass that holds it.
LEMMA SoloAssign ==
    ASSUME TableInv, SoloNow, Disjoint', NEW i \in Passes, Assign(i)
    PROVE  SoloNow'
<1> DEFINE t == cur[i]
<1>0. /\ pc \in [Passes -> PassStates] /\ t \in Tasks /\ t # None /\ pc[i] = "Assign"
      /\ task \in [Tasks -> TaskStatus \cup {"Absent"}] /\ todo \in [Passes -> SUBSET Tasks]
      /\ JobOf(t) \in Jobs
  BY MasterAssumption, TaskNames
     DEF Assign, TableInv, DiskInv, MemoryInv, TypeInv, TypeOK, PassesOK, PassOK, MemoryOK
<1>1. /\ task' = [task EXCEPT ![t] = "Assigned"] /\ completing = None
      /\ pc' = [pc EXCEPT ![i] = "Persist"]
      /\ UNCHANGED <<up, running, reports, completing, jobStatus, todo, cur>>
  BY DEF Assign, JobsUnlocked, Goto, network
<1>2. task[t] = "Queued" /\ Idle(t)
  BY <1>0 DEF SoloNow, HeldOK, Copies
<1>3. \A k \in Passes : k # i => t \notin todo[k] /\ t # cur[k]
  BY <1>0 DEF SoloNow, Disjoint, Held
<1>4. t \notin todo[i]
  BY <1>0 DEF SoloNow, HeldOK, Holding
<1>5. HeldOK'
  <2> SUFFICES ASSUME NEW k \in Passes
               PROVE  /\ pc'[k] \in Scheduling => \A u \in todo[k] : task'[u] = "Queued"
                      /\ pc'[k] \in Holding => cur[k] \notin todo[k]
                      /\ pc'[k] = "Assign" => task'[cur[k]] = "Queued"
                      /\ pc'[k] \in {"Persist", "Mark", "Dispatch"} =>
                            task'[cur[k]] = "Assigned" /\ Idle(cur[k])
    BY <1>1 DEF HeldOK, Idle
  <2>1. CASE k = i
    BY <1>0, <1>1, <1>2, <1>4, <2>1 DEF SoloNow, HeldOK, Scheduling, Holding
  <2>2. CASE k # i
    <3>1. pc'[k] = pc[k] /\ t \notin todo[k] /\ t # cur[k] /\ todo[k] \subseteq Tasks
      BY <1>0, <1>1, <1>3, <2>2
    <3>2. pc[k] \in Holding => cur[k] \in Tasks
      BY DEF TableInv, DiskInv, MemoryInv, TypeInv, PassOK, Holding
    <3>3. QED
      BY <1>0, <1>1, <3>1, <3>2 DEF SoloNow, HeldOK, Holding
  <2>3. QED
    BY <2>1, <2>2
<1>6. Copies'
  BY <1>0, <1>1 DEF SoloNow, Copies, OneCopy, Idle
<1>7. StatusOK'
  <2>1. jobStatus[JobOf(t)] # "Succeeded"
    BY <1>0, <1>2 DEF SoloNow, StatusOK
  <2>2. QED
    BY <1>0, <1>1, <2>1 DEF SoloNow, StatusOK
<1>8. QED
  BY <1>1, <1>5, <1>6, <1>7 DEF SoloNow

\* The Assigned row, and the job's status: a pass at it holds an Assigned task.
LEMMA SoloMark ==
    ASSUME TableInv, SoloNow, Disjoint', NEW i \in Passes,
           \E ok \in BOOLEAN : PersistAssign(i, ok) \/ MarkRunning(i, ok)
    PROVE  SoloNow' /\ \A j \in Jobs : jobStatus[j] = "Succeeded" => jobStatus'[j] = "Succeeded"
<1>0. /\ pc \in [Passes -> PassStates] /\ jobStatus \in [Jobs -> JobStatus \cup {"Absent"}]
      /\ pc[i] \in {"Persist", "Mark"} /\ cur[i] \in Tasks /\ JobOf(cur[i]) \in Jobs
  BY TaskNames DEF PersistAssign, MarkRunning, TableInv, DiskInv, MemoryInv, TypeInv, TypeOK,
     PassesOK, PassOK, MemoryOK
<1>1. /\ UNCHANGED <<up, task, running, reports, completing, todo, cur>>
      /\ jobStatus' \in {jobStatus, [jobStatus EXCEPT ![JobOf(cur[i])] = "Running"]}
      /\ pc'[i] \in {"Mark", "Dispatch"} /\ \A k \in Passes : k # i => pc'[k] = pc[k]
  BY <1>0 DEF PersistAssign, MarkRunning, Goto, jobsMap, network
<1>2. task[cur[i]] = "Assigned" /\ jobStatus[JobOf(cur[i])] # "Succeeded"
  BY <1>0 DEF SoloNow, HeldOK, StatusOK
<1>3. \A j \in Jobs : jobStatus'[j] = "Succeeded" <=> jobStatus[j] = "Succeeded"
  BY <1>0, <1>1, <1>2
<1>4. HeldOK'
  BY <1>0, <1>1 DEF SoloNow, HeldOK, Idle, Scheduling, Holding
<1>5. Copies' /\ StatusOK'
  BY <1>1, <1>3, TaskNames DEF SoloNow, Copies, OneCopy, Idle, StatusOK
<1>6. QED
  BY <1>1, <1>3, <1>4, <1>5 DEF SoloNow

\* The one execution of a task, its report, and what becomes of them.
LEMMA SoloDispatch ==
    ASSUME TableInv, SoloNow, Disjoint', NEW i \in Passes, NEW arrives \in BOOLEAN,
           Dispatch(i, arrives)
    PROVE  SoloNow'
<1> DEFINE t == cur[i]
           w == target[i]
<1>0. /\ pc \in [Passes -> PassStates] /\ todo \in [Passes -> SUBSET Tasks]
      /\ cur \in [Passes -> Tasks \cup {None}] /\ running \in [Workers \X Tasks -> Nat]
      /\ t \in Tasks /\ w \in Workers /\ t # None /\ pc[i] = "Dispatch"
  BY MasterAssumption
     DEF Dispatch, TableInv, DiskInv, MemoryInv, TypeInv, TypeOK, PassesOK, PassOK, NetworkOK
<1>1. /\ UNCHANGED <<up, task, reports, completing, jobStatus>> /\ Advance(i, todo[i])
      /\ running' \in {running, [running EXCEPT ![<<w, t>>] = @ + 1]}
  BY DEF Dispatch, jobsMap
<1>2. task[t] = "Assigned" /\ Idle(t)
  BY <1>0 DEF SoloNow, HeldOK
<1>3. \A k \in Passes : k # i => /\ pc'[k] = pc[k] /\ todo'[k] = todo[k] /\ cur'[k] = cur[k]
                                 /\ t # cur[k]
  BY <1>0, <1>1 DEF Advance, SoloNow, Disjoint, Held
<1>4. pc'[i] \in {"Idle", "Select"} /\ todo'[i] = todo[i]
  BY <1>0, <1>1 DEF Advance
<1>5. \A v \in Workers, u \in Tasks : <<v, u>> # <<w, t>> => running'[<<v, u>>] = running[<<v, u>>]
  BY <1>0, <1>1
<1>6. \A u \in Tasks : u # t /\ Idle(u) => Idle(u)'
  BY <1>1, <1>5 DEF Idle
<1>7. HeldOK'
  <2> SUFFICES ASSUME NEW k \in Passes
               PROVE  /\ pc'[k] \in Scheduling => \A u \in todo'[k] : task[u] = "Queued"
                      /\ pc'[k] \in Holding => cur'[k] \notin todo'[k]
                      /\ pc'[k] = "Assign" => task[cur'[k]] = "Queued"
                      /\ pc'[k] \in {"Persist", "Mark", "Dispatch"} =>
                            task[cur'[k]] = "Assigned" /\ Idle(cur[k])'
    BY <1>1 DEF HeldOK, Idle
  <2>1. CASE k = i
    BY <1>0, <1>4, <2>1 DEF SoloNow, HeldOK, Scheduling, Holding
  <2>2. CASE k # i
    <3>1. pc'[k] = pc[k] /\ todo'[k] = todo[k] /\ cur'[k] = cur[k] /\ t # cur[k]
      BY <1>3, <2>2
    <3>2. pc[k] \in {"Persist", "Mark", "Dispatch"} => cur[k] \in Tasks /\ Idle(cur[k])
      BY DEF TableInv, DiskInv, MemoryInv, TypeInv, PassOK, SoloNow, HeldOK
    <3>3. ASSUME pc[k] \in {"Persist", "Mark", "Dispatch"} PROVE Idle(cur[k])'
      BY <1>1, <1>5, <3>1, <3>2, <3>3 DEF Idle
    <3>4. QED
      BY <3>1, <3>3 DEF SoloNow, HeldOK
  <2>3. QED
    BY <2>1, <2>2
<1>8. Copies'
  <2> SUFFICES ASSUME NEW u \in Tasks PROVE OneCopy(u)' /\ (~Idle(u)' => task[u] = "Assigned")
    BY <1>1 DEF Copies
  <2>1. CASE u # t
    BY <1>1, <1>5, <2>1 DEF SoloNow, Copies, OneCopy, Idle
  <2>2. CASE u = t
    <3>1. /\ \A v \in Workers : v # w => running'[<<v, t>>] = 0
          /\ running'[<<w, t>>] <= 1 /\ \A r \in Outcomes : reports'[<<t, r>>] = 0
      BY <1>0, <1>1, <1>2, <1>5 DEF Idle
    <3>2. QED
      BY <1>2, <2>2, <3>1 DEF OneCopy
  <2>3. QED
    BY <2>1, <2>2
<1>9. StatusOK'
  BY <1>1 DEF SoloNow, StatusOK
<1>10. QED
  BY <1>1, <1>7, <1>8, <1>9 DEF SoloNow

\* A worker that ends its copy of a task has one report on the way instead.
LEMMA SoloFinish ==
    ASSUME TableInv, SoloNow, Disjoint', NEW w \in Workers, NEW t \in Tasks, NEW r \in Outcomes,
           Finish(w, t, r)
    PROVE  SoloNow'
<1>0. running \in [Workers \X Tasks -> Nat] /\ reports \in [Tasks \X Outcomes -> Nat]
  BY DEF TableInv, DiskInv, MemoryInv, TypeInv, TypeOK, NetworkOK
<1>1. /\ UNCHANGED <<up, task, completing, jobStatus, pc, todo, cur>> /\ running[<<w, t>>] > 0
      /\ running' = [running EXCEPT ![<<w, t>>] = @ - 1]
      /\ reports' = [reports EXCEPT ![<<t, r>>] = @ + 1]
  BY DEF Finish, jobsMap, passes, SoloNow
<1>2. OneCopy(t) /\ task[t] = "Assigned" /\ ~Idle(t)
  BY <1>1 DEF SoloNow, Copies, Idle
<1>3. /\ \A v \in Workers : running'[<<v, t>>] = 0
      /\ \A q \in Outcomes : reports'[<<t, q>>] = IF q = r THEN 1 ELSE 0
  <2>0. /\ \A v \in Workers : running[<<v, t>>] \in Nat /\ running[<<v, t>>] <= 1
        /\ \A v \in Workers : running[<<v, t>>] > 0 => v = w
    BY <1>0, <1>1, <1>2 DEF OneCopy
  <2>1. \A v \in Workers : running[<<v, t>>] = IF v = w THEN 1 ELSE 0
    BY <1>1, <2>0
  <2>2. \A q \in Outcomes : reports[<<t, q>>] = 0
    BY <1>0, <1>1, <1>2 DEF OneCopy
  <2>3. \A v \in Workers : running'[<<v, t>>] = 0
    BY <1>0, <1>1, <2>1
  <2>4. \A q \in Outcomes : reports'[<<t, q>>] = IF q = r THEN 1 ELSE 0
    BY <1>0, <1>1, <2>2
  <2>5. QED
    BY <2>3, <2>4
<1>4. \A u \in Tasks : u # t => /\ \A v \in Workers : running'[<<v, u>>] = running[<<v, u>>]
                                /\ \A q \in Outcomes : reports'[<<u, q>>] = reports[<<u, q>>]
  BY <1>0, <1>1
<1>5. HeldOK'
  <2> SUFFICES ASSUME NEW k \in Passes, pc[k] \in {"Persist", "Mark", "Dispatch"}
               PROVE  Idle(cur[k])'
    BY <1>1 DEF SoloNow, HeldOK
  <2>1. cur[k] \in Tasks /\ cur[k] # t /\ Idle(cur[k])
    BY <1>2 DEF TableInv, DiskInv, MemoryInv, TypeInv, PassOK, SoloNow, HeldOK
  <2>2. QED
    BY <1>1, <1>4, <2>1 DEF Idle
<1>6. Copies'
  <2> SUFFICES ASSUME NEW u \in Tasks PROVE OneCopy(u)' /\ (~Idle(u)' => task[u] = "Assigned")
    BY <1>1 DEF Copies
  <2>1. CASE u # t
    BY <1>1, <1>4, <2>1 DEF SoloNow, Copies, OneCopy, Idle
  <2>2. CASE u = t
    BY <1>2, <1>3, <2>2 DEF OneCopy
  <2>3. QED
    BY <2>1, <2>2
<1>7. QED
  BY <1>1, <1>5, <1>6 DEF SoloNow, StatusOK

\* Deaths and losses leave less.
LEMMA SoloLoss ==
    ASSUME TableInv, SoloNow, Disjoint', UNCHANGED <<up, task, completing, jobStatus, pc, todo, cur>>,
           \A w \in Workers, t \in Tasks : running'[<<w, t>>] \in Nat
                                           /\ running'[<<w, t>>] <= running[<<w, t>>],
           \A t \in Tasks, r \in Outcomes : reports'[<<t, r>>] \in Nat
                                            /\ reports'[<<t, r>>] <= reports[<<t, r>>]
    PROVE  SoloNow'
<1>0. /\ \A w \in Workers, t \in Tasks : running[<<w, t>>] \in Nat
      /\ \A t \in Tasks, r \in Outcomes : reports[<<t, r>>] \in Nat
  BY DEF TableInv, DiskInv, MemoryInv, TypeInv, TypeOK, NetworkOK
<1>1. ASSUME NEW t \in Tasks PROVE (Idle(t) => Idle(t)') /\ (OneCopy(t) => OneCopy(t)')
  BY <1>0 DEF Idle, OneCopy
<1>2. HeldOK'
  <2> SUFFICES ASSUME NEW k \in Passes, pc[k] \in {"Persist", "Mark", "Dispatch"}
               PROVE  Idle(cur[k])'
    BY DEF SoloNow, HeldOK
  <2>1. cur[k] \in Tasks /\ Idle(cur[k])
    BY DEF TableInv, DiskInv, MemoryInv, TypeInv, PassOK, SoloNow, HeldOK
  <2>2. QED
    BY <1>0, <2>1 DEF Idle
<1>3. Copies'
  BY <1>1 DEF SoloNow, Copies
<1>4. QED
  BY <1>2, <1>3 DEF SoloNow, StatusOK

\* A report finds the task Assigned and with no other copy of it.
LEMMA SoloComplete ==
    ASSUME TableInv, SoloNow, Disjoint', NEW t \in Tasks, NEW r \in Outcomes, NEW ok \in BOOLEAN,
           CompleteTask(t, r, ok)
    PROVE  SoloNow' /\ task[t] = "Assigned" /\ task' = [task EXCEPT ![t] = r]
<1>0. /\ reports \in [Tasks \X Outcomes -> Nat] /\ task \in [Tasks -> TaskStatus \cup {"Absent"}]
      /\ todo \in [Passes -> SUBSET Tasks] /\ running \in [Workers \X Tasks -> Nat]
      /\ completing = None /\ up /\ reports[<<t, r>>] > 0
  BY DEF CompleteTask, JobsUnlocked, TableInv, DiskInv, MemoryInv, TypeInv, TypeOK, NetworkOK,
         MemoryOK, PassesOK
<1>1. task[t] = "Assigned" /\ OneCopy(t) /\ ~Idle(t)
  BY <1>0 DEF SoloNow, Copies, Idle
<1>2. jobStatus[JobOf(t)] # "Absent" /\ jobStatus[JobOf(t)] # "Succeeded"
  BY <1>1 DEF TableInv, DiskInv, MemoryInv, JobKnown, SoloNow, StatusOK
<1>3. /\ UNCHANGED <<up, running, jobStatus, pc, todo, cur>>
      /\ task' = [task EXCEPT ![t] = r] /\ reports' = [reports EXCEPT ![<<t, r>>] = @ - 1]
      /\ completing' \in {None, <<t, r>>}
  BY <1>2 DEF CompleteTask, passes
<1>4. /\ \A w \in Workers : running'[<<w, t>>] = 0
      /\ \A q \in Outcomes : reports'[<<t, q>>] = 0
  <2>1. \A w \in Workers : running[<<w, t>>] = 0
    BY <1>0, <1>1 DEF OneCopy
  <2>2. \A q \in Outcomes : reports[<<t, q>>] = IF q = r THEN 1 ELSE 0
    BY <1>0, <1>1 DEF OneCopy
  <2>3. QED
    BY <1>0, <1>3, <2>1, <2>2
<1>5. \A u \in Tasks : u # t => /\ \A q \in Outcomes : reports'[<<u, q>>] = reports[<<u, q>>]
                                /\ task'[u] = task[u]
  BY <1>0, <1>3
<1>6. HeldOK'
  <2> SUFFICES ASSUME NEW k \in Passes
               PROVE  /\ pc[k] \in Scheduling => \A u \in todo[k] : task'[u] = "Queued"
                      /\ pc[k] \in Holding => cur[k] \notin todo[k]
                      /\ pc[k] = "Assign" => task'[cur[k]] = "Queued"
                      /\ pc[k] \in {"Persist", "Mark", "Dispatch"} =>
                            task'[cur[k]] = "Assigned" /\ Idle(cur[k])'
    BY <1>3 DEF HeldOK
  <2>1. pc[k] \in Scheduling => t \notin todo[k] /\ todo[k] \subseteq Tasks
    BY <1>0, <1>1 DEF SoloNow, HeldOK
  <2>2. pc[k] \in Holding => t # cur[k] /\ cur[k] \in Tasks
    BY <1>1 DEF SoloNow, HeldOK, Holding, TableInv, DiskInv, MemoryInv, TypeInv, PassOK
  <2>3. ASSUME pc[k] \in {"Persist", "Mark", "Dispatch"} PROVE Idle(cur[k])'
    <3>1. cur[k] # t /\ cur[k] \in Tasks /\ Idle(cur[k])
      BY <2>2, <2>3 DEF Holding, SoloNow, HeldOK
    <3>2. QED
      BY <1>3, <1>5, <3>1 DEF Idle
  <2>4. QED
    BY <1>5, <2>1, <2>2, <2>3 DEF SoloNow, HeldOK, Scheduling, Holding
<1>7. Copies'
  <2> SUFFICES ASSUME NEW u \in Tasks PROVE OneCopy(u)' /\ (~Idle(u)' => task'[u] = "Assigned")
    BY DEF Copies
  <2>1. CASE u # t
    BY <1>3, <1>5, <2>1 DEF SoloNow, Copies, OneCopy, Idle
  <2>2. CASE u = t
    BY <1>4, <2>2 DEF OneCopy, Idle
  <2>3. QED
    BY <2>1, <2>2
<1>8. StatusOK'
  <2>1. completing' # None => task'[completing'[1]] = completing'[2]
    BY <1>0, <1>3
  <2>2. ASSUME NEW u \in Tasks, jobStatus'[JobOf(u)] = "Succeeded"
        PROVE  task'[u] \in {"Absent", "Completed"}
    <3>1. u # t
      BY <1>2, <1>3, <2>2
    <3>2. QED
      BY <1>3, <1>5, <2>2, <3>1 DEF SoloNow, StatusOK
  <2>3. QED
    BY <2>1, <2>2 DEF StatusOK
<1>9. QED
  BY <1>0, <1>1, <1>3, <1>6, <1>7, <1>8 DEF SoloNow

\* The job succeeds on its last completed task, and only then.
LEMMA SoloFinishCompletion ==
    ASSUME TableInv, SoloNow, Disjoint', NEW ok \in BOOLEAN, FinishCompletion(ok)
    PROVE  SoloNow' /\ \A j \in Jobs : jobStatus[j] = "Succeeded" => jobStatus'[j] = "Succeeded"
<1> DEFINE t == completing[1]
           r == completing[2]
           j == JobOf(t)
<1>0. /\ completing # None /\ t \in Tasks /\ j \in Jobs
      /\ jobStatus \in [Jobs -> JobStatus \cup {"Absent"}]
  BY TaskNames DEF FinishCompletion, JobsUnlocked, TableInv, DiskInv, MemoryInv, TypeInv,
     TypeOK, MemoryOK
<1>1. /\ UNCHANGED <<up, task, running, reports, pc, todo, cur>> /\ completing' = None
      /\ jobStatus' = [jobStatus EXCEPT ![j] = IF r = "Failed" THEN "Failed"
                                               ELSE IF NonePending(j) THEN "Succeeded"
                                               ELSE jobStatus[j]]
  BY DEF FinishCompletion, passes, network
<1>2. task[t] = r
  BY <1>0 DEF SoloNow, StatusOK
<1>3. r = "Failed" => jobStatus[j] # "Succeeded"
  BY <1>0, <1>2 DEF SoloNow, StatusOK
<1>4. \A k \in Jobs : jobStatus[k] = "Succeeded" => jobStatus'[k] = "Succeeded"
  BY <1>0, <1>1, <1>3
<1>5. StatusOK'
  <2> SUFFICES ASSUME NEW u \in Tasks, jobStatus'[JobOf(u)] = "Succeeded"
               PROVE  task[u] \in {"Absent", "Completed"}
    BY <1>1 DEF StatusOK
  <2>1. CASE jobStatus[JobOf(u)] = "Succeeded"
    BY <2>1 DEF SoloNow, StatusOK
  <2>2. CASE jobStatus[JobOf(u)] # "Succeeded"
    <3>1. JobOf(u) = j /\ NonePending(j)
      BY <1>0, <1>1, <2>2, TaskNames
    <3>2. QED
      BY <3>1 DEF NonePending
  <2>3. QED
    BY <2>1, <2>2
<1>6. HeldOK' /\ Copies'
  BY <1>1 DEF SoloNow, HeldOK, Copies, OneCopy, Idle
<1>7. QED
  BY <1>1, <1>4, <1>5, <1>6 DEF SoloNow

\* Every step keeps it, and lets no job leave Succeeded.
LEMMA SoloStep ==
    ASSUME TableInv, Solo, [Next]_vars, ~shared, crashes = 0 => Disjoint', crashes' = 0
    PROVE  crashes = 0 /\ SoloNow /\ SoloNow'
           /\ \A j \in Jobs : jobStatus[j] = "Succeeded" => jobStatus'[j] = "Succeeded"
<1> DEFINE Final == \A j \in Jobs : jobStatus[j] = "Succeeded" => jobStatus'[j] = "Succeeded"
<1>0. /\ crashes \in Nat /\ pc \in [Passes -> PassStates] /\ todo \in [Passes -> SUBSET Tasks]
      /\ jobStatus \in [Jobs -> JobStatus \cup {"Absent"}]
      /\ running \in [Workers \X Tasks -> Nat] /\ reports \in [Tasks \X Outcomes -> Nat]
  BY MasterAssumption DEF TableInv, DiskInv, MemoryInv, TypeInv, TypeOK, PassesOK, MemoryOK,
     NetworkOK, BoundsOK
<1>1. ~Crash
  BY <1>0 DEF Crash
<1>2. crashes = 0
  BY ZenonT(60), <1>1 DEF Next, Serve, PassStep, SubmitJob, SubmitTask, Publish, Snapshot, Select, Assign,
     PersistAssign, MarkRunning, Dispatch, CompleteTask, FinishCompletion, Register, Heartbeat,
     MarkStale, WorkerDies, Finish, LoseReport, Restart, bounds, vars
<1>3. SoloNow /\ Disjoint'
  BY <1>2 DEF Solo
<1>4. ASSUME NEW i \in Passes, PassStep(i) PROVE SoloNow' /\ Final
  <2>1. ASSUME NEW ok \in BOOLEAN, SubmitTask(i, ok) PROVE SoloNow' /\ Final
    <3>1. /\ UNCHANGED <<up, task, running, reports, completing, jobStatus, cur>>
          /\ \A k \in Passes : k # i => pc'[k] = pc[k] /\ todo'[k] = todo[k]
          /\ pc'[i] \in {"PersistTasks", "Idle"}
      BY <1>0, <2>1 DEF SubmitTask, Goto, jobsMap, network
    <3>2. up'
      BY <1>3, <3>1 DEF SoloNow
    <3>3. QED
      BY <1>3, <3>1, <3>2, SoloQuiet DEF Scheduling
  <2>2. CASE Publish(i)
    <3>1. jobStatus[job[i]] = "Absent" /\ jobStatus' = [jobStatus EXCEPT ![job[i]] = "Accepted"]
      BY <2>2 DEF Publish, TableInv, DiskInv, SubmissionOwnsJob
    <3>2. QED
      BY <1>0, <1>3, <2>2, <3>1, SoloPublish
  <2>3. CASE Snapshot(i) \/ Select(i)
    BY <1>3, <2>3, SoloSnapshot DEF Snapshot, Select, jobsMap
  <2>4. CASE Assign(i)
    BY <1>3, <2>4, SoloAssign DEF Assign
  <2>5. CASE \E ok \in BOOLEAN : PersistAssign(i, ok) \/ MarkRunning(i, ok)
    BY <1>3, <2>5, SoloMark
  <2>6. ASSUME NEW arrives \in BOOLEAN, Dispatch(i, arrives) PROVE SoloNow' /\ Final
    BY <1>3, <2>6, SoloDispatch DEF Dispatch, jobsMap
  <2>7. QED
    BY <1>4, <2>1, <2>2, <2>3, <2>4, <2>5, <2>6 DEF PassStep
<1>5. ASSUME NEW i \in Passes, NEW j \in Jobs, NEW n \in 0..MaxParts, SubmitJob(i, j, n)
      PROVE  SoloNow' /\ Final
  <2>1. /\ UNCHANGED <<up, task, running, reports, completing, jobStatus, cur>>
        /\ \A k \in Passes : k # i => pc'[k] = pc[k] /\ todo'[k] = todo[k]
        /\ pc'[i] = "PersistTasks"
    BY <1>0, <1>5 DEF SubmitJob, Goto, jobsMap, network
  <2>2. up'
    BY <1>3, <2>1 DEF SoloNow
  <2>3. QED
    BY <1>3, <2>1, <2>2, SoloQuiet DEF Scheduling
<1>6. ASSUME NEW w \in Workers, NEW i \in Passes, Register(w, i) \/ Heartbeat(w, i)
      PROVE  SoloNow' /\ Final
  <2>1. /\ UNCHANGED <<up, task, running, reports, completing, jobStatus, cur, todo>>
        /\ \A k \in Passes : k # i => pc'[k] = pc[k]
        /\ pc'[i] = "Snapshot"
    BY <1>0, <1>6 DEF Register, Heartbeat, Goto, jobsMap, network
  <2>2. up'
    BY <1>3, <2>1 DEF SoloNow
  <2>3. QED
    BY <1>3, <2>1, <2>2, SoloQuiet DEF Scheduling
<1>7. ASSUME NEW t \in Tasks, NEW r \in Outcomes, NEW ok \in BOOLEAN, CompleteTask(t, r, ok)
      PROVE  SoloNow' /\ Final
  BY <1>3, <1>7, SoloComplete DEF CompleteTask
<1>8. ASSUME NEW ok \in BOOLEAN, FinishCompletion(ok) PROVE SoloNow' /\ Final
  BY <1>3, <1>8, SoloFinishCompletion
<1>9. ASSUME NEW w \in Workers, NEW t \in Tasks, NEW r \in Outcomes, Finish(w, t, r)
      PROVE  SoloNow' /\ Final
  BY <1>3, <1>9, SoloFinish DEF Finish, jobsMap
<1>10. CASE \/ \E w \in Workers : WorkerDies(w) \/ MarkStale(w)
            \/ \E t \in Tasks, r \in Outcomes : LoseReport(t, r)
            \/ UNCHANGED vars
  <2>1. UNCHANGED <<up, task, completing, jobStatus, pc, todo, cur>>
    BY <1>10 DEF WorkerDies, MarkStale, LoseReport, vars, jobsMap, passes
  <2>2. \/ running' = running
        \/ \E w \in Workers : running' = [x \in Workers \X Tasks |->
                                          IF x[1] = w THEN 0 ELSE running[x]]
    BY <1>10 DEF WorkerDies, MarkStale, LoseReport, vars, network
  <2>3. ASSUME NEW w \in Workers, NEW t \in Tasks
        PROVE  running'[<<w, t>>] \in Nat /\ running'[<<w, t>>] <= running[<<w, t>>]
    <3>1. running[<<w, t>>] \in Nat /\ <<w, t>> \in Workers \X Tasks
      BY <1>0
    <3>2. running'[<<w, t>>] \in {0, running[<<w, t>>]}
      BY <2>2, <3>1
    <3>3. QED
      BY <3>1, <3>2
  <2>4. \/ reports' = reports
        \/ \E u \in Tasks, q \in Outcomes : /\ reports[<<u, q>>] > 0
                                            /\ reports' = [reports EXCEPT ![<<u, q>>] = @ - 1]
    BY <1>10 DEF WorkerDies, MarkStale, LoseReport, vars, network
  <2>5. ASSUME NEW t \in Tasks, NEW r \in Outcomes
        PROVE  reports'[<<t, r>>] \in Nat /\ reports'[<<t, r>>] <= reports[<<t, r>>]
    <3>1. CASE reports' = reports
      BY <1>0, <3>1
    <3>2. ASSUME NEW u \in Tasks, NEW q \in Outcomes, reports[<<u, q>>] > 0,
                 reports' = [reports EXCEPT ![<<u, q>>] = @ - 1]
          PROVE  reports'[<<t, r>>] \in Nat /\ reports'[<<t, r>>] <= reports[<<t, r>>]
      <4>1. <<u, q>> \in Tasks \X Outcomes /\ <<t, r>> \in Tasks \X Outcomes
        OBVIOUS
      <4>2. reports[<<u, q>>] \in Nat /\ reports[<<t, r>>] \in Nat
        BY <1>0, <4>1
      <4>3. reports'[<<t, r>>] = IF <<t, r>> = <<u, q>> THEN reports[<<u, q>>] - 1
                                 ELSE reports[<<t, r>>]
        BY <1>0, <3>2, <4>1
      <4>4. CASE <<t, r>> = <<u, q>>
        BY <3>2, <4>2, <4>3, <4>4
      <4>5. CASE <<t, r>> # <<u, q>>
        BY <4>2, <4>3, <4>5
      <4>6. QED
        BY <4>4, <4>5
    <3>3. QED
      BY <2>4, <3>1, <3>2
  <2>6. /\ \A w \in Workers, t \in Tasks : running'[<<w, t>>] \in Nat
                                          /\ running'[<<w, t>>] <= running[<<w, t>>]
        /\ \A t \in Tasks, r \in Outcomes : reports'[<<t, r>>] \in Nat
                                           /\ reports'[<<t, r>>] <= reports[<<t, r>>]
    BY <2>3, <2>5
  <2>7. SoloNow'
    BY <1>3, <2>1, <2>6, SoloLoss
  <2>8. QED
    BY <1>2, <1>3, <2>1, <2>7
<1>11. ~(\E okJobs, okTasks \in BOOLEAN, kept \in SUBSET Requeued : Restart(okJobs, okTasks, kept))
  BY <1>3 DEF Restart, SoloNow
<1>12. QED
  BY <1>1, <1>2, <1>3, <1>4, <1>5, <1>6, <1>7, <1>8, <1>9, <1>10, <1>11 DEF Next, Serve

\* The tasks of a job are finitely many.
LEMMA JobIsFinite ==
    ASSUME NEW j \in Jobs, NEW S, S \subseteq {t \in Tasks : JobOf(t) = j}
    PROVE  IsFiniteSet(S) /\ Cardinality(S) \in Nat
<1>1. IsFiniteSet({j} \X (1..MaxParts))
  <2>1. 1 \in Int /\ MaxParts \in Int
    BY MasterAssumption
  <2>2. IsFiniteSet({j}) /\ IsFiniteSet(1..MaxParts)
    BY <2>1, FS_Singleton, FS_Interval
  <2>3. QED
    BY <2>2, FS_Product
<1>2. S \subseteq {j} \X (1..MaxParts)
  BY DEF Tasks, JobOf
<1>3. QED
  BY <1>1, <1>2, FS_Subset, FS_CardinalityType

\* The results and the counter move together, once per task.
LEMMA CountedStep ==
    ASSUME TableInv, SoloNow, SoloNow', CountedNow, [Next]_vars, dbErrors' = 0, crashes' = crashes
    PROVE  CountedNow'
<1> DEFINE Done(j) == {t \in Tasks : JobOf(t) = j /\ results[t] > 0}
<1>0. /\ results \in [Tasks -> Nat] /\ completed \in [Jobs -> Nat]
      /\ task \in [Tasks -> TaskStatus \cup {"Absent"}] /\ dbErrors \in Nat
      /\ completing # None => completing[1] \in Tasks /\ completing[2] \in Outcomes
                              /\ JobOf(completing[1]) \in Jobs
      /\ crashes \in Nat
  BY ErrorsGrow, TaskNames, MasterAssumption
     DEF TableInv, DiskInv, MemoryInv, TypeInv, TypeOK, MemoryOK, BoundsOK
<1>1. ASSUME NEW ok \in BOOLEAN, FinishCompletion(ok) PROVE CountedNow'
  <2> DEFINE t == completing[1]
             j == JobOf(t)
  <2>0. /\ completing # None /\ t \in Tasks /\ j \in Jobs /\ completing' = None /\ task' = task
        /\ task[t] = completing[2] /\ results[t] = 0
    BY <1>0, <1>1 DEF FinishCompletion, JobsUnlocked, SoloNow, StatusOK, CountedNow
  <2>1. CASE completing[2] = "Completed"
    <3>1. /\ results' = [results EXCEPT ![t] = @ + 1]
          /\ completed' = [completed EXCEPT ![j] = @ + 1]
      BY <1>1, <2>1 DEF FinishCompletion
    <3>2. ASSUME NEW u \in Tasks
          PROVE  results'[u] = IF task'[u] = "Completed" /\ (completing' # None => completing'[1] # u)
                               THEN 1 ELSE 0
      <4>1. CASE u = t
        BY <1>0, <2>0, <2>1, <3>1, <4>1
      <4>2. CASE u # t
        BY <1>0, <2>0, <3>1, <4>2 DEF CountedNow
      <4>3. QED
        BY <4>1, <4>2
    <3>3. ASSUME NEW k \in Jobs
          PROVE  completed'[k] = Cardinality({u \in Tasks : JobOf(u) = k /\ results'[u] > 0})
      <4>1. completed[k] = Cardinality(Done(k)) /\ IsFiniteSet(Done(k))
        BY JobIsFinite DEF CountedNow
      <4>2. CASE k = j
        <5>1. {u \in Tasks : JobOf(u) = k /\ results'[u] > 0} = Done(k) \cup {t}
          BY <1>0, <2>0, <3>1, <4>2
        <5>2. t \notin Done(k)
          BY <2>0
        <5>3. Cardinality(Done(k) \cup {t}) = Cardinality(Done(k)) + 1
          BY <4>1, <5>2, FS_AddElement
        <5>4. completed'[k] = completed[k] + 1
          BY <1>0, <3>1, <4>2
        <5>5. QED
          BY <4>1, <5>1, <5>3, <5>4
      <4>3. CASE k # j
        <5>1. {u \in Tasks : JobOf(u) = k /\ results'[u] > 0} = Done(k)
          BY <1>0, <2>0, <3>1, <4>3
        <5>2. completed'[k] = completed[k]
          BY <1>0, <3>1, <4>3
        <5>3. QED
          BY <4>1, <5>1, <5>2
      <4>4. QED
        BY <4>2, <4>3
    <3>4. QED
      BY <3>2, <3>3 DEF CountedNow
  <2>2. CASE completing[2] = "Failed"
    <3>1. results' = results /\ completed' = completed
      BY <1>1, <2>2 DEF FinishCompletion
    <3>2. ASSUME NEW u \in Tasks
          PROVE  results'[u] = IF task'[u] = "Completed" /\ (completing' # None => completing'[1] # u)
                               THEN 1 ELSE 0
      BY <2>0, <2>2, <3>1 DEF CountedNow
    <3>3. QED
      BY <3>1, <3>2 DEF CountedNow
  <2>3. QED
    BY <1>0, <2>0, <2>1, <2>2, MasterAssumption
<1>2. ASSUME results' = results, completed' = completed, completing' = completing,
             \A t \in Tasks : task'[t] = "Completed" <=> task[t] = "Completed"
      PROVE  CountedNow'
  BY <1>2 DEF CountedNow
<1>3. ASSUME NEW t \in Tasks, NEW r \in Outcomes, NEW ok \in BOOLEAN, CompleteTask(t, r, ok)
      PROVE  CountedNow'
  <2>1. task[t] = "Assigned" /\ task' = [task EXCEPT ![t] = r] /\ completing = None
    BY <1>3, SoloComplete DEF CompleteTask, JobsUnlocked, SoloNow
  <2>2. completing' = <<t, r>> /\ results' = results /\ completed' = completed
    <3>1. ok
      BY <1>0, <1>3, <2>1 DEF CompleteTask, PersistTaskResult, Sql, Errors
    <3>2. jobStatus[JobOf(t)] # "Absent"
      BY <2>1 DEF TableInv, DiskInv, MemoryInv, JobKnown
    <3>3. QED
      BY <1>3, <3>1, <3>2 DEF CompleteTask
  <2>3. <<t, r>> # None
    BY MasterAssumption
  <2>4. ASSUME NEW u \in Tasks
        PROVE  results'[u] = IF task'[u] = "Completed" /\ (completing' # None => completing'[1] # u)
                             THEN 1 ELSE 0
    <3>1. CASE u = t
      BY <1>0, <2>1, <2>2, <2>3, <3>1 DEF CountedNow
    <3>2. CASE u # t
      BY <1>0, <2>1, <2>2, <2>3, <3>2 DEF CountedNow
    <3>3. QED
      BY <3>1, <3>2
  <2>5. QED
    BY <2>2, <2>4 DEF CountedNow
<1>4. ASSUME NEW i \in Passes, Publish(i) PROVE CountedNow'
  <2>1. \A t \in TasksOf(job[i], dParts[job[i]]) : task[t] = "Absent"
    <3>1. /\ job[i] \in Jobs /\ dParts[job[i]] \in 0..MaxParts /\ jobStatus[job[i]] = "Absent"
      BY <1>4 DEF Publish, TableInv, DiskInv, MemoryInv, TypeInv, TypeOK, PassOK, DiskOK,
         SubmissionOwnsJob
    <3>2. QED
      BY <3>1, TaskNames DEF TableInv, DiskInv, MemoryInv, JobKnown
  <2>2. QED
    BY <1>2, <1>4, <2>1 DEF Publish
<1>5. ASSUME NEW i \in Passes, Assign(i) PROVE CountedNow'
  <2>1. task[cur[i]] = "Queued" /\ task' = [task EXCEPT ![cur[i]] = "Assigned"]
    BY <1>5 DEF Assign, SoloNow, HeldOK
  <2>2. QED
    BY <1>0, <1>2, <1>5, <2>1 DEF Assign
<1>6. CASE UNCHANGED <<task, results, completed, completing>>
  BY <1>2, <1>6
<1>7. ~Crash
  BY <1>0 DEF Crash
<1>8. ~(\E okJobs, okTasks \in BOOLEAN, kept \in SUBSET Requeued : Restart(okJobs, okTasks, kept))
  BY DEF Restart, SoloNow
<1>9. QED
  BY <1>1, <1>3, <1>4, <1>5, <1>6, <1>7, <1>8
     DEF Next, Serve, PassStep, SubmitJob, SubmitTask, Snapshot, Select, PersistAssign, MarkRunning,
         Dispatch, Register, Heartbeat, MarkStale, WorkerDies, Finish, LoseReport, jobsMap, vars

\* What the clients' steps say about sharing.
LEMMA SharingNoted == [ClientNext]_allVars /\ ~shared' /\ Solo => ~shared /\ (crashes = 0 => Disjoint')
<1> SUFFICES ASSUME [ClientNext]_allVars, ~shared', Solo PROVE ~shared /\ (crashes = 0 => Disjoint')
  OBVIOUS
<1>1. CASE NoteSharing
  BY <1>1 DEF NoteSharing, Disjoint
<1>2. CASE UNCHANGED <<vars, shared>>
  <2>1. ~shared /\ todo' = todo /\ cur' = cur
    BY <1>2 DEF vars, passes
  <2>2. crashes = 0 => Disjoint
    BY <2>1 DEF Solo, SoloNow
  <2>3. QED
    BY <2>1, <2>2 DEF Disjoint, Held
<1>3. QED
  BY <1>1, <1>2 DEF ClientNext, ServeClients, Submit, GiveUp, Watch, Poll, Fetch, allVars

\* While no two passes hold one task, each task has one copy, be it queued, in
\* execution or reported on.
LEMMA SoloInvariant == ClientSpec => [](TableInv /\ Solo)
<1>1. Init /\ ClientInit => Solo
  <2> SUFFICES ASSUME Init, ClientInit PROVE SoloNow
    BY DEF Solo
  <2>1. Disjoint
    BY DEF Init, Disjoint, Held
  <2>2. HeldOK /\ StatusOK
    BY DEF Init, HeldOK, StatusOK, Scheduling, Holding
  <2>3. Copies
    BY DEF Init, Copies, OneCopy, Idle
  <2>4. QED
    BY <2>1, <2>2, <2>3 DEF SoloNow, Init
<1>2. TableInv /\ Solo /\ [ClientNext]_allVars => Solo'
  BY SoloStep, SharingNoted, ClientStepsAreMasterSteps DEF Solo
<1>3. ClientSpec => []TableInv
  BY ClientsImplementMaster, TableInvariant, PTL
<1>4. QED
  BY <1>1, <1>2, <1>3, PTL DEF ClientSpec

\* As long as no two passes hold the same task, complete_task counts every
\* completed task of every job once: whatever workers die, reports are lost and
\* sweeps run, however many passes there are.
THEOREM CountingIsExact == ClientSpec => []CountedOnce
<1>1. Init /\ ClientInit => Counted
  <2> SUFFICES ASSUME Init PROVE CountedNow
    BY DEF Counted
  <2>1. ASSUME NEW j \in Jobs PROVE {t \in Tasks : JobOf(t) = j /\ results[t] > 0} = {}
    BY DEF Init
  <2>2. QED
    BY <2>1, FS_EmptySet DEF Init, CountedNow
<1>2. TableInv /\ Solo /\ Counted /\ [ClientNext]_allVars => Counted'
  <2> SUFFICES ASSUME TableInv, Solo, Counted, [ClientNext]_allVars,
                      ~shared', crashes' = 0, dbErrors' = 0
               PROVE  CountedNow'
    BY DEF Counted
  <2>1. [Next]_vars /\ ~shared /\ (crashes = 0 => Disjoint')
    BY ClientStepsAreMasterSteps, SharingNoted
  <2>2. crashes = 0 /\ SoloNow /\ SoloNow'
    BY <2>1, SoloStep
  <2>3. dbErrors = 0
    BY <2>1, ErrorsGrow
  <2>4. CountedNow
    BY <2>1, <2>2, <2>3 DEF Counted
  <2>5. QED
    BY <2>1, <2>2, <2>4, CountedStep
<1>3. Counted => CountedOnce
  <2> SUFFICES ASSUME CountedNow, completing = None
               PROVE  /\ \A t \in Tasks : results[t] = IF task[t] = "Completed" THEN 1 ELSE 0
                      /\ \A j \in Jobs : completed[j] =
                            Cardinality({t \in Tasks : JobOf(t) = j /\ task[t] = "Completed"})
    BY DEF Counted, CountedOnce, JobsUnlocked
  <2>1. \A t \in Tasks : results[t] = IF task[t] = "Completed" THEN 1 ELSE 0
    BY DEF CountedNow
  <2>2. ASSUME NEW j \in Jobs
        PROVE  {t \in Tasks : JobOf(t) = j /\ results[t] > 0}
                  = {t \in Tasks : JobOf(t) = j /\ task[t] = "Completed"}
    BY <2>1
  <2>3. QED
    BY <2>1, <2>2 DEF CountedNow
<1>4. QED
  BY <1>1, <1>2, <1>3, SoloInvariant, PTL DEF ClientSpec

\* As long as no two passes hold the same task, a job that get_job_status has
\* shown as Succeeded stays so: schedule_task sets Running only for a task that
\* is not completed, and no late report turns the job to Failed.
THEOREM SuccessIsFinal == ClientSpec => SucceededIsFinal
<1>1. TableInv /\ Solo /\ [ClientNext]_allVars =>
         [~shared' /\ crashes' = 0 =>
             \A j \in Jobs : jobStatus[j] = "Succeeded" => jobStatus'[j] = "Succeeded"]_allVars
  BY SoloStep, SharingNoted, ClientStepsAreMasterSteps
<1>2. QED
  BY <1>1, SoloInvariant, PTL DEF ClientSpec, SucceededIsFinal

=============================================================================
