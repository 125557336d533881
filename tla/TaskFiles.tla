------------------------------ MODULE TaskFiles ------------------------------
(***************************************************************************)
(* The executor and the disk.  The blocking thread of a request runs the   *)
(* task as a program of cache and file operations: it fills partition      *)
(* caches, which spill to files, drains them, and writes part files.  All  *)
(* executions of a task use the same paths, and all tasks of a job the     *)
(* same bucket files, whoever else is at work: a retry, a second request   *)
(* for the task, or the thread of a handler that was dropped.              *)
(*                                                                         *)
(* The tasks are the partitions of one job, with one of five plans; module *)
(* Pipeline has all plans, for one execution.  A cache holds its records   *)
(* in memory, or has put them all in its file (module PartitionCache).     *)
(***************************************************************************)
EXTENDS Executor

CONSTANTS
    Jobs,           \* shapes of the job, with their bounds
    MaxDrops,       \* bound: connections that break
    NoFile

ASSUME TaskFilesAssumption ==
    /\ Jobs \subseteq [plan : {"Read", "Map", "Join", "Stray", "Shuffle"},
                       spilling : SUBSET Tasks, sticky : BOOLEAN,
                       requests : SUBSET Requests, failures : Nat]
    /\ MaxDrops \in Nat

VARIABLES
    job,        \* its operators; the tasks whose caches pass the limit; whether
                \* files may resist removal; the requests the master sends; a
                \* bound on failures that nothing forces
    file,       \* contents of the files
    pc,         \* instructions a thread has done
    caches,     \* filled caches of a thread, in the order they are drained
    taken,      \* records a thread has drained and not yet put or written
    thread,     \* how the pipeline of a thread ended
    alone       \* history: no other execution has shared files with the attempt

fileVars == <<job, file, pc, caches, taken, thread, alone>>
allVars == <<vars, fileVars>>

-----------------------------------------------------------------------------
\* A record is <<task, side>>: side 0 comes from the first Read, side 1 from
\* the second, and ShuffleByKey hashes a record to the bucket of its side.
Sides == {0, 1}
Record == Tasks \X Sides

\* A vector or a file of records: how often each is in it.
Contents == [Record -> Nat]
Records(t, S) == [rec \in Record |-> IF rec[1] = t /\ rec[2] \in S THEN 1 ELSE 0]
Nothing == [rec \in Record |-> 0]
Plus(b, c) == [rec \in Record |-> b[rec] + c[rec]]
Only(b, S) == [rec \in Record |-> IF rec[2] \in S THEN b[rec] ELSE 0]

ASSUME NoFileAssumption == NoFile \notin Contents

SpillPath(t) == <<"spill", t>>
BucketPath(b) == <<"bucket", b>>
PartPath(p) == <<"part", p>>
Scratch == {SpillPath(t) : t \in Tasks} \cup {BucketPath(b) : b \in Sides}
Paths == Scratch \cup {PartPath(p) : p \in Tasks \cup Sides}

\* Fill a cache with the records of S from the input (PutRead), also one that
\* nobody will drain (Leave), or with those at hand (Put); drain the next cache;
\* write what is at hand to a part file.
PutRead(path, S) == [op |-> "PutRead", path |-> path, of |-> S]
Leave(path, S) == [op |-> "Leave", path |-> path, of |-> S]
Put(path, S) == [op |-> "Put", path |-> path, of |-> S]
Take == [op |-> "Take"]
Write(path) == [op |-> "Write", path |-> path]

\* Mutant of Program: spill paths without the partition.
ProgramOnePath(t) ==
    LET spill == SpillPath(CHOOSE u \in Tasks : TRUE)
    IN  <<PutRead(spill, Sides), Take, Write(PartPath(t))>>

\* What execute_sync has a thread do: every operator drains its inputs and fills
\* its outputs; in the end the outputs of the last one are drained and written.
\* (Stray: two Reads, and the first one feeds nobody.)
Program(t) ==
    CASE job.plan = "Read" -> <<PutRead(SpillPath(t), Sides), Take, Write(PartPath(t))>>
      [] job.plan = "Map" ->
             <<PutRead(SpillPath(t), Sides), Take, Put(SpillPath(t), Sides), Take,
               Write(PartPath(t))>>
      [] job.plan = "Join" ->
             <<PutRead(SpillPath(t), {0}), PutRead(SpillPath(t), {1}), Take, Take,
               Put(SpillPath(t), Sides), Take, Write(PartPath(t))>>
      [] job.plan = "Stray" ->
             <<Leave(SpillPath(t), {0}), PutRead(SpillPath(t), {1}), Take, Write(PartPath(t))>>
      [] job.plan = "Shuffle" ->
             <<PutRead(SpillPath(t), Sides), Take,
               Put(BucketPath(0), {0}), Put(BucketPath(1), {1}),
               Take, Write(PartPath(0)), Take, Write(PartPath(1))>>

Instr(r) == Program(TaskOf[r])[pc[r] + 1]
Working(r) == r \in threads /\ thread[r] = "Work"

\* Executions of one task share its spill file; all executions of a job with a
\* shuffle share the bucket files.
Share(q, r) == TaskOf[q] = TaskOf[r] \/ job.plan = "Shuffle"
ScratchOf(t) == IF job.plan = "Shuffle" THEN Scratch ELSE {SpillPath(t)}

-----------------------------------------------------------------------------
\* drain_all finds no file to open.
FileMissing(r) ==
    Instr(r).op = "Take" /\ Head(caches[r]).spilled /\ file[Head(caches[r]).path] = NoFile

\* PartitionData::from_records: push_batch appends to the cache's file when the
\* cache is over its limit, and creates the file if need be.
Fill(r) ==
    /\ Working(r) /\ Instr(r).op \in {"PutRead", "Leave", "Put"}
    /\ LET path == Instr(r).path
           of == Instr(r).of
           recs == IF Instr(r).op = "Put" THEN Only(taken[r], of) ELSE Records(TaskOf[r], of)
           spills == TaskOf[r] \in job.spilling /\ recs # Nothing
           old == IF file[path] = NoFile THEN Nothing ELSE file[path]
       IN  /\ file' = IF spills THEN [file EXCEPT ![path] = Plus(old, recs)] ELSE file
           /\ caches' = IF Instr(r).op = "Leave" THEN caches
                        ELSE [caches EXCEPT ![r] = Append(@,
                                [path |-> path, spilled |-> spills,
                                 mem |-> IF spills THEN Nothing ELSE recs])]
           /\ taken' = IF Instr(r).op = "Put" THEN [taken EXCEPT ![r] = Only(@, Sides \ of)]
                       ELSE taken
    /\ pc' = [pc EXCEPT ![r] = @ + 1]
    /\ UNCHANGED <<job, thread, alone>>

\* Mutant of Drain: the spill file is kept.
DrainKeepingFile(r) ==
    /\ Working(r) /\ Instr(r).op = "Take" /\ ~FileMissing(r)
    /\ LET cache == Head(caches[r])
       IN  /\ taken' = [taken EXCEPT ![r] = Plus(@, IF cache.spilled THEN file[cache.path]
                                                    ELSE cache.mem)]
    /\ caches' = [caches EXCEPT ![r] = Tail(@)]
    /\ pc' = [pc EXCEPT ![r] = @ + 1]
    /\ UNCHANGED <<job, file, thread, alone>>

\* The file of a drained cache is removed, or stays when that fails, unnoticed.
RemoveFile(r, cache) ==
    \/ ~cache.spilled /\ UNCHANGED <<file, alone>>
    \/ cache.spilled /\ file' = [file EXCEPT ![cache.path] = NoFile] /\ UNCHANGED alone
    \/ /\ cache.spilled /\ job.sticky /\ UNCHANGED file
       /\ alone' = [q \in Requests |-> alone[q] /\ ~Share(q, r)]

\* drain_all: all that is in the file, whoever put it there, and its removal.
Drain(r) ==
    /\ Working(r) /\ Instr(r).op = "Take" /\ ~FileMissing(r)
    /\ LET cache == Head(caches[r])
       IN  /\ taken' = [taken EXCEPT ![r] = Plus(@, IF cache.spilled THEN file[cache.path]
                                                    ELSE cache.mem)]
           /\ RemoveFile(r, cache)
    /\ caches' = [caches EXCEPT ![r] = Tail(@)]
    /\ pc' = [pc EXCEPT ![r] = @ + 1]
    /\ UNCHANGED <<job, thread>>

\* write_records: the part file is truncated and written.
WritePart(r) ==
    /\ Working(r) /\ Instr(r).op = "Write"
    /\ file' = [file EXCEPT ![Instr(r).path] = taken[r]]
    /\ taken' = [taken EXCEPT ![r] = Nothing]
    /\ pc' = [pc EXCEPT ![r] = @ + 1]
    /\ thread' = [thread EXCEPT ![r] = IF pc'[r] = Len(Program(TaskOf[r])) THEN "Ok" ELSE @]
    /\ UNCHANGED <<job, caches, alone>>

\* An operator or a file operation fails, as the drain of a file that somebody
\* removed always does.  A failed write may have truncated the file; spilled
\* files stay, since a cache that is dropped does not remove its own.
Fail(r) ==
    /\ Working(r)
    /\ FileMissing(r) \/ failed + Cardinality({q \in threads : thread[q] = "Err"}) < job.failures
    /\ \/ UNCHANGED file
       \/ /\ Instr(r).op = "Write"
          /\ file' = [file EXCEPT ![Instr(r).path] = Nothing]
    /\ thread' = [thread EXCEPT ![r] = "Err"]
    /\ UNCHANGED <<job, pc, caches, taken, alone>>

-----------------------------------------------------------------------------
\* spawn_blocking: a thread with a new pipeline.
Spawn(r) ==
    /\ pc' = [pc EXCEPT ![r] = 0]
    /\ caches' = [caches EXCEPT ![r] = <<>>]
    /\ taken' = [taken EXCEPT ![r] = Nothing]
    /\ thread' = [thread EXCEPT ![r] = "Work"]
    /\ alone' = [q \in Requests |->
           IF q = r THEN /\ \A x \in threads : x # r => ~Share(x, r)
                         /\ \A path \in ScratchOf(TaskOf[r]) : file[path] = NoFile
           ELSE alone[q] /\ ~Share(q, r)]
    /\ UNCHANGED <<job, file>>

\* A thread is gone, with what it held in memory.
Gone(r) ==
    /\ pc' = [pc EXCEPT ![r] = 0]
    /\ caches' = [caches EXCEPT ![r] = <<>>]
    /\ taken' = [taken EXCEPT ![r] = Nothing]
    /\ thread' = [thread EXCEPT ![r] = "None"]
    /\ alone' = [alone EXCEPT ![r] = FALSE]
    /\ UNCHANGED <<job, file>>

FilesInit ==
    /\ Init
    /\ job \in Jobs
    /\ file = [path \in Paths |-> NoFile]
    /\ pc = [r \in Requests |-> 0]
    /\ caches = [r \in Requests |-> <<>>]
    /\ taken = [r \in Requests |-> Nothing]
    /\ thread = [r \in Requests |-> "None"]
    /\ alone = [r \in Requests |-> FALSE]

\* The thread of r makes a step; nobody else notices.
Compute(r) == (Fill(r) \/ Drain(r) \/ WritePart(r) \/ Fail(r)) /\ UNCHANGED vars

\* The handler of r makes a step of module Executor.
Handle(r) ==
    \/ (Acquire(r) \/ Report(r)) /\ UNCHANGED fileVars
    \/ StartAttempt(r) /\ Spawn(r)
    \/ thread[r] = "Ok" /\ EndAttempt(r, TRUE) /\ Gone(r)
    \/ thread[r] = "Err" /\ EndAttempt(r, FALSE) /\ Gone(r)

FilesNext ==
    \E r \in Requests :
        \/ Compute(r) \/ Handle(r)
        \/ r \in job.requests /\ Accept(r) /\ UNCHANGED fileVars
        \/ /\ Cardinality({q \in Requests : state[q] = "Cancelled"}) < MaxDrops
           /\ Cancel(r) /\ UNCHANGED fileVars
        \/ thread[r] # "Work" /\ OrphanEnds(r) /\ Gone(r)

\* The runtime polls ready futures, a blocking thread has an OS thread to itself
\* and operators terminate; nothing makes a request arrive or a connection break.
FilesSpec ==
    /\ FilesInit /\ [][FilesNext]_allVars
    /\ \A r \in Requests : WF_allVars(Compute(r) \/ Handle(r))

-----------------------------------------------------------------------------
Targets(t) == IF job.plan = "Shuffle" THEN Sides ELSE {t}
Expected(t, p) ==
    Records(t, CASE job.plan = "Shuffle" -> {p} [] job.plan = "Stray" -> {1} [] OTHER -> Sides)

\* An output that nobody drains is in the spill file of those that are drained.
Mixed(t) == job.plan = "Stray" /\ t \in job.spilling

\* An execution that met no other one on its files, no leftovers and no file that
\* resists removal, and that completes, has written exactly its records, spilled
\* or not: the two spilled inputs of a join, which have one file, make it fail and
\* never a wrong output.  (A spilled output that nobody drains does.)
AloneExact ==
    \A r \in threads : thread[r] = "Ok" /\ alone[r] /\ ~Mixed(TaskOf[r]) =>
        \A p \in Targets(TaskOf[r]) : file[PartPath(p)] = Expected(TaskOf[r], p)

\* Without a shuffle, retried, repeated and orphaned executions of a task leave
\* the files of other partitions alone.
OtherPartitionsUntouched ==
    job.plan # "Shuffle" =>
        \A t \in Tasks : \A path \in {SpillPath(t), PartPath(t)} :
            file[path] # NoFile => \A rec \in Record : file[path][rec] > 0 => rec[1] = t

\* When every output is drained and every drained file could be removed, only
\* executions that failed or were dropped leave spill files behind.
SpillReclaimed ==
    /\ ~job.sticky /\ job.plan # "Stray"
    /\ failed = 0 /\ \A r \in Requests : state[r] # "Cancelled" /\ thread[r] \in {"None", "Ok"}
    => \A path \in Scratch : file[path] = NoFile

=============================================================================
