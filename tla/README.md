# A TLA+ model of the distributed processing engine

The repository is a small batch engine in Rust: a master accepts jobs (DAGs of
operators over partitioned input), workers execute their tasks and post the
results back, and the master keeps its state in SQLite so that it survives a
restart.  This directory holds TLA+ modules for the parts in which something can
go wrong that a test would hardly reach, TLC configurations that check them on
small instances, and TLAPS proofs of the most important safety properties for
every value of the constants.  `PROJECT.json` maps every definition to the lines
it stands for.

## 1. The system

| Component | Source (under `src/src/`) | State | Operations |
|---|---|---|---|
| Master | `master/mod.rs` | `jobs` map under a mutex (status, task statuses, results, metrics) | `submit_job`, `schedule_task`, `schedule_all_queued_tasks`, `complete_task`, `handle_heartbeat`, `register_worker`, watchdog, `new` (recovery) |
| State store | `common/state_store.rs` | tables `jobs`, `tasks` (read at startup); `job_status`, `stage_status`, `worker_metrics` (never read) | `persist_*`, `load_all_*` |
| Registry | `master/registry.rs` | worker id → address, status, last heartbeat, metrics | `add_worker`, `record_heartbeat`, `mark_stale_workers`, `available_workers` |
| Scheduler | `master/scheduler.rs` | rotation queue | `select_worker` |
| DAG planning | `common/dag.rs` | none | `validate`, `ordered_nodes`, `inject_local_shuffle`, `materialize_tasks` |
| Task executor | `worker/executor.rs`, `worker/mod.rs` | semaphore, current-task slot, counters | `execute_task`, `execute_and_report`, `snapshot_metrics` |
| Operator pipeline | `worker/executor.rs` (`execute_sync`), `worker/ops/*` | map of intermediate results, output files | one `execute` per operator, writing the output |
| Partition cache | `worker/partition.rs` | records in memory, spill file, byte counters | `push`, `push_batch`, `drain_all` |
| Heartbeats | `worker/monitor.rs` | none | a POST every interval |
| Operators | `worker/ops/*` | none | read, filter, map, flat map, reduce, reduce by key, join, shuffle |
| HTTP API and its clients | `http/*`, `client/*`, `tests_support/*` | the job id a client holds | submit, poll, watch, fetch |
| Configuration, entry points, benchmarks | `common/config.rs`, `main.rs`, `bin/*` | none of their own | not modelled, see section 8 |

How they interact.  A client's POST reaches `submit_job`, which plans the graph,
writes the rows, publishes the job in the map and schedules every task itself;
only then is the id sent to the client, which polls the job with it.
Every heartbeat and every registration spawns a *sweep*, which takes a snapshot
of the Queued tasks and schedules each of them.  So several *passes* over the
same tasks run at once; they share the `jobs` map, and release its mutex between
the snapshot, the assignment, the write of the row and the update of the job.
Scheduling a task ends in a spawned POST to a worker.  The worker queues the
request for a permit, runs the pipeline in a blocking thread, retries a failure,
and posts the result once; `complete_task` holds the `jobs` mutex across two disk
writes.  A watchdog marks workers that fell silent as Down.

What is hard.  Overlapping passes that act on a stale snapshot; disk writes after
the mutex was released; a crash between any two writes; POSTs that are sent once;
errors of SQL statements that are ignored, or returned half-way; a worker's death
with tasks assigned to it; handlers dropped at an `await` while their thread goes
on; a rotation queue that is rebuilt only when its length changes; hash-map
orders; spill and bucket files shared between the operators of a task, attempts,
requests and tasks;
records dealt out by line number and joined by the text of their keys.  `hazards`
in `PROJECT.json` lists each one at its line with the properties that watch over
it.

What makes each component correct: for the master, that an assigned task is
always somebody's responsibility, that disk is enough to recover from, and that
queued work gets done; for the scheduler, its contract with `schedule_task`,
fairness among equals, and a bound on detection; for the executor, that permits
are conserved, retries are exact and every request is answered; for planning and
pipeline, that the plan respects the graph and the data follow it; for the
operators, that a job computes what its definition says however many tasks share
it; for the cache, that spilling is invisible, and where caches share a file, that
no record is lost or doubled; for a client, that what it was told stays true.

## 2. Modules

| Module | Models | Composed from |
|---|---|---|
| `Master` | master, state store, and the workers and the network as the master sees them | uses the contract of `Scheduler` in `Select`; instantiates `JobTable` |
| `JobTable` | the abstract specification of the rows in `state.db` | |
| `Client` | the API's clients, together with the master they talk to | extends `Master` |
| `Scheduler` | `select_worker`, registry, watchdog, heartbeats with a clock, addresses | |
| `Executor` | one worker's requests, permits, retries, reports | |
| `TaskFiles` | the executor's threads on the files of a job, under five plans | extends `Executor`; uses of a cache what `PartitionCache` shows: it is all in memory or all in its file |
| `PartitionCache` | caches and the spill files they may share | instantiates `RecordBuffer` |
| `RecordBuffer` | the abstract specification of a cache | |
| `Dag` | validation and planning of a submitted graph | |
| `Pipeline` | one execution of a task from its plan to its files, with its spill files, on any graph | extends `Dag` |
| `Operators` | what the operators compute on records | |
| `Dataflow` | all tasks of a job on real records, up to the part files | extends `Operators` |
| `MasterProofs`, `ClientProofs`, `SchedulerProofs`, `ExecutorProofs`, `PipelineProofs`, `DataflowProofs`, `PartitionCacheProofs` | theorems | extend the module they are about |
| `SequenceLemmas` | lemmas about sequences: flattening, selecting, listing a set, splitting | extended by `PipelineProofs` and `DataflowProofs` |
| `MCMaster`, `MCClient`, `MCScheduler`, `MCTaskFiles`, `MCPartitionCache`, `MCPipeline`, `MCDataflow` | instances for TLC: symmetry, inputs and constant functions | |

Definitions named after a mutation (`NormalizedNot`, `RotatedNot`, ...) stand next
to the definition they vary; no specification uses them.  They are plausible
mistakes in the code, one for each checked property, and TLC finds the property
violated when the mutant takes the place of the original.

### Master

`jobStatus`, `parts`, `task`, `results`, `total` and `completed` are the fields of
`JobState`; `dJob`, `dParts`, `dTask` and `dResult` are the columns of the tables
`jobs` and `tasks`.  A pass `i` has a program counter `pc[i]`: *PersistTasks* (the
loop of `submit_job`), *Snapshot*, and then per task *Select*, *Assign*,
*Persist*, *Mark*, *Dispatch*.  Each step is one critical section, or one disk
write outside of one.  `complete_task` is two steps (`CompleteTask`,
`FinishCompletion`) because a crash may fall between its writes; `completing`
holds the mutex meanwhile.  `running` counts executions (a POST on its way to the
worker included), `reports` the results on their way back.  `lost` is a history
variable: tasks that lost an execution or a report to a dead worker or to the
network.

Every SQL statement may fail (`ok`), up to `MaxDbErrors` times; what follows is
what the code does: return with `?`, or go on.  `Restart` is `Master::new`: each
of the two SELECTs may fail, and then counts as empty; a task whose job was not
loaded gets a placeholder job; Assigned rows become Queued in memory and, when
their write succeeds, on disk.

A task is `<<job, partition>>`.  Its id is a hash of the job, the length of its plan
and the partition, and a sweep computes it anew (`queued_tasks_snapshot`).  The comment
in `dag.rs` calls these ids deterministic, but the length of the plan need not be: a
`ReduceByKey` gets a shuffle of its own unless the operator before it in the plan
is one, and in a graph of several branches which operator that is depends on the
order of a `HashMap`.  `Ambiguous` is the set of jobs with such graphs.  `Snapshot` may
miss the tasks of these jobs, each time anew, and always finds those of the others.

Abstractions.  `TaskStatus::Running` is never produced by the master or reported by a
worker, and is left out.  An Assigned status does not name its worker: nothing
in the code reads it after the insertion (`complete_task` looks for it after
overwriting it).  The spawned POST is one step of the pass that sends it, after
which the execution counts as running.  Failing writes of the requeue loop of one
restart count as one error.  The progress is a whole percentage.  `submit_job` and
`schedule_task` have no `await` inside, so that a client that hangs up does not
stop a submission half-way.

`JobTable` says what a reader of the rows may rely on: a job appears with its whole
DAG, its tasks are added one by one while it is Accepted, a result is stored before
a status that depends on it, a status of Running, Failed or Succeeded has the rows
that justify it.  After a failed statement (`faulty`) the table promises less: a
status may be written without its reasons and the DAG may be replaced, which is
what ignored errors of `persist_job` and a failed `load_all_jobs` lead to.
`Master.TableSpec` maps the columns to the variables of the table.

### Client

A client is *Idle*, *Submitting*, *Known* (it has an id), *Watching* or *Told* (it
has seen Succeeded).  The handler answers when its pass is over: with the id, or
with an error when a row of the submission could not be written; a crash breaks the
connection.  The command-line client times out after ten seconds (`GiveUp`), the
submission goes on.  `Poll` is a round of `watch_until_terminal` or `poll_status`:
a terminal status, an unreachable master or a 404 end it.  The requests of workers
(`heartbeat`, `register_worker`, `complete_task`) are actions of `Master`.
`shared` is history: whether two passes have ever held the same task.

### Scheduler

Time is counted in ticks; `Interval` is the heartbeat interval, `Grace` and
`Period` are twice that, as in `garbage_collect_workers` and `spawn_watchdog`.  A
live worker's heartbeat arrives at most `Interval + Delay` after the last one.
`last` and `waits` are history: the last selection and for how many selections a
worker was passed over since the registry changed.  The queue is rebuilt in any
order (a HashMap's).  The field `cursor` of the scheduler is written and never
read, and is left out.  `address` is where a worker's tasks are posted: a worker
registers with the address it advertises, its heartbeats carry the one it listens
on, and `record_heartbeat` uses that only for a worker it does not know, which
happens after `MasterRestarts`.

### Executor and TaskFiles

A request goes *Unsent, Waiting, Starting, Running, Reporting, Reported*, or is
*Cancelled* when its connection breaks: axum then drops the handler's future at
the `await` where it is, which releases the permit or leaves the semaphore's
queue, while the blocking thread goes on (`threads`) and `active_task` keeps its
value.  The semaphore serves its waiters in order, as tokio's does.

In `TaskFiles` a thread runs the program `execute_sync` makes of the task's plan:
fill a cache, drain a cache, write a part file.  One fill, one drain and one write
are each one step.  A file is kept as the number of times each record is in it (the
order of records plays no role here): a fill adds to a spill file, a drain takes all
of it and removes it, whoever wrote it.  The paths are the code's:
one spill path per task, shared by all its caches and all its executions, and one
bucket file per bucket, shared by all tasks of a job.  A job is a plan, the tasks whose
caches pass the limit, whether files may resist removal (`sticky`: the error is ignored
and the file stays), the requests that come for it and a bound on spontaneous
failures.  The plans are a Read, a Map, a Join of two inputs, an explicit shuffle, and
*Stray*: two Reads of which the first feeds nobody, so that its cache is never
drained.  `Pipeline` has all graphs, for one execution that is alone; `TaskFiles` has
these five for retries, duplicates, orphans and what they leave behind.  All
workers share one data directory, as in the repository's own set-up.

### Dag and Pipeline

The initial states are all graphs over the nodes, with edges that may form cycles
or name unknown ids.  `ordered_nodes` and `inject_local_shuffle` are their loops,
one step a turn: `incoming` and `queue` belong to the first one's `while` loop,
`ordered` is its `ordered_ids`, `next` the position of its `for` loop and then that
of the loop which builds `plan`.  The filter between the two functions is part of
the latter's step.  Assumed of a graph: ids of nodes are distinct, and none is the
id of an injected shuffle.  Edges form a set: duplicates of an edge are not modelled.
Ids are atoms, so that the `"from->to"` strings in which edges travel are
abstracted away.  All operators use one key.

The contents of a partition are its provenance, the set of Read nodes whose records
went into it; the number of partitions and their ids are kept, because `JoinOp`
counts them and files are named after them.  FlatMap, Filter and Identity handle
partitions like Map; Reduce and Aggregate like ReduceByKey.  An explicit shuffle has
a number of buckets of its own, at least one; an injected one that of the job.

A partition's cache is in memory or has spilled, and either may happen to any
partition with records.  All caches of a task spill to one file (`Spill`), but for the
buckets of shuffles, which have one each; `disk` has the provenance of what is in
them.  An operator starts (`StartOp`) by taking what is left of its parents' outputs
from `results`; then it drains inputs (`todo`) and fills outputs (`slots`) one at a
time, Map in turn, the others all inputs first.  A drain of a spilled cache returns
what the file holds, whoever put it there, and removes the file, or fails to do so
unnoticed; a drain that finds no file fails the task.  A Read drops its inputs undrained,
and the end of the pipeline drops every output but the last.  Any operator, fill, drain
or write may fail (`Fail`).  `seen`, `met` and `stuck` are history: what an operator has put
out, the paths where a cache spilled to a file that was there already, and whether a
file could not be removed.  The execution finds no leftovers and has its files to
itself; other executions and earlier attempts are in `TaskFiles`.

### Operators and Dataflow

A record is a function from fields to values: null, a number, a text or an array; a
text is the sequence of its words.  That is enough for what the operators do to
texts: recognise a numeral (`NumeralOf`; `"01"` and `"1"` are one number), format a
number as the text of a key (`DecimalOf`), split at white space, compare without
case (`LowerOf`).  Each operator is one definition over a sequence of records whose
value is `Ok` with the result or `Err`, with the code's differences between them: an
unknown predicate or reducer fails at once, an unknown map function at the first text
or number it meets, an unknown flat map at the first record; `ReduceByKey` takes texts
as keys only, join and shuffle also numbers.  The loops that select are `Kept` (the
elements at some positions, in order), the one that folds is `FoldNumeric`, both
recursive functions; a record made of two is one laid `Over` the other, as a map is
when the fields of another are inserted.  Booleans, fractions, the range of i64 and
nested objects are left out; numbers are integers, so that a sum does not round.

`Dataflow` runs every task of a job on its share of the input, through a chain of
operators, and lets the tasks write their part files in any order; `part` has the
files that exist.  `Apply` is `Operator::execute` on a vector of partitions, `After`
what a task has after some of the operators.  The shuffle `inject_local_shuffle` puts
before a `ReduceByKey` has no edges (see `Dag`), so that no records pass through it and
it is not in the chain.  `DefaultHasher` is any function on the texts that occur.
`JobsAssumption` says what a file and a plan are: lines are blank, rows of texts,
values, objects or malformed, objects have finitely many fields, a plan is a sequence
of operators that exist.  Nothing is assumed of predicates, functions, reducers, keys,
join types or formats, known or unknown.  A shuffle into 0 partitions is one into 1
(`AtLeastOne`), as `Operator::from_type` has it.

### PartitionCache

Records are atoms with a size, each pushed at most once; a spill file is the sequence
of records in it.  `estimate_size` and the newline each spilled record costs are kept,
since the limit is compared with the bytes in memory *and* on disk.  Each cache has a
path, and caches may have the same one, as those of a task do.  A cache is filled,
then drained and consumed, or dropped without a drain, which leaves its file behind
(there is no `Drop` implementation); a new cache may find such a file.  A spill may fail
with part of the records written, a drain may fail, and the removal of a drained file
may fail unnoticed.  `own` is history: whether no other cache has used the file of this
one since it spilled first, and there was none then; `returned`, `kept` and `dropped`
are the records that some drain returned, that stayed in a file which could not be
removed, and that went with the memory of a dropped cache.

`RecordBuffer` is what an operator may rely on: a cache that has its file to itself
returns the records pushed into it, all, once and in order; one that does not returns
some records that were pushed into one cache or another.

## 3. Runs

| Run | Configuration | Shows |
|---|---|---|
| `client_crash` | 1 client, 1 job of up to 2 tasks, Ambiguous, 1 worker, 2 passes, 1 crash | what a client was told survives overlapping passes, crash and recovery |
| `client_live` | 1 client, 1 task, 1 worker, 2 passes, one each of: crash, death, lost POST, false suspicion | queued work is found; a watch ends |
| `master_faults` | 1 job of 1 task, Ambiguous, 2 workers, 2 passes, one each of: crash, death, lost POST, false suspicion, SQL error; failing tasks | the master's safety under all faults together, and the refinement of `JobTable` |
| `master_lost_task` | 1 task, 2 workers, 1 death | **violated**: README line 558 |
| `master_progress` | up to 2 tasks, 2 passes, no faults | **violated**: README line 559 |
| `master_failed_job` | up to 2 tasks, a single pass, failing tasks | **violated**: README line 339 |
| `scheduler_rotation` | 3 workers, three load values, two of them equal, interval 1, delay 1, restarts of the master | contract, fairness, detection bound, no false suspicion, addresses |
| `cache_refines` | 3 caches, two of them with one path, records of size 1, 3, 4 and 5, limit 3, drops and failing spills, drains and removals | refinement of `RecordBuffer`, no record lost or returned twice, memory bound |
| `pipeline_flow` | all graphs over 3 nodes, an unknown id, up to 3 edges, 5 kinds of operators, 2 partitions, up to 2 buckets, any partitions spilled | plan and data flow, and what the one spill file of a task does to it |
| `pipeline_fan_out` | the same with up to 2 edges | **violated**: README line 470 |
| `task_files` | up to 3 requests for 2 tasks, 2 permits, 1 retry, up to 2 failures, 1 dropped handler, 5 plans, with and without spilling, with and without files that resist removal | permits, retries, current task, answers; what executions do to each other's files |
| `dataflow_jobs` | all CSV files of up to 2 lines out of 6 and of 3 out of 4, JSON files of up to 2 out of 5 (3 for a shuffle), 10 chains without a key, 7 reducers, 4 join types, shuffles, chains that go on after a join or a shuffle, 1 to 3 tasks | outputs against reference definitions |

### Properties

Master.
- `NoTaskStranded`: an Assigned task is carried by a pass, an execution or a
  report, or was lost with a process or a message.  The passes, `complete_task`
  and recovery never drop one by themselves.
- `NothingForgotten`, `StatusDurable`, `SucceededHasResults`: while no SQL
  statement has failed, every task in memory has its row, a task that reported has
  its result stored, the status of a job is on disk, and a Succeeded job has a
  stored result for each of its rows.
- `RowsConsistent`: with or without SQL errors, a task row has a job row, and a
  row a restart takes for finished holds that result.
- `ResultsKept`: a stored result is never erased, not even by the late write of
  an Assigned row.
- `TableSpec`: the rows implement `JobTable`.
- `QueuedIsReported`: the sweeps find every Queued task of a job that is not
  Ambiguous; for the others, finding it is a toss of each sweep.

Client.
- `AcknowledgedSurvives`: an id a client was given stays good, with all tasks of
  the job, wherever the master crashes.
- `OutputsStay`: a client that has seen Succeeded gets every output in every later
  answer, even when an overlapping pass has set the job back to Running or the
  master was restarted.
- `CountedOnce`, `SucceededIsFinal`: what the progress and the status are worth as
  long as no two passes hold the same task; `master_progress` shows what a client
  sees of it otherwise.
- `WatchEnds`: a watch over a job with tasks that is not Ambiguous ends while no
  execution, report or message is lost, no crash happens and a worker lives.  Each
  exception is needed: tasks of a dead worker are not rescheduled, and a crash
  between the last result row and the job row leaves a job Running for ever, with all
  its tasks Completed. It is checked with tasks that complete; `master_failed_job`
  shows `JobTerminates` false once one may fail.

Scheduler.  `QueueSound`: the rotation neither loses nor duplicates an entry.
`SelectContract`: what `Master.Select` assumes.  `FairRotation`: among equally
loaded workers nobody is passed over for longer than a round.  `DetectionBound`:
no Active worker is silent for longer than grace plus period.
`NoFalseSuspicion`: a worker whose heartbeats are at most an interval late is
never marked Down.  `AdvertisedAddressUsed`: only after a restart of the master are
tasks posted to an address the worker did not register.  `SelectedIsActive` is what
README line 557 promises; it is false when one worker leaves and another joins
between two selections, because the queue then has the right length and is not
rebuilt.  It is stated in the module and checked by no run; `Master.Select` allows
for it by selecting any registered worker.

Executor, TaskFiles.  `InFlightExact`, `ParallelBound`, `RetriesExhausted`,
`CurrentTaskReal`, `EveryRequestReported`: see their comments.  `AloneExact`: an
execution that shared its files with no other, found no leftovers and met no file that
resists removal wrote exactly its records if it completed; two spilled inputs of a join
make it fail, never write a wrong output.  Excepted is a task with a spilled output
that nobody drains: its records do get into the output.  `OtherPartitionsUntouched`:
without a shuffle, whatever is retried, repeated or dropped, files of a task hold
only its own records. `SpillReclaimed`: where every output is drained and files can
be removed, only failed or dropped executions leave spill files.  Together they
delimit what goes wrong: a retry after a failure between a fill and its drain, or a
second execution of the task at the same time, may write records twice, or fail for
want of the file, and tasks of a job with an explicit shuffle may do that to each
other.  (The repository's README, line 25, lists "idempotent task attempts" as a
feature; that holds of executions that do not spill.)

Dag, Pipeline.  `EachNodeOnce` and `TopologicalOrder` are about the plan;
`DataflowExact` about the data as long as no two caches met in a spill file: an operator
puts out records of Reads that feed it only, on every graph, and of all of them on
graphs in which no node feeds two others.  `CollisionFails` says what happens when two
caches did meet: a task all of whose outputs are drained fails, since whoever drains
first takes all and somebody else finds no file.  It takes an output that nobody
drains to hide this: with two large Reads of which one feeds a Map and the other
nobody, the task completes with the records of both.  `ReportedFileWritten` is about
graphs without forks and explicit shuffles, spilled or not.  The
reference definitions share nothing with the code's algorithm: a graph is acyclic
when every set of ids has one without parents in it, and the sources of a node are
the Reads in every set that holds the node and what feeds its members.

Dataflow.  `PartitionTransparent`: the number of tasks does not show in the output,
and a task fails exactly when a single task would.  It is about chains in which only
the last operator looks at several records at once (`RecordWise`); if that one has a
key, the tasks' keys must be disjoint (`Aligned`), since no record ever moves between
tasks: a key that two tasks read is reduced twice, and joined only within each task.
`ReduceMatchesReference` and `JoinMatchesReference` compare with aggregates over
sets and with a count of pairs; a right or full join is exact when its right input
has no duplicates, since `JoinOp` marks the first of equal records only.
`KeysColocated`: whichever task wrote a bucket file last, records a join would
match are never in two buckets.

PartitionCache.  `BufferSpec` is the refinement.  `NothingLost` and `NothingTwice` are
about caches that share files: records change hands, but each is in one place until a
drain returns it, and then in none, unless its file could not be removed.
`MemoryBounded` is about what the refinement hides.

### Why the bounds are enough

Two passes suffice for every race between a snapshot and an assignment, since
each race is between two threads over one task; two tasks are needed for a job to
be partly done.  One crash at any step followed by a restart exercises every prefix
of the disk writes.  `client_crash` has two tasks and no SQL errors, `master_faults`
all faults and one task; the theorems cover the combination and remove the bounds.
Three workers are the least for which one can leave, one join and one stay; the
three metrics give a tie between different values.  In the cache a record of the
size of the limit, one below it and two above it give "equal to the limit", "just
above" and "already spilled"; two caches on one path give a shared file, one of them
dropped and made anew a leftover, and the third, with a path of its own, somebody not
concerned.  Three nodes give chains, forks, joins and cycles; the unknown
id gives dangling edges; three are also the least for a join of two spilled Reads and
for a spilled Read that feeds nobody next to one that feeds a Map.  Three requests on
two permits give a waiter, two for one task a duplicate execution, one failure and
one dropped handler a leftover and an orphan.  Three lines over up to three tasks
give every remainder, an empty share and a task with two lines; the rows include
blank, short and long ones, an empty key, keys that differ in case and numerals that
denote one number.

### Deadlock

`CHECK_DEADLOCK FALSE` stands where the system may stop: all workers dead
(`master_faults`, `client_live`), a finished task or job (`pipeline_*`,
`dataflow_jobs`), all requests answered (`task_files`).

## 4. Fairness

`Master.Fairness`: weak fairness of every pass (tokio polls ready futures and the
mutexes are held for bounded sections), of handling a report that was not lost,
of the second half of `complete_task`, of the end of an execution (operators are
loops over finite inputs), of each live worker's heartbeat (the loop of
`spawn_heartbeat`), and of the restart of a crashed master.  The last one is an
assumption on operation, not on the code: somebody starts the master again.  No
fairness on submissions, registrations, suspicions, deaths, losses or crashes.
`ClientFairSpec` adds that a client that watches keeps asking (the loop of
`watch_until_terminal`); nothing makes a user start a command.
`FilesSpec`: weak fairness of each request's own steps and of its thread; none on
arrivals or dropped connections.  The two temporal violations are found under
`Master.FairSpec`.

## 5. Findings

1. A task whose worker died is not rescheduled (`master_lost_task`): the watchdog
   changes the worker's status only, and sweeps take Queued tasks only.
2. Duplicate executions are counted (`master_progress`): `submit_job` and a sweep,
   or two sweeps, take the same Queued task, and `complete_task` does not tell the
   two reports apart; the progress of a job of one task reaches 200 per cent.
3. A Failed job may go back to Running and stay there (`master_failed_job`).
4. A node that feeds two others delivers to one of them (`pipeline_fan_out`).

Each is quoted against the README line it disagrees with in `PROJECT.json`.

## 6. Proofs

`MasterProofs.TypeCorrect`.  The type invariant alone is not inductive: a step of a
pass uses `cur[i]`, `target[i]` and `job[i]`, which are `None` unless the pass is at
certain labels.  `PassOK` says at which labels they are set.

Safety of the master, from `MasterAssumption` only.  `MemoryInv` adds what ties the
passes to the map: a process that is down has no memory (`DownIsEmpty`), a task in
the map has its job there (`JobKnown`), every task a pass or `complete_task` is at
is in the map (`TodoKnown`, `CurKnown`, `ReportKnown`; jobs are never removed).
From it `NoTaskStranded` is inductive: only `Assign` and `Restart` make a task
Assigned; the pass then carries it until `Dispatch` hands it to an execution or
puts it in `lost`; an execution ends in a report; consuming a report sets the
status; and a restart turns Assigned into Queued, which is why a mutant that skips
that is caught.

`DiskInv` adds the disk: a job being submitted is owned by one pass and not in the
map yet (`SubmissionOwnsJob`), a job in the map has its row (`JobsStored`), and rows
of a job in the map are in the map while no statement failed (`RowsLoaded`).  The
last one is what makes `SucceededHasResults` inductive: "no task pending" is
evaluated over the map, and the property is about the rows.  `RowsConsistent`,
`NothingForgotten`, `StatusDurable` and `SucceededHasResults` are proved together,
action by action, and `ResultsKept` is an action property of the same steps.

`MasterProofs.MasterImplementsTable`: initial states map to initial states,
every step to a step of `JobTable` or to none.  Beyond `DiskInv` it needs that
whatever is known, executed or reported on has a row even after errors
(`RowsHeld`), that `complete_task` holds the mutex over a result it has stored
(`CompletingStored`), and that without errors the DAG in memory is the stored one
(`PartsStored`).

`ClientProofs`.  `AcknowledgedJobsSurvive`: `ClientsOK` follows a submission from
its pass to the answer (`Underway`: the pass still writes the rows, or has published
the job with all of them), and `Safe` says what stays.  That a client's step is a
step of the master or none is a lemma, by which everything proved of `Master` holds
here, too.

`OutputsAreKept` needs three things more (`OutputsInv`): rows are only for tasks of
the stored DAG (`RowsInside`), what has a result has a row (`OutputsReal`), and in a
master that is up a stored result is among those it answers with, but the one
`complete_task` is at (`OutputsLoaded`).  With them, a client that was told
Succeeded has every output in memory and on disk (`Delivered`), and no step removes
a stored result.

`CountingIsExact` and `SuccessIsFinal` are about runs in which no two passes have
held the same task and the master has not crashed, which is a history and not a
state.  `SoloNow` says what such a history leaves behind: passes have no task in
common (`Disjoint`), the tasks a pass has yet to assign are Queued and the one it has
assigned is with nobody else (`HeldOK`), and of a task there is at most one execution
or report, and then it is Assigned (`OneCopy`, `Copies`).  So `complete_task` meets
every task once, which `CountedNow` turns into the results and the counter.  Reports
are told from `None` by `MasterAssumption`.

`SchedulerProofs`, from `SchedulerAssumption`, for any interval and delay.  The
bounds of the watchdog are not inductive by themselves: `AgeOK` ties the age of an
Active worker to the time since the watchdog last ran, `HeartbeatOK` that of a live
one to the permitted delay; `AddressOK` says which address the registry has for
whom.  `QueueSound` and `SelectContract` rest on lemmas that a rotation is a
permutation and that the walk stops within one round.  `RotationIsFair`: `FairRotation`
bounds the selections for which a worker was passed over.  `RotationOK` ties that
count to places in the queue: it is at most the number of least loaded workers
behind the worker, since a selection puts whom it takes at the back; and a queue
that is due to be rebuilt has passed over nobody.

`ExecutorProofs`, from `ExecutorAssumption`.  `QueueOK` (a waiting request is
queued once), `AttemptsOK` and `ThreadsOK` make the permits, the retries and the
current task inductive; counting handlers at work needs the cardinality theorems.
`FilesImplementExecutor` carries the results over to `TaskFiles`.

`PartitionsAreIsolated`, `SpillIsReclaimed` and `AloneIsExact` are about all threads of
all executions on all files, also from `NoFileAssumption` (an absent file is no
contents).  `FilesInv` says where a thread is in its program (`ProgressOK`), that
without an explicit shuffle an execution holds records of its task only, in caches
with the task's path (`RecordsOwned`), and that until an attempt has failed or a
handler was dropped, a spill file has a thread that will drain it (`SpillHeld`).
`AloneOK` is for an execution that is alone: no other thread is at its files
(`Apart`), and what it has in vectors, caches and files is what its plan has come to
at that instruction (`OnCourse`).

`PipelineProofs`, from `DagAssumption` and `PipelineAssumption`: any finite graph, any
order of the HashMap, any number of partitions.  `PlanInv` has an invariant for each
loop.  For the `while` loop (`CountersOK`) an id waits for as many parents as are not
output, and is queued or output once there are none; so no id is queued twice
(`OutputOnce`), and in a well-formed graph every id comes after its parents
(`OutputSorted`).  When the queue is empty, the nodes not output would each have a
parent not output, which an acyclic graph excludes (`AllReached`): the `for` loop adds
nodes only on graphs that have no order.  `PlanSound` carries both over to the plan
with its shuffles: `NoNodeLost`, `PlanIsSorted`.

`FlowInv` adds the execution.  A partition that has spilled and waits to be drained is
a *ticket* for its file; partitions have names (`Named`), so that a ticket is told from
another with the same contents.  Until two caches meet (`met`), every ticket has a file
to itself with just its records (`Apart`).  So an operator handles only records of Reads
that feed it (`Within`), given that the sources of a node are its own or those of
its parents (`SourcesStep`), and in a graph without forks it misses none of them: what
it has not put out is at hand or yet to be drained (`Exhaustive`), since an output is in
the map until the one who needs it takes it (`Waiting`).  That gives `DataFollowGraph`.
`Numbers` follows the numbers of partitions to the files, for `ReportedFileExists`.
`CollisionsFail` rests on `Claims`: when all outputs are drained and files removed, an
existing file has a ticket, and one where caches have met has two while it exists and
one at least when it is gone, whose drain must fail; a task that completes has no
tickets left.  What the inputs of an operator are rests on what `FlattenSeq` has in it
(`FlattenElems`).  `FlattenSeq` is a recursive function; the induction it takes is
done by way of the least position at which the claim fails (`LeastExists`, from the
well-foundedness of the natural numbers), which needs no operator as a parameter.

`PartitionCacheProofs`, from `CacheAssumption` only: any caches, sizes and paths, shared
or not.  `CacheInv` is the type invariant, `Emptied` (a consumed cache is empty) and
`Known` (a record that is anywhere was pushed).  Lemmas say where each action moves
records (`PushMoves`, `FailPushMoves`, `DrainMoves`, `DropMoves`); from them
`NothingLost` is inductive with the types alone, and `NothingTwice` with `CacheInv`:
a record that is pushed is new, so it is nowhere else.  For the refinement, `OwnOK`
says that a cache which has its file to itself finds it, and that file and memory
together are what was pushed, in order; a drain of any other cache returns records
that some cache was given (`ContentsUsed`).

`DataflowProofs`, from `NumeralAssumption`, `DataflowAssumption` and `JobsAssumption`:
any files, plans, hash functions and numbers of partitions.  The inductive invariant
`DataflowInv` is small, since tasks do not talk to each other: a task fails exactly
when its operators do, what it has yet to write is a suffix of what they put out, and
every part file holds a partition that some task put out for it.  All the rest is
about what the operators compute, and is proved of `Output`, not of steps.

- *Lists and shares* (`SequenceLemmas`).  A sequence `Lists` the values of a function
  `g` on a set `E` when its positions and the elements of `E` correspond one to one.
  Two sequences that list the same are equal as bags, and a value is in one as often as
  `E` has elements for it (`ListsCount`).  A family of sequences is a `Split` of a
  sequence when each position of it belongs to one member, which has its elements in
  their order.
- *Operators on single records.*  What the tasks read is a split of what one task would
  read: lines are dealt out by index, and blank ones dropped before (CSV) or after
  (JSON).  Filter, Map and FlatMap take splits to splits, and fail on the whole exactly
  when they fail on some share; so does a chain of them.
- *ReduceByKey.*  Shares without a common key have whole groups, so that a group of the
  job is the group of its owner, in the same order, and the lists of results put
  together list the groups of the job.  `ReduceIsReference` also needs that the fold of
  `fold_numeric` is what `Aggregate` defines: a minimum or maximum is one of the numbers
  and bounds all; the sum over a set of positions, which `MapThenSumSet` defines by
  choosing elements one after the other, is the sum in any order (`SumOf`, `SetSum`:
  the least size of a set for which it is not).
- *Join.*  What a join puts out is a record per *place*: a pair of positions with equal
  keys, or a position and 0 for a record without a partner.  `JoinSet` is that set, and
  the output lists it (`JoinLists`).  Shares without a common key hold all partners and
  all equal copies of their records (`Closed`), so that the places of the tasks
  are those of the job, split (`ShareLists`, `JoinSplit`).  `JoinIsReference` counts
  the places of a record by kind (`JoinCount`); right records marked as matched are
  those with a partner when none is there twice (`MarkedHavePartners`).
- *Files.*  In a job without a shuffle at the end a task writes the one file of its
  number, so that the files together list what the outputs list (`WrittenLists`); in one
  with a shuffle a bucket's file holds records of that bucket only, whoever wrote it, and
  equal key texts are in one bucket (`KeysStayColocated`).

Recursive functions (`Kept`, the fold, `FlattenSeq`, `After`, `MapThenSumSet`) are
unrolled by lemmas that show the function exists, and induction over positions is done
by the least one at which a claim fails.

Every invariant, every action property and every refinement a passing run checks is
stated by a theorem.  Only model-checked are the liveness properties
`QueuedIsReported`, `WatchEnds` and `EveryRequestReported`: fairness and ENABLED are out
of the provers' reach.

## 7. Plan

In place: `Master` with `JobTable` and `Client`, `Scheduler`, `Executor` with
`TaskFiles`, `PartitionCache`, `Dag` and `Pipeline`, `Operators` and `Dataflow`, the
runs of section 3 and the theorems of section 6.  Left: the master with several workers'
executors in one specification, in place of `running` and `Finish`, and a proof that
it implements `Master`.

## 8. Not modelled

- HTTP routing, (de)serialisation, configuration, entry points, the output of the
  client, benchmarks and reports: no state of their own.
- Downloads.  The `results` command asks the master for the paths the workers
  reported, which the master does not serve, so that every attempt ends in a 404;
  `job_result_file` reads the first completed result from a path of a worker's
  disk.  Likewise the `workers` and `metrics` commands and `wait_for_master`
  use endpoints that have no route.
- Booleans, fractions, nested objects, quoting, the range of i64, the grammar of
  predicates and functions.
- File operations in smaller steps: a fill, a drain and a write are atomic in
  `TaskFiles` and `Pipeline`, so that torn lines of two threads appending at once are
  left out.  A line that a failed spill wrote in part counts
  as not written.
- Time-outs of the worker's own POSTs: the code sets none, so that
  `EveryRequestReported` assumes that the POST of a result returns.
- Metrics other than the counter behind the progress; the tables that are only
  written.
- Ports.  A worker whose port was taken, or is not open yet, is a lost POST or a
  dead worker to the master.
- Poisoned mutexes: no critical section panics on modelled inputs.
