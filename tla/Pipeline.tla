------------------------------ MODULE Pipeline ------------------------------
(***************************************************************************)
(* Executor::execute_sync: one task runs every operator of the plan, in    *)
(* order, on its partition of the input.  What a partition holds is        *)
(* abstracted to its provenance, the Read nodes whose records went into it; *)
(* the number of partitions an operator takes and returns is kept, because *)
(* Join counts them, and so is where a partition spills to: all caches of  *)
(* the task have one path, but for the buckets of shuffles.  The task has  *)
(* its files to itself; other executions on them are in module TaskFiles.  *)
(***************************************************************************)
EXTENDS Dag

CONSTANTS
    Partitions,     \* partitions of the job
    Partition,      \* Task.partition
    MaxBuckets,     \* bound: buckets of a shuffle
    Missing,        \* no entry in the map of intermediate results
    NoFile          \* the file does not exist

VARIABLES
    step,       \* operators started
    results,    \* outputs of an operator until somebody takes them
    todo,       \* partitions the operator, or the writer, has yet to drain
    slots,      \* partitions the operator has yet to fill: number and path
    held,       \* provenance of the records the operator has at hand
    disk,       \* provenance of the records in the spill files
    output,     \* provenance of the records written
    written,    \* numbers of the part files the task has written
    seen,       \* history: provenance of all an operator has put out
    met,        \* history: paths where a cache spilled to a file that was there
    stuck       \* history: a file could not be removed

flowVars == <<step, results, todo, slots, held, disk, output, written, seen,
              met, stuck>>
vars == <<dagVars, flowVars>>

-----------------------------------------------------------------------------
PlanIds == Nodes \cup {Injected(n) : n \in Nodes}

\* spill-<partition>.bin, and bucket-<b>.bin next to it.
Spill == <<"spill", 0>>
Bucket(b) == <<"bucket", b>>
Paths == {Spill} \cup {Bucket(b) : b \in 0..(MaxBuckets - 1)}

\* A partition: its number, the path of its cache, whether that has spilled, the
\* records that went into it, and who made it as which of its outputs.
Filled(by, slot, spilled, data) ==
    [by |-> by, no |-> slot[1], path |-> slot[2], spilled |-> spilled, data |-> data]
AllPartitions ==
    [by : PlanIds \X Nat, no : Nat, path : Paths, spilled : BOOLEAN, data : SUBSET Nodes]

ASSUME PipelineAssumption ==
    /\ Partitions \in Nat /\ MaxBuckets \in Nat
    /\ Partition \in 0..(Partitions - 1) /\ Partitions <= MaxBuckets
    /\ \A S \in SUBSET Nodes : NoFile # S
    /\ Missing \notin Seq(AllPartitions)

\* Mutant of Taken: everything in the map.
TakenAll(id) == {p \in PlanIds : results[p] # Missing}

\* Outputs an operator takes: those of its parents that are still in the map.
Taken(id) == {p \in Parents(id) \cap PlanIds : results[p] # Missing}

\* Inputs an operator may get: an empty partition when it has no parents, else
\* what is left of their outputs, in the order of the edges.
Inputs(id) ==
    IF Parents(id) = {} THEN {<<Filled(<<id, 0>>, <<Partition, Spill>>, FALSE, {})>>}
    ELSE {FlattenSeq([k \in 1..Len(from) |-> results[from[k]]]) :
              from \in SetToSeqs(Taken(id))}

-----------------------------------------------------------------------------
\* The partitions an operator fills: how many, their numbers and paths.
Slot(p) == <<p.no, p.path>>

\* ReadOp: the number and the path of the task, whatever the input.
Read(ps) == <<<<Partition, Spill>>>>

\* MapOp, FilterOp, FlatMapOp: one for each partition that comes in.
Map(ps) == [k \in 1..Len(ps) |-> Slot(ps[k])]

\* JoinOp: one, with the smaller number of its two inputs.
Join(ps) == <<<<IF ps[1].no <= ps[2].no THEN ps[1].no ELSE ps[2].no, ps[1].path>>>>

\* Mutant of Reduce: the reduced partition is numbered 0.
ReduceToZero(ps) == IF ps = <<>> THEN <<>> ELSE <<<<0, ps[1].path>>>>

\* ReduceOp, ReduceByKeyOp: one like the first, or none.
Reduce(ps) == IF ps = <<>> THEN <<>> ELSE <<Slot(ps[1])>>

\* ShuffleByKeyOp: a bucket for each number below its total_partitions.
Shuffle(n) == [b \in 1..n |-> <<b - 1, Bucket(b - 1)>>]

\* An explicit shuffle has a number of buckets of its own, at least one; an
\* injected one has that of the job.
Buckets(id) == IF id \in Nodes THEN 1..MaxBuckets ELSE {Partitions}

Slots(id, ps, n) ==
    CASE KindOf(id) = "Read" -> Read(ps)
      [] KindOf(id) = "Map" -> Map(ps)
      [] KindOf(id) = "Join" -> Join(ps)
      [] KindOf(id) = "ReduceByKey" -> Reduce(ps)
      [] KindOf(id) = "ShuffleByKey" -> Shuffle(n)

-----------------------------------------------------------------------------
Init ==
    /\ DagInit
    /\ step = 0
    /\ results = [id \in PlanIds |-> Missing]
    /\ todo = <<>> /\ slots = <<>> /\ held = {}
    /\ disk = [p \in Paths |-> NoFile]
    /\ output = {} /\ written = {}
    /\ seen = [id \in PlanIds |-> {}]
    /\ met = {} /\ stuck = FALSE

\* The operator at work, and whether none is.
Current == plan[step]
Idle == todo = <<>> /\ slots = <<>>

\* A turn of the pipeline loop starts: taking outputs removes them from the map.
\* Join counts its inputs; Read drops them undrained and reads its own.
StartOp ==
    /\ phase = "Execute" /\ step < Len(plan) /\ Idle
    /\ LET id == plan[step + 1]
       IN  \E ps \in Inputs(id), n \in Buckets(id) :
           /\ KindOf(id) = "Join" => Len(ps) = 2
           /\ todo' = IF KindOf(id) = "Read" THEN <<>> ELSE ps
           /\ slots' = Slots(id, ps, n)
           /\ held' = IF KindOf(id) = "Read" THEN {id} ELSE {}
           /\ results' = [p \in PlanIds |-> IF p = id THEN <<>>
                                            ELSE IF p \in Taken(id) THEN Missing
                                            ELSE results[p]]
    /\ step' = step + 1
    /\ UNCHANGED <<dagVars, disk, output, written, seen, met, stuck>>

\* The next partition to be drained, and whether its file is gone.
Input == todo[1]
FileMissing == Input.spilled /\ disk[Input.path] = NoFile

\* drain_all: a cache that spilled returns all that is in the file, whoever put
\* it there, and removes it, or fails to do so unnoticed.
Got == IF Input.spilled THEN disk[Input.path] ELSE Input.data
RemoveFile ==
    \/ ~Input.spilled /\ UNCHANGED <<disk, stuck>>
    \/ Input.spilled /\ disk' = [disk EXCEPT ![Input.path] = NoFile] /\ UNCHANGED stuck
    \/ Input.spilled /\ stuck' = TRUE /\ UNCHANGED disk

\* Mutant of Drain: a file that is not there counts as empty.
DrainTolerant ==
    /\ phase = "Execute" /\ todo # <<>>
    /\ KindOf(Current) = "Map" => Len(todo) = Len(slots)
    /\ LET got == IF FileMissing THEN {} ELSE Got
       IN  held' = IF KindOf(Current) = "Map" THEN got ELSE held \cup got
    /\ todo' = Tail(todo)
    /\ RemoveFile
    /\ UNCHANGED <<dagVars, step, results, slots, output, written, seen, met>>

\* The operator drains its next input: Map one before each output, the others
\* all of them before the first.
Drain ==
    /\ phase = "Execute" /\ todo # <<>> /\ ~FileMissing
    /\ KindOf(Current) = "Map" => Len(todo) = Len(slots)
    /\ held' = IF KindOf(Current) = "Map" THEN Got ELSE held \cup Got
    /\ todo' = Tail(todo)
    /\ RemoveFile
    /\ UNCHANGED <<dagVars, step, results, slots, output, written, seen, met>>

\* from_records for the next output: records over the limit go to the file, after
\* what is in it.  Without records nothing is spilled, but Reduce always has one.
Fill ==
    /\ phase = "Execute" /\ slots # <<>>
    /\ IF KindOf(Current) = "Map" THEN Len(todo) < Len(slots) ELSE todo = <<>>
    /\ LET path == slots[1][2]
           old == IF disk[path] = NoFile THEN {} ELSE disk[path]
       IN  \E spills \in BOOLEAN :
           /\ spills => held # {} \/ KindOf(Current) = "ReduceByKey"
           /\ disk' = IF spills THEN [disk EXCEPT ![path] = old \cup held] ELSE disk
           /\ met' = IF spills /\ disk[path] # NoFile THEN met \cup {path} ELSE met
           /\ results' = [results EXCEPT ![Current] =
                  Append(@, Filled(<<Current, Len(@) + 1>>, slots[1], spills, held))]
    /\ slots' = Tail(slots)
    /\ seen' = [seen EXCEPT ![Current] = @ \cup held]
    /\ UNCHANGED <<dagVars, step, todo, held, output, written, stuck>>

\* The output of the last operator is taken; the others are dropped undrained.
StartWrite ==
    /\ phase = "Execute" /\ step = Len(plan) /\ Idle
    /\ phase' = "Write"
    /\ todo' = results[Last(plan)]
    /\ results' = [id \in PlanIds |-> Missing]
    /\ UNCHANGED <<edges, op, incoming, queue, ordered, next, plan, step, slots,
                   held, disk, output, written, seen, met, stuck>>

\* A partition is drained and written to the file of its number.
WritePart ==
    /\ phase = "Write" /\ todo # <<>> /\ ~FileMissing
    /\ output' = output \cup Got
    /\ written' = written \cup {Input.no}
    /\ todo' = Tail(todo)
    /\ RemoveFile
    /\ UNCHANGED <<dagVars, step, results, slots, held, seen, met>>

\* The task reports Completed with the path of the file of its own number.
Complete ==
    /\ phase = "Write" /\ todo = <<>>
    /\ phase' = "Done"
    /\ UNCHANGED <<edges, op, incoming, queue, ordered, next, plan, flowVars>>

\* The task reports Failed: Join was not given two partitions, a spill file is
\* gone, an operator met records it cannot handle, or panicked, or a file could
\* not be written.  Its caches are dropped, the files stay as they are.
Fail ==
    /\ phase \in {"Execute", "Write"}
    /\ phase' = "Failed"
    /\ results' = [id \in PlanIds |-> Missing]
    /\ todo' = <<>> /\ slots' = <<>> /\ held' = {}
    /\ UNCHANGED <<edges, op, incoming, queue, ordered, next, plan, step, disk, output,
                   written, seen, met, stuck>>

\* What the master does with the graph before a task exists.
Prepare ==
    /\ \/ Validate \/ CountIncoming \/ PopFront \/ AppendUnreached
       \/ InjectLocalShuffle
    /\ UNCHANGED flowVars

Next ==
    \/ Prepare \/ StartOp \/ Drain \/ Fill
    \/ StartWrite \/ WritePart \/ Complete \/ Fail

Spec == Init /\ [][Next]_vars

-----------------------------------------------------------------------------
\* Read nodes whose records the graph leads into id, reference definition: those
\* in every set with id that is closed under what feeds its members.  A Read
\* passes on its own records only.
Feeds(id) == IF id \notin Nodes \/ op[id] = "Read" THEN {} ELSE Parents(id)
Upstream(id) == {S \in SUBSET Ids : id \in S /\ \A a \in S : Feeds(a) \subseteq S}
Sources(id) == {a \in Nodes : op[a] = "Read" /\ \A S \in Upstream(id) : a \in S}

\* No node feeds two others.
SingleConsumer == \A n \in Nodes : Cardinality(Children(n)) <= 1

\* Every output but the last is taken by an operator that drains it.
AllDrained ==
    \A n \in Nodes : n # Last(plan) =>
        Children(n) # {} /\ \A m \in Children(n) : op[m] # "Read"

\* As long as no two caches have met in a spill file, what an operator puts out
\* comes from Reads that feed it, on any graph; and if a task completes whose
\* graph is well-formed and has no node that feeds two others, then from all of
\* them, for every operator, and so do the files.
DataflowExact ==
    met = {} =>
        /\ \A n \in Nodes : seen[n] \subseteq Sources(n)
        /\ phase = "Done" /\ WellFormed /\ SingleConsumer =>
               output = Sources(Last(plan)) /\ \A n \in Nodes : seen[n] = Sources(n)

\* Two caches that meet in a spill file make the task fail, and never complete
\* with records in the wrong place, when every output is drained: whoever drains
\* first takes all, and in the end somebody finds no file.  (It takes an output
\* that nobody drains, or a file that could not be removed, to hide that.)
CollisionFails ==
    met # {} /\ ~stuck /\ WellFormed /\ AllDrained => phase # "Done"

\* In a graph without forks and explicit shuffles, the file the task reports is
\* the file it wrote, and the only one.
ReportedFileWritten ==
    /\ phase = "Done" /\ WellFormed /\ SingleConsumer
    /\ \A n \in Nodes : op[n] # "ShuffleByKey"
    => written = {Partition}

\* Intermediate results propagate along every edge of the graph (README), here
\* where no spill file interferes.
DataflowPreserved ==
    phase = "Done" /\ WellFormed /\ met = {} => output = Sources(Last(plan))

=============================================================================
