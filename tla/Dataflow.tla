------------------------------ MODULE Dataflow ------------------------------
(***************************************************************************)
(* A job on real records: every task reads its share of the inputs, runs   *)
(* the chain of operators on it and writes its output partitions to part   *)
(* files, while the other tasks of the job do the same in the same         *)
(* directory.  Module Operators says what the operators compute, module    *)
(* Pipeline how a general graph is walked, module TaskFiles what spilling, *)
(* failures and repeated executions do to the files.                       *)
(***************************************************************************)
EXTENDS Operators

CONSTANTS
    Jobs,       \* submitted jobs: [inputs, plan]
    Totals,     \* numbers of partitions a job may be given
    Hashes      \* functions DefaultHasher may compute on the texts

\* What a file and a plan are.  A null, number or text is a scalar; arrays hold
\* scalars, and an object of a JSON file has fields with scalars or arrays.
ScalarOK(v) ==
    CASE Kind(v) = "Num" -> v = Num(v[2]) /\ v[2] \in Int
      [] Kind(v) = "Str" -> v = Str(v[2]) /\ v[2] \in Seq(ToSet(v[2]))
      [] OTHER -> Kind(v) # "Arr"
ValueOK(v) ==
    \/ ScalarOK(v)
    \/ /\ Kind(v) = "Arr" /\ v[2] \in Seq(ToSet(v[2]))
       /\ \A i \in 1..Len(v[2]) : ScalarOK(v[2][i])
LineOK(line, format) ==
    \/ line = <<>>
    \/ IF format = "csv"
       THEN /\ Kind(line) = "Row" /\ line[2] \in Seq(ToSet(line[2]))
            /\ \A i \in 1..Len(line[2]) : line[2][i] \in Seq(ToSet(line[2][i]))
       ELSE \/ Kind(line) = "Bad"
            \/ Kind(line) = "Val" /\ ValueOK(line[2])
            \/ /\ Kind(line) = "Obj" /\ IsFiniteSet(DOMAIN line[2])
               /\ \A f \in DOMAIN line[2] : ValueOK(line[2][f])

ASSUME DataflowAssumption ==
    /\ \A n \in Totals : n \in Nat /\ n > 0
    /\ Hashes # {} /\ \A h \in Hashes : \A text \in DOMAIN h : h[text] \in Nat

ASSUME JobsAssumption ==
    \A j \in Jobs :
        /\ j.inputs \in Seq(ToSet(j.inputs)) /\ j.inputs # <<>>
        /\ \A f \in 1..Len(j.inputs) :
              /\ j.inputs[f].lines \in Seq(ToSet(j.inputs[f].lines))
              /\ \A i \in 1..Len(j.inputs[f].lines) :
                    LineOK(j.inputs[f].lines[i], j.inputs[f].format)
        /\ j.plan \in Seq(ToSet(j.plan)) /\ j.plan # <<>>
        /\ \A k \in 1..Len(j.plan) :
              /\ j.plan[k][1] \in {"Filter", "Map", "FlatMap", "Reduce", "ReduceByKey",
                                   "Join", "ShuffleByKey"}
              /\ j.plan[k][1] = "ShuffleByKey" => j.plan[k][3] \in Nat

VARIABLES
    job,        \* the job
    total,      \* its number of partitions
    hash,       \* the hash function of this build
    status,     \* status of each task
    pending,    \* output partitions a task has yet to write
    part        \* contents of the part files that exist

vars == <<job, total, hash, status, pending, part>>

-----------------------------------------------------------------------------
\* A partition is <<partition id, records>>.
Merged(ps) == FlattenSeq([k \in 1..Len(ps) |-> ps[k][2]])

\* The partitions with these ids that were read or computed, unless one failed.
Partitions(ids, rs) ==
    IF \E k \in 1..Len(rs) : ~IsOk(rs[k]) THEN Err
    ELSE Ok([k \in 1..Len(rs) |-> <<ids[k], Value(rs[k])>>])

\* Operators that take one record at a time, on a partition.
RecordOps == {"Filter", "Map", "FlatMap"}
OnRecords(op, recs) ==
    CASE op[1] = "Filter" -> Filter(recs, op[2])
      [] op[1] = "Map" -> Map(recs, op[2])
      [] op[1] = "FlatMap" -> FlatMap(recs, op[2])

\* Operator::execute: the partitions an operator makes of those it is given.
Apply(op, h, ps) ==
    CASE op[1] \in RecordOps ->
             Partitions([k \in 1..Len(ps) |-> ps[k][1]],
                        [k \in 1..Len(ps) |-> OnRecords(op, ps[k][2])])
      [] op[1] = "Reduce" -> Partitions(<<ps[1][1]>>, <<Reduce(Merged(ps), op[2])>>)
      [] op[1] = "ReduceByKey" ->
             Partitions(<<ps[1][1]>>, <<ReduceByKey(Merged(ps), op[2], op[3])>>)
      [] op[1] = "Join" ->
             IF Len(ps) # 2 THEN Err
             ELSE Partitions(<<ps[1][1]>>, <<Join(ps[1][2], ps[2][2], op[2], op[3])>>)
      [] op[1] = "ShuffleByKey" -> Shuffle(Merged(ps), op[2], AtLeastOne(op[3]), h)

\* What task t of n has read of the inputs.
Inputs(j, t, n) ==
    Partitions([f \in 1..Len(j.inputs) |-> t],
               [f \in 1..Len(j.inputs) |-> Read(j.inputs[f], t, n)])

\* execute_sync: what task t of n has after the first k operators.
After(j, h, t, n, k) ==
    LET run[i \in 0..k] ==
            IF i = 0 THEN Inputs(j, t, n)
            ELSE IF IsOk(run[i - 1]) THEN Apply(j.plan[i], h, Value(run[i - 1])) ELSE Err
    IN  run[k]

Output(t, n) == After(job, hash, t, n, Len(job.plan))
Tasks == 0..(total - 1)

-----------------------------------------------------------------------------
LastOp(j) == Last(j.plan)
Buckets(j) == IF LastOp(j)[1] = "ShuffleByKey" THEN AtLeastOne(LastOp(j)[3]) ELSE 1

Init ==
    /\ job \in Jobs
    /\ total \in Totals
    /\ hash \in IF Buckets(job) > 1 THEN Hashes ELSE {CHOOSE h \in Hashes : TRUE}
    /\ status = [t \in Tasks |-> "Queued"]
    /\ pending = [t \in Tasks |-> <<>>]
    /\ part = <<>>

\* The pipeline closure of execute_sync, and its error.
Execute(t) ==
    /\ status[t] = "Queued"
    /\ LET out == Output(t, total)
       IN  /\ status' = [status EXCEPT ![t] = IF IsOk(out) THEN "Writing" ELSE "Failed"]
           /\ pending' = [pending EXCEPT ![t] = IF IsOk(out) THEN Value(out) ELSE <<>>]
    /\ UNCHANGED <<job, total, hash, part>>

\* write_records: the file of the partition's number, replaced.
WritePart(t) ==
    /\ status[t] = "Writing" /\ pending[t] # <<>>
    /\ part' = Over(Field(Head(pending[t])[1], Head(pending[t])[2]), part)
    /\ pending' = [pending EXCEPT ![t] = Tail(@)]
    /\ UNCHANGED <<job, total, hash, status>>

\* Everything is written, the result is Completed.
Complete(t) ==
    /\ status[t] = "Writing" /\ pending[t] = <<>>
    /\ status' = [status EXCEPT ![t] = "Completed"]
    /\ UNCHANGED <<job, total, hash, pending, part>>

Next == \E t \in Tasks : Execute(t) \/ WritePart(t) \/ Complete(t)

Spec == Init /\ [][Next]_vars

-----------------------------------------------------------------------------
BagOf(s) == [x \in ToSet(s) |-> Cardinality({i \in 1..Len(s) : s[i] = x})]
InFile(f) == IF f \in DOMAIN part THEN part[f] ELSE <<>>
Written == FlattenSeq([f \in 1..(total + Buckets(job)) |-> InFile(f - 1)])
Done == \A t \in Tasks : status[t] = "Completed"
Ended == \A t \in Tasks : status[t] \in {"Completed", "Failed"}
Ends(kind) == LastOp(job)[1] = kind

\* Inputs of the last operator: of one task, and of the job on side s of a join.
Before(t, n) == After(job, hash, t, n, Len(job.plan) - 1)
Side(s) == Value(Before(0, 1))[s][2]

\* Only the last operator may look at several records at once, and only a join
\* has a second input.
RecordWise ==
    /\ \A k \in 1..(Len(job.plan) - 1) : job.plan[k][1] \in RecordOps
    /\ Len(job.inputs) = IF Ends("Join") THEN 2 ELSE 1

\* No key of the last operator is in the shares of two tasks.
Aligned ==
    LET recs(t) == IF IsOk(Before(t, total)) THEN ToSet(Merged(Value(Before(t, total)))) ELSE {}
        key == LastOp(job)[2]
    IN  \A t, u \in Tasks : t # u =>
            \A a \in recs(t), b \in recs(u) : HashInput(a, key) # HashInput(b, key)

\* How many partitions a job is given does not show in its output: whatever
\* lines are blank, malformed or expanded, the part files together hold what
\* one task alone would have written, and a task fails exactly when that one
\* would.  Operators with a key need the keys of different tasks to differ:
\* nothing moves records between tasks, and what follows such an operator would
\* see its shares.
PartitionTransparent ==
    Ended /\ RecordWise /\ ~Ends("ShuffleByKey") /\ ~Ends("Reduce")
          /\ (Ends("ReduceByKey") \/ Ends("Join") => Aligned)
    => /\ IsOk(Output(0, 1)) <=> Done
       /\ Done => BagOf(Written) = BagOf(Merged(Value(Output(0, 1))))

\* The aggregate of recs under red, by its definition.
Aggregate(red, recs) ==
    LET at == IF Len(red) > 1
              THEN {i \in 1..Len(recs) :
                       red[2] \in DOMAIN recs[i] /\ Kind(recs[i][red[2]]) = "Num"}
              ELSE {}
        val(i) == recs[i][red[2]][2]
    IN  CASE red[1] = "count" -> Num(Len(recs))
          [] red[1] = "collect" -> <<"Recs", recs>>
          [] red[1] = "sum" -> Num(MapThenSumSet(val, at))
          [] red[1] = "min" -> Num(IF at = {} THEN 0 ELSE Min({val(i) : i \in at}))
          [] red[1] = "max" -> Num(IF at = {} THEN 0 ELSE Max({val(i) : i \in at}))

\* ReduceByKey puts out one record per key, with the aggregate of all records
\* of the key, if no two tasks share a key.
ReduceMatchesReference ==
    Done /\ RecordWise /\ Ends("ReduceByKey") /\ Aligned =>
        LET key == LastOp(job)[2]
            red == LastOp(job)[3]
            keys == SetToSeq({rec[key] : rec \in ToSet(Side(1))})
            of(k) == Kept(Side(1), {i \in 1..Len(Side(1)) : Side(1)[i][key] = k})
        IN  BagOf(Written) =
                BagOf([i \in 1..Len(keys) |->
                          Over(Field(ResultField(red), Aggregate(red, of(keys[i]))),
                               Field(key, keys[i]))])

\* How often the join of l and r has the record x: once for each pair with one
\* key text that combines to x, and once for each record without a partner that
\* the type asks for and that is x on its own.
SameKey(l, r, key, i, j) == KeyText(l[i][key]) = KeyText(r[j][key])
PairsWith(l, r, key, x) ==
    {p \in (1..Len(l)) \X (1..Len(r)) :
        SameKey(l, r, key, p[1], p[2]) /\ Combined(l[p[1]], r[p[2]]) = x}
LoneLeft(l, r, key, x) ==
    {i \in 1..Len(l) : (\A j \in 1..Len(r) : ~SameKey(l, r, key, i, j)) /\ LeftOnly(l[i]) = x}
LoneRight(l, r, key, x) ==
    {j \in 1..Len(r) : (\A i \in 1..Len(l) : ~SameKey(l, r, key, i, j)) /\ RightOnly(r[j]) = x}
Joined(l, r, key, type, x) ==
    Cardinality(PairsWith(l, r, key, x))
    + (IF type \in {"Left", "Full"} THEN Cardinality(LoneLeft(l, r, key, x)) ELSE 0)
    + (IF type \in {"Right", "Full"} THEN Cardinality(LoneRight(l, r, key, x)) ELSE 0)

\* Join puts out every pair with equal keys once, and the records without a
\* partner that its type asks for, if no two tasks share a key.  For Right and
\* Full the right input must not hold a record twice: JoinOp marks the first
\* copy only and puts the others out as unmatched.
JoinMatchesReference ==
    Done /\ RecordWise /\ Ends("Join") /\ Aligned =>
        LET type == LastOp(job)[3]
            l == Side(1)
            r == Side(2)
        IN  type \in {"Inner", "Left"} \/ Cardinality(ToSet(r)) = Len(r) =>
            \A x \in ToSet(Written) \cup {Combined(a, b) : a \in ToSet(l), b \in ToSet(r)}
                     \cup {LeftOnly(a) : a \in ToSet(l)} \cup {RightOnly(b) : b \in ToSet(r)} :
                Cardinality({k \in 1..Len(Written) : Written[k] = x})
                    = Joined(l, r, LastOp(job)[2], type, x)

\* After a shuffle, records a join would match, the text "1" and the number 1
\* included, are never in part files of two buckets, whichever task wrote them
\* last; a job of one partition loses nothing.
KeysColocated ==
    Ends("ShuffleByKey") =>
        /\ \A f, g \in DOMAIN part : f # g =>
               \A a \in ToSet(part[f]), b \in ToSet(part[g]) :
                   HasKey(a, LastOp(job)[2]) /\ HasKey(b, LastOp(job)[2]) =>
                       KeyText(a[LastOp(job)[2]]) # KeyText(b[LastOp(job)[2]])
        /\ Done /\ total = 1 => BagOf(Written) = BagOf(Merged(Value(Before(0, 1))))

=============================================================================
