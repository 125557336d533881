--------------------------------- MODULE Dag ---------------------------------
(***************************************************************************)
(* DagSpecification: how a submitted graph of operators is validated and   *)
(* turned into the linear plan every task of the job carries.  The graph   *)
(* is whatever a client sends: it may have cycles, and its edges may name  *)
(* ids that are not nodes.                                                 *)
(***************************************************************************)
EXTENDS Naturals, Sequences, FiniteSets, SequencesExt

CONSTANTS
    NodeSeq,    \* the nodes, in the order of insertion; their ids are distinct
    Ids,        \* ids an edge may name; the nodes are among them
    Kinds,      \* operators: a subset of AllKinds
    MaxEdges    \* bound: edges of a graph

\* FlatMap and Filter handle partitions like Map, Reduce like ReduceByKey.
AllKinds == {"Read", "Map", "Join", "ReduceByKey", "ShuffleByKey"}

Nodes == ToSet(NodeSeq)

\* The node inject_local_shuffle puts before a ReduceByKey, without edges.
Injected(id) == <<"__shuffle__", id>>

ASSUME DagAssumption ==
    /\ IsFiniteSet(Ids) /\ NodeSeq \in Seq(Ids)
    /\ \A a, b \in 1..Len(NodeSeq) : NodeSeq[a] = NodeSeq[b] => a = b
    /\ \A n \in Nodes : Injected(n) \notin Ids
    /\ Kinds \subseteq AllKinds /\ MaxEdges \in Nat

VARIABLES
    edges,      \* DagSpecification.edges
    op,         \* operator of each node
    phase,      \* where submit_job and then the task are
    incoming,   \* ordered_nodes: edges into an id not yet accounted for
    queue,      \* ordered_nodes: ids ready to be output
    ordered,    \* ordered_nodes: ordered_ids, the ids output so far
    next,       \* position of the for loop over the nodes, then over ordered
    plan        \* inject_local_shuffle: out, the operators of the tasks

dagVars == <<edges, op, phase, incoming, queue, ordered, next, plan>>

-----------------------------------------------------------------------------
Parents(id) == {e[1] : e \in {f \in edges : f[2] = id}}
Children(id) == {e[2] : e \in {f \in edges : f[1] = id}}

KindOf(id) == IF id \in Nodes THEN op[id] ELSE "ShuffleByKey"

DagInit ==
    /\ edges \in {E \in SUBSET (Ids \X Ids) : Cardinality(E) <= MaxEdges}
    /\ op \in [Nodes -> Kinds]
    /\ phase = "Validate"
    /\ incoming = [id \in Ids |-> 0]
    /\ queue = <<>> /\ ordered = <<>> /\ plan = <<>>
    /\ next = 1

\* validate: a Join has two parents.  read_source: a graph has a Read.
Valid == \A n \in Nodes : op[n] = "Join" => Cardinality(Parents(n)) = 2
HasSource == \E n \in Nodes : op[n] = "Read"

\* submit_job rejects an invalid graph, and one without a Read has no tasks.
Validate ==
    /\ phase = "Validate"
    /\ phase' = IF ~Valid THEN "Rejected"
                ELSE IF ~HasSource THEN "NoTasks" ELSE "Count"
    /\ UNCHANGED <<edges, op, incoming, queue, ordered, next, plan>>

\* The start of ordered_nodes: without edges the order of insertion is the
\* plan, else ids without incoming edges are queued in the order of a HashMap.
\* Only nodes and targets of edges are in that map.
CountIncoming ==
    /\ phase = "Count"
    /\ IF edges = {}
       THEN /\ phase' = "Inject"
            /\ ordered' = NodeSeq
            /\ UNCHANGED <<incoming, queue>>
       ELSE /\ phase' = "Order"
            /\ incoming' = [id \in Ids |-> Cardinality(Parents(id))]
            /\ queue' \in SetToSeqs({id \in Nodes \cup {e[2] : e \in edges} :
                                       incoming'[id] = 0})
            /\ UNCHANGED ordered
    /\ UNCHANGED <<edges, op, next, plan>>

\* Mutant of PopFront: a child is ready when one of its parents is output.
PopFrontEager ==
    /\ phase = "Order" /\ queue # <<>>
    /\ LET id == Head(queue)
           ready == {c \in Children(id) : ~Contains(ordered \o queue, c)}
       IN  /\ ordered' = Append(ordered, id)
           /\ queue' \in {Tail(queue) \o q : q \in SetToSeqs(ready)}
    /\ UNCHANGED <<edges, op, phase, incoming, next, plan>>

\* One turn of the while loop of ordered_nodes.
PopFront ==
    /\ phase = "Order" /\ queue # <<>>
    /\ LET id == Head(queue)
           left(c) == IF incoming[c] = 0 THEN 0 ELSE incoming[c] - 1
       IN  /\ ordered' = Append(ordered, id)
           /\ incoming' = [c \in Ids |->
                              IF c \in Children(id) THEN left(c) ELSE incoming[c]]
           /\ \E ready \in SetToSeqs({c \in Children(id) : left(c) = 0}) :
                 queue' = Tail(queue) \o ready
    /\ UNCHANGED <<edges, op, phase, next, plan>>

\* Mutant of AppendUnreached: nodes on a cycle are dropped.
AppendNothing ==
    /\ phase = "Order" /\ queue = <<>>
    /\ next' = 1
    /\ phase' = IF ordered = <<>> THEN "Execute" ELSE "Inject"
    /\ UNCHANGED <<edges, op, incoming, queue, ordered, plan>>

\* One turn of the for loop of ordered_nodes: nodes never reached go last, in
\* the order of insertion.  (InjectLocalShuffle drops the ids that are no nodes.)
AppendUnreached ==
    /\ phase = "Order" /\ queue = <<>>
    /\ LET node == NodeSeq[next]
       IN  ordered' = IF Contains(ordered, node) THEN ordered ELSE Append(ordered, node)
    /\ IF next = Len(NodeSeq) THEN phase' = "Inject" /\ next' = 1
       ELSE phase' = phase /\ next' = next + 1
    /\ UNCHANGED <<edges, op, incoming, queue, plan>>

\* One turn of the loop of inject_local_shuffle, for an id the filter at the end
\* of ordered_nodes lets pass: a shuffle before each ReduceByKey that does not
\* follow one in the plan.  (All operators use one key.)
InjectLocalShuffle ==
    /\ phase = "Inject"
    /\ LET id == ordered[next]
           shuffled == plan # <<>> /\ KindOf(Last(plan)) = "ShuffleByKey"
       IN  plan' = IF id \notin Nodes THEN plan
                   ELSE IF op[id] = "ReduceByKey" /\ ~shuffled
                   THEN plan \o <<Injected(id), id>>
                   ELSE Append(plan, id)
    /\ next' = next + 1
    /\ phase' = IF next = Len(ordered) THEN "Execute" ELSE phase
    /\ UNCHANGED <<edges, op, incoming, queue, ordered>>

-----------------------------------------------------------------------------
\* Reference definition: every set of ids that is not empty has one that no
\* other one of them, nor itself, leads to.
Acyclic == \A S \in SUBSET Ids : S # {} => \E id \in S : Parents(id) \cap S = {}
WellFormed == edges \subseteq Nodes \X Nodes /\ Acyclic

Planned == phase \in {"Execute", "Write", "Done", "Failed"}

\* Whatever graph was sent, no operator is lost or run twice.
EachNodeOnce ==
    Planned => \A n \in Nodes : Cardinality({k \in 1..Len(plan) : plan[k] = n}) = 1

\* In a well-formed graph, every operator comes after those that feed it,
\* whatever order the HashMap starts with.
TopologicalOrder ==
    Planned /\ WellFormed =>
        \A a, b \in 1..Len(plan) : <<plan[a], plan[b]>> \in edges => a < b

=============================================================================
