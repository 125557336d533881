------------------------------- MODULE Client -------------------------------
(***************************************************************************)
(* The clients of the master's HTTP API: the command line tool, and the    *)
(* harness of the benchmarks and fault tests.  A client submits a job and  *)
(* learns its id from the answer, which the handler sends when submit_job  *)
(* has gone through all tasks; it polls the job until it finds a terminal  *)
(* status, and asks for the outputs.  A request that fails ends the        *)
(* command it belongs to; the id stays good for the next one.              *)
(*                                                                         *)
(* All other endpoints of the API are used by the workers and are actions  *)
(* of module Master.                                                       *)
(***************************************************************************)
EXTENDS Master

CONSTANT Clients

VARIABLES
    client,     \* what each client is doing
    mine,       \* the id it was given, or will be given
    handler,    \* the pass that handles its submission
    shared      \* history: two passes have held the same task

clientVars == <<client, mine, handler>>
allVars == <<vars, clientVars, shared>>

-----------------------------------------------------------------------------
\* "Known": it has an id; "Told": it has seen the job Succeeded.
ClientInit ==
    /\ client = [c \in Clients |-> "Idle"]
    /\ mine = [c \in Clients |-> None]
    /\ handler = [c \in Clients |-> None]
    /\ shared = FALSE

Held(i) == todo[i] \cup ({cur[i]} \ {None})
NoteSharing ==
    shared' = (shared \/ \E i, k \in Passes : i # k /\ (Held(i) \cap Held(k))' # {})

\* POST /jobs.
Submit(c, i, j, n) ==
    /\ client[c] = "Idle"
    /\ SubmitJob(i, j, n)
    /\ client' = [client EXCEPT ![c] = "Submitting"]
    /\ mine' = [mine EXCEPT ![c] = j]
    /\ handler' = [handler EXCEPT ![c] = i]
    /\ NoteSharing

\* The clients whose submission ends with this step of the master, and those
\* of them who get an id: the handler sends one unless submit_job returned an
\* error, or the process died under it.
Answered == {c \in Clients : client[c] = "Submitting" /\ pc'[handler[c]] = "Idle"}
Accepted == {c \in Answered : up' /\ jobStatus'[mine[c]] # "Absent"}

\* The master, its workers and the network make a step.
ServeClients ==
    /\ Serve
    /\ client' = [c \in Clients |-> IF c \in Accepted THEN "Known"
                                    ELSE IF c \in Answered THEN "Idle" ELSE client[c]]
    /\ mine' = [c \in Clients |-> IF c \in Answered \ Accepted THEN None ELSE mine[c]]
    /\ handler' = [c \in Clients |-> IF c \in Answered THEN None ELSE handler[c]]
    /\ NoteSharing

\* The client times out on its submission, which goes on without it.
GiveUp(c) ==
    /\ client[c] = "Submitting"
    /\ client' = [client EXCEPT ![c] = "Idle"]
    /\ mine' = [mine EXCEPT ![c] = None]
    /\ handler' = [handler EXCEPT ![c] = None]
    /\ UNCHANGED <<vars, shared>>

\* get_job_status, under the jobs mutex: NotFound, or status and outputs.
Reachable(j) == up /\ JobsUnlocked /\ jobStatus[j] # "Absent"
Outputs(j) == {t \in Tasks : JobOf(t) = j /\ results[t] > 0}

\* is_terminal
IsTerminal(s) == s \in {"Failed", "Succeeded"}

\* What the client does with an answer to a command that goes on, or not, while
\* the status is not terminal.
Shown(c, state) ==
    client' = [client EXCEPT ![c] = IF jobStatus[mine[c]] = "Succeeded" THEN "Told"
                                    ELSE IF IsTerminal(jobStatus[mine[c]]) THEN "Known"
                                    ELSE state]

\* status --watch, or poll_status, begins.
Watch(c) ==
    /\ client[c] = "Known"
    /\ client' = [client EXCEPT ![c] = "Watching"]
    /\ UNCHANGED <<vars, mine, handler, shared>>

\* One round of watch_until_terminal: a terminal status ends it; otherwise the
\* client sleeps and asks again.  An unreachable master, or a 404, ends it too.
Poll(c) ==
    /\ client[c] = "Watching"
    /\ \/ Reachable(mine[c]) /\ Shown(c, "Watching")
       \/ /\ ~up \/ jobStatus[mine[c]] = "Absent"
          /\ client' = [client EXCEPT ![c] = "Known"]
    /\ UNCHANGED <<vars, mine, handler, shared>>

\* The commands that ask for the job once.
Fetch(c) ==
    /\ client[c] = "Known" /\ Reachable(mine[c])
    /\ Shown(c, "Known")
    /\ UNCHANGED <<vars, mine, handler, shared>>

ClientNext ==
    \/ ServeClients
    \/ \E c \in Clients :
          \/ \E i \in Passes, j \in Jobs, n \in 0..MaxParts : Submit(c, i, j, n)
          \/ GiveUp(c) \/ Watch(c) \/ Poll(c) \/ Fetch(c)

\* A watching client keeps asking; nothing makes a user start a command.
ClientSpec == Init /\ ClientInit /\ [][ClientNext]_allVars
ClientFairSpec == ClientSpec /\ Fairness /\ \A c \in Clients : WF_allVars(Poll(c))

-----------------------------------------------------------------------------
HasId(c) == client[c] \in {"Known", "Watching", "Told"}

\* Without database errors, a job whose id a client was given is never
\* forgotten: wherever the master crashes, the rows of the job and of all its
\* tasks are there, and a master that is up answers a request for it.
AcknowledgedSurvives ==
    dbErrors = 0 =>
        \A c \in Clients : HasId(c) =>
            LET j == mine[c]
            IN  /\ dJob[j] # "Absent" /\ (up => jobStatus[j] # "Absent")
                /\ \A t \in TasksOf(j, dParts[j]) :
                      dTask[t] # "Absent" /\ (up => task[t] # "Absent")

\* Without database errors and failed tasks, a client that has been told
\* Succeeded finds an output of every task in every later answer, whatever
\* overlapping passes still do to the job and after a restart of the master.
OutputsStay ==
    dbErrors = 0 /\ "Failed" \notin Outcomes =>
        \A c \in Clients :
            client[c] = "Told" /\ up => Outputs(mine[c]) = TasksOf(mine[c], dParts[mine[c]])

\* As long as no two passes hold the same task, counting is exact: the
\* counter behind the progress is the number of completed tasks, and no task
\* has two results.
CountedOnce ==
    ~shared /\ crashes = 0 /\ dbErrors = 0 /\ JobsUnlocked =>
        /\ \A t \in Tasks : results[t] = IF task[t] = "Completed" THEN 1 ELSE 0
        /\ \A j \in Jobs :
              completed[j] = Cardinality({t \in Tasks : JobOf(t) = j /\ task[t] = "Completed"})

\* As long as no two passes hold the same task, Succeeded is final.
SucceededIsFinal ==
    [][~shared' /\ crashes' = 0 =>
          \A j \in Jobs : jobStatus[j] = "Succeeded" => jobStatus'[j] = "Succeeded"]_allVars

\* A watch over a job with tasks, and with plans of one length, ends, as long as
\* a worker lives and nothing is lost to a death, the network or a crash.
WatchEnds ==
    \A c \in Clients :
        (client[c] = "Watching" /\ mine[c] \notin Ambiguous /\ dParts[mine[c]] > 0)
            ~> (client[c] # "Watching" \/ lost # {} \/ crashes > 0
                \/ \A w \in Workers : worker[w] # "Up")

=============================================================================
