---------------------------- MODULE MCTaskFiles -----------------------------
(***************************************************************************)
(* Three requests for the two partitions of a job, the first one twice.    *)
(***************************************************************************)
EXTENDS TaskFiles, TLC

CONSTANTS r1, r2, r3

Job(p, S, R, n, b) ==
    [plan |-> p, spilling |-> S, sticky |-> b, requests |-> R, failures |-> n]
MCJobs == {Job("Read", {0, 1}, {r1, r2, r3}, 1, FALSE), Job("Map", {0, 1}, {r1, r3}, 1, FALSE),
           Job("Map", {0}, {r1, r2}, 1, TRUE), Job("Join", {}, {r1, r2}, 2, FALSE),
           Job("Join", {0}, {r1, r3}, 0, FALSE), Job("Stray", {0}, {r1, r2}, 1, FALSE),
           Job("Shuffle", {0, 1}, {r1, r2}, 0, FALSE)}

MCTaskOf == (r1 :> 0) @@ (r2 :> 1) @@ (r3 :> 0)

=============================================================================
