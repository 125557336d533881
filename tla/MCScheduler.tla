----------------------------- MODULE MCScheduler -----------------------------
(***************************************************************************)
(* Model-checking instance of Scheduler.                                   *)
(***************************************************************************)
EXTENDS Scheduler, TLC

\* An idle worker, and two that compute_load holds equal.
MCMetrics == {<<0, 0>>, <<1, 0>>, <<0, 2>>}

Symmetry == Permutations(Workers)

=============================================================================
