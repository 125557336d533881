------------------------------ MODULE MCMaster ------------------------------
(***************************************************************************)
(* Model-checking instances of Master: symmetry and bounds that TLC needs. *)
(***************************************************************************)
EXTENDS Master, TLC

\* Workers and passes are interchangeable; used in runs without liveness.
Symmetry == Permutations(Workers) \cup Permutations(Passes)

=============================================================================
