------------------------------ MODULE MCClient ------------------------------
(***************************************************************************)
(* Model-checking instances of Client: symmetry for the safety runs.       *)
(***************************************************************************)
EXTENDS Client, TLC

\* Workers, passes and clients are interchangeable.
Symmetry == Permutations(Workers) \cup Permutations(Passes) \cup Permutations(Clients)

=============================================================================
