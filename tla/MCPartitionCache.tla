-------------------------- MODULE MCPartitionCache --------------------------
(***************************************************************************)
(* Two caches with one path and one with another; records below, at and    *)
(* above the limit.                                                        *)
(***************************************************************************)
EXTENDS PartitionCache, TLC

CONSTANTS c1, c2, c3, p1, p2, small, full, big, huge

MCSize == (small :> 1) @@ (full :> 3) @@ (big :> 4) @@ (huge :> 5)
MCPathOf == (c1 :> p1) @@ (c2 :> p1) @@ (c3 :> p2)

=============================================================================
