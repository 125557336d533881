---------------------------- MODULE RecordBuffer ----------------------------
(***************************************************************************)
(* What a partition cache promises to the operators.  While a cache has its *)
(* file to itself, or needs none, records come out once, all of them, in   *)
(* the order they went in, whatever the memory limit.  A drain of a cache  *)
(* that shares its file returns records somebody put in, or fails.         *)
(***************************************************************************)
EXTENDS Naturals, Sequences

CONSTANTS Caches, Records

VARIABLES
    buf,    \* the records put into a cache
    out,    \* the records its last drain returned
    own,    \* the cache has its file to itself
    used    \* the records put into any cache

Init ==
    /\ buf = [c \in Caches |-> <<>>]
    /\ out = [c \in Caches |-> <<>>]
    /\ own = [c \in Caches |-> TRUE]
    /\ used = {}

\* Others may lose their file to the cache that works, nobody gets one back.
Shared == \A c \in Caches : own'[c] => own[c]

\* A new cache has its file to itself.
Renew(c) ==
    /\ buf[c] = <<>>
    /\ own' = [own EXCEPT ![c] = TRUE]
    /\ UNCHANGED <<buf, out, used>>

Push(c, r) ==
    /\ buf' = [buf EXCEPT ![c] = Append(@, r)]
    /\ used' = used \cup {r}
    /\ Shared
    /\ UNCHANGED out

Drain(c) ==
    /\ out' = [out EXCEPT ![c] = out'[c]]
    /\ out'[c] \in Seq(used) /\ (own[c] => out'[c] = buf[c])
    /\ buf' = [buf EXCEPT ![c] = <<>>]
    /\ Shared
    /\ UNCHANGED used

\* The cache is dropped, or fails; a record it was about to take counts as put in.
Drop(c) ==
    /\ buf' = [buf EXCEPT ![c] = <<>>]
    /\ used \subseteq used' /\ used' \subseteq Records
    /\ Shared
    /\ UNCHANGED out

Next ==
    \E c \in Caches : Renew(c) \/ Drain(c) \/ Drop(c) \/ \E r \in Records : Push(c, r)

Spec == Init /\ [][Next]_<<buf, out, own, used>>

=============================================================================
