--------------------------- MODULE PartitionCache ---------------------------
(***************************************************************************)
(* PartitionCache: a record buffer that moves what it holds to a file once *)
(* its size passes a limit.  Several caches exist at once, each with the   *)
(* path it spills to, and they may have one path: the executor gives the   *)
(* spill path of a task to every cache of it, and bucket-<n>.bin to every  *)
(* bucket n.  A cache is filled by from_records and consumed by into_parts, *)
(* or dropped; nothing removes the file of a cache that is dropped.        *)
(***************************************************************************)
EXTENDS Naturals, Sequences, SequencesExt

CONSTANTS
    Caches,
    Records,    \* occurrences of records: each is pushed once at most
    Size,       \* estimate_size: bytes of a record as JSON
    Limit,      \* limit_bytes
    Paths,
    PathOf,     \* spill_path of each cache
    NoFile      \* the file does not exist

ASSUME CacheAssumption ==
    /\ Size \in [Records -> Nat] /\ Limit \in Nat
    /\ PathOf \in [Caches -> Paths]
    /\ NoFile \notin Seq(Records)

VARIABLES
    live,           \* the cache exists
    inMemory,       \* in_memory
    inMemoryBytes,  \* in_memory_bytes
    spilled,        \* spilled_file is Some
    spilledBytes,   \* spilled_bytes
    file,           \* contents of the spill files
    out,            \* history: what the last drain_all of a cache returned
    pushed,         \* history: what was pushed into a cache, in that order
    own,            \* history: no other cache has used the file of this one
    used,           \* history: the records pushed so far
    returned,       \* history: the records some drain has returned
    kept,           \* history: those whose file could not be removed then
    dropped         \* history: those that were in memory of a dropped cache

cacheVars == <<live, inMemory, inMemoryBytes, spilled, spilledBytes>>
historyVars == <<out, pushed, own, used, returned, kept, dropped>>
vars == <<cacheVars, file, historyVars>>

-----------------------------------------------------------------------------
Init ==
    /\ live = [c \in Caches |-> TRUE]
    /\ inMemory = [c \in Caches |-> <<>>]
    /\ inMemoryBytes = [c \in Caches |-> 0]
    /\ spilled = [c \in Caches |-> FALSE]
    /\ spilledBytes = [c \in Caches |-> 0]
    /\ file = [p \in Paths |-> NoFile]
    /\ out = [c \in Caches |-> <<>>]
    /\ pushed = [c \in Caches |-> <<>>]
    /\ own = [c \in Caches |-> TRUE]
    /\ used = {} /\ returned = {} /\ kept = {} /\ dropped = {}

\* PartitionCache::new with a path that may have been used before.
New(c) ==
    /\ ~live[c]
    /\ live' = [live EXCEPT ![c] = TRUE]
    /\ own' = [own EXCEPT ![c] = TRUE]
    /\ UNCHANGED <<inMemory, inMemoryBytes, spilled, spilledBytes, file, out, pushed,
                   used, returned, kept, dropped>>

\* The cache is gone, with what it had in memory.
Gone(c) ==
    /\ live' = [live EXCEPT ![c] = FALSE]
    /\ inMemory' = [inMemory EXCEPT ![c] = <<>>]
    /\ inMemoryBytes' = [inMemoryBytes EXCEPT ![c] = 0]
    /\ spilled' = [spilled EXCEPT ![c] = FALSE]
    /\ spilledBytes' = [spilledBytes EXCEPT ![c] = 0]
    /\ pushed' = [pushed EXCEPT ![c] = <<>>]

\* The file opened with create and append.
Opened(p) == IF file[p] = NoFile THEN <<>> ELSE file[p]

\* c spills to its file, or drains it.  It has the file to itself if there was
\* none when it spilled first and no other cache has done the same since.
Uses(c) ==
    [d \in Caches |->
        IF d = c THEN own[c] /\ (spilled[c] \/ file[PathOf[c]] = NoFile)
        ELSE own[d] /\ ~(spilled[d] /\ PathOf[d] = PathOf[c])]

\* Mutant of SpillToDisk: the file is opened with truncate.
SpillToDiskTruncating(c, records, bytes) ==
    /\ file' = [file EXCEPT ![PathOf[c]] = records]
    /\ spilled' = [spilled EXCEPT ![c] = TRUE]
    /\ spilledBytes' = [spilledBytes EXCEPT ![c] = @ + bytes + Len(records)]
    /\ inMemory' = [inMemory EXCEPT ![c] = <<>>]
    /\ inMemoryBytes' = [inMemoryBytes EXCEPT ![c] = 0]
    /\ own' = Uses(c)

\* spill_to_disk: one line per record, so a newline more than its size, is
\* appended to the file; memory is empty afterwards.
SpillToDisk(c, records, bytes) ==
    /\ file' = [file EXCEPT ![PathOf[c]] = Opened(PathOf[c]) \o records]
    /\ spilled' = [spilled EXCEPT ![c] = TRUE]
    /\ spilledBytes' = [spilledBytes EXCEPT ![c] = @ + bytes + Len(records)]
    /\ inMemory' = [inMemory EXCEPT ![c] = <<>>]
    /\ inMemoryBytes' = [inMemoryBytes EXCEPT ![c] = 0]
    /\ own' = Uses(c)

\* total_size_bytes once r is in memory: spilled bytes count, too.
TotalBytes(c, r) == spilledBytes[c] + inMemoryBytes[c] + Size[r]

\* Mutant of Push: the limit is checked before the record is added.
PushUnchecked(c, r) ==
    /\ live[c] /\ r \notin used
    /\ IF spilledBytes[c] + inMemoryBytes[c] > Limit
       THEN SpillToDisk(c, Append(inMemory[c], r), inMemoryBytes[c] + Size[r])
       ELSE /\ inMemory' = [inMemory EXCEPT ![c] = Append(@, r)]
            /\ inMemoryBytes' = [inMemoryBytes EXCEPT ![c] = @ + Size[r]]
            /\ UNCHANGED <<spilled, spilledBytes, file, own>>
    /\ pushed' = [pushed EXCEPT ![c] = Append(@, r)]
    /\ used' = used \cup {r}
    /\ UNCHANGED <<live, out, returned, kept, dropped>>

\* push, with its maybe_spill.
Push(c, r) ==
    /\ live[c] /\ r \notin used
    /\ IF TotalBytes(c, r) > Limit
       THEN SpillToDisk(c, Append(inMemory[c], r), inMemoryBytes[c] + Size[r])
       ELSE /\ inMemory' = [inMemory EXCEPT ![c] = Append(@, r)]
            /\ inMemoryBytes' = [inMemoryBytes EXCEPT ![c] = @ + Size[r]]
            /\ UNCHANGED <<spilled, spilledBytes, file, own>>
    /\ pushed' = [pushed EXCEPT ![c] = Append(@, r)]
    /\ used' = used \cup {r}
    /\ UNCHANGED <<live, out, returned, kept, dropped>>

\* push returns the error of a spill: the file could not be opened, or has the
\* first n records.  from_records drops the cache.
FailPush(c, r) ==
    /\ live[c] /\ r \notin used /\ TotalBytes(c, r) > Limit
    /\ LET records == Append(inMemory[c], r)
       IN  \/ /\ dropped' = dropped \cup ToSet(records)
              /\ UNCHANGED <<file, own>>
           \/ \E n \in 0..Len(records) :
                 /\ file' = [file EXCEPT ![PathOf[c]] =
                                Opened(PathOf[c]) \o SubSeq(records, 1, n)]
                 /\ dropped' = dropped \cup ToSet(SubSeq(records, n + 1, Len(records)))
                 /\ own' = Uses(c)
    /\ used' = used \cup {r}
    /\ Gone(c)
    /\ UNCHANGED <<out, returned, kept>>

\* What drain_all reads: the file, if the cache has spilled, then the memory.
Contents(c) == (IF spilled[c] THEN file[PathOf[c]] ELSE <<>>) \o inMemory[c]

\* Mutant of DrainAll: the file is left behind.
DrainAllKeepingFile(c) ==
    /\ live[c]
    /\ spilled[c] => file[PathOf[c]] # NoFile
    /\ out' = [out EXCEPT ![c] = Contents(c)]
    /\ returned' = returned \cup ToSet(Contents(c))
    /\ Gone(c)
    /\ UNCHANGED <<file, own, used, kept, dropped>>

\* into_parts, which consumes the cache: drain_all reads the file to its end,
\* whoever wrote it, and removes it; an error of the removal is ignored.
DrainAll(c) ==
    /\ live[c]
    /\ spilled[c] => file[PathOf[c]] # NoFile
    /\ out' = [out EXCEPT ![c] = Contents(c)]
    /\ returned' = returned \cup ToSet(Contents(c))
    /\ IF spilled[c]
       THEN /\ \/ file' = [file EXCEPT ![PathOf[c]] = NoFile] /\ kept' = kept
               \/ file' = file /\ kept' = kept \cup ToSet(file[PathOf[c]])
            /\ own' = Uses(c)
       ELSE UNCHANGED <<file, kept, own>>
    /\ Gone(c)
    /\ UNCHANGED <<used, dropped>>

\* drain_all returns an error: the file of a spilled cache is not there, or
\* cannot be read or parsed.  It is not removed then.
FailDrain(c) ==
    /\ live[c] /\ spilled[c]
    /\ dropped' = dropped \cup ToSet(inMemory[c])
    /\ Gone(c)
    /\ UNCHANGED <<file, out, own, used, returned, kept>>

\* The cache is dropped undrained: the task failed, or nobody takes the output
\* of its operator, or a Read does, which ignores its input.
Drop(c) ==
    /\ live[c]
    /\ dropped' = dropped \cup ToSet(inMemory[c])
    /\ Gone(c)
    /\ UNCHANGED <<file, out, own, used, returned, kept>>

Next ==
    \E c \in Caches :
        \/ New(c) \/ DrainAll(c) \/ FailDrain(c) \/ Drop(c)
        \/ \E r \in Records : Push(c, r) \/ FailPush(c, r)

Spec == Init /\ [][Next]_vars

-----------------------------------------------------------------------------
\* The values of the variables.
TypeOK ==
    /\ live \in [Caches -> BOOLEAN]
    /\ inMemory \in [Caches -> Seq(Records)]
    /\ inMemoryBytes \in [Caches -> Nat]
    /\ spilled \in [Caches -> BOOLEAN]
    /\ spilledBytes \in [Caches -> Nat]
    /\ file \in [Paths -> Seq(Records) \cup {NoFile}]
    /\ out \in [Caches -> Seq(Records)]
    /\ pushed \in [Caches -> Seq(Records)]
    /\ own \in [Caches -> BOOLEAN]
    /\ used \subseteq Records /\ returned \subseteq Records
    /\ kept \subseteq Records /\ dropped \subseteq Records

InCache(c, r) == Contains(inMemory[c], r)
InFile(p, r) == file[p] # NoFile /\ Contains(file[p], r)
Once(s, r) == \A j, k \in 1..Len(s) : s[j] = r /\ s[k] = r => j = k

\* Caches that share a file take records from each other but lose none: every
\* record that was pushed is in memory or in a file, where the next drain of the
\* path finds it, or was returned, or went with the memory of a cache that was
\* dropped, however caches spill, drain, fail and are dropped in between.
NothingLost ==
    \A r \in used :
        \/ \E c \in Caches : InCache(c, r)
        \/ \E p \in Paths : InFile(p, r)
        \/ r \in returned \cup dropped

\* No record is returned twice, by one cache or by two, unless the file it was
\* in could not be removed: it is in one place, and in none once it is returned.
NothingTwice ==
    \A r \in Records \ kept :
        /\ \A c \in Caches : InCache(c, r) =>
               /\ r \notin returned /\ Once(inMemory[c], r)
               /\ \A d \in Caches : InCache(d, r) => c = d
               /\ \A p \in Paths : ~InFile(p, r)
        /\ \A p \in Paths : InFile(p, r) =>
               /\ r \notin returned /\ Once(file[p], r)
               /\ \A q \in Paths : InFile(q, r) => p = q

\* The memory in use stays within the limit; and since spilled bytes count
\* towards it, a cache that has spilled once keeps nothing in memory.
MemoryBounded ==
    \A c \in Caches :
        /\ inMemoryBytes[c] <= Limit
        /\ spilled[c] => inMemory[c] = <<>> /\ spilledBytes[c] > Limit

\* Where the records are does not matter: caches implement record buffers, each
\* for as long as it has its file to itself.
Buffer == INSTANCE RecordBuffer WITH buf <- pushed

BufferSpec == Buffer!Spec

=============================================================================
