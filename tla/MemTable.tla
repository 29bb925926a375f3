------------------------------- MODULE MemTable -------------------------------
(***************************************************************************)
(* The MemTable (src/src/memtable/mod.rs) shared by threads without a      *)
(* lock: a write is two steps, a counter and a map, that other threads can *)
(* fall between.  The engine freezes a MemTable when its approximate_size  *)
(* reaches flush_threshold_bytes.                                          *)
(***************************************************************************)
EXTENDS Integers, FiniteSetsExt

CONSTANTS
    Threads,         \* threads that write
    KeySizes,        \* a key stands for its length and a number: [len, id]
    ValueSizes,      \* lengths of values
    EntryOverhead,   \* ENTRY_OVERHEAD
    MaxOps           \* bound: writes

VARIABLES
    map,               \* the entry of each key present: the SkipMap
    approximate_size,  \* the counter
    doing,             \* doing[t]: the write that thread t has under way
    count              \* history: writes begun

vars == <<map, approximate_size, doing, count>>

NoWrite == [pc |-> "idle"]

Entry(value, deleted) == [value |-> value, deleted |-> deleted]

\* The charge of bump_approximate_size for an entry.
Charge(key, entry) == key.len + entry.value + EntryOverhead

Inserted(key, entry) ==
    [k \in DOMAIN map \cup {key} |-> IF k = key THEN entry ELSE map[k]]

Init ==
    /\ map = [k \in {} |-> Entry(0, FALSE)] /\ approximate_size = 0
    /\ doing = [t \in Threads |-> NoWrite] /\ count = 0

\* Seeded defect: the entry is inserted before it is charged.
InsertFirst(t, key, entry) ==
    /\ doing[t] = NoWrite /\ count < MaxOps
    /\ map' = Inserted(key, entry)
    /\ doing' = [doing EXCEPT ![t] = [pc |-> "insert", key |-> key, entry |-> entry]]
    /\ count' = count + 1
    /\ UNCHANGED approximate_size

\* put and delete, first step: the counter.  A delete carries no value.
Bump(t, key, entry) ==
    /\ doing[t] = NoWrite /\ count < MaxOps
    /\ approximate_size' = approximate_size + Charge(key, entry)
    /\ doing' = [doing EXCEPT ![t] = [pc |-> "insert", key |-> key, entry |-> entry]]
    /\ count' = count + 1
    /\ UNCHANGED map

\* put and delete, second step: the map, which replaces an older entry.
Insert(t) ==
    /\ doing[t] # NoWrite
    /\ map' = Inserted(doing[t].key, doing[t].entry)
    /\ doing' = [doing EXCEPT ![t] = NoWrite]
    /\ UNCHANGED <<approximate_size, count>>

Next ==
    \E t \in Threads :
      \/ \E key \in KeySizes :
           \/ \E v \in ValueSizes : Bump(t, key, Entry(v, FALSE))
           \/ Bump(t, key, Entry(0, TRUE))
      \/ Insert(t)

Spec == Init /\ [][Next]_vars

-----------------------------------------------------------------------------
\* What the entries of the map occupy.
Resident == MapThenSumSet(LAMBDA k : Charge(k, map[k]), DOMAIN map)

\* approximate_size is never below what the map holds, at any moment and however
\* writes of several threads to one key interleave: a full MemTable is always
\* noticed ("under-reporting would delay an auto-flush").
SizeCoversEntries == approximate_size >= Resident
=============================================================================
