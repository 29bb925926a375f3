------------------------------ MODULE LsmTables ------------------------------
(***************************************************************************)
(* The data of the engine, abstracted to what its correctness depends on.  *)
(*                                                                         *)
(* Every put and delete the engine is ever given is numbered; the number   *)
(* (an element of Ids) stands for the entry the write leaves in a          *)
(* MemTable, a WAL or an SSTable.  0 stands for "no entry".  A MemTable    *)
(* and an SSTable are both a Table: the entry held for each key.  Because  *)
(* numbers grow in the order the WAL mutex serialises the writes, "newer"  *)
(* is ">".                                                                 *)
(***************************************************************************)
EXTENDS Integers, Sequences, FiniteSets, FiniteSetsExt

CONSTANTS
    Keys,       \* the keys in use; ordered, as byte strings are
    MaxWrites,  \* bound: how many puts and deletes are issued
    MaxSeq      \* bound: how many file sequence numbers are allocated

ASSUME KeysAssumption == Keys \subseteq Nat /\ Keys # {}

ASSUME BoundsAssumption == MaxWrites \in Nat /\ MaxSeq \in Nat

Ids  == 0 .. MaxWrites
Seqs == 1 .. MaxSeq        \* file numbers drawn from next_seq

\* The two levels this version of the engine populates: flushes fill level 0,
\* compaction replaces both by one level-1 table.
Levels == {0, 1}

Table == [Keys -> Ids]

EmptyTable == [k \in Keys |-> 0]

\* A read that falls through to the next layer when this one has no entry.
OrElse(hit, next) == IF hit # 0 THEN hit ELSE next

\* The numbers in S whose table has an entry for k.
Hits(S, tables, k) == {s \in S : tables[s][k] # 0}

\* Seeded defect: the scan starts with the oldest table.
OldestHit(S, tables, k) ==
    IF Hits(S, tables, k) = {} THEN 0 ELSE tables[Min(Hits(S, tables, k))][k]

\* Scan the tables numbered S newest first and stop at the first entry for k
\* (a tombstone is an entry: it stops the scan).
NewestHit(S, tables, k) ==
    IF Hits(S, tables, k) = {} THEN 0 ELSE tables[Max(Hits(S, tables, k))][k]

\* Key by key, the newer of two tables.
NewerOf(t, u) == [k \in Keys |-> IF t[k] >= u[k] THEN t[k] ELSE u[k]]
=============================================================================
