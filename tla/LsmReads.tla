------------------------------- MODULE LsmReads -------------------------------
(***************************************************************************)
(* LsmEngine::get (src/src/engine.rs) step by step, beside every step of   *)
(* the engine: get takes the state lock once, to copy the Arcs of the      *)
(* active MemTable, the immutables and the table handles; it then reads    *)
(* them with no lock, while writes, freezes, flushes and compactions go on *)
(* and the files of merged tables are deleted.                             *)
(*                                                                         *)
(* A handle opens its file on first use and keeps the outcome (SstHandle). *)
(* An open file stays readable after it is deleted, as on Unix.            *)
(***************************************************************************)
EXTENDS LsmEngine

CONSTANTS
    Readers,      \* threads that call get()
    OpenMayFail,  \* whether opening an existing table may fail (too many files...)
    MaxGets       \* bound: calls of get()

ASSUME ReadsAssumption == OpenMayFail \in BOOLEAN /\ MaxGets \in Nat

VARIABLES
    arcs,    \* arcs[g]: the MemTable of generation g, while anyone may hold it
    opened,  \* handles, as <<level, seq>>, whose reader is open
    failed,  \* handles whose reader could not be opened
    rd,      \* rd[r]: the get() of reader r
    gets,    \* history: calls made
    seen     \* history: seen[r], what the key of r was at a moment of its call

readVars == <<arcs, opened, failed, rd, gets, seen>>
allVars == <<vars, readVars>>

-----------------------------------------------------------------------------
NoArcs == [g \in Seqs |-> EmptyTable]

RdIdle == [pc |-> "idle", key |-> 0, act |-> 0, imms |-> {}, todo |-> {},
           tables |-> [h \in {} |-> EmptyTable], answer |-> 0]

\* open_reader: the cached outcome, else that of SsTableReader::open.
CanOpen(h) == h \in opened \/ (h \notin failed /\ h[2] \in files[h[1]])

CannotOpen(h) ==
    h \notin opened /\ (h \in failed \/ h[2] \notin files[h[1]] \/ OpenMayFail)

\* The key lies between the min and the max of the table's meta.
InRange(table, k) ==
    \E i, j \in Keys : i <= k /\ k <= j /\ table[i] # 0 /\ table[j] # 0

\* get: the copy of the state under its read lock.
GetBegin(r, k) ==
    /\ mode = "up" /\ rd[r].pc = "idle" /\ gets < MaxGets
    /\ rd' = [rd EXCEPT ![r] =
                [RdIdle EXCEPT !.pc = "active", !.key = k, !.act = active, !.imms = imms,
                               !.todo = Runs(levels),
                               !.tables = [h \in Runs(levels) |-> sst[h[1]][h[2]]]]]
    /\ gets' = gets + 1
    /\ seen' = [seen EXCEPT ![r] = {Value(kv[k])}]
    /\ UNCHANGED <<vars, arcs, opened, failed>>

Answer(r, w) ==
    rd' = [rd EXCEPT ![r].pc = "answered", ![r].answer = Value(w)]

\* The MemTables that the Arcs of the copy keep alive.
HeldTables == arcs

\* 1. The active MemTable of the copy, frozen or even flushed meanwhile.
GetActive(r) ==
    /\ rd[r].pc = "active"
    /\ LET hit == HeldTables[rd[r].act][rd[r].key]
       IN IF hit # 0 THEN Answer(r, hit) ELSE rd' = [rd EXCEPT ![r].pc = "imms"]
    /\ UNCHANGED <<vars, arcs, opened, failed, gets, seen>>

\* 2. The immutables, newest first; nobody writes to them any more.
GetImms(r) ==
    /\ rd[r].pc = "imms"
    /\ LET hit == NewestHit(rd[r].imms, HeldTables, rd[r].key)
       IN IF hit # 0 THEN Answer(r, hit) ELSE rd' = [rd EXCEPT ![r].pc = "tables"]
    /\ UNCHANGED <<vars, arcs, opened, failed, gets, seen>>

\* The handle looked at next: level 0 first, the highest number of a level first.
NextTable(todo) ==
    CHOOSE h \in todo : \A q \in todo : h[1] < q[1] \/ (h[1] = q[1] /\ h[2] >= q[2])

\* Seeded defect: a table that cannot be opened is passed over.
PassOver(r) == [rd EXCEPT ![r].todo = @ \ {NextTable(@)}]

\* An error of open_reader is the answer of get.
AfterOpenError(r) == [rd EXCEPT ![r].pc = "failed"]

\* 3. One table: out of range, read through its handle, or not readable.
GetTable(r) ==
    /\ rd[r].pc = "tables" /\ rd[r].todo # {}
    /\ LET h == NextTable(rd[r].todo)
           hit == rd[r].tables[h][rd[r].key]
           rest == [rd EXCEPT ![r].todo = @ \ {h}]
       IN \/ /\ ~ InRange(rd[r].tables[h], rd[r].key)
             /\ rd' = rest /\ UNCHANGED <<opened, failed>>
          \/ /\ InRange(rd[r].tables[h], rd[r].key) /\ CanOpen(h)
             /\ opened' = opened \cup {h} /\ UNCHANGED failed
             /\ IF hit # 0 THEN Answer(r, hit) ELSE rd' = rest
          \/ /\ InRange(rd[r].tables[h], rd[r].key) /\ CannotOpen(h)
             /\ failed' = failed \cup {h} /\ UNCHANGED opened
             /\ rd' = AfterOpenError(r)
    /\ UNCHANGED <<vars, arcs, gets, seen>>

\* No table has the key.
GetNone(r) ==
    /\ rd[r].pc = "tables" /\ rd[r].todo = {}
    /\ Answer(r, 0)
    /\ UNCHANGED <<vars, arcs, opened, failed, gets, seen>>

GetReturn(r) ==
    /\ rd[r].pc \in {"answered", "failed"}
    /\ rd' = [rd EXCEPT ![r] = RdIdle]
    /\ seen' = [seen EXCEPT ![r] = {}]
    /\ UNCHANGED <<vars, arcs, opened, failed, gets>>

-----------------------------------------------------------------------------
\* Seeded defect: compaction opens its inputs outside their handles.
OpensNothing == {}

\* The handles that compact_all_pending opens, which it shares with readers.
CompactOpens == Runs(levels)

\* compact_all_pending fails to open an input, after those before it.
CompactOpenFails(p) ==
    /\ CompactCaller(p) /\ levels[0] # {}
    /\ \E h \in Runs(levels) :
         LET before == {q \in Runs(levels) : q[1] < h[1] \/ (q[1] = h[1] /\ q[2] < h[2])}
         IN /\ CannotOpen(h) /\ \A q \in before : CanOpen(q)
            /\ opened' = opened \cup before
            /\ failed' = failed \cup {h}
    /\ wk' = IF p = "worker" THEN "recv" ELSE wk
    /\ UNCHANGED <<dirVars, mode, mem, active, imms, levels, nextSeq, stale, wr, fl,
                   signals, calls, ghosts, arcs, rd, gets, seen>>

\* Any step of the engine: compaction opens its inputs before it merges them, a
\* MemTable outlives its flush in the Arcs, and a process takes its readers along.
EngineStep ==
    /\ Next
    /\ IF mode' = "down"
       THEN /\ arcs' = NoArcs /\ opened' = {} /\ failed' = {}
            /\ rd' = [r \in Readers |-> RdIdle] /\ seen' = [r \in Readers |-> {}]
       ELSE /\ arcs' = [g \in Seqs |-> IF mem'[g] = EmptyTable THEN arcs[g] ELSE mem'[g]]
            /\ IF fl.pc = "free" /\ fl'.pc = "merged"
               THEN /\ \A h \in CompactOpens : CanOpen(h)
                    /\ opened' = opened \cup CompactOpens
               ELSE UNCHANGED opened
            /\ seen' = [r \in Readers |->
                          IF rd[r].pc = "idle" THEN {}
                          ELSE seen[r] \cup {Value(kv'[rd[r].key])}]
            /\ UNCHANGED <<failed, rd>>
    /\ UNCHANGED gets

ReadInit ==
    /\ Init
    /\ arcs = NoArcs /\ opened = {} /\ failed = {}
    /\ rd = [r \in Readers |-> RdIdle]
    /\ gets = 0 /\ seen = [r \in Readers |-> {}]

ReadNext ==
    \/ EngineStep
    \/ \E p \in Clients \cup {"worker"} : CompactOpenFails(p)
    \/ \E r \in Readers :
         \/ \E k \in Keys : GetBegin(r, k)
         \/ GetActive(r) \/ GetImms(r) \/ GetTable(r) \/ GetNone(r) \/ GetReturn(r)

ReadSpec == ReadInit /\ [][ReadNext]_allVars

-----------------------------------------------------------------------------
(* Properties.                                                             *)

\* get is linearizable: it answers with what the key was at some moment of its
\* call, whichever freezes, flushes, compactions and deletions overtake it, and
\* also when a table cannot be opened: then it fails rather than answer from an
\* older table (get, open_reader, flush_pending, compact_all_pending).
ReadIsCurrent ==
    \A r \in Readers : rd[r].pc = "answered" => rd[r].answer \in seen[r]

\* No table that a get still has to look at is gone unread: compact_all_pending
\* opens every input through the handle that readers share before it deletes the
\* file, so a handle copied earlier finds its reader open.
CompactionSparesReaders ==
    \A r \in Readers : \A h \in rd[r].todo :
      h \in opened \cup failed \/ h[2] \in files[h[1]]
=============================================================================
