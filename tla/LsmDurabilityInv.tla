--------------------------- MODULE LsmDurabilityInv ---------------------------
(***************************************************************************)
(* The inductive invariant behind the durability properties PromisesKept,  *)
(* AcknowledgedKept, DropKept, NoStrayWal and ManifestCurrent: why a stop  *)
(* at any moment leaves a directory from which open recovers every promise *)
(* made.  A promise is about a key: some write, or a newer one, will be    *)
(* found (Fresh).  It is kept by the logs, as long as they last, and by    *)
(* the tables the MANIFEST lists.                                          *)
(***************************************************************************)
EXTENDS LsmEngineInv

\* Without these faults a flushed generation is always deleted and a committed
\* change of the levels always recorded.  Each of them breaks PromisesKept.
NoLosingFaults == Faults \cap {"wal_unlink", "sst_write", "manifest_write"} = {}

\* What is promised and against what: a clean drop makes every write survive the
\* death of a process, flush() and a synced put also that of the machine.
PromiseKinds == {"power"} \cup (IF CrashKinds \subseteq {"kill"} THEN {"kill"} ELSE {})

Owed(kind, k) == IF kind = "kill" THEN closed[k] ELSE durable[k]

-----------------------------------------------------------------------------
(* The logs.                                                               *)

\* The generations whose MemTable is in memory.
LiveGens == imms \cup {active}

\* A log is on disk up to what was fsynced and with the operating system up to
\* what was handed over; the entries of one key are in the order they were issued.
LogShape ==
    /\ \A g \in Seqs \ walFiles : wlog[g] = << >>
    /\ \A g \in Seqs : wsync[g] <= wos[g] /\ wos[g] <= Len(wlog[g])
    /\ \A g \in Seqs : \A i, j \in 1 .. Len(wlog[g]) :
         i < j /\ ops[wlog[g][i]].key = ops[wlog[g][j]].key => wlog[g][i] < wlog[g][j]

\* Generation g has logged write w.
HasWrite(g, k, w) == \E i \in Entries(g, k) : wlog[g][i] = w

\* Every MemTable in memory can be rebuilt from its log, which the operating
\* system has in full once the MemTable is frozen.
LiveLogs ==
    mode # "down" =>
      /\ LiveGens \subseteq walFiles
      /\ \A g \in walFiles : g < nextSeq
      /\ wr.pc = "swap" => wr.new \in walFiles /\ wlog[wr.new] = << >>
      /\ \A g \in LiveGens, k \in Keys : mem[g][k] # 0 => HasWrite(g, k, mem[g][k])
      /\ \A g \in imms : wos[g] = Len(wlog[g])

\* Generation g has logged a write of k no older than d that a stop leaves alone.
SafeHit(kind, g, k, d) ==
    \E i \in Entries(g, k) : i <= Safe(kind, g) /\ wlog[g][i] >= d

\* A put or delete that has not returned: the newest write there is, logged in the
\* active generation and, before a freeze, in the active MemTable.
InHand ==
    wr.pc # "free" /\ wr.by = "put" =>
      /\ wr.w = Len(ops)
      /\ HasWrite(active, ops[wr.w].key, wr.w)
      /\ SyncPerWrite => SafeHit("power", active, ops[wr.w].key, wr.w)
      /\ wr.pc # "apply" => mem[active][ops[wr.w].key] = wr.w

\* Only issued writes are promised.
PromisedIssued ==
    /\ \A k \in Keys : durable[k] <= Len(ops) /\ closed[k] <= Len(ops)
    /\ \A c \in Clients, k \in Keys : snap[c][k] <= Len(ops)
    /\ SyncPerWrite => \A k \in Keys : acked[k] <= durable[k]

-----------------------------------------------------------------------------
(* The two mutexes.                                                        *)

\* A flush() freezes under the WAL mutex, then drains under flush_lock; a compact()
\* merges under flush_lock; nobody is inside a call while the engine is not up.
CallsInOrder ==
    /\ \A c \in Clients :
         calls[c] = "sync" => wr.by = c /\ wr.pc \in {"rotate", "swap"}
    /\ wr.pc \in {"rotate", "swap"} /\ wr.by # "put" =>
         wr.by \in Clients /\ calls[wr.by] = "sync"
    /\ fl.pc \in {"drain", "commit", "unlink", "ok"} /\ fl.by \in Clients =>
         calls[fl.by] = "drain"
    /\ fl.pc \in {"merged", "record", "sweep"} /\ fl.by \in Clients =>
         calls[fl.by] = "compact"
    /\ mode # "up" => \A c \in Clients : calls[c] = "idle"

\* The generations that flush_all_pending still has to delete are older than those
\* in memory, and there are none once it is done.
TodoOlder ==
    /\ fl.pc \notin {"drain", "commit", "unlink"} => fl.todo = {}
    /\ fl.pc = "unlink" => fl.todo # {}
    /\ \A t \in fl.todo, g \in LiveGens : t < g

\* The logs on disk are those of MemTables in memory and those about to be
\* deleted, by flush_all_pending or by open.
LogsAccounted ==
    /\ NoStrayWal
    /\ mode \in {"reback", "clean"} =>
         /\ walFiles \subseteq stale \cup {active}
         /\ \A g \in stale : g < active
    /\ mode = "clean" => stale # {}
    /\ mode = "up" => stale = {}

\* The MANIFEST lists the live levels except between a commit and its record.
ManifestLags ==
    mode # "down" /\ manifest # levels =>
      fl.pc = "record" \/ (fl.pc \in {"drain", "commit"} /\ fl.todo # {})

-----------------------------------------------------------------------------
(* Keeping a promise d for key k.                                          *)

\* What the tables T answer.
FromTables(T, k) == OrElse(NewestHit(T[0], sst[0], k), NewestHit(T[1], sst[1], k))

\* Generation g has logged a write of k older than d.
HasOlder(g, k, d) == \E i \in Entries(g, k) : wlog[g][i] < d

\* On disk: replay finds no older write last, and without a log that is safe the
\* tables answer.
DiskKeeps(kind, k, d) ==
    /\ \A g \in walFiles : HasOlder(g, k, d) =>
         \E h \in walFiles : g <= h /\ SafeHit(kind, h, k, d)
    /\ (\A g \in walFiles : ~ SafeHit(kind, g, k, d)) => Fresh(k, FromTables(manifest, k), d)

\* The same of the generations in memory and the live levels, which is what will
\* be on disk when those that are on their way out have been deleted.
LiveKeeps(kind, k, d) ==
    /\ \A g \in LiveGens : HasOlder(g, k, d) =>
         \E h \in LiveGens : g <= h /\ mem[h][k] >= d /\ SafeHit(kind, h, k, d)
    /\ (\A g \in LiveGens : ~ (mem[g][k] >= d /\ SafeHit(kind, g, k, d)))
         => Fresh(k, FromTables(levels, k), d)

\* In memory: the MemTables F and the live levels answer with d or newer, and a log
\* with an older write belongs to a MemTable that has been overtaken.
Held(F, k, d) ==
    /\ Fresh(k, OrElse(NewestHit(F, mem, k), FromTables(levels, k)), d)
    /\ \A g \in LiveGens : HasOlder(g, k, d) => \E h \in F : g <= h /\ mem[h][k] # 0

\* What the MemTables and the levels hold: every write applied.
AppliedHeld == mode # "down" => \A k \in Keys : Held(LiveGens, k, kv[k])

\* The MemTables that the flush() of c waits for.
Awaited(c) == imms \cup (IF calls[c] = "sync" THEN {active} ELSE {})

\* What a flush() is about to promise: held by what it will have drained, ...
SnapHeld ==
    \A c \in Clients : calls[c] \in {"sync", "drain"} =>
      \A k \in Keys : Held(Awaited(c), k, snap[c][k])

\* ... and by the tables alone once it has.
SnapFlushed ==
    fl.pc \in {"unlink", "ok"} /\ fl.by \in Clients =>
      \A k \in Keys :
        /\ Fresh(k, FromTables(levels, k), snap[fl.by][k])
        /\ \A g \in LiveGens : ~ HasOlder(g, k, snap[fl.by][k])

\* open has re-appended the recovered MemTable and nothing else: every key that
\* some log has, with a write at least as new as promised.
Reappended ==
    mode = "reback" =>
      \A k \in Keys :
        /\ \A i \in Entries(active, k) : wlog[active][i] = mem[active][k]
        /\ (\E g \in stale : Entries(g, k) # {}) => Entries(active, k) # {}
        /\ \A kind \in PromiseKinds : ~ HasOlder(active, k, Owed(kind, k))

DiskPromises == \A kind \in PromiseKinds, k \in Keys : DiskKeeps(kind, k, Owed(kind, k))

LivePromises ==
    mode \in {"clean", "up"} =>
      \A kind \in PromiseKinds, k \in Keys : LiveKeeps(kind, k, Owed(kind, k))

\* The whole invariant; the last group needs NoLosingFaults.
DurableInv ==
    /\ LogShape /\ LiveLogs /\ InHand /\ PromisedIssued /\ CallsInOrder /\ TodoOlder
    /\ LogsAccounted /\ ManifestLags
    /\ AppliedHeld /\ SnapHeld /\ SnapFlushed /\ Reappended
    /\ DiskPromises /\ LivePromises
=============================================================================
