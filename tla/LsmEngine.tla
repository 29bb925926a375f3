------------------------------ MODULE LsmEngine ------------------------------
(***************************************************************************)
(* The LSM engine of src/src/engine.rs: the write path under the WAL       *)
(* mutex, the flush and compaction pipelines under flush_lock, the         *)
(* background worker, clean drop, crashes, and recovery in open.           *)
(*                                                                         *)
(* Three threads of control interleave: whoever holds the WAL mutex (wr),  *)
(* whoever holds flush_lock (fl) and the worker (wk).  A step between two  *)
(* points where another thread, a reader or a crash can observe the state  *)
(* is one action.                                                          *)
(*                                                                         *)
(* Simplifications:                                                        *)
(*  - The lists of immutables and of SST handles, which the code keeps in  *)
(*    ascending file number, are sets of file numbers; first() is Min and  *)
(*    a reverse scan takes Max first.                                      *)
(*  - state_lock and the state RwLock only make the commit steps atomic;   *)
(*    each of those critical sections is a single action.                  *)
(*  - Renames and unlinks are durable, and in order, when they return (the *)
(*    code accepts the missing directory fsync); file contents are durable *)
(*    only up to the last fsync.                                           *)
(*  - A write is a whole frame of the WAL: a frame cut by a crash is       *)
(*    dropped by the reader, so a crash leaves a prefix of the writes.     *)
(***************************************************************************)
EXTENDS LsmTables

CONSTANTS
    Clients,       \* threads that call flush() and compact()
    SyncPerWrite,  \* LsmOptions.sync_per_write
    AutoFreeze,    \* LsmOptions.flush_threshold_bytes > 0
    L0Threshold,   \* LsmOptions.compaction_l0_file_threshold
    Faults,        \* the I/O operations that may fail
    CrashKinds,    \* "kill": the process dies; "power": the machine does
    MaxStops       \* bound: how many times the engine is dropped or crashes

IoFaults == {"wal_sync", "wal_create", "wal_unlink",
             "sst_write", "sst_unlink", "manifest_write"}

ASSUME OptionsAssumption ==
    /\ SyncPerWrite \in BOOLEAN
    /\ AutoFreeze \in BOOLEAN
    /\ L0Threshold \in Nat
    /\ Faults \subseteq IoFaults
    /\ CrashKinds \subseteq {"kill", "power"}
    /\ MaxStops \in Nat

ASSUME ClientsAssumption == Clients \cap {"put", "worker", "none"} = {}

VARIABLES
    \* The directory: what a crash leaves behind.
    walFiles,  \* generations whose wal_<seq>.wal exists
    wlog,      \* wlog[g]: the writes appended to generation g, in order
    wos,       \* wos[g]: how many of them have reached the operating system
    wsync,     \* wsync[g]: how many of them have been fsynced
    files,     \* files[l]: numbers whose L<l>_<seq>.sst exists
    sst,       \* sst[l][s]: the contents of that file
    manifest,  \* manifest[l]: the tables the MANIFEST lists at level l
    \* The process.
    mode,      \* "down", "reback", "clean" (both inside open) or "up"
    mem,       \* mem[g]: the MemTable whose writes are logged in generation g
    active,    \* ActiveWal.seq, hence also the active MemTable
    imms,      \* EngineState.immutables, by WAL generation
    levels,    \* EngineState.levels
    nextSeq,   \* next_seq
    stale,     \* generations open still has to unlink
    wr,        \* the critical section of the WAL mutex
    fl,        \* the critical section of flush_lock
    wk,        \* where the background worker is
    signals,   \* messages in the flush channel
    calls,     \* what each client is doing
    \* History, not state of the program.
    ops,       \* every write issued: its key, and whether it is a delete
    kv,        \* the newest write applied for each key
    gone,      \* the newest tombstone a committed compaction dropped, by key
    snap,      \* snap[c]: kv when the flush() of client c synced the WAL
    durable,   \* the writes whose durability the engine has promised
    acked,     \* the writes whose put/delete returned Ok
    closed,    \* kv at the last clean drop
    stops

dirVars  == <<walFiles, wlog, wos, wsync, files, sst, manifest>>
sstVars  == <<files, sst, manifest, levels>>
walVars  == <<walFiles, wlog, wos, wsync>>
ghosts   == <<ops, kv, gone, snap, durable, acked, closed, stops>>
promises == <<durable, acked, closed>>
vars     == <<walFiles, wlog, wos, wsync, files, sst, manifest, mode, mem,
              active, imms, levels, nextSeq, stale, wr, fl, wk, signals, calls,
              ops, kv, gone, snap, durable, acked, closed, stops>>

-----------------------------------------------------------------------------
NoTables == [l \in Levels |-> {}]

WrFree == [pc |-> "free", by |-> "none", w |-> 0, new |-> 0]

FlFree == [pc |-> "free", by |-> "none", gen |-> 0, seq |-> 0,
           todo |-> {}, inputs |-> NoTables]

Callers == Clients \cup {"worker", "none"}

WrType == [pc : {"free", "apply", "rotate", "swap"},
           by : Clients \cup {"put", "none"}, w : Ids, new : 0 .. MaxSeq]

FlType == [pc : {"free", "drain", "commit", "unlink", "ok",
                 "merged", "record", "sweep"},
           by : Callers, gen : 0 .. MaxSeq, seq : 0 .. MaxSeq,
           todo : SUBSET Seqs, inputs : [Levels -> SUBSET Seqs]]

TypeDirectory ==
    /\ walFiles \subseteq Seqs
    /\ wlog \in [Seqs -> Seq(1 .. MaxWrites)]
    /\ wos \in [Seqs -> Nat] /\ wsync \in [Seqs -> Nat]
    /\ files \in [Levels -> SUBSET Seqs]
    /\ sst \in [Levels -> [Seqs -> Table]]
    /\ manifest \in [Levels -> SUBSET Seqs]

TypeProcess ==
    /\ mode \in {"down", "reback", "clean", "up"}
    /\ mem \in [Seqs -> Table]
    /\ active \in 0 .. MaxSeq /\ (mode # "down" => active \in Seqs)
    /\ imms \subseteq Seqs /\ stale \subseteq Seqs
    /\ levels \in [Levels -> SUBSET Seqs]
    /\ nextSeq \in 1 .. (MaxSeq + 1)
    /\ wr \in WrType
    /\ wr.pc # "free" => mode = "up"
    /\ wr.pc = "swap" => wr.new \in Seqs
    /\ fl \in FlType
    /\ fl.pc = "commit" => fl.gen \in Seqs /\ fl.seq \in Seqs
    /\ wk \in {"recv", "flush", "check", "compact"}
    /\ signals \in Nat
    /\ calls \in [Clients -> {"idle", "sync", "drain", "compact"}]

TypeHistory ==
    /\ ops \in Seq([key : Keys, del : BOOLEAN]) /\ Len(ops) <= MaxWrites
    /\ wr.pc = "apply" => wr.by = "put"
    /\ wr.by = "put" => wr.w \in 1 .. Len(ops)
    /\ kv \in Table /\ gone \in Table
    /\ snap \in [Clients -> Table]
    /\ durable \in Table /\ acked \in Table /\ closed \in Table
    /\ stops \in Nat

\* Every variable holds a value of its type.
TypeOK == TypeDirectory /\ TypeProcess /\ TypeHistory

-----------------------------------------------------------------------------
(* Reading.                                                                *)

IsDelete(w) == w # 0 /\ ops[w].del

\* What a reader is told: no entry and a tombstone both read as None.
Value(w) == IF IsDelete(w) THEN 0 ELSE w

\* get: active MemTable, immutables newest first, level 0 newest first, level 1.
Lookup(k) ==
    OrElse(mem[active][k],
    OrElse(NewestHit(imms, mem, k),
    OrElse(NewestHit(levels[0], sst[0], k),
           NewestHit(levels[1], sst[1], k))))

\* merge_runs over the tables T: the record of the highest-numbered run wins,
\* whatever its level, and a winning tombstone is dropped.
Runs(T) == {r \in Levels \X Seqs : r[2] \in T[r[1]]}

RunsWith(T, k) == {r \in Runs(T) : sst[r[1]][r[2]][k] # 0}

Winner(T, k) ==
    IF RunsWith(T, k) = {} THEN 0
    ELSE LET r == CHOOSE r \in RunsWith(T, k) :
                     \A q \in RunsWith(T, k) : q[2] <= r[2]
         IN sst[r[1]][r[2]][k]

Merged(T) == [k \in Keys |-> Value(Winner(T, k))]

\* replay_into over every generation in ascending order: the last entry for k.
Entries(g, k) == {i \in 1 .. Len(wlog[g]) : ops[wlog[g][i]].key = k}

Replayed(k) ==
    LET hit == {g \in walFiles : Entries(g, k) # {}}
    IN IF hit = {} THEN 0 ELSE wlog[Max(hit)][Max(Entries(Max(hit), k))]

\* What an engine opened on the directory as it is now would answer.
Recovered(k) ==
    OrElse(Replayed(k),
    OrElse(NewestHit(manifest[0], sst[0], k),
           NewestHit(manifest[1], sst[1], k)))

-----------------------------------------------------------------------------
(* Write path: the holder of the WAL mutex.                                *)

CanAllocate == nextSeq <= MaxSeq

Logged(g, w) == [wlog EXCEPT ![g] = Append(@, w)]

\* Seeded defect: the buffer stays in the process.
NotDrained(g) == wos

\* The writer's buffer is handed to the operating system, by sync or by dropping
\* the writer.
Drained(g) == [wos EXCEPT ![g] = Len(wlog[g])]

\* ... and by sync made durable.
Synced(g) == [wsync EXCEPT ![g] = Len(wlog[g])]

\* put / delete: append the frame and, with sync_per_write, fsync it.
Write(k, del) ==
    /\ mode = "up" /\ wr.pc = "free" /\ Len(ops) < MaxWrites
    /\ ops' = Append(ops, [key |-> k, del |-> del])
    /\ wlog' = Logged(active, Len(ops) + 1)
    /\ IF SyncPerWrite
       THEN /\ wos' = [wos EXCEPT ![active] = Len(wlog[active]) + 1]
            /\ wsync' = [wsync EXCEPT ![active] = Len(wlog[active]) + 1]
       ELSE UNCHANGED <<wos, wsync>>
    /\ wr' = [pc |-> "apply", by |-> "put", w |-> Len(ops) + 1, new |-> 0]
    /\ UNCHANGED <<walFiles, sstVars, mode, mem, active, imms, nextSeq, stale,
                   fl, wk, signals, calls, kv, gone, snap, promises, stops>>

\* The fsync of put / delete fails: the call returns Err with the frame in the
\* log and the MemTable untouched.
WriteSyncFails(k, del) ==
    /\ SyncPerWrite /\ "wal_sync" \in Faults
    /\ mode = "up" /\ wr.pc = "free" /\ Len(ops) < MaxWrites
    /\ ops' = Append(ops, [key |-> k, del |-> del])
    /\ wlog' = Logged(active, Len(ops) + 1)
    /\ UNCHANGED <<walFiles, wos, wsync, sstVars, mode, mem, active, imms,
                   nextSeq, stale, wr, fl, wk, signals, calls, kv, gone, snap,
                   promises, stops>>

\* put / delete returns Ok.
Acknowledge(w) ==
    /\ acked' = [acked EXCEPT ![ops[w].key] = w]
    /\ durable' = IF SyncPerWrite THEN [durable EXCEPT ![ops[w].key] = w]
                                  ELSE durable

\* apply_and_maybe_freeze: the write enters the active MemTable.  Whether its
\* size now reaches the threshold depends on the sizes of the values.
Apply(freeze) ==
    /\ wr.pc = "apply"
    /\ freeze => AutoFreeze
    /\ mem' = [mem EXCEPT ![active][ops[wr.w].key] = wr.w]
    /\ kv' = [kv EXCEPT ![ops[wr.w].key] = wr.w]
    /\ IF freeze
       THEN wr' = [wr EXCEPT !.pc = "rotate"] /\ UNCHANGED <<acked, durable>>
       ELSE wr' = WrFree /\ Acknowledge(wr.w)
    /\ UNCHANGED <<walVars, sstVars, mode, active, imms, nextSeq, stale, fl, wk,
                   signals, calls, ops, gone, snap, closed, stops>>

\* flush(), first half: fsync the active WAL; freeze_active does nothing when
\* the active MemTable is empty.  (When the fsync fails, flush() returns Err
\* and has changed nothing that a crash may not also do.)
FlushSync(c) ==
    /\ mode = "up" /\ wr.pc = "free" /\ calls[c] = "idle"
    /\ wos' = Drained(active)
    /\ wsync' = Synced(active)
    /\ snap' = [snap EXCEPT ![c] = kv]
    /\ IF mem[active] = EmptyTable
       THEN calls' = [calls EXCEPT ![c] = "drain"] /\ UNCHANGED wr
       ELSE /\ calls' = [calls EXCEPT ![c] = "sync"]
            /\ wr' = [pc |-> "rotate", by |-> c, w |-> 0, new |-> 0]
    /\ UNCHANGED <<walFiles, wlog, sstVars, mode, mem, active, imms, nextSeq,
                   stale, fl, wk, signals, ops, kv, gone, promises, stops>>

\* freeze_active, first half: the next WAL generation is created.
Rotate ==
    /\ wr.pc = "rotate" /\ CanAllocate
    /\ nextSeq' = nextSeq + 1
    /\ walFiles' = walFiles \cup {nextSeq}
    /\ wr' = [wr EXCEPT !.pc = "swap", !.new = nextSeq]
    /\ UNCHANGED <<wlog, wos, wsync, sstVars, mode, mem, active, imms, stale,
                   fl, wk, signals, calls, ghosts>>

\* The creation fails: put / delete / flush returns Err, the number is used up.
RotateFails ==
    /\ wr.pc = "rotate" /\ CanAllocate /\ "wal_create" \in Faults
    /\ nextSeq' = nextSeq + 1
    /\ wr' = WrFree
    /\ calls' = [c \in Clients |-> IF wr.by = c THEN "idle" ELSE calls[c]]
    /\ UNCHANGED <<walVars, sstVars, mode, mem, active, imms, stale, fl, wk,
                   signals, ghosts>>

\* Seeded defect: the worker is not told.
NotSignalled == signals

\* One message to the worker.
Signalled == signals + 1

\* freeze_active, second half: the MemTable and its WAL are swapped for fresh
\* ones.  Replacing the writer drops its buffer into the operating system.
\* A put signals the worker; a flush() goes on to wait for flush_lock.
Swap ==
    /\ wr.pc = "swap"
    /\ imms' = imms \cup {active}
    /\ active' = wr.new
    /\ wos' = Drained(active)
    /\ wr' = WrFree
    /\ IF wr.by = "put"
       THEN signals' = Signalled /\ Acknowledge(wr.w) /\ UNCHANGED calls
       ELSE /\ calls' = [calls EXCEPT ![wr.by] = "drain"]
            /\ UNCHANGED <<signals, acked, durable>>
    /\ UNCHANGED <<walFiles, wlog, wsync, sstVars, mode, mem, nextSeq, stale,
                   fl, wk, ops, kv, gone, snap, closed, stops>>

-----------------------------------------------------------------------------
(* Flush pipeline: the holder of flush_lock draining immutables.           *)

\* The holder leaves flush_lock and its call returns; the worker goes on to
\* wkNext.
Release(wkNext) ==
    /\ fl' = FlFree
    /\ calls' = [c \in Clients |-> IF fl.by = c THEN "idle" ELSE calls[c]]
    /\ wk' = IF fl.by = "worker" THEN wkNext ELSE wk

\* The worker receives one message.
WorkerRecv ==
    /\ mode = "up" /\ wk = "recv" /\ signals > 0
    /\ signals' = signals - 1
    /\ wk' = "flush"
    /\ UNCHANGED <<dirVars, mode, mem, active, imms, levels, nextSeq, stale, wr,
                   fl, calls, ghosts>>

\* flush_all_pending takes flush_lock.
FlushBegin(p) ==
    /\ mode = "up" /\ fl.pc = "free"
    /\ IF p = "worker" THEN wk = "flush" ELSE calls[p] = "drain"
    /\ fl' = [FlFree EXCEPT !.pc = "drain", !.by = p]
    /\ UNCHANGED <<dirVars, mode, mem, active, imms, levels, nextSeq, stale, wr,
                   wk, signals, calls, ghosts>>

\* Seeded defect: immutables are drained newest first.
LastFrozen == Max(imms)

\* The immutable that the drain loop takes next: immutables.first().
FirstFrozen == Min(imms)

\* flush_pending, up to the rename: that immutable becomes an L0 file.
FlushBuild ==
    /\ fl.pc = "drain" /\ imms # {} /\ CanAllocate
    /\ nextSeq' = nextSeq + 1
    /\ files' = [files EXCEPT ![0] = @ \cup {nextSeq}]
    /\ sst' = [sst EXCEPT ![0][nextSeq] = mem[FirstFrozen]]
    /\ fl' = [fl EXCEPT !.pc = "commit", !.gen = FirstFrozen, !.seq = nextSeq]
    /\ UNCHANGED <<walVars, manifest, mode, mem, active, imms, levels, stale, wr,
                   wk, signals, calls, ghosts>>

\* Writing the table fails: flush_all_pending returns Err, forgetting which
\* generations it had already committed.
FlushBuildFails ==
    /\ fl.pc = "drain" /\ imms # {} /\ CanAllocate /\ "sst_write" \in Faults
    /\ nextSeq' = nextSeq + 1
    /\ Release("recv")
    /\ UNCHANGED <<dirVars, mode, mem, active, imms, levels, stale, wr, signals,
                   ghosts>>

\* Seeded defect: the immutable is not removed.
AllFrozen == imms

\* The immutables that remain after the commit: retain(wal_seq != ...).
StillFrozen == imms \ {fl.gen}

\* Seeded defect: the flushed generation is not remembered.
FlushedBefore == fl.todo

\* flushed_wal_seqs with the committed generation pushed.
Flushed == fl.todo \cup {fl.gen}

\* flush_pending, commit: the handle joins level 0 and the immutable leaves the
\* state in one step.
FlushCommit ==
    /\ fl.pc = "commit"
    /\ levels' = [levels EXCEPT ![0] = @ \cup {fl.seq}]
    /\ imms' = StillFrozen
    /\ mem' = [mem EXCEPT ![fl.gen] = EmptyTable]
    /\ fl' = [fl EXCEPT !.pc = "drain", !.todo = Flushed,
                        !.gen = 0, !.seq = 0]
    /\ UNCHANGED <<dirVars, mode, active, nextSeq, stale, wr, wk, signals, calls,
                   ghosts>>

\* Nothing was committed: the MANIFEST is taken to be current.
FlushNothing ==
    /\ fl.pc = "drain" /\ imms = {} /\ fl.todo = {}
    /\ fl' = [fl EXCEPT !.pc = "ok"]
    /\ UNCHANGED <<dirVars, mode, mem, active, imms, levels, nextSeq, stale, wr,
                   wk, signals, calls, ghosts>>

\* Seeded defect: the MANIFEST keeps its old contents.
OldManifest == manifest

\* What write_manifest writes: the tables of the live levels.
LiveManifest == levels

\* write_manifest after a flush: the MANIFEST lists the live levels.
FlushManifest ==
    /\ fl.pc = "drain" /\ imms = {} /\ fl.todo # {}
    /\ manifest' = LiveManifest
    /\ fl' = [fl EXCEPT !.pc = "unlink"]
    /\ UNCHANGED <<walVars, files, sst, mode, mem, active, imms, levels, nextSeq,
                   stale, wr, wk, signals, calls, ghosts>>

FlushManifestFails ==
    /\ fl.pc = "drain" /\ imms = {} /\ fl.todo # {}
    /\ "manifest_write" \in Faults
    /\ Release("recv")
    /\ UNCHANGED <<dirVars, mode, mem, active, imms, levels, nextSeq, stale, wr,
                   signals, ghosts>>

\* remove_file on generation g: the file and its contents are gone.
UnlinkWal(g) ==
    /\ walFiles' = walFiles \ {g}
    /\ wlog' = [wlog EXCEPT ![g] = << >>]
    /\ wos' = [wos EXCEPT ![g] = 0]
    /\ wsync' = [wsync EXCEPT ![g] = 0]

\* Seeded defect: generations are deleted newest first.
NewestGen(S) == Max(S)

\* Generations are deleted in freeze order.
OldestGen(S) == Min(S)

\* The WAL of each flushed generation is deleted, errors ignored.
FlushUnlink ==
    /\ fl.pc = "unlink"
    /\ \/ UnlinkWal(OldestGen(fl.todo))
       \/ "wal_unlink" \in Faults /\ UNCHANGED walVars
    /\ fl' = [fl EXCEPT !.todo = @ \ {OldestGen(fl.todo)},
                        !.pc = IF fl.todo = {OldestGen(fl.todo)} THEN "ok" ELSE "unlink"]
    /\ UNCHANGED <<sstVars, mode, mem, active, imms, nextSeq, stale, wr, wk,
                   signals, calls, ghosts>>

\* flush_all_pending returns Ok.  For a flush() caller this is the durability
\* point of everything applied before its fsync.
FlushReturn ==
    /\ fl.pc = "ok"
    /\ Release("check")
    /\ durable' = IF fl.by \in Clients THEN NewerOf(durable, snap[fl.by])
                                       ELSE durable
    /\ snap' = [c \in Clients |-> IF c = fl.by THEN EmptyTable ELSE snap[c]]
    /\ UNCHANGED <<dirVars, mode, mem, active, imms, levels, nextSeq, stale, wr,
                   signals, ops, kv, gone, acked, closed, stops>>

-----------------------------------------------------------------------------
(* Compaction: the holder of flush_lock merging L0 and L1.                 *)

\* compact_needed, after a successful flush.
CompactNeeded ==
    /\ L0Threshold > 0
    /\ Cardinality(levels[0]) >= L0Threshold

WorkerCheck ==
    /\ wk = "check"
    /\ wk' = IF CompactNeeded THEN "compact" ELSE "recv"
    /\ UNCHANGED <<dirVars, mode, mem, active, imms, levels, nextSeq, stale, wr,
                   fl, signals, calls, ghosts>>

CompactCaller(p) ==
    /\ mode = "up" /\ fl.pc = "free"
    /\ IF p = "worker" THEN wk = "compact" ELSE calls[p] = "idle"

\* compact_all_pending when level 0 is empty.
CompactNothing ==
    /\ CompactCaller("worker") /\ levels[0] = {}
    /\ wk' = "recv"
    /\ UNCHANGED <<dirVars, mode, mem, active, imms, levels, nextSeq, stale, wr,
                   fl, signals, calls, ghosts>>

\* Reading every input, merging and writing the output as an L1 file.  Only
\* the holder of flush_lock changes the levels, so nothing that another thread
\* does in between matters.  No file is written when nothing survives.
CompactBuild(p) ==
    /\ CompactCaller(p) /\ levels[0] # {}
    /\ IF Merged(levels) = EmptyTable
       THEN /\ fl' = [FlFree EXCEPT !.pc = "merged", !.by = p]
            /\ UNCHANGED <<nextSeq, files, sst>>
       ELSE /\ CanAllocate
            /\ nextSeq' = nextSeq + 1
            /\ files' = [files EXCEPT ![1] = @ \cup {nextSeq}]
            /\ sst' = [sst EXCEPT ![1][nextSeq] = Merged(levels)]
            /\ fl' = [FlFree EXCEPT !.pc = "merged", !.by = p, !.seq = nextSeq]
    /\ calls' = IF p = "worker" THEN calls ELSE [calls EXCEPT ![p] = "compact"]
    /\ UNCHANGED <<walVars, manifest, mode, mem, active, imms, levels, stale, wr,
                   wk, signals, ghosts>>

CompactBuildFails(p) ==
    /\ CompactCaller(p) /\ levels[0] # {} /\ CanAllocate /\ "sst_write" \in Faults
    /\ Merged(levels) # EmptyTable
    /\ nextSeq' = nextSeq + 1
    /\ wk' = IF p = "worker" THEN "recv" ELSE wk
    /\ UNCHANGED <<dirVars, mode, mem, active, imms, levels, stale, wr, fl,
                   signals, calls, ghosts>>

\* The tombstones that decide a key of the merged tables are consumed.
Dropped(T) == [k \in Keys |-> IF IsDelete(Winner(T, k)) THEN Winner(T, k) ELSE 0]

\* Seeded defect: level 0 is not cleared.
Level0Kept == [l \in Levels |-> IF l = 1 /\ fl.seq # 0 THEN {fl.seq} ELSE levels[l]]

\* The levels after the commit: level 0 is cleared and level 1 is the output, or
\* empty when nothing survived the merge.
Compacted == [l \in Levels |-> IF l = 1 /\ fl.seq # 0 THEN {fl.seq} ELSE {}]

\* Commit of the compaction.
CompactCommit ==
    /\ fl.pc = "merged"
    /\ levels' = Compacted
    /\ fl' = [fl EXCEPT !.pc = "record", !.inputs = levels, !.seq = 0]
    /\ gone' = NewerOf(gone, Dropped(levels))
    /\ UNCHANGED <<dirVars, mode, mem, active, imms, nextSeq, stale, wr, wk,
                   signals, calls, ops, kv, snap, promises, stops>>

\* Seeded defect: the inputs are deleted without rewriting the MANIFEST.
CompactManifestSkipped ==
    /\ fl.pc = "record"
    /\ fl' = [fl EXCEPT !.pc = "sweep"]
    /\ UNCHANGED <<dirVars, mode, mem, active, imms, levels, nextSeq, stale, wr,
                   wk, signals, calls, ghosts>>

\* write_manifest after a compaction.
CompactManifest ==
    /\ fl.pc = "record"
    /\ manifest' = LiveManifest
    /\ fl' = [fl EXCEPT !.pc = "sweep"]
    /\ UNCHANGED <<walVars, files, sst, mode, mem, active, imms, levels, nextSeq,
                   stale, wr, wk, signals, calls, ghosts>>

CompactManifestFails ==
    /\ fl.pc = "record" /\ "manifest_write" \in Faults
    /\ Release("recv")
    /\ UNCHANGED <<dirVars, mode, mem, active, imms, levels, nextSeq, stale, wr,
                   signals, ghosts>>

\* Delete one input, level 0 first and ascending, errors ignored.
CompactUnlink(l) ==
    /\ fl.pc = "sweep" /\ fl.inputs[l] # {}
    /\ l = 1 => fl.inputs[0] = {}
    /\ \/ /\ files' = [files EXCEPT ![l] = @ \ {Min(fl.inputs[l])}]
          /\ sst' = [sst EXCEPT ![l][Min(fl.inputs[l])] = EmptyTable]
       \/ "sst_unlink" \in Faults /\ UNCHANGED <<files, sst>>
    /\ fl' = [fl EXCEPT !.inputs[l] = @ \ {Min(fl.inputs[l])}]
    /\ UNCHANGED <<walVars, manifest, mode, mem, active, imms, levels, nextSeq,
                   stale, wr, wk, signals, calls, ghosts>>

CompactReturn ==
    /\ fl.pc = "sweep" /\ fl.inputs = NoTables
    /\ Release("recv")
    /\ UNCHANGED <<dirVars, mode, mem, active, imms, levels, nextSeq, stale, wr,
                   signals, ghosts>>

-----------------------------------------------------------------------------
(* Clean drop, crashes.                                                    *)

\* The memory of the process is lost.
ProcessGone ==
    /\ mode' = "down"
    /\ mem' = [g \in Seqs |-> EmptyTable]
    /\ active' = 0
    /\ imms' = {}
    /\ levels' = NoTables
    /\ nextSeq' = 1
    /\ stale' = {}
    /\ wr' = WrFree
    /\ fl' = FlFree
    /\ wk' = "recv"
    /\ signals' = 0
    /\ calls' = [c \in Clients |-> "idle"]
    /\ snap' = [c \in Clients |-> EmptyTable]

\* Drop of the last handle.  A worker in mid-flush keeps the engine alive, so
\* the drop runs when the worker is back in recv; messages still queued are
\* never acted upon.  Only the active WAL is fsynced, and an error is ignored.
Close ==
    /\ stops < MaxStops
    /\ mode = "up" /\ wr.pc = "free" /\ fl.pc = "free" /\ wk = "recv"
    /\ \A c \in Clients : calls[c] = "idle"
    /\ wos' = Drained(active)
    /\ \/ wsync' = Synced(active)
       \/ "wal_sync" \in Faults /\ UNCHANGED wsync
    /\ closed' = kv
    /\ ProcessGone
    /\ stops' = stops + 1
    /\ UNCHANGED <<walFiles, wlog, files, sst, manifest, ops, kv, gone, durable,
                   acked>>

\* What a crash cannot take: a dying process loses the writer's buffer, a
\* power failure everything that was not fsynced.
Safe(kind, g) == IF kind = "kill" THEN wos[g] ELSE wsync[g]

\* Every generation keeps a prefix of what was appended to it (a log holds a
\* write at most once, so its length is an Id).
Crash(kind) ==
    /\ stops < MaxStops
    /\ kind = "kill" => mode # "down"
    /\ \E cut \in [walFiles -> Ids] :
         /\ \A g \in walFiles : Safe(kind, g) <= cut[g] /\ cut[g] <= Len(wlog[g])
         /\ wlog' = [g \in Seqs |->
                       IF g \in walFiles THEN SubSeq(wlog[g], 1, cut[g]) ELSE << >>]
         /\ wos' = [g \in Seqs |-> IF g \in walFiles THEN cut[g] ELSE 0]
         /\ wsync' = IF kind = "kill" THEN wsync
                     ELSE [g \in Seqs |-> IF g \in walFiles THEN cut[g] ELSE 0]
    /\ stops' = stops + 1
    /\ ProcessGone
    /\ UNCHANGED <<walFiles, files, sst, manifest, ops, kv, gone, promises>>

-----------------------------------------------------------------------------
(* open_with_options.                                                      *)

ManifestOnDisk == \A l \in Levels : manifest[l] \subseteq files[l]

\* Seeded defect: the numbers of the MANIFEST's tables are forgotten.
WalSeqs == walFiles

\* Seeded defect: the numbers of the WALs are forgotten.
TableSeqs == manifest[0] \cup manifest[1]

\* Numbers that open looks at: the MANIFEST's tables and the WALs, not the
\* SST files that no MANIFEST lists.
KnownSeqs == manifest[0] \cup manifest[1] \cup walFiles

\* Seeded defect: off by one.
HighestSeq == IF KnownSeqs = {} THEN 0 ELSE Max(KnownSeqs)

\* The number of the new generation: max_seq + 1.
RecoveredSeq == IF KnownSeqs = {} THEN 1 ELSE Max(KnownSeqs) + 1

\* The entries of table t in key order, as open re-appends them.
InKeyOrder(t) ==
    LET S == {t[k] : k \in Keys} \ {0}
    IN {s \in [1 .. Cardinality(S) -> S] :
          /\ \A w \in S : \E i \in DOMAIN s : s[i] = w
          /\ \A i, j \in DOMAIN s : i < j => ops[s[i]].key < ops[s[j]].key}

\* Load the MANIFEST, replay the WALs, create the new generation and re-append
\* the recovered table to it (not yet fsynced).
Recover ==
    /\ mode = "down" /\ ManifestOnDisk /\ RecoveredSeq <= MaxSeq
    /\ active' = RecoveredSeq
    /\ nextSeq' = RecoveredSeq + 1
    /\ mem' = [mem EXCEPT ![RecoveredSeq] = [k \in Keys |-> Replayed(k)]]
    /\ \E log \in InKeyOrder([k \in Keys |-> Replayed(k)]) :
         wlog' = [wlog EXCEPT ![RecoveredSeq] = log]
    /\ walFiles' = walFiles \cup {RecoveredSeq}
    /\ stale' = walFiles
    /\ levels' = manifest
    /\ kv' = [k \in Keys |-> Recovered(k)]
    /\ mode' = "reback"
    /\ UNCHANGED <<wos, wsync, files, sst, manifest, imms, wr, fl, wk, signals,
                   calls, ops, gone, snap, promises, stops>>

\* Fsync the new generation, before any old one is deleted.
Reback ==
    /\ mode = "reback"
    /\ wos' = Drained(active)
    /\ wsync' = Synced(active)
    /\ mode' = IF stale = {} THEN "up" ELSE "clean"
    /\ UNCHANGED <<walFiles, wlog, sstVars, mem, active, imms, nextSeq, stale, wr,
                   fl, wk, signals, calls, ghosts>>

\* The re-append or its fsync fails: open returns Err, leaving the new file.
RebackFails ==
    /\ mode = "reback" /\ "wal_sync" \in Faults
    /\ wlog[active] # << >>
    /\ wos' = Drained(active)
    /\ ProcessGone
    /\ UNCHANGED <<walFiles, wlog, wsync, files, sst, manifest, ops, kv, gone,
                   promises, stops>>

\* Delete the old generations, oldest first, errors ignored; then the engine
\* is up.
CleanOld ==
    /\ mode = "clean"
    /\ \/ UnlinkWal(OldestGen(stale))
       \/ "wal_unlink" \in Faults /\ UNCHANGED walVars
    /\ stale' = stale \ {OldestGen(stale)}
    /\ mode' = IF stale' = {} THEN "up" ELSE "clean"
    /\ UNCHANGED <<sstVars, mem, active, imms, nextSeq, wr, fl, wk, signals, calls,
                   ghosts>>

-----------------------------------------------------------------------------
Init ==
    /\ walFiles = {}
    /\ wlog = [g \in Seqs |-> << >>]
    /\ wos = [g \in Seqs |-> 0] /\ wsync = [g \in Seqs |-> 0]
    /\ files = NoTables
    /\ sst = [l \in Levels |-> [s \in Seqs |-> EmptyTable]]
    /\ manifest = NoTables
    /\ mode = "down"
    /\ mem = [g \in Seqs |-> EmptyTable]
    /\ active = 0 /\ imms = {} /\ levels = NoTables /\ nextSeq = 1 /\ stale = {}
    /\ wr = WrFree /\ fl = FlFree /\ wk = "recv" /\ signals = 0
    /\ calls = [c \in Clients |-> "idle"]
    /\ ops = << >>
    /\ kv = EmptyTable /\ gone = EmptyTable
    /\ snap = [c \in Clients |-> EmptyTable]
    /\ durable = EmptyTable /\ acked = EmptyTable /\ closed = EmptyTable
    /\ stops = 0

WritePath ==
    \/ \E k \in Keys, del \in BOOLEAN : Write(k, del) \/ WriteSyncFails(k, del)
    \/ \E freeze \in BOOLEAN : Apply(freeze)
    \/ \E c \in Clients : FlushSync(c)
    \/ Rotate \/ RotateFails \/ Swap

FlushPipeline ==
    \/ \E p \in Clients \cup {"worker"} : FlushBegin(p)
    \/ FlushBuild \/ FlushBuildFails \/ FlushCommit
    \/ FlushNothing \/ FlushManifest \/ FlushManifestFails
    \/ FlushUnlink \/ FlushReturn

Compaction ==
    \/ \E p \in Clients \cup {"worker"} : CompactBuild(p) \/ CompactBuildFails(p)
    \/ CompactNothing \/ CompactCommit
    \/ CompactManifest \/ CompactManifestFails
    \/ \E l \in Levels : CompactUnlink(l)
    \/ CompactReturn

Worker == WorkerRecv \/ WorkerCheck

Lifecycle ==
    \/ Close
    \/ \E kind \in CrashKinds : Crash(kind)
    \/ Recover \/ Reback \/ RebackFails \/ CleanOld

Next == WritePath \/ FlushPipeline \/ Compaction \/ Worker \/ Lifecycle

Spec == Init /\ [][Next]_vars

\* The operating system runs the holder of a mutex and lets a blocked thread have
\* a mutex that stays free; the runtime runs the worker while messages remain.
\* Clients are free to make no further call.
Fairness ==
    /\ WF_vars((\E freeze \in BOOLEAN : Apply(freeze)) \/ Rotate \/ Swap)
    /\ WF_vars(FlushBuild \/ FlushCommit \/ FlushNothing \/ FlushManifest
               \/ FlushUnlink \/ FlushReturn)
    /\ WF_vars(CompactCommit \/ CompactManifest \/ CompactReturn
               \/ \E l \in Levels : CompactUnlink(l))
    /\ WF_vars(Worker)
    /\ \A p \in Clients \cup {"worker"} : WF_vars(FlushBegin(p))
    /\ WF_vars(CompactBuild("worker") \/ CompactNothing)

FairSpec == Spec /\ Fairness

-----------------------------------------------------------------------------
(* Properties.                                                             *)

Up == mode = "up"

\* While the engine is up, get returns the newest applied write of the key:
\* no step of a freeze, flush or compaction makes a key vanish or shows an
\* older value, whatever I/O fails (get, engine.rs).
LiveView == Up => \A k \in Keys : Value(Lookup(k)) = Value(kv[k])

\* r is an acceptable answer for a key whose write d was promised: d itself,
\* a newer write, or nothing once a tombstone at least as new was compacted away.
Fresh(k, r, d) == r >= d \/ (r = 0 /\ gone[k] >= d)

\* Whatever flush() (or a synced put) has promised survives every crash: an
\* engine opened on the directory at any moment answers with the promised
\* write or a newer one (flush, flush_all_pending, open_with_options).
PromisesKept == \A k \in Keys : Fresh(k, Recovered(k), durable[k])

\* Every acknowledged write survives.
AcknowledgedKept == \A k \in Keys : Fresh(k, Recovered(k), acked[k])

\* Every write applied before a clean drop survives.
DropKept == \A k \in Keys : Fresh(k, Recovered(k), closed[k])

\* A dying process loses only a suffix of the writes: if the newest write of a
\* key is lost, so is every later write of any key (WAL order, freeze_active).
LossIsASuffix ==
    mode = "down" =>
      \A j, k \in Keys :
        ~ Fresh(k, Recovered(k), kv[k]) => Recovered(j) < kv[k]

\* The MANIFEST never lists a table whose file does not exist, so open never
\* fails on "manifest references missing sstable".
ManifestFilesExist == ManifestOnDisk

\* merge_runs ranks tables by number, get by level first: the two agree only
\* because the level-1 table is older than every level-0 table, in the live
\* levels and in the MANIFEST, and numbers are not shared between levels.
LevelOrder ==
    /\ \A s \in levels[0], t \in levels[1] : t < s
    /\ \A s \in manifest[0], t \in manifest[1] : t < s

\* When flush() returns Ok, the MANIFEST lists the live levels.
ManifestCurrent == fl.pc = "ok" => manifest = levels

\* A WAL generation on disk is the log of a MemTable that is still in memory,
\* or is about to be deleted: nothing else will ever delete it.
NoStrayWal ==
    mode = "up" =>
      walFiles \subseteq imms \cup {active} \cup fl.todo
                         \cup (IF wr.pc = "swap" THEN {wr.new} ELSE {})

\* A table that the MANIFEST or the live levels refer to is never rewritten or
\* removed (file numbers are never reused for a referenced table).
ReferencedTablesImmutable ==
    [][\A l \in Levels : \A s \in manifest'[l] \cup levels'[l] :
          s \in manifest[l] \cup levels[l]
            => s \in files'[l] /\ sst'[l][s] = sst[l][s]]_vars

\* Every frozen MemTable is eventually written to level 0: a freeze by a put
\* signals the worker, a freeze by flush() is followed by its own drain.
FrozenIsFlushed == \A g \in Seqs : (g \in imms) ~> (g \notin imms)

\* Every flush() that has fsynced the WAL eventually returns: neither the WAL
\* mutex nor flush_lock is held for ever, and the drain loop ends once writes do.
FlushReturns == \A c \in Clients : (calls[c] \in {"sync", "drain"}) ~> (calls[c] = "idle")

\* Once level 0 holds compaction_l0_file_threshold tables, auto-compaction
\* eventually brings it below the threshold.
BacklogIsCompacted ==
    (Up /\ CompactNeeded) ~> ~ (Up /\ CompactNeeded)
=============================================================================
