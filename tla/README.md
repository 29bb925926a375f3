# TLA+ verification of rust-lsm-db

This directory models the LSM key-value engine of the repository, checks the
model with TLC on small instances and proves facts about it, for every value of
its constants, with TLAPS. Paths below are relative to the repository root
(`src/engine.rs` is the engine); `PROJECT.json` maps every definition to the
lines it stands for and lists runs, mutants, findings, hazards and theorems.

## The system

| Component | State | Operations | Where |
|---|---|---|---|
| Write path | active MemTable, active WAL writer (under the WAL mutex) | `put`, `delete`, `apply_and_maybe_freeze` | `src/engine.rs` |
| Freeze | MemTable list, WAL generation, `next_seq` | `freeze_active` | `src/engine.rs` |
| Flush pipeline | immutables, level 0, MANIFEST, WAL files (under `flush_lock`) | `flush`, `flush_all_pending`, `flush_pending` | `src/engine.rs` |
| Compaction | levels 0 and 1, MANIFEST, table files (under `flush_lock`) | `compact`, `compact_all_pending`, `merge_runs` | `src/engine.rs`, `src/compaction/leveled.rs` |
| Worker | the channel | `flush_worker`, `compact_needed` | `src/engine.rs` |
| Open / recovery | the directory | `open_with_options`, `WalReader::replay_into`, `manifest::load` | `src/engine.rs`, `src/wal`, `src/manifest.rs` |
| Clean drop | active WAL | `Drop for LsmEngineInner` | `src/engine.rs` |
| Read path | a snapshot of the state, lazily opened readers | `get`, `SstHandle::open_reader` | `src/engine.rs` |
| MemTable | skip list with tombstones, size estimate | `put`, `delete`, `get_entry`, `iter` | `src/memtable` |
| WAL | buffered writer, framed entries with CRC | `append`, `sync`, `scan`, `replay_into` | `src/wal` |
| MANIFEST | the list of tables by level | `encode`, `decode`, `write_atomic`, `load` | `src/manifest.rs` |
| SSTable | blocks, sparse index, bloom filter, footer | `add`, `build`, `open`, `get`, `records` | `src/sstable` |

How they interact. A `put` appends to the WAL, inserts into the active MemTable
and, once that is large enough, rotates the WAL and moves the MemTable to the
immutables, telling the worker through a channel. `flush()` does the same by
hand and then drains the immutables itself. Draining writes each immutable as a
level-0 table, commits it in memory, rewrites the MANIFEST and only then deletes
the WAL generations. Compaction merges every table of levels 0 and 1 into one
level-1 table. WAL generations and tables draw their numbers from one counter.
`open` loads the MANIFEST, replays every WAL generation it finds, oldest first,
into one MemTable, re-appends that to a new generation and deletes the old ones.

What is hard: three threads of control (holder of the WAL mutex, holder of
`flush_lock`, worker) interleave; a crash can come between any two of their
steps, also inside `open`; a killed process loses the WAL writer's buffer, a
power failure all that was not fsynced, and possibly renames and deletions of a
directory nobody fsyncs; deletions are best effort; errors leave pipelines half
done; the merge and the read path order tables differently; readers hold no lock
while the files they are to read are deleted; files can be torn or damaged; an
engine can outlive its last handle, held by its worker.

What makes the parts correct:

- readers always see the newest applied write (`LiveView`); a `get` of several
  steps answers with a value of its own interval (`ReadIsCurrent`), and deleting
  merged tables does not make it fail (`CompactionSparesReaders`);
- seen from outside the engine is a map with writes that take effect one by one,
  of which a stop loses only unpromised ones (`RefinesKVStore`);
- what `flush()`, `sync_per_write` and a clean drop promise survives a crash
  (`PromisesKept`, `AcknowledgedKept`, `DropKept`), and a kill loses only the
  last writes (`LossIsASuffix`);
- the MANIFEST, the table files and the levels stay consistent
  (`ManifestFilesExist`, `ManifestCurrent`, `LevelOrder`,
  `ReferencedTablesImmutable`, `NoStrayWal`);
- frozen MemTables are flushed, `flush()` returns (`FrozenIsFlushed`,
  `FlushReturns`);
- the merge returns the newest records (`MergeIsNewest`);
- what the files say is what was written to them; a torn file is rejected or says
  less; damage is caught by the WAL's checksum, while tables have none and only keep it
  from reaching past the file or into the answers of another block: the WAL
  (`SyncedIsReplayed`, `TearIsTolerated`, `ReplayIsAPast`), a table (`LookupIsExact`,
  `ScanIsExact`, `BlocksTileData`, `TornIsRejected`, `DamageIsContained`), the MANIFEST
  (`LoadIsACommit`, `RoundTrip`, `CutIsAPrefix`);
- the size that triggers a freeze covers the entries (`SizeCoversEntries`);
- synced writes and `open` survive the loss of directory changes
  (`AcknowledgedKept`, `OpenSurvivesUndo`), and an engine survives the one dropped
  before it (`ReopenedTablesImmutable`, `ReopenedHasDropped`, `ReopenedLogsExist`);
- the engine's own unit tests pass under every schedule (`AssertionsHold`,
  `TestsEnd`).

## Modules

The engine:

- **LsmTables** – the data. Each `put` or `delete` ever issued has a number; the
  number stands for the entry it leaves. A MemTable and an SSTable are functions
  from keys to numbers (0: no entry). `NewestHit` is the newest-first scan of
  `get`.
- **LsmEngine** – the engine. The directory (`walFiles`, `wlog`, `files`, `sst`,
  `manifest`) survives a crash; of a WAL, `wos` writes have left the process and
  `wsync` are on disk. The process (`mem`, `active`, `imms`, `levels`, `nextSeq`)
  does not. `wr` is the critical section of the WAL mutex (`Write`, `Apply`,
  `FlushSync`, `Rotate`, `Swap`), `fl` that of `flush_lock` (`Flush…`,
  `Compact…`), `wk` the position of the worker, `calls` that of the client
  threads. `Close`, `Crash`, `Recover`, `Reback`, `CleanOld` are drop, crash and
  the three phases of `open`. An action covers the code from one point at which
  another thread, a reader or a crash can observe the state to the next; a
  critical section of `state_lock` / the state `RwLock` is one action.
  `ops`, `kv`, `gone`, `snap`, `durable`, `acked`, `closed`, `stops` are history.
- **LsmEngineInv**, **LsmDurabilityInv** – the inductive invariants `Inv`, of the live
  engine, and `DurableInv`, of what it leaves on disk.
- **MergeRuns** – the cursor loop of `merge_runs`, one iteration per step,
  against the definition of the newest record that `LsmEngine` uses.

The engine in its surroundings, each composed with every step of `LsmEngine`:

- **LsmReads** – `get` in steps. `GetBegin` copies the Arcs under the state lock
  (`rd[r].act`, `.imms`, `.tables`), `GetActive`, `GetImms` and `GetTable` look at
  one layer each with no lock. `arcs` are the MemTables still held by someone after
  their flush; `opened` and `failed` are the outcomes that the `OnceLock` of a
  handle keeps. Compaction opens its inputs through the same handles. `seen[r]`
  collects the values of the key during the call.
- **KVStore**, **LsmRefinesKV** – the abstract store: a map, the log of writes that
  gave it, the write under way, and the length of the log that is promised. The
  refinement mapping takes as the map what `get` answers or, while no engine is up,
  what an engine opened on the directory would answer; the log is the history
  `hist`, cut at a crash to the longest prefix the directory accounts for; a write
  is pending between `Write` and `Apply`. `promised` grows when a `flush()` returns
  (to `marks[c]`, the length when it synced) or a synced put does.
- **LsmReopen** – two engines on one directory. `Old` is a second instance of `LsmEngine`
  whose process variables are those of an engine that the client has dropped (`DropHandle`)
  while the worker held it; its worker, flush and compaction go on, each step of which may
  fail whatever `Faults` says, and its `Drop` comes last. `dropped` records whether a
  `flush()` came before, the condition that the comment at `src/engine.rs:127` puts on
  reopening, and `merged` whether the dropped engine compacts afterwards.
- **LsmDirCrash** – power failures that also undo changes of the directory: `past`
  holds the directories since the last fsync, `PowerFailure` goes back to any of
  them, with the contents that the files of that directory then have on disk.
- **EngineTests** – the unit tests of `src/engine.rs` as clients of `LsmEngine`.
  A test is a sequence of blocks of one or two thread scripts; each step of a script
  is a call, an assertion or a poll. Value sizes are again a choice, here made by
  the script: `PutFull` is a put that reaches the threshold of that test.

The files, byte for byte:

- **Bytes** – little-endian integers and bounds-checked reads (`src/utils`), the
  outcomes of reading.
- **WalLog** – one WAL: `Frame` and `Decode` with a checksum that tells the byte
  strings of a run apart, the `BufWriter` (`buf`, spilled at `BufCapacity`), the file
  with its synced length, errors in the middle of a write, `Stop` with what it may do
  to the file, `Scan` and the replay into a MemTable.
- **SsTable** – `SsTableBuilder` (`Add`, `Build`), the file (data blocks, sparse
  index, bloom filter, footer), and the reader's `open`, `get` and `records` as
  operators on the file, which is whole, torn or has a stretch of bytes overwritten.
  Offsets and sizes of the index stay eight bytes each, so that their sum can overflow.
- **ManifestFile** – `add`, `remove`, `encode`, `decode`, `load`, and `write_atomic`
  as its sequence of file system calls, each of which may fail or be the last.
- **MemTable** – writes of several threads without a lock: a charge to the counter
  and an insert into the skip list, in two steps.

`MC…` modules are what TLC runs; the `.cfg` files give options, faults and bounds.
`MCStorage` puts `MergeRuns`, `MemTable` and the three file modules side by side:
a behaviour picks one of them, with the constants given there, and leaves the others
unused, so that one run checks each by itself.
**LsmReadsInv**, **LsmDirCrashInv**, **LsmRefinesKVInv** and **LsmReopenInv** hold the
inductive invariants of those modules, the eight **…Proofs** modules the proofs (see Proofs
below).
Operators commented "Seeded defect" are used by no action: they are mutated forms of
the definition that follows, and show that a property can fail.

Abstractions. In the engine's modules keys are naturals, values write numbers, file
names numbers; list order is recovered from numbers because the code keeps its lists
ascending. Any write may or may not reach the flush threshold. A WAL is cut at frame
boundaries by a crash, which is what `WalLog` shows of a torn last frame. Renames and
unlinks are durable in order when they return, except in `LsmDirCrash`. `get` is one
atomic lookup, except in `LsmReads`. One engine uses the directory, except in
`LsmReopen`. I/O failures are enabled by name in `Faults`.

Assumed about the world outside `src/`:

- an open file stays readable when its name is deleted, as on Unix (`LsmReads`);
  `src/engine.rs:223-227` allows for "an I/O error" there, and `README.md:167` for "a
  transient I/O error" of a reader whose handle is not cached;
- an fsync of any file makes earlier changes of the directory durable, and of later
  ones a power failure keeps a prefix, as on journaling file systems (`LsmDirCrash`);
- damage at rest alters one byte of a WAL, and the checksum notices it (`WalLog`), or
  overwrites one stretch of a table (`SsTable`); a MANIFEST is only cut (`ManifestFile`);
- a bloom filter's hash functions are arbitrary fixed functions of the key (`SsTable`).

## Runs

| Run | Instance | Shows |
|---|---|---|
| `engine_kill` | 2 keys, 2 writes, 6 numbers, 2 stops, kills, failing table deletions | `RefinesKVStore`; types, `DropKept`, `LossIsASuffix`, `ManifestFilesExist`, `LevelOrder`, `ManifestCurrent`, `NoStrayWal`, `ReferencedTablesImmutable` |
| `engine_power` | same, power failures, failing table deletions and WAL creation | `PromisesKept` and the inductive invariant `DurableInv` |
| `engine_faults` | 1 key, 2 writes, 1 kill, fsyncs, WAL deletion, SSTable and MANIFEST writes fail | `LiveView` and the inductive invariant `Inv` |
| `engine_live` | 1 key, 2 writes, no stops, fairness | `FrozenIsFlushed`, `FlushReturns` |
| `reads` | 2 keys, 2 writes, a `get` beside a worker that compacts every table; opening a table may fail, for good | `ReadIsCurrent`, `CompactionSparesReaders` |
| `reopen` | 1 key, 2 writes, dropped and reopened at any moment, a worker that flushes and compacts and each of whose steps may fail after the drop, failing WAL creation | `ReopenedLogsExist`, `ReopenedHasDropped`, `ReopenedTablesImmutable` |
| `dir_undo` | 1 key, 2 writes, `sync_per_write`, 2 power failures that undo directory changes, failing fsyncs and table deletions | `AcknowledgedKept`, `OpenSurvivesUndo` |
| `unit_tests` | 31 unit tests | `AssertionsHold`, `TestsEnd` |
| `storage`, merge | up to 3 runs over 2 keys, numbers in every order | `MergePrefix`, `MergeIsNewest`, `MergeEnds` |
| … MemTable | 2 threads, 4 writes | `SizeCoversEntries` |
| … crashed WAL | 3 appends, also empty and refused ones, every cut | `SyncedIsReplayed`, `TearIsTolerated` |
| … damaged WAL | 2 appends, 1 failing call, cuts, zeros, altered bytes | `ReplayIsAPast` |
| … whole table | up to 4 adds over 5 keys (the empty one, one too long), 2 values, with and without bloom filter, every prefix | `LookupIsExact`, `ScanIsExact`, `BlocksTileData`, `TornIsRejected` |
| … damaged table | up to 3 adds, every byte set to 4 values, every 8 bytes set to 255 | `DamageIsContained` |
| … committed MANIFEST | 3 tables, 3 edits, every call fails or is followed by a power failure | `LoadIsACommit`, `RoundTrip` |
| … cut MANIFEST | same, every prefix | `CutIsAPrefix` |
| `engine_stale_wal` | failing WAL deletion | violates `PromisesKept` |
| `engine_drop_power` | power failure after a clean drop | violates `DropKept` |
| `wal_reused_writer` | a failing write, then more appends | violates `SyncedIsReplayed` |

The bounds. Two writes are enough for "an older write of the same key overtakes a
newer one" and for "a write of another key is kept although an earlier one is
lost"; two stops let the second crash hit recovery from the first; five to seven
numbers allow the first WAL, a freeze, one or two flushes, a compaction and, where
the engine stops, a recovery in one behaviour. The levels thereby occur as L0 only,
L0 over L1, L1 only, nothing left. Sizes in the file modules are scaled so that
boundaries fall inside the instance: a `BufWriter` of 13 bytes holds one frame, not
two, and blocks of 16 bytes hold one or two records, so that tables have one to four
blocks. `EngineTests` cuts a test's loops over many keys to a few and keeps how many
MemTables, tables and generations arise from them.
`CHECK_DEADLOCK FALSE`: the bounds on writes, numbers and stops end every behaviour,
and an idle engine may stay idle.

Fairness. `FairSpec`: the holder of a mutex is eventually run, a thread waiting
for a lock that stays free gets it, the worker runs while messages remain; clients
need not call anything. `FlushReturns` has one client: `std::sync::Mutex` gives no
order, so a thread that flushes for ever may starve another, and no weak fairness
of the code's scheduling excludes it. `TestSpec` assumes only that some thread that
can go on does: a test makes finitely many calls, so nobody can be overtaken for ever.
The loop of `merge_runs` runs on until it ends (`StorageSpec`).
In `EngineTests` a drop waits for the worker; the overlap is the subject of
`LsmReopen`.

### What the violations show

1. **A WAL that outlives its flush hides newer data** (`engine_stale_wal`). Write 1
   of a key is flushed, but its WAL stays: its deletion failed, after a flush
   (`src/engine.rs:198`) or in `open` (`:511`). Write 2 of the key is flushed, by the
   same drain or a later one, and its WAL deleted. The next `open` replays the old WAL
   into the MemTable, which is read before the tables: write 1 is back.
2. **Clean drop covers the active WAL only** (`engine_drop_power`).
3. **A WAL writer is used after an error** (`wal_reused_writer`), which its contract
   forbids (`src/wal/writer.rs:16`): the frames behind the torn one are read as its
   payload, so a later successful sync does not make them recoverable.

Where else a property stops holding when the constants are widened, which is why the
passing runs do not have them wider:

- `Faults` with `"sst_write"` violates `PromisesKept`: when the second table of a
  drain cannot be written, the drain ends early and forgets the generation of the
  first (`src/engine.rs:185`); that WAL then does what is described in 1.
- `Faults` with `"manifest_write"` violates `ManifestCurrent`: the tables are committed
  in memory, the retry finds no immutable and returns `Ok` at `src/engine.rs:188`. (The
  WALs are kept too, so a kill loses nothing; a later flush of another table repairs the
  MANIFEST and leaves stray WALs as in 1.)
- Default options with kills violate `AcknowledgedKept`: the writes are in a `BufWriter`.
- `FairSpec` does not imply `BacklogIsCompacted`: tables written by `flush()` alone
  never wake the worker, so level 0 can stay at the threshold.
- `DirSpec` with default options and auto-freeze violates `PromisesKept`: an auto-frozen
  WAL is never fsynced (`src/engine.rs:727`), and if a power failure undoes the rename
  of the MANIFEST after `flush()` returned, that WAL is all there is.
- `WalLog` with `Damage = {"zeros"}` violates `TearIsTolerated`: zeros are a complete
  frame that does not decode, so `open` fails where a shorter file would be accepted.
- `ReopenedTablesImmutable` and `ReopenedHasDropped` fail without `merged`, although a
  `flush()` returned before the drop: `src/engine.rs:127-129` recommends that "to avoid
  racing the old worker's writes", but a worker notified before the drop may still find
  enough tables to compact, replace the MANIFEST and delete tables that the new engine has
  loaded.
- `ReopenedTablesImmutable` without "flushed" fails: both engines count on from the same
  numbers. An engine dropped with the immutables 1, 2, 3 and the active WAL 4 flushes them
  as tables 5, 6 and 7, while the one opened beside it uses 5 for its WAL, 6 for the next
  and 7 for its first table, which the dropped one then replaces. (This takes three writes.)
- `ReopenedHasDropped` without "flushed" fails: while the worker holds the engine,
  `Drop` has not emptied the WAL buffer, so a quick drop and reopen can miss writes.
- `ReopenedHasDropped` with `SyncPerWrite` and a stop of the reopened engine fails: synced
  puts are all promised without any `flush()`, so the drop counts as one after a flush while
  the dropped engine still has MemTables to flush. It then replaces the MANIFEST of the
  reopened engine, whose WAL of the same writes may be flushed and deleted already.

## Proofs

Everything is proved for any keys, clients, readers and bounds and for every option
(`KeysAssumption`, `BoundsAssumption`, `OptionsAssumption`, `ClientsAssumption` are all
that is assumed of the constants), whatever the order of steps. Safety of the live engine
(types, `Inv`, reads, merge) and the WALs of two engines in one directory need nothing
else: they hold with every set of failing operations and every kind of crash. Durability
and the tables of two engines have hypotheses, given with the theorems.

| Module | Theorems |
|---|---|
| `LsmEngineProofs` | `TypeCorrect`, `InvCorrect`, `LiveViewHolds`, `LevelOrderHolds`, `ManifestFilesExistHolds`, `ReferencedTablesAreImmutable` |
| `LsmDurabilityProofs` | lemmas on logs and promises |
| `LsmPromisesProofs` | `DurableInvCorrect`, `PromisesAreKept`, `AcknowledgedAreKept`, `DropIsKept`, `NoWalIsStray`, `ManifestIsCurrent` |
| `LsmReadsProofs` | `ReadInvCorrect`, `ReadsAreCurrent`, `CompactionSparesAllReaders` |
| `LsmRefinesKVProofs` | `SuffixInvCorrect`, `LossIsASuffixHolds`, `RefInvCorrect`, `EngineRefinesKVStore` |
| `LsmReopenProofs` | `ReopenInvCorrect`, `ReopenedLogsExistHolds`, `FlushedInvCorrect`, `ReopenedTablesAreImmutable`, `ReopenedHasDroppedHolds` |
| `LsmDirCrashProofs` | `DirInvCorrect`, `OpenSurvivesEveryUndo`, `SecureInvCorrect`, `AcknowledgedSurviveUndo`, `DropSurvivesUndo` |
| `MergeRunsProofs` | `MergePrefixHolds`, `MergeReturnsNewest` |

### Types and the live engine

The first part of `LsmEngineProofs` has the facts about `Min`, `Max` and `NewestHit` that
the other proofs cite: what adding a newest table (`NewestHitAdd`), removing the oldest
(`NewestHitDrop`) or rewriting one that is not scanned (`NewestHitSame`) does to a
newest-first scan.

`LsmEngineProofs`: `TypeCorrect == Spec => []TypeOK`, by induction with one lemma per
group of actions. The type invariant carries what the other types need: the writer
holds the mutex only while the engine is up, a freeze holds an allocated number, a put
in progress has a number that was issued. `Recover` needs that the recovered number is
above every number `open` has seen (`RecoveredSeqAbove`).

The second part: `InvCorrect == Spec => []Inv`, and from it

- `LiveViewHolds`: `get` answers with the newest applied write, whatever fails;
- `LevelOrderHolds`: the level-1 table is older than every level-0 table;
- `ManifestFilesExistHolds`: every table the MANIFEST lists exists;
- `ReferencedTablesAreImmutable`: no step rewrites or removes a table that is referred
  to (an action property, from `Inv`, `Inv'` and the step).

None of these is inductive by itself. `LiveView` says nothing about the moments at
which it is at stake, so `Inv` (module `LsmEngineInv`) adds what each critical section
has established half-way:

- a freeze: the generation created by `Rotate` is above all others and empty
  (`Generations`), so that `Swap` puts an empty MemTable in front;
- a flush: the file written by `FlushBuild` holds the oldest immutable and is newer
  than every live table (`FlushInFlight`). `FlushCommit` then moves it from the end of
  the immutables to the front of level 0, which is the same place in the lookup
  (`FlushedKeepsItsPlace`, `OrElseAssoc`);
- a compaction: the file holds the merge of the live tables (`CompactionInFlight`).
  The merge ranks by number and the lookup by level; `WinnerByLevel` shows from
  `LevelOrder` that they pick the same record, and `ValueOfLast` that a tombstone of
  the last layer may be dropped;
- after the commit the inputs are not live, and the MANIFEST equals the live levels
  before the first is deleted (`InputsRetired`), so that `CompactUnlink` removes
  nothing that is referred to;
- numbers of referenced tables are below `next_seq` (`Tables`), so that a new file
  overwrites only an orphan; `Issued` says that entries refer to writes already
  issued, so that the next one does not change what they read as.

`Frame` covers every step that leaves tables and MANIFEST alone. TLC checks `Inv` in
`engine_faults` and `DurableInv`, below, in `engine_power`; `ReadInv`, `DirInv` with
`SecureInv`, `SuffixInv` with `RefInv`, and `ReopenInv` with `FlushedInv` can be added to the
invariants of `reads`, `dir_undo`, `engine_kill` and `reopen`, whose modules extend them, and
hold there.

### Durability

`DurableInvCorrect` proves `Spec => [](Inv /\ DurableInv)` under `NoLosingFaults`: WAL
deletions and the writes of tables and MANIFEST succeed. Every other fault (fsyncs, WAL
creation, table deletions) may happen. The hypothesis is needed: `engine_stale_wal` has
the counterexample for WAL deletions, "Where else a property stops holding" has those for
the other two. From the invariant follow

- `PromisesAreKept`: what a `flush()` that returned `Ok` covered is recovered;
- `AcknowledgedAreKept`: so is every write that returned, if also `SyncPerWrite`;
- `DropIsKept`: so is everything applied before a clean drop, if only processes die
  (`CrashKinds \subseteq {"kill"}`; `engine_drop_power` is why);
- `NoWalIsStray`, `ManifestIsCurrent`.

The properties speak of what `open` would recover from the disk at this moment, while the
engine decides by what is in memory; so the invariant says the same thing three times, of
what each critical section is about to make true:

- `DiskKeeps`: no log on disk has an older write of a key unless the same log or a later one
  has one new enough and out of reach of a stop, and without any such log the tables of the MANIFEST
  answer. It implies the properties;
- `LiveKeeps`: the same of the generations whose MemTables are in memory and of the live
  levels, which is what will be on disk once the pending deletions are done. It makes the
  deletion of a flushed generation safe, together with `TodoOlder` (generations go oldest
  first, and are older than those in memory), `LogsAccounted` (no other log is there) and
  `ManifestLags` (the MANIFEST differs from the live levels only before the first deletion);
- `Held`: what is in memory answers with the write or a newer one and no log can undercut
  that. `AppliedHeld` says it of every applied write, `SnapHeld` of what a `flush()` saw
  when it synced and of the MemTables it waits for, `SnapFlushed` of the tables alone once
  it has drained; so that returning `Ok` may promise it.

`LogShape`, `LiveLogs` and `InHand` say that a MemTable can be rebuilt from its log, in
which the writes of a key are in order and which the operating system has in full once the
MemTable is frozen. `Reappended` carries the promises through `open`: the new generation
has every key that an old one has before the first old one is deleted, so a crash there
replays either.

### What a kill loses, and the abstract store

`LossIsASuffixHolds` and `EngineRefinesKVStore` are proved for processes that die
(`OnlyProcessesDie`) without losing faults (`NoLosingFaults`, as above). A power failure is
excluded because an auto-frozen WAL is never fsynced: it may lose a frozen write and keep a
later, synced one.

A dying process takes with it what is still in the buffer of the active WAL. `Firm` counts
the entries of a log that are out of its reach; the others are `Loose`. `SuffixInv` says that
only the active log has any (`AllHanded`), that they are newer than everything in other logs,
tables and dropped tombstones (`LooseAreNewest`), and that the newest write of each key is
kept by disk and memory alike, or is in the buffer (`AppliedKept`). Whatever part of the
buffer the operating system has got, the rest is then a suffix of the writes.

`EngineRefinesKVStore == RefSpec => RefinesKVStore` shows that each step of the engine is one
of `KVStore` or a stutter: `Write` begins a write, `Apply` makes it take effect, `Close` and
`Crash` are `Stop`, the step of `open` that ends it is `Start`, the return of a `flush()` is
`Promise`, and all else (freezing, flushing, compacting, the rest of `open`, every failure)
changes neither the answers nor the log. `RefInv` connects the two. `hist` ends with the loose
writes in the order of the log (`LooseAreLast`); of the rest, disk and memory hold for each key
a write that gives the answer and nothing newer (`FirmIsSolid`: `Kept` from below, `Bounded`
from above), so that the prefix the mapping keeps at a stop is a real one; all of `hist` is
what `get` answers (`AppliedIsHist`); and no promise, given or in preparation, covers a loose
write (`PromisedAreFirm`), so that `Stop` stays above `promised`.
The one further hypothesis, `NoLostAnswers`, is that not both `sync_per_write` is set and
fsyncs fail: then a `put` returns `Err` for a write that is in the log and may come back after
a restart, having never taken effect, which no store of this kind does.

### Two engines on one directory

`ReopenedLogsExistHolds` needs no hypothesis. The two engines number their files
independently, so what keeps the dropped one from deleting a WAL of the other is that `open`
goes past the highest number on disk, and that the dropped engine's active WAL, or one made
later, is still there to be seen (`DroppedLogs`): it deletes only WALs older than that.

`ReopenedTablesAreImmutable` and `ReopenedHasDroppedHolds` are about an engine dropped after
a `flush()`. `UnflushedInv` follows the engine up to that moment: no log has a write that is
promised (`LogsUnpromised`), logs have only what was applied (`LogsApplied`), and only
MemTables with writes are frozen (`FrozenHaveWrites`); so an engine in which all is promised
has nothing to flush. After the drop it is idle (`DroppedIdle`) but for one table of a
compaction, whose number `open` goes past (`NewestNumberSeen`, `DroppedBuild`); if that table
cannot be written, its worker is through (`DroppedDone`). It therefore changes nothing that
the engine in use refers to, and `Inv` and `DurableInv` carry over from one engine to two
(`FlushedInv`). `ReopenedTablesAreImmutable` follows for every kind of crash: a step of the
dropped engine writes no table that is referred to (`OldLeavesTables`), one of the engine in
use neither, as in an engine by itself (`ReferencedUntouched`). `LiveAnswers` draws the
conclusion for `ReopenedHasDroppedHolds`. The hypotheses of both: `NoLosingFaults`, which is
about the engine in use, and `~ SyncPerWrite` because of the case described last in "Where
else a property stops holding"; of the second also kills only, for the clean drops of the
later engine that `closed` counts.

### Reads

`ReadInvCorrect` proves `ReadSpec => [](Inv /\ ReadInv)`. `ReadIsCurrent` speaks of the end
of a `get`; `ScanIsCurrent` says of every moment before that what the rest of the scan
would answer was the key's value at some moment of the call. A write to the active MemTable
changes the rest of the scan, but adds the same value to `seen`; nothing else does, because
the copy is of the past (`CopyIsOld`) and an Arc keeps the MemTable it was taken of after its
flush (`ArcsCurrent`). `InputsOpened` is why a deleted table is still readable: compaction
has opened it through the handle the reader has too.

### The loss of directory changes

`DirInvCorrect`: each directory that a power failure may bring back lists only tables it
has, and `Inv` survives going back to it. It needs no hypothesis.

`SecureInvCorrect` is about what such a directory answers. It holds without losing faults
(`NoLosingFaults`, as above) and with `sync_per_write`; without that option the promises of
`flush()` can be lost with the rename of the MANIFEST ("Where else a property stops holding").
`AcknowledgedSurviveUndo` and `DropSurvivesUndo` follow: every write that returned, and every
write applied before a clean drop, is recovered although the code fsyncs no directory.
`PastKeeps` says of a directory of the past what `DiskKeeps` says of the present one, and
`PromisesSecure` has both for everything that is `Due`: promised, in a table, or applied. What
makes it inductive:

- a put creates a new obligation after its fsync, which has left only directories that have
  the active WAL (`PutFsynced`);
- every step adds the present directory to the past ones, and names that still exist have the
  contents they had (`Mirrored`), so that what is kept now is kept there. A log that was
  deleted keeps the contents it had then; a WAL number is not used again, as no directory of
  the past has a WAL above all that exist;
- until `open` has fsynced the log it re-appends to, nothing in it counts (`RebackUnsynced`):
  the old logs have to answer, in the past directories too;
- a directory that comes back brings its own MANIFEST, so what its tables say has to be kept
  by its logs (the second half of `PromisesSecure`), and what `flush()` and `open` take over
  is not newer than what was applied (`AnswersApplied`).

### The merge

`MergePrefixHolds` is the loop invariant of `merge_runs` for runs of any number and length
(`MergeTypes`: cursors stay in their runs; `MergePrefix`: the output is what survives of the
keys consumed); when no cursor is left it gives `MergeReturnsNewest`.

### Only model-checked

- liveness (`FrozenIsFlushed`, `FlushReturns`, `MergeEnds`, `TestsEnd`): the prover has no
  rules for fairness and `ENABLED`;
- `AssertionsHold`, a fixed list of scripts, which TLC covers completely;
- `SizeCoversEntries`, a sum over the entries, and the files as bytes, whose codecs recurse
  over data: both need induction over data, which this prover cannot apply.

## Not modelled

Left out of the model:

- six of the 37 unit tests of `src/engine.rs`: two are covered by `dir_undo` and
  `storage`, one needs a compaction threshold of its own, three write garbage or
  foreign files, whose bytes `LsmEngine` does not have (`ManifestFile` and `SsTable`
  reject them); the unit tests of the other files, which check pure functions on chosen
  inputs;
- what tokio does when the worker drops the last reference to the engine, and with it
  the runtime, on a thread of that runtime: it is decided outside `src/`;
- messages of errors, benches, charts and scripts.
