------------------------------ MODULE MCStorage ------------------------------
(***************************************************************************)
(* The parts below the engine, side by side: a behaviour picks one part    *)
(* and runs it alone, the others stay unused.  They share no state, so     *)
(* this is each of them checked by itself: merge_runs, the MemTable, and   *)
(* the WAL, SSTable and MANIFEST files, each file once with the faults it  *)
(* must survive whole and once damaged.                                    *)
(***************************************************************************)
EXTENDS MCMergeRuns

VARIABLES
    part,                                                       \* the part that runs
    map, approximate_size, doing, count,                        \* MemTable
    mode, synced, buf, memtable, log, durable, errors,          \* WalLog
    phase, b, added,                                            \* SsTable
    file,                                                       \* both of these
    manifest, disk, pc, begun, returned, edits                  \* ManifestFile

mergeVars    == <<runs, cursor, out, done>>
memVars      == <<map, approximate_size, doing, count>>
walVars      == <<mode, synced, buf, memtable, log, durable, errors>>
sstVars      == <<phase, b, added>>
manifestVars == <<manifest, disk, pc, begun, returned, edits>>
storageVars  == <<part, mergeVars, memVars, walVars, sstVars, file, manifestVars>>

-----------------------------------------------------------------------------
\* The empty key and a key of two bytes, empty and non-empty values.
Mem == INSTANCE MemTable WITH
    Threads <- {"t1", "t2"}, ValueSizes <- {0, 3}, EntryOverhead <- 4, MaxOps <- 4,
    KeySizes <- {[len |-> 0, id |-> 1], [len |-> 2, id |-> 2]}

\* Frames of one key are 12 bytes (buffered) or 14 (written directly) against a
\* buffer of 13; encode_entry refuses some of the calls.
CallsOf(op, keys, values) == [op : {op}, key : keys, value : values]

SmallCalls ==
    CallsOf("put", {<<1>>}, {<< >>, <<5, 6>>}) \cup CallsOf("delete", {<<1>>}, {<< >>})

AllCalls ==
    SmallCalls \cup CallsOf("put", {<< >>}, {<< >>})
      \cup CallsOf("put", {<<1, 1>>}, {<<5>>}) \cup CallsOf("put", {<<1>>}, {<<5, 6, 7>>})
      \cup CallsOf("delete", {<<1>>}, {<<5>>})

CrashedWal == INSTANCE WalLog WITH
    Calls <- AllCalls, BufCapacity <- 13, MaxKeyLen <- 1, MaxValueLen <- 2,
    Faults <- {}, Damage <- {"cut"}, MaxAppends <- 3, MaxErrors <- 0

DamagedWal == INSTANCE WalLog WITH
    Calls <- SmallCalls, BufCapacity <- 13, MaxKeyLen <- 1, MaxValueLen <- 2,
    Faults <- {"write", "fsync"}, Damage <- {"cut", "zeros", "flip"},
    MaxAppends <- 2, MaxErrors <- 1

\* The empty key, a prefix of another key, one over the length cap: records of 7
\* to 11 bytes, so that a block of 16 holds one, two, or exactly two.
TableKeys == {<< >>, <<1>>, <<1, 1>>, <<2>>, <<1, 1, 1>>}
LsmTree1 == <<76, 83, 77, 84, 82, 69, 69, 49>>

WholeTable == INSTANCE SsTable WITH
    TableValues <- {<< >>, <<9, 9>>}, ExpectedItems <- {0, 4}, TargetBlockSize <- 16,
    MaxKeyLen <- 2, MaxValueLen <- 2, Magic <- LsmTree1, NumHashes <- 2,
    Damages <- {}, MaxRecords <- 4

\* Eight bytes of 255 across an offset and the size after it overflow their sum.
DamagedTable == INSTANCE SsTable WITH
    TableKeys <- {<<1>>, <<1, 1>>, <<2>>},
    TableValues <- {<< >>, <<9, 9>>}, ExpectedItems <- {0, 4}, TargetBlockSize <- 16,
    MaxKeyLen <- 2, MaxValueLen <- 2, Magic <- LsmTree1, NumHashes <- 2,
    Damages <- [len : {1}, byte : {0, 1, 40, 255}] \cup [len : {8}, byte : {255}],
    MaxRecords <- 3

\* Two tables of level 0, one of which has the empty key at both ends, and one of
\* level 1; a magic of two bytes.
Meta(l, seq, name, min, max) ==
    [level |-> l, seq |-> seq, name |-> name, min |-> min, max |-> max]

ThreeMetas ==
    {Meta(0, 1, <<97>>, << >>, << >>), Meta(0, 2, <<98>>, <<97>>, <<98, 98>>),
     Meta(1, 1, <<99>>, <<97>>, <<97>>)}

CommittedManifest == INSTANCE ManifestFile WITH
    Metas <- ThreeMetas, Magic <- <<76, 83>>, MaxEdits <- 3,
    FaultyCalls <- {"write", "sync", "rename", "remove"}, Harm <- {"power"}

DamagedManifest == INSTANCE ManifestFile WITH
    Metas <- ThreeMetas, Magic <- <<76, 83>>, MaxEdits <- 3,
    FaultyCalls <- {}, Harm <- {"cut"}

-----------------------------------------------------------------------------
Unused == "unused"

NoMerge    == runs = << >> /\ cursor = << >> /\ out = << >> /\ done = TRUE
NoMem      == map = Unused /\ approximate_size = Unused /\ doing = Unused /\ count = Unused
NoWal      == /\ mode = Unused /\ synced = Unused /\ buf = Unused /\ memtable = Unused
              /\ log = Unused /\ durable = Unused /\ errors = Unused
NoSst      == phase = Unused /\ b = Unused /\ added = Unused
NoManifest == /\ manifest = Unused /\ disk = Unused /\ pc = Unused
              /\ begun = Unused /\ returned = Unused /\ edits = Unused

StorageInit ==
    \/ part = "merge" /\ Init /\ NoMem /\ NoWal /\ NoSst /\ file = Unused /\ NoManifest
    \/ part = "memtable" /\ Mem!Init
         /\ NoMerge /\ NoWal /\ NoSst /\ file = Unused /\ NoManifest
    \/ /\ \/ part = "crashed WAL" /\ CrashedWal!Init
          \/ part = "damaged WAL" /\ DamagedWal!Init
       /\ NoMerge /\ NoMem /\ NoSst /\ NoManifest
    \/ /\ \/ part = "whole table" /\ WholeTable!Init
          \/ part = "damaged table" /\ DamagedTable!Init
       /\ NoMerge /\ NoMem /\ NoWal /\ NoManifest
    \/ /\ \/ part = "committed MANIFEST" /\ CommittedManifest!Init
          \/ part = "damaged MANIFEST" /\ DamagedManifest!Init
       /\ NoMerge /\ NoMem /\ NoWal /\ NoSst /\ file = Unused

MergeStep ==
    /\ part = "merge" /\ Next
    /\ UNCHANGED <<part, memVars, walVars, sstVars, file, manifestVars>>

MemStep ==
    /\ part = "memtable" /\ Mem!Next
    /\ UNCHANGED <<part, mergeVars, walVars, sstVars, file, manifestVars>>

WalStep ==
    /\ \/ part = "crashed WAL" /\ CrashedWal!Next
       \/ part = "damaged WAL" /\ DamagedWal!Next
    /\ UNCHANGED <<part, mergeVars, memVars, sstVars, manifestVars>>

TableStep ==
    /\ \/ part = "whole table" /\ WholeTable!Next
       \/ part = "damaged table" /\ DamagedTable!Next
    /\ UNCHANGED <<part, mergeVars, memVars, walVars, manifestVars>>

ManifestStep ==
    /\ \/ part = "committed MANIFEST" /\ CommittedManifest!Next
       \/ part = "damaged MANIFEST" /\ DamagedManifest!Next
    /\ UNCHANGED <<part, mergeVars, memVars, walVars, sstVars, file>>

StorageNext == MergeStep \/ MemStep \/ WalStep \/ TableStep \/ ManifestStep

\* The loop of merge_runs goes on until it ends.
StorageSpec == StorageInit /\ [][StorageNext]_storageVars /\ WF_storageVars(MergeStep)

-----------------------------------------------------------------------------
(* The properties of each part, stated in its module.                      *)

\* The size estimate never falls below what the MemTable holds.
SizeCoversEntries == part = "memtable" => Mem!SizeCoversEntries

\* Whatever a sync that returned Ok covered is recovered after a crash.
SyncedIsReplayed == part = "crashed WAL" => CrashedWal!SyncedIsReplayed

\* A log that a crash has torn is readable.
TearIsTolerated == part = "crashed WAL" => CrashedWal!TearIsTolerated

\* Recovery from a damaged log gives the MemTable of an earlier moment or nothing.
ReplayIsAPast == part = "damaged WAL" => DamagedWal!ReplayIsAPast

\* A complete table answers every lookup with exactly the record added.
LookupIsExact == part = "whole table" => WholeTable!LookupIsExact

\* A complete table scans as the records added, within its min and max key.
ScanIsExact == part = "whole table" => WholeTable!ScanIsExact

\* The index tiles the data with blocks that exceed the target for one record only.
BlocksTileData == part = "whole table" => WholeTable!BlocksTileData

\* A table whose writing was interrupted is rejected by open.
TornIsRejected == part = "whole table" => WholeTable!TornIsRejected

\* Damage never makes the reader reach past the end of a table, and damage to one block
\* leaves the keys of the others their answers.
DamageIsContained == part = "damaged table" => DamagedTable!DamageIsContained

\* load finds a manifest that was committed, no older than the last acknowledged.
LoadIsACommit == part = "committed MANIFEST" => CommittedManifest!LoadIsACommit

\* decode gives back what encode was given.
RoundTrip == part = "committed MANIFEST" => CommittedManifest!RoundTrip

\* A MANIFEST that lost its end is rejected or loads whole records.
CutIsAPrefix == part = "damaged MANIFEST" => DamagedManifest!CutIsAPrefix
=============================================================================
