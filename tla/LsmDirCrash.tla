----------------------------- MODULE LsmDirCrash -----------------------------
(***************************************************************************)
(* Power failures when the directory itself is not fsynced, as in          *)
(* src/src/engine.rs and write_atomic of src/src/manifest.rs: creating,    *)
(* renaming and deleting files is durable only some time later.            *)
(*                                                                         *)
(* An fsync of any file also makes the earlier changes of the directory    *)
(* durable, and of the changes since then a power failure keeps a prefix,  *)
(* as on journaling file systems.                                          *)
(***************************************************************************)
EXTENDS LsmEngine, Functions

VARIABLES
    past,  \* the directories since the last fsync, oldest first
    logs,  \* logs[g]: contents of WAL g, also after it is deleted
    tabs   \* tabs[l][s]: contents of a table, also after it is deleted

dirCrashVars == <<vars, past, logs, tabs>>

Directory == [wals |-> walFiles, files |-> files, manifest |-> manifest]

\* The step fsyncs a file: the WAL, or a temporary file before it is renamed.
Fsyncs ==
    \/ \E g \in Seqs : wsync'[g] > wsync[g]
    \/ \E c \in Clients : calls[c] = "idle" /\ calls'[c] \in {"sync", "drain"}
    \/ fl.pc = "drain" /\ fl'.pc = "commit"
    \/ fl.pc = "free" /\ fl'.pc = "merged" /\ fl'.seq # 0
    \/ fl.pc = "drain" /\ fl'.pc = "unlink"
    \/ fl.pc = "record" /\ fl'.pc = "sweep"

\* A step of the engine: what it fsyncs is on disk before it changes a name.
Tracked ==
    /\ Next
    /\ past' = LET before == IF Fsyncs THEN <<Directory>> ELSE past
               IN IF Directory' = Directory THEN before ELSE Append(before, Directory')
    /\ logs' = [g \in Seqs |-> IF g \in walFiles'
                               THEN [log |-> wlog'[g], synced |-> wsync'[g]] ELSE logs[g]]
    /\ tabs' = [l \in Levels |-> [s \in Seqs |->
                  IF s \in files'[l] THEN sst'[l][s] ELSE tabs[l][s]]]

\* A power failure: the directory is one of those since the last fsync, and of a
\* WAL any prefix of its frames survives, from the fsynced ones on.
PowerFailure ==
    /\ stops < MaxStops
    /\ \E d \in Range(past) : \E cut \in [d.wals -> Ids] :
         /\ \A g \in d.wals : cut[g] \in logs[g].synced .. Len(logs[g].log)
         /\ walFiles' = d.wals /\ files' = d.files /\ manifest' = d.manifest
         /\ wlog' = [g \in Seqs |-> IF g \in d.wals THEN SubSeq(logs[g].log, 1, cut[g])
                                                    ELSE << >>]
         /\ wos' = [g \in Seqs |-> Len(wlog'[g])]
         /\ wsync' = wos'
         /\ sst' = [l \in Levels |-> [s \in Seqs |->
                      IF s \in d.files[l] THEN tabs[l][s] ELSE EmptyTable]]
         /\ past' = <<d>>
         /\ logs' = [g \in Seqs |-> [log |-> wlog'[g], synced |-> wsync'[g]]]
    /\ tabs' = sst'
    /\ ProcessGone
    /\ stops' = stops + 1
    /\ UNCHANGED <<ops, kv, gone, promises>>

DirInit ==
    /\ Init
    /\ past = <<Directory>>
    /\ logs = [g \in Seqs |-> [log |-> << >>, synced |-> 0]]
    /\ tabs = sst

DirNext == Tracked \/ PowerFailure

DirSpec == DirInit /\ [][DirNext]_dirCrashVars

-----------------------------------------------------------------------------
\* open succeeds after every such failure: a MANIFEST is never on disk before the
\* tables it lists, nor after those it no longer lists are gone
\* (flush_pending, compact_all_pending, open_with_options).
OpenSurvivesUndo == ManifestOnDisk
=============================================================================
