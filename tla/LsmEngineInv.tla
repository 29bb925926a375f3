----------------------------- MODULE LsmEngineInv -----------------------------
(***************************************************************************)
(* The inductive invariant behind LiveView, LevelOrder, ManifestFilesExist *)
(* and ReferencedTablesImmutable.  Each part is what one of the code's     *)
(* locks, or the order of its steps, keeps true between two actions.       *)
(***************************************************************************)
EXTENDS LsmEngine

\* Nothing is in progress unless the engine is up, and no MemTable exists while
\* it is down.
Quiet ==
    /\ mode # "up" => wr.pc = "free" /\ fl.pc = "free" /\ imms = {}
    /\ mode = "down" => mem = [g \in Seqs |-> EmptyTable] /\ levels = NoTables

\* WAL generations: every frozen one is older than the active one, which is
\* older than the one a freeze in progress has created; a number that has not
\* been allocated yet has no MemTable.
Generations ==
    mode # "down" =>
      /\ active \in Seqs /\ active < nextSeq
      /\ \A g \in imms : g < active
      /\ \A g \in Seqs : g >= nextSeq => mem[g] = EmptyTable
      /\ wr.pc = "swap" => /\ wr.new \in Seqs /\ active < wr.new
                           /\ wr.new < nextSeq
                           /\ mem[wr.new] = EmptyTable

\* SSTables: those the engine or the MANIFEST refers to exist, and their numbers
\* have been allocated.
Tables ==
    /\ \A l \in Levels : levels[l] \cup manifest[l] \subseteq files[l]
    /\ mode # "down" =>
         \A l \in Levels : \A s \in levels[l] \cup manifest[l] : s < nextSeq

\* A flush between its rename and its commit: the file holds the oldest
\* immutable and is newer than every live table.
FlushInFlight ==
    fl.pc = "commit" =>
      /\ fl.gen \in imms /\ \A g \in imms : fl.gen <= g
      /\ fl.seq \in files[0] /\ fl.seq < nextSeq
      /\ sst[0][fl.seq] = mem[fl.gen]
      /\ \A l \in Levels : \A s \in levels[l] \cup manifest[l] : s < fl.seq

\* A compaction between its rename and its commit: the file holds the merge of
\* the tables that are live, and is newer than all of them.
CompactionInFlight ==
    fl.pc = "merged" =>
      IF fl.seq = 0
      THEN Merged(levels) = EmptyTable
      ELSE /\ fl.seq \in files[1] /\ fl.seq < nextSeq
           /\ sst[1][fl.seq] = Merged(levels)
           /\ \A l \in Levels : \A s \in levels[l] \cup manifest[l] : s < fl.seq

\* A compaction after its commit: its inputs are live no longer, and the
\* MANIFEST has let go of them before the first is deleted.
InputsRetired ==
    /\ fl.pc \in {"record", "sweep"} =>
         \A l \in Levels : fl.inputs[l] \cap levels[l] = {}
    /\ fl.pc = "sweep" => manifest = levels

\* Every log and every table holds only writes that have been issued, so what an
\* entry reads as does not change when the next write is.
Issued ==
    LET W == 0 .. Len(ops)
    IN /\ wlog \in [Seqs -> Seq(1 .. Len(ops))]
       /\ mem \in [Seqs -> [Keys -> W]]
       /\ sst \in [Levels -> [Seqs -> [Keys -> W]]]
       /\ kv \in [Keys -> W]

\* LiveView from the moment open has built the state.
View == mode # "down" => \A k \in Keys : Value(Lookup(k)) = Value(kv[k])

Inv ==
    /\ TypeOK
    /\ Quiet
    /\ Generations
    /\ Tables
    /\ LevelOrder
    /\ FlushInFlight
    /\ CompactionInFlight
    /\ InputsRetired
    /\ Issued
    /\ View
=============================================================================
