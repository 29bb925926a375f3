--------------------------- MODULE LsmReopenProofs ---------------------------
(***************************************************************************)
(* Two engines on one directory: whatever the constants, the faults and    *)
(* the crashes, the engine in use keeps the WALs of its MemTables.  If the *)
(* dropped one had been flushed and commits no compaction, no table that   *)
(* the engine in use refers to is replaced or removed, and it has all that *)
(* was written to the dropped one.                                         *)
(***************************************************************************)
EXTENDS LsmReopenInv, LsmPromisesProofs

-----------------------------------------------------------------------------
(* The worker of the dropped engine.                                       *)

\* Its steps on the WALs: it deletes one of those it has flushed, or none.
OldUnlinks ==
    \/ UNCHANGED walVars
    \/ oFl.todo # {} /\ UnlinkWal(Min(oFl.todo))

\* The generations it has yet to flush or delete are those it had.
OldGenerations ==
    /\ oImms' \subseteq oImms
    /\ oFl'.todo \subseteq oFl.todo \cup (IF oFl.pc = "commit" THEN {oFl.gen} ELSE {})
    /\ oFl'.pc = "commit" => oFl'.gen \in oImms \/ (oFl.pc = "commit" /\ oFl'.gen = oFl.gen)

\* The operators without state are the same for both engines, ...
LEMMA OldConstants ==
    /\ Old!Levels = Levels /\ Old!Seqs = Seqs /\ Old!EmptyTable = EmptyTable
    /\ Old!NoTables = NoTables /\ Old!FlFree = FlFree
    /\ \A S : Old!OldestGen(S) = OldestGen(S) /\ Old!OldestGen(S) = Min(S)
  BY DEF Old!Levels, Levels, Old!Seqs, Seqs, Old!EmptyTable, EmptyTable, Old!NoTables,
         NoTables, Old!FlFree, FlFree, Old!OldestGen, OldestGen, Old!Min, Min

\* ... and a merge by the dropped engine reads the same files.
LEMMA OldMerges ==
    ASSUME TypeOK, NEW T \in [Levels -> SUBSET Seqs]
    PROVE  Old!Merged(T) = Merged(T) /\ Old!Merged(T) \in Table /\ Old!Dropped(T) \in Table
<1>1. \A k : Old!Winner(T, k) = Winner(T, k)
  BY Zenon DEF Old!Winner, Old!RunsWith, Old!Runs, Old!Levels, Old!Seqs,
               Winner, RunsWith, Runs, Levels, Seqs
<1>2. Old!Merged(T) = Merged(T) /\ Old!Dropped(T) = Dropped(T)
  BY <1>1 DEF Old!Merged, Old!Dropped, Old!Value, Old!IsDelete, Merged, Dropped, Value, IsDelete
<1>3. QED
  BY <1>2, MergedType

\* What its memory and the history keep.
OldKeeps ==
    /\ oMem' \in [Seqs -> Table] /\ oActive' = oActive
    /\ oLevels' \in [Levels -> SUBSET Seqs] /\ oNextSeq' \in 1 .. (MaxSeq + 1)
    /\ oFl' \in FlType
    /\ oFl'.pc = "commit" => oFl'.gen \in Seqs /\ oFl'.seq \in Seqs
    /\ oFl'.pc = "unlink" => oFl'.todo # {}
    /\ TypeDirectory'
    /\ UNCHANGED <<ops, kv, acked, closed, stops>>
    /\ gone' \in Table /\ snap' \in [Clients -> Table] /\ durable' \in Table

OldStep == OldUnlinks /\ OldGenerations /\ OldKeeps

\* Its steps that move no data: it takes or leaves flush_lock, writes the MANIFEST, fails,
\* or decides what to do next.
OldMoves ==
    /\ UNCHANGED <<walFiles, wlog, wos, wsync, files, sst, oMem, oActive, oImms, oLevels>>
    /\ oNextSeq' = oNextSeq \/ (Old!CanAllocate /\ oNextSeq' = oNextSeq + 1)
    /\ manifest' \in {manifest, oLevels}
    /\ \/ oFl' = oFl
       \/ oFl' = FlFree
       \/ oFl' = [FlFree EXCEPT !.pc = "drain", !.by = "worker"]
       \/ oFl' = [oFl EXCEPT !.pc = "ok"]
       \/ oFl.todo # {} /\ oFl' = [oFl EXCEPT !.pc = "unlink"]
       \/ oFl' = [oFl EXCEPT !.pc = "sweep"]
    /\ UNCHANGED <<ops, kv, gone, acked, closed, stops>>
    /\ \/ UNCHANGED <<snap, durable>>
       \/ /\ durable' = IF oFl.by \in Clients THEN NewerOf(durable, snap[oFl.by]) ELSE durable
          /\ snap' = [c \in Clients |-> IF c = oFl.by THEN EmptyTable ELSE snap[c]]

LEMMA OldMovesAre ==
    ASSUME \/ Old!FlushBegin("worker") \/ Old!FlushNothing \/ Old!FlushManifest
           \/ Old!FlushReturn \/ Old!WorkerCheck \/ Old!CompactNothing
           \/ Old!CompactManifest \/ Old!CompactReturn \/ Old!FlushBuildFails
           \/ Old!FlushManifestFails \/ Old!CompactBuildFails("worker") \/ Old!CompactManifestFails
    PROVE  OldMoves
<1> USE OldConstants DEF OldMoves, Old!dirVars, Old!walVars, Old!ghosts
<1>1. CASE Old!FlushBegin("worker")
  BY <1>1 DEF Old!FlushBegin
<1>2. CASE Old!FlushNothing
  BY <1>2 DEF Old!FlushNothing
<1>3. CASE Old!FlushManifest
  BY <1>3 DEF Old!FlushManifest, Old!LiveManifest
<1>4. CASE Old!FlushReturn
  BY <1>4 DEF Old!FlushReturn, Old!Release, Old!NewerOf, NewerOf
<1>5. CASE Old!WorkerCheck
  BY <1>5 DEF Old!WorkerCheck
<1>6. CASE Old!CompactNothing
  BY <1>6 DEF Old!CompactNothing
<1>7. CASE Old!CompactManifest
  BY <1>7 DEF Old!CompactManifest, Old!LiveManifest
<1>8. CASE Old!CompactReturn
  BY <1>8 DEF Old!CompactReturn, Old!Release
<1>9. CASE Old!FlushBuildFails
  BY <1>9 DEF Old!FlushBuildFails, Old!Release
<1>10. CASE Old!FlushManifestFails
  BY <1>10 DEF Old!FlushManifestFails, Old!Release
<1>11. CASE Old!CompactBuildFails("worker")
  BY <1>11 DEF Old!CompactBuildFails
<1>12. CASE Old!CompactManifestFails
  BY <1>12 DEF Old!CompactManifestFails, Old!Release
<1>13. QED
  BY <1>1, <1>2, <1>3, <1>4, <1>5, <1>6, <1>7, <1>8, <1>9, <1>10, <1>11, <1>12

LEMMA OldMovesStep == ASSUME TypeOK, OldTypes, OldMoves PROVE OldStep
<1> USE BasicSets
<1>1. TypeDirectory /\ TypeHistory
  BY DEF TypeOK
<1>2. OldUnlinks
  BY DEF OldMoves, OldUnlinks, walVars
<1>3. /\ oFl' \in FlType
      /\ oFl'.pc = "commit" => oFl' = oFl
      /\ oFl'.pc = "unlink" => oFl'.todo # {}
      /\ oFl'.todo \subseteq oFl.todo
  <2>1. oFl \in FlType /\ (oFl.pc = "unlink" => oFl.todo # {})
    BY DEF OldTypes
  <2>2. CASE oFl' = oFl
    BY <2>1, <2>2
  <2>3. CASE oFl' = FlFree
    BY <2>1, <2>3 DEF FlFree, FlType
  <2>4. CASE oFl' = [FlFree EXCEPT !.pc = "drain", !.by = "worker"]
    BY <2>1, <2>4 DEF FlFree, FlType, Callers
  <2>5. CASE oFl' = [oFl EXCEPT !.pc = "ok"]
    BY <2>1, <2>5 DEF FlType
  <2>6. CASE oFl.todo # {} /\ oFl' = [oFl EXCEPT !.pc = "unlink"]
    BY <2>1, <2>6 DEF FlType
  <2>7. CASE oFl' = [oFl EXCEPT !.pc = "sweep"]
    BY <2>1, <2>7 DEF FlType
  <2>8. QED
    BY <2>2, <2>3, <2>4, <2>5, <2>6, <2>7 DEF OldMoves
<1>4. OldGenerations
  BY <1>3 DEF OldMoves, OldGenerations
<1>5. TypeDirectory'
  <2>1. manifest' \in [Levels -> SUBSET Seqs]
    BY <1>1 DEF OldMoves, OldTypes, TypeDirectory
  <2>2. QED
    BY <1>1, <2>1 DEF OldMoves, TypeDirectory
<1>6. snap' \in [Clients -> Table] /\ durable' \in Table
  <2>1. ASSUME NEW t \in Table, NEW u \in Table PROVE NewerOf(t, u) \in Table
    BY DEF NewerOf, Table
  <2>2. snap \in [Clients -> Table] /\ durable \in Table
    BY <1>1 DEF TypeHistory
  <2>3. QED
    BY <2>1, <2>2 DEF OldMoves
<1>7. oNextSeq' \in 1 .. (MaxSeq + 1)
  BY BoundsAssumption DEF OldMoves, OldTypes, Old!CanAllocate
<1>8. OldKeeps
  BY <1>1, <1>3, <1>5, <1>6, <1>7 DEF OldKeeps, OldMoves, OldTypes, TypeHistory
<1>9. QED
  BY <1>2, <1>4, <1>8 DEF OldStep

LEMMA OldFlushBuildStep == ASSUME TypeOK, OldTypes, Old!FlushBuild PROVE OldStep
<1> USE BasicSets
<1>1. TypeDirectory /\ TypeHistory
  BY DEF TypeOK
<1>2. /\ oFl.pc = "drain" /\ oImms # {} /\ oNextSeq \in Seqs /\ oNextSeq' \in 1 .. (MaxSeq + 1)
      /\ files' = [files EXCEPT ![0] = files[0] \cup {oNextSeq}]
      /\ sst' = [sst EXCEPT ![0] = [sst[0] EXCEPT ![oNextSeq] = oMem[Min(oImms)]]]
      /\ oFl' = [oFl EXCEPT !.pc = "commit", !.gen = Min(oImms), !.seq = oNextSeq]
      /\ UNCHANGED <<walFiles, wlog, wos, wsync, manifest, oMem, oActive, oImms, oLevels>>
      /\ UNCHANGED <<ops, kv, gone, snap, durable, acked, closed, stops>>
  BY BoundsAssumption
     DEF OldTypes, Old!FlushBuild, Old!CanAllocate, Old!FirstFrozen, Old!Min, Min, Old!walVars,
         Old!ghosts, Seqs
<1>3. Min(oImms) \in oImms /\ Min(oImms) \in Seqs
  BY <1>2, MinOfNats DEF OldTypes
<1>4. files' \in [Levels -> SUBSET Seqs] /\ \A l \in Levels : files[l] \subseteq files'[l]
  BY <1>1, <1>2 DEF TypeDirectory
<1>5. sst' \in [Levels -> [Seqs -> Table]]
  <2>1. oMem[Min(oImms)] \in Table
    BY <1>3 DEF OldTypes
  <2>2. QED
    BY <1>1, <1>2, <2>1, LevelUpdate DEF TypeDirectory
<1>6. TypeDirectory'
  BY <1>1, <1>2, <1>4, <1>5 DEF TypeDirectory
<1>7. /\ oFl' \in FlType /\ oFl'.pc = "commit" /\ oFl'.gen = Min(oImms) /\ oFl'.seq \in Seqs
      /\ oFl'.todo = oFl.todo
  BY <1>2, <1>3 DEF OldTypes, FlType
<1>8. OldUnlinks
  BY <1>2, <1>4 DEF OldUnlinks, walVars
<1>9. OldGenerations
  BY <1>2, <1>3, <1>7 DEF OldGenerations
<1>10. OldKeeps
  BY <1>1, <1>2, <1>3, <1>6, <1>7 DEF OldKeeps, OldTypes, TypeHistory
<1>11. QED
  BY <1>8, <1>9, <1>10 DEF OldStep

LEMMA OldFlushCommitStep == ASSUME TypeOK, OldTypes, Old!FlushCommit PROVE OldStep
<1> USE BasicSets
<1>1. TypeDirectory /\ TypeHistory
  BY DEF TypeOK
<1>2. /\ oFl.pc = "commit" /\ oFl.gen \in Seqs /\ oFl.seq \in Seqs
      /\ oLevels' = [oLevels EXCEPT ![0] = oLevels[0] \cup {oFl.seq}]
      /\ oImms' = oImms \ {oFl.gen}
      /\ oMem' = [oMem EXCEPT ![oFl.gen] = EmptyTable]
      /\ oFl' = [oFl EXCEPT !.pc = "drain", !.todo = oFl.todo \cup {oFl.gen}, !.gen = 0, !.seq = 0]
      /\ UNCHANGED <<walFiles, wlog, wos, wsync, files, sst, manifest, oActive, oNextSeq>>
      /\ UNCHANGED <<ops, kv, gone, snap, durable, acked, closed, stops>>
  BY OldConstants
     DEF OldTypes, Old!FlushCommit, Old!StillFrozen, Old!Flushed, Old!dirVars, Old!ghosts
<1>3. oLevels' \in [Levels -> SUBSET Seqs] /\ oMem' \in [Seqs -> Table]
  BY <1>2 DEF OldTypes
<1>4. /\ oFl' \in FlType /\ oFl'.pc = "drain" /\ oFl'.todo = oFl.todo \cup {oFl.gen}
  <2>1. oFl \in FlType
    BY DEF OldTypes
  <2>2. oFl.todo \cup {oFl.gen} \in SUBSET Seqs /\ 0 \in 0 .. MaxSeq
    BY <1>2, <2>1, BoundsAssumption DEF FlType
  <2>3. QED
    BY <1>2, <2>1, <2>2 DEF FlType
<1>5. TypeDirectory'
  BY <1>1, <1>2 DEF TypeDirectory
<1>6. OldUnlinks /\ OldGenerations
  BY <1>2, <1>4 DEF OldUnlinks, OldGenerations, walVars
<1>7. OldKeeps
  BY <1>1, <1>2, <1>3, <1>4, <1>5 DEF OldKeeps, OldTypes, TypeHistory
<1>8. QED
  BY <1>6, <1>7 DEF OldStep

LEMMA OldFlushUnlinkStep == ASSUME TypeOK, OldTypes, Old!FlushUnlink PROVE OldStep
<1> USE BasicSets
<1>1. TypeDirectory /\ TypeHistory
  BY DEF TypeOK
<1>2. /\ oFl.pc = "unlink" /\ oFl.todo # {}
      /\ UnlinkWal(Min(oFl.todo)) \/ UNCHANGED walVars
      /\ oFl' = [oFl EXCEPT !.todo = oFl.todo \ {Min(oFl.todo)},
                            !.pc = IF oFl.todo = {Min(oFl.todo)} THEN "ok" ELSE "unlink"]
      /\ UNCHANGED <<files, sst, manifest, oMem, oActive, oImms, oLevels, oNextSeq>>
      /\ UNCHANGED <<ops, kv, gone, snap, durable, acked, closed, stops>>
  BY OldConstants
     DEF OldTypes, Old!FlushUnlink, Old!UnlinkWal, UnlinkWal, Old!walVars, walVars, Old!sstVars,
         Old!ghosts
<1>3. PICK m : m = Min(oFl.todo)
  OBVIOUS
<1>4. /\ oFl' \in FlType /\ oFl'.pc # "commit" /\ oFl'.todo = oFl.todo \ {m}
      /\ oFl'.pc = "unlink" => oFl.todo # {m}
  BY <1>2, <1>3 DEF OldTypes, FlType
<1>5. m \in oFl.todo
  BY <1>2, <1>3, MinOfNats DEF OldTypes, FlType
<1>6. TypeDirectory'
  BY <1>1, <1>2, TypeUnlinkWal DEF TypeDirectory, walVars
<1>7. OldUnlinks /\ OldGenerations
  BY <1>2, <1>4 DEF OldUnlinks, OldGenerations
<1>8. OldKeeps
  BY <1>1, <1>2, <1>4, <1>5, <1>6 DEF OldKeeps, OldTypes, TypeHistory
<1>9. QED
  BY <1>7, <1>8 DEF OldStep

LEMMA OldCompactBuildStep == ASSUME TypeOK, OldTypes, Old!CompactBuild("worker") PROVE OldStep
<1> USE BasicSets
<1>1. TypeDirectory /\ TypeHistory
  BY DEF TypeOK
<1>2. PICK t \in Table : t = Old!Merged(oLevels)
  BY OldMerges DEF OldTypes
<1>3. \/ UNCHANGED <<oNextSeq, files, sst>> /\ oFl' = [FlFree EXCEPT !.pc = "merged", !.by = "worker"]
      \/ /\ oNextSeq \in Seqs /\ oNextSeq' = oNextSeq + 1
         /\ files' = [files EXCEPT ![1] = files[1] \cup {oNextSeq}]
         /\ sst' = [sst EXCEPT ![1] = [sst[1] EXCEPT ![oNextSeq] = t]]
         /\ oFl' = [FlFree EXCEPT !.pc = "merged", !.by = "worker", !.seq = oNextSeq]
  <2>1. Old!CanAllocate => oNextSeq \in Seqs
    BY BoundsAssumption DEF OldTypes, Old!CanAllocate, Seqs
  <2>2. CASE Old!Merged(oLevels) = Old!EmptyTable
    BY <2>2, OldConstants DEF Old!CompactBuild
  <2>3. CASE Old!Merged(oLevels) # Old!EmptyTable
    BY <1>2, <2>1, <2>3, OldConstants DEF Old!CompactBuild
  <2>4. QED
    BY <2>2, <2>3
<1>4. /\ UNCHANGED <<walFiles, wlog, wos, wsync, manifest, oMem, oActive, oImms, oLevels>>
      /\ UNCHANGED <<ops, kv, gone, snap, durable, acked, closed, stops>>
  BY DEF Old!CompactBuild, Old!walVars, Old!ghosts
<1>5. oNextSeq' \in 1 .. (MaxSeq + 1)
  BY <1>3, BoundsAssumption DEF OldTypes, Seqs
<1>6. oFl' \in FlType /\ oFl'.pc = "merged" /\ oFl'.todo = {}
  BY <1>3 DEF FlFree, FlType, Callers
<1>f. /\ files \in [Levels -> SUBSET Seqs] /\ files[1] \in SUBSET Seqs
      /\ sst \in [Levels -> [Seqs -> Table]]
  BY <1>1 DEF TypeDirectory
<1>7. files' \in [Levels -> SUBSET Seqs] /\ \A l \in Levels : files[l] \subseteq files'[l]
  <2>1. CASE UNCHANGED files
    BY <1>f, <2>1
  <2>2. CASE oNextSeq \in Seqs /\ files' = [files EXCEPT ![1] = files[1] \cup {oNextSeq}]
    BY <1>f, <2>2
  <2>3. QED
    BY <1>3, <2>1, <2>2
<1>8. sst' \in [Levels -> [Seqs -> Table]]
  <2>1. oNextSeq \in Seqs =>
          [sst EXCEPT ![1] = [sst[1] EXCEPT ![oNextSeq] = t]] \in [Levels -> [Seqs -> Table]]
    BY <1>f, LevelUpdate, Zenon
  <2>2. QED
    BY <1>3, <1>f, <2>1, Zenon
<1>9. TypeDirectory'
  BY <1>1, <1>4, <1>7, <1>8 DEF TypeDirectory
<1>10. OldUnlinks /\ OldGenerations
  BY <1>4, <1>6, <1>7 DEF OldUnlinks, OldGenerations, walVars
<1>11. OldKeeps
  BY <1>1, <1>4, <1>5, <1>6, <1>9 DEF OldKeeps, OldTypes, TypeHistory
<1>12. QED
  BY <1>10, <1>11 DEF OldStep

LEMMA OldCompactCommitStep == ASSUME TypeOK, OldTypes, Old!CompactCommit PROVE OldStep
<1> USE BasicSets
<1>1. TypeDirectory /\ TypeHistory
  BY DEF TypeOK
<1>2. /\ oLevels' = [l \in Levels |-> IF l = 1 /\ oFl.seq # 0 THEN {oFl.seq} ELSE {}]
      /\ oFl' = [oFl EXCEPT !.pc = "record", !.inputs = oLevels, !.seq = 0]
      /\ gone' = NewerOf(gone, Old!Dropped(oLevels))
      /\ UNCHANGED <<walFiles, wlog, wos, wsync, files, sst, manifest>>
      /\ UNCHANGED <<oMem, oActive, oImms, oNextSeq>>
      /\ UNCHANGED <<ops, kv, snap, durable, acked, closed, stops>>
  BY OldConstants
     DEF Old!CompactCommit, Old!Compacted, Old!dirVars, Old!promises, Old!NewerOf, NewerOf
<1>3. gone' \in Table
  <2>1. Old!Dropped(oLevels) \in Table
    BY OldMerges DEF OldTypes
  <2>2. QED
    BY <1>1, <1>2, <2>1 DEF TypeHistory, NewerOf, Table
<1>4. oLevels' \in [Levels -> SUBSET Seqs]
  <2>1. oFl.seq \in 0 .. MaxSeq
    BY DEF OldTypes, FlType
  <2>2. oFl.seq # 0 => oFl.seq \in Seqs
    BY <2>1, BoundsAssumption DEF Seqs
  <2>3. QED
    BY <1>2, <2>2
<1>5. oFl' \in FlType /\ oFl'.pc = "record" /\ oFl'.todo = oFl.todo
  <2>1. oFl \in FlType /\ oLevels \in [Levels -> SUBSET Seqs] /\ 0 \in 0 .. MaxSeq
    BY BoundsAssumption DEF OldTypes
  <2>2. QED
    BY <1>2, <2>1 DEF FlType
<1>6. TypeDirectory'
  BY <1>1, <1>2 DEF TypeDirectory
<1>7. OldUnlinks /\ OldGenerations
  BY <1>2, <1>5 DEF OldUnlinks, OldGenerations, walVars
<1>8. OldKeeps
  BY <1>1, <1>2, <1>3, <1>4, <1>5, <1>6 DEF OldKeeps, OldTypes, TypeHistory
<1>9. QED
  BY <1>7, <1>8 DEF OldStep

LEMMA OldCompactUnlinkStep ==
    ASSUME TypeOK, OldTypes, NEW l \in Levels, Old!CompactUnlink(l)
    PROVE  OldStep
<1> USE BasicSets
<1>1. TypeDirectory /\ TypeHistory
  BY DEF TypeOK
<1>2. PICK m : m = Min(oFl.inputs[l])
  OBVIOUS
<1>3. /\ oFl.pc = "sweep" /\ oFl.inputs[l] # {}
      /\ \/ UNCHANGED <<files, sst>>
         \/ /\ files' = [files EXCEPT ![l] = files[l] \ {m}]
            /\ sst' = [sst EXCEPT ![l] = [sst[l] EXCEPT ![m] = EmptyTable]]
      /\ oFl' = [oFl EXCEPT !.inputs = [oFl.inputs EXCEPT ![l] = oFl.inputs[l] \ {m}]]
      /\ UNCHANGED <<walFiles, wlog, wos, wsync, manifest, oMem, oActive, oImms, oLevels, oNextSeq>>
      /\ UNCHANGED <<ops, kv, gone, snap, durable, acked, closed, stops>>
  BY <1>2, OldConstants DEF Old!CompactUnlink, Old!Min, Min, Old!walVars, Old!ghosts
<1>4. oFl \in FlType /\ oFl.inputs \in [Levels -> SUBSET Seqs]
  BY DEF OldTypes, FlType
<1>5. m \in Seqs
  BY <1>2, <1>3, <1>4, MinOfNats
<1>6. /\ files' \in [Levels -> SUBSET Seqs] /\ sst' \in [Levels -> [Seqs -> Table]]
  <2>1. /\ files \in [Levels -> SUBSET Seqs] /\ files[l] \ {m} \in SUBSET Seqs
        /\ sst \in [Levels -> [Seqs -> Table]]
    BY <1>1 DEF TypeDirectory
  <2>2. /\ [files EXCEPT ![l] = files[l] \ {m}] \in [Levels -> SUBSET Seqs]
        /\ [sst EXCEPT ![l] = [sst[l] EXCEPT ![m] = EmptyTable]] \in [Levels -> [Seqs -> Table]]
    BY <1>5, <2>1, LevelUpdate, Zenon
  <2>3. QED
    BY <1>3, <2>1, <2>2, Zenon
<1>7. oFl' \in FlType /\ oFl'.pc = "sweep" /\ oFl'.todo = oFl.todo
  <2>1. [oFl.inputs EXCEPT ![l] = oFl.inputs[l] \ {m}] \in [Levels -> SUBSET Seqs]
    BY <1>4
  <2>2. QED
    BY <1>3, <1>4, <2>1 DEF FlType
<1>8. TypeDirectory'
  BY <1>1, <1>3, <1>6 DEF TypeDirectory
<1>9. OldUnlinks /\ OldGenerations
  BY <1>3, <1>7 DEF OldUnlinks, OldGenerations, walVars
<1>10. OldKeeps
  BY <1>1, <1>3, <1>7, <1>8 DEF OldKeeps, OldTypes, TypeHistory
<1>11. QED
  BY <1>9, <1>10 DEF OldStep

\* Every step of the worker of the dropped engine is of this kind.
LEMMA OldWorkerStep ==
    ASSUME TypeOK, OldTypes, OldWorker
    PROVE  /\ OldStep /\ oLive /\ merged' = (merged \/ Committed(oFl'))
           /\ UNCHANGED <<process, dropped, oLive, oBuf>>
<1>1. /\ oLive /\ merged' = (merged \/ Committed(oFl'))
      /\ UNCHANGED <<process, dropped, oLive, oBuf>>
  BY DEF OldWorker
<1>2. OldStep
  BY OldMovesAre, OldMovesStep, OldFlushBuildStep, OldFlushCommitStep, OldFlushUnlinkStep,
     OldCompactBuildStep, OldCompactCommitStep, OldCompactUnlinkStep DEF OldWorker
<1>3. QED
  BY <1>1, <1>2

-----------------------------------------------------------------------------
(* The steps of the dropped engine keep the invariant.                     *)

\* The numbers in play are naturals.
LEMMA ReopenNumbers ==
    ASSUME TypeOK, OldTypes
    PROVE  /\ active \in Nat /\ nextSeq \in Nat /\ oActive \in Nat /\ oNextSeq \in Nat
           /\ fl.seq \in Nat /\ fl.gen \in Nat /\ wr.new \in Nat /\ oFl.gen \in Nat
           /\ imms \subseteq Nat /\ stale \subseteq Nat /\ walFiles \subseteq Nat
           /\ oImms \subseteq Nat /\ fl.todo \subseteq Nat /\ oFl.todo \subseteq Nat
           /\ \A l \in Levels : /\ files[l] \subseteq Nat /\ levels[l] \subseteq Nat
                                /\ manifest[l] \subseteq Nat /\ fl.inputs[l] \subseteq Nat
<1> USE BasicSets, BoundsAssumption
<1>1. fl \in FlType /\ oFl \in FlType /\ wr \in WrType
  BY DEF TypeOK, TypeProcess, OldTypes
<1>2. /\ fl.seq \in 0 .. MaxSeq /\ fl.gen \in 0 .. MaxSeq /\ oFl.gen \in 0 .. MaxSeq
      /\ fl.todo \subseteq Seqs /\ oFl.todo \subseteq Seqs
      /\ fl.inputs \in [Levels -> SUBSET Seqs] /\ wr.new \in 0 .. MaxSeq
  BY <1>1 DEF FlType, WrType
<1>3. \A n \in 0 .. MaxSeq : n \in Nat
  OBVIOUS
<1>4. /\ active \in 0 .. MaxSeq /\ oActive \in 0 .. MaxSeq
      /\ nextSeq \in 1 .. (MaxSeq + 1) /\ oNextSeq \in 1 .. (MaxSeq + 1)
      /\ imms \subseteq Seqs /\ stale \subseteq Seqs /\ walFiles \subseteq Seqs /\ oImms \subseteq Seqs
      /\ files \in [Levels -> SUBSET Seqs] /\ levels \in [Levels -> SUBSET Seqs]
      /\ manifest \in [Levels -> SUBSET Seqs]
  BY DEF TypeOK, TypeDirectory, TypeProcess, OldTypes
<1>5. nextSeq \in Nat /\ oNextSeq \in Nat
  BY <1>4
<1>6. /\ active \in Nat /\ oActive \in Nat /\ fl.seq \in Nat /\ fl.gen \in Nat /\ wr.new \in Nat
      /\ oFl.gen \in Nat
  BY <1>2, <1>3, <1>4
<1>7. ASSUME NEW f \in [Levels -> SUBSET Seqs], NEW l \in Levels PROVE f[l] \subseteq Nat
  OBVIOUS
<1>8. /\ imms \subseteq Nat /\ stale \subseteq Nat /\ walFiles \subseteq Nat
      /\ oImms \subseteq Nat /\ fl.todo \subseteq Nat /\ oFl.todo \subseteq Nat
  BY <1>2, <1>4
<1>9. \A l \in Levels : /\ files[l] \subseteq Nat /\ levels[l] \subseteq Nat
                        /\ manifest[l] \subseteq Nat /\ fl.inputs[l] \subseteq Nat
  BY <1>2, <1>4, <1>7
<1>10. QED
  BY <1>5, <1>6, <1>8, <1>9

\* The files it deletes are older than its active WAL.
LEMMA OldWalsKept ==
    ASSUME TypeOK, OldTypes, DroppedLogs, oLive, OldUnlinks
    PROVE  walFiles' \subseteq walFiles /\ \A g \in walFiles : oActive <= g => g \in walFiles'
<1>1. CASE UNCHANGED walVars
  BY <1>1 DEF walVars
<1>2. CASE oFl.todo # {} /\ UnlinkWal(Min(oFl.todo))
  <2>1. PICK m : m = Min(oFl.todo)
    OBVIOUS
  <2>2. m \in oFl.todo /\ walFiles' = walFiles \ {m}
    BY <1>2, <2>1, MinOfNats, ReopenNumbers DEF UnlinkWal
  <2>3. m \in Nat /\ oActive \in Nat /\ m < oActive
    BY <2>2, ReopenNumbers DEF DroppedLogs
  <2>4. QED
    BY <2>2, <2>3
<1>3. QED
  BY <1>1, <1>2 DEF OldUnlinks

LEMMA OldWorkerInv == ASSUME ReopenInv, OldWorker PROVE ReopenInv'
<1>1. TypeOK /\ OldTypes /\ Idle /\ OwnLogs /\ DroppedLogs
  BY DEF ReopenInv
<1>2. /\ OldUnlinks /\ OldGenerations /\ OldKeeps
      /\ oLive /\ oLive' /\ oActive' = oActive /\ merged' = (merged \/ Committed(oFl'))
      /\ UNCHANGED <<mode, mem, active, imms, levels, nextSeq, stale, wr, fl, wk, signals, calls>>
      /\ UNCHANGED oBuf
  BY <1>1, OldWorkerStep DEF OldStep, OldKeeps, process
<1>3. TypeOK'
  <2>1. TypeProcess'
    BY <1>1, <1>2 DEF TypeOK, TypeProcess
  <2>2. TypeHistory'
    BY <1>1, <1>2 DEF TypeOK, TypeHistory, OldKeeps
  <2>3. QED
    BY <1>2, <2>1, <2>2 DEF TypeOK, OldKeeps
<1>4. OldTypes'
  BY <1>1, <1>2 DEF OldTypes, OldKeeps, OldGenerations
<1>5. Idle'
  BY <1>1, <1>2 DEF Idle
<1>6. walFiles' \subseteq walFiles /\ \A g \in walFiles : oActive <= g => g \in walFiles'
  BY <1>1, <1>2, OldWalsKept
<1>7. OwnLogs'
  <2>1. SUFFICES ASSUME mode # "down" PROVE OwnLogs'
    BY <1>2 DEF OwnLogs
  <2>2. \A g \in imms \cup {active} : g \in Nat /\ oActive \in Nat /\ oActive <= g
    BY <1>1, <1>2, <2>1, ReopenNumbers DEF DroppedLogs
  <2>3. imms \cup {active} \subseteq walFiles'
    BY <1>1, <1>6, <2>1, <2>2 DEF OwnLogs
  <2>4. wr.pc = "swap" => wr.new \in walFiles'
    <3>1. SUFFICES ASSUME wr.pc = "swap" PROVE wr.new \in walFiles'
      OBVIOUS
    <3>2. wr.new \in walFiles /\ active < wr.new /\ wr.new \in Nat /\ active \in Nat
      BY <1>1, <2>1, <3>1, ReopenNumbers DEF OwnLogs
    <3>3. oActive <= wr.new
      BY <2>2, <3>2
    <3>4. QED
      BY <1>6, <3>2, <3>3
  <2>5. QED
    BY <1>1, <1>2, <1>6, <2>1, <2>3, <2>4 DEF OwnLogs
<1>8. DroppedLogs'
  <2>1. \A g \in oImms' \cup oFl'.todo : g < oActive
    BY <1>1, <1>2 DEF DroppedLogs, OldGenerations
  <2>2. oFl'.pc = "commit" => oFl'.gen < oActive
    BY <1>1, <1>2 DEF DroppedLogs, OldGenerations
  <2>3. mode = "down" => \E g \in walFiles' : oActive <= g
    BY <1>1, <1>2, <1>6 DEF DroppedLogs
  <2>4. QED
    BY <1>1, <1>2, <2>1, <2>2, <2>3 DEF DroppedLogs
<1>11. QED
  BY <1>3, <1>4, <1>5, <1>7, <1>8 DEF ReopenInv

\* The drop of the dropped engine touches only its own WAL file.
LEMMA OldDropInv == ASSUME ReopenInv, OldDrop PROVE ReopenInv'
<1>1. TypeOK /\ OldTypes /\ Idle /\ OwnLogs /\ DroppedLogs
  BY DEF ReopenInv
<1>2. /\ ~ oLive' /\ oLive' = FALSE
      /\ UNCHANGED <<walFiles, files, sst, manifest, merged>>
      /\ UNCHANGED <<mode, mem, active, imms, levels, nextSeq, stale, wr, fl, wk, signals, calls>>
      /\ UNCHANGED <<ops, kv, gone, snap, durable, acked, closed, stops>>
      /\ UNCHANGED <<oMem, oActive, oImms, oLevels, oNextSeq, oFl, oBuf>>
  BY DEF OldDrop, process, ghosts, oVars
<1>3. wlog' \in [Seqs -> Seq(1 .. MaxWrites)] /\ wos' \in [Seqs -> Nat] /\ wsync' \in [Seqs -> Nat]
  <2>1. /\ wlog \in [Seqs -> Seq(1 .. MaxWrites)] /\ wos \in [Seqs -> Nat] /\ wsync \in [Seqs -> Nat]
        /\ walFiles \subseteq Seqs /\ oBuf \in Seq(1 .. MaxWrites)
    BY <1>1 DEF TypeOK, TypeDirectory, OldTypes
  <2>2. CASE oActive \in walFiles
    <3>1. wlog[oActive] \o oBuf \in Seq(1 .. MaxWrites)
      BY <2>1, <2>2, ConcatProperties
    <3>2. wlog' = [wlog EXCEPT ![oActive] = wlog[oActive] \o oBuf]
      BY <2>2 DEF OldDrop
    <3>3. wlog' \in [Seqs -> Seq(1 .. MaxWrites)]
      BY <2>1, <3>1, <3>2
    <3>4. Len(wlog'[oActive]) \in Nat
      BY <2>1, <2>2, <3>3
    <3>5. QED
      BY <2>1, <2>2, <3>3, <3>4 DEF OldDrop
  <2>3. CASE oActive \notin walFiles
    BY <2>1, <2>3 DEF OldDrop
  <2>4. QED
    BY <2>2, <2>3
<1>4. TypeDirectory'
  BY <1>1, <1>2, <1>3 DEF TypeOK, TypeDirectory
<1>5. TypeOK'
  BY <1>1, <1>2, <1>4 DEF TypeOK, TypeProcess, TypeHistory
<1>6. OldTypes' /\ Idle' /\ DroppedLogs'
  BY <1>1, <1>2 DEF OldTypes, Idle, DroppedLogs
<1>7. OwnLogs'
  BY <1>1, <1>2 DEF OwnLogs
<1>8. QED
  BY <1>5, <1>6, <1>7 DEF ReopenInv

\* The handle is dropped: what the dropped engine will still delete is older than its
\* active WAL, whose file is there.
LEMMA DropHandleInv == ASSUME ReopenInv, DropHandle PROVE ReopenInv'
<1> USE BasicSets
<1>1. TypeOK /\ OldTypes /\ Idle /\ OwnLogs /\ DroppedLogs
  BY DEF ReopenInv
<1>2. /\ mode = "up" /\ mode' = "down" /\ ProcessGone
      /\ oMem' = mem /\ oActive' = active /\ oImms' = imms /\ oLevels' = levels
      /\ oNextSeq' = nextSeq /\ oFl' = fl /\ oLive' = TRUE /\ merged' = Committed(fl)
      /\ closed' = kv
      /\ UNCHANGED <<walFiles, wos, wsync, files, sst, manifest, ops, kv, gone, durable, acked, stops>>
  BY DEF DropHandle, ProcessGone
<1>3. PICK n \in wos[active] .. Len(wlog[active]) :
         /\ wlog' = [wlog EXCEPT ![active] = SubSeq(wlog[active], 1, n)]
         /\ oBuf' = SubSeq(wlog[active], n + 1, Len(wlog[active]))
  BY DEF DropHandle
<1>4. active \in Seqs /\ wlog[active] \in Seq(1 .. MaxWrites) /\ n \in Nat /\ n <= Len(wlog[active])
  BY <1>1, <1>2 DEF TypeOK, TypeDirectory, TypeProcess
<1>5. SubSeq(wlog[active], 1, n) \in Seq(1 .. MaxWrites) /\ oBuf' \in Seq(1 .. MaxWrites)
  <2>1. PICK W \in Seq(1 .. MaxWrites) : W = wlog[active]
    BY <1>4
  <2>2. \A i \in 1 .. n : W[i] \in 1 .. MaxWrites
    <3>1. SUFFICES ASSUME NEW i \in 1 .. n PROVE i \in 1 .. Len(W)
      BY ElementOfSeq
    <3>2. QED
      BY <1>4, <2>1
  <2>3. \A i \in (n + 1) .. Len(W) : W[i] \in 1 .. MaxWrites
    <3>1. SUFFICES ASSUME NEW i \in (n + 1) .. Len(W) PROVE i \in 1 .. Len(W)
      BY ElementOfSeq
    <3>2. QED
      BY <1>4, <2>1
  <2>4. QED
    BY <1>3, <1>4, <2>1, <2>2, <2>3, SubSeqProperties
<1>6. TypeOK'
  <2>1. TypeDirectory'
    BY <1>1, <1>2, <1>3, <1>4, <1>5 DEF TypeOK, TypeDirectory
  <2>2. TypeProcess' /\ wr' = WrFree /\ snap' \in [Clients -> Table]
    BY <1>2, TypeProcessGone
  <2>3. TypeHistory'
    BY <1>1, <1>2, <2>2 DEF TypeOK, TypeHistory, WrFree
  <2>4. QED
    BY <2>1, <2>2, <2>3 DEF TypeOK
<1>7. OldTypes'
  <2>1. merged' \in BOOLEAN
    BY <1>2 DEF Committed
  <2>2. QED
    BY <1>1, <1>2, <1>5, <2>1 DEF OldTypes, TypeOK, TypeProcess, Idle
<1>8. Idle'
  BY <1>2 DEF Idle, ProcessGone, WrFree, FlFree
<1>9. OwnLogs'
  BY <1>2 DEF OwnLogs
<1>10. DroppedLogs'
  <2>1. /\ active \in walFiles /\ active <= active
        /\ \A g \in imms \cup fl.todo : g < active
        /\ fl.pc = "commit" => fl.gen < active
    BY <1>1, <1>2, ReopenNumbers DEF OwnLogs
  <2>2. QED
    BY <1>2, <2>1 DEF DroppedLogs
<1>12. QED
  BY <1>6, <1>7, <1>8, <1>9, <1>10 DEF ReopenInv

-----------------------------------------------------------------------------
(* The steps of the engine in use keep the invariant.                      *)

oldVars == <<merged, oLive, oVars>>

\* What a step of the engine in use has to preserve.
Own == Idle /\ OwnLogs /\ DroppedLogs

\* The holder of flush_lock moves on without touching a MemTable or a level.
FlushLockMoves ==
    /\ mode = "up" /\ fl'.todo \subseteq fl.todo /\ fl'.pc \notin {"commit", "merged"}
    /\ fl'.pc = "unlink" => fl'.todo # {}

\* Steps that leave the WAL files, the MemTables and the levels alone.
LEMMA QuietStep ==
    ASSUME ReopenInv, TypeOK', UNCHANGED oldVars,
           UNCHANGED <<walFiles, files, mode, active, imms, levels, stale>>,
           nextSeq' = nextSeq \/ nextSeq' = nextSeq + 1,
           wr' = wr \/ wr'.pc # "swap", fl' = fl \/ FlushLockMoves
    PROVE  Own'
<1>1. TypeOK /\ OldTypes /\ Idle /\ OwnLogs /\ DroppedLogs
  BY DEF ReopenInv
<1>n. nextSeq \in Nat /\ nextSeq' \in Nat /\ nextSeq <= nextSeq'
  BY <1>1, ReopenNumbers
<1>s. \A n \in Nat : n < nextSeq => n < nextSeq'
  BY <1>n
<1>2. Idle'
  <2>1. mode # "up" => wr'.pc = "free"
    BY DEF TypeOK, TypeProcess
  <2>2. QED
    BY <1>1, <2>1 DEF Idle, FlushLockMoves
<1>3. OwnLogs'
  <2>1. SUFFICES ASSUME mode # "down" PROVE OwnLogs'
    BY DEF OwnLogs
  <2>2. \A g \in walFiles : g < nextSeq'
    BY <1>1, <1>s, <2>1, ReopenNumbers DEF OwnLogs
  <2>3. CASE fl' = fl
    BY <1>1, <2>1, <2>2, <2>3 DEF OwnLogs
  <2>4. CASE FlushLockMoves
    BY <1>1, <2>1, <2>2, <2>4 DEF OwnLogs, FlushLockMoves
  <2>5. QED
    BY <2>3, <2>4
<1>4. DroppedLogs'
  BY <1>1 DEF DroppedLogs, oldVars, oVars
<1>6. QED
  BY <1>2, <1>3, <1>4 DEF Own

\* The engine stops: the WAL of its active MemTable stays to be found.
LEMMA StopStep ==
    ASSUME ReopenInv, UNCHANGED oldVars, ProcessGone, UNCHANGED walFiles
    PROVE  Own'
<1>1. TypeOK /\ OldTypes /\ Idle /\ OwnLogs /\ DroppedLogs
  BY DEF ReopenInv
<1>2. mode' = "down" /\ wr' = WrFree /\ fl' = FlFree /\ imms' = {}
  BY DEF ProcessGone
<1>3. Idle' /\ OwnLogs'
  BY <1>2 DEF Idle, OwnLogs, WrFree, FlFree
<1>4. oLive => \E g \in walFiles : oActive <= g
  <2>1. CASE mode = "down"
    BY <1>1, <2>1 DEF DroppedLogs
  <2>2. CASE mode # "down"
    <3>1. oLive => active \in walFiles /\ oActive < active
      BY <1>1, <2>2 DEF DroppedLogs, OwnLogs
    <3>2. QED
      BY <1>1, <3>1, ReopenNumbers
  <2>3. QED
    BY <2>1, <2>2
<1>5. DroppedLogs'
  BY <1>1, <1>2, <1>4 DEF DroppedLogs, oldVars, oVars
<1>6. QED
  BY <1>3, <1>5 DEF Own

LEMMA OwnWritePath == ASSUME ReopenInv, TypeOK', UNCHANGED oldVars, WritePath PROVE Own'
<1>1. TypeOK /\ OldTypes /\ Idle /\ OwnLogs /\ DroppedLogs
  BY DEF ReopenInv
<1>2. ASSUME NEW k \in Keys, NEW del \in BOOLEAN, Write(k, del) \/ WriteSyncFails(k, del) PROVE Own'
  <2>1. /\ UNCHANGED <<walFiles, files, mode, active, imms, levels, stale, nextSeq, fl>>
        /\ wr' = wr \/ wr'.pc # "swap"
    BY <1>2 DEF Write, WriteSyncFails, sstVars
  <2>2. QED
    BY <2>1, QuietStep
<1>3. ASSUME NEW freeze \in BOOLEAN, Apply(freeze) PROVE Own'
  <2>1. UNCHANGED <<walFiles, files, mode, active, imms, levels, stale, nextSeq, fl>>
    BY <1>3 DEF Apply, walVars, sstVars
  <2>2. wr \in WrType
    BY <1>1 DEF TypeOK, TypeProcess
  <2>3. wr'.pc # "swap"
    BY <1>3, <2>2 DEF Apply, WrFree, WrType
  <2>4. QED
    BY <2>1, <2>3, QuietStep
<1>4. ASSUME NEW c \in Clients, FlushSync(c) PROVE Own'
  <2>1. /\ UNCHANGED <<walFiles, files, mode, active, imms, levels, stale, nextSeq, fl>>
        /\ wr' = wr \/ wr'.pc # "swap"
    BY <1>4 DEF FlushSync, sstVars
  <2>2. QED
    BY <2>1, QuietStep
<1>5. CASE RotateFails
  <2>1. /\ UNCHANGED <<walFiles, files, mode, active, imms, levels, stale, fl>>
        /\ nextSeq' = nextSeq + 1 /\ wr'.pc # "swap"
    BY <1>5 DEF RotateFails, walVars, sstVars, WrFree
  <2>2. QED
    BY <2>1, QuietStep
<1>6. CASE Rotate
  <2>1. /\ mode = "up" /\ mode' = "up"
        /\ walFiles' = walFiles \cup {nextSeq} /\ nextSeq' = nextSeq + 1
        /\ UNCHANGED <<files, active, imms, levels, stale, fl>>
    BY <1>1, <1>6 DEF Rotate, sstVars, TypeOK, TypeProcess
  <2>2. wr'.pc = "swap" /\ wr'.new = nextSeq
    <3>1. wr \in WrType
      BY <1>1 DEF TypeOK, TypeProcess
    <3>2. QED
      BY <1>6, <3>1 DEF Rotate, WrType
  <2>3. /\ nextSeq \in Nat /\ active < nextSeq
        /\ \A n \in Nat : n < nextSeq => n < nextSeq + 1
    BY <1>1, <2>1, ReopenNumbers DEF OwnLogs
  <2>4. Idle' /\ DroppedLogs'
    BY <1>1, <2>1 DEF Idle, DroppedLogs, oldVars, oVars
  <2>5. OwnLogs'
    <3>1. \A g \in walFiles' : g < nextSeq + 1
      BY <1>1, <2>1, <2>3, ReopenNumbers DEF OwnLogs
    <3>2. QED
      BY <1>1, <2>1, <2>2, <2>3, <3>1 DEF OwnLogs
  <2>7. QED
    BY <2>4, <2>5 DEF Own
<1>7. CASE Swap
  <2>1. /\ mode = "up" /\ mode' = "up" /\ wr.pc = "swap"
        /\ imms' = imms \cup {active} /\ active' = wr.new /\ wr' = WrFree
        /\ UNCHANGED <<walFiles, files, levels, stale, fl, nextSeq>>
    BY <1>1, <1>7 DEF Swap, sstVars, TypeOK, TypeProcess
  <2>2. wr'.pc = "free"
    BY <2>1 DEF WrFree
  <2>3. active \in Nat /\ wr.new \in Nat /\ active < wr.new /\ wr.new \in walFiles
    BY <1>1, <2>1, ReopenNumbers DEF OwnLogs
  <2>t. \A n \in Nat : n < active => n < wr.new
    BY <2>3
  <2>4. Idle'
    BY <1>1, <2>1, <2>2 DEF Idle
  <2>5. DroppedLogs'
    BY <1>1, <2>1, <2>t, ReopenNumbers DEF DroppedLogs, oldVars, oVars
  <2>6. OwnLogs'
    <3>1. imms' \cup {active'} \subseteq walFiles /\ \A g \in imms' : g < active'
      BY <1>1, <2>1, <2>3, <2>t, ReopenNumbers DEF OwnLogs
    <3>2. \A t \in fl.todo, g \in imms' \cup {active'} : t < g
      BY <1>1, <2>1, <2>t, ReopenNumbers DEF OwnLogs
    <3>3. fl.pc = "commit" => fl.gen \in imms' /\ \A g \in imms' : fl.gen <= g
      <4>1. fl.pc = "commit" => fl.gen \in imms /\ fl.gen < active /\ \A g \in imms : fl.gen <= g
        BY <1>1, <2>1 DEF OwnLogs
      <4>2. fl.gen < active => fl.gen <= active
        BY <1>1, <2>3, ReopenNumbers
      <4>3. QED
        BY <2>1, <4>1, <4>2
    <3>4. \A g \in stale : g < active'
      BY <1>1, <2>1, <2>t, ReopenNumbers DEF OwnLogs
    <3>5. QED
      BY <1>1, <2>1, <2>2, <3>1, <3>2, <3>3, <3>4 DEF OwnLogs
  <2>8. QED
    BY <2>4, <2>5, <2>6 DEF Own
<1>8. QED
  BY <1>2, <1>3, <1>4, <1>5, <1>6, <1>7 DEF WritePath

LEMMA OwnFlushPipeline == ASSUME ReopenInv, TypeOK', UNCHANGED oldVars, FlushPipeline PROVE Own'
<1>1. TypeOK /\ OldTypes /\ Idle /\ OwnLogs /\ DroppedLogs
  BY DEF ReopenInv
<1>2. fl \in FlType /\ levels \in [Levels -> SUBSET Seqs] /\ files \in [Levels -> SUBSET Seqs]
  BY <1>1 DEF TypeOK, TypeProcess, TypeDirectory
<1>3. fl.pc # "free" => mode = "up"
  BY <1>1 DEF Idle, FlFree
<1>f. FlFree.pc = "free" /\ FlFree.todo = {}
  BY DEF FlFree
<1>4. ASSUME NEW p \in Clients \cup {"worker"}, FlushBegin(p) PROVE Own'
  <2>1. /\ UNCHANGED <<walFiles, files, mode, active, imms, levels, stale, nextSeq, wr>>
        /\ mode = "up" /\ fl' = [FlFree EXCEPT !.pc = "drain", !.by = p]
    BY <1>4 DEF FlushBegin, dirVars
  <2>2. fl'.pc = "drain" /\ fl'.todo = {}
    BY <2>1 DEF FlFree
  <2>3. FlushLockMoves
    BY <2>1, <2>2 DEF FlushLockMoves
  <2>4. QED
    BY <2>1, <2>3, QuietStep
<1>5. CASE FlushBuildFails \/ FlushManifestFails \/ FlushReturn
  <2>1. /\ UNCHANGED <<walFiles, files, mode, active, imms, levels, stale, wr>>
        /\ nextSeq' = nextSeq \/ nextSeq' = nextSeq + 1
        /\ fl' = FlFree /\ fl.pc # "free"
    BY <1>5 DEF FlushBuildFails, FlushManifestFails, FlushReturn, Release, dirVars
  <2>2. FlushLockMoves
    BY <1>3, <1>f, <2>1 DEF FlushLockMoves
  <2>3. QED
    BY <2>1, <2>2, QuietStep
<1>6. CASE FlushNothing
  <2>1. /\ UNCHANGED <<walFiles, files, mode, active, imms, levels, stale, nextSeq, wr>>
        /\ fl' = [fl EXCEPT !.pc = "ok"] /\ fl.pc # "free"
    BY <1>6 DEF FlushNothing, dirVars
  <2>2. fl'.pc = "ok" /\ fl'.todo = fl.todo
    BY <1>2, <2>1 DEF FlType
  <2>3. FlushLockMoves
    BY <1>3, <2>1, <2>2 DEF FlushLockMoves
  <2>4. QED
    BY <2>1, <2>3, QuietStep
<1>7. CASE FlushManifest
  <2>1. /\ UNCHANGED <<walFiles, files, mode, active, imms, levels, stale, nextSeq, wr>>
        /\ fl' = [fl EXCEPT !.pc = "unlink"] /\ fl.pc # "free" /\ fl.todo # {}
    BY <1>7 DEF FlushManifest, walVars
  <2>2. fl'.pc = "unlink" /\ fl'.todo = fl.todo
    BY <1>2, <2>1 DEF FlType
  <2>3. FlushLockMoves
    BY <1>3, <2>1, <2>2 DEF FlushLockMoves
  <2>4. QED
    BY <2>1, <2>3, QuietStep
<1>8. CASE FlushBuild
  <2>1. /\ mode = "up" /\ mode' = "up" /\ imms # {}
        /\ nextSeq' = nextSeq + 1 /\ files' = [files EXCEPT ![0] = files[0] \cup {nextSeq}]
        /\ fl' = [fl EXCEPT !.pc = "commit", !.gen = Min(imms), !.seq = nextSeq]
        /\ UNCHANGED <<walFiles, active, imms, levels, stale, wr>>
    BY <1>3, <1>8 DEF FlushBuild, FirstFrozen, walVars
  <2>2. fl'.pc = "commit" /\ fl'.gen = Min(imms) /\ fl'.seq = nextSeq /\ fl'.todo = fl.todo
    BY <1>2, <2>1 DEF FlType
  <2>3. Min(imms) \in imms /\ \A g \in imms : Min(imms) <= g
    BY <1>1, <2>1, MinOfNats, ReopenNumbers
  <2>4. nextSeq \in Nat /\ nextSeq < nextSeq + 1 /\ \A n \in Nat : n < nextSeq => n < nextSeq + 1
    BY <1>1, ReopenNumbers
  <2>6. Idle' /\ DroppedLogs'
    BY <1>1, <2>1, <2>2 DEF Idle, DroppedLogs, oldVars, oVars
  <2>7. OwnLogs'
    <3>1. \A g \in walFiles : g < nextSeq + 1
      BY <1>1, <2>1, <2>4, ReopenNumbers DEF OwnLogs
    <3>2. QED
      BY <1>1, <2>1, <2>2, <2>3, <3>1 DEF OwnLogs
  <2>9. QED
    BY <2>6, <2>7 DEF Own
<1>9. CASE FlushCommit
  <2>1. /\ mode = "up" /\ mode' = "up" /\ fl.pc = "commit"
        /\ levels' = [levels EXCEPT ![0] = levels[0] \cup {fl.seq}]
        /\ imms' = imms \ {fl.gen}
        /\ fl' = [fl EXCEPT !.pc = "drain", !.todo = fl.todo \cup {fl.gen}, !.gen = 0, !.seq = 0]
        /\ UNCHANGED <<walFiles, files, active, stale, wr, nextSeq>>
    BY <1>3, <1>9 DEF FlushCommit, StillFrozen, Flushed, dirVars
  <2>2. fl'.pc = "drain" /\ fl'.todo = fl.todo \cup {fl.gen}
    BY <1>2, <2>1 DEF FlType
  <2>3. Idle'
    BY <1>1, <2>1, <2>2 DEF Idle
  <2>4. DroppedLogs'
    BY <1>1, <2>1 DEF DroppedLogs, oldVars, oVars
  <2>5. OwnLogs'
    <3>1. \A g \in imms' \cup {active} : fl.gen < g
      <4>1. /\ fl.gen \in imms /\ fl.gen < active
            /\ \A g \in imms : fl.gen <= g
        BY <1>1, <2>1 DEF OwnLogs
      <4>2. \A g \in imms : g \in Nat /\ fl.gen \in Nat
        BY <1>1, ReopenNumbers
      <4>3. QED
        BY <2>1, <4>1, <4>2
    <3>2. \A t \in fl'.todo, g \in imms' \cup {active} : t < g
      BY <1>1, <2>1, <2>2, <3>1 DEF OwnLogs
    <3>3. QED
      BY <1>1, <2>1, <2>2, <3>2 DEF OwnLogs
  <2>7. QED
    BY <2>3, <2>4, <2>5 DEF Own
<1>10. CASE FlushUnlink
  <2>1. PICK m : m = Min(fl.todo)
    OBVIOUS
  <2>2. /\ mode = "up" /\ mode' = "up" /\ fl.pc = "unlink" /\ fl.todo # {}
        /\ walFiles' = walFiles \ {m} \/ walFiles' = walFiles
        /\ fl' = [fl EXCEPT !.todo = fl.todo \ {m}, !.pc = IF fl.todo = {m} THEN "ok" ELSE "unlink"]
        /\ UNCHANGED <<files, levels, imms, active, stale, wr, nextSeq>>
    BY <1>1, <1>3, <1>10, <2>1 DEF FlushUnlink, OldestGen, UnlinkWal, walVars, sstVars, Idle
  <2>3. fl'.todo = fl.todo \ {m} /\ fl'.pc \in {"ok", "unlink"} /\ (fl'.pc = "unlink" => fl.todo # {m})
    BY <1>2, <2>2 DEF FlType
  <2>4. m \in fl.todo
    BY <1>1, <2>1, <2>2, MinOfNats, ReopenNumbers
  <2>5. m \in Nat /\ active \in Nat /\ m < active /\ \A g \in imms : g \in Nat /\ m < g
    BY <1>1, <2>2, <2>4, ReopenNumbers DEF OwnLogs
  <2>6. Idle'
    BY <1>1, <2>2, <2>3, <2>4 DEF Idle
  <2>7. DroppedLogs'
    BY <1>1, <2>2 DEF DroppedLogs, oldVars, oVars
  <2>8. OwnLogs'
    <3>1. imms \cup {active} \subseteq walFiles'
      BY <1>1, <2>2, <2>5 DEF OwnLogs
    <3>2. wr.pc = "swap" => wr.new \in walFiles'
      <4>1. wr.pc = "swap" => wr.new \in walFiles /\ active < wr.new
        BY <1>1, <2>2 DEF OwnLogs
      <4>2. active < wr.new => wr.new # m
        BY <1>1, <2>5, ReopenNumbers
      <4>3. QED
        BY <2>2, <4>1, <4>2
    <3>3. QED
      BY <1>1, <2>2, <2>3, <3>1, <3>2 DEF OwnLogs
  <2>10. QED
    BY <2>6, <2>7, <2>8 DEF Own
<1>11. QED
  BY <1>4, <1>5, <1>6, <1>7, <1>8, <1>9, <1>10 DEF FlushPipeline

LEMMA OwnCompaction == ASSUME ReopenInv, TypeOK', UNCHANGED oldVars, Compaction PROVE Own'
<1>1. TypeOK /\ OldTypes /\ Idle /\ OwnLogs /\ DroppedLogs
  BY DEF ReopenInv
<1>2. fl \in FlType /\ levels \in [Levels -> SUBSET Seqs] /\ files \in [Levels -> SUBSET Seqs]
  BY <1>1 DEF TypeOK, TypeProcess, TypeDirectory
<1>3. fl.pc # "free" => mode = "up"
  BY <1>1 DEF Idle, FlFree
<1>f. FlFree.pc = "free" /\ FlFree.todo = {}
  BY DEF FlFree
<1>4. ASSUME NEW p \in Clients \cup {"worker"}, CompactBuildFails(p) PROVE Own'
  <2>1. /\ UNCHANGED <<walFiles, files, mode, active, imms, levels, stale, wr, fl>>
        /\ nextSeq' = nextSeq + 1
    BY <1>4 DEF CompactBuildFails, dirVars
  <2>2. QED
    BY <2>1, QuietStep
<1>5. CASE CompactNothing
  <2>1. UNCHANGED <<walFiles, files, mode, active, imms, levels, stale, wr, fl, nextSeq>>
    BY <1>5 DEF CompactNothing, dirVars
  <2>2. QED
    BY <2>1, QuietStep
<1>6. CASE CompactManifestFails \/ CompactReturn
  <2>1. /\ UNCHANGED <<walFiles, files, mode, active, imms, levels, stale, wr, nextSeq>>
        /\ fl' = FlFree /\ fl.pc # "free"
    BY <1>6 DEF CompactManifestFails, CompactReturn, Release, dirVars
  <2>2. FlushLockMoves
    BY <1>3, <1>f, <2>1 DEF FlushLockMoves
  <2>3. QED
    BY <2>1, <2>2, QuietStep
<1>7. CASE CompactManifest
  <2>1. /\ UNCHANGED <<walFiles, files, mode, active, imms, levels, stale, nextSeq, wr>>
        /\ fl' = [fl EXCEPT !.pc = "sweep"] /\ fl.pc = "record"
    BY <1>7 DEF CompactManifest, walVars
  <2>2. fl'.pc = "sweep" /\ fl'.todo = fl.todo /\ fl'.inputs = fl.inputs
    BY <1>2, <2>1 DEF FlType
  <2>3. FlushLockMoves
    BY <1>3, <2>1, <2>2 DEF FlushLockMoves
  <2>4. QED
    BY <2>1, <2>3, QuietStep
<1>8. ASSUME NEW p \in Clients \cup {"worker"}, CompactBuild(p) PROVE Own'
  <2>1. /\ mode = "up" /\ mode' = "up"
        /\ UNCHANGED <<walFiles, active, imms, levels, stale, wr>>
    BY <1>8 DEF CompactBuild, CompactCaller, walVars
  <2>2. nextSeq \in Nat /\ nextSeq < nextSeq + 1 /\ \A n \in Nat : n < nextSeq => n < nextSeq + 1
    BY <1>1, ReopenNumbers
  <2>3. /\ fl'.pc = "merged" /\ fl'.todo = {}
        /\ nextSeq' \in {nextSeq, nextSeq + 1}
    <3>1. CASE Merged(levels) = EmptyTable
      BY <1>8, <3>1 DEF CompactBuild, FlFree
    <3>2. CASE Merged(levels) # EmptyTable
      BY <1>8, <3>2 DEF CompactBuild, FlFree
    <3>3. QED
      BY <3>1, <3>2
  <2>4. Idle' /\ DroppedLogs'
    BY <1>1, <2>1, <2>3 DEF Idle, DroppedLogs, oldVars, oVars
  <2>5. OwnLogs'
    <3>1. \A g \in walFiles : g < nextSeq'
      BY <1>1, <2>1, <2>2, <2>3, ReopenNumbers DEF OwnLogs
    <3>2. QED
      BY <1>1, <2>1, <2>3, <3>1 DEF OwnLogs
  <2>7. QED
    BY <2>4, <2>5 DEF Own
<1>9. CASE CompactCommit
  <2>1. /\ mode = "up" /\ mode' = "up" /\ fl.pc = "merged"
        /\ levels' = [l \in Levels |-> IF l = 1 /\ fl.seq # 0 THEN {fl.seq} ELSE {}]
        /\ fl' = [fl EXCEPT !.pc = "record", !.inputs = levels, !.seq = 0]
        /\ UNCHANGED <<walFiles, files, active, imms, stale, wr, nextSeq>>
    BY <1>3, <1>9 DEF CompactCommit, Compacted, dirVars
  <2>2. fl'.pc = "record" /\ fl'.todo = fl.todo /\ fl'.inputs = levels
    BY <1>2, <2>1 DEF FlType
  <2>3. Idle' /\ DroppedLogs'
    BY <1>1, <2>1, <2>2 DEF Idle, DroppedLogs, oldVars, oVars
  <2>4. OwnLogs'
    BY <1>1, <2>1, <2>2 DEF OwnLogs
  <2>6. QED
    BY <2>3, <2>4 DEF Own
<1>10. ASSUME NEW l \in Levels, CompactUnlink(l) PROVE Own'
  <2>1. PICK m : m = Min(fl.inputs[l])
    OBVIOUS
  <2>2. /\ mode = "up" /\ mode' = "up" /\ fl.pc = "sweep" /\ fl.inputs[l] # {}
        /\ files' = files \/ files' = [files EXCEPT ![l] = files[l] \ {m}]
        /\ fl' = [fl EXCEPT !.inputs = [fl.inputs EXCEPT ![l] = fl.inputs[l] \ {m}]]
        /\ UNCHANGED <<walFiles, active, imms, levels, stale, wr, nextSeq>>
    BY <1>3, <1>10, <2>1 DEF CompactUnlink, walVars
  <2>3. /\ fl'.pc = "sweep" /\ fl'.todo = fl.todo
        /\ \A j \in Levels : fl'.inputs[j] \subseteq fl.inputs[j]
    BY <1>2, <2>2 DEF FlType
  <2>5. Idle' /\ DroppedLogs'
    BY <1>1, <2>2, <2>3 DEF Idle, DroppedLogs, oldVars, oVars
  <2>6. OwnLogs'
    BY <1>1, <2>2, <2>3 DEF OwnLogs
  <2>8. QED
    BY <2>5, <2>6 DEF Own
<1>11. QED
  BY <1>4, <1>5, <1>6, <1>7, <1>8, <1>9, <1>10 DEF Compaction

LEMMA OwnWorker == ASSUME ReopenInv, TypeOK', UNCHANGED oldVars, Worker PROVE Own'
<1>1. UNCHANGED <<walFiles, files, mode, active, imms, levels, stale, wr, fl, nextSeq>>
  BY DEF Worker, WorkerRecv, WorkerCheck, dirVars
<1>2. QED
  BY <1>1, QuietStep

LEMMA OwnLifecycle == ASSUME ReopenInv, TypeOK', UNCHANGED oldVars, Lifecycle PROVE Own'
<1>1. TypeOK /\ OldTypes /\ Idle /\ OwnLogs /\ DroppedLogs
  BY DEF ReopenInv
<1>2. CASE Close \/ RebackFails \/ \E kind \in CrashKinds : Crash(kind)
  <2>1. ProcessGone /\ UNCHANGED walFiles
    BY <1>2 DEF Close, RebackFails, Crash
  <2>2. QED
    BY <2>1, StopStep
<1>3. CASE Recover
  <2>1. PICK r : r = RecoveredSeq
    OBVIOUS
  <2>2. r \in Nat /\ \A s \in KnownSeqs : s < r
    BY <1>1, <2>1, RecoveredSeqAbove DEF TypeOK
  <2>3. /\ mode = "down" /\ mode' = "reback" /\ ManifestOnDisk
        /\ active' = r /\ nextSeq' = r + 1 /\ walFiles' = walFiles \cup {r}
        /\ stale' = walFiles /\ levels' = manifest
        /\ UNCHANGED <<files, imms, wr, fl>>
    BY <1>3, <2>1 DEF Recover
  <2>4. wr.pc = "free" /\ fl = FlFree /\ imms = {}
    BY <1>1, <2>3 DEF Idle
  <2>f. FlFree.pc = "free" /\ FlFree.todo = {}
    BY DEF FlFree
  <2>5. /\ \A g \in walFiles : g \in Nat /\ g < r
        /\ \A l \in Levels : \A s \in manifest[l] : s \in Nat /\ s < r
    BY <1>1, <2>2, ReopenNumbers DEF KnownSeqs, Levels
  <2>6. r < r + 1 /\ \A n \in Nat : n < r => n < r + 1
    BY <2>2
  <2>7. Idle'
    BY <2>3, <2>4, <2>f DEF Idle
  <2>8. OwnLogs'
    <3>1. \A g \in walFiles' : g < r + 1
      BY <2>3, <2>5, <2>6
    <3>2. QED
      BY <2>3, <2>4, <2>f, <2>5, <3>1 DEF OwnLogs
  <2>9. DroppedLogs'
    <3>1. oLive => oActive < r
      <4>1. SUFFICES ASSUME oLive PROVE oActive < r
        OBVIOUS
      <4>2. PICK g \in walFiles : oActive <= g
        BY <1>1, <2>3, <4>1 DEF DroppedLogs
      <4>3. g \in Nat /\ g < r /\ oActive \in Nat
        BY <1>1, <2>5, ReopenNumbers
      <4>4. QED
        BY <2>2, <4>2, <4>3
    <3>2. QED
      BY <1>1, <2>3, <2>4, <3>1 DEF DroppedLogs, oldVars, oVars
  <2>11. QED
    BY <2>7, <2>8, <2>9 DEF Own
<1>4. CASE Reback
  <2>1. /\ mode = "reback" /\ mode' = IF stale = {} THEN "up" ELSE "clean"
        /\ UNCHANGED <<walFiles, files, active, imms, levels, stale, wr, fl, nextSeq>>
    BY <1>4 DEF Reback, sstVars
  <2>2. mode' # "down" /\ (mode' = "clean" => stale # {}) /\ mode # "down" /\ mode # "up"
    BY <2>1
  <2>3. Idle'
    BY <1>1, <2>1, <2>2 DEF Idle
  <2>4. OwnLogs' /\ DroppedLogs'
    BY <1>1, <2>1, <2>2 DEF OwnLogs, DroppedLogs, oldVars, oVars
  <2>6. QED
    BY <2>3, <2>4 DEF Own
<1>5. CASE CleanOld
  <2>1. PICK m : m = Min(stale)
    OBVIOUS
  <2>2. /\ mode = "clean" /\ stale # {} /\ stale' = stale \ {m}
        /\ mode' = IF stale' = {} THEN "up" ELSE "clean"
        /\ walFiles' = walFiles \ {m} \/ walFiles' = walFiles
        /\ UNCHANGED <<files, active, imms, levels, wr, fl, nextSeq>>
    BY <1>1, <1>5, <2>1 DEF CleanOld, OldestGen, UnlinkWal, walVars, sstVars, Idle
  <2>3. /\ mode' # "down" /\ (mode' = "clean" => stale' # {})
        /\ wr.pc = "free" /\ fl = FlFree /\ imms = {}
    BY <1>1, <2>2 DEF Idle
  <2>4. m \in stale /\ m \in Nat /\ active \in Nat /\ m < active
    <3>1. m \in stale
      BY <1>1, <2>1, <2>2, MinOfNats, ReopenNumbers
    <3>2. QED
      BY <1>1, <2>2, <3>1, ReopenNumbers DEF OwnLogs
  <2>5. Idle'
    BY <1>1, <2>2, <2>3 DEF Idle
  <2>6. DroppedLogs'
    BY <1>1, <2>2, <2>3 DEF DroppedLogs, oldVars, oVars
  <2>7. OwnLogs'
    <3>1. active \in walFiles'
      BY <1>1, <2>2, <2>4 DEF OwnLogs
    <3>2. QED
      BY <1>1, <2>2, <2>3, <3>1 DEF OwnLogs, FlFree
  <2>9. QED
    BY <2>5, <2>6, <2>7 DEF Own
<1>6. QED
  BY <1>2, <1>3, <1>4, <1>5 DEF Lifecycle

-----------------------------------------------------------------------------
(* The invariant and what follows from it.                                 *)

LEMMA ReopenInvInit == ReopenInit => ReopenInv
<1>1. SUFFICES ASSUME ReopenInit PROVE ReopenInv
  OBVIOUS
<1>2. TypeOK
  BY <1>1, TypeInit DEF ReopenInit
<1>3. OldTypes
  <2>1. mem \in [Seqs -> Table]
    BY <1>2 DEF TypeOK, TypeProcess
  <2>2. /\ merged = FALSE /\ oLive = FALSE /\ oMem = mem /\ oActive = 0 /\ oImms = {}
        /\ oLevels = NoTables /\ oNextSeq = 1 /\ oFl = FlFree /\ oBuf = << >>
    BY <1>1 DEF ReopenInit
  <2>3. 0 \in 0 .. MaxSeq /\ 1 \in 1 .. (MaxSeq + 1)
    BY BoundsAssumption
  <2>4. << >> \in Seq(1 .. MaxWrites)
    BY EmptySeq
  <2>5. FlFree.pc = "free"
    BY DEF FlFree
  <2>6. QED
    BY <2>1, <2>2, <2>3, <2>4, <2>5, BasicSets DEF OldTypes
<1>4. /\ mode = "down" /\ wr.pc = "free" /\ fl = FlFree /\ imms = {} /\ ~ oLive
  BY <1>1 DEF ReopenInit, Init, WrFree
<1>5. Idle /\ OwnLogs /\ DroppedLogs
  BY <1>4 DEF Idle, OwnLogs, DroppedLogs, FlFree
<1>6. QED
  BY <1>2, <1>3, <1>5 DEF ReopenInv

LEMMA ReopenInvNext == ReopenInv /\ [ReopenNext]_reopenVars => ReopenInv'
<1>1. SUFFICES ASSUME ReopenInv, [ReopenNext]_reopenVars PROVE ReopenInv'
  OBVIOUS
<1>2. CASE UNCHANGED reopenVars
  <2>1. UNCHANGED vars /\ UNCHANGED oldVars
    BY <1>2 DEF reopenVars, oldVars
  <2>2. TypeOK'
    BY <1>1, <2>1, TypeNext DEF ReopenInv
  <2>3. OldTypes'
    BY <1>1, <2>1 DEF ReopenInv, OldTypes, oldVars, oVars
  <2>4. UNCHANGED <<walFiles, files, mode, active, imms, levels, stale, nextSeq, wr, fl>>
    BY <2>1 DEF vars
  <2>5. Own'
    BY <1>1, <2>1, <2>2, <2>4, QuietStep
  <2>6. QED
    BY <2>2, <2>3, <2>5 DEF ReopenInv, Own
<1>3. CASE Next /\ UNCHANGED <<dropped, merged, oLive, oVars>>
  <2>1. UNCHANGED oldVars
    BY <1>3 DEF oldVars
  <2>2. TypeOK'
    BY <1>1, <1>3, TypeNext DEF ReopenInv
  <2>3. OldTypes'
    BY <1>1, <2>1 DEF ReopenInv, OldTypes, oldVars, oVars
  <2>4. Own'
    BY <1>1, <1>3, <2>1, <2>2, OwnWritePath, OwnFlushPipeline, OwnCompaction, OwnWorker,
       OwnLifecycle DEF Next
  <2>5. QED
    BY <2>2, <2>3, <2>4 DEF ReopenInv, Own
<1>4. QED
  BY <1>1, <1>2, <1>3, DropHandleInv, OldWorkerInv, OldDropInv DEF ReopenNext

\* The invariant of two engines on one directory: the WALs that the dropped engine
\* still deletes are older than its active one, and every WAL of the engine opened
\* after it is newer (open_with_options, flush_all_pending).
THEOREM ReopenInvCorrect == ReopenSpec => []ReopenInv
  BY ReopenInvInit, ReopenInvNext, PTL DEF ReopenSpec

\* Whatever the dropped engine still flushes and deletes, whatever fails and however
\* often the process dies, every MemTable of the engine in use has its WAL on disk
\* (open_with_options, freeze_active, flush_all_pending).
THEOREM ReopenedLogsExistHolds == ReopenSpec => []ReopenedLogsExist
<1>1. ReopenInv => ReopenedLogsExist
  BY DEF ReopenInv, OwnLogs, ReopenedLogsExist, Up
<1>2. QED
  BY <1>1, ReopenInvCorrect, PTL

-----------------------------------------------------------------------------
(* One engine with its logs: what they hold and what was applied.          *)

\* An entry of a log was there before, or has just been written or re-appended.
LEMMA EntrySteps ==
    ASSUME ~ SyncPerWrite, Inv, LogShape, LiveLogs, [Next]_vars,
           NEW g \in walFiles', NEW k \in Keys, NEW i \in Entries(g, k)'
    PROVE  \/ g \in walFiles /\ i \in Entries(g, k) /\ wlog'[g][i] = wlog[g][i]
           \/ /\ \E del \in BOOLEAN : Write(k, del)
              /\ g = active /\ wlog'[g][i] = Len(ops) + 1
           \/ Recover /\ g = active' /\ wlog'[g][i] = Replayed(k) /\ Replayed(k) # 0
<1>0. /\ TypeOK /\ walFiles \subseteq Seqs /\ \A h \in Seqs : Len(wlog[h]) \in Nat
      /\ mode # "down" => active \in Seqs /\ active \in walFiles
  BY Numbers DEF Inv, LiveLogs, LiveGens
<1>1. i \in 1 .. Len(wlog'[g]) /\ ops'[wlog'[g][i]].key = k
  BY DEF Entries
<1>2. CASE UNCHANGED <<walFiles, wlog, ops>>
  BY <1>1, <1>2 DEF Entries
<1>3. CASE \E key \in Keys, del \in BOOLEAN : Write(key, del) \/ WriteSyncFails(key, del)
  <2>1. PICK key \in Keys, del \in BOOLEAN : Write(key, del)
    BY <1>3 DEF WriteSyncFails
  <2>2. /\ ops' = Append(ops, [key |-> key, del |-> del]) /\ wlog' = Logged(active, Len(ops) + 1)
        /\ mode = "up" /\ walFiles' = walFiles
    BY <2>1 DEF Write
  <2>3. /\ \A h \in Seqs : \A j \in 1 .. Len(wlog[h]) :
             /\ wlog'[h][j] = wlog[h][j] /\ ops'[wlog[h][j]] = ops[wlog[h][j]]
        /\ \A h \in Seqs \ {active} : wlog'[h] = wlog[h]
        /\ Len(wlog'[active]) = Len(wlog[active]) + 1
        /\ wlog'[active][Len(wlog[active]) + 1] = Len(ops) + 1
        /\ ops'[Len(ops) + 1] = [key |-> key, del |-> del]
    BY <1>0, <2>2, LogExtended
  <2>4. CASE i \in 1 .. Len(wlog[g])
    <3>1. wlog'[g][i] = wlog[g][i] /\ ops'[wlog[g][i]] = ops[wlog[g][i]] /\ g \in walFiles
      BY <1>0, <2>2, <2>3, <2>4
    <3>2. QED
      BY <1>1, <2>4, <3>1 DEF Entries
  <2>5. CASE i \notin 1 .. Len(wlog[g])
    <3>1. g = active /\ i = Len(wlog[active]) + 1
      BY <1>0, <1>1, <2>2, <2>3, <2>5
    <3>2. wlog'[g][i] = Len(ops) + 1 /\ key = k
      BY <1>1, <2>3, <3>1
    <3>3. QED
      BY <2>1, <3>1, <3>2
  <2>6. QED
    BY <2>4, <2>5
<1>4. CASE Rotate
  <2>1. walFiles' = walFiles \cup {nextSeq} /\ UNCHANGED <<wlog, ops>> /\ nextSeq \in Seqs
    BY <1>0, <1>4 DEF Rotate, CanAllocate, ghosts, TypeOK, TypeProcess, Seqs
  <2>2. mode # "down"
    BY <1>4 DEF Rotate, Inv, Quiet
  <2>3. nextSeq \notin walFiles
    BY <1>0, <2>1, <2>2, BasicSets DEF LiveLogs
  <2>4. wlog[nextSeq] = << >>
    BY <2>1, <2>3 DEF LogShape
  <2>5. g # nextSeq
    BY <1>1, <2>1, <2>4
  <2>6. QED
    BY <1>1, <2>1, <2>5 DEF Entries
<1>5. CASE UNCHANGED ops /\ \E h : UnlinkWal(h)
  <2>1. PICK h : UnlinkWal(h)
    BY <1>5
  <2>2. g \in walFiles /\ g # h /\ wlog'[g] = wlog[g]
    BY <1>0, <2>1, LogUnlinked
  <2>3. QED
    BY <1>1, <1>5, <2>2 DEF Entries
<1>6. CASE \E kind \in CrashKinds : Crash(kind)
  <2>1. PICK kind \in CrashKinds : Crash(kind)
    BY <1>6
  <2>2. UNCHANGED <<walFiles, ops>>
    BY <2>1 DEF Crash
  <2>3. PICK cut \in [walFiles -> Nat] :
          \A h \in walFiles : /\ cut[h] <= Len(wlog[h]) /\ Len(wlog'[h]) = cut[h]
                              /\ \A j \in 1 .. cut[h] : wlog'[h][j] = wlog[h][j]
    <3> HIDE DEF Crash
    <3>1. QED
      BY <1>0, <2>1, CrashLeaves
  <2>4. i \in 1 .. Len(wlog[g]) /\ wlog'[g][i] = wlog[g][i] /\ g \in walFiles
    BY <1>0, <1>1, <2>2, <2>3
  <2>5. QED
    BY <1>1, <2>2, <2>4 DEF Entries
<1>7. CASE Recover
  <2>1. /\ walFiles' = walFiles \cup {active'} /\ \A h \in walFiles : wlog'[h] = wlog[h]
        /\ \A j \in Entries(active, k)' : wlog'[active'][j] = Replayed(k) /\ Replayed(k) # 0
    BY <1>7, RecoverLog
  <2>2. UNCHANGED ops
    BY <1>7 DEF Recover
  <2>3. CASE g = active'
    BY <1>7, <2>1, <2>3 DEF Entries
  <2>4. CASE g # active'
    BY <1>1, <2>1, <2>2, <2>4 DEF Entries
  <2>5. QED
    BY <2>3, <2>4
<1>8. QED
  BY <1>2, <1>3, <1>4, <1>5, <1>6, <1>7, LogSteps

\* What a log has of a key is an issued write, ...
LEMMA EntryType ==
    ASSUME Inv, NEW g \in walFiles, NEW k, NEW i \in Entries(g, k)
    PROVE  wlog[g][i] \in 1 .. Len(ops) /\ wlog[g][i] \in Nat /\ wlog[g][i] # 0
<1>1. g \in Seqs /\ wlog \in [Seqs -> Seq(1 .. Len(ops))] /\ Len(ops) \in Nat
  BY Numbers DEF Inv, Issued
<1>2. i \in 1 .. Len(wlog[g])
  BY DEF Entries
<1>3. QED
  BY <1>1, <1>2

\* ... and what replay returns is one of them, the newest.
LEMMA ReplayedNewest ==
    ASSUME Inv, LogShape, LogOrder, NEW k \in Keys
    PROVE  /\ Replayed(k) # 0 => \E g \in walFiles : \E i \in Entries(g, k) : Replayed(k) = wlog[g][i]
           /\ \A g \in walFiles : \A i \in Entries(g, k) : wlog[g][i] <= Replayed(k)
<1>1. CASE Replayed(k) = 0 /\ \A g \in walFiles : Entries(g, k) = {}
  BY <1>1
<1>2. CASE ~ (Replayed(k) = 0 /\ \A g \in walFiles : Entries(g, k) = {})
  <2>1. PICK h \in walFiles : \E j \in Entries(h, k) :
           /\ Replayed(k) = wlog[h][j] /\ Replayed(k) # 0
           /\ \A g \in walFiles : Entries(g, k) # {} => g <= h
           /\ \A i \in Entries(h, k) : i <= j
    BY <1>2, ReplayedIs DEF Inv
  <2>0. PICK j \in Entries(h, k) :
           /\ Replayed(k) = wlog[h][j] /\ Replayed(k) # 0
           /\ \A g \in walFiles : Entries(g, k) # {} => g <= h
           /\ \A i \in Entries(h, k) : i <= j
    BY <2>1
  <2>2. ASSUME NEW g \in walFiles, NEW i \in Entries(g, k) PROVE wlog[g][i] <= wlog[h][j]
    <3>1. g \in Nat /\ h \in Nat /\ h \in Seqs /\ g <= h
      BY <2>0, <2>2, Numbers
    <3>2. CASE g < h
      BY <2>2, <3>2 DEF LogOrder
    <3>3. CASE g = h
      <4>1. i \in 1 .. Len(wlog[h]) /\ j \in 1 .. Len(wlog[h]) /\ i <= j
            /\ ops[wlog[h][i]].key = k /\ ops[wlog[h][j]].key = k
        BY <2>0, <2>2, <3>3 DEF Entries
      <4>2. i = j \/ i < j
        BY <4>1
      <4>3. i < j => wlog[h][i] < wlog[h][j]
        BY <3>1, <4>1 DEF LogShape
      <4>4. wlog[h][i] \in Nat /\ wlog[h][j] \in Nat
        BY <2>2, <3>3, EntryType
      <4>5. QED
        BY <3>3, <4>2, <4>3, <4>4
    <3>4. QED
      BY <3>1, <3>2, <3>3
  <2>3. QED
    BY <2>0, <2>2
<1>3. QED
  BY <1>1, <1>2

\* While nobody holds the WAL mutex, no log on disk is newer than the active one.
LEMMA ActiveIsNewest ==
    ASSUME Inv, TodoOlder, LogsAccounted, mode = "up", wr.pc = "free", NEW g \in walFiles
    PROVE  g <= active
<1>1. g \in LiveGens \cup fl.todo
  BY DEF LogsAccounted, NoStrayWal, LiveGens
<1>2. /\ active \in Nat /\ \A h \in LiveGens : h <= active
      /\ g \in Nat /\ active \in LiveGens
  BY Numbers DEF LiveGens
<1>3. CASE g \in fl.todo
  BY <1>2, <1>3 DEF TodoOlder
<1>4. QED
  BY <1>1, <1>2, <1>3

LEMMA LogOrderNext ==
    ASSUME ~ SyncPerWrite, Inv, DurableInv, LogOrder, [Next]_vars PROVE LogOrder'
<1> SUFFICES ASSUME NEW g \in walFiles', NEW h \in walFiles', NEW k \in Keys, g < h,
                    NEW i \in Entries(g, k)', NEW j \in Entries(h, k)'
             PROVE  wlog'[g][i] <= wlog'[h][j]
  BY DEF LogOrder
<1>0. LogShape /\ LiveLogs /\ TodoOlder /\ LogsAccounted
  BY DEF DurableInv
<1>1. \/ g \in walFiles /\ i \in Entries(g, k) /\ wlog'[g][i] = wlog[g][i]
      \/ (\E del \in BOOLEAN : Write(k, del)) /\ g = active /\ wlog'[g][i] = Len(ops) + 1
      \/ Recover /\ g = active' /\ wlog'[g][i] = Replayed(k) /\ Replayed(k) # 0
  BY <1>0, EntrySteps
<1>2. \/ h \in walFiles /\ j \in Entries(h, k) /\ wlog'[h][j] = wlog[h][j]
      \/ (\E del \in BOOLEAN : Write(k, del)) /\ h = active /\ wlog'[h][j] = Len(ops) + 1
      \/ Recover /\ h = active' /\ wlog'[h][j] = Replayed(k) /\ Replayed(k) # 0
  BY <1>0, EntrySteps
<1>3. ASSUME NEW del \in BOOLEAN, Write(k, del)
      PROVE  mode = "up" /\ wr.pc = "free" /\ walFiles' = walFiles
  BY <1>3 DEF Write
<1>4. active \in Nat /\ Len(ops) \in Nat /\ \A f \in walFiles : f \in Nat
  BY Numbers
<1>5. ~ ((\E del \in BOOLEAN : Write(k, del)) /\ g = active)
  BY <1>0, <1>3, <1>4, ActiveIsNewest
<1>6. Recover => /\ \A f \in walFiles : f < active' /\ f \in Nat
                 /\ walFiles' = walFiles \cup {active'} /\ active' \in Nat
  BY <1>0, <1>4, RecoverLog, BasicSets
<1>7. ~ (Recover /\ g = active')
  BY <1>6
<1>8. g \in walFiles /\ i \in Entries(g, k) /\ wlog'[g][i] = wlog[g][i]
  BY <1>1, <1>5, <1>7
<1>9. wlog[g][i] \in 1 .. Len(ops) /\ wlog[g][i] <= Replayed(k)
  BY <1>0, <1>8, EntryType, ReplayedNewest
<1>10. CASE h \in walFiles /\ j \in Entries(h, k) /\ wlog'[h][j] = wlog[h][j]
  BY <1>8, <1>10 DEF LogOrder
<1>11. QED
  BY <1>2, <1>4, <1>8, <1>9, <1>10

\* Without sync_per_write only a flush() that returns promises anything, and the WALs
\* of what it promises are deleted by then.
LEMMA LogsUnpromisedNext ==
    ASSUME ~ SyncPerWrite, Inv, DurableInv, LiveLogs', LogOrder, LogsApplied, LogsUnpromised,
           [Next]_vars
    PROVE  LogsUnpromised'
<1>0. /\ LogShape /\ LiveLogs /\ TodoOlder /\ LogsAccounted /\ CallsInOrder /\ PromisedIssued
      /\ Len(ops) \in Nat
  BY Numbers DEF DurableInv
<1>1. ASSUME NEW g \in walFiles', NEW k \in Keys, NEW i \in Entries(g, k)'
      PROVE  durable'[k] < wlog'[g][i]
  <2>0. durable[k] \in Nat /\ durable[k] <= Len(ops)
    BY <1>0, BasicSets DEF PromisedIssued, Inv, TypeOK, TypeHistory, Table
  <2>1. CASE durable'[k] = durable[k]
    <3>1. CASE g \in walFiles /\ i \in Entries(g, k) /\ wlog'[g][i] = wlog[g][i]
      BY <2>1, <3>1 DEF LogsUnpromised
    <3>2. CASE wlog'[g][i] = Len(ops) + 1
      BY <1>0, <2>0, <2>1, <3>2
    <3>3. CASE wlog'[g][i] = Replayed(k) /\ Replayed(k) # 0
      BY <1>0, <2>1, <3>3, ReplayedNewest DEF LogsUnpromised
    <3>4. QED
      BY <1>0, <1>1, <3>1, <3>2, <3>3, EntrySteps
  <2>2. CASE durable'[k] # durable[k]
    <3>1. FlushReturn
      <4>1. \/ FlushReturn \/ Swap \/ \E freeze \in BOOLEAN : Apply(freeze)
        BY <2>2, PromiseSteps
      <4>2. QED
        BY <2>2, <4>1, AcknowledgeSteps
    <3>2. /\ fl.pc = "ok" /\ fl.by \in Clients /\ durable'[k] = snap[fl.by][k]
          /\ UNCHANGED <<walFiles, ops>>
      BY <2>2, <3>1, FlushReturnSteps
    <3>3. wlog' = wlog /\ calls[fl.by] = "drain" /\ fl.todo = {} /\ mode = "up"
      BY <1>0, <3>1, <3>2 DEF FlushReturn, dirVars, CallsInOrder, TodoOlder, Inv, Quiet
    <3>4. i \in Entries(g, k) /\ i \in 1 .. Len(wlog[g])
      BY <3>2, <3>3 DEF Entries
    <3>5. g \in LiveGens
      <4>1. g \in LiveGens \/ (wr.pc = "swap" /\ g = wr.new)
        BY <1>0, <3>2, <3>3 DEF LogsAccounted, NoStrayWal, LiveGens
      <4>2. wr.pc = "swap" => wlog[wr.new] = << >>
        BY <1>0, <3>3 DEF LiveLogs
      <4>3. QED
        BY <3>4, <4>1, <4>2
    <3>6. QED
      BY <3>2, <3>3, <3>4, <3>5 DEF LogsUnpromised
  <2>3. QED
    BY <2>1, <2>2
<1>2. ASSUME NEW c \in Clients, NEW k \in Keys, calls'[c] = "drain", NEW g \in LiveGens',
             g = active' \/ (fl'.by = c /\ fl'.pc \in {"unlink", "ok"}), NEW i \in Entries(g, k)'
      PROVE  snap'[c][k] < wlog'[g][i]
  <2>1. CASE FlushSync(c)
    <3>1. /\ mode = "up" /\ wr.pc = "free" /\ calls[c] = "idle" /\ mem[active] = EmptyTable
          /\ UNCHANGED <<wlog, ops, fl, active>>
      BY <1>2, <2>1, Zenon DEF FlushSync, Inv, TypeOK, TypeProcess
    <3>2. ~ (fl.by = c /\ fl.pc \in {"unlink", "ok"})
      BY <1>0, <3>1 DEF CallsInOrder
    <3>3. g = active /\ active \in LiveGens /\ active \in walFiles /\ i \in Entries(active, k)
      BY <1>0, <1>2, <3>1, <3>2 DEF Entries, LiveLogs, LiveGens
    <3>4. wlog[active][i] <= mem[active][k]
      BY <3>1, <3>3 DEF LogsApplied, Reached
    <3>5. mem[active][k] = 0
      BY <3>1 DEF EmptyTable
    <3>6. QED
      BY <3>3, <3>4, <3>5, EntryType
  <2>2. CASE ~ FlushSync(c)
    <3>1. /\ calls[c] \in {"sync", "drain"} /\ snap'[c] = snap[c]
          /\ mode = "up" /\ mode' = "up" /\ (Swap \/ calls'[c] = calls[c])
      BY <1>0, <1>2, <2>2, CallSteps
    <3>2. CASE Swap
      <4>0. PICK n : n = wr.new
        OBVIOUS
      <4>1. /\ active' = n /\ LiveGens' = LiveGens \cup {n}
            /\ Entries(n, k)' = {} /\ UNCHANGED <<wlog, ops>> /\ n \notin LiveGens
        BY <1>0, <3>2, <4>0, SwapAdds
      <4>2. fl' = fl
        BY <3>2 DEF Swap
      <4>3. g \in LiveGens /\ fl.by = c /\ fl.pc \in {"unlink", "ok"} /\ i \in Entries(g, k)
        BY <1>2, <4>1, <4>2 DEF Entries
      <4>4. calls[c] = "drain"
        BY <1>0, <4>3 DEF CallsInOrder
      <4>5. QED
        BY <3>1, <4>1, <4>3, <4>4 DEF LogsUnpromised
    <3>3. CASE ~ Swap
      <4>1. /\ calls[c] = "drain" /\ snap[c][k] <= Len(ops) /\ snap[c][k] \in Nat
        BY <1>0, <1>2, <3>1, <3>3, BasicSets DEF PromisedIssued, Inv, TypeOK, TypeHistory, Table
      <4>2. active' = active /\ LiveGens' \subseteq LiveGens
        <5>1. ~ Recover
          BY <3>1 DEF Recover
        <5>2. CASE UNCHANGED <<active, imms>>
          BY <5>2 DEF LiveGens
        <5>3. CASE \E freeze \in BOOLEAN : Apply(freeze)
          BY <5>3 DEF Apply, LiveGens
        <5>4. CASE FlushCommit
          BY <5>4 DEF FlushCommit, StillFrozen, LiveGens
        <5>5. QED
          BY <3>1, <3>3, <5>1, <5>2, <5>3, <5>4, MemorySteps
      <4>3. g = active \/ (fl.by = c /\ fl.pc \in {"unlink", "ok"})
        <5>1. CASE g = active'
          BY <4>2, <5>1
        <5>2. CASE fl'.by = c /\ fl'.pc \in {"unlink", "ok"}
          <6>1. \/ FlushNothing \/ FlushManifest
                \/ fl.by = c /\ fl.pc \in {"unlink", "ok"}
            BY <5>2, DrainedSteps
          <6>2. FlushNothing \/ FlushManifest => imms' = {}
            BY DEF FlushNothing, FlushManifest
          <6>3. imms' = {} => g = active
            BY <1>2, <4>2 DEF LiveGens
          <6>4. QED
            BY <6>1, <6>2, <6>3
        <5>3. QED
          BY <1>2, <5>1, <5>2
      <4>4. g \in LiveGens /\ g \in walFiles /\ ~ Recover
        BY <1>0, <1>2, <3>1, <4>2 DEF LiveLogs, Recover
      <4>5. CASE i \in Entries(g, k) /\ wlog'[g][i] = wlog[g][i]
        BY <3>1, <4>1, <4>3, <4>4, <4>5 DEF LogsUnpromised
      <4>6. CASE wlog'[g][i] = Len(ops) + 1
        BY <1>0, <3>1, <4>1, <4>6
      <4>7. g \in walFiles'
        BY <1>2, <3>1 DEF LiveLogs
      <4>8. QED
        BY <1>0, <4>4, <4>5, <4>6, <4>7, EntrySteps
    <3>4. QED
      BY <3>2, <3>3
  <2>3. QED
    BY <2>1, <2>2
<1>3. QED
  BY <1>1, <1>2 DEF LogsUnpromised

\* A put under way ends with its write in the MemTable, unless the process dies.
LEMMA PutSteps ==
    ASSUME Inv, [Next]_vars, wr.pc = "apply", mode' # "down"
    PROVE  \/ UNCHANGED <<wr, active>>
           \/ \E freeze \in BOOLEAN : Apply(freeze)
<1>0. mode = "up"
  BY DEF Inv, Quiet
<1>1. CASE WritePath
  BY <1>1 DEF WritePath, Write, WriteSyncFails, FlushSync, Rotate, RotateFails, Swap
<1>2. CASE FlushPipeline
  BY <1>2 DEF FlushPipeline, FlushBegin, FlushBuild, FlushBuildFails, FlushCommit, FlushNothing,
     FlushManifest, FlushManifestFails, FlushUnlink, FlushReturn
<1>3. CASE Compaction
  BY <1>3 DEF Compaction, CompactBuild, CompactBuildFails, CompactNothing,
     CompactCommit, CompactManifest, CompactManifestFails, CompactUnlink, CompactReturn
<1>4. CASE Worker
  BY <1>4 DEF Worker, WorkerRecv, WorkerCheck
<1>5. CASE Lifecycle
  BY <1>0, <1>5 DEF Lifecycle, Close, Crash, Recover, Reback, RebackFails, CleanOld, ProcessGone
<1>6. CASE UNCHANGED vars
  BY <1>6 DEF vars
<1>7. QED
  BY <1>1, <1>2, <1>3, <1>4, <1>5, <1>6 DEF Next

LEMMA LogsAppliedNext ==
    ASSUME ~ SyncPerWrite, Inv, Inv', DurableInv, LogOrder, LogsApplied, [Next]_vars
    PROVE  LogsApplied'
<1> SUFFICES ASSUME mode' # "down", NEW g \in walFiles', NEW k \in Keys, NEW i \in Entries(g, k)',
                    Reached(g, i)'
             PROVE  wlog'[g][i] <= kv'[k] /\ (g \in LiveGens' => wlog'[g][i] <= mem'[g][k])
  BY DEF LogsApplied
<1>0. LogShape /\ LiveLogs /\ InHand /\ Len(ops) \in Nat
  BY Numbers DEF DurableInv
<1>1. ASSUME NEW del \in BOOLEAN, Write(k, del), g = active, wlog'[g][i] = Len(ops) + 1
      PROVE  FALSE
  <2>1. wr'.pc = "apply" /\ wr'.w = Len(ops) + 1 /\ active' = active
    BY <1>1 DEF Write
  <2>2. QED
    BY <1>1, <2>1 DEF Reached
<1>2. CASE Recover
  <2>1. /\ active' \notin walFiles /\ LiveGens' = {active'} /\ mem'[active'][k] = Replayed(k)
    BY <1>0, <1>2, RecoverLog
  <2>2. kv'[k] = Recovered(k)
    BY <1>2 DEF Recover
  <2>3. wlog'[g][i] <= Replayed(k) /\ Replayed(k) # 0 /\ Replayed(k) \in Nat
    <3>0. TypeDirectory /\ wlog \in [Seqs -> Seq(1 .. Len(ops))]
      BY DEF Inv, TypeOK, Issued
    <3>1. Replayed(k) \in 0 .. Len(ops)
      BY <1>0, <3>0, ReplayedType
    <3>2. CASE g \in walFiles /\ i \in Entries(g, k) /\ wlog'[g][i] = wlog[g][i]
      BY <1>0, <3>1, <3>2, ReplayedNewest, EntryType
    <3>3. QED
      BY <1>0, <1>1, <3>1, <3>2, EntrySteps
  <2>4. kv'[k] = Replayed(k)
    BY <2>2, <2>3, RecoveredIs DEF OrElse
  <2>5. g \in LiveGens' => mem'[g][k] = Replayed(k)
    BY <2>1
  <2>6. QED
    BY <2>3, <2>4, <2>5
<1>3. CASE ~ Recover
  <2>1. g \in walFiles /\ i \in Entries(g, k) /\ wlog'[g][i] = wlog[g][i]
    BY <1>0, <1>1, <1>3, EntrySteps
  <2>2. mode # "down" /\ active \in Seqs /\ LiveGens \subseteq Seqs
    <3>1. mode # "down"
      BY <1>3, MemorySteps DEF Apply, Swap, FlushCommit, Inv, Quiet
    <3>2. QED
      BY <3>1, Numbers
  <2>3. wlog[g][i] \in 1 .. Len(ops) /\ ops[wlog[g][i]].key = k
    BY <2>1, EntryType DEF Entries
  <2>4. CASE \E freeze \in BOOLEAN : Apply(freeze)
    <3>1. PICK freeze \in BOOLEAN : Apply(freeze)
      BY <2>4
    <3>2. /\ mem'[active][ops[wr.w].key] = wr.w /\ kv'[ops[wr.w].key] = wr.w
          /\ \A h \in Seqs, e \in Keys :
                ~ (h = active /\ e = ops[wr.w].key) => mem'[h][e] = mem[h][e]
          /\ \A e \in Keys : e # ops[wr.w].key => kv'[e] = kv[e]
          /\ LiveGens' = LiveGens /\ wr.pc = "apply" /\ wr.by = "put"
      BY <3>1, ApplyWrites
    <3>3. wr.w = Len(ops)
      BY <1>0, <3>2 DEF InHand
    <3>4. wlog[g][i] <= wr.w
      BY <1>0, <2>3, <3>3
    <3>5. CASE k = ops[wr.w].key /\ g = active
      BY <2>1, <3>2, <3>4, <3>5
    <3>6. CASE ~ (k = ops[wr.w].key /\ g = active)
      <4>1. Reached(g, i)
        BY <2>3, <3>6 DEF Reached
      <4>2. wlog[g][i] <= kv[k] /\ (g \in LiveGens => wlog[g][i] <= mem[g][k])
        BY <2>1, <2>2, <4>1 DEF LogsApplied
      <4>3. g \in LiveGens => mem'[g][k] = mem[g][k]
        BY <2>2, <3>2, <3>6
      <4>4. CASE k = ops[wr.w].key
        BY <2>1, <3>2, <3>4, <4>2, <4>3, <4>4
      <4>5. CASE k # ops[wr.w].key
        BY <2>1, <3>2, <4>2, <4>3, <4>5
      <4>6. QED
        BY <4>4, <4>5
    <3>7. QED
      BY <3>5, <3>6
  <2>5. CASE ~ \E freeze \in BOOLEAN : Apply(freeze)
    <3>1. Reached(g, i)
      BY <2>1, <2>5, PutSteps DEF Reached
    <3>2. wlog[g][i] <= kv[k] /\ (g \in LiveGens => wlog[g][i] <= mem[g][k])
      BY <2>1, <2>2, <3>1 DEF LogsApplied
    <3>3. CASE UNCHANGED <<mem, active, imms, kv>>
      BY <2>1, <3>2, <3>3 DEF LiveGens
    <3>4. CASE Swap
      <4>0. PICK n : n = wr.new
        OBVIOUS
      <4>1. /\ LiveGens' = LiveGens \cup {n} /\ Entries(n, k)' = {}
            /\ UNCHANGED <<mem, kv>>
        BY <1>0, <3>4, <4>0, SwapAdds
      <4>2. QED
        BY <2>1, <3>2, <4>1
    <3>5. CASE FlushCommit
      <4>1. /\ LiveGens' = LiveGens \ {fl.gen} /\ UNCHANGED kv
            /\ \A h \in Seqs : h # fl.gen => mem'[h] = mem[h]
        BY <3>5, FlushedTables
      <4>2. QED
        BY <2>1, <2>2, <3>2, <4>1
    <3>6. QED
      BY <1>3, <2>5, <3>3, <3>4, <3>5, MemorySteps
  <2>6. QED
    BY <2>4, <2>5
<1>4. QED
  BY <1>2, <1>3

\* While the engine is up, its logs change by a write or a deletion.
LEMMA UpLogSteps ==
    ASSUME [Next]_vars, mode = "up", mode' = "up"
    PROVE  \/ UNCHANGED <<wlog, ops>>
           \/ \E k \in Keys, del \in BOOLEAN : Write(k, del) \/ WriteSyncFails(k, del)
           \/ FlushUnlink
<1>1. CASE WritePath
  BY <1>1 DEF WritePath, Apply, FlushSync, Rotate, RotateFails, Swap, walVars, ghosts
<1>2. CASE FlushPipeline
  BY <1>2 DEF FlushPipeline, FlushBegin, FlushBuild, FlushBuildFails, FlushCommit, FlushNothing,
     FlushManifest, FlushManifestFails, FlushReturn, walVars, dirVars, ghosts
<1>3. CASE Compaction
  BY <1>3 DEF Compaction, CompactBuild, CompactBuildFails, CompactNothing, CompactCommit,
     CompactManifest, CompactManifestFails, CompactUnlink, CompactReturn, walVars, dirVars, ghosts
<1>4. CASE Worker
  BY <1>4 DEF Worker, WorkerRecv, WorkerCheck, dirVars, ghosts
<1>5. CASE Lifecycle
  BY <1>5 DEF Lifecycle, Close, Crash, Recover, Reback, RebackFails, CleanOld, ProcessGone
<1>6. CASE UNCHANGED vars
  BY <1>6 DEF vars
<1>7. QED
  BY <1>1, <1>2, <1>3, <1>4, <1>5, <1>6 DEF Next

\* What is frozen or being deleted was so before, unless a freeze has just ended.
LEMMA FrozenSteps ==
    ASSUME Inv, [Next]_vars
    PROVE  \/ imms' \cup fl'.todo \subseteq imms \cup fl.todo
           \/ Swap
<1>0. fl \in FlType
  BY DEF Inv, TypeOK, TypeProcess
<1>1. CASE imms' \subseteq imms /\ (fl'.todo \subseteq fl.todo \/ fl' = FlFree)
  BY <1>1 DEF FlFree
<1>2. CASE WritePath
  BY <1>1, <1>2 DEF WritePath, Write, WriteSyncFails, Apply, FlushSync, Rotate, RotateFails
<1>3. CASE FlushPipeline
  <2>1. CASE FlushCommit
    BY <1>0, <2>1 DEF FlushCommit, StillFrozen, Flushed, FlType, Inv, FlushInFlight
  <2>2. CASE \E p \in Clients \cup {"worker"} : FlushBegin(p)
    BY <1>1, <2>2 DEF FlushBegin, FlFree
  <2>3. CASE FlushBuildFails \/ FlushManifestFails \/ FlushReturn
    BY <1>1, <2>3 DEF FlushBuildFails, FlushManifestFails, FlushReturn, Release
  <2>4. CASE FlushBuild \/ FlushNothing \/ FlushManifest \/ FlushUnlink
    BY <1>0, <1>1, <2>4 DEF FlushBuild, FlushNothing, FlushManifest, FlushUnlink, FlType
  <2>5. QED
    BY <1>3, <2>1, <2>2, <2>3, <2>4 DEF FlushPipeline
<1>4. CASE Compaction
  <2>1. imms' = imms
    BY <1>4 DEF Compaction, CompactBuild, CompactBuildFails, CompactNothing, CompactCommit,
       CompactManifest, CompactManifestFails, CompactUnlink, CompactReturn
  <2>2. fl'.todo = {} \/ fl'.todo = fl.todo
    <3>1. CASE \E p \in Clients \cup {"worker"} : CompactBuild(p)
      BY <3>1 DEF CompactBuild, FlFree
    <3>2. CASE CompactManifestFails \/ CompactReturn
      BY <3>2 DEF CompactManifestFails, CompactReturn, Release, FlFree
    <3>3. CASE \/ CompactNothing \/ CompactCommit \/ CompactManifest
               \/ \E p \in Clients \cup {"worker"} : CompactBuildFails(p)
               \/ \E l \in Levels : CompactUnlink(l)
      BY <1>0, <3>3 DEF CompactNothing, CompactCommit, CompactManifest, CompactBuildFails,
         CompactUnlink, FlType
    <3>4. QED
      BY <1>4, <3>1, <3>2, <3>3 DEF Compaction
  <2>3. QED
    BY <2>1, <2>2
<1>5. CASE Worker
  BY <1>1, <1>5 DEF Worker, WorkerRecv, WorkerCheck
<1>6. CASE Lifecycle
  BY <1>1, <1>6 DEF Lifecycle, Close, Crash, Recover, Reback, RebackFails, CleanOld, ProcessGone
<1>7. CASE UNCHANGED vars
  BY <1>1, <1>7 DEF vars
<1>8. QED
  BY <1>2, <1>3, <1>4, <1>5, <1>6, <1>7 DEF Next

\* A freeze begins with a write in the log, and ends before another one is taken.
LEMMA FreezeSteps ==
    ASSUME Inv, DurableInv, [Next]_vars, wr'.pc \in {"rotate", "swap"}, ~ wr.pc \in {"rotate", "swap"}
    PROVE  UNCHANGED <<active, wlog>> /\ wlog[active] # << >> /\ mode = "up"
<1>0. /\ LiveLogs /\ InHand /\ wr \in WrType
  BY DEF DurableInv, Inv, TypeOK, TypeProcess
<1>1. (\E freeze \in BOOLEAN : Apply(freeze)) \/ \E c \in Clients : FlushSync(c)
  <2>1. CASE WritePath
    <3>1. ASSUME NEW k \in Keys, NEW del \in BOOLEAN, Write(k, del) \/ WriteSyncFails(k, del)
          PROVE  FALSE
      <4>1. wr'.pc = "apply" \/ wr' = wr
        BY <3>1 DEF Write, WriteSyncFails
      <4>2. QED
        BY <4>1
    <3>2. ~ Rotate /\ ~ RotateFails /\ ~ Swap
      BY DEF Rotate, RotateFails, Swap
    <3>3. QED
      BY <2>1, <3>1, <3>2 DEF WritePath
  <2>2. CASE ~ WritePath
    <3>1. wr' = wr \/ wr' = WrFree
      BY <2>2 DEF Next, FlushPipeline, FlushBegin, FlushBuild, FlushBuildFails, FlushCommit,
         FlushNothing, FlushManifest, FlushManifestFails, FlushUnlink, FlushReturn,
         Compaction, CompactBuild, CompactBuildFails, CompactNothing, CompactCommit,
         CompactManifest, CompactManifestFails, CompactUnlink, CompactReturn,
         Worker, WorkerRecv, WorkerCheck, Lifecycle, Close, Crash, Recover, Reback,
         RebackFails, CleanOld, ProcessGone, vars
    <3>2. QED
      BY <3>1 DEF WrFree
  <2>3. QED
    BY <2>1, <2>2
<1>2. CASE \E freeze \in BOOLEAN : Apply(freeze)
  <2>1. UNCHANGED <<active, wlog>> /\ wr.pc = "apply" /\ wr.by = "put" /\ mode = "up"
    BY <1>2, ApplyWrites
  <2>2. HasWrite(active, ops[wr.w].key, wr.w)
    BY <1>0, <2>1 DEF InHand
  <2>3. wlog[active] # << >>
    BY <2>2 DEF HasWrite, Entries
  <2>4. QED
    BY <2>1, <2>3
<1>3. CASE \E c \in Clients : FlushSync(c)
  <2>1. UNCHANGED <<active, wlog>> /\ mem[active] # EmptyTable /\ mode = "up"
    BY <1>3 DEF FlushSync
  <2>2. active \in LiveGens /\ mem[active] \in [Keys -> 0 .. Len(ops)]
    BY <2>1, Numbers DEF LiveGens, Inv, Issued
  <2>3. PICK k \in Keys : mem[active][k] # 0
    BY <2>1, <2>2 DEF EmptyTable
  <2>4. HasWrite(active, k, mem[active][k])
    BY <1>0, <2>1, <2>2, <2>3 DEF LiveLogs
  <2>5. wlog[active] # << >>
    BY <2>4 DEF HasWrite, Entries
  <2>6. QED
    BY <2>1, <2>5
<1>4. QED
  BY <1>1, <1>2, <1>3

LEMMA FrozenHaveWritesNext ==
    ASSUME Inv, DurableInv, DurableInv', FrozenHaveWrites, [Next]_vars PROVE FrozenHaveWrites'
<1> SUFFICES ASSUME mode' = "up" PROVE FrozenHaveWrites'
  BY DEF FrozenHaveWrites
<1>0. /\ LiveLogs /\ TodoOlder /\ imms \cup fl.todo \subseteq Seqs
  BY Numbers DEF DurableInv
<1>1. CASE mode # "up"
  <2>1. imms = {} /\ fl.todo = {} /\ wr.pc = "free"
    BY <1>0, <1>1 DEF Inv, Quiet, TodoOlder
  <2>2. ~ Swap
    BY <2>1 DEF Swap
  <2>3. imms' \cup fl'.todo = {}
    BY <2>1, <2>2, FrozenSteps
  <2>4. ~ wr'.pc \in {"rotate", "swap"}
    BY <1>1, <2>1, FreezeSteps
  <2>5. QED
    BY <2>3, <2>4 DEF FrozenHaveWrites
<1>2. CASE mode = "up"
  <2>0. active \in Seqs /\ wlog \in [Seqs -> Seq(1 .. Len(ops))]
    BY <1>2, Numbers DEF Inv, Issued
  <2>1. ASSUME NEW g \in Seqs, wlog[g] # << >>, ~ FlushUnlink \/ g # OldestGen(fl.todo)
        PROVE  wlog'[g] # << >>
    <3>1. CASE UNCHANGED <<wlog, ops>>
      BY <2>1, <3>1
    <3>2. CASE \E k \in Keys, del \in BOOLEAN : Write(k, del) \/ WriteSyncFails(k, del)
      <4>1. PICK op : ops' = Append(ops, op) /\ wlog' = Logged(active, Len(ops) + 1)
        BY <3>2 DEF Write, WriteSyncFails
      <4>2. /\ \A h \in Seqs \ {active} : wlog'[h] = wlog[h]
            /\ Len(wlog'[active]) = Len(wlog[active]) + 1 /\ Len(wlog[active]) \in Nat
        BY <2>0, <4>1, LogExtended
      <4>3. wlog'[active] # << >>
        BY <4>2
      <4>4. QED
        BY <2>1, <4>2, <4>3
    <3>3. CASE FlushUnlink
      <4>1. UnlinkWal(OldestGen(fl.todo)) \/ UNCHANGED walVars
        BY <3>3 DEF FlushUnlink
      <4>2. CASE UnlinkWal(OldestGen(fl.todo))
        BY <2>1, <3>3, <4>2, LogUnlinked DEF Inv
      <4>3. QED
        BY <2>1, <4>1, <4>2 DEF walVars
    <3>4. QED
      BY <1>2, <3>1, <3>2, <3>3, UpLogSteps
  <2>2. ASSUME NEW g \in imms' \cup fl'.todo PROVE wlog'[g] # << >>
    <3>1. CASE Swap
      <4>1. imms' = imms \cup {active} /\ wr.pc = "swap" /\ fl' = fl /\ wlog' = wlog
        BY <3>1 DEF Swap
      <4>2. QED
        BY <1>2, <2>2, <4>1 DEF FrozenHaveWrites
    <3>2. CASE ~ Swap
      <4>1. g \in imms \cup fl.todo /\ g \in Seqs
        BY <1>0, <2>2, <3>2, FrozenSteps
      <4>2. ~ FlushUnlink \/ g # OldestGen(fl.todo)
        <5>1. SUFFICES ASSUME FlushUnlink PROVE g # OldestGen(fl.todo)
          OBVIOUS
        <5>2. fl'.todo = fl.todo \ {OldestGen(fl.todo)} /\ imms' = imms
          BY <5>1 DEF FlushUnlink, Inv, TypeOK, TypeProcess, FlType
        <5>3. \A h \in LiveGens : OldestGen(fl.todo) < h /\ h \in Nat
          BY <1>2, <5>1, UnlinkedIsNotLive, Numbers DEF OldestGen
        <5>4. g \in imms => g # OldestGen(fl.todo)
          BY <5>3 DEF LiveGens
        <5>5. QED
          BY <2>2, <5>2, <5>4
      <4>3. wlog[g] # << >>
        BY <1>2, <4>1 DEF FrozenHaveWrites
      <4>4. QED
        BY <2>1, <4>1, <4>2, <4>3
    <3>3. QED
      BY <3>1, <3>2
  <2>3. ASSUME wr'.pc \in {"rotate", "swap"} PROVE wlog'[active'] # << >>
    <3>1. CASE wr.pc \in {"rotate", "swap"}
      <4>1. wlog[active] # << >>
        BY <1>2, <3>1 DEF FrozenHaveWrites
      <4>2. ~ Swap
        BY <2>3 DEF Swap, WrFree
      <4>3. active' = active
        BY <1>2, <4>2, MemorySteps DEF Apply, FlushCommit, Recover
      <4>4. ~ FlushUnlink \/ active # OldestGen(fl.todo)
        <5>1. FlushUnlink => OldestGen(fl.todo) < active
          BY UnlinkedIsNotLive DEF LiveGens, OldestGen
        <5>2. active \in Nat
          BY Numbers
        <5>3. QED
          BY <5>1, <5>2
      <4>5. QED
        BY <2>0, <2>1, <4>1, <4>3, <4>4
    <3>2. CASE ~ wr.pc \in {"rotate", "swap"}
      BY <2>3, <3>2, FreezeSteps
    <3>3. QED
      BY <3>1, <3>2
  <2>4. QED
    BY <2>2, <2>3 DEF FrozenHaveWrites
<1>3. QED
  BY <1>1, <1>2

\* The other steps neither allocate a number nor change what the numbers stand for.
SameNumbers ==
    /\ UNCHANGED <<walFiles, wlog, levels, active, nextSeq>> /\ mode # "down"
    /\ wr'.pc = "swap" => wr.pc = "swap"
    /\ \/ fl' = fl
       \/ fl.pc \notin {"commit", "merged"} /\ fl'.pc \notin {"commit", "merged"}

LEMMA NumberSteps ==
    ASSUME NoLosingFaults, Inv, [Next]_vars, mode' # "down"
    PROVE  \/ SameNumbers
           \/ Recover \/ CleanOld
           \/ \E k \in Keys, del \in BOOLEAN : Write(k, del) \/ WriteSyncFails(k, del)
           \/ Rotate \/ RotateFails \/ Swap
           \/ FlushBuild \/ FlushCommit \/ FlushUnlink
           \/ CompactCommit \/ \E p \in Clients \cup {"worker"} : CompactBuild(p)
<1>0. /\ fl \in FlType /\ wr \in WrType
      /\ fl.pc # "free" \/ wr.pc # "free" => mode = "up"
  BY DEF Inv, TypeOK, TypeProcess, Quiet
<1>1. CASE WritePath
  <2>1. CASE \E freeze \in BOOLEAN : Apply(freeze)
    <3>1. wr'.pc # "swap"
      BY <1>0, <2>1 DEF Apply, WrType, WrFree
    <3>2. QED
      BY <1>0, <2>1, <3>1 DEF Apply, SameNumbers, walVars, sstVars
  <2>2. CASE \E c \in Clients : FlushSync(c)
    <3>1. wr' = wr \/ wr'.pc = "rotate"
      BY <2>2 DEF FlushSync
    <3>2. UNCHANGED <<walFiles, wlog, levels, active, nextSeq, fl>> /\ mode = "up"
      BY <2>2 DEF FlushSync, sstVars
    <3>3. QED
      BY <3>1, <3>2 DEF SameNumbers
  <2>3. QED
    BY <1>1, <2>1, <2>2 DEF WritePath
<1>2. CASE FlushPipeline
  <2>1. CASE \/ FlushNothing \/ FlushManifest \/ FlushReturn
             \/ \E p \in Clients \cup {"worker"} : FlushBegin(p)
    <3>1. /\ UNCHANGED <<walFiles, wlog, levels, active, nextSeq, wr>> /\ mode # "down"
          /\ fl.pc \notin {"commit", "merged"}
      BY <1>0, <2>1 DEF FlushNothing, FlushManifest, FlushReturn, FlushBegin, walVars, dirVars
    <3>2. fl'.pc \notin {"commit", "merged"}
      <4>1. CASE \E p \in Clients \cup {"worker"} : FlushBegin(p)
        BY <4>1 DEF FlushBegin, FlFree
      <4>2. CASE FlushNothing \/ FlushManifest
        BY <1>0, <4>2 DEF FlushNothing, FlushManifest, FlType
      <4>3. CASE FlushReturn
        BY <4>3 DEF FlushReturn, Release, FlFree
      <4>4. QED
        BY <2>1, <4>1, <4>2, <4>3
    <3>3. QED
      BY <3>1, <3>2 DEF SameNumbers
  <2>2. ~ FlushBuildFails /\ ~ FlushManifestFails
    BY DEF FlushBuildFails, FlushManifestFails, NoLosingFaults
  <2>3. QED
    BY <1>2, <2>1, <2>2 DEF FlushPipeline
<1>3. CASE Compaction
  <2>1. CASE CompactManifest \/ CompactReturn \/ \E l \in Levels : CompactUnlink(l)
    <3>1. /\ UNCHANGED <<walFiles, wlog, levels, active, nextSeq, wr>> /\ mode # "down"
          /\ fl.pc \notin {"commit", "merged"}
      BY <1>0, <2>1 DEF CompactManifest, CompactReturn, CompactUnlink, walVars, dirVars
    <3>2. fl'.pc \notin {"commit", "merged"}
      BY <1>0, <2>1 DEF CompactManifest, CompactReturn, CompactUnlink, Release, FlFree, FlType
    <3>3. QED
      BY <3>1, <3>2 DEF SameNumbers
  <2>2. CASE CompactNothing
    BY <2>2 DEF CompactNothing, CompactCaller, SameNumbers, dirVars
  <2>3. ~ CompactManifestFails /\ \A p \in Clients \cup {"worker"} : ~ CompactBuildFails(p)
    BY DEF CompactManifestFails, CompactBuildFails, NoLosingFaults
  <2>4. QED
    BY <1>3, <2>1, <2>2, <2>3 DEF Compaction
<1>4. CASE Worker \/ UNCHANGED vars
  <2>1. UNCHANGED <<walFiles, wlog, levels, active, nextSeq, wr, fl, mode>>
    BY <1>4 DEF Worker, WorkerRecv, WorkerCheck, vars, dirVars
  <2>2. QED
    BY <2>1 DEF SameNumbers
<1>5. CASE Lifecycle
  <2>1. CASE Reback
    BY <2>1 DEF Reback, SameNumbers, sstVars
  <2>2. QED
    BY <1>5, <2>1 DEF Lifecycle, Close, Crash, RebackFails, ProcessGone
<1>6. QED
  BY <1>1, <1>2, <1>3, <1>4, <1>5 DEF Next

LEMMA NewestNumberSeenNext ==
    ASSUME NoLosingFaults, Inv, DurableInv, FrozenHaveWrites, NewestNumberSeen, [Next]_vars
    PROVE  NewestNumberSeen'
<1> DEFINE Built == IF fl.pc \in {"commit", "merged"} THEN {fl.seq} ELSE {}
           Seen == nextSeq - 1 \in walFiles \cup levels[0] \cup levels[1] \cup Built
<1> SUFFICES ASSUME mode' # "down", levels'[0] # {} \/ fl'.pc = "commit",
                    wr'.pc = "swap" \/ wlog'[active'] = << >>
             PROVE  Seen'
  BY DEF NewestNumberSeen
<1>0. /\ LogShape /\ LiveLogs /\ nextSeq \in Nat /\ fl \in FlType
      /\ mode # "down" => active \in Seqs /\ active \in Nat /\ active < nextSeq /\ active \in walFiles
  BY Numbers DEF DurableInv, LiveLogs, LiveGens, Inv, TypeOK, TypeProcess
<1>1. ASSUME mode # "down", levels[0] # {} \/ fl.pc = "commit", wr.pc = "swap" \/ wlog[active] = << >>
      PROVE  Seen
  BY <1>1 DEF NewestNumberSeen
<1>2. CASE SameNumbers
  <2>1. CASE fl' = fl
    BY <1>1, <1>2, <2>1 DEF SameNumbers
  <2>2. CASE fl.pc \notin {"commit", "merged"} /\ fl'.pc \notin {"commit", "merged"}
    <3>1. Seen
      BY <1>1, <1>2, <2>2 DEF SameNumbers
    <3>2. QED
      BY <1>2, <2>2, <3>1 DEF SameNumbers
  <2>3. QED
    BY <1>2, <2>1, <2>2 DEF SameNumbers
<1>3. CASE Recover
  <2>1. nextSeq' = active' + 1 /\ active' \in walFiles' /\ active' \in Nat
    BY <1>0, <1>3, RecoverLog, BasicSets
  <2>2. QED
    BY <2>1
<1>4. CASE CleanOld \/ FlushUnlink
  <2>0. PICK g : g = IF FlushUnlink THEN Min(fl.todo) ELSE Min(stale)
    OBVIOUS
  <2>1. /\ UNCHANGED <<levels, active, nextSeq, wr>> /\ mode # "down"
        /\ fl'.pc = "commit" => fl.pc = "commit"
        /\ fl'.pc \in {"commit", "merged"} => fl' = fl
        /\ fl.pc \in {"commit", "merged"} => fl' = fl
    <3>1. CASE FlushUnlink
      BY <1>0, <3>1 DEF FlushUnlink, sstVars, FlType, Inv, Quiet
    <3>2. CASE CleanOld
      BY <3>2 DEF CleanOld, sstVars
    <3>3. QED
      BY <1>4, <3>1, <3>2
  <2>2. g < active
    BY <1>4, <2>0, UnlinkedIsNotLive DEF LiveGens
  <2>3. UnlinkWal(g) \/ UNCHANGED walVars
    BY <1>4, <2>0 DEF CleanOld, FlushUnlink, OldestGen
  <2>4. walFiles \ {g} \subseteq walFiles' /\ wlog'[active] = wlog[active]
    <3>1. CASE UnlinkWal(g)
      BY <1>0, <2>1, <2>2, <3>1, LogUnlinked DEF Inv
    <3>2. QED
      BY <2>3, <3>1 DEF walVars
  <2>5. Seen
    BY <1>1, <2>1, <2>4
  <2>6. nextSeq - 1 # g
    BY <1>0, <2>1, <2>2
  <2>7. QED
    BY <2>1, <2>4, <2>5, <2>6
<1>5. CASE \E k \in Keys, del \in BOOLEAN : Write(k, del) \/ WriteSyncFails(k, del)
  <2>1. PICK op : /\ ops' = Append(ops, op) /\ wlog' = Logged(active, Len(ops) + 1)
                  /\ mode = "up" /\ active' = active /\ wr'.pc # "swap"
    BY <1>5 DEF Write, WriteSyncFails
  <2>2. Len(wlog'[active]) = Len(wlog[active]) + 1 /\ Len(wlog[active]) \in Nat
    BY <1>0, <2>1, LogExtended
  <2>3. QED
    BY <2>1, <2>2
<1>6. CASE Rotate
  <2>1. nextSeq' = nextSeq + 1 /\ nextSeq \in walFiles'
    BY <1>6 DEF Rotate
  <2>2. QED
    BY <1>0, <2>1
<1>7. CASE RotateFails
  <2>1. wr.pc = "rotate" /\ wr'.pc = "free" /\ UNCHANGED <<wlog, active>>
    BY <1>7 DEF RotateFails, WrFree, walVars
  <2>2. QED
    BY <2>1 DEF FrozenHaveWrites, Inv, Quiet
<1>8. CASE Swap
  <2>1. wr.pc = "swap" /\ UNCHANGED <<walFiles, levels, nextSeq, fl>> /\ mode = "up"
    BY <1>8 DEF Swap, sstVars, Inv, Quiet
  <2>2. QED
    BY <1>1, <2>1
<1>9. CASE FlushBuild
  <2>1. nextSeq' = nextSeq + 1 /\ fl'.pc = "commit" /\ fl'.seq = nextSeq
    BY <1>0, <1>9 DEF FlushBuild, FlType
  <2>2. QED
    BY <1>0, <2>1
<1>10. CASE FlushCommit
  <2>1. /\ fl.pc = "commit" /\ mode = "up" /\ UNCHANGED <<walFiles, wlog, active, nextSeq, wr>>
        /\ levels' = [levels EXCEPT ![0] = @ \cup {fl.seq}] /\ levels \in [Levels -> SUBSET Seqs]
    BY <1>10 DEF FlushCommit, dirVars, Inv, Quiet, TypeOK, TypeProcess
  <2>2. levels'[0] = levels[0] \cup {fl.seq} /\ levels'[1] = levels[1]
    BY <2>1, BasicSets
  <2>3. Seen
    BY <1>1, <2>1
  <2>4. QED
    BY <2>1, <2>2, <2>3
<1>11. CASE CompactCommit
  <2>1. levels'[0] = {} /\ fl'.pc = "record"
    BY <1>0, <1>11, BasicSets DEF CompactCommit, Compacted, FlType
  <2>2. QED
    BY <2>1
<1>12. CASE \E p \in Clients \cup {"worker"} : CompactBuild(p)
  <2>1. /\ fl'.pc = "merged" /\ fl.pc = "free" /\ mode = "up" /\ levels[0] # {}
        /\ UNCHANGED <<walFiles, wlog, levels, active, wr>>
        /\ nextSeq' = nextSeq \/ (nextSeq' = nextSeq + 1 /\ fl'.seq = nextSeq)
    BY <1>12 DEF CompactBuild, CompactCaller, FlFree, walVars
  <2>2. Seen
    BY <1>1, <2>1
  <2>3. QED
    BY <1>0, <2>1, <2>2
<1>13. QED
  BY <1>2, <1>3, <1>4, <1>5, <1>6, <1>7, <1>8, <1>9, <1>10, <1>11, <1>12, NumberSteps

LEMMA UnflushedInit == Init => UnflushedInv
  BY DEF Init, UnflushedInv, LogsUnpromised, LogsApplied, LogOrder, FrozenHaveWrites,
         NewestNumberSeen

LEMMA UnflushedNext ==
    ASSUME NoLosingFaults, ~ SyncPerWrite, Inv, DurableInv, UnflushedInv, [Next]_vars
    PROVE  UnflushedInv'
<1>1. Inv' /\ DurableInv' /\ LiveLogs'
  BY InvNext, DurableNext DEF DurableInv
<1>2. QED
  BY <1>1, LogsUnpromisedNext, LogsAppliedNext, LogOrderNext, FrozenHaveWritesNext,
     NewestNumberSeenNext DEF UnflushedInv

-----------------------------------------------------------------------------
(* Dropping an engine after a flush().                                     *)

\* When all that was applied is promised, and nobody is inside a put, there is nothing
\* left to flush, and the levels are what open will find.
LEMMA NothingToFlush ==
    ASSUME Inv, DurableInv, UnflushedInv, AllFlushed, mode = "up", wr.pc = "free"
    PROVE  /\ imms = {} /\ fl.todo = {} /\ fl.pc \notin {"commit", "unlink"}
           /\ walFiles = {active} /\ active \in Seqs
           /\ \A g \in Seqs : wlog[g] = << >>
           /\ fl.pc \notin {"record", "sweep"} => manifest = levels
<1>0. /\ LogShape /\ LiveLogs /\ TodoOlder /\ LogsAccounted /\ ManifestLags
      /\ active \in Seqs /\ walFiles \subseteq Seqs /\ fl.todo \subseteq Seqs /\ imms \subseteq Seqs
  BY Numbers DEF DurableInv
<1>1. ASSUME NEW g \in Seqs PROVE wlog[g] = << >>
  <2>1. SUFFICES ASSUME wlog[g] # << >> PROVE FALSE
    OBVIOUS
  <2>2. g \in walFiles
    BY <1>0, <2>1 DEF LogShape
  <2>3. wlog[g] \in Seq(1 .. Len(ops)) /\ Len(ops) \in Nat
    BY Numbers DEF Inv, Issued
  <2>4. Len(wlog[g]) \in Nat \ {0}
    BY <2>1, <2>3
  <2>5. wlog[g][1] \in 1 .. Len(ops) /\ 1 \in 1 .. Len(wlog[g])
    BY <2>3, <2>4
  <2>6. ops[wlog[g][1]].key \in Keys
    BY <2>5, IssuedKeys DEF Inv
  <2>7. PICK k \in Keys : 1 \in Entries(g, k)
    BY <2>5, <2>6 DEF Entries
  <2>8. durable[k] < wlog[g][1]
    BY <2>2, <2>7 DEF UnflushedInv, LogsUnpromised
  <2>9. wlog[g][1] <= kv[k]
    BY <2>2, <2>7 DEF UnflushedInv, LogsApplied, Reached
  <2>10. durable[k] = kv[k] /\ kv[k] \in Nat
    BY <2>3 DEF AllFlushed, Inv, Issued
  <2>11. QED
    BY <2>5, <2>8, <2>9, <2>10
<1>2. imms = {} /\ fl.todo = {}
  BY <1>0, <1>1 DEF UnflushedInv, FrozenHaveWrites
<1>3. fl.pc # "commit" /\ fl.pc # "unlink"
  BY <1>0, <1>2 DEF Inv, FlushInFlight, TodoOlder
<1>4. walFiles = {active}
  BY <1>0, <1>2 DEF LogsAccounted, NoStrayWal, LiveLogs, LiveGens
<1>5. fl.pc \notin {"record", "sweep"} => manifest = levels
  BY <1>0, <1>2, <1>3 DEF ManifestLags
<1>6. QED
  BY <1>0, <1>1, <1>2, <1>3, <1>4, <1>5

LEMMA DropKeepsEngine ==
    ASSUME ReopenInv', Inv, DurableInv, UnflushedInv, DropHandle, AllFlushed, ~ Committed(fl)
    PROVE  Inv' /\ DurableInv'
<1>0. /\ mode = "up" /\ wr.pc = "free" /\ ProcessGone /\ closed' = kv
      /\ UNCHANGED <<walFiles, wos, wsync, files, sst, manifest, ops, kv, gone, durable, acked, stops>>
  BY DEF DropHandle
<1>1. /\ walFiles = {active} /\ active \in Seqs /\ \A g \in Seqs : wlog[g] = << >>
  BY <1>0, NothingToFlush
<1>2. wlog' = wlog
  <2>1. wlog \in [Seqs -> Seq(1 .. Len(ops))] /\ wos[active] \in Nat
    BY <1>1, Numbers DEF Inv, Issued
  <2>2. PICK n \in wos[active] .. Len(wlog[active]) :
           wlog' = [wlog EXCEPT ![active] = SubSeq(@, 1, n)]
    BY DEF DropHandle
  <2>3. n = 0 /\ wlog[active] = << >>
    BY <1>1, <2>1, <2>2
  <2>4. SubSeq(<< >>, 1, 0) = << >>
    OBVIOUS
  <2>5. QED
    BY <2>1, <2>2, <2>3, <2>4
<1>3. Inv'
  <2>1. TypeOK' /\ wlog' \in [Seqs -> Seq(1 .. Len(ops))]
    BY <1>2 DEF ReopenInv, Inv, Issued
  <2>2. QED
    BY <1>0, <2>1, InvProcessGone
<1>4. /\ mode' = "down" /\ wr' = WrFree /\ fl' = FlFree /\ imms' = {}
      /\ calls' = [c \in Clients |-> "idle"] /\ snap' = [c \in Clients |-> EmptyTable]
      /\ stale' = {} /\ WrFree.pc = "free" /\ FlFree.pc = "free" /\ FlFree.todo = {}
  BY <1>0 DEF ProcessGone, WrFree, FlFree
<1>5. LogShape'
  BY <1>0, <1>2 DEF DurableInv, LogShape
<1>6. LiveLogs' /\ InHand' /\ CallsInOrder' /\ TodoOlder' /\ LogsAccounted' /\ ManifestLags'
  BY <1>4 DEF LiveLogs, InHand, CallsInOrder, TodoOlder, LogsAccounted, NoStrayWal, ManifestLags
<1>7. AppliedHeld' /\ SnapHeld' /\ SnapFlushed' /\ Reappended' /\ LivePromises'
  BY <1>4 DEF AppliedHeld, SnapHeld, SnapFlushed, Reappended, LivePromises
<1>8. PromisedIssued'
  <2>1. \A k \in Keys : durable[k] <= Len(ops) /\ kv[k] <= Len(ops)
    BY Numbers DEF DurableInv, PromisedIssued, Inv, Issued
  <2>2. \A c \in Clients, k \in Keys : snap'[c][k] = 0
    BY <1>4 DEF EmptyTable
  <2>3. Len(ops) \in Nat
    BY Numbers
  <2>4. SyncPerWrite => \A k \in Keys : acked[k] <= durable[k]
    BY DEF DurableInv, PromisedIssued
  <2>5. QED
    BY <1>0, <2>1, <2>2, <2>3, <2>4 DEF PromisedIssued
<1>9. DiskPromises'
  <2>1. ASSUME NEW kind \in PromiseKinds, NEW k \in Keys PROVE DiskKeeps(kind, k, Owed(kind, k))'
    <3>1. Owed(kind, k)' = durable[k] /\ Owed("power", k) = durable[k] /\ "power" \in PromiseKinds
      BY <1>0 DEF Owed, AllFlushed, PromiseKinds
    <3>2. DiskKeeps("power", k, durable[k])
      BY <3>1 DEF DurableInv, DiskPromises
    <3>3. \A g \in walFiles : Entries(g, k) = {}
      BY <1>1 DEF Entries
    <3>4. Fresh(k, FromTables(manifest, k), durable[k])
      BY <3>2, <3>3 DEF DiskKeeps, SafeHit
    <3>5. Fresh(k, FromTables(manifest, k), durable[k])'
      BY <1>0, <3>4 DEF Fresh, FromTables, NewestHit, Hits
    <3>6. \A g \in walFiles' : Entries(g, k)' = {}
      BY <1>0, <1>2, <3>3 DEF Entries
    <3>7. QED
      BY <1>0, <3>1, <3>5, <3>6 DEF DiskKeeps, HasOlder
  <2>2. QED
    BY <2>1 DEF DiskPromises
<1>10. QED
  BY <1>3, <1>5, <1>6, <1>7, <1>8, <1>9 DEF DurableInv

\* The dropped engine has then nothing to do that the other one would notice.
LEMMA DropIsIdle ==
    ASSUME ReopenInv, ReopenInv', Inv, DurableInv, UnflushedInv, DropHandle, AllFlushed,
           ~ Committed(fl)
    PROVE  DroppedIdle' /\ DroppedBuild'
<1>0. /\ mode = "up" /\ wr.pc = "free" /\ fl.by \in {"worker", "none"} /\ ProcessGone
      /\ oImms' = imms /\ oFl' = fl /\ oActive' = active /\ oNextSeq' = nextSeq /\ oLevels' = levels
      /\ UNCHANGED <<walFiles, manifest>>
  BY DEF DropHandle
<1>1. /\ walFiles = {active} /\ active \in Seqs /\ \A g \in Seqs : wlog[g] = << >>
      /\ imms = {} /\ fl.todo = {} /\ fl.pc \notin {"commit", "unlink"}
      /\ fl.pc \notin {"record", "sweep"} => manifest = levels
  BY <1>0, NothingToFlush
<1>2. PICK n \in wos[active] .. Len(wlog[active]) :
         /\ wlog' = [wlog EXCEPT ![active] = SubSeq(@, 1, n)]
         /\ oBuf' = SubSeq(wlog[active], n + 1, Len(wlog[active]))
  BY DEF DropHandle
<1>3. n = 0 /\ wlog[active] = << >>
  BY <1>1, <1>2, Numbers
<1>4. oBuf' = << >> /\ wlog'[active] = << >>
  <2>1. SubSeq(<< >>, 1, 0) = << >> /\ Len(<< >>) = 0
    OBVIOUS
  <2>2. active \in DOMAIN wlog
    BY <1>1 DEF Inv, Issued
  <2>3. oBuf' = SubSeq(<< >>, 1, 0)
    BY <1>2, <1>3, <2>1
  <2>4. QED
    BY <1>2, <1>3, <2>1, <2>2, <2>3
<1>5. fl.pc \in {"free", "drain", "ok", "merged"}
  <2>1. fl \in FlType
    BY DEF Inv, TypeOK, TypeProcess
  <2>2. fl.pc \in {"free", "drain", "commit", "unlink", "ok", "merged", "record", "sweep"}
    BY <2>1 DEF FlType
  <2>3. QED
    BY <1>1, <2>2 DEF Committed
<1>6. DroppedIdle'
  BY <1>0, <1>1, <1>4, <1>5 DEF DroppedIdle
<1>7. ASSUME levels[0] # {}, fl.pc # "merged"
      PROVE  /\ \A l \in Levels : nextSeq \notin levels'[l] \cup manifest'[l]
             /\ fl'.seq # nextSeq /\ mode' = "down"
             /\ \E s \in KnownSeqs' : nextSeq <= s + 1
  <2>1. levels' = NoTables /\ fl'.seq = 0 /\ mode' = "down" /\ nextSeq \in Nat \ {0}
    BY <1>0 DEF ProcessGone, FlFree, Inv, TypeOK, TypeProcess
  <2>2. \A l \in Levels : nextSeq \notin levels'[l] \cup manifest'[l]
    BY <1>0, <2>1, FreshNumber DEF NoTables
  <2>3. nextSeq - 1 \in walFiles \cup levels[0] \cup levels[1]
    BY <1>0, <1>3, <1>5, <1>7 DEF UnflushedInv, NewestNumberSeen
  <2>4. nextSeq - 1 \in KnownSeqs'
    BY <1>0, <1>1, <1>5, <2>3 DEF KnownSeqs
  <2>5. QED
    BY <2>1, <2>2, <2>4
<1>8. DroppedBuild'
  BY <1>0, <1>7 DEF DroppedBuild
<1>9. QED
  BY <1>6, <1>8

-----------------------------------------------------------------------------
(* The engine in use, next to a dropped one that has nothing to flush.     *)

LEMMA DroppedIdleKept ==
    ASSUME ~ SyncPerWrite, ReopenInv, ReopenInv', Inv, Inv', DurableInv, DurableInv', DroppedIdle,
           [Next]_vars, UNCHANGED <<oLive, oVars>>
    PROVE  DroppedIdle'
<1>0. PICK a : a = oActive
  OBVIOUS
<1>1. LogShape /\ LiveLogs /\ LogShape'
  BY DEF DurableInv
<1>2. ASSUME oLive, a \in Seqs PROVE wlog'[a] = << >>
  <2>1. SUFFICES ASSUME wlog'[a] # << >> PROVE FALSE
    OBVIOUS
  <2>2. a \in walFiles'
    BY <1>1, <1>2, <2>1 DEF LogShape
  <2>3. wlog'[a] \in Seq(1 .. Len(ops')) /\ Len(ops') \in Nat
    BY <1>2 DEF Inv, Issued, TypeOK, TypeHistory
  <2>4. Len(wlog'[a]) \in Nat \ {0}
    BY <2>1, <2>3
  <2>5. wlog'[a][1] \in 1 .. Len(ops') /\ 1 \in 1 .. Len(wlog'[a])
    BY <2>3, <2>4
  <2>6. ops'[wlog'[a][1]].key \in Keys
    <3> DEFINE R == [key : Keys, del : BOOLEAN]
    <3>1. ops' \in Seq(R)
      BY DEF Inv, TypeOK, TypeHistory
    <3>2. ops'[wlog'[a][1]] \in R
      <4> HIDE DEF R
      <4>1. QED
        BY <2>5, <3>1, ElementOfSeq
    <3>3. QED
      BY <3>2
  <2>7. PICK k \in Keys : 1 \in Entries(a, k)'
    BY <2>5, <2>6 DEF Entries
  <2>8. \/ 1 \in Entries(a, k)
        \/ a = active /\ \E del \in BOOLEAN : Write(k, del)
        \/ Recover /\ a = active'
    BY <1>1, <2>2, <2>7, EntrySteps
  <2>9. 1 \notin Entries(a, k)
    <3>1. wlog[a] = << >>
      BY <1>0, <1>2 DEF DroppedIdle
    <3>2. QED
      BY <3>1 DEF Entries
  <2>10. \A del : Write(k, del) => mode # "down"
    BY DEF Write
  <2>11. Recover => mode' # "down"
    BY DEF Recover
  <2>12. a \in Nat /\ (mode # "down" => a < active) /\ (mode' # "down" => a < active')
    BY <1>0, <1>2, BasicSets DEF ReopenInv, DroppedLogs, oVars
  <2>13. ~ (a < a)
    BY <2>12
  <2>14. QED
    BY <2>8, <2>9, <2>10, <2>11, <2>12, <2>13
<1>3. QED
  BY <1>0, <1>2 DEF DroppedIdle, oVars

\* The number of the table being built is a new one.
LEMMA BuiltNumberSteps ==
    ASSUME Inv, [Next]_vars
    PROVE  fl'.seq \in {fl.seq, 0} \/ (fl'.seq = nextSeq /\ mode # "down")
<1>0. fl \in FlType /\ (fl.pc # "free" => mode # "down")
  BY DEF Inv, TypeOK, TypeProcess, Quiet
<1>f. FlFree.seq = 0
  BY DEF FlFree
<1>1. CASE WritePath
  BY <1>1 DEF WritePath, Write, WriteSyncFails, Apply, FlushSync, Rotate, RotateFails, Swap
<1>2. CASE FlushPipeline
  <2>1. CASE FlushBuild
    BY <1>0, <2>1 DEF FlushBuild, FlType
  <2>2. CASE FlushCommit
    BY <1>0, <2>2 DEF FlushCommit, FlType
  <2>3. CASE FlushNothing \/ FlushManifest \/ FlushUnlink
    BY <1>0, <2>3 DEF FlushNothing, FlushManifest, FlushUnlink, FlType
  <2>4. CASE FlushBuildFails \/ FlushManifestFails \/ FlushReturn
    BY <1>f, <2>4 DEF FlushBuildFails, FlushManifestFails, FlushReturn, Release
  <2>5. CASE \E p \in Clients \cup {"worker"} : FlushBegin(p)
    BY <2>5 DEF FlushBegin, FlFree
  <2>6. QED
    BY <1>2, <2>1, <2>2, <2>3, <2>4, <2>5 DEF FlushPipeline
<1>3. CASE Compaction
  <2>1. ASSUME NEW p \in Clients \cup {"worker"}, CompactBuild(p)
        PROVE  fl'.seq = 0 \/ (fl'.seq = nextSeq /\ mode # "down")
    BY <2>1 DEF CompactBuild, CompactCaller, FlFree
  <2>2. CASE CompactCommit
    BY <1>0, <2>2 DEF CompactCommit, FlType
  <2>3. CASE CompactManifest \/ \E l \in Levels : CompactUnlink(l)
    BY <1>0, <2>3 DEF CompactManifest, CompactUnlink, FlType
  <2>4. CASE CompactManifestFails \/ CompactReturn
    BY <1>f, <2>4 DEF CompactManifestFails, CompactReturn, Release
  <2>5. CASE CompactNothing \/ \E p \in Clients \cup {"worker"} : CompactBuildFails(p)
    BY <2>5 DEF CompactNothing, CompactBuildFails
  <2>6. QED
    BY <1>3, <2>1, <2>2, <2>3, <2>4, <2>5 DEF Compaction
<1>4. CASE Worker \/ UNCHANGED vars
  BY <1>4 DEF Worker, WorkerRecv, WorkerCheck, vars
<1>5. CASE Lifecycle
  BY <1>5, <1>f DEF Lifecycle, Close, Crash, Recover, Reback, RebackFails, CleanOld, ProcessGone
<1>6. QED
  BY <1>1, <1>2, <1>3, <1>4, <1>5 DEF Next

\* A table that becomes live was listed, or has just been built.
LEMMA LevelsSteps ==
    ASSUME Inv, Inv', DurableInv, [Next]_vars
    PROVE  /\ \A l \in Levels : levels'[l] \subseteq levels[l] \cup manifest[l] \cup {fl.seq}
           /\ manifest' = manifest \/ manifest' = levels
           /\ mode' = "down" => UNCHANGED <<walFiles, manifest>>
           /\ mode' # "down" => Recover \/ (mode # "down" /\ active <= active')
<1>0. LiveLogs /\ levels \in [Levels -> SUBSET Seqs] /\ active \in Nat
  BY Numbers DEF DurableInv, Inv, TypeOK, TypeProcess
<1>1. manifest' = manifest \/ manifest' = levels
  BY DirectorySteps DEF FlushManifest, CompactManifest, LiveManifest
<1>2. ASSUME mode' = "down" PROVE UNCHANGED <<walFiles, manifest>>
  <2>1. ~ Rotate /\ ~ Recover /\ ~ FlushManifest /\ ~ CompactManifest /\ ~ FlushUnlink /\ ~ CleanOld
    BY <1>2 DEF Rotate, Recover, FlushManifest, CompactManifest, FlushUnlink, CleanOld, Inv, Quiet
  <2>2. QED
    BY <2>1, DirectorySteps
<1>3. ASSUME mode' = "down" PROVE \A l \in Levels : levels'[l] = {}
  BY <1>3 DEF Inv, Quiet, NoTables
<1>4. ASSUME mode' # "down"
      PROVE  /\ \A l \in Levels : levels'[l] \subseteq levels[l] \cup manifest[l] \cup {fl.seq}
             /\ Recover \/ (mode # "down" /\ active <= active')
  <2>1. CASE UNCHANGED <<active, levels>> /\ mode # "down"
    BY <1>0, <2>1
  <2>2. ASSUME NEW freeze \in BOOLEAN, Apply(freeze) PROVE UNCHANGED <<active, levels>> /\ mode # "down"
    BY <2>2, ApplyWrites
  <2>3. CASE Swap
    <3>1. wr.pc = "swap" /\ active' = wr.new /\ UNCHANGED levels
      BY <2>3 DEF Swap, sstVars
    <3>2. active < wr.new /\ mode = "up" /\ wr.new \in Nat
      BY <3>1, Numbers
    <3>3. QED
      BY <1>0, <3>1, <3>2
  <2>4. CASE FlushCommit
    <3>1. fl.pc = "commit" /\ active' = active /\ levels' = [levels EXCEPT ![0] = @ \cup {fl.seq}]
      BY <2>4 DEF FlushCommit
    <3>2. mode # "down"
      BY <3>1 DEF Inv, Quiet
    <3>3. QED
      BY <1>0, <3>1, <3>2
  <2>5. CASE CompactCommit /\ active' = active /\ mode # "down"
    BY <1>0, <2>5 DEF CompactCommit, Compacted
  <2>6. CASE Recover
    BY <2>6 DEF Recover
  <2>7. QED
    BY <1>4, <2>1, <2>2, <2>3, <2>4, <2>5, <2>6, MemorySteps
<1>5. QED
  BY <1>1, <1>2, <1>3, <1>4

LEMMA DroppedBuildKept ==
    ASSUME ReopenInv, Inv, Inv', DurableInv, DroppedBuild, [Next]_vars, UNCHANGED <<oLive, oVars>>
    PROVE  DroppedBuild'
<1> DEFINE n == oNextSeq
<1>0. /\ n' = n /\ n \in Nat \ {0} /\ active \in Nat /\ active' \in Nat /\ walFiles \subseteq Nat
      /\ mode # "down" => active < nextSeq /\ active \in walFiles /\ nextSeq \in Nat
      /\ \A l \in Levels : manifest[l] \subseteq Nat
  <2>1. oNextSeq \in 1 .. (MaxSeq + 1) /\ TypeOK /\ OldTypes
    BY DEF ReopenInv, OldTypes
  <2>2. active' \in Nat
    BY DEF Inv, TypeOK, TypeProcess
  <2>3. QED
    BY <2>1, <2>2, Numbers, ReopenNumbers DEF oVars, DurableInv, LiveLogs, LiveGens
<1>1. SUFFICES ASSUME oLive, ~ DroppedDone, oLevels[0] # {}, oFl.pc # "merged"
               PROVE  /\ \A l \in Levels : n \notin levels'[l] \cup manifest'[l]
                      /\ fl'.seq # n
                      /\ mode' = "down" => \E s \in KnownSeqs' : n <= s + 1
                      /\ mode' # "down" => n <= active'
  BY <1>0 DEF DroppedBuild, DroppedDone, oVars
<1>2. /\ \A l \in Levels : n \notin levels[l] \cup manifest[l]
      /\ fl.seq # n
      /\ mode = "down" => \E s \in KnownSeqs : n <= s + 1
      /\ mode # "down" => n <= active
  BY <1>1 DEF DroppedBuild
<1> HIDE DEF n
<1>3. /\ \A l \in Levels : levels'[l] \subseteq levels[l] \cup manifest[l] \cup {fl.seq}
      /\ manifest' = manifest \/ manifest' = levels
      /\ mode' = "down" => UNCHANGED <<walFiles, manifest>>
      /\ mode' # "down" => Recover \/ (mode # "down" /\ active <= active')
  BY LevelsSteps
<1>4. \A l \in Levels : n \notin levels'[l] \cup manifest'[l]
  BY <1>2, <1>3
<1>5. fl'.seq # n
  <2>1. mode # "down" => n # nextSeq
    BY <1>0, <1>2
  <2>2. QED
    BY <1>0, <1>2, <2>1, BuiltNumberSteps
<1>6. ASSUME mode' = "down" PROVE \E s \in KnownSeqs' : n <= s + 1
  <2>1. KnownSeqs' = KnownSeqs
    BY <1>3, <1>6 DEF KnownSeqs
  <2>2. \E s \in KnownSeqs : n <= s + 1
    <3>1. CASE mode # "down"
      <4>1. active \in KnownSeqs /\ n <= active + 1
        BY <1>0, <1>2, <3>1 DEF KnownSeqs
      <4>2. QED
        BY <4>1
    <3>2. QED
      BY <1>2, <3>1
  <2>3. QED
    BY <2>1, <2>2
<1>7. ASSUME mode' # "down" PROVE n <= active'
  <2>1. CASE Recover
    <3>1. mode = "down" /\ active' = RecoveredSeq
      BY <2>1 DEF Recover
    <3>2. PICK s \in KnownSeqs : n <= s + 1
      BY <1>2, <3>1
    <3>3. s < active' /\ s \in Nat
      BY <1>0, <3>1, <3>2, RecoveredSeqAbove, BasicSets DEF Inv, TypeOK, KnownSeqs
    <3>4. QED
      BY <1>0, <3>2, <3>3
  <2>2. CASE mode # "down" /\ active <= active'
    BY <1>0, <1>2, <2>2
  <2>3. QED
    BY <1>3, <1>7, <2>1, <2>2
<1>8. QED
  BY <1>4, <1>5, <1>6, <1>7

-----------------------------------------------------------------------------
(* The dropped engine, when it has nothing to flush.                       *)

\* A table that neither the levels nor the MANIFEST list appears: the invariants of
\* the engine in use do not depend on it.
Unlisted(n, t) ==
    /\ \A l \in Levels : n \notin levels[l] \cup manifest[l]
    /\ fl.seq # n
    /\ files' = [files EXCEPT ![1] = files[1] \cup {n}]
    /\ sst' = [sst EXCEPT ![1] = [sst[1] EXCEPT ![n] = t]]
    /\ UNCHANGED <<walFiles, wlog, wos, wsync, manifest>>
    /\ UNCHANGED <<mode, mem, active, imms, levels, nextSeq, stale, wr, fl, calls>>
    /\ UNCHANGED <<ops, kv, gone, snap, durable, acked, closed>>

LEMMA UnlistedInv ==
    ASSUME Inv, TypeOK', NEW n \in Seqs, NEW t \in [Keys -> 0 .. Len(ops)], Unlisted(n, t)
    PROVE  Inv'
<1>0. /\ files' = [files EXCEPT ![1] = files[1] \cup {n}]
      /\ sst' = [sst EXCEPT ![1] = [sst[1] EXCEPT ![n] = t]]
      /\ fl.seq # n /\ \A l \in Levels : n \notin levels[l] \cup manifest[l]
      /\ UNCHANGED <<manifest, mode, mem, active, imms, levels, nextSeq, wr, fl, ops, kv, wlog>>
  BY DEF Unlisted
<1>1. /\ \A k \in Keys : Lookup(k)' = Lookup(k)
      /\ Merged(levels)' = Merged(levels)
      /\ \A l \in Levels, s \in Seqs : (l # 1 \/ s # n) => sst'[l][s] = sst[l][s]
  BY <1>0, BasicSets, UnseenTable
<1>2. \A l \in Levels : files[l] \subseteq files'[l]
  BY <1>0 DEF Inv, TypeOK, TypeDirectory
<1>3. Quiet' /\ Generations' /\ LevelOrder' /\ InputsRetired'
  BY <1>0 DEF Inv, Quiet, Generations, LevelOrder, InputsRetired
<1>4. Tables'
  BY <1>0, <1>2 DEF Inv, Tables
<1>5. FlushInFlight'
  <2>1. fl.pc = "commit" => fl.seq \in Seqs
    BY DEF Inv, TypeOK, TypeProcess
  <2>2. fl.pc = "commit" => sst'[0][fl.seq] = sst[0][fl.seq]
    BY <1>1, <2>1, BasicSets
  <2>3. QED
    BY <1>0, <1>2, <2>2, BasicSets DEF Inv, FlushInFlight
<1>6. CompactionInFlight'
  <2>1. fl.pc = "merged" /\ fl.seq # 0 => fl.seq \in Seqs
    BY BoundsAssumption DEF Inv, TypeOK, TypeProcess, FlType, Seqs
  <2>2. fl.pc = "merged" /\ fl.seq # 0 => sst'[1][fl.seq] = sst[1][fl.seq]
    BY <1>0, <1>1, <2>1, BasicSets
  <2>3. QED
    BY <1>0, <1>1, <1>2, <2>2, BasicSets DEF Inv, CompactionInFlight
<1>7. Issued'
  <2> DEFINE W == 0 .. Len(ops)
  <2>1. sst \in [Levels -> [Seqs -> [Keys -> W]]] /\ t \in [Keys -> W]
    BY DEF Inv, Issued
  <2> HIDE DEF W
  <2>2. sst[1] \in [Seqs -> [Keys -> W]]
    BY <2>1, BasicSets
  <2>3. [sst[1] EXCEPT ![n] = t] \in [Seqs -> [Keys -> W]]
    BY <2>1, <2>2
  <2>4. sst' \in [Levels -> [Seqs -> [Keys -> W]]]
    BY <1>0, <2>1, <2>3
  <2>5. QED
    BY <1>0, <2>4 DEF Inv, Issued, W
<1>8. View'
  BY <1>0, <1>1 DEF Inv, View, Value, IsDelete
<1>9. QED
  BY <1>3, <1>4, <1>5, <1>6, <1>7, <1>8 DEF Inv

LEMMA UnlistedDurable ==
    ASSUME Inv, DurableInv, NEW n \in Seqs, NEW t, Unlisted(n, t)
    PROVE  DurableInv'
<1>0. /\ sst' = [sst EXCEPT ![1] = [sst[1] EXCEPT ![n] = t]]
      /\ \A l \in Levels : n \notin levels[l] \cup manifest[l]
      /\ UNCHANGED <<walFiles, wlog, wos, wsync, manifest>>
      /\ UNCHANGED <<mode, mem, active, imms, levels, nextSeq, stale, wr, fl, calls>>
      /\ UNCHANGED <<ops, kv, gone, snap, durable, acked, closed>>
  BY DEF Unlisted
<1>1. /\ \A k \in Keys : FromTables(levels, k)' = FromTables(levels, k)
      /\ \A k \in Keys : FromTables(manifest, k)' = FromTables(manifest, k)
  <2>1. \A l \in Levels, s \in Seqs : (l # 1 \/ s # n) => sst'[l][s] = sst[l][s]
    BY <1>0, BasicSets, UnseenTable
  <2>2. ASSUME NEW T \in [Levels -> SUBSET Seqs], n \notin T[1], NEW k
        PROVE  /\ NewestHit(T[0], sst'[0], k) = NewestHit(T[0], sst[0], k)
               /\ NewestHit(T[1], sst'[1], k) = NewestHit(T[1], sst[1], k)
    <3>1. /\ T[0] \subseteq Seqs /\ \A s \in T[0] : sst'[0][s][k] = sst[0][s][k]
          /\ T[1] \subseteq Seqs /\ \A s \in T[1] : sst'[1][s][k] = sst[1][s][k]
      BY <2>1, <2>2, BasicSets
    <3>2. QED
      BY <3>1, NewestHitSame
  <2>3. levels \in [Levels -> SUBSET Seqs] /\ manifest \in [Levels -> SUBSET Seqs]
    BY DEF Inv, TypeOK, TypeProcess, TypeDirectory
  <2>4. QED
    BY <1>0, <2>2, <2>3, BasicSets DEF FromTables
<1>2. /\ \A g, k : Entries(g, k)' = Entries(g, k)
      /\ LiveGens' = LiveGens
      /\ \A kind, g : Safe(kind, g)' = Safe(kind, g)
      /\ \A k, r, d : Fresh(k, r, d)' = Fresh(k, r, d)
      /\ \A F, k : NewestHit(F, mem', k) = NewestHit(F, mem, k)
  BY <1>0 DEF Entries, LiveGens, Safe, Fresh
<1>3. /\ \A g, k, w : HasWrite(g, k, w)' = HasWrite(g, k, w)
      /\ \A g, k, d : HasOlder(g, k, d)' = HasOlder(g, k, d)
      /\ \A kind, g, k, d : SafeHit(kind, g, k, d)' = SafeHit(kind, g, k, d)
  BY <1>0, <1>2 DEF HasWrite, HasOlder, SafeHit
<1>4. LogShape' /\ LiveLogs' /\ InHand' /\ PromisedIssued'
  BY <1>0, <1>2, <1>3 DEF DurableInv, LogShape, LiveLogs, InHand, PromisedIssued
<1>5. CallsInOrder' /\ TodoOlder' /\ LogsAccounted' /\ ManifestLags'
  BY <1>0, <1>2 DEF DurableInv, CallsInOrder, TodoOlder, LogsAccounted, NoStrayWal, ManifestLags
<1>6. \A F, d : \A k \in Keys : Held(F, k, d)' = Held(F, k, d)
  BY <1>0, <1>1, <1>2, <1>3 DEF Held
<1>7. AppliedHeld' /\ SnapHeld'
  <2>1. \A c : Awaited(c)' = Awaited(c)
    BY <1>0 DEF Awaited
  <2>2. QED
    BY <1>0, <1>2, <1>6, <2>1 DEF DurableInv, AppliedHeld, SnapHeld
<1>8. SnapFlushed'
  BY <1>0, <1>1, <1>2, <1>3 DEF DurableInv, SnapFlushed
<1>9. \A kind, k : Owed(kind, k)' = Owed(kind, k)
  BY <1>0 DEF Owed
<1>10. Reappended'
  BY <1>0, <1>2, <1>3, <1>9 DEF DurableInv, Reappended
<1>11. \A kind, d : \A k \in Keys : /\ DiskKeeps(kind, k, d)' = DiskKeeps(kind, k, d)
                                    /\ LiveKeeps(kind, k, d)' = LiveKeeps(kind, k, d)
  BY <1>0, <1>1, <1>2, <1>3 DEF DiskKeeps, LiveKeeps
<1>12. DiskPromises' /\ LivePromises'
  BY <1>0, <1>9, <1>11 DEF DurableInv, DiskPromises, LivePromises
<1>13. QED
  BY <1>4, <1>5, <1>7, <1>8, <1>10, <1>12 DEF DurableInv

\* What it builds holds only writes that were issued.
LEMMA OldMergedIssued ==
    ASSUME Inv, NEW T \in [Levels -> SUBSET Seqs]
    PROVE  Old!Merged(T) \in [Keys -> 0 .. Len(ops)]
<1> DEFINE W == 0 .. Len(ops)
<1>1. 0 \in W /\ sst \in [Levels -> [Seqs -> [Keys -> W]]]
  BY Numbers DEF Inv, Issued
<1>2. ASSUME NEW k \in Keys PROVE Winner(T, k) \in W
  <2> HIDE DEF W
  <2>1. CASE RunsWith(T, k) = {}
    BY <1>1, <2>1 DEF Winner
  <2>2. CASE RunsWith(T, k) # {}
    <3>1. PICK r \in RunsWith(T, k) : Winner(T, k) = sst[r[1]][r[2]][k]
      BY <2>2, WinnerIs
    <3>2. r[1] \in Levels /\ r[2] \in Seqs
      BY <3>1 DEF RunsWith, Runs
    <3>3. QED
      BY <1>1, <1>2, <3>1, <3>2
  <2>3. QED
    BY <2>1, <2>2
<1>3. Merged(T) \in [Keys -> W]
  BY <1>1, <1>2 DEF Merged, Value
<1>4. Old!Merged(T) = Merged(T)
  BY OldMerges DEF Inv
<1>5. QED
  BY <1>3, <1>4

\* It may build a table that nobody lists, and does nothing else to the directory.
LEMMA OldIdleWorker ==
    ASSUME NoLosingFaults, ReopenInv, ReopenInv', Inv, DurableInv, DroppedIdle, DroppedBuild,
           OldWorker, ~ merged'
    PROVE  Inv' /\ DurableInv' /\ DroppedIdle' /\ DroppedBuild'
<1>0. /\ oLive /\ oLive' /\ UNCHANGED <<process, oBuf>> /\ ~ Committed(oFl')
      /\ TypeOK /\ OldTypes /\ TypeOK'
  BY DEF OldWorker, ReopenInv
<1>1. /\ oBuf = << >> /\ oImms = {} /\ oFl.todo = {} /\ oFl.by \in {"worker", "none"}
      /\ oFl.pc \in {"free", "drain", "ok", "merged"}
      /\ oActive \in Seqs => wlog[oActive] = << >>
      /\ oFl \in FlType /\ FlFree.pc = "free" /\ FlFree.todo = {} /\ FlFree.by = "none"
  BY <1>0, BasicSets DEF DroppedIdle, OldTypes, FlFree
<1>2. CASE \/ Old!FlushBegin("worker") \/ Old!FlushNothing \/ Old!FlushReturn
           \/ Old!WorkerCheck \/ Old!CompactNothing
  <2>1. UNCHANGED <<walFiles, wlog, wos, wsync, files, sst, manifest>>
    BY <1>2 DEF Old!FlushBegin, Old!FlushNothing, Old!FlushReturn, Old!WorkerCheck,
       Old!CompactNothing, Old!dirVars
  <2>2. UNCHANGED <<oActive, oImms, oLevels, oNextSeq>>
    BY <1>2 DEF Old!FlushBegin, Old!FlushNothing, Old!FlushReturn, Old!WorkerCheck,
       Old!CompactNothing
  <2>3. UNCHANGED <<ops, kv, gone, snap, durable, acked, closed, stops>>
    <3>1. CASE Old!FlushReturn
      <4>1. oFl.by \notin Clients
        BY <1>1, ClientsAssumption
      <4>2. snap = [c \in Clients |-> snap[c]]
        BY <1>0 DEF TypeOK, TypeHistory
      <4>3. \A c \in Clients : c # oFl.by
        BY <4>1
      <4>4. durable' = durable /\ snap' = [c \in Clients |-> snap[c]]
        BY <3>1, <4>1, <4>3 DEF Old!FlushReturn
      <4>5. UNCHANGED <<ops, kv, gone, acked, closed, stops>>
        BY <3>1 DEF Old!FlushReturn
      <4>6. QED
        BY <4>2, <4>4, <4>5
    <3>2. QED
      BY <1>2, <3>1 DEF Old!FlushBegin, Old!FlushNothing, Old!WorkerCheck,
         Old!CompactNothing, Old!ghosts
  <2>4. UNCHANGED vars
    BY <1>0, <2>1, <2>3 DEF vars, process
  <2>5. Inv' /\ DurableInv'
    BY <2>4, InvNext, DurableNext
  <2>6. /\ oFl'.pc \in {"free", "drain", "ok", "merged"} /\ oFl'.todo = {}
        /\ oFl'.by \in {"worker", "none"} /\ (oFl.pc = "merged" => oFl'.pc = "merged")
    <3>1. CASE Old!FlushBegin("worker")
      BY <3>1, OldConstants DEF Old!FlushBegin, FlFree
    <3>2. CASE Old!FlushNothing
      BY <1>1, <3>2 DEF Old!FlushNothing, FlType
    <3>3. CASE Old!FlushReturn
      BY <1>1, <3>3, OldConstants DEF Old!FlushReturn, Old!Release
    <3>4. CASE Old!WorkerCheck \/ Old!CompactNothing
      BY <1>1, <3>4 DEF Old!WorkerCheck, Old!CompactNothing
    <3>5. QED
      BY <1>2, <3>1, <3>2, <3>3, <3>4
  <2>7. DroppedIdle'
    BY <1>0, <1>1, <2>1, <2>2, <2>6 DEF DroppedIdle
  <2>8. DroppedBuild'
    <3>1. UNCHANGED <<mode, active, levels, fl>>
      BY <1>0 DEF process
    <3>2. KnownSeqs' = KnownSeqs
      BY <2>1 DEF KnownSeqs
    <3>3. ~ DroppedDone
      BY <1>2 DEF DroppedDone, Old!FlushBegin, Old!FlushNothing, Old!FlushReturn,
         Old!WorkerCheck, Old!CompactNothing, Old!CompactCaller
    <3>4. QED
      BY <1>0, <2>1, <2>2, <2>6, <3>1, <3>2, <3>3 DEF DroppedBuild
  <2>9. QED
    BY <2>5, <2>7, <2>8
<1>3. CASE \/ Old!FlushBuild \/ Old!FlushCommit \/ Old!FlushManifest \/ Old!FlushUnlink
           \/ Old!CompactManifest \/ Old!CompactReturn \/ \E l \in Levels : Old!CompactUnlink(l)
           \/ Old!FlushBuildFails \/ Old!FlushManifestFails \/ Old!CompactManifestFails
  BY <1>1, <1>3 DEF Old!FlushBuild, Old!FlushCommit, Old!FlushManifest, Old!FlushUnlink,
     Old!CompactManifest, Old!CompactReturn, Old!CompactUnlink, Old!FlushBuildFails,
     Old!FlushManifestFails, Old!CompactManifestFails
<1>4. CASE Old!CompactCommit
  <2>1. oFl'.pc = "record"
    BY <1>1, <1>4 DEF Old!CompactCommit, FlType
  <2>2. QED
    BY <1>0, <2>1 DEF Committed
<1>5. CASE Old!CompactBuild("worker")
  <2>1. /\ UNCHANGED <<walFiles, wlog, wos, wsync, manifest, oActive, oImms, oLevels>>
        /\ UNCHANGED <<ops, kv, gone, snap, durable, acked, closed, stops>>
        /\ oFl.pc = "free" /\ oWk # "recv" /\ oLevels[0] # {}
    BY <1>5 DEF Old!CompactBuild, Old!CompactCaller, Old!walVars, Old!ghosts
  <2>2. oFl'.pc = "merged" /\ oFl'.todo = {} /\ oFl'.by = "worker"
    BY <1>5, OldConstants DEF Old!CompactBuild, FlFree
  <2>3. DroppedIdle' /\ DroppedBuild'
    BY <1>0, <1>1, <2>1, <2>2 DEF DroppedIdle, DroppedBuild
  <2>4. CASE Old!Merged(oLevels) = Old!EmptyTable
    <3>1. UNCHANGED <<files, sst>>
      BY <1>5, <2>4 DEF Old!CompactBuild
    <3>2. UNCHANGED vars
      BY <1>0, <2>1, <3>1 DEF vars, process
    <3>3. QED
      BY <2>3, <3>2, InvNext, DurableNext
  <2>5. CASE Old!Merged(oLevels) # Old!EmptyTable
    <3>1. PICK t \in [Keys -> 0 .. Len(ops)] : t = Old!Merged(oLevels)
      BY <1>0, OldMergedIssued DEF OldTypes
    <3>2. /\ files' = [files EXCEPT ![1] = files[1] \cup {oNextSeq}]
          /\ sst' = [sst EXCEPT ![1] = [sst[1] EXCEPT ![oNextSeq] = t]]
          /\ Old!CanAllocate
      BY <1>5, <2>5, <3>1 DEF Old!CompactBuild
    <3>3. oNextSeq \in Seqs
      BY <1>0, <3>2, BoundsAssumption DEF OldTypes, Old!CanAllocate, Seqs
    <3>4. fl.seq # oNextSeq /\ \A l \in Levels : oNextSeq \notin levels[l] \cup manifest[l]
      BY <1>0, <2>1 DEF DroppedBuild, DroppedDone
    <3>5. Unlisted(oNextSeq, t)
      BY <1>0, <2>1, <3>2, <3>4 DEF Unlisted, process
    <3>6. QED
      BY <1>0, <2>3, <3>3, <3>5, UnlistedInv, UnlistedDurable
  <2>6. QED
    BY <2>4, <2>5
<1>6. CASE Old!CompactBuildFails("worker")
  <2>1. /\ UNCHANGED <<walFiles, wlog, wos, wsync, files, sst, manifest, oActive, oImms, oLevels, oFl>>
        /\ UNCHANGED <<ops, kv, gone, snap, durable, acked, closed, stops>>
        /\ oWk' = "recv" /\ oFl.pc = "free"
    BY <1>6 DEF Old!CompactBuildFails, Old!CompactCaller, Old!dirVars, Old!ghosts
  <2>2. UNCHANGED vars
    BY <1>0, <2>1 DEF vars, process
  <2>3. DroppedIdle' /\ DroppedBuild'
    BY <1>0, <1>1, <2>1 DEF DroppedIdle, DroppedBuild, DroppedDone
  <2>4. QED
    BY <2>2, <2>3, InvNext, DurableNext
<1>7. QED
  BY <1>2, <1>3, <1>4, <1>5, <1>6 DEF OldWorker

\* Its WAL is empty when it is fsynced at last.
LEMMA OldIdleDrop ==
    ASSUME NoLosingFaults, ReopenInv, Inv, DurableInv, DroppedIdle, OldDrop
    PROVE  Inv' /\ DurableInv' /\ DroppedIdle' /\ DroppedBuild'
<1>0. /\ oLive /\ oLive' = FALSE /\ UNCHANGED <<walFiles, files, sst, manifest, process, ghosts, oVars>>
      /\ oBuf = << >> /\ (oActive \in Seqs => wlog[oActive] = << >>)
  BY DEF OldDrop, DroppedIdle
<1>1. /\ wlog \in [Seqs -> Seq(1 .. Len(ops))] /\ wos \in [Seqs -> Nat] /\ wsync \in [Seqs -> Nat]
      /\ walFiles \subseteq Seqs
  BY DEF Inv, Issued, TypeOK, TypeDirectory
<1>2. UNCHANGED <<wlog, wos, wsync>>
  <2>1. CASE oActive \in walFiles
    <3>1. wlog[oActive] = << >> /\ oActive \in Seqs
      BY <1>0, <1>1, <2>1
    <3>2. wos[oActive] = 0 /\ wsync[oActive] = 0
      <4>1. Len(wlog[oActive]) = 0 /\ wos[oActive] \in Nat /\ wsync[oActive] \in Nat
        BY <1>1, <3>1
      <4>2. wsync[oActive] <= wos[oActive] /\ wos[oActive] <= Len(wlog[oActive])
        BY <3>1 DEF DurableInv, LogShape
      <4>3. QED
        BY <4>1, <4>2
    <3>3. << >> \o << >> = << >> /\ Len(<< >>) = 0
      OBVIOUS
    <3>4. wlog' = [wlog EXCEPT ![oActive] = << >>]
      BY <1>0, <2>1, <3>1, <3>3 DEF OldDrop
    <3>5. wlog' = wlog
      BY <1>1, <3>1, <3>4
    <3>6. /\ wos' = [wos EXCEPT ![oActive] = 0] /\ wsync' = [wsync EXCEPT ![oActive] = 0]
      BY <2>1, <3>1, <3>3, <3>5 DEF OldDrop
    <3>7. QED
      BY <1>1, <3>1, <3>2, <3>5, <3>6
  <2>2. CASE oActive \notin walFiles
    BY <2>2 DEF OldDrop
  <2>3. QED
    BY <2>1, <2>2
<1>3. UNCHANGED vars
  BY <1>0, <1>2 DEF vars, process, ghosts
<1>4. DroppedIdle' /\ DroppedBuild'
  BY <1>0 DEF DroppedIdle, DroppedBuild, DroppedDone, oVars
<1>5. QED
  BY <1>3, <1>4, InvNext, DurableNext

-----------------------------------------------------------------------------
(* The second invariant and what follows from it.                          *)

LEMMA FlushedInvInit == ReopenInit => FlushedInv
  BY InvInit, DurableInit, UnflushedInit DEF ReopenInit, FlushedInv

LEMMA FlushedInvNext ==
    ASSUME NoLosingFaults, ~ SyncPerWrite, ReopenInv, ReopenInv', FlushedInv,
           [ReopenNext]_reopenVars
    PROVE  FlushedInv'
<1>1. ASSUME [Next]_vars, UNCHANGED <<dropped, merged, oLive, oVars>> PROVE FlushedInv'
  <2>1. CASE dropped = "no"
    <3>1. Inv' /\ DurableInv' /\ UnflushedInv'
      BY <1>1, <2>1, InvNext, DurableNext, UnflushedNext DEF FlushedInv
    <3>2. QED
      BY <1>1, <2>1, <3>1 DEF FlushedInv
  <2>2. CASE dropped = "flushed" /\ ~ merged
    <3>1. Inv /\ DurableInv /\ DroppedIdle /\ DroppedBuild /\ Inv' /\ DurableInv'
      BY <1>1, <2>2, InvNext, DurableNext DEF FlushedInv
    <3>2. DroppedIdle' /\ DroppedBuild'
      BY <1>1, <3>1, DroppedIdleKept, DroppedBuildKept
    <3>3. QED
      BY <1>1, <2>2, <3>1, <3>2 DEF FlushedInv
  <2>3. QED
    BY <1>1, <2>1, <2>2 DEF FlushedInv
<1>2. CASE UNCHANGED reopenVars
  BY <1>1, <1>2 DEF reopenVars
<1>3. CASE DropHandle
  <2>1. /\ dropped = "no" /\ dropped' = (IF AllFlushed THEN "flushed" ELSE "unflushed")
        /\ merged' = Committed(fl)
    BY <1>3 DEF DropHandle
  <2>2. CASE AllFlushed /\ ~ Committed(fl)
    <3>1. Inv /\ DurableInv /\ UnflushedInv
      BY <2>1 DEF FlushedInv
    <3>2. Inv' /\ DurableInv' /\ DroppedIdle' /\ DroppedBuild'
      BY <1>3, <2>2, <3>1, DropKeepsEngine, DropIsIdle
    <3>3. QED
      BY <2>1, <2>2, <3>2 DEF FlushedInv
  <2>3. QED
    BY <2>1, <2>2 DEF FlushedInv
<1>4. CASE OldWorker
  <2>1. oLive /\ dropped' = dropped /\ merged' = (merged \/ Committed(oFl'))
    BY <1>4 DEF OldWorker
  <2>2. dropped # "no"
    BY <2>1 DEF FlushedInv
  <2>3. CASE dropped = "flushed" /\ ~ merged'
    <3>1. Inv /\ DurableInv /\ DroppedIdle /\ DroppedBuild
      BY <2>1, <2>3 DEF FlushedInv
    <3>2. QED
      BY <1>4, <2>1, <2>3, <3>1, OldIdleWorker DEF FlushedInv
  <2>4. QED
    BY <2>1, <2>2, <2>3 DEF FlushedInv
<1>5. CASE OldDrop
  <2>1. oLive /\ UNCHANGED <<dropped, merged>>
    BY <1>5 DEF OldDrop
  <2>2. dropped # "no"
    BY <2>1 DEF FlushedInv
  <2>3. CASE dropped = "flushed" /\ ~ merged
    <3>1. Inv /\ DurableInv /\ DroppedIdle /\ DroppedBuild
      BY <2>3 DEF FlushedInv
    <3>2. QED
      BY <1>5, <2>1, <2>3, <3>1, OldIdleDrop DEF FlushedInv
  <2>4. QED
    BY <2>1, <2>2, <2>3 DEF FlushedInv
<1>6. QED
  BY <1>1, <1>2, <1>3, <1>4, <1>5 DEF ReopenNext

\* After a flush() and until the dropped engine commits a compaction, the engine in use
\* keeps the invariants that it has when it is alone: the dropped one has nothing to
\* flush, and the one table that it may write is listed nowhere (drop, flush_worker,
\* open_with_options).
THEOREM FlushedInvCorrect ==
    ASSUME NoLosingFaults, ~ SyncPerWrite PROVE ReopenSpec => [](ReopenInv /\ FlushedInv)
<1>1. ReopenInit => ReopenInv /\ FlushedInv
  BY ReopenInvInit, FlushedInvInit
<1>2. ReopenInv /\ FlushedInv /\ [ReopenNext]_reopenVars => (ReopenInv /\ FlushedInv)'
  BY ReopenInvNext, FlushedInvNext
<1>3. QED
  BY <1>1, <1>2, PTL DEF ReopenSpec

\* Of a table that the engine in use refers to, the dropped one changes nothing.
LEMMA OldLeavesTables ==
    ASSUME ReopenInv, DroppedIdle, DroppedBuild, OldWorker, ~ merged',
           NEW l \in Levels, NEW s \in manifest[l] \cup levels[l]
    PROVE  sst'[l][s] = sst[l][s]
<1>0. oLive /\ TypeOK /\ OldTypes /\ ~ Committed(oFl')
  BY DEF OldWorker, ReopenInv
<1>1. /\ oImms = {} /\ oFl.todo = {} /\ oFl.pc \in {"free", "drain", "ok", "merged"}
      /\ oFl \in FlType
  BY <1>0 DEF DroppedIdle, OldTypes
<1>2. CASE Old!CompactBuild("worker") /\ Old!Merged(oLevels) # Old!EmptyTable
  <2>1. /\ oLevels[0] # {} /\ oFl.pc = "free" /\ oWk # "recv" /\ Old!CanAllocate
        /\ sst' = [sst EXCEPT ![1] = [sst[1] EXCEPT ![oNextSeq] = Old!Merged(oLevels)]]
    BY <1>2 DEF Old!CompactBuild, Old!CompactCaller
  <2>2. s # oNextSeq
    BY <1>0, <2>1 DEF DroppedBuild, DroppedDone
  <2>3. sst \in [Levels -> [Seqs -> Table]] /\ s \in Seqs
    BY <1>0 DEF TypeOK, TypeDirectory, TypeProcess
  <2>4. sst[l] \in [Seqs -> Table] /\ sst[1] \in [Seqs -> Table]
    BY <2>3, BasicSets
  <2>5. QED
    BY <2>1, <2>2, <2>3, <2>4
<1>3. CASE \/ Old!FlushBegin("worker") \/ Old!FlushNothing \/ Old!FlushReturn
           \/ Old!WorkerCheck \/ Old!CompactNothing \/ Old!CompactCommit
           \/ (Old!CompactBuild("worker") /\ Old!Merged(oLevels) = Old!EmptyTable)
           \/ Old!CompactBuildFails("worker")
  <2>1. sst' = sst
    BY <1>3 DEF Old!FlushBegin, Old!FlushNothing, Old!FlushReturn, Old!WorkerCheck,
       Old!CompactNothing, Old!CompactCommit, Old!CompactBuild, Old!CompactBuildFails,
       Old!dirVars
  <2>2. QED
    BY <2>1
<1>4. CASE \/ Old!FlushBuild \/ Old!FlushCommit \/ Old!FlushManifest \/ Old!FlushUnlink
           \/ Old!CompactManifest \/ Old!CompactReturn \/ \E m \in Levels : Old!CompactUnlink(m)
           \/ Old!FlushBuildFails \/ Old!FlushManifestFails \/ Old!CompactManifestFails
  BY <1>1, <1>4 DEF Old!FlushBuild, Old!FlushCommit, Old!FlushManifest, Old!FlushUnlink,
     Old!CompactManifest, Old!CompactReturn, Old!CompactUnlink, Old!FlushBuildFails,
     Old!FlushManifestFails, Old!CompactManifestFails
<1>5. QED
  BY <1>2, <1>3, <1>4 DEF OldWorker

\* Once a flush() had returned before the drop, neither engine replaces or removes a
\* table that the MANIFEST or the engine in use refers to, as long as the dropped one
\* commits no compaction: the number under which it writes the table of one is none of
\* theirs (drop, compact_all_pending, open_with_options).
THEOREM ReopenedTablesAreImmutable ==
    ASSUME NoLosingFaults, ~ SyncPerWrite
    PROVE  ReopenSpec => ReopenedTablesImmutable
<1>1. ReopenInv /\ FlushedInv /\ FlushedInv' /\ [ReopenNext]_reopenVars =>
        [dropped = "flushed" /\ ~ merged' =>
           \A l \in Levels : \A s \in manifest'[l] \cup levels'[l] :
             s \in manifest[l] \cup levels[l]
               => s \in files'[l] /\ sst'[l][s] = sst[l][s]]_reopenVars
  <2>1. SUFFICES ASSUME ReopenInv, FlushedInv, FlushedInv', [ReopenNext]_reopenVars,
                        dropped = "flushed", ~ merged', NEW l \in Levels,
                        NEW s \in manifest'[l] \cup levels'[l],
                        s \in manifest[l] \cup levels[l]
                 PROVE  s \in files'[l] /\ sst'[l][s] = sst[l][s]
    OBVIOUS
  <2>2. ~ DropHandle /\ dropped' = dropped /\ ~ merged
    BY <2>1 DEF ReopenNext, reopenVars, DropHandle, OldWorker, OldDrop, ReopenInv, OldTypes
  <2>3. Inv /\ Inv' /\ DroppedIdle /\ DroppedBuild
    BY <2>1, <2>2 DEF FlushedInv
  <2>4. s \in files'[l]
    BY <2>1, <2>3 DEF Inv, Tables
  <2>5. sst'[l][s] = sst[l][s]
    <3>1. CASE [Next]_vars
      BY <2>1, <2>3, <3>1, ReferencedUntouched
    <3>2. CASE OldWorker
      BY <2>1, <2>3, <3>2, OldLeavesTables
    <3>3. CASE OldDrop
      BY <3>3 DEF OldDrop
    <3>4. QED
      BY <2>1, <2>2, <3>1, <3>2, <3>3 DEF ReopenNext, reopenVars
  <2>6. QED
    BY <2>4, <2>5
<1>2. QED
  BY <1>1, FlushedInvCorrect, PTL DEF ReopenSpec, ReopenedTablesImmutable

\* The MemTables and tables of an engine that is up answer with what a drop has kept.
LEMMA LiveAnswers ==
    ASSUME Inv, DurableInv, mode = "up", NEW kind \in PromiseKinds, NEW k \in Keys,
           NEW d, d = Owed(kind, k)
    PROVE  Fresh(k, Lookup(k), d)
<1>0. /\ LiveLogs /\ LiveKeeps(kind, k, d) /\ LiveGens \subseteq Seqs /\ active \in Seqs
      /\ imms \subseteq Seqs /\ \A g \in imms : g < active
  BY Numbers DEF DurableInv, LivePromises
<1>1. d \in Nat /\ FromTables(levels, k) \in Nat /\ \A g \in LiveGens : mem[g][k] \in Nat
  <2>1. d \in Nat
    BY OwedType DEF DurableInv
  <2>2. FromTables(levels, k) \in Nat
    BY <1>0, AnswerType
  <2>3. \A g \in Seqs : mem[g][k] \in 0 .. Len(ops)
    BY <1>0, MemTablesType
  <2>4. QED
    BY <1>0, <2>1, <2>2, <2>3, Numbers
<1>2. PICK m : m = NewestHit(LiveGens, mem, k)
  OBVIOUS
<1>3. Lookup(k) = OrElse(m, FromTables(levels, k))
  <2>1. m = OrElse(mem[active][k], NewestHit(imms, mem, k))
    BY <1>0, <1>2, FrozenIsFirst DEF LiveGens
  <2>2. QED
    BY <2>1, OrElseAssoc DEF Lookup, FromTables
<1>4. IsNewest(LiveGens, mem, k, m)
  BY <1>0, <1>2, NewestHitIs
<1>5. CASE m = 0
  <2>1. \A g \in LiveGens : mem[g][k] = 0
    BY <1>4, <1>5 DEF IsNewest
  <2>2. CASE d = 0
    BY <1>1, <1>3, <1>5, <2>2 DEF Fresh, OrElse
  <2>3. CASE d # 0
    <3>1. \A g \in LiveGens : ~ (mem[g][k] >= d)
      BY <1>1, <2>1, <2>3
    <3>2. Fresh(k, FromTables(levels, k), d)
      BY <1>0, <3>1 DEF LiveKeeps
    <3>3. QED
      BY <1>3, <1>5, <3>2 DEF OrElse
  <2>4. QED
    BY <2>2, <2>3
<1>6. CASE m # 0
  <2>1. PICK g \in LiveGens : m = mem[g][k] /\ \A h \in LiveGens : mem[h][k] # 0 => h <= g
    BY <1>4, <1>6 DEF IsNewest
  <2>2. m >= d
    <3>1. SUFFICES ASSUME m < d PROVE FALSE
      BY <1>1, <2>1
    <3>2. HasWrite(g, k, m)
      BY <1>0, <1>6, <2>1 DEF LiveLogs
    <3>3. HasOlder(g, k, d)
      BY <3>1, <3>2 DEF HasWrite, HasOlder
    <3>4. PICK h \in LiveGens : g <= h /\ mem[h][k] >= d
      BY <1>0, <3>3 DEF LiveKeeps
    <3>5. mem[h][k] # 0 /\ mem[h][k] \in Nat
      BY <1>1, <2>1, <3>1, <3>4
    <3>6. h = g
      BY <1>0, <2>1, <3>4, <3>5, Numbers
    <3>7. QED
      BY <1>1, <2>1, <3>1, <3>4, <3>6
  <2>3. QED
    BY <1>3, <1>6, <2>2 DEF OrElse, Fresh
<1>7. QED
  BY <1>5, <1>6

\* When only processes die, an engine that was opened on a directory while the one
\* dropped after a flush() still ran has every write of the dropped one, whatever that
\* one still does, short of a compaction, and however often it is opened again
\* (drop, flush_worker, open_with_options).
THEOREM ReopenedHasDroppedHolds ==
    ASSUME NoLosingFaults, ~ SyncPerWrite, CrashKinds \subseteq {"kill"}
    PROVE  ReopenSpec => []ReopenedHasDropped
<1>1. FlushedInv => ReopenedHasDropped
  <2>1. SUFFICES ASSUME FlushedInv, dropped = "flushed", ~ merged, Up, NEW k \in Keys
                 PROVE  Fresh(k, Lookup(k), closed[k])
    BY DEF ReopenedHasDropped
  <2>2. Inv /\ DurableInv /\ mode = "up"
    BY <2>1 DEF FlushedInv, Up
  <2>3. "kill" \in PromiseKinds /\ closed[k] = Owed("kill", k)
    BY DEF PromiseKinds, Owed
  <2>4. QED
    BY <2>2, <2>3, LiveAnswers
<1>2. QED
  BY <1>1, FlushedInvCorrect, PTL
=============================================================================
