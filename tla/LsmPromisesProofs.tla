-------------------------- MODULE LsmPromisesProofs --------------------------
(***************************************************************************)
(* Durability of the engine, for every value of the constants: whatever    *)
(* was promised is recovered after a stop at any moment, as long as none   *)
(* of the faults of NoLosingFaults happens.  What the logs, the MemTables  *)
(* and the tables hold is shown in LsmDurabilityProofs; here, that this    *)
(* covers every promise.                                                   *)
(***************************************************************************)
EXTENDS LsmDurabilityProofs

-----------------------------------------------------------------------------
(* What a flush() has drained.                                             *)

\* How flush_all_pending comes to its deletions, and what it does from then on.
LEMMA DrainedSteps ==
    ASSUME Inv, [Next]_vars, fl'.pc \in {"unlink", "ok"}
    PROVE  /\ fl'.by = fl.by /\ mode = "up" /\ mode' = "up"
           /\ \/ FlushNothing \/ FlushManifest
              \/ fl.pc \in {"unlink", "ok"} /\ (fl' = fl \/ FlushUnlink)
<1>0. fl \in FlType /\ (fl.pc # "free" => mode = "up")
  BY DEF Inv, TypeOK, TypeProcess, Quiet
<1>1. CASE UNCHANGED vars
  BY <1>0, <1>1 DEF vars
<1>2. CASE WritePath
  <2>1. fl' = fl /\ mode' = mode
    BY <1>2 DEF WritePath, Write, WriteSyncFails, Apply, FlushSync, Rotate, RotateFails, Swap
  <2>2. QED
    BY <1>0, <2>1
<1>3. CASE FlushPipeline
  <2>1. CASE FlushNothing \/ FlushManifest
    BY <1>0, <2>1 DEF FlushNothing, FlushManifest, FlType
  <2>2. CASE FlushUnlink
    BY <1>0, <2>2 DEF FlushUnlink, FlType
  <2>3. ASSUME NEW p \in Clients \cup {"worker"}, FlushBegin(p) PROVE FALSE
    BY <2>3 DEF FlushBegin, FlFree
  <2>4. ~ FlushBuildFails /\ ~ FlushManifestFails /\ ~ FlushReturn
    BY DEF FlushBuildFails, FlushManifestFails, FlushReturn, Release, FlFree
  <2>5. ~ FlushBuild /\ ~ FlushCommit
    BY <1>0 DEF FlushBuild, FlushCommit, FlType
  <2>6. QED
    BY <1>3, <2>1, <2>2, <2>3, <2>4, <2>5 DEF FlushPipeline
<1>4. CASE Compaction
  <2>1. CASE fl' = fl /\ mode' = mode
    BY <1>0, <2>1
  <2>2. ASSUME NEW p \in Clients \cup {"worker"}, CompactBuild(p) PROVE FALSE
    BY <2>2 DEF CompactBuild, FlFree
  <2>3. ~ CompactManifestFails /\ ~ CompactReturn
    BY DEF CompactManifestFails, CompactReturn, Release, FlFree
  <2>4. ~ CompactCommit /\ ~ CompactManifest
    BY <1>0 DEF CompactCommit, CompactManifest, FlType
  <2>5. ASSUME NEW l \in Levels, CompactUnlink(l) PROVE FALSE
    BY <1>0, <2>5 DEF CompactUnlink, FlType
  <2>6. CASE CompactNothing \/ \E p \in Clients \cup {"worker"} : CompactBuildFails(p)
    BY <2>1, <2>6 DEF CompactNothing, CompactBuildFails
  <2>7. QED
    BY <1>4, <2>2, <2>3, <2>4, <2>5, <2>6 DEF Compaction
<1>5. CASE Worker
  BY <1>0, <1>5 DEF Worker, WorkerRecv, WorkerCheck
<1>6. CASE Lifecycle
  <2>1. fl' = FlFree \/ (fl' = fl /\ mode # "up")
    BY <1>6 DEF Lifecycle, Close, Crash, RebackFails, ProcessGone, Recover, Reback, CleanOld
  <2>2. QED
    BY <1>0, <2>1 DEF FlFree
<1>7. QED
  BY <1>1, <1>2, <1>3, <1>4, <1>5, <1>6 DEF Next

\* While flush_all_pending deletes logs, the levels stay and memory only gains a
\* generation without entries.
LEMMA DrainedMemory ==
    ASSUME Inv, [Next]_vars, fl'.pc \in {"unlink", "ok"}
    PROVE  levels' = levels /\ (Swap \/ LiveGens' = LiveGens)
<1>1. /\ mode = "up" /\ mode' = "up" /\ fl.pc \in {"drain", "unlink", "ok"}
      /\ FlushNothing \/ FlushManifest \/ fl.pc \in {"unlink", "ok"}
  BY DrainedSteps DEF FlushNothing, FlushManifest
<1>2. ~ CompactCommit /\ ~ FlushCommit /\ ~ Recover
  BY <1>1 DEF CompactCommit, FlushCommit, Recover
<1>3. ASSUME NEW freeze \in BOOLEAN, Apply(freeze) PROVE levels' = levels /\ LiveGens' = LiveGens
  BY <1>3, ApplyWrites
<1>4. Swap => levels' = levels
  BY DEF Swap, sstVars
<1>5. UNCHANGED <<mem, active, imms, levels, kv>> => levels' = levels /\ LiveGens' = LiveGens
  BY DEF LiveGens
<1>6. QED
  BY <1>1, <1>2, <1>3, <1>4, <1>5, MemorySteps

\* The tables alone hold what a flush() is about to promise once it has drained.
LEMMA SnapFlushedNext ==
    ASSUME Inv, Inv', LogShape, LiveLogs, LiveLogs', CallsInOrder, CallsInOrder',
           PromisedIssued, SnapHeld, SnapFlushed, [Next]_vars
    PROVE  SnapFlushed'
<1>0. SUFFICES ASSUME fl'.pc \in {"unlink", "ok"}, fl'.by \in Clients, NEW k \in Keys
               PROVE  /\ Fresh(k, FromTables(levels, k), snap[fl.by][k])'
                      /\ \A g \in LiveGens' : ~ HasOlder(g, k, snap[fl.by][k])'
  BY DEF SnapFlushed
<1>h. ASSUME NEW r, NEW e, FromTables(levels, k)' = r, snap'[fl'.by][k] = e, Fresh(k, r, e)',
             \A g \in LiveGens' : ~ HasOlder(g, k, e)'
      PROVE  /\ Fresh(k, FromTables(levels, k), snap[fl.by][k])'
             /\ \A g \in LiveGens' : ~ HasOlder(g, k, snap[fl.by][k])'
  BY <1>h DEF Fresh, HasOlder
<1>1. PICK c, e : c = fl.by /\ e = snap[c][k]
  OBVIOUS
<1>2. /\ c \in Clients /\ fl'.by = c /\ mode = "up" /\ mode' = "up"
      /\ fl.pc \in {"drain", "unlink", "ok"}
      /\ fl.pc = "drain" => imms = {}
  BY <1>0, <1>1, DrainedSteps DEF FlushNothing, FlushManifest
<1>3. calls[c] = "drain" /\ calls'[c] = "drain"
  BY <1>0, <1>1, <1>2 DEF CallsInOrder
<1>4. snap'[c] = snap[c]
  <2>1. ~ FlushSync(c)
    BY <1>3 DEF FlushSync
  <2>2. QED
    BY <1>2, <1>3, <2>1, CallSteps
<1>5. e \in Nat /\ e \in 0 .. Len(ops)
  <2>1. snap[c][k] \in Ids /\ Ids \subseteq Nat
    BY <1>2, BasicSets DEF Inv, TypeOK, TypeHistory, Table
  <2>2. Len(ops) \in Nat /\ snap[c][k] <= Len(ops)
    BY <1>2, Numbers DEF PromisedIssued
  <2>3. e \in Nat /\ e <= Len(ops)
    BY <1>1, <2>1, <2>2
  <2>4. QED
    BY <2>2, <2>3
<1>6. Fresh(k, FromTables(levels, k), e) /\ \A g \in LiveGens : ~ HasOlder(g, k, e)
  <2>1. CASE fl.pc = "drain"
    <3>1. Awaited(c) = {}
      BY <1>2, <1>3, <2>1 DEF Awaited
    <3>2. Held({}, k, e)
      BY <1>1, <1>2, <1>3, <3>1 DEF SnapHeld
    <3>3. NewestHit({}, mem, k) = 0
      BY DEF NewestHit, Hits
    <3>4. QED
      BY <3>2, <3>3 DEF Held, OrElse
  <2>2. CASE fl.pc \in {"unlink", "ok"}
    BY <1>1, <1>2, <2>2 DEF SnapFlushed
  <2>3. QED
    BY <1>2, <2>1, <2>2
<1>7. PICK r : r = FromTables(levels, k)
  OBVIOUS
<1>8. levels' = levels /\ (Swap \/ LiveGens' = LiveGens)
  BY <1>0, DrainedMemory
<1>9. FromTables(levels, k)' = r /\ r \in Nat
  <2>1. FromTables(levels, k)' = r
    BY <1>7, <1>8, SameTables
  <2>2. r \in Nat
    BY <1>7, AnswerType
  <2>3. QED
    BY <2>1, <2>2
<1>10. Fresh(k, r, e)'
  BY <1>5, <1>6, <1>7, <1>9, FreshKept
<1>11. ASSUME NEW g \in LiveGens' PROVE ~ HasOlder(g, k, e)'
  <2>1. CASE g \in LiveGens
    BY <1>2, <1>5, <1>6, <1>11, <2>1, OlderKept
  <2>2. CASE g \notin LiveGens
    <3>1. PICK n : n = wr.new
      OBVIOUS
    <3>2. g = n /\ Entries(n, k)' = {}
      BY <1>8, <1>11, <2>2, <3>1, SwapAdds
    <3>3. QED
      BY <3>2 DEF HasOlder
  <2>3. QED
    BY <2>1, <2>2
<1>12. QED
  BY <1>h, <1>1, <1>2, <1>4, <1>9, <1>10, <1>11

-----------------------------------------------------------------------------
(* Recovery.                                                               *)

\* What is promised is a number of an issued write.
LEMMA OwedType ==
    ASSUME Inv, PromisedIssued, NEW kind, NEW k \in Keys
    PROVE  Owed(kind, k) \in 0 .. Len(ops) /\ Owed(kind, k) \in Nat
<1>1. durable[k] \in Ids /\ closed[k] \in Ids /\ Ids \subseteq Nat
  BY BasicSets DEF Inv, TypeOK, TypeHistory, Table
<1>2. Len(ops) \in Nat /\ durable[k] <= Len(ops) /\ closed[k] <= Len(ops)
  BY Numbers DEF PromisedIssued
<1>3. durable[k] \in 0 .. Len(ops) /\ closed[k] \in 0 .. Len(ops)
  <2>1. durable[k] \in Nat /\ closed[k] \in Nat
    BY <1>1
  <2>2. QED
    BY <1>2, <2>1
<1>4. QED
  BY <1>2, <1>3 DEF Owed

\* What replay and the tables of the MANIFEST answer.
LEMMA RecoveredIs ==
    ASSUME NEW k PROVE Recovered(k) = OrElse(Replayed(k), FromTables(manifest, k))
  BY DEF Recovered, FromTables

\* A promise that the disk keeps is kept by open: replay finds no older write last,
\* and when it finds none at all the tables answer.
LEMMA OpenKeeps ==
    ASSUME Inv, LogShape, NEW kind, NEW k \in Keys, NEW d \in Nat, DiskKeeps(kind, k, d)
    PROVE  /\ Fresh(k, Recovered(k), d)
           /\ Replayed(k) # 0 => Replayed(k) >= d
<1>0. TypeOK
  BY DEF Inv
<1>1. CASE Replayed(k) = 0 /\ \A g \in walFiles : Entries(g, k) = {}
  <2>1. \A g \in walFiles : ~ SafeHit(kind, g, k, d)
    BY <1>1 DEF SafeHit
  <2>2. Fresh(k, FromTables(manifest, k), d)
    BY <2>1 DEF DiskKeeps
  <2>3. QED
    BY <1>1, <2>2, RecoveredIs DEF OrElse
<1>2. ASSUME NEW g \in walFiles, NEW i \in Entries(g, k), Replayed(k) = wlog[g][i],
             Replayed(k) # 0, \A h \in walFiles : Entries(h, k) # {} => h <= g,
             \A j \in Entries(g, k) : j <= i
      PROVE  Replayed(k) >= d
  <2>1. /\ g \in Seqs /\ g \in Nat /\ \A h \in walFiles : h \in Nat
        /\ wlog[g] \in Seq(1 .. Len(ops)) /\ Len(wlog[g]) \in Nat /\ Len(ops) \in Nat
    <3>1. walFiles \subseteq Seqs /\ \A s \in Seqs : s \in Nat
      BY Numbers
    <3>2. Len(ops) \in Nat /\ \A s \in Seqs : Len(wlog[s]) \in Nat
      BY Numbers
    <3>3. wlog \in [Seqs -> Seq(1 .. Len(ops))]
      BY DEF Inv, Issued
    <3>4. QED
      BY <3>1, <3>2, <3>3
  <2>2. \A j \in Entries(g, k) : j \in 1 .. Len(wlog[g]) /\ wlog[g][j] \in 1 .. Len(ops)
    <3>1. \A j \in Entries(g, k) : j \in 1 .. Len(wlog[g])
      BY DEF Entries
    <3>2. QED
      BY <2>1, <3>1, ElementOfSeq
  <2>3. \A j \in Entries(g, k) : j \in Nat /\ wlog[g][j] \in Nat
    BY <2>1, <2>2
  <2>4. SUFFICES ASSUME wlog[g][i] < d PROVE FALSE
    BY <1>2, <2>3
  <2>5. HasOlder(g, k, d)
    BY <2>4 DEF HasOlder
  <2>6. PICK h \in walFiles : g <= h /\ SafeHit(kind, h, k, d)
    BY <2>5 DEF DiskKeeps
  <2>7. PICK j \in Entries(h, k) : wlog[h][j] >= d
    BY <2>6 DEF SafeHit
  <2>8. h = g
    <3>1. h <= g
      BY <1>2, <2>7
    <3>2. QED
      BY <2>1, <2>6, <3>1
  <2>9. j \in Entries(g, k) /\ wlog[g][j] >= d /\ j <= i
    BY <1>2, <2>7, <2>8
  <2>10. CASE j = i
    BY <2>3, <2>4, <2>9, <2>10
  <2>11. CASE j < i
    <3>1. ops[wlog[g][j]].key = k /\ ops[wlog[g][i]].key = k
      BY <2>9 DEF Entries
    <3>2. wlog[g][j] < wlog[g][i]
      BY <2>1, <2>2, <2>9, <2>11, <3>1 DEF LogShape
    <3>3. QED
      BY <2>3, <2>4, <2>9, <3>2
  <2>12. QED
    BY <2>3, <2>9, <2>10, <2>11
<1>3. CASE \E g \in walFiles : \E i \in Entries(g, k) :
                /\ Replayed(k) = wlog[g][i] /\ Replayed(k) # 0
                /\ \A h \in walFiles : Entries(h, k) # {} => h <= g
                /\ \A j \in Entries(g, k) : j <= i
  <2>1. Replayed(k) # 0 /\ Replayed(k) >= d
    BY <1>2, <1>3
  <2>2. QED
    BY <2>1, RecoveredIs DEF OrElse, Fresh
<1>4. QED
  BY <1>0, <1>1, <1>3, ReplayedIs

\* What open re-appends is no older than a promise that the disk keeps.
LEMMA RecoveredNotOlder ==
    ASSUME Inv, LogShape, Recover, NEW kind, NEW k \in Keys, NEW d \in Nat, DiskKeeps(kind, k, d)
    PROVE  ~ HasOlder(active, k, d)'
<1>1. PICK a, r : a = active' /\ r = Replayed(k)
  OBVIOUS
<1>2. \A i \in Entries(a, k)' : wlog'[a][i] = r /\ r # 0
  BY <1>1, RecoverLog
<1>3. r # 0 => r >= d
  BY <1>1, OpenKeeps
<1>4. r \in Nat
  <2>1. Len(ops) \in Nat /\ wlog \in [Seqs -> Seq(1 .. Len(ops))] /\ TypeDirectory
    BY Numbers DEF Inv, Issued, TypeOK
  <2>2. Replayed(k) \in 0 .. Len(ops)
    BY <2>1, ReplayedType
  <2>3. QED
    BY <1>1, <2>1, <2>2
<1>5. ~ HasOlder(a, k, d)'
  BY <1>2, <1>3, <1>4 DEF HasOlder
<1>6. QED
  BY <1>1, <1>5 DEF HasOlder

\* Between re-appending the recovered MemTable and its fsync, open does nothing that
\* the promises depend on.
LEMMA RebackSteps ==
    ASSUME Inv, [Next]_vars, mode' = "reback"
    PROVE  \/ Recover
           \/ /\ mode = "reback"
              /\ UNCHANGED <<walFiles, wlog, wos, wsync, mem, active, imms, stale, ops,
                             durable, closed>>
<1>0. mode # "up" => wr.pc = "free" /\ fl.pc = "free"
  BY DEF Inv, Quiet
<1>1. CASE UNCHANGED vars
  BY <1>1 DEF vars
<1>2. CASE WritePath
  BY <1>0, <1>2 DEF WritePath, Write, WriteSyncFails, Apply, FlushSync, Rotate, RotateFails, Swap
<1>3. CASE FlushPipeline
  BY <1>0, <1>3 DEF FlushPipeline, FlushBegin, FlushBuild, FlushBuildFails, FlushCommit,
     FlushNothing, FlushManifest, FlushManifestFails, FlushUnlink, FlushReturn
<1>4. CASE Compaction
  BY <1>0, <1>4 DEF Compaction, CompactCaller, CompactBuild, CompactBuildFails, CompactNothing,
     CompactCommit, CompactManifest, CompactManifestFails, CompactUnlink, CompactReturn
<1>5. CASE Worker
  BY <1>5 DEF Worker, WorkerRecv, WorkerCheck, dirVars, ghosts
<1>6. CASE Lifecycle
  BY <1>6 DEF Lifecycle, Close, Crash, RebackFails, ProcessGone, Reback, CleanOld
<1>7. QED
  BY <1>1, <1>2, <1>3, <1>4, <1>5, <1>6 DEF Next

\* What open re-appends is what the old logs have, and no older than promised.
LEMMA ReappendedNext ==
    ASSUME Inv, LogShape, PromisedIssued, Reappended, DiskPromises, [Next]_vars
    PROVE  Reappended'
<1>0. SUFFICES ASSUME mode' = "reback" PROVE Reappended'
  BY DEF Reappended
<1>1. CASE /\ mode = "reback"
           /\ UNCHANGED <<walFiles, wlog, wos, wsync, mem, active, imms, stale, ops,
                          durable, closed>>
  BY <1>1 DEF Reappended, Entries, HasOlder, Owed
<1>2. CASE Recover
  <2>1. PICK a, S : a = active' /\ S = stale'
    OBVIOUS
  <2>2. /\ S = walFiles /\ UNCHANGED <<ops, durable, closed>>
        /\ \A g \in S : wlog'[g] = wlog[g]
    BY <1>2, <2>1, RecoverLog DEF Recover, promises
  <2>3. ASSUME NEW k \in Keys
        PROVE  /\ \A i \in Entries(a, k)' : wlog'[a][i] = mem'[a][k]
               /\ (\E g \in S : Entries(g, k)' # {}) => Entries(a, k)' # {}
               /\ \A kind \in PromiseKinds : \A d : d = Owed(kind, k)' => ~ HasOlder(a, k, d)'
    <3>0. PICK r : r = Replayed(k)
      OBVIOUS
    <3>1. /\ mem'[a][k] = r
          /\ \A i \in Entries(a, k)' : wlog'[a][i] = r /\ r # 0
          /\ r # 0 => \E i \in Entries(a, k)' : wlog'[a][i] = r
      BY <1>2, <2>1, <3>0, RecoverLog
    <3>2. ASSUME NEW g \in S, Entries(g, k)' # {} PROVE Entries(a, k)' # {}
      <4>1. Entries(g, k) # {} /\ g \in walFiles
        BY <2>2, <3>2, SameEntries
      <4>2. r # 0
        BY <3>0, <4>1, ReplayedIs DEF Inv
      <4>3. QED
        BY <3>1, <4>2
    <3>3. ASSUME NEW kind \in PromiseKinds, NEW d, d = Owed(kind, k)' PROVE ~ HasOlder(a, k, d)'
      <4>1. d = Owed(kind, k)
        BY <2>2, <3>3 DEF Owed
      <4>2. d \in Nat
        BY <4>1, OwedType
      <4>3. DiskKeeps(kind, k, d)
        BY <4>1 DEF DiskPromises
      <4>4. ~ HasOlder(active, k, d)'
        BY <1>2, <4>2, <4>3, RecoveredNotOlder
      <4>5. QED
        BY <2>1, <4>4 DEF HasOlder
    <3>4. QED
      BY <3>1, <3>2, <3>3
  <2>4. QED
    BY <2>1, <2>3 DEF Reappended, HasOlder
<1>3. QED
  BY <1>0, <1>1, <1>2, RebackSteps

-----------------------------------------------------------------------------
(* The promises on disk.                                                   *)

\* What changes the promises: an acknowledged put or delete, a flush() that returns
\* and a clean drop.
LEMMA PromiseSteps ==
    ASSUME [Next]_vars
    PROVE  \/ UNCHANGED <<durable, closed>>
           \/ FlushReturn /\ UNCHANGED closed
           \/ UNCHANGED closed /\ \E freeze \in BOOLEAN : Apply(freeze)
           \/ Swap /\ UNCHANGED closed
           \/ Close /\ UNCHANGED durable
<1>1. CASE UNCHANGED vars
  BY <1>1 DEF vars
<1>2. CASE WritePath
  BY <1>2 DEF WritePath, Write, WriteSyncFails, Apply, FlushSync, Rotate, RotateFails, Swap,
     ghosts, promises
<1>3. CASE FlushPipeline
  BY <1>3 DEF FlushPipeline, FlushBegin, FlushBuild, FlushBuildFails, FlushCommit,
     FlushNothing, FlushManifest, FlushManifestFails, FlushUnlink, FlushReturn, ghosts
<1>4. CASE Compaction
  BY <1>4 DEF Compaction, CompactBuild, CompactBuildFails, CompactNothing,
     CompactCommit, CompactManifest, CompactManifestFails, CompactUnlink, CompactReturn,
     ghosts, promises
<1>5. CASE Worker
  BY <1>5 DEF Worker, WorkerRecv, WorkerCheck, ghosts
<1>6. CASE Lifecycle
  BY <1>6 DEF Lifecycle, Close, Crash, RebackFails, Recover, Reback, CleanOld, promises, ghosts
<1>7. QED
  BY <1>1, <1>2, <1>3, <1>4, <1>5, <1>6 DEF Next

\* What changes the list of logs and the MANIFEST.
LEMMA DirectorySteps ==
    ASSUME [Next]_vars
    PROVE  \/ UNCHANGED <<walFiles, manifest>>
           \/ (Rotate \/ Recover) /\ UNCHANGED manifest
           \/ (FlushManifest \/ CompactManifest) /\ UNCHANGED walFiles
           \/ (FlushUnlink \/ CleanOld) /\ UNCHANGED manifest
<1>1. CASE UNCHANGED vars
  BY <1>1 DEF vars
<1>2. CASE WritePath
  BY <1>2 DEF WritePath, Write, WriteSyncFails, Apply, FlushSync, Rotate, RotateFails, Swap,
     walVars, sstVars
<1>3. CASE FlushPipeline
  BY <1>3 DEF FlushPipeline, FlushBegin, FlushBuild, FlushBuildFails, FlushCommit,
     FlushNothing, FlushManifest, FlushManifestFails, FlushUnlink, FlushReturn,
     dirVars, walVars, sstVars
<1>4. CASE Compaction
  BY <1>4 DEF Compaction, CompactBuild, CompactBuildFails, CompactNothing,
     CompactCommit, CompactManifest, CompactManifestFails, CompactUnlink, CompactReturn,
     dirVars, walVars
<1>5. CASE Worker
  BY <1>5 DEF Worker, WorkerRecv, WorkerCheck, dirVars
<1>6. CASE Lifecycle
  BY <1>6 DEF Lifecycle, Close, Crash, RebackFails, Recover, Reback, CleanOld, sstVars
<1>7. QED
  BY <1>1, <1>2, <1>3, <1>4, <1>5, <1>6 DEF Next

\* What the disk keeps, it keeps while the MANIFEST stays and logs are only added
\* that have nothing older.
LEMMA DiskKept ==
    ASSUME Inv, LogShape, [Next]_vars, UNCHANGED manifest, walFiles \subseteq walFiles',
           NEW kind \in PromiseKinds, NEW k \in Keys, NEW d \in 0 .. Len(ops),
           DiskKeeps(kind, k, d), \A g \in walFiles' \ walFiles : ~ HasOlder(g, k, d)'
    PROVE  DiskKeeps(kind, k, d)'
<1>0. d \in Nat
  OBVIOUS
<1>1. ASSUME NEW g \in walFiles', HasOlder(g, k, d)'
      PROVE  \E h \in walFiles' : g <= h /\ SafeHit(kind, h, k, d)'
  <2>1. g \in walFiles
    BY <1>1
  <2>2. HasOlder(g, k, d)
    BY <1>1, <2>1, LogKept
  <2>3. PICK h \in walFiles : g <= h /\ SafeHit(kind, h, k, d)
    BY <2>1, <2>2 DEF DiskKeeps
  <2>4. h \in walFiles' /\ SafeHit(kind, h, k, d)'
    BY <2>3, LogKept
  <2>5. QED
    BY <2>3, <2>4
<1>2. ASSUME \A g \in walFiles' : ~ SafeHit(kind, g, k, d)'
      PROVE  Fresh(k, FromTables(manifest, k), d)'
  <2>1. ASSUME NEW g \in walFiles PROVE ~ SafeHit(kind, g, k, d)
    BY <1>2, LogKept
  <2>2. PICK r : r = FromTables(manifest, k)
    OBVIOUS
  <2>3. Fresh(k, r, d)
    BY <2>1, <2>2 DEF DiskKeeps
  <2>4. FromTables(manifest, k)' = r
    BY <2>2, SameTables
  <2>5. r \in Nat
    <3>1. manifest \in [Levels -> SUBSET Seqs]
      BY DEF Inv, TypeOK, TypeDirectory
    <3>2. r \in 0 .. Len(ops)
      BY <2>2, <3>1, TablesType
    <3>3. QED
      BY <3>2
  <2>6. Fresh(k, r, d)'
    BY <1>0, <2>3, <2>5, FreshKept
  <2>7. QED
    BY <2>4, <2>6 DEF Fresh
<1>3. QED
  BY <1>1, <1>2 DEF DiskKeeps

\* The generations in memory keep a promise by themselves when a log that is none of
\* theirs is deleted, the oldest first, or when the MANIFEST comes to list the live
\* levels.
LEMMA DiskFromLive ==
    ASSUME Inv, LogShape, LiveLogs, LiveLogs', [Next]_vars, mode # "down",
           LiveGens \subseteq walFiles', walFiles' \subseteq walFiles, manifest' = levels,
           NEW kind \in PromiseKinds, NEW k \in Keys, NEW d \in 0 .. Len(ops),
           DiskKeeps(kind, k, d), LiveKeeps(kind, k, d),
           \A g \in walFiles', h \in walFiles : g <= h => h \in walFiles'
    PROVE  DiskKeeps(kind, k, d)'
<1>0. d \in Nat /\ LiveGens \subseteq walFiles
  BY DEF LiveLogs
<1>1. ASSUME NEW g \in walFiles', HasOlder(g, k, d)'
      PROVE  \E h \in walFiles' : g <= h /\ SafeHit(kind, h, k, d)'
  <2>1. g \in walFiles
    BY <1>1
  <2>2. HasOlder(g, k, d)
    BY <1>1, <2>1, LogKept
  <2>3. PICK h \in walFiles : g <= h /\ SafeHit(kind, h, k, d)
    BY <2>1, <2>2 DEF DiskKeeps
  <2>4. h \in walFiles'
    BY <2>3
  <2>5. SafeHit(kind, h, k, d)'
    BY <2>3, <2>4, LogKept
  <2>6. QED
    BY <2>3, <2>4, <2>5
<1>2. ASSUME \A g \in walFiles' : ~ SafeHit(kind, g, k, d)'
      PROVE  Fresh(k, FromTables(manifest, k), d)'
  <2>1. ASSUME NEW g \in LiveGens PROVE ~ SafeHit(kind, g, k, d)
    BY <1>0, <1>2, LogKept
  <2>2. PICK r : r = FromTables(levels, k)
    OBVIOUS
  <2>3. Fresh(k, r, d)
    BY <2>1, <2>2 DEF LiveKeeps
  <2>4. FromTables(manifest, k)' = r
    BY <2>2, SameTables
  <2>5. r \in Nat
    BY <2>2, AnswerType
  <2>6. Fresh(k, r, d)'
    BY <1>0, <2>3, <2>5, FreshKept
  <2>7. QED
    BY <2>4, <2>6 DEF Fresh
<1>3. QED
  BY <1>1, <1>2 DEF DiskKeeps

\* When flush_all_pending is done, the MANIFEST lists the tables that hold what the
\* flush() promises, and no log on disk has anything older.
LEMMA FlushedKeeps ==
    ASSUME Inv, LogShape, LiveLogs, TodoOlder, LogsAccounted, ManifestLags, SnapFlushed,
           fl.pc = "ok", fl.by \in Clients, NEW kind, NEW k \in Keys, NEW e, e = snap[fl.by][k]
    PROVE  DiskKeeps(kind, k, e) /\ LiveKeeps(kind, k, e)
<1>1. mode = "up" /\ fl.todo = {} /\ manifest = levels
  BY DEF Inv, Quiet, TodoOlder, ManifestLags
<1>2. Fresh(k, FromTables(levels, k), e) /\ \A g \in LiveGens : ~ HasOlder(g, k, e)
  BY DEF SnapFlushed
<1>3. ASSUME NEW g \in walFiles PROVE ~ HasOlder(g, k, e)
  <2>1. CASE g \in LiveGens
    BY <1>2, <2>1
  <2>2. CASE wr.pc = "swap" /\ g = wr.new
    <3>1. wlog[g] = << >>
      BY <1>1, <2>2 DEF LiveLogs
    <3>2. QED
      BY <3>1 DEF HasOlder, Entries
  <2>3. QED
    BY <1>1, <2>1, <2>2 DEF LogsAccounted, NoStrayWal, LiveGens
<1>4. QED
  BY <1>1, <1>2, <1>3 DEF DiskKeeps, LiveKeeps

\* A write that put or delete has fsynced is the newest of its key, in the log of
\* the active generation.
LEMMA WrittenKeeps ==
    ASSUME Inv, LogShape, LiveLogs, InHand, TodoOlder, LogsAccounted, SyncPerWrite,
           wr.pc # "free", wr.by = "put", NEW k \in Keys, NEW e, e = wr.w, k = ops[e].key
    PROVE  DiskKeeps("power", k, e)
<1>1. mode = "up" /\ active \in walFiles /\ active \in LiveGens
  BY DEF Inv, Quiet, LiveLogs, LiveGens
<1>2. SafeHit("power", active, k, e)
  BY DEF InHand
<1>3. ASSUME NEW g \in walFiles, HasOlder(g, k, e) PROVE g <= active
  <2>1. /\ \A h \in LiveGens : h <= active
        /\ \A s \in Seqs : s \in Nat
        /\ walFiles \subseteq Seqs /\ active \in Nat
    BY <1>1, Numbers
  <2>2. CASE g \in LiveGens
    BY <2>1, <2>2
  <2>3. CASE g \in fl.todo
    <3>1. g < active /\ g \in Nat
      BY <1>1, <2>1, <2>3 DEF TodoOlder
    <3>2. QED
      BY <2>1, <3>1
  <2>4. CASE wr.pc = "swap" /\ g = wr.new
    <3>1. wlog[g] = << >>
      BY <1>1, <2>4 DEF LiveLogs
    <3>2. QED
      BY <1>3, <3>1 DEF HasOlder, Entries
  <2>5. QED
    BY <1>1, <2>2, <2>3, <2>4 DEF LogsAccounted, NoStrayWal, LiveGens
<1>4. QED
  BY <1>1, <1>2, <1>3 DEF DiskKeeps

\* A clean drop leaves every log with the operating system, so that the logs answer
\* for what was in the MemTables and the tables for the rest.
LEMMA ClosedKeeps ==
    ASSUME Inv, LogShape, LiveLogs, TodoOlder, LogsAccounted, ManifestLags, AppliedHeld,
           [Next]_vars, Close, NEW k \in Keys, NEW e \in 0 .. Len(ops), e = kv[k]
    PROVE  DiskKeeps("kill", k, e)'
<1>1. /\ mode = "up" /\ wr.pc = "free" /\ fl.pc = "free"
      /\ wos' = Drained(active) /\ UNCHANGED <<walFiles, wlog, ops, manifest>>
  BY DEF Close
<1>2. fl.todo = {} /\ manifest = levels /\ walFiles = LiveGens /\ Held(LiveGens, k, e)
  <2>1. fl.todo = {} /\ manifest = levels
    BY <1>1 DEF TodoOlder, ManifestLags
  <2>2. walFiles = LiveGens
    BY <1>1, <2>1 DEF LogsAccounted, NoStrayWal, LiveLogs, LiveGens
  <2>3. Held(LiveGens, k, e)
    BY <1>1 DEF AppliedHeld
  <2>4. QED
    BY <2>1, <2>2, <2>3
<1>3. /\ LiveGens \subseteq Seqs /\ \A s \in Seqs : s \in Nat
      /\ \A s \in Seqs : Len(wlog[s]) \in Nat
      /\ active \in Seqs
  BY <1>1, Numbers
<1>4. ASSUME NEW g \in LiveGens PROVE wos'[g] = Len(wlog'[g])
  <2>1. CASE g = active
    BY <1>1, <1>3, <2>1 DEF Drained, Inv, TypeOK, TypeDirectory
  <2>2. CASE g # active
    BY <1>1, <1>3, <2>2 DEF Drained, Inv, TypeOK, TypeDirectory, LiveLogs, LiveGens
  <2>3. QED
    BY <2>1, <2>2
<1>5. \A g \in Seqs : mem[g][k] \in Nat
  <2>1. \A g \in Seqs : mem[g][k] \in 0 .. Len(ops)
    BY <1>3, MemTablesType
  <2>2. QED
    BY <2>1
<1>6. ASSUME NEW h \in LiveGens, mem[h][k] # 0, mem[h][k] >= e PROVE SafeHit("kill", h, k, e)'
  <2>1. PICK i \in Entries(h, k) : wlog[h][i] = mem[h][k]
    BY <1>1, <1>6 DEF LiveLogs, HasWrite
  <2>2. i \in Entries(h, k)' /\ wlog'[h][i] >= e
    BY <1>1, <1>6, <2>1 DEF Entries
  <2>3. i <= wos'[h]
    BY <1>3, <1>4, <2>2 DEF Entries
  <2>4. QED
    BY <2>2, <2>3 DEF SafeHit, Safe
<1>7. IsNewest(LiveGens, mem, k, NewestHit(LiveGens, mem, k))
  <2>1. \A S \in SUBSET Seqs : \A t : IsNewest(S, t, k, NewestHit(S, t, k))
    BY NewestHitIs
  <2>2. QED
    BY <1>3, <2>1
<1>8. ASSUME NEW h \in LiveGens, mem[h][k] # 0
      PROVE  \E m \in LiveGens : h <= m /\ SafeHit("kill", m, k, e)'
  <2>1. PICK m \in LiveGens : /\ mem[m][k] # 0 /\ NewestHit(LiveGens, mem, k) = mem[m][k]
                              /\ \A t \in LiveGens : mem[t][k] # 0 => t <= m
    BY <1>7, <1>8 DEF IsNewest
  <2>2. Fresh(k, mem[m][k], e)
    BY <1>2, <2>1 DEF Held, OrElse
  <2>3. mem[m][k] >= e
    BY <2>1, <2>2 DEF Fresh
  <2>4. QED
    BY <1>6, <1>8, <2>1, <2>3
<1>9. ASSUME NEW g \in walFiles', HasOlder(g, k, e)'
      PROVE  \E h \in walFiles' : g <= h /\ SafeHit("kill", h, k, e)'
  <2>1. HasOlder(g, k, e) /\ g \in LiveGens
    BY <1>1, <1>2, <1>9, SameEntries
  <2>2. PICK h \in LiveGens : g <= h /\ mem[h][k] # 0
    BY <1>2, <2>1 DEF Held
  <2>3. PICK m \in LiveGens : h <= m /\ SafeHit("kill", m, k, e)'
    BY <1>8, <2>2
  <2>4. m \in walFiles' /\ g <= m
    <3>1. g \in Nat /\ h \in Nat /\ m \in Nat
      BY <1>3, <2>1
    <3>2. QED
      BY <1>1, <1>2, <2>2, <2>3, <3>1
  <2>5. QED
    BY <2>3, <2>4
<1>10. ASSUME \A g \in walFiles' : ~ SafeHit("kill", g, k, e)'
       PROVE  Fresh(k, FromTables(manifest, k), e)'
  <2>1. \A h \in LiveGens : mem[h][k] = 0
    BY <1>1, <1>2, <1>8, <1>10
  <2>2. NewestHit(LiveGens, mem, k) = 0
    BY <1>7, <2>1 DEF IsNewest
  <2>3. PICK r : r = FromTables(manifest, k)
    OBVIOUS
  <2>4. r = FromTables(levels, k)
    BY <1>2, <2>3
  <2>5. Fresh(k, r, e)
    BY <1>2, <2>2, <2>4 DEF Held, OrElse
  <2>6. FromTables(manifest, k)' = r
    BY <1>1, <2>3, SameTables
  <2>7. r \in Nat /\ e \in Nat
    BY <1>3, <2>4, AnswerType
  <2>8. Fresh(k, r, e)'
    BY <2>5, <2>7, FreshKept
  <2>9. QED
    BY <2>6, <2>8 DEF Fresh
<1>11. QED
  BY <1>9, <1>10 DEF DiskKeeps

\* A put or delete changes a promise only for its key, when its frame is fsynced.
LEMMA AcknowledgeSteps ==
    ASSUME Inv, Swap \/ \E freeze \in BOOLEAN : Apply(freeze),
           NEW k \in Keys, durable'[k] # durable[k]
    PROVE  /\ SyncPerWrite /\ wr.pc # "free" /\ wr.by = "put"
           /\ k = ops[wr.w].key /\ durable'[k] = wr.w
           /\ UNCHANGED <<walFiles, manifest, ops>>
<1>1. durable \in [Keys -> Ids]
  BY DEF Inv, TypeOK, TypeHistory, Table
<1>2. wr.pc = "apply" => wr.by = "put"
  BY DEF Inv, TypeOK, TypeHistory
<1>3. Acknowledge(wr.w) /\ wr.pc # "free" /\ wr.by = "put"
  <2>1. CASE Swap
    BY <2>1 DEF Swap
  <2>2. ASSUME NEW freeze \in BOOLEAN, Apply(freeze)
        PROVE  Acknowledge(wr.w) /\ wr.pc # "free" /\ wr.by = "put"
    BY <1>2, <2>2 DEF Apply
  <2>3. QED
    BY <2>1, <2>2
<1>4. SyncPerWrite /\ durable' = [durable EXCEPT ![ops[wr.w].key] = wr.w]
  BY <1>3 DEF Acknowledge
<1>5. UNCHANGED <<walFiles, manifest, ops>>
  BY DEF Swap, Apply, walVars, sstVars
<1>6. QED
  BY <1>1, <1>3, <1>4, <1>5

\* A flush() that returns promises what it had promised before or what it snapped.
LEMMA FlushReturnSteps ==
    ASSUME Inv, FlushReturn, NEW k \in Keys, durable'[k] # durable[k]
    PROVE  /\ fl.pc = "ok" /\ fl.by \in Clients /\ durable'[k] = snap[fl.by][k]
           /\ UNCHANGED <<walFiles, manifest, ops>>
  BY DEF FlushReturn, NewerOf, dirVars

\* What the disk keeps of a key, it keeps: logs are only added that have nothing
\* older, and those that are deleted leave it to the generations in memory.
LEMMA DiskKeepsNext ==
    ASSUME NoLosingFaults, Inv, DurableInv, LiveLogs', [Next]_vars,
           NEW kind \in PromiseKinds, NEW k \in Keys, NEW d \in 0 .. Len(ops),
           DiskKeeps(kind, k, d), mode \in {"clean", "up"} => LiveKeeps(kind, k, d)
    PROVE  DiskKeeps(kind, k, d)'
<1>d. LogShape /\ LiveLogs /\ TodoOlder /\ LogsAccounted /\ ManifestLags
  BY DEF DurableInv
<1>1. CASE UNCHANGED <<walFiles, manifest>>
  <2>1. QED
    BY <1>d, <1>1, DiskKept
<1>2. CASE Rotate /\ UNCHANGED manifest
  <2>1. PICK n : n = nextSeq
    OBVIOUS
  <2>2. mode = "up" /\ walFiles' = walFiles \cup {n} /\ wlog' = wlog /\ n \in Seqs
    BY <1>2, <2>1 DEF Rotate, Inv, Quiet, TypeOK, TypeProcess, CanAllocate, Seqs
  <2>3. n \notin walFiles
    <3>1. nextSeq \in Nat /\ \A g \in walFiles : g < nextSeq
      BY <1>d, <2>2, Numbers DEF LiveLogs
    <3>2. QED
      BY <2>1, <3>1
  <2>4. wlog'[n] = << >>
    BY <1>d, <2>2, <2>3 DEF LogShape
  <2>5. \A g \in walFiles' \ walFiles : ~ HasOlder(g, k, d)'
    BY <2>2, <2>4 DEF HasOlder, Entries
  <2>6. QED
    BY <1>d, <1>2, <2>2, <2>5, DiskKept
<1>3. CASE Recover /\ UNCHANGED manifest
  <2>1. walFiles' = walFiles \cup {active'}
    BY <1>d, <1>3, RecoverLog
  <2>2. ~ HasOlder(active, k, d)'
    BY <1>d, <1>3, RecoveredNotOlder
  <2>3. \A g \in walFiles' \ walFiles : ~ HasOlder(g, k, d)'
    BY <2>1, <2>2 DEF HasOlder
  <2>4. QED
    BY <1>d, <1>3, <2>1, <2>3, DiskKept
<1>4. CASE (FlushManifest \/ CompactManifest) /\ UNCHANGED walFiles
  <2>1. mode = "up" /\ manifest' = levels
    BY <1>4 DEF FlushManifest, CompactManifest, LiveManifest, Inv, Quiet
  <2>2. LiveGens \subseteq walFiles' /\ LiveKeeps(kind, k, d)
    BY <1>d, <1>4, <2>1 DEF LiveLogs
  <2>3. QED
    BY <1>d, <1>4, <2>1, <2>2, DiskFromLive
<1>5. ASSUME FlushUnlink \/ CleanOld, UNCHANGED manifest,
             NEW m, UnlinkWal(m), mode \in {"clean", "up"}, manifest = levels,
             \A g \in walFiles : m <= g, \A g \in LiveGens : m < g, m \in Nat
      PROVE  DiskKeeps(kind, k, d)'
  <2>1. walFiles' = walFiles \ {m}
    BY <1>5 DEF UnlinkWal
  <2>2. /\ walFiles \subseteq Seqs /\ LiveGens \subseteq Seqs /\ \A s \in Seqs : s \in Nat
    BY <1>5, Numbers
  <2>3. LiveGens \subseteq walFiles'
    BY <1>d, <1>5, <2>1, <2>2 DEF LiveLogs
  <2>4. \A g \in walFiles', h \in walFiles : g <= h => h \in walFiles'
    <3>1. SUFFICES ASSUME NEW g \in walFiles', g <= m PROVE FALSE
      BY <2>1
    <3>2. g \in walFiles /\ g # m /\ g \in Nat /\ m <= g
      BY <1>5, <2>1, <2>2
    <3>3. QED
      BY <1>5, <3>1, <3>2
  <2>5. LiveKeeps(kind, k, d)
    BY <1>d, <1>5
  <2>6. mode # "down" /\ walFiles' \subseteq walFiles /\ manifest' = levels
    BY <1>5, <2>1
  <2>7. QED
    BY <1>d, <2>3, <2>4, <2>5, <2>6, DiskFromLive
<1>6. CASE (FlushUnlink \/ CleanOld) /\ UNCHANGED manifest
  <2>1. "wal_unlink" \notin Faults
    BY DEF NoLosingFaults
  <2>2. CASE FlushUnlink
    <3>1. PICK m : m = Min(fl.todo)
      OBVIOUS
    <3>2. UnlinkWal(m) /\ fl.pc = "unlink"
      BY <2>1, <2>2, <3>1 DEF FlushUnlink, OldestGen
    <3>3. /\ mode \in {"clean", "up"} /\ m \in fl.todo
          /\ \A g \in walFiles : m <= g
          /\ \A g \in LiveGens : m < g
      BY <2>2, <3>1, UnlinkedIsNotLive
    <3>4. manifest = levels
      BY <1>d, <3>2, <3>3 DEF ManifestLags
    <3>5. m \in Nat
      <4>1. fl.todo \subseteq Seqs /\ \A s \in Seqs : s \in Nat
        BY Numbers
      <4>2. QED
        BY <3>3, <4>1
    <3>6. QED
      BY <1>5, <1>6, <3>2, <3>3, <3>4, <3>5
  <2>3. CASE CleanOld
    <3>1. PICK m : m = Min(stale)
      OBVIOUS
    <3>2. UnlinkWal(m) /\ mode = "clean"
      BY <2>1, <2>3, <3>1 DEF CleanOld, OldestGen
    <3>3. /\ m \in stale
          /\ \A g \in walFiles : m <= g
          /\ \A g \in LiveGens : m < g
      BY <2>3, <3>1, UnlinkedIsNotLive
    <3>4. manifest = levels
      BY <1>d, <3>2 DEF ManifestLags, Inv, Quiet
    <3>5. m \in Nat
      <4>1. stale \subseteq Seqs /\ \A s \in Seqs : s \in Nat
        BY Numbers
      <4>2. QED
        BY <3>3, <4>1
    <3>6. QED
      BY <1>5, <1>6, <3>2, <3>3, <3>4, <3>5
  <2>4. QED
    BY <1>6, <2>2, <2>3
<1>7. QED
  BY <1>1, <1>2, <1>3, <1>4, <1>6, DirectorySteps

\* The disk keeps every promise.
LEMMA DiskPromisesNext ==
    ASSUME NoLosingFaults, Inv, Inv', DurableInv, LiveLogs', Reappended', PromisedIssued',
           [Next]_vars
    PROVE  DiskPromises'
<1>d. /\ LogShape /\ LiveLogs /\ InHand /\ PromisedIssued /\ TodoOlder
      /\ LogsAccounted /\ ManifestLags /\ AppliedHeld /\ SnapFlushed /\ DiskPromises /\ LivePromises
  BY DEF DurableInv
<1>0. SUFFICES ASSUME NEW kind \in PromiseKinds, NEW k \in Keys
               PROVE  DiskKeeps(kind, k, Owed(kind, k))'
  BY DEF DiskPromises, PromiseKinds
<1>h. ASSUME NEW d, Owed(kind, k)' = d, DiskKeeps(kind, k, d)'
      PROVE  DiskKeeps(kind, k, Owed(kind, k))'
  BY <1>h DEF DiskKeeps, HasOlder, SafeHit, Fresh
<1>1. PICK d : d = Owed(kind, k)'
  OBVIOUS
<1>2. kind \in {"power", "kill"}
  BY DEF PromiseKinds
<1>t. durable'[k] \in 0 .. Len(ops')
  <2>1. durable'[k] \in Ids /\ Ids \subseteq Nat
    BY BasicSets DEF Inv, TypeOK, TypeHistory, Table
  <2>2. ops' \in Seq([key : Keys, del : BOOLEAN]) /\ durable'[k] <= Len(ops')
    BY DEF Inv, TypeOK, TypeHistory, PromisedIssued
  <2>3. Len(ops') \in Nat /\ durable'[k] \in Nat
    <3>1. durable'[k] \in Nat
      BY <2>1
    <3>2. Len(ops') \in Nat
      BY <2>2
    <3>3. QED
      BY <3>1, <3>2
  <2>4. QED
    BY <2>2, <2>3
<1>3. CASE d = Owed(kind, k)
  <2>1. d \in 0 .. Len(ops) /\ DiskKeeps(kind, k, d) /\ (mode \in {"clean", "up"} => LiveKeeps(kind, k, d))
    BY <1>d, <1>3, OwedType DEF DiskPromises, LivePromises
  <2>2. DiskKeeps(kind, k, d)'
    BY <2>1, DiskKeepsNext
  <2>3. QED
    BY <1>h, <1>1, <2>2
<1>4. CASE d # Owed(kind, k)
  <2>1. CASE FlushReturn /\ UNCHANGED closed
    <3>1. kind = "power" /\ durable'[k] = d /\ durable'[k] # durable[k]
      BY <1>1, <1>2, <1>4, <2>1 DEF Owed
    <3>2. /\ fl.pc = "ok" /\ fl.by \in Clients /\ d = snap[fl.by][k]
          /\ UNCHANGED <<walFiles, manifest, ops>>
      BY <2>1, <3>1, FlushReturnSteps
    <3>3. DiskKeeps(kind, k, d)
      BY <1>d, <3>2, FlushedKeeps
    <3>4. d \in 0 .. Len(ops)
      BY <1>t, <3>1, <3>2
    <3>5. DiskKeeps(kind, k, d)'
      BY <1>d, <3>2, <3>3, <3>4, DiskKept
    <3>6. QED
      BY <1>h, <1>1, <3>5
  <2>2. CASE UNCHANGED closed /\ (Swap \/ \E freeze \in BOOLEAN : Apply(freeze))
    <3>1. kind = "power" /\ durable'[k] = d /\ durable'[k] # durable[k]
      BY <1>1, <1>2, <1>4, <2>2 DEF Owed
    <3>2. /\ SyncPerWrite /\ wr.pc # "free" /\ wr.by = "put" /\ d = wr.w /\ k = ops[d].key
          /\ UNCHANGED <<walFiles, manifest, ops>>
      BY <2>2, <3>1, AcknowledgeSteps
    <3>3. DiskKeeps(kind, k, d)
      BY <1>d, <3>1, <3>2, WrittenKeeps
    <3>4. d \in 0 .. Len(ops)
      BY <1>t, <3>1, <3>2
    <3>5. DiskKeeps(kind, k, d)'
      BY <1>d, <3>2, <3>3, <3>4, DiskKept
    <3>6. QED
      BY <1>h, <1>1, <3>5
  <2>3. CASE Close /\ UNCHANGED durable
    <3>1. kind = "kill" /\ closed'[k] = d /\ closed' = kv
      BY <1>1, <1>2, <1>4, <2>3 DEF Owed, Close
    <3>2. d = kv[k] /\ d \in 0 .. Len(ops)
      BY <3>1 DEF Inv, Issued
    <3>3. DiskKeeps("kill", k, d)'
      BY <1>d, <2>3, <3>2, ClosedKeeps
    <3>4. QED
      BY <1>h, <1>1, <3>1, <3>3
  <2>4. ~ UNCHANGED <<durable, closed>>
    BY <1>1, <1>4 DEF Owed
  <2>5. QED
    BY <2>1, <2>2, <2>3, <2>4, PromiseSteps
<1>5. QED
  BY <1>3, <1>4

-----------------------------------------------------------------------------
(* The promises in memory.                                                 *)

\* What memory keeps, it keeps while MemTables only gain newer writes and the levels
\* change by a compaction at most.
LEMMA LiveKept ==
    ASSUME Inv, LogShape, LiveLogs, LiveLogs', [Next]_vars, mode # "down", mode' # "down",
           LiveGens \subseteq LiveGens', UNCHANGED levels \/ CompactCommit,
           NEW kind \in PromiseKinds, NEW k \in Keys, NEW d \in 0 .. Len(ops),
           LiveKeeps(kind, k, d),
           \A g \in LiveGens : mem[g][k] >= d => mem'[g][k] >= d,
           \A g \in LiveGens' \ LiveGens : ~ HasOlder(g, k, d)'
    PROVE  LiveKeeps(kind, k, d)'
<1>0. d \in Nat
  OBVIOUS
<1>1. ASSUME NEW g \in LiveGens PROVE SafeHit(kind, g, k, d) => SafeHit(kind, g, k, d)'
  <2>1. g \in walFiles /\ g \in walFiles'
    BY DEF LiveLogs
  <2>2. QED
    BY <2>1, LogKept
<1>2. ASSUME NEW g \in LiveGens', HasOlder(g, k, d)'
      PROVE  \E h \in LiveGens' : g <= h /\ mem'[h][k] >= d /\ SafeHit(kind, h, k, d)'
  <2>1. g \in LiveGens
    BY <1>2
  <2>2. HasOlder(g, k, d)
    BY <1>2, <2>1, OlderKept
  <2>3. PICK h \in LiveGens : g <= h /\ mem[h][k] >= d /\ SafeHit(kind, h, k, d)
    BY <2>1, <2>2 DEF LiveKeeps
  <2>4. h \in LiveGens' /\ mem'[h][k] >= d /\ SafeHit(kind, h, k, d)'
    BY <1>1, <2>3
  <2>5. QED
    BY <2>3, <2>4
<1>3. ASSUME \A g \in LiveGens' : ~ (mem'[g][k] >= d /\ SafeHit(kind, g, k, d)')
      PROVE  Fresh(k, FromTables(levels, k), d)'
  <2>1. ASSUME NEW g \in LiveGens PROVE ~ (mem[g][k] >= d /\ SafeHit(kind, g, k, d))
    BY <1>1, <1>3
  <2>2. PICK r : r = FromTables(levels, k)
    OBVIOUS
  <2>3. Fresh(k, r, d)
    BY <2>1, <2>2 DEF LiveKeeps
  <2>4. r \in Nat
    <3>1. levels \in [Levels -> SUBSET Seqs]
      BY DEF Inv, TypeOK, TypeProcess
    <3>2. r \in 0 .. Len(ops)
      BY <2>2, <3>1, TablesType
    <3>3. QED
      BY <3>2
  <2>5. CASE UNCHANGED levels
    <3>1. FromTables(levels, k)' = r
      BY <2>2, <2>5, SameTables
    <3>2. Fresh(k, r, d)'
      BY <1>0, <2>3, <2>4, FreshKept
    <3>3. QED
      BY <3>1, <3>2 DEF Fresh
  <2>6. CASE CompactCommit
    <3>1. Fresh(k, OrElse(0, FromTables(levels, k)), d)
      BY <2>2, <2>3 DEF OrElse
    <3>2. OrElse(0, FromTables(levels, k)') >= d
             \/ (OrElse(0, FromTables(levels, k)') = 0 /\ gone'[k] >= d)
      BY <1>0, <2>6, <3>1, CompactedFresh
    <3>3. QED
      BY <3>2 DEF OrElse, Fresh
  <2>7. QED
    BY <2>5, <2>6
<1>4. QED
  BY <1>2, <1>3 DEF LiveKeeps

\* A flushed MemTable hands what it kept to its table, which answers before the
\* older ones.
LEMMA LiveFlushed ==
    ASSUME Inv, LogShape, LiveLogs, LiveLogs', [Next]_vars, FlushCommit,
           NEW kind \in PromiseKinds, NEW k \in Keys, NEW d \in 0 .. Len(ops),
           LiveKeeps(kind, k, d)
    PROVE  LiveKeeps(kind, k, d)'
<1>0. d \in Nat
  OBVIOUS
<1>1. PICK gen, r : gen = fl.gen /\ r = FromTables(levels, k)
  OBVIOUS
<1>2. /\ FromTables(levels, k)' = OrElse(mem[gen][k], r)
      /\ gen \in imms /\ LiveGens' = LiveGens \ {gen} /\ \A g \in LiveGens' : gen < g
      /\ \A g \in Seqs : g # gen => mem'[g] = mem[g]
      /\ mode = "up" /\ mode' = "up"
      /\ UNCHANGED <<walFiles, wlog, wos, wsync, ops, gone>>
  BY <1>1, FlushedTables
<1>3. LiveGens \subseteq Seqs /\ (\A s \in Seqs : s \in Nat) /\ gen \in LiveGens
  BY <1>2, Numbers DEF LiveGens
<1>4. \A g \in LiveGens' : g \in LiveGens /\ g # gen /\ mem'[g][k] = mem[g][k]
  BY <1>2, <1>3
<1>5. \A g : /\ SafeHit(kind, g, k, d)' <=> SafeHit(kind, g, k, d)
             /\ HasOlder(g, k, d)' <=> HasOlder(g, k, d)
  BY <1>2 DEF SafeHit, HasOlder, Entries, Safe
<1>6. r \in Nat /\ mem[gen][k] \in Nat
  <2>1. r \in Nat
    BY <1>1, <1>3, AnswerType
  <2>2. \A g \in Seqs : mem[g][k] \in 0 .. Len(ops)
    BY <1>3, MemTablesType
  <2>3. mem[gen][k] \in 0 .. Len(ops)
    BY <1>3, <2>2
  <2>4. QED
    BY <2>1, <2>3
<1>7. ASSUME NEW g \in LiveGens', HasOlder(g, k, d)'
      PROVE  \E h \in LiveGens' : g <= h /\ mem'[h][k] >= d /\ SafeHit(kind, h, k, d)'
  <2>1. g \in LiveGens /\ HasOlder(g, k, d) /\ gen < g
    BY <1>2, <1>4, <1>5, <1>7
  <2>2. PICK h \in LiveGens : g <= h /\ mem[h][k] >= d /\ SafeHit(kind, h, k, d)
    BY <2>1 DEF LiveKeeps
  <2>3. h # gen
    <3>1. g \in Nat /\ h \in Nat /\ gen \in Nat
      BY <1>3, <2>1
    <3>2. QED
      BY <2>1, <2>2, <3>1
  <2>4. h \in LiveGens' /\ mem'[h][k] >= d /\ SafeHit(kind, h, k, d)'
    BY <1>2, <1>3, <1>5, <2>2, <2>3
  <2>5. QED
    BY <2>2, <2>4
<1>8. ASSUME \A g \in LiveGens' : ~ (mem'[g][k] >= d /\ SafeHit(kind, g, k, d)')
      PROVE  Fresh(k, FromTables(levels, k), d)'
  <2>1. \A g \in LiveGens : g # gen => ~ (mem[g][k] >= d /\ SafeHit(kind, g, k, d))
    BY <1>2, <1>4, <1>5, <1>8
  <2>2. CASE mem[gen][k] # 0 /\ mem[gen][k] >= d
    BY <1>2, <2>2 DEF OrElse, Fresh
  <2>3. CASE mem[gen][k] # 0 /\ mem[gen][k] < d
    <3>1. HasWrite(gen, k, mem[gen][k])
      BY <1>2, <1>3, <2>3 DEF LiveLogs
    <3>2. HasOlder(gen, k, d)
      BY <2>3, <3>1 DEF HasWrite, HasOlder
    <3>3. PICK h \in LiveGens : mem[h][k] >= d /\ SafeHit(kind, h, k, d)
      BY <1>3, <3>2 DEF LiveKeeps
    <3>4. h # gen
      BY <1>0, <1>6, <2>3, <3>3
    <3>5. QED
      BY <2>1, <3>3, <3>4
  <2>4. CASE mem[gen][k] = 0
    <3>1. FromTables(levels, k)' = r
      BY <1>2, <2>4 DEF OrElse
    <3>2. CASE d = 0
      BY <1>6, <3>1, <3>2 DEF Fresh
    <3>3. CASE d # 0
      <4>1. ~ (mem[gen][k] >= d)
        BY <1>0, <2>4, <3>3
      <4>2. \A g \in LiveGens : ~ (mem[g][k] >= d /\ SafeHit(kind, g, k, d))
        BY <2>1, <4>1
      <4>3. Fresh(k, r, d)
        BY <1>1, <4>2 DEF LiveKeeps
      <4>4. QED
        BY <1>2, <3>1, <4>3 DEF Fresh
    <3>4. QED
      BY <3>2, <3>3
  <2>5. QED
    BY <1>0, <1>6, <2>2, <2>3, <2>4
<1>9. QED
  BY <1>7, <1>8 DEF LiveKeeps

\* Once the re-appended MemTable is fsynced it keeps what the old logs kept.
LEMMA LiveRebacked ==
    ASSUME Inv, LogShape, LogsAccounted, ManifestLags, Reappended, [Next]_vars, Reback,
           NEW kind, NEW k \in Keys, NEW d \in 0 .. Len(ops),
           DiskKeeps(kind, k, d), ~ HasOlder(active, k, d)
    PROVE  LiveKeeps(kind, k, d)'
<1>1. /\ mode = "reback" /\ UNCHANGED <<walFiles, wlog, ops, mem, active, imms, levels>>
      /\ wos' = Drained(active) /\ wsync' = Synced(active)
  BY DEF Reback, sstVars, ghosts
<1>2. imms = {} /\ fl.pc = "free" /\ manifest = levels /\ LiveGens = {active} /\ LiveGens' = {active}
  BY <1>1 DEF Inv, Quiet, ManifestLags, LiveGens
<1>3. d \in Nat /\ active \in Seqs /\ active \in Nat /\ Len(wlog[active]) \in Nat
  BY <1>1, Numbers
<1>4. wos'[active] = Len(wlog[active]) /\ wsync'[active] = Len(wlog[active])
  BY <1>1, <1>3 DEF Drained, Synced, Inv, TypeOK, TypeDirectory
<1>5. /\ \A i \in Entries(active, k) : wlog[active][i] = mem[active][k]
      /\ (\E g \in stale : Entries(g, k) # {}) => Entries(active, k) # {}
  BY <1>1 DEF Reappended
<1>6. PICK a : a = active
  OBVIOUS
<1>7. ~ HasOlder(a, k, d)' /\ LiveGens' = {a}
  BY <1>1, <1>2, <1>5, <1>6 DEF HasOlder, Entries
<1>8. ASSUME ~ (mem'[a][k] >= d /\ SafeHit(kind, a, k, d)')
      PROVE  Fresh(k, FromTables(levels, k), d)'
  <2>1. Entries(active, k) = {}
    <3>1. SUFFICES ASSUME NEW i \in Entries(active, k) PROVE FALSE
      OBVIOUS
    <3>2. wlog[active][i] \in Nat
      <4>1. wlog[active] \in Seq(1 .. Len(ops)) /\ i \in 1 .. Len(wlog[active]) /\ Len(ops) \in Nat
        BY <1>3, Numbers DEF Inv, Issued, Entries
      <4>2. wlog[active][i] \in 1 .. Len(ops)
        BY <4>1, ElementOfSeq
      <4>3. QED
        BY <4>1, <4>2
    <3>3. wlog[active][i] >= d /\ mem[active][k] >= d
      BY <1>3, <1>5, <3>2 DEF HasOlder
    <3>4. i <= Len(wlog[active]) /\ i \in Entries(a, k)'
      BY <1>1, <1>3, <1>6 DEF Entries
    <3>5. SafeHit(kind, a, k, d)'
      BY <1>1, <1>4, <1>6, <3>3, <3>4 DEF SafeHit, Safe
    <3>6. QED
      BY <1>1, <1>6, <1>8, <3>3, <3>5
  <2>2. \A g \in walFiles : Entries(g, k) = {}
    BY <1>1, <1>5, <2>1 DEF LogsAccounted
  <2>4. PICK r : r = FromTables(levels, k)
    OBVIOUS
  <2>5. Fresh(k, r, d)
    BY <1>2, <2>2, <2>4 DEF DiskKeeps, SafeHit
  <2>6. FromTables(levels, k)' = r
    BY <1>1, <2>4, SameTables
  <2>7. r \in Nat
    <3>1. levels \in [Levels -> SUBSET Seqs]
      BY DEF Inv, TypeOK, TypeProcess
    <3>2. r \in 0 .. Len(ops)
      BY <2>4, <3>1, TablesType
    <3>3. QED
      BY <3>2
  <2>8. Fresh(k, r, d)'
    BY <1>3, <2>5, <2>7, FreshKept
  <2>9. QED
    BY <2>6, <2>8 DEF Fresh
<1>9. QED
  BY <1>7, <1>8 DEF LiveKeeps

\* open ends with the fsync of the re-appended MemTable and the deletions after it.
LEMMA OpenSteps ==
    ASSUME Inv, [Next]_vars, mode' \in {"clean", "up"}
    PROVE  Reback \/ mode \in {"clean", "up"}
<1>1. CASE UNCHANGED vars
  BY <1>1 DEF vars
<1>2. CASE WritePath
  BY <1>2 DEF WritePath, Write, WriteSyncFails, Apply, FlushSync, Rotate, RotateFails, Swap
<1>3. CASE FlushPipeline
  BY <1>3 DEF FlushPipeline, FlushBegin, FlushBuild, FlushBuildFails, FlushCommit,
     FlushNothing, FlushManifest, FlushManifestFails, FlushUnlink, FlushReturn
<1>4. CASE Compaction
  BY <1>4 DEF Compaction, CompactCaller, CompactBuild, CompactBuildFails, CompactNothing,
     CompactCommit, CompactManifest, CompactManifestFails, CompactUnlink, CompactReturn
<1>5. CASE Worker
  BY <1>5 DEF Worker, WorkerRecv, WorkerCheck
<1>6. CASE Lifecycle
  BY <1>6 DEF Lifecycle, Close, Crash, RebackFails, ProcessGone, Recover, CleanOld
<1>7. QED
  BY <1>1, <1>2, <1>3, <1>4, <1>5, <1>6 DEF Next

\* What memory keeps of a key, it keeps while the engine is up.
LEMMA LiveKeepsNext ==
    ASSUME Inv, DurableInv, LiveLogs', [Next]_vars,
           mode \in {"clean", "up"}, mode' \in {"clean", "up"},
           NEW kind \in PromiseKinds, NEW k \in Keys, NEW d \in 0 .. Len(ops), LiveKeeps(kind, k, d)
    PROVE  LiveKeeps(kind, k, d)'
<1>d. LogShape /\ LiveLogs /\ InHand
  BY DEF DurableInv
<1>1. mode # "down" /\ mode' # "down" /\ d \in Nat
  OBVIOUS
<1>2. CASE UNCHANGED <<mem, active, imms, levels>> \/ (CompactCommit /\ UNCHANGED <<mem, active, imms>>)
  <2>1. LiveGens' = LiveGens /\ (UNCHANGED levels \/ CompactCommit)
    BY <1>2 DEF LiveGens
  <2>2. \A g \in LiveGens : mem[g][k] >= d => mem'[g][k] >= d
    BY <1>2
  <2>3. QED
    BY <1>d, <1>1, <2>1, <2>2, LiveKept
<1>3. ASSUME NEW freeze \in BOOLEAN, Apply(freeze) PROVE LiveKeeps(kind, k, d)'
  <2>1. /\ wr.w = Len(ops) /\ LiveGens' = LiveGens /\ UNCHANGED levels
        /\ mem'[active][ops[wr.w].key] = wr.w
        /\ \A g \in Seqs, j \in Keys :
              ~ (g = active /\ j = ops[wr.w].key) => mem'[g][j] = mem[g][j]
    BY <1>d, <1>3, ApplyWrites DEF InHand
  <2>2. LiveGens \subseteq Seqs /\ Len(ops) \in Nat
    BY <1>1, Numbers
  <2>3. ASSUME NEW g \in LiveGens, mem[g][k] >= d PROVE mem'[g][k] >= d
    <3>1. CASE g = active /\ k = ops[wr.w].key
      <4>1. mem'[g][k] = Len(ops) /\ d <= Len(ops)
        BY <2>1, <3>1
      <4>2. QED
        BY <1>1, <2>2, <4>1
    <3>2. CASE ~ (g = active /\ k = ops[wr.w].key)
      BY <2>1, <2>2, <2>3, <3>2
    <3>3. QED
      BY <3>1, <3>2
  <2>4. QED
    BY <1>d, <1>1, <2>1, <2>3, LiveKept
<1>4. CASE Swap
  <2>1. PICK n : n = wr.new
    OBVIOUS
  <2>2. /\ LiveGens' = LiveGens \cup {n} /\ Entries(n, k)' = {} /\ UNCHANGED <<mem, levels>>
    BY <1>d, <1>4, <2>1, SwapAdds
  <2>3. \A g \in LiveGens' \ LiveGens : ~ HasOlder(g, k, d)'
    BY <2>2 DEF HasOlder
  <2>4. QED
    BY <1>d, <1>1, <2>2, <2>3, LiveKept
<1>5. CASE FlushCommit
  <2>1. QED
    BY <1>d, <1>5, LiveFlushed
<1>6. ~ Recover
  BY <1>1 DEF Recover
<1>7. QED
  BY <1>1, <1>2, <1>3, <1>4, <1>5, <1>6, MemorySteps

\* The generations in memory and the levels keep every promise.
LEMMA LivePromisesNext ==
    ASSUME Inv, Inv', DurableInv, LiveLogs', PromisedIssued', [Next]_vars
    PROVE  LivePromises'
<1>d. /\ LogShape /\ LiveLogs /\ InHand /\ PromisedIssued /\ TodoOlder /\ LogsAccounted
      /\ ManifestLags /\ SnapFlushed /\ Reappended /\ DiskPromises /\ LivePromises
  BY DEF DurableInv
<1>0. SUFFICES ASSUME mode' \in {"clean", "up"}, NEW kind \in PromiseKinds, NEW k \in Keys
               PROVE  LiveKeeps(kind, k, Owed(kind, k))'
  BY DEF LivePromises, PromiseKinds
<1>h. ASSUME NEW d, Owed(kind, k)' = d, LiveKeeps(kind, k, d)'
      PROVE  LiveKeeps(kind, k, Owed(kind, k))'
  BY <1>h DEF LiveKeeps, HasOlder, SafeHit, Fresh
<1>1. PICK d : d = Owed(kind, k)'
  OBVIOUS
<1>2. kind \in {"power", "kill"}
  BY DEF PromiseKinds
<1>t. durable'[k] \in 0 .. Len(ops')
  <2>1. durable'[k] \in Ids /\ Ids \subseteq Nat
    BY BasicSets DEF Inv, TypeOK, TypeHistory, Table
  <2>2. ops' \in Seq([key : Keys, del : BOOLEAN]) /\ durable'[k] <= Len(ops')
    BY DEF Inv, TypeOK, TypeHistory, PromisedIssued
  <2>3. durable'[k] \in Nat
    BY <2>1
  <2>4. Len(ops') \in Nat
    BY <2>2
  <2>5. QED
    BY <2>2, <2>3, <2>4
<1>3. CASE Reback
  <2>1. d = Owed(kind, k)
    BY <1>1, <1>3 DEF Reback, ghosts, Owed
  <2>2. mode = "reback" /\ d \in 0 .. Len(ops) /\ DiskKeeps(kind, k, d) /\ ~ HasOlder(active, k, d)
    BY <1>d, <1>3, <2>1, OwedType DEF Reback, DiskPromises, Reappended
  <2>3. LiveKeeps(kind, k, d)'
    BY <1>d, <1>3, <2>2, LiveRebacked
  <2>4. QED
    BY <1>h, <1>1, <2>3
<1>4. ASSUME mode \in {"clean", "up"}, d \in 0 .. Len(ops), LiveKeeps(kind, k, d)
      PROVE  LiveKeeps(kind, k, Owed(kind, k))'
  <2>1. LiveKeeps(kind, k, d)'
    BY <1>0, <1>4, LiveKeepsNext
  <2>2. QED
    BY <1>h, <1>1, <2>1
<1>5. CASE mode \in {"clean", "up"} /\ d = Owed(kind, k)
  <2>1. d \in 0 .. Len(ops) /\ LiveKeeps(kind, k, d)
    BY <1>d, <1>5, OwedType DEF LivePromises
  <2>2. QED
    BY <1>4, <1>5, <2>1
<1>6. CASE mode \in {"clean", "up"} /\ d # Owed(kind, k)
  <2>1. CASE FlushReturn /\ UNCHANGED closed
    <3>1. kind = "power" /\ durable'[k] = d /\ durable'[k] # durable[k]
      BY <1>1, <1>2, <1>6, <2>1 DEF Owed
    <3>2. /\ fl.pc = "ok" /\ fl.by \in Clients /\ d = snap[fl.by][k] /\ ops' = ops
      BY <2>1, <3>1, FlushReturnSteps
    <3>3. LiveKeeps(kind, k, d)
      BY <1>d, <3>2, FlushedKeeps
    <3>4. d \in 0 .. Len(ops)
      BY <1>t, <3>1, <3>2
    <3>5. QED
      BY <1>4, <1>6, <3>3, <3>4
  <2>2. ASSUME UNCHANGED closed, Swap \/ \E freeze \in BOOLEAN : Apply(freeze)
        PROVE  /\ kind = "power" /\ d \in 0 .. Len(ops) /\ d = wr.w /\ k = ops[d].key
               /\ SafeHit(kind, active, k, d) /\ (Swap => mem[active][k] = d)
               /\ active \in LiveGens /\ \A g \in LiveGens : g <= active
    <3>1. kind = "power" /\ durable'[k] = d /\ durable'[k] # durable[k]
      BY <1>1, <1>2, <1>6, <2>2 DEF Owed
    <3>2. /\ SyncPerWrite /\ wr.pc # "free" /\ wr.by = "put" /\ d = wr.w /\ k = ops[d].key
          /\ ops' = ops
      BY <2>2, <3>1, AcknowledgeSteps
    <3>3. d \in 0 .. Len(ops)
      BY <1>t, <3>1, <3>2
    <3>4. SafeHit(kind, active, k, d) /\ (Swap => mem[active][k] = d)
      BY <1>d, <3>1, <3>2 DEF InHand, Swap
    <3>5. active \in LiveGens /\ \A g \in LiveGens : g <= active
      BY <1>6, Numbers DEF LiveGens
    <3>6. QED
      BY <3>1, <3>2, <3>3, <3>4, <3>5
  <2>3. CASE Swap /\ UNCHANGED closed
    <3>1. d \in Nat /\ d >= d
      BY <2>2, <2>3
    <3>2. LiveKeeps(kind, k, d)
      BY <2>2, <2>3, <3>1 DEF LiveKeeps
    <3>3. QED
      BY <1>4, <1>6, <2>2, <2>3, <3>2
  <2>4. ASSUME UNCHANGED closed, NEW freeze \in BOOLEAN, Apply(freeze)
        PROVE  LiveKeeps(kind, k, Owed(kind, k))'
    <3>1. PICK a : a = active
      OBVIOUS
    <3>2. /\ kind = "power" /\ d \in 0 .. Len(ops) /\ d = wr.w /\ k = ops[d].key
          /\ SafeHit(kind, a, k, d)
          /\ a \in LiveGens /\ \A g \in LiveGens : g <= a
      BY <2>2, <2>4, <3>1
    <3>3. /\ LiveGens' = LiveGens /\ mem'[a][k] = d
          /\ UNCHANGED <<wlog, wos, wsync, ops>>
      BY <2>4, <3>1, <3>2, ApplyWrites
    <3>4. SafeHit(kind, a, k, d)'
      BY <3>2, <3>3 DEF SafeHit, Safe, Entries
    <3>5. d >= d
      BY <3>2
    <3>6. LiveKeeps(kind, k, d)'
      BY <3>2, <3>3, <3>4, <3>5 DEF LiveKeeps
    <3>7. QED
      BY <1>h, <1>1, <3>6
  <2>5. ~ Close
    BY <1>0 DEF Close, ProcessGone
  <2>6. ~ UNCHANGED <<durable, closed>>
    BY <1>1, <1>6 DEF Owed
  <2>7. QED
    BY <2>1, <2>3, <2>4, <2>5, <2>6, PromiseSteps
<1>7. QED
  BY <1>0, <1>3, <1>5, <1>6, OpenSteps

-----------------------------------------------------------------------------
(* The invariant and the theorems.                                         *)

\* Nothing has been written, promised or deleted at first.
LEMMA DurableInit == Init => DurableInv
<1> SUFFICES ASSUME Init PROVE DurableInv
  OBVIOUS
<1>0. /\ walFiles = {} /\ wlog = [g \in Seqs |-> << >>]
      /\ wos = [g \in Seqs |-> 0] /\ wsync = [g \in Seqs |-> 0]
      /\ mode = "down" /\ imms = {} /\ active = 0 /\ stale = {}
      /\ wr.pc = "free" /\ fl.pc = "free" /\ fl.todo = {}
      /\ calls = [c \in Clients |-> "idle"] /\ ops = << >>
      /\ gone = EmptyTable /\ durable = EmptyTable /\ closed = EmptyTable /\ acked = EmptyTable
      /\ snap = [c \in Clients |-> EmptyTable]
      /\ manifest = NoTables
  BY DEF Init, WrFree, FlFree
<1>1. LogShape
  BY <1>0 DEF LogShape
<1>2. LiveLogs /\ InHand /\ AppliedHeld /\ LivePromises /\ Reappended /\ ManifestLags
  BY <1>0 DEF LiveLogs, InHand, AppliedHeld, LivePromises, Reappended, ManifestLags
<1>3. PromisedIssued
  BY <1>0 DEF PromisedIssued, EmptyTable
<1>4. CallsInOrder /\ TodoOlder /\ LogsAccounted
  BY <1>0 DEF CallsInOrder, TodoOlder, LogsAccounted, NoStrayWal
<1>5. SnapHeld /\ SnapFlushed
  BY <1>0 DEF SnapHeld, SnapFlushed
<1>6. DiskPromises
  <2>1. SUFFICES ASSUME NEW kind \in PromiseKinds, NEW k \in Keys
                 PROVE  DiskKeeps(kind, k, Owed(kind, k))
    BY DEF DiskPromises
  <2>2. Owed(kind, k) = 0
    BY <1>0 DEF Owed, EmptyTable
  <2>3. FromTables(manifest, k) \in 0 .. Len(ops) /\ Len(ops) = 0
    <3>1. Inv
      BY InvInit
    <3>2. QED
      BY <1>0, <3>1, TablesType DEF Inv, TypeOK, TypeDirectory
  <2>4. FromTables(manifest, k) = 0
    BY <2>3
  <2>5. QED
    BY <1>0, <2>2, <2>4 DEF DiskKeeps, Fresh
<1>7. QED
  BY <1>1, <1>2, <1>3, <1>4, <1>5, <1>6 DEF DurableInv

\* Every step preserves the invariant.
LEMMA DurableNext ==
    ASSUME NoLosingFaults, Inv, DurableInv, [Next]_vars PROVE DurableInv'
<1>0. Inv'
  BY InvNext
<1>d. /\ LogShape /\ LiveLogs /\ InHand /\ PromisedIssued /\ CallsInOrder /\ TodoOlder
      /\ LogsAccounted /\ ManifestLags
      /\ AppliedHeld /\ SnapHeld /\ SnapFlushed /\ Reappended
      /\ DiskPromises /\ LivePromises
  BY DEF DurableInv
<1>1. LogShape'
  BY <1>d, LogShapeNext
<1>2. LiveLogs'
  BY <1>0, LiveLogsNext
<1>3. InHand'
  BY <1>0, <1>d, <1>2, InHandNext
<1>4. PromisedIssued'
  BY <1>0, <1>d, PromisedIssuedNext
<1>5. CallsInOrder'
  BY <1>d, CallsInOrderNext
<1>6. TodoOlder'
  BY <1>d, TodoOlderNext
<1>7. LogsAccounted'
  BY <1>d, LogsAccountedNext
<1>8. ManifestLags'
  BY <1>d, ManifestLagsNext
<1>9. AppliedHeld'
  BY <1>0, <1>d, <1>2, AppliedHeldNext
<1>10. SnapHeld'
  BY <1>0, <1>d, <1>2, SnapHeldNext
<1>11. SnapFlushed'
  BY <1>0, <1>d, <1>2, <1>5, SnapFlushedNext
<1>12. Reappended'
  BY <1>d, ReappendedNext
<1>13. DiskPromises'
  BY <1>0, <1>2, <1>4, <1>12, DiskPromisesNext
<1>14. LivePromises'
  BY <1>0, <1>2, <1>4, LivePromisesNext
<1>15. QED
  BY <1>1, <1>2, <1>3, <1>4, <1>5, <1>6, <1>7, <1>8, <1>9, <1>10, <1>11, <1>12, <1>13, <1>14
     DEF DurableInv

\* The whole durability invariant holds in every reachable state of an engine whose
\* WALs can be deleted and whose tables and MANIFEST can be written.
THEOREM DurableInvCorrect == ASSUME NoLosingFaults PROVE Spec => [](Inv /\ DurableInv)
<1>1. Init => Inv /\ DurableInv
  BY InvInit, DurableInit
<1>2. Inv /\ DurableInv /\ [Next]_vars => Inv' /\ DurableInv'
  BY InvNext, DurableNext
<1>3. QED
  BY <1>1, <1>2, PTL DEF Spec

\* What was promised is what open finds.
LEMMA PromisesFound == Inv /\ DurableInv => PromisesKept
<1> SUFFICES ASSUME Inv, DurableInv, NEW k \in Keys PROVE Fresh(k, Recovered(k), durable[k])
  BY DEF PromisesKept
<1>2. "power" \in PromiseKinds /\ Owed("power", k) = durable[k]
  BY DEF PromiseKinds, Owed
<1>3. DiskKeeps("power", k, durable[k]) /\ LogShape /\ durable[k] \in Nat
  BY <1>2, OwedType DEF DurableInv, DiskPromises
<1>4. QED
  BY <1>3, OpenKeeps

\* Whatever flush(), or a put with sync_per_write, has promised is recovered by an
\* open at any moment, after any number of crashes: PromisesKept.
THEOREM PromisesAreKept == ASSUME NoLosingFaults PROVE Spec => []PromisesKept
  BY PromisesFound, DurableInvCorrect, PTL

\* So is what was acknowledged, with sync_per_write.
LEMMA AcknowledgedFound == ASSUME SyncPerWrite PROVE Inv /\ DurableInv => AcknowledgedKept
<1> SUFFICES ASSUME Inv, DurableInv, NEW k \in Keys PROVE Fresh(k, Recovered(k), acked[k])
  BY DEF AcknowledgedKept
<1>2. "power" \in PromiseKinds /\ Owed("power", k) = durable[k]
  BY DEF PromiseKinds, Owed
<1>3. DiskKeeps("power", k, durable[k]) /\ LogShape /\ durable[k] \in Nat
  BY <1>2, OwedType DEF DurableInv, DiskPromises
<1>4. Fresh(k, Recovered(k), durable[k])
  BY <1>3, OpenKeeps
<1>5. acked[k] <= durable[k]
  BY DEF DurableInv, PromisedIssued
<1>6. acked[k] \in Nat /\ gone[k] \in Nat /\ Recovered(k) \in Nat
  <2>1. Ids \subseteq Nat /\ acked[k] \in Ids /\ gone[k] \in Ids
    BY BasicSets DEF Inv, TypeOK, TypeHistory, Table
  <2>2. Len(ops) \in Nat /\ wlog \in [Seqs -> Seq(1 .. Len(ops))] /\ TypeDirectory
    BY Numbers DEF Inv, Issued, TypeOK
  <2>3. Replayed(k) \in 0 .. Len(ops)
    BY <2>2, ReplayedType
  <2>4. FromTables(manifest, k) \in 0 .. Len(ops)
    BY <2>2, TablesType DEF TypeDirectory
  <2>5. Recovered(k) \in 0 .. Len(ops)
    BY <2>3, <2>4, RecoveredIs DEF OrElse
  <2>6. acked[k] \in Nat /\ gone[k] \in Nat
    BY <2>1
  <2>7. QED
    BY <2>2, <2>5, <2>6
<1>7. QED
  BY <1>3, <1>4, <1>5, <1>6 DEF Fresh

\* With sync_per_write every write whose put or delete returned Ok is recovered:
\* AcknowledgedKept.
THEOREM AcknowledgedAreKept ==
    ASSUME NoLosingFaults, SyncPerWrite PROVE Spec => []AcknowledgedKept
  BY AcknowledgedFound, DurableInvCorrect, PTL

\* When only processes die and the machine does not, every write applied before a
\* clean drop is recovered: DropKept.
THEOREM DropIsKept ==
    ASSUME NoLosingFaults, CrashKinds \subseteq {"kill"} PROVE Spec => []DropKept
<1>1. Inv /\ DurableInv => DropKept
  <2> SUFFICES ASSUME Inv, DurableInv, NEW k \in Keys PROVE Fresh(k, Recovered(k), closed[k])
    BY DEF DropKept
  <2>2. "kill" \in PromiseKinds /\ Owed("kill", k) = closed[k]
    BY DEF PromiseKinds, Owed
  <2>3. DiskKeeps("kill", k, closed[k]) /\ LogShape /\ closed[k] \in Nat
    BY <2>2, OwedType DEF DurableInv, DiskPromises
  <2>4. QED
    BY <2>3, OpenKeeps
<1>2. QED
  BY <1>1, DurableInvCorrect, PTL

\* A log on disk belongs to a MemTable in memory or is about to be deleted:
\* NoStrayWal.
THEOREM NoWalIsStray == ASSUME NoLosingFaults PROVE Spec => []NoStrayWal
<1>1. DurableInv => NoStrayWal
  BY DEF DurableInv, LogsAccounted
<1>2. QED
  BY <1>1, DurableInvCorrect, PTL

\* When flush() returns Ok the MANIFEST lists the live levels: ManifestCurrent.
THEOREM ManifestIsCurrent == ASSUME NoLosingFaults PROVE Spec => []ManifestCurrent
<1>1. Inv /\ DurableInv => ManifestCurrent
  BY DEF Inv, Quiet, DurableInv, ManifestLags, ManifestCurrent
<1>2. QED
  BY <1>1, DurableInvCorrect, PTL
=============================================================================
