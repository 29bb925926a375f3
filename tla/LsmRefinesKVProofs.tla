-------------------------- MODULE LsmRefinesKVProofs --------------------------
(***************************************************************************)
(* When only processes die, a stop loses a suffix of the writes, and the   *)
(* engine implements the store of KVStore, for every value of the          *)
(* constants.  The durability invariant says what is kept of a promise;    *)
(* here the same is said of every write that has left the buffer of the    *)
(* active WAL, and the buffer is shown to hold the newest writes.          *)
(***************************************************************************)
EXTENDS LsmRefinesKVInv, LsmPromisesProofs

-----------------------------------------------------------------------------
(* What is kept stays kept.                                                *)

LEMMA KillIsPromised == ASSUME OnlyProcessesDie PROVE "kill" \in PromiseKinds
  BY DEF OnlyProcessesDie, PromiseKinds

\* Every step keeps what a stop would leave of a key, whichever write that is.
LEMMA KeptNext ==
    ASSUME NoLosingFaults, OnlyProcessesDie, Inv, DurableInv, DurableInv', [Next]_vars,
           NEW k \in Keys, NEW d \in 0 .. Len(ops), Kept(k, d)
    PROVE  Kept(k, d)'
<1>d. LogShape /\ LogsAccounted /\ ManifestLags /\ Reappended /\ LiveLogs' /\ "kill" \in PromiseKinds
  BY KillIsPromised DEF DurableInv
<1>0. d \in Nat
  OBVIOUS
<1>1. DiskKeeps("kill", k, d) /\ DiskKeeps("kill", k, d)'
  BY <1>d, DiskKeepsNext DEF Kept
<1>2. ASSUME mode' = "reback" PROVE ~ HasOlder(active, k, d)'
  <2>1. CASE Recover
    BY <1>0, <1>d, <1>1, <2>1, RecoveredNotOlder
  <2>2. CASE mode = "reback" /\ UNCHANGED <<wlog, active, ops>>
    BY <2>2 DEF Kept, HasOlder, Entries
  <2>3. QED
    BY <1>2, <2>1, <2>2, RebackSteps
<1>3. ASSUME mode' \in {"clean", "up"} PROVE LiveKeeps("kill", k, d)'
  <2>1. CASE Reback
    <3>1. ~ HasOlder(active, k, d)
      BY <2>1 DEF Reback, Kept
    <3>2. QED
      BY <1>d, <1>1, <2>1, <3>1, LiveRebacked
  <2>2. CASE mode \in {"clean", "up"}
    BY <1>d, <1>3, <2>2, LiveKeepsNext DEF Kept
  <2>3. QED
    BY <1>3, <2>1, <2>2, OpenSteps
<1>4. QED
  BY <1>1, <1>2, <1>3 DEF Kept

\* While the engine is up, no log with an entry is newer than the active one.
LEMMA ActiveIsLast ==
    ASSUME Inv, DurableInv, mode = "up", NEW g \in walFiles, NEW k, Entries(g, k) # {}
    PROVE  g <= active
<1>1. /\ \A h \in LiveGens : h <= active
      /\ \A s \in Seqs : s \in Nat
      /\ walFiles \subseteq Seqs /\ active \in Nat
  BY Numbers
<1>2. CASE g \in LiveGens
  BY <1>1, <1>2
<1>3. CASE g \in fl.todo
  <2>1. g < active /\ g \in Nat
    BY <1>1, <1>3 DEF DurableInv, TodoOlder, LiveGens
  <2>2. QED
    BY <1>1, <2>1
<1>4. CASE wr.pc = "swap" /\ g = wr.new
  <2>1. wlog[g] = << >>
    BY <1>4 DEF DurableInv, LiveLogs
  <2>2. QED
    BY <2>1 DEF Entries
<1>5. QED
  BY <1>2, <1>3, <1>4 DEF DurableInv, LogsAccounted, NoStrayWal, LiveGens

\* An entry of the active log that has left the buffer, and is in the MemTable if
\* the engine goes on, is kept.
LEMMA HandedIsKept ==
    ASSUME Inv, DurableInv, DurableInv', [Next]_vars, mode = "up", mode' \in {"up", "down"},
           UNCHANGED walFiles, NEW k \in Keys, NEW w \in 0 .. Len(ops), NEW a, a = active,
           NEW i \in Entries(a, k)', wlog'[a][i] = w, i <= wos'[a],
           mode' = "up" => a \in LiveGens' /\ mem'[a][k] >= w
    PROVE  Kept(k, w)'
<1>d. LogShape /\ LiveLogs /\ LiveLogs'
  BY DEF DurableInv
<1>1. w >= w /\ a \in walFiles /\ a \in walFiles'
  BY <1>d DEF LiveLogs, LiveGens
<1>2. SafeHit("kill", a, k, w)'
  BY <1>1 DEF SafeHit, Safe
<1>3. ASSUME NEW g \in walFiles', HasOlder(g, k, w)' PROVE g <= a
  <2>1. HasOlder(g, k, w)
    BY <1>d, <1>3, LogKept
  <2>2. Entries(g, k) # {}
    BY <2>1 DEF HasOlder
  <2>3. QED
    BY <2>2, ActiveIsLast
<1>4. DiskKeeps("kill", k, w)'
  BY <1>1, <1>2, <1>3 DEF DiskKeeps
<1>5. ASSUME mode' = "up" PROVE LiveKeeps("kill", k, w)'
  <2>1. LiveGens' \subseteq walFiles'
    BY <1>d, <1>5 DEF LiveLogs
  <2>2. QED
    BY <1>2, <1>3, <1>5, <2>1 DEF LiveKeeps
<1>6. QED
  BY <1>4, <1>5 DEF Kept

-----------------------------------------------------------------------------
(* The buffer of the active WAL.                                           *)

\* A step that leaves the active generation alone, and so the writes and the answers.
StaysPut ==
    /\ UNCHANGED <<mode, active, ops, kv>> /\ mem'[active] = mem[active]
    /\ wr.pc = "apply" \/ wr'.pc = "apply" => wr' = wr
    /\ UNCHANGED <<wlog, wos>> \/ \E m \in Seqs : UnlinkWal(m) /\ m # active

\* The steps of an engine that is up.
LEMMA UpSteps ==
    ASSUME OnlyProcessesDie, Inv, DurableInv, [Next]_vars, mode = "up"
    PROVE  \/ \E k \in Keys, del \in BOOLEAN : Write(k, del) \/ WriteSyncFails(k, del)
           \/ \E freeze \in BOOLEAN : Apply(freeze)
           \/ \E c \in Clients : FlushSync(c)
           \/ Swap \/ Close \/ Crash("kill") \/ StaysPut
<1>0. active \in LiveGens /\ active \in Seqs /\ fl.todo \subseteq Seqs /\ mem \in [Seqs -> Table]
  BY Numbers DEF LiveGens, Inv, TypeOK, TypeProcess
<1>1. CASE UNCHANGED vars
  BY <1>1 DEF vars, StaysPut
<1>2. CASE Rotate \/ RotateFails
  <2>1. wr \in WrType /\ wr.pc = "rotate"
    BY <1>2 DEF Rotate, RotateFails, Inv, TypeOK, TypeProcess
  <2>2. wr'.pc # "apply"
    <3>1. CASE Rotate
      <4>1. wr' = [wr EXCEPT !.pc = "swap", !.new = nextSeq]
        BY <3>1 DEF Rotate
      <4>2. wr'.pc = "swap"
        BY <2>1, <4>1 DEF WrType
      <4>3. QED
        BY <4>2
    <3>2. CASE RotateFails
      BY <3>2 DEF RotateFails, WrFree
    <3>3. QED
      BY <1>2, <3>1, <3>2
  <2>3. QED
    BY <1>2, <2>1, <2>2 DEF Rotate, RotateFails, StaysPut, walVars, ghosts
<1>3. CASE FlushPipeline
  <2>1. CASE FlushUnlink
    <3>1. Min(fl.todo) \in fl.todo /\ Min(fl.todo) < active
      BY <1>0, <2>1, UnlinkedIsNotLive
    <3>2. Min(fl.todo) \in Seqs /\ Min(fl.todo) # active
      <4>1. active \in Nat /\ \A s \in Seqs : s \in Nat
        BY Numbers
      <4>2. QED
        BY <1>0, <3>1, <4>1
    <3>3. UnlinkWal(Min(fl.todo)) \/ UNCHANGED <<wlog, wos>>
      BY <2>1 DEF FlushUnlink, OldestGen, walVars
    <3>4. UNCHANGED <<mode, active, ops, kv, mem, wr>>
      BY <2>1 DEF FlushUnlink, ghosts
    <3>5. QED
      BY <3>2, <3>3, <3>4 DEF StaysPut
  <2>2. CASE FlushCommit
    <3>1. fl.gen \in imms /\ fl.gen \in Seqs /\ fl.gen # active
      <4>1. fl.gen \in imms /\ fl.gen \in Seqs /\ fl.gen < active
        BY <2>2, Numbers, FlushedTables DEF FlushCommit, Inv, FlushInFlight
      <4>2. active \in Nat
        BY Numbers
      <4>3. QED
        BY <4>1, <4>2
    <3>2. mem'[active] = mem[active]
      BY <1>0, <2>2, <3>1 DEF FlushCommit
    <3>3. QED
      BY <2>2, <3>2 DEF FlushCommit, StaysPut, dirVars, ghosts
  <2>3. CASE FlushBuild
    BY <2>3 DEF FlushBuild, StaysPut, walVars, ghosts
  <2>4. CASE FlushPipeline /\ ~ FlushUnlink /\ ~ FlushCommit /\ ~ FlushBuild
    <3>1. UNCHANGED <<mode, active, ops, kv, mem, wr, wlog, wos>>
      BY <2>4 DEF FlushPipeline, FlushBegin, FlushBuildFails,
         FlushNothing, FlushManifest, FlushManifestFails, FlushReturn, dirVars, walVars, ghosts
    <3>2. QED
      BY <3>1 DEF StaysPut
  <2>5. QED
    BY <1>3, <2>1, <2>2, <2>3, <2>4
<1>4. CASE Compaction
  <2>1. UNCHANGED <<mode, active, ops, kv, mem, wr, wlog, wos>>
    BY <1>4 DEF Compaction, CompactBuild, CompactBuildFails, CompactNothing,
       CompactCommit, CompactManifest, CompactManifestFails, CompactUnlink, CompactReturn,
       dirVars, walVars, ghosts
  <2>2. QED
    BY <2>1 DEF StaysPut
<1>5. CASE Worker
  BY <1>5 DEF Worker, WorkerRecv, WorkerCheck, dirVars, ghosts, StaysPut
<1>6. CASE Lifecycle
  BY <1>6 DEF Lifecycle, Recover, Reback, RebackFails, CleanOld, OnlyProcessesDie
<1>7. QED
  BY <1>1, <1>2, <1>3, <1>4, <1>5, <1>6 DEF Next, WritePath

\* The steps of an engine that is not.
LEMMA DownSteps ==
    ASSUME OnlyProcessesDie, Inv, [Next]_vars, mode # "up"
    PROVE  \/ UNCHANGED <<mode, active, walFiles, wlog, wos, sst, manifest, ops, kv, gone, mem, acked>>
           \/ Recover \/ Reback \/ RebackFails \/ CleanOld
           \/ Crash("kill") /\ mode # "down"
<1>0. wr.pc = "free" /\ fl.pc = "free"
  BY DEF Inv, Quiet
<1>1. CASE UNCHANGED vars
  BY <1>1 DEF vars
<1>2. CASE WritePath
  BY <1>0, <1>2 DEF WritePath, Write, WriteSyncFails, Apply, FlushSync, Rotate, RotateFails, Swap
<1>3. CASE FlushPipeline
  BY <1>0, <1>3 DEF FlushPipeline, FlushBegin, FlushBuild, FlushBuildFails, FlushCommit,
     FlushNothing, FlushManifest, FlushManifestFails, FlushUnlink, FlushReturn
<1>4. CASE Compaction
  BY <1>0, <1>4 DEF Compaction, CompactCaller, CompactBuild, CompactBuildFails, CompactNothing,
     CompactCommit, CompactManifest, CompactManifestFails, CompactUnlink, CompactReturn
<1>5. CASE Worker
  BY <1>5 DEF Worker, WorkerRecv, WorkerCheck, dirVars, ghosts
<1>6. CASE Lifecycle
  BY <1>6 DEF Lifecycle, Close, Crash, OnlyProcessesDie
<1>7. QED
  BY <1>1, <1>2, <1>3, <1>4, <1>5, <1>6 DEF Next

\* All but the active log has been handed to the operating system.
LEMMA AllHandedNext ==
    ASSUME OnlyProcessesDie, Inv, DurableInv, AllHanded, [Next]_vars PROVE AllHanded'
<1>0. SUFFICES ASSUME NEW g \in Seqs, wos'[g] # Len(wlog'[g])
               PROVE  g = active' /\ mode' \in {"reback", "up"}
  BY DEF AllHanded
<1>t. /\ wos \in [Seqs -> Nat] /\ wlog \in [Seqs -> Seq(1 .. MaxWrites)] /\ TypeOK
      /\ mode # "down" => active \in Seqs
  BY Numbers DEF Inv, TypeOK, TypeDirectory
<1>a. wos[g] # Len(wlog[g]) => g = active /\ mode \in {"reback", "up"}
  BY DEF AllHanded
<1>h. ASSUME wos' = Drained(active), UNCHANGED wlog, mode # "down" PROVE FALSE
  <2>1. CASE g = active
    BY <1>0, <1>h, <1>t, <2>1 DEF Drained
  <2>2. CASE g # active
    BY <1>0, <1>a, <1>h, <1>t, <2>2 DEF Drained
  <2>3. QED
    BY <2>1, <2>2
<1>u. ASSUME NEW m, UnlinkWal(m) PROVE UNCHANGED wlog[g] /\ UNCHANGED wos[g]
  BY <1>0, <1>t, <1>u, LogUnlinked
<1>c. ASSUME Crash("kill") PROVE FALSE
  BY <1>0, <1>t, <1>c, CrashLeaves
<1>1. CASE mode = "up"
  <2>1. ASSUME NEW k \in Keys, NEW del \in BOOLEAN, Write(k, del) \/ WriteSyncFails(k, del)
        PROVE  g = active /\ UNCHANGED <<active, mode>>
    <3>1. UNCHANGED <<active, mode>>
      BY <2>1 DEF Write, WriteSyncFails
    <3>2. CASE g # active
      <4>1. wlog'[g] = wlog[g] /\ wos'[g] = wos[g]
        BY <1>1, <1>t, <2>1, <3>2 DEF Write, WriteSyncFails, Logged
      <4>2. QED
        BY <1>0, <1>a, <3>2, <4>1
    <3>3. QED
      BY <3>1, <3>2
  <2>2. ASSUME NEW freeze \in BOOLEAN, Apply(freeze) PROVE UNCHANGED <<wlog, wos, active, mode>>
    BY <1>1, <2>2, ApplyWrites
  <2>3. ASSUME NEW c \in Clients, FlushSync(c) PROVE FALSE
    BY <1>h, <1>1, <2>3 DEF FlushSync
  <2>4. ~ Swap
    BY <1>h, <1>1 DEF Swap
  <2>5. ~ Close
    BY <1>h, <1>1 DEF Close
  <2>6. StaysPut => UNCHANGED <<active, mode>> /\ UNCHANGED wlog[g] /\ UNCHANGED wos[g]
    BY <1>u DEF StaysPut
  <2>7. QED
    BY <1>0, <1>a, <1>c, <1>1, <2>1, <2>2, <2>3, <2>4, <2>5, <2>6, UpSteps
<1>2. CASE mode # "up"
  <2>1. CASE Recover
    <3>1. active' \notin walFiles /\ mode' = "reback" /\ wos' = wos
      BY <2>1, RecoverLog DEF DurableInv, Recover
    <3>2. g # active' => wlog'[g] = wlog[g]
      BY <1>t, <2>1 DEF Recover
    <3>3. mode = "down"
      BY <2>1 DEF Recover
    <3>4. QED
      BY <1>0, <1>a, <3>1, <3>2, <3>3
  <2>2. ~ Reback /\ ~ RebackFails
    BY <1>h DEF Reback, RebackFails
  <2>3. ~ CleanOld
    <3>1. SUFFICES ASSUME CleanOld PROVE FALSE
      OBVIOUS
    <3>2. mode = "clean" /\ (UNCHANGED <<wlog, wos>> \/ \E m : UnlinkWal(m))
      BY <3>1 DEF CleanOld, walVars
    <3>3. QED
      BY <1>0, <1>a, <1>u, <3>2
  <2>4. QED
    BY <1>0, <1>a, <1>c, <1>2, <2>1, <2>2, <2>3, DownSteps
<1>3. QED
  BY <1>1, <1>2

\* Where the entries of tables come from: a frozen MemTable or other tables.
LEMMA TableSteps ==
    ASSUME Inv, [Next]_vars, NEW l \in Levels, NEW s \in Seqs, NEW k \in Keys
    PROVE  \/ sst'[l][s][k] = 0
           \/ \E g \in imms : sst'[l][s][k] = mem[g][k]
           \/ \E m \in Levels, n \in Seqs : sst'[l][s][k] = sst[m][n][k]
<1>t. sst \in [Levels -> [Seqs -> Table]] /\ levels \in [Levels -> SUBSET Seqs]
  BY DEF Inv, TypeOK, TypeDirectory, TypeProcess
<1>h. ASSUME NEW m \in Levels, NEW n, NEW u, sst' = [sst EXCEPT ![m][n] = u]
      PROVE  sst'[l][s] = sst[l][s] \/ sst'[l][s] = u
  BY <1>t, <1>h
<1>0. 0 \in Levels /\ 1 \in Levels
  BY DEF Levels
<1>1. CASE UNCHANGED sst
  BY <1>1
<1>2. CASE FlushBuild
  <2>1. Min(imms) \in imms
    <3>1. imms # {} /\ imms \subseteq Nat
      BY <1>2, Numbers DEF FlushBuild
    <3>2. QED
      BY <3>1, MinOfNats
  <2>2. sst'[l][s] = sst[l][s] \/ sst'[l][s] = mem[Min(imms)]
    BY <1>h, <1>0, <1>2 DEF FlushBuild, FirstFrozen
  <2>3. QED
    BY <2>1, <2>2
<1>3. ASSUME NEW p, CompactBuild(p)
      PROVE  sst'[l][s] = sst[l][s] \/ sst'[l][s] = Merged(levels)
  <2>1. UNCHANGED sst \/ sst' = [sst EXCEPT ![1][nextSeq] = Merged(levels)]
    BY <1>3 DEF CompactBuild
  <2>2. QED
    BY <1>h, <1>0, <2>1
<1>4. Merged(levels)[k] = 0 \/ \E m \in Levels, n \in Seqs : Merged(levels)[k] = sst[m][n][k]
  <2>1. Merged(levels)[k] = 0 \/ Merged(levels)[k] = Winner(levels, k)
    BY DEF Merged, Value
  <2>2. CASE RunsWith(levels, k) = {}
    BY <2>1, <2>2 DEF Winner
  <2>3. CASE RunsWith(levels, k) # {}
    <3>1. \E m \in Levels, n \in Seqs : Winner(levels, k) = sst[m][n][k]
      BY <1>t, <2>3, WinnerIs DEF RunsWith, Runs
    <3>2. QED
      BY <2>1, <3>1
  <2>4. QED
    BY <2>2, <2>3
<1>5. ASSUME NEW m \in Levels, CompactUnlink(m)
      PROVE  sst'[l][s] = sst[l][s] \/ sst'[l][s] = EmptyTable
  BY <1>h, <1>5 DEF CompactUnlink
<1>6. \/ UNCHANGED sst \/ FlushBuild \/ (\E p : CompactBuild(p))
      \/ \E m \in Levels : CompactUnlink(m)
  <2>1. CASE UNCHANGED vars
    BY <2>1 DEF vars
  <2>2. CASE WritePath
    BY <2>2 DEF WritePath, Write, WriteSyncFails, Apply, FlushSync, Rotate, RotateFails, Swap, sstVars
  <2>3. CASE FlushPipeline
    BY <2>3 DEF FlushPipeline, FlushBegin, FlushBuildFails, FlushCommit, FlushNothing,
       FlushManifest, FlushManifestFails, FlushUnlink, FlushReturn, dirVars, sstVars
  <2>4. CASE Compaction
    BY <2>4 DEF Compaction, CompactBuildFails, CompactNothing, CompactCommit, CompactManifest,
       CompactManifestFails, CompactReturn, dirVars
  <2>5. CASE Worker
    BY <2>5 DEF Worker, WorkerRecv, WorkerCheck, dirVars
  <2>6. CASE Lifecycle
    BY <2>6 DEF Lifecycle, Close, Crash, Recover, Reback, RebackFails, CleanOld, sstVars
  <2>7. QED
    BY <2>1, <2>2, <2>3, <2>4, <2>5, <2>6 DEF Next
<1>7. QED
  BY <1>1, <1>2, <1>3, <1>4, <1>5, <1>6 DEF EmptyTable

\* Where a dropped tombstone comes from: a table.
LEMMA GoneSteps ==
    ASSUME Inv, [Next]_vars, NEW k \in Keys
    PROVE  \/ gone'[k] = gone[k]
           \/ UNCHANGED ops /\ gone'[k] = 0
           \/ /\ UNCHANGED ops /\ gone'[k] # 0 /\ ops[gone'[k]].del
              /\ \E m \in Levels, n \in Seqs : gone'[k] = sst[m][n][k]
<1>1. CASE UNCHANGED gone
  BY <1>1
<1>2. CASE CompactCommit
  <2>1. gone'[k] = gone[k] \/ gone'[k] = Dropped(levels)[k]
    BY <1>2 DEF CompactCommit, NewerOf
  <2>2. levels \in [Levels -> SUBSET Seqs] /\ UNCHANGED ops
    BY <1>2 DEF CompactCommit, Inv, TypeOK, TypeProcess
  <2>3. CASE ~ IsDelete(Winner(levels, k))
    BY <2>1, <2>2, <2>3 DEF Dropped
  <2>4. CASE IsDelete(Winner(levels, k))
    <3>1. RunsWith(levels, k) # {}
      BY <2>4 DEF Winner, IsDelete
    <3>2. \E m \in Levels, n \in Seqs : Winner(levels, k) = sst[m][n][k]
      BY <2>2, <3>1, WinnerIs DEF RunsWith, Runs
    <3>3. Dropped(levels)[k] = Winner(levels, k)
      BY <2>4 DEF Dropped
    <3>4. QED
      BY <2>1, <2>2, <2>4, <3>2, <3>3 DEF IsDelete
  <2>5. QED
    BY <2>3, <2>4
<1>3. UNCHANGED gone \/ CompactCommit
  <2>1. CASE UNCHANGED vars
    BY <2>1 DEF vars
  <2>2. CASE WritePath
    BY <2>2 DEF WritePath, Write, WriteSyncFails, Apply, FlushSync, Rotate, RotateFails, Swap, ghosts
  <2>3. CASE FlushPipeline
    BY <2>3 DEF FlushPipeline, FlushBegin, FlushBuild, FlushBuildFails, FlushCommit, FlushNothing,
       FlushManifest, FlushManifestFails, FlushUnlink, FlushReturn, ghosts
  <2>4. CASE Compaction
    BY <2>4 DEF Compaction, CompactBuild, CompactBuildFails, CompactNothing, CompactManifest,
       CompactManifestFails, CompactUnlink, CompactReturn, ghosts
  <2>5. CASE Worker
    BY <2>5 DEF Worker, WorkerRecv, WorkerCheck, ghosts
  <2>6. CASE Lifecycle
    BY <2>6 DEF Lifecycle, Close, Crash, Recover, Reback, RebackFails, CleanOld, ghosts
  <2>7. QED
    BY <2>1, <2>2, <2>3, <2>4, <2>5, <2>6 DEF Next
<1>4. QED
  BY <1>1, <1>2, <1>3

\* No write is taken back: what was issued keeps its key and its kind.
LEMMA OpsGrow ==
    ASSUME Inv, [Next]_vars
    PROVE  /\ Len(ops) \in Nat /\ Len(ops') \in Nat /\ Len(ops) <= Len(ops')
           /\ \A w \in 1 .. Len(ops) : ops'[w] = ops[w]
<1>1. ops \in Seq([key : Keys, del : BOOLEAN])
  BY DEF Inv, TypeOK, TypeHistory
<1>2. CASE UNCHANGED ops
  BY <1>1, <1>2
<1>3. ASSUME NEW op \in [key : Keys, del : BOOLEAN], ops' = Append(ops, op)
      PROVE  /\ Len(ops) \in Nat /\ Len(ops') \in Nat /\ Len(ops) <= Len(ops')
             /\ \A w \in 1 .. Len(ops) : ops'[w] = ops[w]
  BY <1>1, <1>3
<1>4. ASSUME NEW k \in Keys, NEW del \in BOOLEAN, Write(k, del) \/ WriteSyncFails(k, del)
      PROVE  \E op \in [key : Keys, del : BOOLEAN] : ops' = Append(ops, op)
  BY <1>4 DEF Write, WriteSyncFails
<1>5. UNCHANGED ops \/ \E k \in Keys, del \in BOOLEAN : Write(k, del) \/ WriteSyncFails(k, del)
  <2>1. CASE Rotate \/ Recover \/ \E kind \in CrashKinds : Crash(kind)
    BY <2>1 DEF Rotate, Recover, Crash, ghosts
  <2>2. QED
    BY <2>1, LogSteps
<1>6. QED
  BY <1>2, <1>3, <1>4, <1>5

LEMMA GoneAreDeletesNext ==
    ASSUME Inv, GoneAreDeletes, [Next]_vars PROVE GoneAreDeletes'
<1>0. SUFFICES ASSUME NEW k \in Keys, gone'[k] # 0
               PROVE  gone'[k] \in 1 .. Len(ops') /\ ops'[gone'[k]].del
  BY DEF GoneAreDeletes
<1>1. /\ Len(ops) \in Nat /\ Len(ops') \in Nat /\ Len(ops) <= Len(ops')
      /\ \A w \in 1 .. Len(ops) : ops'[w] = ops[w]
  BY OpsGrow
<1>2. CASE gone'[k] = gone[k]
  <2>1. gone[k] \in 1 .. Len(ops) /\ ops[gone[k]].del
    BY <1>0, <1>2 DEF GoneAreDeletes
  <2>2. QED
    BY <1>1, <1>2, <2>1
<1>3. ASSUME UNCHANGED ops, ops[gone'[k]].del, NEW m \in Levels, NEW n \in Seqs, gone'[k] = sst[m][n][k]
      PROVE  gone'[k] \in 1 .. Len(ops') /\ ops'[gone'[k]].del
  <2>1. sst[m][n][k] \in 0 .. Len(ops)
    BY DEF Inv, Issued
  <2>2. QED
    BY <1>0, <1>1, <1>3, <2>1
<1>4. QED
  BY <1>0, <1>2, <1>3, GoneSteps

\* How far a log is firm.
FirmShape ==
    /\ \A g \in Seqs : Firm(g) \in Nat /\ Firm(g) <= Len(wlog[g])
    /\ \A g \in Seqs : (mode # "up" \/ g # active) => Firm(g) = Len(wlog[g])
    /\ mode = "up" => /\ active \in Seqs /\ Firm(active) \in Nat
                      /\ Firm(active) <= wos[active] /\ wos[active] <= Len(wlog[active])
                      /\ wr.pc # "apply" => Firm(active) = wos[active]

LEMMA FirmRange == ASSUME Inv, DurableInv PROVE FirmShape
<1>1. \A g \in Seqs : Len(wlog[g]) \in Nat /\ wos[g] \in Nat /\ wos[g] <= Len(wlog[g])
  BY Numbers DEF DurableInv, LogShape
<1>2. mode = "up" => active \in Seqs
  BY Numbers
<1>3. ASSUME mode = "up", wr.pc = "apply" PROVE Len(wlog[active]) # 0
  <2>1. wr.by = "put" /\ HasWrite(active, ops[wr.w].key, wr.w)
    BY <1>3 DEF DurableInv, InHand, Inv, TypeOK, TypeHistory
  <2>2. \E i : i \in 1 .. Len(wlog[active])
    BY <2>1 DEF HasWrite, Entries
  <2>3. QED
    BY <1>1, <1>2, <1>3, <2>2
<1>4. QED
  BY <1>1, <1>2, <1>3 DEF Firm, FirmShape

LEMMA FirmRangeNext == Inv' /\ DurableInv' => FirmShape'
<1>1. Inv /\ DurableInv => FirmShape
  BY FirmRange
<1>2. QED
  BY <1>1, PTL

\* Logs only grow while the engine is up, and by one write at a time.
LEMMA LogGrows ==
    ASSUME OnlyProcessesDie, Inv, DurableInv, [Next]_vars, mode = "up", mode' = "up",
           NEW g \in Seqs, NEW j \in 1 .. Len(wlog'[g])
    PROVE  \/ j \in 1 .. Len(wlog[g]) /\ wlog'[g][j] = wlog[g][j]
           \/ /\ g = active /\ active' = active
              /\ j = Len(wlog[g]) + 1 /\ wlog'[g][j] = Len(ops) + 1 /\ Len(ops') = Len(ops) + 1
              /\ \E k \in Keys, del \in BOOLEAN : Write(k, del) \/ WriteSyncFails(k, del)
<1>1. ASSUME NEW k \in Keys, NEW del \in BOOLEAN, Write(k, del) \/ WriteSyncFails(k, del)
      PROVE  \/ j \in 1 .. Len(wlog[g]) /\ wlog'[g][j] = wlog[g][j]
             \/ /\ g = active /\ active' = active
                /\ j = Len(wlog[g]) + 1 /\ wlog'[g][j] = Len(ops) + 1 /\ Len(ops') = Len(ops) + 1
  <2>1. /\ active \in Seqs /\ active' = active
        /\ \E op : ops' = Append(ops, op) /\ wlog' = Logged(active, Len(ops) + 1)
    BY <1>1, Numbers DEF Write, WriteSyncFails
  <2>2. /\ \A i \in 1 .. Len(wlog[g]) : wlog'[g][i] = wlog[g][i]
        /\ g # active => wlog'[g] = wlog[g]
        /\ Len(wlog'[active]) = Len(wlog[active]) + 1
        /\ wlog'[active][Len(wlog[active]) + 1] = Len(ops) + 1
        /\ Len(wlog[g]) \in Nat /\ Len(ops') = Len(ops) + 1
    BY <2>1, LogExtended
  <2>3. CASE g # active
    BY <2>2, <2>3
  <2>4. CASE g = active
    <3>1. PICK n \in Nat : n = Len(wlog[g])
      BY <2>2
    <3>2. Len(wlog'[g]) = n + 1
      BY <2>2, <2>4, <3>1
    <3>3. j \in 1 .. n \/ j = n + 1
      BY <3>2
    <3>4. CASE j \in 1 .. n
      BY <2>2, <3>1, <3>4
    <3>5. CASE j = n + 1
      BY <2>1, <2>2, <2>4, <3>1, <3>5
    <3>6. QED
      BY <3>3, <3>4, <3>5
  <2>5. QED
    BY <2>3, <2>4
<1>2. CASE wlog'[g] = wlog[g]
  BY <1>2
<1>3. ASSUME NEW freeze \in BOOLEAN, Apply(freeze) PROVE wlog'[g] = wlog[g]
  BY <1>3, ApplyWrites
<1>4. ASSUME Swap \/ \E c \in Clients : FlushSync(c) PROVE wlog'[g] = wlog[g]
  BY <1>4 DEF Swap, FlushSync
<1>5. ~ Close /\ ~ Crash("kill")
  BY DEF Close, Crash, ProcessGone
<1>6. ASSUME StaysPut PROVE wlog'[g] = wlog[g]
  <2>1. ASSUME NEW m \in Seqs, UnlinkWal(m) PROVE wlog'[g] = wlog[g] \/ wlog'[g] = << >>
    BY <2>1, LogUnlinked DEF Inv
  <2>2. wlog'[g] = << >> => FALSE
    OBVIOUS
  <2>3. QED
    BY <1>6, <2>1, <2>2 DEF StaysPut
<1>7. QED
  BY <1>1, <1>2, <1>3, <1>4, <1>5, <1>6, UpSteps

\* What is loose was so before or has just been written.
LEMMA LooseSteps ==
    ASSUME OnlyProcessesDie, Inv, Inv', DurableInv, DurableInv', AllHanded, [Next]_vars,
           mode' = "up", NEW i \in Loose'
    PROVE  /\ mode = "up" /\ active' = active /\ active \in Seqs
           /\ Firm(active) <= Firm(active)'
           /\ \/ i \in Loose /\ wlog'[active][i] = wlog[active][i]
              \/ /\ i = Len(wlog[active]) + 1 /\ wlog'[active][i] = Len(ops) + 1
                 /\ Len(ops') = Len(ops) + 1
                 /\ \E k \in Keys, del \in BOOLEAN : Write(k, del) \/ WriteSyncFails(k, del)
<1>r. /\ \A g \in Seqs : Firm(g)' \in Nat /\ Firm(g)' <= Len(wlog'[g])
      /\ active' \in Seqs
      /\ Firm(active)' \in Nat /\ Firm(active)' <= wos'[active'] /\ wos'[active'] <= Len(wlog'[active'])
      /\ wr'.pc # "apply" => Firm(active)' = wos'[active']
  BY FirmRangeNext DEF FirmShape
<1>n. /\ Firm(active)' \in Nat /\ Len(wlog'[active']) \in Nat /\ active' \in Seqs
      /\ Firm(active)' < i /\ i <= Len(wlog'[active']) /\ i \in Nat
  <2>1. Firm(active)' \in Nat /\ active' \in Seqs /\ Firm(active)' <= Len(wlog'[active'])
    BY <1>r
  <2>2. wlog' \in [Seqs -> Seq(1 .. MaxWrites)]
    BY DEF Inv, TypeOK, TypeDirectory
  <2>3. Len(wlog'[active']) \in Nat
    BY <2>1, <2>2
  <2>4. QED
    BY <2>1, <2>3 DEF Loose
<1>0. ~ (wos'[active'] = Len(wlog'[active']) /\ wr'.pc # "apply")
  BY <1>n, <1>r
<1>1. mode = "up"
  <2>1. SUFFICES ASSUME mode # "up" PROVE FALSE
    OBVIOUS
  <2>2. wr.pc = "free"
    BY <2>1 DEF Inv, Quiet
  <2>3. Reback \/ CleanOld
    BY <2>1, DownSteps DEF Recover, RebackFails, Crash, ProcessGone
  <2>4. UNCHANGED <<wr, active>> /\ active \in Seqs
    BY <2>3, Numbers DEF Reback, CleanOld
  <2>t. wos \in [Seqs -> Nat] /\ TypeOK
    BY DEF Inv, TypeOK, TypeDirectory
  <2>5. wos'[active] = Len(wlog'[active])
    <3>1. CASE Reback
      BY <2>4, <2>t, <3>1 DEF Reback, Drained
    <3>2. CASE CleanOld
      <4>1. wos[active] = Len(wlog[active])
        BY <2>4, <3>2 DEF AllHanded, CleanOld
      <4>2. UNCHANGED <<wlog, wos>> \/ \E m : UnlinkWal(m)
        BY <3>2 DEF CleanOld, walVars
      <4>3. ASSUME NEW m, UnlinkWal(m) PROVE wos'[active] = Len(wlog'[active])
        BY <2>4, <2>t, <4>1, <4>3, LogUnlinked
      <4>4. QED
        BY <4>1, <4>2, <4>3
    <3>3. QED
      BY <2>3, <3>1, <3>2
  <2>6. QED
    BY <1>0, <2>2, <2>4, <2>5
<1>2. /\ Firm(active) \in Nat /\ active \in Seqs
      /\ Firm(active) <= wos[active] /\ wos[active] <= Len(wlog[active])
      /\ wr.pc # "apply" => Firm(active) = wos[active]
      /\ wos[active] \in Nat /\ Len(wlog[active]) \in Nat /\ wos \in [Seqs -> Nat]
  BY <1>1, FirmRange, Numbers DEF FirmShape, Inv, TypeOK, TypeDirectory
<1>3. ASSUME NEW k \in Keys, NEW del \in BOOLEAN, Write(k, del) \/ WriteSyncFails(k, del)
      PROVE  active' = active /\ Firm(active) <= Firm(active)'
  <2>1. active' = active /\ wr.pc = "free" /\ mode' = "up"
    BY <1>3 DEF Write, WriteSyncFails
  <2>2. Len(wlog'[active]) = Len(wlog[active]) + 1
    BY <1>2, <1>3, LogExtended DEF Write, WriteSyncFails
  <2>3. wos'[active] = wos[active] \/ wos'[active] = Len(wlog[active]) + 1
    BY <1>2, <1>3 DEF Write, WriteSyncFails
  <2>4. Firm(active)' = wos'[active] \/ (wos'[active] = Len(wlog'[active]) /\ Firm(active)' = wos'[active] - 1)
    BY <2>1 DEF Firm
  <2>5. Firm(active) = wos[active]
    BY <1>2, <2>1
  <2>6. CASE wos'[active] = wos[active]
    BY <1>2, <2>1, <2>2, <2>4, <2>5, <2>6
  <2>7. CASE wos'[active] = Len(wlog[active]) + 1
    BY <1>2, <2>1, <2>2, <2>4, <2>5, <2>7
  <2>8. QED
    BY <2>1, <2>3, <2>6, <2>7
<1>4. ASSUME NEW freeze \in BOOLEAN, Apply(freeze) PROVE active' = active /\ Firm(active) <= Firm(active)'
  <2>1. UNCHANGED <<active, wos, wlog>> /\ mode' = "up"
    BY <1>4, ApplyWrites
  <2>2. wr'.pc # "apply"
    <3>1. wr \in WrType
      BY DEF Inv, TypeOK, TypeProcess
    <3>2. wr' = [wr EXCEPT !.pc = "rotate"] \/ wr' = WrFree
      BY <1>4 DEF Apply
    <3>3. QED
      BY <3>1, <3>2 DEF WrType, WrFree
  <2>3. Firm(active)' = wos[active]
    BY <2>1, <2>2 DEF Firm
  <2>4. QED
    BY <1>2, <2>1, <2>3
<1>5. ASSUME NEW c \in Clients, FlushSync(c) PROVE FALSE
  <2>1. wos' = Drained(active) /\ UNCHANGED <<active, wlog>> /\ wr'.pc # "apply"
    BY <1>5 DEF FlushSync
  <2>2. QED
    BY <1>0, <1>2, <2>1 DEF Drained
<1>6. ~ Swap
  <2>1. SUFFICES ASSUME Swap PROVE FALSE
    OBVIOUS
  <2>2. wlog'[active'] = << >>
    BY <2>1 DEF Swap, DurableInv, LiveLogs, Inv, Quiet
  <2>3. QED
    BY <1>n, <2>2
<1>7. ~ Close /\ ~ Crash("kill")
  BY DEF Close, Crash, ProcessGone
<1>8. ASSUME StaysPut PROVE active' = active /\ Firm(active) <= Firm(active)'
  <2>1. wlog'[active] = wlog[active] /\ wos'[active] = wos[active]
    <3>1. ASSUME NEW m \in Seqs, UnlinkWal(m), m # active
          PROVE  wlog'[active] = wlog[active] /\ wos'[active] = wos[active]
      BY <1>2, <3>1, LogUnlinked DEF Inv
    <3>2. QED
      BY <1>8, <3>1 DEF StaysPut
  <2>2. Firm(active)' = Firm(active)
    BY <1>8, <2>1 DEF Firm, StaysPut
  <2>3. QED
    BY <1>2, <1>8, <2>2 DEF StaysPut
<1>9. active' = active /\ Firm(active) <= Firm(active)'
  BY <1>1, <1>3, <1>4, <1>5, <1>6, <1>7, <1>8, UpSteps
<1>10. i \in 1 .. Len(wlog'[active])
  BY <1>n, <1>9
<1>11. CASE i \in 1 .. Len(wlog[active]) /\ wlog'[active][i] = wlog[active][i]
  <2>1. i \in Loose
    BY <1>2, <1>9, <1>n, <1>11 DEF Loose
  <2>2. QED
    BY <1>1, <1>2, <1>9, <1>11, <2>1
<1>12. QED
  BY <1>1, <1>2, <1>9, <1>10, <1>11, LogGrows

\* Nothing newer than a loose write gets into a table or is dropped from one.
LEMMA NewestTables ==
    ASSUME Inv, DurableInv, [Next]_vars, mode = "up", NEW i, NEW w \in Nat \ {0}, Newest(i, w)
    PROVE  /\ \A l \in Levels, s \in Seqs, k \in Keys : sst'[l][s][k] < w
           /\ \A k \in Keys : gone'[k] < w
<1>1. ASSUME NEW g \in imms, NEW k \in Keys PROVE mem[g][k] < w
  <2>1. g \in LiveGens /\ g \in Seqs /\ g # active
    <3>1. g \in LiveGens /\ g \in Seqs /\ g < active /\ active \in Nat
      BY Numbers DEF LiveGens
    <3>2. QED
      BY <3>1
  <2>2. CASE mem[g][k] = 0
    BY <2>2
  <2>3. CASE mem[g][k] # 0
    <3>1. PICK j \in Entries(g, k) : wlog[g][j] = mem[g][k]
      BY <2>1, <2>3 DEF DurableInv, LiveLogs, HasWrite
    <3>2. j \in 1 .. Len(wlog[g])
      BY DEF Entries
    <3>3. QED
      BY <2>1, <3>1, <3>2 DEF Newest
  <2>4. QED
    BY <2>2, <2>3
<1>2. ASSUME NEW l \in Levels, NEW s \in Seqs, NEW k \in Keys PROVE sst'[l][s][k] < w
  <2>1. 0 < w
    OBVIOUS
  <2>2. \A m \in Levels, n \in Seqs : sst[m][n][k] < w
    BY DEF Newest
  <2>3. QED
    BY <1>1, <2>1, <2>2, TableSteps
<1>3. ASSUME NEW k \in Keys PROVE gone'[k] < w
  <2>1. 0 < w
    OBVIOUS
  <2>2. gone[k] < w /\ \A m \in Levels, n \in Seqs : sst[m][n][k] < w
    BY DEF Newest
  <2>3. QED
    BY <2>1, <2>2, GoneSteps
<1>4. QED
  BY <1>2, <1>3

\* What has been issued is numbered in order, so a new write is newer than all that
\* any log or table holds.
LEMMA IssuedAreOlder ==
    ASSUME Inv, GoneAreDeletes
    PROVE  /\ Len(ops) \in Nat
           /\ \A g \in Seqs : \A j \in 1 .. Len(wlog[g]) : wlog[g][j] \in 1 .. Len(ops)
           /\ \A l \in Levels, s \in Seqs, k \in Keys : sst[l][s][k] \in 0 .. Len(ops)
           /\ \A k \in Keys : gone[k] \in 0 .. Len(ops)
<1>1. Len(ops) \in Nat
  BY Numbers
<1>2. \A g \in Seqs : \A j \in 1 .. Len(wlog[g]) : wlog[g][j] \in 1 .. Len(ops)
  <2>1. \A g \in Seqs : wlog[g] \in Seq(1 .. Len(ops))
    BY DEF Inv, Issued
  <2>2. QED
    BY <2>1, ElementOfSeq
<1>3. \A l \in Levels, s \in Seqs, k \in Keys : sst[l][s][k] \in 0 .. Len(ops)
  BY DEF Inv, Issued
<1>4. \A k \in Keys : gone[k] \in 0 .. Len(ops)
  BY <1>1 DEF GoneAreDeletes
<1>5. QED
  BY <1>1, <1>2, <1>3, <1>4

LEMMA LooseAreNewestNext ==
    ASSUME OnlyProcessesDie, Inv, Inv', DurableInv, DurableInv', AllHanded, GoneAreDeletes,
           LooseAreNewest, [Next]_vars
    PROVE  LooseAreNewest'
<1>0. SUFFICES ASSUME mode' = "up", NEW i \in Loose' PROVE Newest(i, wlog[active][i])'
  BY DEF LooseAreNewest
<1>1. PICK a, w : a = active /\ w = wlog'[a][i]
  OBVIOUS
<1>2. /\ mode = "up" /\ active' = a /\ a \in Seqs
      /\ \/ i \in Loose /\ w = wlog[a][i]
         \/ /\ i = Len(wlog[a]) + 1 /\ w = Len(ops) + 1
            /\ \E k \in Keys, del \in BOOLEAN : Write(k, del) \/ WriteSyncFails(k, del)
  BY <1>0, <1>1, LooseSteps
<1>h. ASSUME \A j \in 1 .. Len(wlog'[a]) : j < i => wlog'[a][j] < w,
             \A g \in Seqs \ {a} : \A j \in 1 .. Len(wlog'[g]) : wlog'[g][j] < w,
             \A l \in Levels, s \in Seqs, k \in Keys : sst'[l][s][k] < w,
             \A k \in Keys : gone'[k] < w
      PROVE  Newest(i, wlog[active][i])'
  BY <1>1, <1>2, <1>h DEF Newest
<1>3. /\ Len(ops) \in Nat
      /\ \A g \in Seqs : Len(wlog[g]) \in Nat
      /\ \A g \in Seqs : \A j \in 1 .. Len(wlog[g]) : wlog[g][j] \in 1 .. Len(ops)
      /\ \A l \in Levels, s \in Seqs, k \in Keys : sst[l][s][k] \in 0 .. Len(ops)
      /\ \A k \in Keys : gone[k] \in 0 .. Len(ops)
  BY IssuedAreOlder, Numbers
<1>4. \A g \in Seqs : \A j \in 1 .. Len(wlog'[g]) :
        \/ j \in 1 .. Len(wlog[g]) /\ wlog'[g][j] = wlog[g][j]
        \/ g = a /\ j = Len(wlog[g]) + 1
  BY <1>0, <1>1, <1>2, LogGrows
<1>5. CASE i \in Loose /\ w = wlog[a][i]
  <2>1. Newest(i, w)
    BY <1>1, <1>2, <1>5 DEF LooseAreNewest
  <2>2. Firm(active) \in Nat
    BY <1>2, FirmRange DEF FirmShape
  <2>3. i \in 1 .. Len(wlog[a])
    BY <1>1, <1>2, <1>3, <1>5, <2>2 DEF Loose
  <2>4. w \in Nat \ {0}
    BY <1>2, <1>3, <1>5, <2>3
  <2>5. \A j \in 1 .. Len(wlog'[a]) : j < i => wlog'[a][j] < w
    BY <1>1, <1>2, <1>3, <1>4, <2>1, <2>3 DEF Newest
  <2>6. \A g \in Seqs \ {a} : \A j \in 1 .. Len(wlog'[g]) : wlog'[g][j] < w
    BY <1>1, <1>4, <2>1 DEF Newest
  <2>7. /\ \A l \in Levels, s \in Seqs, k \in Keys : sst'[l][s][k] < w
        /\ \A k \in Keys : gone'[k] < w
    BY <1>2, <2>1, <2>4, NewestTables
  <2>8. QED
    BY <1>h, <2>5, <2>6, <2>7
<1>6. ASSUME i = Len(wlog[a]) + 1, w = Len(ops) + 1,
             NEW k \in Keys, NEW del \in BOOLEAN, Write(k, del) \/ WriteSyncFails(k, del)
      PROVE  Newest(i, wlog[active][i])'
  <2>1. UNCHANGED <<sst, gone>>
    BY <1>6 DEF Write, WriteSyncFails, sstVars
  <2>2. \A g \in Seqs : \A j \in 1 .. Len(wlog[g]) : wlog[g][j] < w
    BY <1>3, <1>6
  <2>3. \A j \in 1 .. Len(wlog'[a]) : j < i => wlog'[a][j] < w
    <3>1. SUFFICES ASSUME NEW j \in 1 .. Len(wlog'[a]), j < i PROVE wlog'[a][j] < w
      OBVIOUS
    <3>2. j # Len(wlog[a]) + 1
      BY <1>2, <1>3, <1>6, <3>1
    <3>3. QED
      BY <1>2, <1>4, <2>2, <3>2
  <2>4. \A g \in Seqs \ {a} : \A j \in 1 .. Len(wlog'[g]) : wlog'[g][j] < w
    BY <1>4, <2>2
  <2>5. \A l \in Levels, s \in Seqs, q \in Keys : sst'[l][s][q] < w
    BY <1>3, <1>6, <2>1
  <2>6. \A q \in Keys : gone'[q] < w
    BY <1>3, <1>6, <2>1
  <2>7. QED
    BY <1>h, <2>3, <2>4, <2>5, <2>6
<1>7. QED
  BY <1>2, <1>5, <1>6

-----------------------------------------------------------------------------
(* A dying process loses a suffix.                                         *)

LEMMA RecoveredType ==
    ASSUME Inv, NEW k \in Keys PROVE Recovered(k) \in 0 .. Len(ops) /\ Replayed(k) \in 0 .. Len(ops)
<1>1. Len(ops) \in Nat /\ wlog \in [Seqs -> Seq(1 .. Len(ops))] /\ TypeDirectory
  BY Numbers DEF Inv, Issued, TypeOK
<1>2. Replayed(k) \in 0 .. Len(ops)
  BY <1>1, ReplayedType
<1>3. FromTables(manifest, k) \in 0 .. Len(ops)
  BY <1>1, TablesType DEF TypeDirectory
<1>4. QED
  BY <1>2, <1>3, RecoveredIs DEF OrElse

\* What open is about to answer is kept from then on.
LEMMA RecoveredKept ==
    ASSUME Inv, DurableInv, AllHanded, mode = "down", NEW k \in Keys PROVE Kept(k, Recovered(k))
<1>0. TypeOK /\ LogShape
  BY DEF Inv, DurableInv
<1>1. PICK d : d = Recovered(k)
  OBVIOUS
<1>2. d \in 0 .. Len(ops) /\ d \in Nat /\ d >= d
  BY <1>1, RecoveredType
<1>3. CASE Replayed(k) = 0 /\ \A g \in walFiles : Entries(g, k) = {}
  <2>1. FromTables(manifest, k) = d
    BY <1>1, <1>3, RecoveredIs DEF OrElse
  <2>2. Fresh(k, FromTables(manifest, k), d)
    BY <1>2, <2>1 DEF Fresh
  <2>3. QED
    BY <1>1, <1>3, <2>2 DEF Kept, DiskKeeps, HasOlder
<1>4. ASSUME NEW g \in walFiles, NEW i \in Entries(g, k), Replayed(k) = wlog[g][i], Replayed(k) # 0,
             \A h \in walFiles : Entries(h, k) # {} => h <= g
      PROVE  Kept(k, d)
  <2>1. wlog[g][i] = d
    BY <1>1, <1>4, RecoveredIs DEF OrElse
  <2>2. g \in Seqs /\ i \in 1 .. Len(wlog[g]) /\ wos[g] = Len(wlog[g]) /\ Len(wlog[g]) \in Nat
    <3>1. g \in Seqs
      BY Numbers
    <3>2. QED
      BY <3>1, Numbers DEF Entries, AllHanded
  <2>3. SafeHit("kill", g, k, d)
    BY <1>2, <2>1, <2>2 DEF SafeHit, Safe
  <2>4. \A h \in walFiles : HasOlder(h, k, d) => h <= g
    BY <1>4 DEF HasOlder
  <2>5. QED
    BY <2>3, <2>4 DEF Kept, DiskKeeps
<1>5. QED
  BY <1>0, <1>1, <1>3, <1>4, ReplayedIs

\* An open at any moment answers with what is kept, or newer.
LEMMA KeptIsFresh ==
    Inv /\ DurableInv => \A k \in Keys, d \in Nat : Kept(k, d) => Fresh(k, Recovered(k), d)
  BY OpenKeeps DEF DurableInv, Kept

LEMMA KeptIsFreshNext ==
    Inv' /\ DurableInv' => \A k \in Keys, d \in Nat : Kept(k, d)' => Fresh(k, Recovered(k), d)'
<1>1. (Inv /\ DurableInv => \A k \in Keys, d \in Nat : Kept(k, d) => Fresh(k, Recovered(k), d))'
  BY KeptIsFresh, PTL
<1>2. QED
  BY <1>1

\* What applied writes need to be lost: to be in the buffer of the active WAL.
LEMMA AppliedKeptNext ==
    ASSUME NoLosingFaults, OnlyProcessesDie, Inv, Inv', DurableInv, DurableInv',
           AllHanded, AppliedKept, [Next]_vars
    PROVE  AppliedKept'
<1>0. SUFFICES ASSUME mode' # "down", NEW k \in Keys PROVE Kept(k, kv[k])' \/ Buffered(k)'
  BY DEF AppliedKept
<1>d. LogShape /\ LiveLogs /\ LiveLogs' /\ InHand
  BY DEF DurableInv
<1>1. PICK d, a : d = kv[k] /\ a = active
  OBVIOUS
<1>2. d \in 0 .. Len(ops) /\ Len(ops) \in Nat
  BY <1>1, Numbers DEF Inv, Issued
<1>h. ASSUME NEW e, kv'[k] = e, Kept(k, e)' PROVE Kept(k, kv[k])'
  BY <1>h DEF Kept, DiskKeeps, LiveKeeps, HasOlder, SafeHit, Fresh
<1>3. CASE mode = "down"
  <2>1. Recover
    BY <1>0, <1>3, DownSteps DEF Reback, RebackFails, CleanOld
  <2>2. PICK r : r = Recovered(k)
    OBVIOUS
  <2>3. kv'[k] = r /\ r \in 0 .. Len(ops) /\ Kept(k, r)
    BY <1>3, <2>1, <2>2, RecoveredKept, RecoveredType DEF Recover
  <2>4. Kept(k, r)'
    BY <2>3, KeptNext
  <2>5. QED
    BY <1>h, <2>3, <2>4
<1>4. CASE mode # "down" /\ kv'[k] = d /\ Kept(k, d)
  BY <1>h, <1>2, <1>4, KeptNext
<1>5. CASE mode \in {"reback", "clean"}
  <2>1. UNCHANGED kv
    BY <1>5, DownSteps DEF Recover, Reback, RebackFails, CleanOld, Crash, ghosts
  <2>2. Kept(k, d)
    BY <1>1, <1>5 DEF AppliedKept, Buffered
  <2>3. QED
    BY <1>1, <1>4, <1>5, <2>1, <2>2
<1>6. ASSUME mode = "up", NEW freeze \in BOOLEAN, Apply(freeze), k = ops[wr.w].key
      PROVE  Kept(k, kv[k])' \/ Buffered(k)'
  <2>1. PICK w : w = wr.w
    OBVIOUS
  <2>2. /\ mem'[a][k] = w /\ kv'[k] = w /\ w \in 1 .. Len(ops) /\ mode' = "up"
        /\ UNCHANGED <<active, wlog, wos, ops, walFiles>> /\ LiveGens' = LiveGens
        /\ wr.pc = "apply" /\ wr.by = "put"
    BY <1>1, <1>6, <2>1, ApplyWrites
  <2>3. PICK i \in Entries(a, k) : wlog[a][i] = w
    BY <1>1, <1>6, <1>d, <2>1, <2>2 DEF InHand, HasWrite
  <2>4. i \in Entries(a, k)' /\ wlog'[a][i] = w /\ i \in Nat /\ wos[a] \in Nat
    <3>1. i \in Entries(a, k)' /\ wlog'[a][i] = w
      BY <2>2, <2>3 DEF Entries
    <3>2. a \in Seqs
      BY <1>1, <1>6, Numbers
    <3>3. i \in Nat /\ wos[a] \in Nat
      BY <3>2, Numbers DEF Entries
    <3>4. QED
      BY <3>1, <3>3
  <2>5. CASE wos[a] < i
    BY <1>1, <2>2, <2>4, <2>5 DEF Buffered
  <2>6. CASE i <= wos[a]
    <3>1. a \in LiveGens' /\ mem'[a][k] >= w /\ w \in 0 .. Len(ops)
      BY <1>1, <1>2, <2>2 DEF LiveGens
    <3>2. Kept(k, w)'
      BY <1>1, <1>6, <2>2, <2>4, <2>6, <3>1, HandedIsKept
    <3>3. QED
      BY <1>h, <2>2, <3>2
  <2>7. QED
    BY <2>4, <2>5, <2>6
<1>7. CASE mode = "up" /\ kv'[k] = d /\ Buffered(k)
  <2>1. PICK i \in Entries(a, k) : wos[a] < i /\ wlog[a][i] = d
    BY <1>1, <1>7 DEF Buffered
  <2>2. /\ mem[a][k] = d /\ a \in Seqs /\ mode' = "up" /\ a \in LiveGens
        /\ i \in Nat /\ wos[a] \in Nat /\ i <= Len(wlog[a]) /\ i \in 1 .. Len(wlog[a])
    <3>1. a \in Seqs /\ a \in LiveGens
      BY <1>1, <1>7, Numbers DEF LiveGens
    <3>2. wos[a] \in Nat /\ Len(wlog[a]) \in Nat /\ i \in 1 .. Len(wlog[a])
      BY <3>1, Numbers DEF Entries
    <3>3. mode' = "up"
      BY <1>0, <1>7, UpSteps, ApplyWrites
         DEF Write, WriteSyncFails, FlushSync, Swap, Close, Crash, ProcessGone, StaysPut
    <3>4. QED
      BY <1>1, <1>7, <3>1, <3>2, <3>3 DEF Buffered
  <2>h. ASSUME i \in Entries(a, k)', wlog'[a][i] = d, UNCHANGED walFiles, a \in LiveGens',
               mem'[a][k] = d, active' = a \/ i <= wos'[a], wos'[a] \in Nat
        PROVE  Kept(k, kv[k])' \/ Buffered(k)'
    <3>1. CASE i <= wos'[a]
      <4>1. mem'[a][k] >= d
        BY <1>2, <2>h
      <4>2. Kept(k, d)'
        BY <1>1, <1>2, <1>7, <2>2, <2>h, <3>1, <4>1, HandedIsKept
      <4>3. QED
        BY <1>h, <1>7, <4>2
    <3>2. CASE wos'[a] < i /\ active' = a
      BY <1>7, <2>2, <2>h, <3>2 DEF Buffered
    <3>3. QED
      BY <2>2, <2>h, <3>1, <3>2
  <2>t. wos' \in [Seqs -> Nat] /\ wos'[a] \in Nat
    BY <2>2 DEF Inv, TypeOK, TypeDirectory
  <2>3. ASSUME NEW q \in Keys, NEW del \in BOOLEAN, Write(q, del) \/ WriteSyncFails(q, del)
        PROVE  Kept(k, kv[k])' \/ Buffered(k)'
    <3>1. UNCHANGED <<walFiles, active, imms, mem>>
      BY <2>3 DEF Write, WriteSyncFails
    <3>2. /\ wlog'[a][i] = wlog[a][i] /\ ops'[wlog[a][i]] = ops[wlog[a][i]]
          /\ Len(wlog'[a]) = Len(wlog[a]) + 1 /\ Len(wlog[a]) \in Nat
      BY <1>1, <2>2, <2>3, LogExtended DEF Write, WriteSyncFails
    <3>3. i \in Entries(a, k)'
      BY <2>1, <2>2, <3>2 DEF Entries
    <3>4. QED
      BY <1>1, <2>h, <2>t, <2>1, <2>2, <3>1, <3>2, <3>3 DEF LiveGens
  <2>4. ASSUME NEW freeze \in BOOLEAN, Apply(freeze), k # ops[wr.w].key
        PROVE  Kept(k, kv[k])' \/ Buffered(k)'
    <3>1. UNCHANGED <<walFiles, active, wlog, ops>> /\ LiveGens' = LiveGens /\ mem'[a][k] = mem[a][k]
      BY <2>2, <2>4, ApplyWrites
    <3>2. i \in Entries(a, k)' /\ wlog'[a][i] = d
      BY <2>1, <3>1 DEF Entries
    <3>3. QED
      BY <1>1, <2>h, <2>t, <2>2, <3>1, <3>2
  <2>5. ASSUME NEW c \in Clients, FlushSync(c) PROVE Kept(k, kv[k])' \/ Buffered(k)'
    <3>1. UNCHANGED <<walFiles, active, wlog, ops, mem, imms>>
      BY <2>5 DEF FlushSync
    <3>2. i \in Entries(a, k)' /\ wlog'[a][i] = d
      BY <2>1, <3>1 DEF Entries
    <3>3. QED
      BY <1>1, <2>h, <2>t, <2>2, <3>1, <3>2 DEF LiveGens
  <2>6. CASE Swap
    <3>1. UNCHANGED <<walFiles, wlog, ops, mem>> /\ wos' = Drained(active) /\ a \in LiveGens'
      BY <1>1, <2>2, <2>6, <1>d, SwapAdds DEF Swap
    <3>2. wos'[a] = Len(wlog[a])
      BY <1>1, <2>2, <3>1 DEF Drained, Inv, TypeOK, TypeDirectory
    <3>3. i \in Entries(a, k)' /\ wlog'[a][i] = d
      BY <2>1, <3>1 DEF Entries
    <3>4. QED
      BY <1>1, <2>h, <2>t, <2>2, <3>1, <3>2, <3>3
  <2>7. CASE StaysPut
    <3>1. UNCHANGED <<active, ops>> /\ mem'[a] = mem[a]
      BY <1>1, <2>7 DEF StaysPut
    <3>2. wlog'[a] = wlog[a] /\ wos'[a] = wos[a]
      <4>1. ASSUME NEW m \in Seqs, UnlinkWal(m), m # active
            PROVE  wlog'[a] = wlog[a] /\ wos'[a] = wos[a]
        BY <1>1, <2>2, <4>1, LogUnlinked DEF Inv
      <4>2. QED
        BY <2>7, <4>1 DEF StaysPut
    <3>3. i \in Entries(a, k)' /\ wlog'[a][i] = d
      BY <2>1, <3>1, <3>2 DEF Entries
    <3>4. QED
      BY <1>1, <1>7, <2>1, <2>2, <3>1, <3>2, <3>3 DEF Buffered
  <2>8. ~ Close /\ ~ Crash("kill")
    BY <1>0 DEF Close, Crash, ProcessGone
  <2>9. QED
    BY <1>6, <1>7, <2>3, <2>4, <2>5, <2>6, <2>7, <2>8, UpSteps
<1>8. CASE mode = "up"
  <2>1. CASE kv'[k] # d
    <3>1. PICK freeze \in BOOLEAN : Apply(freeze)
      BY <1>0, <1>1, <1>8, <2>1, MemorySteps DEF Swap, FlushCommit, Recover, ghosts
    <3>2. k = ops[wr.w].key
      BY <1>1, <2>1, <3>1, ApplyWrites
    <3>3. QED
      BY <1>6, <1>8, <3>1, <3>2
  <2>2. CASE kv'[k] = d
    BY <1>1, <1>4, <1>7, <1>8, <2>2 DEF AppliedKept
  <2>3. QED
    BY <2>1, <2>2
<1>9. QED
  BY <1>3, <1>5, <1>8 DEF Inv, TypeOK, TypeProcess

\* An open answers with something that is in a log or in a table.
LEMMA RecoveredBelow ==
    Inv => \A k \in Keys, d \in Nat \ {0} :
             /\ \A g \in walFiles : \A i \in Entries(g, k) : wlog[g][i] < d
             /\ \A l \in Levels, s \in Seqs : sst[l][s][k] < d
             => Recovered(k) < d
<1>0. SUFFICES ASSUME Inv, NEW k \in Keys, NEW d \in Nat \ {0},
                      \A g \in walFiles : \A i \in Entries(g, k) : wlog[g][i] < d,
                      \A l \in Levels, s \in Seqs : sst[l][s][k] < d
               PROVE  Recovered(k) < d
  OBVIOUS
<1>1. Replayed(k) < d
  BY <1>0, ReplayedIs DEF Inv
<1>2. \A l \in Levels : NewestHit(manifest[l], sst[l], k) < d
  <2>1. SUFFICES ASSUME NEW l \in Levels PROVE NewestHit(manifest[l], sst[l], k) < d
    OBVIOUS
  <2>2. PICK W : W = {x \in Nat : x < d}
    OBVIOUS
  <2>3. manifest[l] \subseteq Seqs
    BY <1>0 DEF Inv, TypeOK, TypeDirectory
  <2>4. 0 \in W /\ \A s \in manifest[l] : sst[l][s][k] \in W
    <3>1. \A s \in Seqs : sst[l][s][k] \in 0 .. Len(ops)
      BY <1>0 DEF Inv, Issued
    <3>2. \A s \in Seqs : sst[l][s][k] \in Nat
      BY <1>0, <3>1, Numbers
    <3>3. QED
      BY <1>0, <2>2, <2>3, <3>2
  <2>5. NewestHit(manifest[l], sst[l], k) \in W
    BY <2>3, <2>4, NewestHitFrom
  <2>6. QED
    BY <2>2, <2>5
<1>3. QED
  BY <1>1, <1>2 DEF Recovered, OrElse, Levels

LEMMA RecoveredBelowNext ==
    Inv' => \A k \in Keys, d \in Nat \ {0} :
              /\ \A g \in walFiles' : \A i \in Entries(g, k)' : wlog'[g][i] < d
              /\ \A l \in Levels, s \in Seqs : sst'[l][s][k] < d
              => Recovered(k)' < d
<1>1. (Inv => \A k \in Keys, d \in Nat \ {0} :
                /\ \A g \in walFiles : \A i \in Entries(g, k) : wlog[g][i] < d
                /\ \A l \in Levels, s \in Seqs : sst[l][s][k] < d
                => Recovered(k) < d)'
  BY RecoveredBelow, PTL
<1>2. QED
  BY <1>1

\* A stop leaves the logs as they are, but for a part of the buffer of the active one.
LEMMA StopLeaves ==
    ASSUME OnlyProcessesDie, Inv, DurableInv, AllHanded, [Next]_vars, mode # "down", mode' = "down"
    PROVE  /\ UNCHANGED <<walFiles, sst, manifest, ops, kv, gone>> /\ active \in Seqs
           /\ \A g \in Seqs :
                /\ Len(wlog[g]) \in Nat /\ Len(wlog'[g]) \in Nat /\ wos[g] \in Nat
                /\ wos[g] <= Len(wlog'[g]) /\ Len(wlog'[g]) <= Len(wlog[g])
                /\ wos'[g] = Len(wlog'[g])
                /\ g # active => Len(wlog'[g]) = Len(wlog[g])
                /\ \A i \in 1 .. Len(wlog'[g]) : wlog'[g][i] = wlog[g][i]
<1>n. /\ active \in Seqs
      /\ \A g \in Seqs : Len(wlog[g]) \in Nat /\ wos[g] \in Nat /\ wos[g] <= Len(wlog[g])
      /\ \A g \in Seqs : g # active => wos[g] = Len(wlog[g])
      /\ \A g \in Seqs \ walFiles : wlog[g] = << >>
  BY Numbers DEF DurableInv, LogShape, AllHanded
<1>w. AllHanded'
  BY AllHandedNext
<1>1. Close \/ Crash("kill") \/ RebackFails
  <2>1. CASE mode = "up"
    BY <2>1, UpSteps, ApplyWrites DEF Write, WriteSyncFails, FlushSync, Swap, StaysPut
  <2>2. CASE mode # "up"
    BY <2>2, DownSteps DEF Recover, Reback, CleanOld
  <2>3. QED
    BY <2>1, <2>2
<1>2. UNCHANGED <<walFiles, sst, manifest, ops, kv, gone>>
  BY <1>1 DEF Close, Crash, RebackFails
<1>3. CASE Close \/ RebackFails
  <2>1. UNCHANGED wlog
    BY <1>3 DEF Close, RebackFails
  <2>2. QED
    BY <1>2, <1>n, <1>w, <2>1 DEF AllHanded
<1>4. CASE Crash("kill")
  <2>1. PICK cut \in [walFiles -> Nat] :
             /\ \A g \in walFiles :
                  /\ wos[g] <= cut[g] /\ cut[g] <= Len(wlog[g])
                  /\ Len(wlog'[g]) = cut[g]
                  /\ \A i \in 1 .. cut[g] : wlog'[g][i] = wlog[g][i]
             /\ \A g \in Seqs \ walFiles : wlog'[g] = << >>
    BY <1>4, CrashLeaves DEF Inv, Safe
  <2>2. ASSUME NEW g \in Seqs
        PROVE  /\ Len(wlog'[g]) \in Nat
               /\ wos[g] <= Len(wlog'[g]) /\ Len(wlog'[g]) <= Len(wlog[g])
               /\ wos'[g] = Len(wlog'[g])
               /\ g # active => Len(wlog'[g]) = Len(wlog[g])
               /\ \A i \in 1 .. Len(wlog'[g]) : wlog'[g][i] = wlog[g][i]
    <3>1. wos'[g] = Len(wlog'[g])
      BY <1>w DEF AllHanded
    <3>2. CASE g \in walFiles
      BY <1>n, <2>1, <3>1, <3>2
    <3>3. CASE g \notin walFiles
      <4>1. Len(wlog[g]) = 0 /\ Len(wlog'[g]) = 0 /\ wos[g] = 0
        BY <1>n, <2>1, <3>3
      <4>2. QED
        BY <3>1, <4>1
    <3>4. QED
      BY <3>2, <3>3
  <2>3. QED
    BY <1>2, <1>n, <2>2
<1>5. QED
  BY <1>1, <1>3, <1>4

LEMMA LossIsASuffixNext ==
    ASSUME NoLosingFaults, OnlyProcessesDie, Inv, Inv', DurableInv, DurableInv',
           SuffixInv, [Next]_vars
    PROVE  LossIsASuffix'
<1>0. SUFFICES ASSUME mode' = "down", NEW j \in Keys, NEW k \in Keys,
                      ~ Fresh(k, Recovered(k), kv[k])'
               PROVE  Recovered(j)' < kv'[k]
  BY DEF LossIsASuffix
<1>1. CASE mode = "down"
  <2>1. UNCHANGED <<walFiles, wlog, sst, manifest, ops, kv, gone>>
    BY <1>0, <1>1, DownSteps DEF Recover, Reback, RebackFails, CleanOld
  <2>2. /\ Recovered(k)' = Recovered(k) /\ Recovered(j)' = Recovered(j)
        /\ Fresh(k, Recovered(k), kv[k])' <=> Fresh(k, Recovered(k), kv[k])
    BY <2>1 DEF Recovered, Replayed, Entries, Fresh
  <2>3. QED
    BY <1>0, <1>1, <2>1, <2>2 DEF SuffixInv, LossIsASuffix
<1>2. CASE mode # "down"
  <2>l. /\ UNCHANGED <<walFiles, sst, manifest, ops, kv, gone>> /\ active \in Seqs
        /\ \A g \in Seqs :
             /\ Len(wlog[g]) \in Nat /\ Len(wlog'[g]) \in Nat /\ wos[g] \in Nat
             /\ wos[g] <= Len(wlog'[g]) /\ Len(wlog'[g]) <= Len(wlog[g])
             /\ wos'[g] = Len(wlog'[g])
             /\ g # active => Len(wlog'[g]) = Len(wlog[g])
             /\ \A i \in 1 .. Len(wlog'[g]) : wlog'[g][i] = wlog[g][i]
    BY <1>0, <1>2, StopLeaves DEF SuffixInv
  <2>1. PICK d, a : d = kv[k] /\ a = active
    OBVIOUS
  <2>2. d \in 0 .. Len(ops) /\ d \in Nat
    BY <2>1, Numbers DEF Inv, Issued
  <2>3. ~ Kept(k, d)'
    BY <1>0, <2>l, <2>1, <2>2, KeptIsFreshNext DEF Fresh
  <2>4. ~ Kept(k, d)
    BY <2>2, <2>3, KeptNext
  <2>5. Buffered(k)
    BY <1>2, <2>1, <2>4 DEF SuffixInv, AppliedKept
  <2>6. PICK i \in Entries(a, k) : wos[a] < i /\ wlog[a][i] = d
    BY <2>1, <2>5 DEF Buffered
  <2>7. mode = "up" /\ i \in 1 .. Len(wlog[a])
    BY <2>5 DEF Buffered, Entries
  <2>8. Len(wlog'[a]) < i
    <3>1. SUFFICES ASSUME i <= Len(wlog'[a]) PROVE FALSE
      BY <2>l, <2>1, <2>7
    <3>2. i \in 1 .. Len(wlog'[a])
      BY <2>l, <2>1, <2>7, <3>1
    <3>3. wlog'[a][i] = d /\ i <= wos'[a]
      BY <2>l, <2>1, <2>6, <3>1, <3>2
    <3>4. i \in Entries(a, k)'
      BY <2>l, <2>1, <2>6, <3>2, <3>3 DEF Entries
    <3>5. Kept(k, d)'
      BY <1>0, <2>l, <2>1, <2>2, <2>7, <3>3, <3>4, HandedIsKept
    <3>6. QED
      BY <2>3, <3>5
  <2>9. Newest(i, d)
    <3>1. Firm(active) \in Nat /\ Firm(active) <= wos[active]
      BY <2>7, FirmRange DEF FirmShape
    <3>2. i \in Loose
      BY <2>l, <2>1, <2>6, <2>7, <3>1 DEF Loose
    <3>3. QED
      BY <2>1, <2>6, <2>7, <3>2 DEF SuffixInv, LooseAreNewest
  <2>10. \A g \in walFiles' : \A m \in Entries(g, j)' : wlog'[g][m] < d
    <3>1. SUFFICES ASSUME NEW g \in walFiles', NEW m \in Entries(g, j)' PROVE wlog'[g][m] < d
      OBVIOUS
    <3>2. g \in Seqs /\ m \in 1 .. Len(wlog'[g])
      BY <2>l, Numbers DEF Entries
    <3>3. m \in 1 .. Len(wlog[g]) /\ wlog'[g][m] = wlog[g][m] /\ (g = a => m < i)
      BY <2>l, <2>1, <2>7, <2>8, <3>2
    <3>4. QED
      BY <2>1, <2>9, <3>2, <3>3 DEF Newest
  <2>11. \A l \in Levels, s \in Seqs : sst'[l][s][j] < d
    BY <2>l, <2>9 DEF Newest
  <2>12. d # 0
    <3>1. wlog[a][i] \in 1 .. Len(ops)
      BY <2>l, <2>1, <2>7, IssuedAreOlder DEF SuffixInv
    <3>2. QED
      BY <2>2, <2>6, <3>1
  <2>13. QED
    BY <2>l, <2>1, <2>2, <2>10, <2>11, <2>12, RecoveredBelowNext
<1>3. QED
  BY <1>1, <1>2

LEMMA SuffixInit == Init => SuffixInv
<1>0. SUFFICES ASSUME Init PROVE SuffixInv
  OBVIOUS
<1>1. /\ mode = "down" /\ wos = [g \in Seqs |-> 0] /\ wlog = [g \in Seqs |-> << >>]
      /\ gone = EmptyTable /\ kv = EmptyTable
  BY <1>0 DEF Init
<1>2. AllHanded
  BY <1>1 DEF AllHanded
<1>3. GoneAreDeletes /\ LooseAreNewest /\ AppliedKept
  BY <1>1 DEF GoneAreDeletes, LooseAreNewest, AppliedKept, EmptyTable
<1>4. \A k \in Keys : Fresh(k, Recovered(k), kv[k])
  <2>1. SUFFICES ASSUME NEW k \in Keys PROVE Fresh(k, Recovered(k), kv[k])
    OBVIOUS
  <2>2. kv[k] = 0 /\ Recovered(k) \in Nat
    BY <1>0, <1>1, InvInit, RecoveredType, Numbers DEF EmptyTable
  <2>3. QED
    BY <2>2 DEF Fresh
<1>5. QED
  BY <1>2, <1>3, <1>4 DEF SuffixInv, LossIsASuffix

LEMMA SuffixNext ==
    ASSUME NoLosingFaults, OnlyProcessesDie, Inv, Inv', DurableInv, DurableInv',
           SuffixInv, [Next]_vars
    PROVE  SuffixInv'
<1>0. AllHanded /\ GoneAreDeletes /\ LooseAreNewest /\ AppliedKept
  BY DEF SuffixInv
<1>1. AllHanded' /\ GoneAreDeletes'
  BY <1>0, AllHandedNext, GoneAreDeletesNext
<1>2. LooseAreNewest'
  BY <1>0, LooseAreNewestNext
<1>3. AppliedKept'
  BY <1>0, AppliedKeptNext
<1>4. LossIsASuffix'
  BY LossIsASuffixNext
<1>5. QED
  BY <1>1, <1>2, <1>3, <1>4 DEF SuffixInv

\* The three invariants together: what the buffer of the active WAL holds is newest,
\* and all that has left it is kept.
THEOREM SuffixInvCorrect ==
    ASSUME NoLosingFaults, OnlyProcessesDie PROVE Spec => [](Inv /\ DurableInv /\ SuffixInv)
<1>1. Init => Inv /\ DurableInv /\ SuffixInv
  BY InvInit, DurableInit, SuffixInit
<1>2. (Inv /\ DurableInv /\ SuffixInv) /\ [Next]_vars => (Inv /\ DurableInv /\ SuffixInv)'
  BY InvNext, DurableNext, SuffixNext
<1>3. QED
  BY <1>1, <1>2, PTL DEF Spec

\* If a process dies, in the middle of a put, a freeze, a flush, a compaction or an
\* open, and the newest write of a key is lost, then so is every later write of any
\* key: no answer of the reopened engine is newer than a write it has lost
\* (WalWriter's buffer, freeze_active, open_with_options).
THEOREM LossIsASuffixHolds ==
    ASSUME NoLosingFaults, OnlyProcessesDie PROVE Spec => []LossIsASuffix
<1>1. Inv /\ DurableInv /\ SuffixInv => LossIsASuffix
  BY DEF SuffixInv
<1>2. QED
  BY <1>1, SuffixInvCorrect, PTL

-----------------------------------------------------------------------------
(* The value of a key after a sequence of writes.                          *)

LEMMA AfterIs ==
    ASSUME NEW n \in Nat, NEW W, NEW k
    PROVE  \/ After(W, n, k) = 0 /\ \A i \in 1 .. n : ops[W[i]].key # k
           \/ \E p \in 1 .. n :
                /\ ops[W[p]].key = k /\ After(W, n, k) = Value(W[p])
                /\ \A i \in 1 .. n : ops[W[i]].key = k => i <= p
<1>1. PICK at : at = {i \in 1 .. n : ops[W[i]].key = k}
  OBVIOUS
<1>2. CASE at = {}
  BY <1>1, <1>2 DEF After
<1>3. CASE at # {}
  <2>1. Max(at) \in at /\ \A x \in at : x <= Max(at)
    <3>1. at \subseteq 0 .. n
      BY <1>1
    <3>2. QED
      BY <1>3, <3>1, MaxOfBounded
  <2>2. After(W, n, k) = Value(W[Max(at)])
    BY <1>1, <1>3 DEF After
  <2>3. Max(at) \in 1 .. n /\ ops[W[Max(at)]].key = k
    BY <1>1, <2>1
  <2>4. \A i \in 1 .. n : ops[W[i]].key = k => i <= Max(at)
    BY <1>1, <2>1
  <2>5. QED
    BY <2>2, <2>3, <2>4
<1>4. QED
  BY <1>2, <1>3

\* Only the last write of the key counts ...
LEMMA AfterLast ==
    ASSUME NEW n \in Nat, NEW W, NEW k, NEW p \in 1 .. n, ops[W[p]].key = k,
           \A i \in 1 .. n : p < i => ops[W[i]].key # k
    PROVE  After(W, n, k) = Value(W[p])
<1>1. PICK q \in 1 .. n : /\ ops[W[q]].key = k /\ After(W, n, k) = Value(W[q])
                          /\ \A i \in 1 .. n : ops[W[i]].key = k => i <= q
  BY AfterIs
<1>2. p <= q /\ ~ (p < q)
  BY <1>1
<1>3. p = q
  BY <1>2
<1>4. QED
  BY <1>1, <1>3

\* ... so writes of other keys do not, nor does what follows the first n.
LEMMA AfterSame ==
    ASSUME NEW n \in Nat, NEW m \in 0 .. n, NEW V, NEW W, NEW k,
           \A i \in 1 .. m : V[i] = W[i],
           \A i \in 1 .. n : m < i => ops[W[i]].key # k
    PROVE  After(V, m, k) = After(W, n, k)
<1>1. CASE \A i \in 1 .. m : ops[V[i]].key # k
  <2>1. After(V, m, k) = 0
    BY <1>1, AfterIs
  <2>2. \A i \in 1 .. n : ops[W[i]].key # k
    <3>1. SUFFICES ASSUME NEW i \in 1 .. n PROVE ops[W[i]].key # k
      OBVIOUS
    <3>2. CASE m < i
      BY <3>2
    <3>3. CASE i <= m
      BY <1>1, <3>3
    <3>4. QED
      BY <3>2, <3>3
  <2>3. After(W, n, k) = 0
    BY <2>2, AfterIs
  <2>4. QED
    BY <2>1, <2>3
<1>2. ASSUME NEW p \in 1 .. m, ops[V[p]].key = k, After(V, m, k) = Value(V[p]),
             \A i \in 1 .. m : ops[V[i]].key = k => i <= p
      PROVE  After(V, m, k) = After(W, n, k)
  <2>1. p \in 1 .. n /\ W[p] = V[p]
    OBVIOUS
  <2>2. \A i \in 1 .. n : p < i => ops[W[i]].key # k
    <3>1. SUFFICES ASSUME NEW i \in 1 .. n, p < i PROVE ops[W[i]].key # k
      OBVIOUS
    <3>2. CASE i <= m
      BY <1>2, <3>1, <3>2
    <3>3. CASE m < i
      BY <3>3
    <3>4. QED
      BY <3>2, <3>3
  <2>3. After(W, n, k) = Value(W[p])
    BY <1>2, <2>1, <2>2, AfterLast
  <2>4. QED
    BY <1>2, <2>1, <2>3
<1>3. QED
  BY <1>1, <1>2, AfterIs

\* What writes say does not change when others are issued.
LEMMA SaidIsSaid ==
    ASSUME Inv, [Next]_vars
    PROVE  /\ \A w \in 0 .. Len(ops) : Value(w)' = Value(w)
           /\ \A W \in Seq(1 .. Len(ops)) :
                /\ OpsOf(W)' = OpsOf(W) /\ W \in Seq(1 .. Len(ops'))
                /\ \A n \in 0 .. Len(W), k \in Keys : After(W, n, k)' = After(W, n, k)
<1>1. /\ Len(ops) \in Nat /\ Len(ops') \in Nat /\ Len(ops) <= Len(ops')
      /\ \A w \in 1 .. Len(ops) : ops'[w] = ops[w]
  BY OpsGrow
<1>2. \A w \in 0 .. Len(ops) : Value(w)' = Value(w)
  BY <1>1 DEF Value, IsDelete
<1>3. ASSUME NEW W \in Seq(1 .. Len(ops))
      PROVE  /\ OpsOf(W)' = OpsOf(W) /\ W \in Seq(1 .. Len(ops'))
             /\ \A n \in 0 .. Len(W), k \in Keys : After(W, n, k)' = After(W, n, k)
  <2>1. Len(W) \in Nat /\ \A i \in 1 .. Len(W) : W[i] \in 1 .. Len(ops)
    BY ElementOfSeq
  <2>2. OpsOf(W)' = OpsOf(W)
    BY <1>1, <2>1 DEF OpsOf, Op
  <2>3. W \in Seq(1 .. Len(ops'))
    BY <1>1
  <2>4. ASSUME NEW n \in 0 .. Len(W), NEW k \in Keys PROVE After(W, n, k)' = After(W, n, k)
    <3>1. \A i \in 1 .. n : ops'[W[i]] = ops[W[i]] /\ Value(W[i])' = Value(W[i])
      BY <1>1, <1>2, <2>1
    <3>2. PICK at : at = {i \in 1 .. n : ops[W[i]].key = k}
      OBVIOUS
    <3>3. at = {i \in 1 .. n : ops'[W[i]].key = k}
      BY <3>1, <3>2
    <3>4. CASE at = {}
      BY <3>2, <3>3, <3>4 DEF After
    <3>5. CASE at # {}
      <4>1. Max(at) \in 1 .. n
        <5>1. at \subseteq 0 .. n /\ n \in Nat
          BY <2>1, <3>2
        <5>2. QED
          BY <3>2, <3>5, <5>1, MaxOfBounded
      <4>2. After(W, n, k) = Value(W[Max(at)]) /\ After(W, n, k)' = Value(W[Max(at)])'
        BY <3>2, <3>3, <3>5 DEF After
      <4>3. QED
        BY <3>1, <4>1, <4>2
    <3>6. QED
      BY <3>4, <3>5
  <2>5. QED
    BY <2>2, <2>3, <2>4
<1>4. QED
  BY <1>2, <1>3

\* The abstract store's view of a sequence of writes.
LEMMA ViewIs ==
    ASSUME NEW W \in Seq(1 .. Len(ops)), Len(ops) \in Nat
    PROVE  KV!View(OpsOf(W)) = [k \in Keys |-> After(W, Len(W), k)]
<1>1. /\ Len(W) \in Nat /\ DOMAIN W = 1 .. Len(W) /\ DOMAIN OpsOf(W) = 1 .. Len(W)
      /\ \A i \in 1 .. Len(W) : W[i] \in 1 .. Len(ops)
  BY ElementOfSeq DEF OpsOf
<1>2. \A i \in 1 .. Len(W) :
        OpsOf(W)[i].key = ops[W[i]].key /\ OpsOf(W)[i].del = ops[W[i]].del /\ OpsOf(W)[i].id = W[i]
  BY <1>1 DEF OpsOf, Op
<1>3. ASSUME NEW k \in Keys PROVE KV!View(OpsOf(W))[k] = After(W, Len(W), k)
  <2>1. PICK at : at = {i \in 1 .. Len(W) : ops[W[i]].key = k}
    OBVIOUS
  <2>2. at = {i \in DOMAIN OpsOf(W) : OpsOf(W)[i].key = k}
    BY <1>1, <1>2, <2>1
  <2>3. CASE at = {}
    <3>1. After(W, Len(W), k) = 0
      BY <2>1, <2>3 DEF After
    <3>2. KV!View(OpsOf(W))[k] = 0
      BY <2>2, <2>3 DEF KV!View
    <3>3. QED
      BY <3>1, <3>2
  <2>4. CASE at # {}
    <3>1. Max(at) \in 1 .. Len(W)
      <4>1. at \subseteq 0 .. Len(W)
        BY <1>1, <2>1
      <4>2. Max(at) \in at
        BY <1>1, <2>4, <4>1, MaxOfBounded
      <4>3. QED
        BY <2>1, <4>2
    <3>2. KV!Max(at) = Max(at)
      BY DEF KV!Max, Max
    <3>3. After(W, Len(W), k) = Value(W[Max(at)])
      BY <2>1, <2>4 DEF After
    <3>4. KV!View(OpsOf(W))[k]
            = IF OpsOf(W)[Max(at)].del THEN 0 ELSE OpsOf(W)[Max(at)].id
      BY <2>2, <2>4, <3>2 DEF KV!View
    <3>5. W[Max(at)] # 0
      BY <1>1, <3>1
    <3>6. QED
      BY <1>2, <3>1, <3>3, <3>4, <3>5 DEF Value, IsDelete
  <2>5. QED
    BY <2>3, <2>4
<1>4. QED
  BY <1>3 DEF KV!View

-----------------------------------------------------------------------------
(* What a stop leaves of each key.                                         *)

\* While the engine is not up, an open would answer with the write that is solid.
LEMMA SolidAnswer ==
    Inv /\ DurableInv /\ GoneAreDeletes /\ mode # "up" =>
      \A k \in Keys, d \in 0 .. Len(ops) : Solid(k, d) => Value(Recovered(k)) = Value(d)
<1> SUFFICES ASSUME Inv, DurableInv, GoneAreDeletes, mode # "up",
                    NEW k \in Keys, NEW d \in 0 .. Len(ops), Solid(k, d)
             PROVE  Value(Recovered(k)) = Value(d)
  OBVIOUS
<1>1. Len(ops) \in Nat /\ d \in Nat /\ d + 1 \in Nat \ {0}
  BY Numbers
<1>2. Recovered(k) \in Nat /\ gone[k] \in Nat
  BY <1>1, RecoveredType, IssuedAreOlder
<1>3. Fresh(k, Recovered(k), d)
  BY <1>1, KeptIsFresh DEF Solid
<1>4. Recovered(k) < d + 1
  <2>1. \A l \in Levels, s \in Seqs : sst[l][s][k] < d + 1
    <3>1. ASSUME NEW l \in Levels, NEW s \in Seqs PROVE sst[l][s][k] < d + 1
      <4>1. sst[l][s][k] \in 0 .. Len(ops) /\ sst[l][s][k] <= d
        BY IssuedAreOlder DEF Solid, Bounded
      <4>2. QED
        BY <1>1, <4>1
    <3>2. QED
      BY <3>1
  <2>2. \A g \in walFiles : \A i \in Entries(g, k) : wlog[g][i] < d + 1
    <3>1. SUFFICES ASSUME NEW g \in walFiles, NEW i \in Entries(g, k) PROVE wlog[g][i] < d + 1
      OBVIOUS
    <3>2. g \in Seqs /\ i \in 1 .. Len(wlog[g]) /\ Firm(g) = Len(wlog[g]) /\ Len(wlog[g]) \in Nat
      BY Numbers, FirmRange DEF FirmShape, Entries
    <3>3. wlog[g][i] <= d /\ wlog[g][i] \in 1 .. Len(ops)
      BY <3>2, IssuedAreOlder DEF Solid, Bounded
    <3>4. QED
      BY <1>1, <3>3
  <2>3. QED
    BY <1>1, <2>1, <2>2, RecoveredBelow
<1>5. CASE Recovered(k) >= d
  <2>1. Recovered(k) = d
    BY <1>1, <1>2, <1>4, <1>5
  <2>2. QED
    BY <2>1
<1>6. CASE Recovered(k) = 0 /\ gone[k] >= d
  <2>1. gone[k] = d
    BY <1>1, <1>2, <1>6 DEF Solid, Bounded
  <2>2. CASE d = 0
    BY <1>6, <2>2
  <2>3. CASE d # 0
    BY <1>6, <2>1, <2>3 DEF GoneAreDeletes, Value, IsDelete
  <2>4. QED
    BY <2>2, <2>3
<1>7. QED
  BY <1>3, <1>5, <1>6 DEF Fresh

LEMMA SolidAnswerNext ==
    Inv' /\ DurableInv' /\ GoneAreDeletes' /\ mode' # "up" =>
      \A k \in Keys, d \in 0 .. Len(ops') : Solid(k, d)' => Value(Recovered(k))' = Value(d)'
<1>1. (Inv /\ DurableInv /\ GoneAreDeletes /\ mode # "up" =>
        \A k \in Keys, d \in 0 .. Len(ops) : Solid(k, d) => Value(Recovered(k)) = Value(d))'
  BY SolidAnswer, PTL
<1>2. QED
  BY <1>1

\* Tables and dropped tombstones come from what is firm.
LEMMA TablesBounded ==
    ASSUME Inv, DurableInv, [Next]_vars, NEW k \in Keys, NEW e \in Nat, Bounded(k, e)
    PROVE  /\ \A l \in Levels, s \in Seqs : sst'[l][s][k] <= e
           /\ gone'[k] <= e
<1>0. 0 <= e /\ gone[k] <= e /\ \A m \in Levels, n \in Seqs : sst[m][n][k] <= e
  BY DEF Bounded
<1>1. ASSUME NEW g \in imms PROVE mem[g][k] <= e
  <2>1. g \in LiveGens /\ g \in Seqs /\ g # active /\ mode = "up"
    <3>1. mode = "up"
      BY DEF Inv, Quiet
    <3>2. g \in LiveGens /\ g \in Seqs /\ g < active /\ active \in Nat
      BY <3>1, Numbers DEF LiveGens
    <3>3. QED
      BY <3>1, <3>2
  <2>2. CASE mem[g][k] = 0
    BY <1>0, <2>2
  <2>3. CASE mem[g][k] # 0
    <3>1. PICK j \in Entries(g, k) : wlog[g][j] = mem[g][k]
      BY <2>1, <2>3 DEF DurableInv, LiveLogs, HasWrite
    <3>2. j <= Firm(g)
      <4>1. Firm(g) = Len(wlog[g]) /\ Len(wlog[g]) \in Nat
        BY <2>1, FirmRange, Numbers DEF FirmShape
      <4>2. QED
        BY <4>1 DEF Entries
    <3>3. QED
      BY <2>1, <3>1, <3>2 DEF Bounded
  <2>4. QED
    BY <2>2, <2>3
<1>2. ASSUME NEW l \in Levels, NEW s \in Seqs PROVE sst'[l][s][k] <= e
  BY <1>0, <1>1, TableSteps
<1>3. gone'[k] <= e
  BY <1>0, GoneSteps
<1>4. QED
  BY <1>2, <1>3

\* What is firm was so, or loose.
LEMMA FirmSteps ==
    ASSUME OnlyProcessesDie, Inv, Inv', DurableInv, DurableInv', AllHanded, [Next]_vars, mode = "up",
           NEW g \in Seqs, NEW i \in 1 .. Len(wlog'[g]), i <= Firm(g)'
    PROVE  /\ i \in 1 .. Len(wlog[g]) /\ wlog'[g][i] = wlog[g][i]
           /\ i <= Firm(g) \/ (g = active /\ i \in Loose)
<1>1. mode' \in {"up", "down"}
  BY UpSteps, ApplyWrites DEF Write, WriteSyncFails, FlushSync, Swap, Close, Crash, ProcessGone, StaysPut
<1>2. i \in 1 .. Len(wlog[g]) /\ wlog'[g][i] = wlog[g][i]
  <2>1. CASE mode' = "down"
    BY <2>1, StopLeaves
  <2>2. CASE mode' = "up"
    <3>1. SUFFICES ASSUME g = active, i = Len(wlog[g]) + 1, active' = active,
                          NEW k \in Keys, NEW del \in BOOLEAN, Write(k, del) \/ WriteSyncFails(k, del)
                   PROVE  FALSE
      BY <2>2, LogGrows
    <3>2. Len(wlog'[g]) = Len(wlog[g]) + 1
      BY <3>1, LogExtended DEF Write, WriteSyncFails
    <3>3. Len(wlog[g]) \in Nat /\ wos[g] \in Nat /\ wos[g] <= Len(wlog[g])
      BY Numbers DEF DurableInv, LogShape
    <3>4. CASE Write(k, del)
      <4>1. wr'.pc = "apply"
        BY <3>4 DEF Write
      <4>2. wos'[g] \in Nat /\ wos'[g] <= Len(wlog'[g])
        BY DEF Inv, TypeOK, TypeDirectory, DurableInv, LogShape
      <4>3. Firm(g)' = IF wos'[g] = Len(wlog'[g]) THEN wos'[g] - 1 ELSE wos'[g]
        BY <2>2, <3>1, <4>1 DEF Firm
      <4>4. QED
        BY <3>1, <3>2, <3>3, <4>2, <4>3
    <3>5. CASE WriteSyncFails(k, del)
      <4>1. wr'.pc # "apply" /\ wos' = wos
        BY <3>5 DEF WriteSyncFails
      <4>2. Firm(g)' = wos[g]
        BY <2>2, <3>1, <4>1 DEF Firm
      <4>3. QED
        BY <3>1, <3>3, <4>2
    <3>6. QED
      BY <3>1, <3>4, <3>5
  <2>3. QED
    BY <1>1, <2>1, <2>2
<1>3. i <= Firm(g) \/ (g = active /\ i \in Loose)
  <2>1. Firm(g) \in Nat /\ Len(wlog[g]) \in Nat /\ (g # active => Firm(g) = Len(wlog[g]))
    BY FirmRange, Numbers DEF FirmShape
  <2>2. QED
    BY <1>2, <2>1 DEF Loose
<1>4. QED
  BY <1>2, <1>3

\* What is not newer than e stays so, if nothing newer becomes firm.
LEMMA BoundedUp ==
    ASSUME OnlyProcessesDie, Inv, Inv', DurableInv, DurableInv', AllHanded, [Next]_vars, mode = "up",
           NEW k \in Keys, NEW e \in Nat, Bounded(k, e), NEW a, a = active,
           \A i \in Loose : i <= Firm(a)' /\ ops[wlog[a][i]].key = k => wlog[a][i] <= e
    PROVE  Bounded(k, e)'
<1>1. ASSUME NEW g \in Seqs, NEW i \in Entries(g, k)', i <= Firm(g)' PROVE wlog'[g][i] <= e
  <2>1. i \in 1 .. Len(wlog'[g]) /\ ops'[wlog'[g][i]].key = k
    BY DEF Entries
  <2>2. /\ i \in 1 .. Len(wlog[g]) /\ wlog'[g][i] = wlog[g][i]
        /\ i <= Firm(g) \/ (g = active /\ i \in Loose)
    BY <1>1, <2>1, FirmSteps
  <2>3. wlog[g][i] \in 1 .. Len(ops)
    <3>1. wlog[g] \in Seq(1 .. Len(ops))
      BY DEF Inv, Issued
    <3>2. QED
      BY <2>2, <3>1, ElementOfSeq
  <2>4. ops[wlog[g][i]].key = k
    BY <2>1, <2>2, <2>3, OpsGrow
  <2>5. CASE i <= Firm(g)
    BY <2>2, <2>4, <2>5 DEF Bounded, Entries
  <2>6. CASE g = active /\ i \in Loose
    BY <1>1, <2>2, <2>4, <2>6
  <2>7. QED
    BY <2>2, <2>5, <2>6
<1>2. QED
  BY <1>1, TablesBounded DEF Bounded

LEMMA BoundedDown ==
    ASSUME OnlyProcessesDie, Inv, Inv', DurableInv, DurableInv', AllHanded, [Next]_vars, mode # "up",
           NEW k \in Keys, NEW e \in Nat, Bounded(k, e)
    PROVE  Bounded(k, e)'
<1>f. \A g \in Seqs : Firm(g) = Len(wlog[g]) /\ Len(wlog[g]) \in Nat
  BY FirmRange, Numbers DEF FirmShape
<1>b. ASSUME NEW g \in Seqs, NEW i \in Entries(g, k) PROVE wlog[g][i] <= e
  BY <1>b, <1>f DEF Bounded, Entries
<1>1. ASSUME NEW g \in Seqs, NEW i \in Entries(g, k)' PROVE wlog'[g][i] <= e
  <2>1. i \in 1 .. Len(wlog'[g]) /\ ops'[wlog'[g][i]].key = k
    BY DEF Entries
  <2>2. CASE UNCHANGED ops /\ i \in 1 .. Len(wlog[g]) /\ wlog'[g][i] = wlog[g][i]
    BY <1>b, <2>1, <2>2 DEF Entries
  <2>3. CASE Recover
    <3>1. CASE g = active'
      <4>1. wlog'[g][i] = Replayed(k) /\ Replayed(k) # 0
        BY <2>3, <3>1, RecoverLog DEF DurableInv
      <4>2. PICK h \in walFiles : \E j \in Entries(h, k) : Replayed(k) = wlog[h][j]
        BY <4>1, ReplayedIs DEF Inv
      <4>3. h \in Seqs
        BY Numbers
      <4>4. QED
        BY <1>b, <4>1, <4>2, <4>3
    <3>2. CASE g # active'
      <4>1. wlog'[g] = wlog[g] /\ UNCHANGED ops
        BY <2>3, <3>2 DEF Recover, Inv, TypeOK, TypeDirectory
      <4>2. QED
        BY <2>1, <2>2, <4>1
    <3>3. QED
      BY <3>1, <3>2
  <2>4. CASE Reback \/ RebackFails
    <3>1. UNCHANGED <<wlog, ops>>
      BY <2>4 DEF Reback, RebackFails, ghosts
    <3>2. QED
      BY <2>1, <2>2, <3>1
  <2>5. CASE CleanOld
    <3>1. UNCHANGED ops /\ (UNCHANGED wlog \/ \E m : UnlinkWal(m))
      BY <2>5 DEF CleanOld, walVars, ghosts
    <3>2. ASSUME NEW m, UnlinkWal(m) PROVE wlog'[g] = wlog[g] \/ wlog'[g] = << >>
      BY <3>2, LogUnlinked DEF Inv
    <3>3. wlog'[g] # << >>
      BY <2>1
    <3>4. QED
      BY <2>1, <2>2, <3>1, <3>2, <3>3
  <2>6. CASE Crash("kill") /\ mode # "down"
    <3>1. mode' = "down"
      BY <2>6 DEF Crash, ProcessGone
    <3>2. QED
      BY <2>1, <2>2, <2>6, <3>1, StopLeaves
  <2>7. CASE UNCHANGED <<wlog, ops>>
    BY <2>1, <2>2, <2>7
  <2>8. QED
    BY <2>3, <2>4, <2>5, <2>6, <2>7, DownSteps
<1>2. QED
  BY <1>1, TablesBounded DEF Bounded

\* A step that leaves the active generation alone leaves its buffer alone.
LEMMA StaysPutKeeps ==
    ASSUME Inv, mode = "up", StaysPut, NEW a, a = active
    PROVE  /\ wlog'[a] = wlog[a] /\ wos'[a] = wos[a] /\ active' = a
           /\ Firm(a)' = Firm(a) /\ Underway' = Underway
           /\ wr.pc = "apply" => wr'.pc = "apply"
<1>1. active' = a /\ mode' = "up" /\ a \in Seqs
  BY Numbers DEF StaysPut
<1>2. wlog'[a] = wlog[a] /\ wos'[a] = wos[a]
  <2>1. ASSUME NEW m \in Seqs, UnlinkWal(m), m # active
        PROVE  wlog'[a] = wlog[a] /\ wos'[a] = wos[a]
    BY <1>1, <2>1, LogUnlinked DEF Inv
  <2>2. QED
    BY <2>1 DEF StaysPut
<1>3. (wr.pc = "apply" <=> wr'.pc = "apply") /\ (wr.pc = "apply" => wr' = wr)
  BY DEF StaysPut
<1>4. Firm(a)' = Firm(a)
  BY <1>1, <1>2, <1>3 DEF Firm
<1>5. Underway' = Underway
  BY <1>3 DEF Underway
<1>6. QED
  BY <1>1, <1>2, <1>3, <1>4, <1>5

\* An entry that becomes firm is kept: the operating system has it, and if the engine
\* goes on it is in the MemTable.
LEMMA FirmedIsKept ==
    ASSUME OnlyProcessesDie, Inv, Inv', DurableInv, DurableInv', AllHanded, LooseAreApplied,
           [Next]_vars, mode = "up", NEW a, a = active, NEW p \in Loose, p <= Firm(a)',
           NEW w, w = wlog[a][p], NEW k \in Keys, ops[w].key = k
    PROVE  Kept(k, w)'
<1>1. /\ a \in Seqs /\ Firm(a) \in Nat /\ p \in Nat /\ Firm(a) < p /\ p <= Len(wlog[a])
      /\ p \in 1 .. Len(wlog[a]) /\ Len(wlog[a]) \in Nat
  <2>1. a \in Seqs /\ Firm(a) \in Nat /\ Len(wlog[a]) \in Nat
    BY FirmRange, Numbers DEF FirmShape
  <2>2. QED
    BY <2>1 DEF Loose
<1>2. /\ Firm(a)' \in Nat /\ Firm(a)' <= Len(wlog'[a]) /\ Len(wlog'[a]) \in Nat
      /\ wos'[a] \in Nat /\ (mode' = "up" /\ a = active' => Firm(a)' <= wos'[a])
  <2>1. Firm(a)' \in Nat /\ Firm(a)' <= Len(wlog'[a])
    BY <1>1, FirmRangeNext DEF FirmShape
  <2>2. wos'[a] \in Nat /\ wlog' \in [Seqs -> Seq(1 .. MaxWrites)]
    BY <1>1 DEF Inv, TypeOK, TypeDirectory
  <2>3. Len(wlog'[a]) \in Nat
    BY <1>1, <2>2
  <2>4. mode' = "up" /\ a = active' => Firm(a)' <= wos'[a]
    BY FirmRangeNext DEF FirmShape
  <2>5. QED
    BY <2>1, <2>2, <2>3, <2>4
<1>3. p \in 1 .. Len(wlog'[a])
  BY <1>1, <1>2
<1>4. wlog'[a][p] = w
  BY <1>1, <1>3, FirmSteps
<1>5. w \in 1 .. Len(ops) /\ w \in 0 .. Len(ops) /\ Len(ops) \in Nat
  <2>1. wlog[a] \in Seq(1 .. Len(ops)) /\ Len(ops) \in Nat
    BY <1>1, Numbers DEF Inv, Issued
  <2>2. QED
    BY <1>1, <2>1, ElementOfSeq
<1>6. p \in Entries(a, k)'
  BY <1>3, <1>4, <1>5, OpsGrow DEF Entries
<1>h. ASSUME UNCHANGED walFiles, mode' \in {"up", "down"}, p <= wos'[a],
             mode' = "up" => a \in LiveGens' /\ mem'[a][k] >= w
      PROVE  Kept(k, w)'
  BY <1>4, <1>5, <1>6, <1>h, HandedIsKept
<1>7. mem[a][k] >= w \/ (wr.pc = "apply" /\ w = wr.w)
  BY DEF LooseAreApplied
<1>8. CASE mode' = "down"
  <2>1. UNCHANGED walFiles /\ wos'[a] = Len(wlog'[a])
    BY <1>1, <1>8, StopLeaves
  <2>2. QED
    BY <1>h, <1>2, <1>3, <1>8, <2>1
<1>9. ASSUME NEW q \in Keys, NEW del \in BOOLEAN, Write(q, del) \/ WriteSyncFails(q, del)
      PROVE  Kept(k, w)'
  <2>1. UNCHANGED <<walFiles, mem, active, imms, mode>> /\ wr.pc = "free"
    BY <1>9 DEF Write, WriteSyncFails
  <2>2. mem'[a][k] >= w /\ a \in LiveGens'
    BY <1>7, <2>1 DEF LiveGens
  <2>3. p <= wos'[a]
    BY <1>1, <1>2, <2>1
  <2>4. QED
    BY <1>h, <2>1, <2>2, <2>3
<1>10. ASSUME NEW freeze \in BOOLEAN, Apply(freeze) PROVE Kept(k, w)'
  <2>1. /\ UNCHANGED <<walFiles, active>> /\ mode' = "up" /\ LiveGens' = LiveGens
        /\ mem'[a][k] = mem[a][k] \/ mem'[a][k] = wr.w
        /\ wr.pc = "apply" /\ wr.by = "put"
        /\ ops[wr.w].key = k => mem'[a][k] = wr.w
    BY <1>1, <1>10, ApplyWrites
  <2>2. wr.w = Len(ops)
    BY <2>1 DEF DurableInv, InHand
  <2>3. mem'[a][k] >= w
    <3>1. CASE mem'[a][k] = wr.w
      BY <1>5, <2>2, <3>1
    <3>2. CASE mem'[a][k] = mem[a][k] /\ mem[a][k] >= w
      BY <3>2
    <3>3. QED
      BY <1>7, <2>1, <3>1, <3>2
  <2>4. p <= wos'[a] /\ a \in LiveGens'
    BY <1>1, <1>2, <2>1 DEF LiveGens
  <2>5. QED
    BY <1>h, <2>1, <2>3, <2>4
<1>11. ASSUME NEW c \in Clients, FlushSync(c) PROVE Kept(k, w)'
  <2>1. UNCHANGED <<walFiles, mem, active, imms, mode>> /\ wr.pc = "free"
    BY <1>11 DEF FlushSync
  <2>2. mem'[a][k] >= w /\ a \in LiveGens'
    BY <1>7, <2>1 DEF LiveGens
  <2>3. p <= wos'[a]
    BY <1>1, <1>2, <2>1
  <2>4. QED
    BY <1>h, <2>1, <2>2, <2>3
<1>12. CASE Swap
  <2>1. /\ UNCHANGED <<walFiles, mem, wlog>> /\ mode' = "up" /\ wos' = Drained(active)
        /\ a \in LiveGens' /\ wr.pc = "swap"
    BY <1>12, SwapAdds DEF Swap, DurableInv
  <2>2. wos'[a] = Len(wlog[a])
    BY <1>1, <2>1 DEF Drained, Inv, TypeOK, TypeDirectory
  <2>3. mem'[a][k] >= w
    BY <1>7, <2>1
  <2>4. QED
    BY <1>h, <1>1, <2>1, <2>2, <2>3
<1>13. ~ StaysPut
  <2>1. SUFFICES ASSUME StaysPut PROVE FALSE
    OBVIOUS
  <2>2. Firm(a)' = Firm(a)
    BY <2>1, StaysPutKeeps
  <2>3. QED
    BY <1>1, <2>2
<1>14. CASE Close \/ Crash("kill")
  BY <1>8, <1>14 DEF Close, Crash, ProcessGone
<1>15. QED
  BY <1>9, <1>10, <1>11, <1>12, <1>13, <1>14, UpSteps

-----------------------------------------------------------------------------
(* The writes, and which of them are firm.                                 *)

LEMMA WritesType ==
    ASSUME Inv, DurableInv, LooseAreLast
    PROVE  /\ Writes \in Seq(1 .. Len(ops)) /\ hist \in Seq(1 .. Len(ops)) /\ Len(ops) \in Nat
           /\ Len(Writes) \in Nat /\ Len(hist) \in Nat /\ LooseLen \in Nat
           /\ FirmLen \in Nat /\ FirmLen + LooseLen = Len(Writes) /\ FirmLen <= Len(hist)
           /\ \A i \in 1 .. Len(hist) : Writes[i] = hist[i]
           /\ wr.pc = "apply" => /\ wr.w \in 1 .. Len(ops) /\ Len(Writes) = Len(hist) + 1
                                 /\ Writes = hist \o <<wr.w>> /\ Writes = Append(hist, wr.w)
                                 /\ Writes[Len(hist) + 1] = wr.w
           /\ wr.pc # "apply" => Writes = hist
           /\ mode # "up" => LooseLen = 0 /\ wr.pc = "free" /\ FirmLen = Len(hist)
<1>1. hist \in Seq(1 .. Len(ops)) /\ FirmLen \in Nat /\ Len(ops) \in Nat /\ Len(hist) \in Nat
  BY Numbers DEF LooseAreLast
<1>2. LooseLen \in Nat /\ (mode = "up" /\ wr.pc = "apply" => LooseLen # 0) /\ (mode # "up" => LooseLen = 0)
  <2>1. CASE mode = "up"
    <3>1. /\ Firm(active) \in Nat /\ Firm(active) <= Len(wlog[active]) /\ Len(wlog[active]) \in Nat
          /\ wos[active] <= Len(wlog[active]) /\ wos[active] \in Nat
      BY <2>1, FirmRange, Numbers DEF FirmShape
    <3>2. wr.pc = "apply" => Firm(active) # Len(wlog[active])
      BY <2>1, <3>1 DEF Firm
    <3>3. QED
      BY <2>1, <3>1, <3>2 DEF LooseLen
  <2>2. CASE mode # "up"
    BY <2>2 DEF LooseLen
  <2>3. QED
    BY <2>1, <2>2
<1>3. CASE wr.pc = "apply"
  <2>1. wr.w \in 1 .. Len(ops) /\ mode = "up"
    BY <1>3 DEF Inv, TypeOK, TypeHistory, TypeProcess
  <2>2. PICK h, w : h = hist /\ w = wr.w
    OBVIOUS
  <2>3. h \in Seq(1 .. Len(ops)) /\ w \in 1 .. Len(ops)
    BY <1>1, <2>1, <2>2
  <2>4. Writes = h \o <<w>>
    BY <1>3, <2>2 DEF Writes, Underway
  <2>5. /\ h \o <<w>> = Append(h, w)
        /\ h \o <<w>> \in Seq(1 .. Len(ops)) /\ Len(h \o <<w>>) = Len(h) + 1
        /\ \A i \in 1 .. Len(h) : (h \o <<w>>)[i] = h[i]
        /\ (h \o <<w>>)[Len(h) + 1] = w
    BY <2>3
  <2>6. QED
    BY <1>1, <1>2, <1>3, <2>1, <2>2, <2>4, <2>5 DEF FirmLen
<1>4. CASE wr.pc # "apply"
  <2>1. Writes = hist
    BY <1>1, <1>4 DEF Writes, Underway
  <2>2. mode # "up" => wr.pc = "free"
    BY DEF Inv, Quiet
  <2>3. QED
    BY <1>1, <1>2, <1>4, <2>1, <2>2 DEF FirmLen
<1>5. QED
  BY <1>3, <1>4

LEMMA WritesBounds ==
    Inv /\ DurableInv /\ LooseAreLast =>
      /\ FirmLen \in Nat /\ Len(hist) \in Nat /\ FirmLen <= Len(hist)
      /\ hist \in Seq(1 .. Len(ops))
  BY WritesType

LEMMA WritesTypeNext ==
    Inv' /\ DurableInv' /\ LooseAreLast' =>
      /\ FirmLen' \in Nat /\ Len(hist') \in Nat /\ FirmLen' <= Len(hist')
      /\ hist' \in Seq(1 .. Len(ops'))
<1>1. (Inv /\ DurableInv /\ LooseAreLast =>
         /\ FirmLen \in Nat /\ Len(hist) \in Nat /\ FirmLen <= Len(hist)
         /\ hist \in Seq(1 .. Len(ops)))'
  BY WritesBounds, PTL
<1>2. QED
  BY <1>1

\* When entries of the active log become firm, what a stop would leave of a key is
\* the last of them that is about the key, or what it was.
LEMMA FirmedSolid ==
    ASSUME NoLosingFaults, OnlyProcessesDie, Inv, Inv', DurableInv, DurableInv', SuffixInv,
           LooseAreApplied, LooseAreLast, FirmIsSolid, [Next]_vars, mode = "up",
           NEW a, a = active, NEW F, F = Firm(a)', Firm(a) <= F, NEW W, W = Writes,
           NEW n, n = FirmLen + (F - Firm(a)), NEW k \in Keys
    PROVE  \E e \in 0 .. Len(ops) : Solid(k, e)' /\ Value(e) = After(W, n, k)
<1>1. PICK L, N, M : L = Firm(a) /\ N = FirmLen /\ M = Len(wlog[a])
  OBVIOUS
<1>s. AllHanded /\ LooseAreNewest /\ GoneAreDeletes
  BY DEF SuffixInv
<1>2. /\ a \in Seqs /\ L \in Nat /\ M \in Nat /\ L <= M /\ F \in Nat /\ Len(ops) \in Nat
      /\ N \in Nat /\ N + (M - L) = Len(W) /\ W \in Seq(1 .. Len(ops)) /\ Loose = (L + 1) .. M
  <2>1. a \in Seqs /\ L \in Nat /\ M \in Nat /\ L <= M
    BY <1>1, FirmRange, Numbers DEF FirmShape
  <2>2. F \in Nat
    BY <2>1, FirmRangeNext DEF FirmShape
  <2>3. LooseLen = M - L
    BY <1>1 DEF LooseLen
  <2>4. N \in Nat /\ N + LooseLen = Len(W) /\ W \in Seq(1 .. Len(ops)) /\ Len(ops) \in Nat
    BY <1>1, WritesType
  <2>5. QED
    BY <1>1, <2>1, <2>2, <2>3, <2>4 DEF Loose
<1>3. F <= M
  <2>1. CASE F = 0
    BY <1>2, <2>1
  <2>2. CASE F # 0
    <3>1. F \in 1 .. Len(wlog'[a])
      <4>1. F <= Len(wlog'[a])
        BY <1>2, FirmRangeNext DEF FirmShape
      <4>2. wlog' \in [Seqs -> Seq(1 .. MaxWrites)]
        BY DEF Inv, TypeOK, TypeDirectory
      <4>3. Len(wlog'[a]) \in Nat
        BY <1>2, <4>2
      <4>4. QED
        BY <1>2, <2>2, <4>1, <4>3
    <3>2. F \in 1 .. Len(wlog[a])
      <4>1. F <= Firm(a)'
        BY <1>2
      <4>2. QED
        BY <1>2, <1>s, <3>1, <4>1, FirmSteps
    <3>3. QED
      BY <1>1, <1>2, <3>2
  <2>3. QED
    BY <2>1, <2>2
<1>4. n \in Nat /\ N <= n /\ n <= Len(W) /\ n = N + (F - L) /\ L <= F
  <2>1. n = N + (F - L) /\ L <= F
    BY <1>1
  <2>2. PICK len : len = Len(W)
    OBVIOUS
  <2>3. N + (M - L) = len
    BY <1>2, <2>2
  <2>4. n \in Nat /\ N <= n /\ n <= len
    BY <1>2, <1>3, <2>1, <2>3
  <2>5. QED
    BY <2>1, <2>2, <2>4
<1>5. ASSUME NEW i \in 1 .. n, N < i
      PROVE  /\ L + (i - N) \in Loose /\ L + (i - N) \in 1 .. M /\ L + (i - N) <= F
             /\ W[i] = wlog[a][L + (i - N)] /\ W[i] \in 1 .. Len(ops)
  <2>1. PICK m : m = i - N
    OBVIOUS
  <2>2. m \in 1 .. (M - L) /\ N + m = i /\ L + m \in 1 .. M /\ L + m <= F /\ L + m \in (L + 1) .. M
    <3>1. i \in Nat /\ i <= N + (F - L)
      BY <1>4
    <3>2. m \in Nat /\ 1 <= m /\ m <= F - L /\ N + m = i
      BY <1>2, <1>4, <1>5, <2>1, <3>1
    <3>3. L + m <= F /\ F <= M /\ L + m <= M
      BY <1>2, <1>3, <3>2
    <3>4. m <= M - L
      BY <1>2, <3>2, <3>3
    <3>5. L + m \in 1 .. M /\ L + m \in (L + 1) .. M
      BY <1>2, <3>2, <3>3
    <3>6. QED
      BY <1>2, <3>2, <3>3, <3>4, <3>5
  <2>3. LooseLen = M - L
    BY <1>1 DEF LooseLen
  <2>4. Writes[FirmLen + m] = wlog[active][Firm(active) + m]
    BY <2>2, <2>3 DEF LooseAreLast
  <2>5. W[i] \in 1 .. Len(ops)
    <3>1. i \in 1 .. Len(W)
      BY <1>2, <1>4
    <3>2. QED
      BY <1>2, <3>1, ElementOfSeq
  <2>6. QED
    BY <1>1, <1>2, <2>1, <2>2, <2>4, <2>5
<1>6. PICK S : S = {i \in 1 .. n : N < i /\ ops[W[i]].key = k}
  OBVIOUS
<1>7. ASSUME NEW i \in Loose, i <= F PROVE N + (i - L) \in 1 .. n /\ N < N + (i - L) /\ W[N + (i - L)] = wlog[a][i]
  <2>1. PICK j : j = N + (i - L)
    OBVIOUS
  <2>2. j \in 1 .. n /\ N < j /\ L + (j - N) = i
    <3>1. i \in Nat /\ L < i /\ i <= F
      BY <1>2, <1>7
    <3>2. N < j /\ L + (j - N) = i
      BY <1>2, <2>1, <3>1
    <3>3. j \in Nat /\ 1 <= j /\ j <= n
      BY <1>2, <1>4, <2>1, <3>1
    <3>4. QED
      BY <1>4, <3>2, <3>3
  <2>3. QED
    BY <1>5, <2>1, <2>2
<1>8. CASE S = {}
  <2>1. PICK d \in 0 .. Len(ops) : Solid(k, d) /\ Value(d) = After(Writes, FirmLen, k)
    BY DEF FirmIsSolid
  <2>2. d \in Nat
    BY <1>2
  <2>3. Kept(k, d)'
    BY <2>1, KeptNext DEF Solid
  <2>4. \A i \in Loose : i <= Firm(a)' => ops[wlog[a][i]].key # k
    BY <1>6, <1>7, <1>8
  <2>5. Bounded(k, d)'
    BY <1>s, <2>1, <2>2, <2>4, BoundedUp DEF Solid
  <2>6. After(W, N, k) = After(W, n, k)
    <3>1. N \in 0 .. n
      BY <1>2, <1>4
    <3>2. \A i \in 1 .. n : N < i => ops[W[i]].key # k
      BY <1>6, <1>8
    <3>3. QED
      BY <1>4, <3>1, <3>2, AfterSame
  <2>7. QED
    BY <1>1, <2>1, <2>3, <2>5, <2>6 DEF Solid
<1>9. CASE S # {}
  <2>1. PICK q : q \in S /\ \A x \in S : x <= q
    <3>1. S \subseteq 0 .. n
      BY <1>4, <1>6
    <3>2. QED
      BY <1>4, <1>9, <3>1, MaxOfBounded
  <2>2. q \in 1 .. n /\ N < q /\ ops[W[q]].key = k /\ q \in Nat
    BY <1>4, <1>6, <2>1
  <2>3. PICK p, w : p = L + (q - N) /\ w = W[q]
    OBVIOUS
  <2>4. /\ p \in Loose /\ p \in 1 .. M /\ p <= F /\ w = wlog[a][p] /\ w \in 1 .. Len(ops)
        /\ ops[w].key = k /\ w \in Nat /\ w \in 0 .. Len(ops) /\ L < p
    <3>1. p \in Loose /\ p \in 1 .. M /\ p <= F /\ w = wlog[a][p] /\ w \in 1 .. Len(ops)
      BY <1>5, <2>2, <2>3
    <3>2. ops[w].key = k
      BY <2>2, <2>3
    <3>3. L < p
      BY <1>2, <3>1
    <3>4. w \in Nat /\ w \in 0 .. Len(ops)
      BY <1>2, <3>1
    <3>5. QED
      BY <3>1, <3>2, <3>3, <3>4
  <2>5. Kept(k, w)'
    BY <1>s, <2>4, FirmedIsKept
  <2>6. Newest(p, w)
    BY <1>s, <2>4 DEF LooseAreNewest
  <2>i. /\ \A g \in Seqs : \A j \in 1 .. Len(wlog[g]) : wlog[g][j] \in Nat
        /\ \A l \in Levels, s \in Seqs : sst[l][s][k] \in Nat
        /\ gone[k] \in Nat
    BY <1>2, <1>s, IssuedAreOlder
  <2>7. Bounded(k, w)
    <3>1. ASSUME NEW g \in Seqs, NEW i \in Entries(g, k), i <= Firm(g) PROVE wlog[g][i] <= w
      <4>1. i \in 1 .. Len(wlog[g]) /\ Len(wlog[g]) \in Nat
        BY Numbers DEF Entries
      <4>2. g = active => i < p
        BY <1>1, <1>2, <2>4, <3>1, <4>1
      <4>3. wlog[g][i] < w
        BY <2>6, <4>1, <4>2 DEF Newest
      <4>4. QED
        BY <2>4, <2>i, <4>1, <4>3
    <3>2. \A l \in Levels, s \in Seqs : sst[l][s][k] <= w
      BY <2>4, <2>i, <2>6 DEF Newest
    <3>3. gone[k] <= w
      BY <2>4, <2>i, <2>6 DEF Newest
    <3>4. QED
      BY <3>1, <3>2, <3>3 DEF Bounded
  <2>8. ASSUME NEW i \in Loose, i <= Firm(a)', ops[wlog[a][i]].key = k PROVE wlog[a][i] <= w
    <3>1. N + (i - L) \in S
      BY <1>6, <1>7, <2>8
    <3>2. N + (i - L) <= q
      BY <2>1, <3>1
    <3>3. i <= p /\ i \in 1 .. M /\ i \in Nat
      <4>1. i \in (L + 1) .. M
        BY <1>2
      <4>2. i \in Nat /\ i \in 1 .. M
        BY <1>2, <4>1
      <4>3. QED
        BY <1>2, <2>2, <2>3, <3>2, <4>2
    <3>4. CASE i = p
      BY <2>4, <3>4
    <3>5. CASE i < p
      <4>1. wlog[a][i] < w /\ wlog[a][i] \in Nat
        BY <1>1, <1>2, <2>6, <2>i, <3>3, <3>5 DEF Newest
      <4>2. QED
        BY <2>4, <4>1
    <3>6. QED
      BY <2>4, <3>3, <3>4, <3>5
  <2>9. Bounded(k, w)'
    BY <1>s, <2>4, <2>7, <2>8, BoundedUp
  <2>10. After(W, n, k) = Value(w)
    <3>1. \A i \in 1 .. n : q < i => ops[W[i]].key # k
      <4>1. SUFFICES ASSUME NEW i \in 1 .. n, q < i, ops[W[i]].key = k PROVE FALSE
        OBVIOUS
      <4>2. i \in S
        BY <1>2, <1>6, <2>2, <4>1
      <4>3. QED
        BY <1>4, <2>1, <2>2, <4>1, <4>2
    <3>2. QED
      BY <1>4, <2>2, <2>3, <3>1, AfterLast
  <2>11. QED
    BY <2>4, <2>5, <2>9, <2>10 DEF Solid
<1>10. QED
  BY <1>8, <1>9

\* How the writes and the loose ones among them change while the engine is up.
LEMMA WritesUp ==
    ASSUME OnlyProcessesDie, NoLostAnswers, Inv, Inv', DurableInv, DurableInv', AllHanded,
           LooseAreLast, PromisedAreFirm, RefNext, mode = "up", mode' = "up",
           NEW a, a = active, NEW W, W = Writes
    PROVE  /\ Firm(a) <= Firm(a)' /\ FirmLen' = FirmLen + (Firm(a)' - Firm(a))
           /\ hist' \in {hist, W}
           /\ \/ /\ Writes' = W /\ ((active' = a /\ wlog'[a] = wlog[a]) \/ LooseLen' = 0)
              \/ /\ Writes' = Append(W, Len(ops) + 1) /\ hist' = hist /\ W = hist
                 /\ active' = a /\ Firm(a)' = Firm(a) /\ Len(wlog'[a]) = Len(wlog[a]) + 1
                 /\ \A i \in 1 .. Len(wlog[a]) : wlog'[a][i] = wlog[a][i]
                 /\ wlog'[a][Len(wlog[a]) + 1] = Len(ops) + 1
                 /\ \E k \in Keys, del \in BOOLEAN : Write(k, del)
<1>n. [Next]_vars
  BY DEF RefNext
<1>h. hist' = IF wr.pc = "apply" /\ wr'.pc # "apply" THEN hist \o Underway ELSE hist
  BY DEF RefNext
<1>1. /\ W \in Seq(1 .. Len(ops)) /\ hist \in Seq(1 .. Len(ops)) /\ Len(ops) \in Nat
      /\ Len(W) \in Nat /\ FirmLen \in Nat /\ FirmLen = Len(W) - LooseLen
      /\ wr.pc # "apply" => W = hist
      /\ wr.pc = "apply" => W = hist \o Underway
  BY WritesType DEF Writes, FirmLen
<1>2. /\ a \in Seqs /\ Firm(a) \in Nat /\ Len(wlog[a]) \in Nat /\ wos[a] \in Nat
      /\ Firm(a) <= wos[a] /\ wos[a] <= Len(wlog[a])
      /\ wr.pc # "apply" => Firm(a) = wos[a]
      /\ LooseLen = Len(wlog[a]) - Firm(a)
  BY FirmRange, Numbers DEF FirmShape, LooseLen
<1>a. /\ \A z \in Nat : Len(W) - (Len(wlog[a]) - z) = FirmLen + (z - Firm(a))
      /\ (Len(W) + 1) - (LooseLen + 1) = FirmLen
  <2>1. PICK l, n, f : l = LooseLen /\ n = Len(wlog[a]) /\ f = Firm(a)
    OBVIOUS
  <2>2. PICK v, u : v = Len(W) /\ u = FirmLen
    OBVIOUS
  <2>3. l = n - f /\ u = v - l /\ v \in Nat /\ n \in Nat /\ f \in Nat
    BY <1>1, <1>2, <2>1, <2>2
  <2>4. (\A z \in Nat : v - (n - z) = u + (z - f)) /\ (v + 1) - (l + 1) = u
    BY <2>3
  <2>5. QED
    BY <2>1, <2>2, <2>4
<1>3. wos \in [Seqs -> Nat] /\ wlog \in [Seqs -> Seq(1 .. MaxWrites)] /\ wr \in WrType
  BY DEF Inv, TypeOK, TypeDirectory, TypeProcess
<1>4. ASSUME active' = a
      PROVE  LooseLen' = Len(wlog'[a]) - Firm(a)'
  BY <1>4 DEF LooseLen, Firm
<1>5. ASSUME active' = a, wr'.pc # "apply" PROVE Firm(a)' = wos'[a]
  BY <1>5 DEF Firm
<1>6. wr'.pc # "apply" => Writes' = hist'
  <2>1. hist' \in Seq(1 .. Len(ops))
    <3>1. CASE wr.pc = "apply" /\ wr'.pc # "apply"
      BY <1>h, <1>1, <3>1
    <3>2. CASE ~ (wr.pc = "apply" /\ wr'.pc # "apply")
      BY <1>h, <1>1, <3>2
    <3>3. QED
      BY <3>1, <3>2
  <2>2. QED
    BY <2>1 DEF Writes, Underway
<1>7. ASSUME NEW k \in Keys, NEW del \in BOOLEAN, Write(k, del)
      PROVE  /\ hist' = hist /\ W = hist /\ Writes' = Append(W, Len(ops) + 1)
             /\ active' = a /\ Firm(a)' = Firm(a) /\ Len(wlog'[a]) = Len(wlog[a]) + 1
             /\ \A i \in 1 .. Len(wlog[a]) : wlog'[a][i] = wlog[a][i]
             /\ wlog'[a][Len(wlog[a]) + 1] = Len(ops) + 1
             /\ FirmLen' = FirmLen
  <2>1. /\ wr.pc = "free" /\ active' = a /\ wr'.pc = "apply" /\ wr'.w = Len(ops) + 1
        /\ wos' = (IF SyncPerWrite THEN [wos EXCEPT ![active] = Len(wlog[active]) + 1] ELSE wos)
    BY <1>7 DEF Write
  <2>2. /\ \A i \in 1 .. Len(wlog[a]) : wlog'[a][i] = wlog[a][i]
        /\ Len(wlog'[a]) = Len(wlog[a]) + 1 /\ wlog'[a][Len(wlog[a]) + 1] = Len(ops) + 1
    BY <1>2, <1>7, LogExtended DEF Write
  <2>3. hist' = hist /\ W = hist
    BY <1>h, <1>1, <2>1
  <2>4. Writes' = hist \o <<Len(ops) + 1>>
    BY <2>1, <2>3 DEF Writes, Underway
  <2>5. Writes' = Append(W, Len(ops) + 1) /\ Len(Writes') = Len(W) + 1
    <3>1. PICK w : w = Len(ops) + 1
      OBVIOUS
    <3>2. w \in Nat /\ W \in Seq(Nat)
      BY <1>1, <3>1
    <3>3. W \o <<w>> = Append(W, w) /\ Len(W \o <<w>>) = Len(W) + 1
      BY <3>2
    <3>4. QED
      BY <2>3, <2>4, <3>1, <3>3
  <2>6. Firm(a)' = Firm(a)
    <3>1. Firm(a) = wos[a]
      BY <1>2, <2>1
    <3>2. Firm(a)' = IF wos'[a] = Len(wlog'[a]) THEN wos'[a] - 1 ELSE wos'[a]
      BY <2>1 DEF Firm
    <3>3. CASE SyncPerWrite
      <4>1. wos[a] = Len(wlog[a])
        BY <3>3 DEF PromisedAreFirm
      <4>2. wos'[a] = Len(wlog[a]) + 1
        BY <1>2, <1>3, <2>1, <3>3
      <4>3. QED
        BY <1>2, <2>2, <3>1, <3>2, <4>1, <4>2
    <3>4. CASE ~ SyncPerWrite
      <4>1. wos'[a] = wos[a]
        BY <2>1, <3>4
      <4>2. QED
        BY <1>2, <2>2, <3>1, <3>2, <4>1
    <3>5. QED
      BY <3>3, <3>4
  <2>7. LooseLen' = LooseLen + 1
    BY <1>2, <1>4, <2>1, <2>2, <2>6
  <2>8. FirmLen' = FirmLen
    <3>1. FirmLen' = Len(Writes') - LooseLen'
      BY DEF FirmLen
    <3>2. QED
      BY <1>a, <2>5, <2>7, <3>1
  <2>9. QED
    BY <2>1, <2>2, <2>3, <2>5, <2>6, <2>8
<1>8. ASSUME NEW k \in Keys, NEW del \in BOOLEAN PROVE ~ WriteSyncFails(k, del)
  BY DEF WriteSyncFails, NoLostAnswers
<1>9. ASSUME Writes' = W, active' = a, wlog'[a] = wlog[a], Firm(a)' \in Nat, Firm(a) <= Firm(a)'
      PROVE  FirmLen' = FirmLen + (Firm(a)' - Firm(a))
  <2>1. FirmLen' = Len(W) - LooseLen'
    BY <1>9 DEF FirmLen
  <2>2. LooseLen' = Len(wlog[a]) - Firm(a)'
    BY <1>4, <1>9
  <2>3. QED
    BY <1>a, <1>2, <1>9, <2>1, <2>2
<1>10. ASSUME NEW freeze \in BOOLEAN, Apply(freeze)
       PROVE  /\ hist' = W /\ Writes' = W /\ active' = a /\ wlog'[a] = wlog[a]
              /\ Firm(a)' \in Nat /\ Firm(a) <= Firm(a)'
  <2>1. UNCHANGED <<active, wos, wlog>> /\ wr.pc = "apply"
    BY <1>10, ApplyWrites
  <2>2. wr'.pc # "apply"
    <3>1. wr' = [wr EXCEPT !.pc = "rotate"] \/ wr' = WrFree
      BY <1>10 DEF Apply
    <3>2. QED
      BY <1>3, <3>1 DEF WrType, WrFree
  <2>3. QED
    BY <1>h, <1>1, <1>2, <1>5, <1>6, <2>1, <2>2
<1>11. ASSUME NEW c \in Clients, FlushSync(c)
       PROVE  /\ hist' = hist /\ Writes' = W /\ active' = a /\ wlog'[a] = wlog[a]
              /\ Firm(a)' \in Nat /\ Firm(a) <= Firm(a)'
  <2>1. /\ UNCHANGED <<active, wlog>> /\ wos' = Drained(active)
        /\ wr.pc # "apply" /\ wr'.pc # "apply"
    BY <1>11 DEF FlushSync
  <2>2. wos'[a] = Len(wlog[a])
    BY <1>2, <1>3, <2>1 DEF Drained
  <2>3. QED
    BY <1>h, <1>1, <1>2, <1>5, <1>6, <2>1, <2>2
<1>12. CASE Swap
  <2>1. PICK b : b = wr.new
    OBVIOUS
  <2>2. /\ UNCHANGED wlog /\ active' = b /\ wos' = Drained(active) /\ b \in Seqs /\ b # a
        /\ wr.pc = "swap" /\ wr'.pc = "free"
    <3>1. b \in Seqs /\ a < b /\ a \in Nat /\ wr.pc = "swap"
      BY <1>12, <2>1, Numbers DEF Swap
    <3>2. QED
      BY <1>12, <2>1, <3>1 DEF Swap, WrFree
  <2>3. wlog[b] = << >>
    BY <2>1, <2>2 DEF DurableInv, LiveLogs
  <2>4. Firm(b)' = 0
    <3>1. Firm(b)' \in Nat /\ Firm(b)' <= Len(wlog'[b])
      BY <2>2, FirmRangeNext DEF FirmShape
    <3>2. QED
      BY <2>2, <2>3, <3>1
  <2>5. LooseLen' = 0
    BY <2>2, <2>3, <2>4 DEF LooseLen, Firm
  <2>6. Firm(a)' = Len(wlog[a])
    BY <2>2 DEF Firm
  <2>7. hist' = hist /\ Writes' = W
    BY <1>h, <1>1, <1>6, <2>2
  <2>8. FirmLen' = Len(W)
    BY <1>1, <2>5, <2>7 DEF FirmLen
  <2>9. FirmLen' = FirmLen + (Firm(a)' - Firm(a)) /\ Firm(a) <= Firm(a)'
    <3>1. FirmLen' = Len(W) - (Len(wlog[a]) - Len(wlog[a]))
      BY <1>1, <1>2, <2>8
    <3>2. FirmLen' = FirmLen + (Len(wlog[a]) - Firm(a))
      BY <1>a, <1>2, <3>1
    <3>3. Firm(a) <= Len(wlog[a])
      BY <1>2
    <3>4. QED
      BY <2>6, <3>2, <3>3
  <2>10. QED
    BY <2>5, <2>7, <2>9
<1>13. CASE StaysPut
  <2>1. /\ wlog'[a] = wlog[a] /\ active' = a /\ Firm(a)' = Firm(a)
        /\ Underway' = Underway /\ (wr.pc = "apply" => wr'.pc = "apply")
    BY <1>13, StaysPutKeeps
  <2>2. hist' = hist /\ Writes' = W
    BY <1>h, <2>1 DEF Writes
  <2>3. Firm(a)' \in Nat /\ Firm(a) <= Firm(a)'
    BY <1>2, <2>1
  <2>4. QED
    BY <1>9, <2>1, <2>2, <2>3
<1>14. ~ Close /\ ~ Crash("kill")
  BY DEF Close, Crash, ProcessGone
<1>15. CASE \E k \in Keys, del \in BOOLEAN : Write(k, del)
  <2>1. Firm(a) <= Firm(a)' /\ FirmLen' = FirmLen + (Firm(a)' - Firm(a))
    BY <1>1, <1>2, <1>7, <1>15
  <2>2. QED
    BY <1>7, <1>15, <2>1
<1>16. QED
  BY <1>n, <1>8, <1>9, <1>10, <1>11, <1>12, <1>13, <1>14, <1>15, UpSteps

\* The writes that are accounted for after a stop include any first n that give the
\* answers of the directory.
LEMMA Accounts ==
    ASSUME Len(ops) \in Nat, RefNext, mode' = "down", NEW W \in Seq(1 .. Len(ops)), W = Writes,
           NEW n \in 0 .. Len(W), \A k \in Keys : Value(Recovered(k)') = After(W, n, k)
    PROVE  \E m \in 0 .. Len(W) :
             /\ n <= m /\ hist' = SubSeq(W, 1, m) /\ SubSeq(W, 1, m) \in Seq(1 .. Len(ops))
             /\ Len(SubSeq(W, 1, m)) = m /\ \A i \in 1 .. m : SubSeq(W, 1, m)[i] = W[i]
             /\ \A k \in Keys : After(W, m, k) = After(W, n, k)
<1>0. Len(W) \in Nat
  OBVIOUS
<1>1. PICK answers : /\ answers = [k \in Keys |-> Value(Recovered(k)')]
                     /\ hist' = Accounted(W, answers)
  BY DEF RefNext, Writes
<1>2. ASSUME NEW m \in 0 .. Len(W)
      PROVE  /\ SubSeq(W, 1, m) \in Seq(1 .. Len(ops)) /\ Len(SubSeq(W, 1, m)) = m
             /\ \A i \in 1 .. m : SubSeq(W, 1, m)[i] = W[i]
             /\ KV!View(OpsOf(SubSeq(W, 1, m))) = [k \in Keys |-> After(W, m, k)]
  <2>1. PICK V : V = SubSeq(W, 1, m)
    OBVIOUS
  <2>2. V \in Seq(1 .. Len(ops)) /\ Len(V) = m /\ \A i \in 1 .. m : V[i] = W[i]
    BY <2>1
  <2>3. ASSUME NEW k \in Keys PROVE After(V, m, k) = After(W, m, k)
    <3>1. m \in Nat
      BY <1>0
    <3>2. m \in 0 .. m /\ \A i \in 1 .. m : ~ (m < i)
      BY <3>1
    <3>3. \A i \in 1 .. m : m < i => ops[W[i]].key # k
      BY <3>2
    <3>4. QED
      BY <2>2, <3>1, <3>2, <3>3, AfterSame
  <2>4. KV!View(OpsOf(V)) = [k \in Keys |-> After(V, m, k)]
    BY <2>2, ViewIs
  <2>5. [k \in Keys |-> After(V, m, k)] = [k \in Keys |-> After(W, m, k)]
    BY <2>3
  <2>6. QED
    BY <2>1, <2>2, <2>4, <2>5
<1>3. PICK fits : /\ fits = {m \in 0 .. Len(W) : KV!View(OpsOf(SubSeq(W, 1, m))) = answers}
                  /\ hist' = SubSeq(W, 1, Max(fits \cup {0}))
  BY <1>1 DEF Accounted
<1>4. n \in fits
  BY <1>1, <1>2, <1>3
<1>5. Max(fits \cup {0}) \in fits \cup {0} /\ \A x \in fits \cup {0} : x <= Max(fits \cup {0})
  <2>1. fits \cup {0} \subseteq 0 .. Len(W) /\ fits \cup {0} # {}
    BY <1>0, <1>3
  <2>2. QED
    BY <1>0, <2>1, MaxOfBounded
<1>6. PICK m : m = Max(fits \cup {0})
  OBVIOUS
<1>7. n <= m /\ m \in fits
  <2>1. n <= m /\ m \in fits \cup {0}
    BY <1>4, <1>5, <1>6
  <2>2. m = 0 => n = 0
    BY <2>1
  <2>3. QED
    BY <1>4, <2>1, <2>2
<1>8. m \in 0 .. Len(W) /\ KV!View(OpsOf(SubSeq(W, 1, m))) = answers
  BY <1>3, <1>7
<1>9. ASSUME NEW k \in Keys PROVE After(W, m, k) = After(W, n, k)
  <2>1. [q \in Keys |-> After(W, m, q)] = [q \in Keys |-> Value(Recovered(q)')]
    BY <1>1, <1>2, <1>8
  <2>2. [q \in Keys |-> After(W, m, q)][k] = [q \in Keys |-> Value(Recovered(q)')][k]
    BY <2>1
  <2>3. After(W, m, k) = Value(Recovered(k)')
    BY <2>2
  <2>4. QED
    BY <2>3
<1>10. QED
  BY <1>2, <1>3, <1>6, <1>7, <1>8, <1>9

\* A stop of an engine that is up keeps all that is firm, and a part of the rest.
LEMMA WritesStop ==
    ASSUME NoLosingFaults, OnlyProcessesDie, Inv, Inv', DurableInv, DurableInv', SuffixInv, SuffixInv',
           LooseAreApplied, LooseAreLast, FirmIsSolid, RefNext, mode = "up", mode' = "down",
           NEW W, W = Writes
    PROVE  \E m \in 0 .. Len(W) :
             /\ FirmLen <= m /\ hist' = SubSeq(W, 1, m) /\ hist' \in Seq(1 .. Len(ops)) /\ UNCHANGED ops
             /\ Len(hist') = m /\ Writes' = hist' /\ LooseLen' = 0 /\ FirmLen' = m
             /\ \A k \in Keys : \E e \in 0 .. Len(ops) : Solid(k, e)' /\ Value(e) = After(hist', m, k)
<1>n. [Next]_vars
  BY DEF RefNext
<1>s. AllHanded /\ GoneAreDeletes'
  BY DEF SuffixInv
<1>1. /\ W \in Seq(1 .. Len(ops)) /\ Len(ops) \in Nat /\ Len(W) \in Nat /\ FirmLen \in Nat
      /\ FirmLen + LooseLen = Len(W) /\ LooseLen \in Nat
  BY WritesType
<1>2. PICK a, F : a = active /\ F = Firm(a)'
  OBVIOUS
<1>3. /\ a \in Seqs /\ UNCHANGED ops /\ F = Len(wlog'[a])
      /\ Len(wlog'[a]) \in Nat /\ Len(wlog'[a]) <= Len(wlog[a]) /\ wos[a] <= Len(wlog'[a])
      /\ Len(wlog[a]) \in Nat /\ wos[a] \in Nat
  BY <1>n, <1>s, <1>2, StopLeaves DEF Firm
<1>4. Firm(a) \in Nat /\ Firm(a) <= F /\ F <= Len(wlog[a]) /\ F \in Nat
  <2>1. Firm(a) \in Nat /\ Firm(a) <= wos[a]
    BY <1>2, FirmRange DEF FirmShape
  <2>2. QED
    BY <1>3, <2>1
<1>5. PICK n : n = FirmLen + (F - Firm(a))
  OBVIOUS
<1>6. n \in 0 .. Len(W) /\ FirmLen <= n
  <2>1. PICK l, f, u, v, x : l = LooseLen /\ f = Firm(a) /\ u = FirmLen /\ v = Len(W) /\ x = Len(wlog[a])
    OBVIOUS
  <2>2. l = x - f
    BY <1>2, <2>1 DEF LooseLen
  <2>3. f \in Nat /\ f <= F /\ F <= x /\ F \in Nat /\ x \in Nat /\ u \in Nat /\ u + l = v /\ n = u + (F - f)
    BY <1>1, <1>3, <1>4, <1>5, <2>1
  <2>4. n \in Nat /\ n <= v /\ u <= n
    BY <2>2, <2>3
  <2>5. QED
    BY <1>1, <2>1, <2>4
<1>7. ASSUME NEW k \in Keys PROVE \E e \in 0 .. Len(ops) : Solid(k, e)' /\ Value(e) = After(W, n, k)
  BY <1>n, <1>2, <1>4, <1>5, FirmedSolid
<1>8. ASSUME NEW k \in Keys PROVE Value(Recovered(k)') = After(W, n, k)
  <2>1. PICK e \in 0 .. Len(ops) : Solid(k, e)' /\ Value(e) = After(W, n, k)
    BY <1>7
  <2>2. e \in 0 .. Len(ops')
    BY <1>3
  <2>3. Value(Recovered(k))' = Value(e)'
    BY <1>s, <2>1, <2>2, SolidAnswerNext
  <2>4. QED
    BY <1>3, <2>1, <2>3 DEF Value, IsDelete
<1>9. PICK m \in 0 .. Len(W) :
             /\ n <= m /\ hist' = SubSeq(W, 1, m) /\ SubSeq(W, 1, m) \in Seq(1 .. Len(ops))
             /\ Len(SubSeq(W, 1, m)) = m /\ \A i \in 1 .. m : SubSeq(W, 1, m)[i] = W[i]
             /\ \A k \in Keys : After(W, m, k) = After(W, n, k)
  BY <1>1, <1>6, <1>8, Accounts
<1>10. wr'.pc # "apply" /\ LooseLen' = 0
  BY DEF Inv, Quiet, LooseLen
<1>11. Writes' = hist' /\ Len(hist') = m /\ FirmLen' = m /\ FirmLen <= m
  <2>1. Writes' = hist'
    BY <1>9, <1>10 DEF Writes, Underway
  <2>2. m \in Nat /\ FirmLen <= m
    BY <1>1, <1>6, <1>9
  <2>3. QED
    BY <1>9, <1>10, <2>1, <2>2 DEF FirmLen
<1>12. ASSUME NEW k \in Keys
       PROVE  \E e \in 0 .. Len(ops) : Solid(k, e)' /\ Value(e) = After(hist', m, k)
  <2>1. PICK V : V = hist'
    OBVIOUS
  <2>2. /\ m \in Nat /\ m \in 0 .. m /\ (\A i \in 1 .. m : V[i] = W[i])
        /\ \A i \in 1 .. m : m < i => ops[W[i]].key # k
    BY <1>1, <1>9, <2>1
  <2>3. After(V, m, k) = After(W, m, k)
    BY <2>2, AfterSame
  <2>4. QED
    BY <1>7, <1>9, <2>1, <2>3
<1>13. QED
  BY <1>3, <1>9, <1>10, <1>11, <1>12

\* A step of an engine that is not up changes none of the writes.
LEMMA WritesDown ==
    ASSUME NoLosingFaults, OnlyProcessesDie, Inv, Inv', DurableInv, DurableInv', SuffixInv, SuffixInv',
           LooseAreLast, FirmIsSolid, RefNext, mode # "up"
    PROVE  /\ hist' = hist /\ Writes = hist /\ Writes' = hist /\ UNCHANGED ops /\ wr'.pc = "free"
           /\ LooseLen' = 0 /\ FirmLen' = Len(hist)
           /\ mode' = "up" => wos'[active'] = Len(wlog'[active'])
           /\ \A k \in Keys : \E e \in 0 .. Len(ops) :
                Solid(k, e) /\ Solid(k, e)' /\ Value(e) = After(hist, Len(hist), k)
<1>n. [Next]_vars
  BY DEF RefNext
<1>s. AllHanded /\ GoneAreDeletes'
  BY DEF SuffixInv
<1>1. /\ hist \in Seq(1 .. Len(ops)) /\ Len(ops) \in Nat /\ Len(hist) \in Nat
      /\ Writes = hist /\ FirmLen = Len(hist) /\ wr.pc = "free"
  BY WritesType
<1>2. UNCHANGED ops /\ wr'.pc = "free"
  <2>1. UNCHANGED ops
    BY <1>n, DownSteps DEF Recover, Reback, RebackFails, CleanOld, Crash, ghosts
  <2>2. CASE mode' = "up"
    <3>1. Reback \/ CleanOld
      BY <1>n, <2>2, DownSteps DEF Recover, RebackFails, Crash, ProcessGone
    <3>2. wr' = wr
      BY <3>1 DEF Reback, CleanOld
    <3>3. QED
      BY <1>1, <2>1, <3>2
  <2>3. CASE mode' # "up"
    BY <2>1, <2>3 DEF Inv, Quiet
  <2>4. QED
    BY <2>2, <2>3
<1>3. ASSUME NEW k \in Keys
      PROVE  \E e \in 0 .. Len(ops) :
               Solid(k, e) /\ Solid(k, e)' /\ Value(e) = After(hist, Len(hist), k)
  <2>1. PICK d \in 0 .. Len(ops) : Solid(k, d) /\ Value(d) = After(hist, Len(hist), k)
    BY <1>1 DEF FirmIsSolid
  <2>2. d \in Nat
    BY <1>1
  <2>3. Kept(k, d)'
    BY <1>n, <2>1, KeptNext DEF Solid
  <2>4. Bounded(k, d)'
    BY <1>n, <1>s, <2>1, <2>2, BoundedDown DEF Solid
  <2>5. QED
    BY <2>1, <2>3, <2>4 DEF Solid
<1>4. hist' = hist
  <2>1. CASE mode' # "down"
    BY <1>1, <2>1 DEF RefNext
  <2>2. CASE mode' = "down"
    <3>1. PICK W : W = hist
      OBVIOUS
    <3>2. ASSUME NEW k \in Keys PROVE Value(Recovered(k)') = After(W, Len(W), k)
      <4>1. PICK e \in 0 .. Len(ops) : Solid(k, e)' /\ Value(e) = After(W, Len(W), k)
        BY <1>3, <3>1
      <4>2. Value(Recovered(k))' = Value(e)'
        BY <1>2, <1>s, <2>2, <4>1, SolidAnswerNext
      <4>3. QED
        BY <1>2, <4>1, <4>2 DEF Value, IsDelete
    <3>3. W \in Seq(1 .. Len(ops)) /\ W = Writes /\ Len(W) \in Nat /\ Len(W) \in 0 .. Len(W)
      BY <1>1, <3>1
    <3>4. PICK m \in 0 .. Len(W) : Len(W) <= m /\ hist' = SubSeq(W, 1, m)
      BY <1>1, <2>2, <3>2, <3>3, Accounts
    <3>5. m = Len(W)
      BY <3>3, <3>4
    <3>6. SubSeq(W, 1, Len(W)) = W
      BY <3>3
    <3>7. QED
      BY <3>1, <3>4, <3>5, <3>6
  <2>3. QED
    BY <2>1, <2>2
<1>5. Writes' = hist
  BY <1>1, <1>2, <1>4 DEF Writes, Underway
<1>6. LooseLen' = 0 /\ (mode' = "up" => wos'[active'] = Len(wlog'[active']))
  <2>1. CASE mode' # "up"
    BY <2>1 DEF LooseLen
  <2>2. CASE mode' = "up"
    <3>1. /\ active' \in Seqs /\ Firm(active)' \in Nat /\ Firm(active)' = wos'[active']
          /\ wos'[active'] <= Len(wlog'[active'])
      BY <1>2, <2>2, FirmRangeNext DEF FirmShape
    <3>2. Len(wlog'[active']) \in Nat
      <4>1. wlog' \in [Seqs -> Seq(1 .. MaxWrites)]
        BY DEF Inv, TypeOK, TypeDirectory
      <4>2. QED
        BY <3>1, <4>1
    <3>3. Loose' = {}
      BY <1>n, <1>s, <2>2, LooseSteps
    <3>4. Firm(active)' = Len(wlog'[active'])
      <4>1. PICK x, y : x = Firm(active)' /\ y = Len(wlog'[active'])
        OBVIOUS
      <4>2. x \in Nat /\ y \in Nat /\ x <= y /\ (x + 1) .. y = {}
        BY <3>1, <3>2, <3>3, <4>1 DEF Loose
      <4>3. y \notin (x + 1) .. y
        BY <4>2
      <4>4. QED
        BY <4>1, <4>2, <4>3
    <3>5. QED
      BY <2>2, <3>1, <3>2, <3>4 DEF LooseLen
  <2>3. QED
    BY <2>1, <2>2
<1>7. FirmLen' = Len(hist)
  BY <1>1, <1>5, <1>6 DEF FirmLen
<1>8. QED
  BY <1>1, <1>2, <1>3, <1>4, <1>5, <1>6, <1>7

-----------------------------------------------------------------------------
(* Every step preserves the parts of RefInv.                               *)

LEMMA AfterAgree ==
    \A n \in Nat, V \in Seq(Nat), W \in Seq(Nat), k \in Keys :
      (\A i \in 1 .. n : V[i] = W[i]) => After(V, n, k) = After(W, n, k)
<1>1. SUFFICES ASSUME NEW n \in Nat, NEW V \in Seq(Nat), NEW W \in Seq(Nat), NEW k \in Keys,
                      \A i \in 1 .. n : V[i] = W[i]
               PROVE  After(V, n, k) = After(W, n, k)
  OBVIOUS
<1>2. n \in 0 .. n /\ \A i \in 1 .. n : n < i => ops[W[i]].key # k
  OBVIOUS
<1>3. QED
  BY <1>1, <1>2, AfterSame

LEMMA AfterAgreeNext ==
    \A n \in Nat, V \in Seq(Nat), W \in Seq(Nat), k \in Keys :
      (\A i \in 1 .. n : V[i] = W[i]) => After(V, n, k)' = After(W, n, k)'
<1>1. (\A n \in Nat, V \in Seq(Nat), W \in Seq(Nat), k \in Keys :
         (\A i \in 1 .. n : V[i] = W[i]) => After(V, n, k) = After(W, n, k))'
  BY AfterAgree, PTL
<1>2. QED
  BY <1>1

LEMMA LooseAreAppliedNext ==
    ASSUME OnlyProcessesDie, NoLostAnswers, Inv, Inv', DurableInv, DurableInv', AllHanded,
           LooseAreApplied, [Next]_vars
    PROVE  LooseAreApplied'
<1>0. SUFFICES ASSUME mode' = "up", NEW i \in Loose'
               PROVE  \/ mem'[active'][ops'[wlog'[active'][i]].key] >= wlog'[active'][i]
                      \/ wr'.pc = "apply" /\ wlog'[active'][i] = wr'.w
  BY DEF LooseAreApplied
<1>1. PICK a, w : a = active /\ w = wlog'[a][i]
  OBVIOUS
<1>2. /\ mode = "up" /\ active' = a /\ a \in Seqs
      /\ \/ i \in Loose /\ w = wlog[a][i]
         \/ /\ w = Len(ops) + 1
            /\ \E k \in Keys, del \in BOOLEAN : Write(k, del) \/ WriteSyncFails(k, del)
  BY <1>0, <1>1, LooseSteps
<1>3. ASSUME NEW k \in Keys, NEW del \in BOOLEAN, w = Len(ops) + 1, Write(k, del) \/ WriteSyncFails(k, del)
      PROVE  wr'.pc = "apply" /\ w = wr'.w
  BY <1>3 DEF Write, WriteSyncFails, NoLostAnswers
<1>4. ASSUME i \in Loose, w = wlog[a][i]
      PROVE  mem'[a][ops'[w].key] >= w \/ (wr'.pc = "apply" /\ w = wr'.w)
  <2>1. w \in 1 .. Len(ops) /\ w \in Nat /\ Len(ops) \in Nat
    <3>1. wlog[a] \in Seq(1 .. Len(ops)) /\ Len(ops) \in Nat
      BY <1>2, Numbers DEF Inv, Issued
    <3>2. i \in 1 .. Len(wlog[a])
      <4>1. Firm(active) \in Nat /\ Len(wlog[a]) \in Nat
        BY <1>2, FirmRange, Numbers DEF FirmShape
      <4>2. QED
        BY <1>1, <1>4, <4>1 DEF Loose
    <3>3. QED
      BY <1>4, <3>1, <3>2, ElementOfSeq
  <2>2. PICK k : k = ops[w].key
    OBVIOUS
  <2>3. ops'[w].key = k /\ k \in Keys
    BY <2>1, <2>2, OpsGrow, IssuedKeys DEF Inv
  <2>4. mem[a][k] >= w \/ (wr.pc = "apply" /\ w = wr.w)
    BY <1>1, <1>2, <1>4, <2>2 DEF LooseAreApplied
  <2>5. ASSUME UNCHANGED mem, wr.pc # "apply" PROVE mem'[a][k] >= w
    BY <2>4, <2>5
  <2>6. ASSUME NEW q \in Keys, NEW del \in BOOLEAN, Write(q, del) \/ WriteSyncFails(q, del)
        PROVE  mem'[a][k] >= w
    BY <2>5, <2>6 DEF Write, WriteSyncFails
  <2>7. ASSUME NEW freeze \in BOOLEAN, Apply(freeze) PROVE mem'[a][k] >= w
    <3>1. /\ mem'[a][k] = mem[a][k] \/ mem'[a][k] = wr.w
          /\ wr.pc = "apply" /\ wr.by = "put"
          /\ ops[wr.w].key = k => mem'[a][k] = wr.w
      BY <1>1, <1>2, <2>3, <2>7, ApplyWrites
    <3>2. wr.w = Len(ops)
      BY <3>1 DEF DurableInv, InHand
    <3>3. CASE mem'[a][k] = wr.w
      BY <2>1, <3>2, <3>3
    <3>4. CASE mem'[a][k] = mem[a][k] /\ mem[a][k] >= w
      BY <3>4
    <3>5. QED
      BY <2>2, <2>4, <3>1, <3>3, <3>4
  <2>8. ASSUME NEW c \in Clients, FlushSync(c) PROVE mem'[a][k] >= w
    BY <2>5, <2>8 DEF FlushSync
  <2>9. Swap => mem'[a][k] >= w
    BY <2>5 DEF Swap
  <2>10. ASSUME StaysPut PROVE mem'[a][k] >= w \/ (wr'.pc = "apply" /\ w = wr'.w)
    BY <1>1, <2>4, <2>10 DEF StaysPut
  <2>11. ~ Close /\ ~ Crash("kill")
    BY <1>0 DEF Close, Crash, ProcessGone
  <2>12. QED
    BY <1>2, <2>3, <2>6, <2>7, <2>8, <2>9, <2>10, <2>11, UpSteps
<1>5. QED
  BY <1>1, <1>2, <1>3, <1>4

LEMMA LooseAreLastNext ==
    ASSUME NoLosingFaults, OnlyProcessesDie, NoLostAnswers, Inv, Inv', DurableInv, DurableInv',
           SuffixInv, SuffixInv', RefInv, RefNext
    PROVE  LooseAreLast'
<1>n. [Next]_vars /\ AllHanded
  BY DEF RefNext, SuffixInv
<1>r. LooseAreApplied /\ LooseAreLast /\ FirmIsSolid /\ PromisedAreFirm
  BY DEF RefInv
<1>h. ASSUME LooseLen' = 0, hist' \in Seq(1 .. Len(ops')), FirmLen' \in Nat PROVE LooseAreLast'
  BY <1>h DEF LooseAreLast
<1>1. CASE mode # "up"
  <2>1. LooseLen' = 0 /\ hist' = hist /\ FirmLen' = Len(hist) /\ UNCHANGED ops
    BY <1>r, <1>1, WritesDown
  <2>2. hist \in Seq(1 .. Len(ops)) /\ Len(hist) \in Nat
    BY <1>r, WritesType
  <2>3. QED
    BY <1>h, <2>1, <2>2
<1>2. CASE mode = "up" /\ mode' = "down"
  <2>1. PICK W : W = Writes
    OBVIOUS
  <2>2. PICK m \in 0 .. Len(W) : /\ hist' \in Seq(1 .. Len(ops)) /\ UNCHANGED ops
                                 /\ LooseLen' = 0 /\ FirmLen' = m
    BY <1>r, <1>2, <2>1, WritesStop
  <2>3. m \in Nat
    BY <1>r, <2>1, WritesType
  <2>4. QED
    BY <1>h, <2>2, <2>3
<1>3. CASE mode = "up" /\ mode' = "up"
  <2>1. PICK W, a, F, n, L : W = Writes /\ a = active /\ F = Firm(a)' /\ n = FirmLen /\ L = Firm(a)
    OBVIOUS
  <2>2. /\ W \in Seq(1 .. Len(ops)) /\ hist \in Seq(1 .. Len(ops)) /\ Len(ops) \in Nat
        /\ Len(W) \in Nat /\ n \in Nat /\ n + LooseLen = Len(W)
    BY <1>r, <2>1, WritesType
  <2>3. /\ L <= F /\ FirmLen' = n + (F - L) /\ hist' \in {hist, W}
        /\ \/ Writes' = W /\ ((active' = a /\ wlog'[a] = wlog[a]) \/ LooseLen' = 0)
           \/ /\ Writes' = Append(W, Len(ops) + 1) /\ active' = a /\ F = L
              /\ Len(wlog'[a]) = Len(wlog[a]) + 1
              /\ \A i \in 1 .. Len(wlog[a]) : wlog'[a][i] = wlog[a][i]
              /\ wlog'[a][Len(wlog[a]) + 1] = Len(ops) + 1
    BY <1>n, <1>r, <1>3, <2>1, WritesUp
  <2>4. L \in Nat /\ F \in Nat /\ Len(wlog[a]) \in Nat /\ LooseLen = Len(wlog[a]) - L /\ L <= Len(wlog[a])
    <3>1. a \in Seqs /\ L \in Nat /\ L <= Len(wlog[a])
      BY <1>3, <2>1, FirmRange DEF FirmShape
    <3>2. F \in Nat
      BY <2>1, <3>1, FirmRangeNext DEF FirmShape
    <3>3. QED
      BY <1>3, <2>1, <3>1, <3>2, Numbers DEF LooseLen
  <2>5. hist' \in Seq(1 .. Len(ops')) /\ FirmLen' \in Nat
    <3>1. hist' \in Seq(1 .. Len(ops'))
      BY <1>n, <2>2, <2>3, SaidIsSaid
    <3>2. n + (F - L) \in Nat
      BY <2>2, <2>3, <2>4
    <3>3. QED
      BY <2>3, <3>1, <3>2
  <2>6. ASSUME NEW m \in 1 .. LooseLen', active' = a
        PROVE  Writes'[FirmLen' + m] = wlog'[active'][Firm(active)' + m]
    <3>1. LooseLen' = Len(wlog'[a]) - F /\ Firm(active)' = F
      BY <1>3, <2>1, <2>6 DEF LooseLen, Firm
    <3>2. PICK x, y, j : x = Len(wlog[a]) /\ y = Len(wlog'[a]) /\ j = (F - L) + m
      OBVIOUS
    <3>3. x \in Nat /\ (y = x \/ (y = x + 1 /\ F = L))
      <4>1. CASE Writes' = W /\ wlog'[a] = wlog[a]
        BY <2>4, <3>2, <4>1
      <4>2. CASE Writes' = W /\ LooseLen' = 0
        BY <2>6, <4>2
      <4>3. QED
        BY <2>3, <2>4, <2>6, <3>2, <4>1, <4>2
    <3>4. m \in 1 .. (y - F) /\ m \in Nat
      BY <2>4, <2>6, <3>1, <3>2, <3>3
    <3>5. FirmLen' + m = n + j /\ F + m = L + j /\ j \in Nat /\ 1 <= j
      <4>1. L <= F /\ FirmLen' = n + (F - L) /\ j = (F - L) + m /\ m \in Nat /\ 1 <= m
        BY <2>3, <3>2, <3>4
      <4>2. (n + (F - L)) + m = n + j /\ F + m = L + j /\ j \in Nat /\ 1 <= j
        BY <2>2, <2>4, <4>1
      <4>3. QED
        BY <4>1, <4>2
    <3>6. ASSUME j <= x - L PROVE W[n + j] = wlog[a][L + j]
      <4>1. j \in 1 .. LooseLen
        BY <2>4, <3>2, <3>3, <3>5, <3>6
      <4>2. Writes[FirmLen + j] = wlog[active][Firm(active) + j]
        BY <1>r, <4>1 DEF LooseAreLast
      <4>3. QED
        BY <2>1, <4>2
    <3>7. CASE Writes' = W /\ wlog'[a] = wlog[a]
      <4>1. j <= x - L
        BY <2>4, <3>2, <3>3, <3>4, <3>5, <3>7
      <4>2. QED
        BY <2>6, <3>1, <3>5, <3>6, <3>7, <4>1
    <3>8. ASSUME Writes' = Append(W, Len(ops) + 1), F = L, y = x + 1,
                 \A i \in 1 .. Len(wlog[a]) : wlog'[a][i] = wlog[a][i],
                 wlog'[a][Len(wlog[a]) + 1] = Len(ops) + 1
          PROVE  Writes'[FirmLen' + m] = wlog'[active'][Firm(active)' + m]
      <4>0. PICK len : len = Len(W)
        OBVIOUS
      <4>1. j = m /\ j <= (x - L) + 1 /\ len = n + (x - L) /\ len \in Nat
        <5>1. j = m
          BY <2>4, <3>2, <3>4, <3>8
        <5>2. j <= (x - L) + 1
          BY <2>4, <3>3, <3>4, <3>8, <5>1
        <5>3. len = n + (x - L) /\ len \in Nat
          BY <2>2, <2>4, <3>2, <4>0
        <5>4. QED
          BY <5>1, <5>2, <5>3
      <4>2. CASE j <= x - L
        <5>1. n + j \in 1 .. Len(W) /\ L + j \in 1 .. Len(wlog[a])
          BY <2>2, <2>4, <3>2, <3>3, <3>5, <4>0, <4>1, <4>2
        <5>2. Writes'[n + j] = W[n + j]
          BY <2>2, <3>8, <5>1
        <5>3. wlog'[a][L + j] = wlog[a][L + j]
          BY <3>8, <5>1
        <5>4. QED
          BY <2>6, <3>1, <3>5, <3>6, <4>2, <5>2, <5>3
      <4>3. CASE j = (x - L) + 1
        <5>1. n + j = Len(W) + 1 /\ L + j = Len(wlog[a]) + 1
          <6>1. n + j = len + 1 /\ L + j = x + 1
            BY <2>2, <2>4, <3>3, <4>1, <4>3
          <6>2. QED
            BY <3>2, <4>0, <6>1
        <5>2. Writes'[Len(W) + 1] = Len(ops) + 1
          BY <2>2, <3>8
        <5>3. QED
          BY <2>6, <3>1, <3>5, <3>8, <5>1, <5>2
      <4>4. QED
        BY <2>4, <3>3, <3>5, <4>1, <4>2, <4>3
    <3>9. QED
      <4>1. ~ (Writes' = W /\ LooseLen' = 0)
        BY <2>6
      <4>2. QED
        BY <2>3, <2>6, <3>2, <3>7, <3>8, <4>1
  <2>7. QED
    <3>1. CASE active' = a
      BY <2>5, <2>6, <3>1 DEF LooseAreLast
    <3>2. CASE active' # a
      BY <1>h, <2>3, <2>5, <3>2
    <3>3. QED
      BY <3>1, <3>2
<1>4. QED
  <2>1. mode' = "down" \/ mode' = "up" \/ mode # "up"
    BY <1>n, UpSteps, ApplyWrites
       DEF Write, WriteSyncFails, FlushSync, Swap, Close, Crash, ProcessGone, StaysPut
  <2>2. QED
    BY <1>1, <1>2, <1>3, <2>1

\* An engine that is up goes on or goes down.
LEMMA UpOrDown ==
    ASSUME OnlyProcessesDie, Inv, DurableInv, [Next]_vars, mode = "up" PROVE mode' \in {"up", "down"}
  BY UpSteps, ApplyWrites
     DEF Write, WriteSyncFails, FlushSync, Swap, Close, Crash, ProcessGone, StaysPut

LEMMA FirmIsSolidNext ==
    ASSUME NoLosingFaults, OnlyProcessesDie, NoLostAnswers, Inv, Inv', DurableInv, DurableInv',
           SuffixInv, SuffixInv', RefInv, RefNext
    PROVE  FirmIsSolid'
<1>n. [Next]_vars /\ AllHanded
  BY DEF RefNext, SuffixInv
<1>r. LooseAreApplied /\ LooseAreLast /\ FirmIsSolid /\ PromisedAreFirm
  BY DEF RefInv
<1>t. Len(ops) \in Nat /\ 0 .. Len(ops) \subseteq 0 .. Len(ops')
  BY <1>n, OpsGrow
<1>h. ASSUME NEW W \in Seq(1 .. Len(ops)), NEW n \in 0 .. Len(W), FirmLen' = n,
             NEW V \in Seq(Nat), Writes' = V, \A i \in 1 .. n : V[i] = W[i],
             \A k \in Keys : \E e \in 0 .. Len(ops) : Solid(k, e)' /\ Value(e) = After(W, n, k)
      PROVE  FirmIsSolid'
  <2>1. SUFFICES ASSUME NEW k \in Keys
                 PROVE  \E d \in 0 .. Len(ops') : Solid(k, d)' /\ Value(d)' = After(Writes, FirmLen, k)'
    BY DEF FirmIsSolid
  <2>2. PICK e \in 0 .. Len(ops) : Solid(k, e)' /\ Value(e) = After(W, n, k)
    BY <1>h
  <2>3. Value(e)' = Value(e) /\ After(W, n, k)' = After(W, n, k)
    BY <1>n, SaidIsSaid
  <2>4. After(V, n, k)' = After(W, n, k)'
    <3>1. n \in Nat /\ W \in Seq(Nat)
      BY <1>t
    <3>2. QED
      BY <1>h, <3>1, AfterAgreeNext
  <2>5. After(Writes, FirmLen, k)' = After(V, n, k)'
    BY <1>h DEF After
  <2>6. QED
    BY <1>t, <2>2, <2>3, <2>4, <2>5
<1>1. CASE mode # "up"
  <2>1. PICK W : W = hist
    OBVIOUS
  <2>2. W \in Seq(1 .. Len(ops)) /\ Len(W) \in 0 .. Len(W) /\ W \in Seq(Nat)
    BY <1>r, <1>t, <2>1, WritesType
  <2>3. /\ Writes' = W /\ FirmLen' = Len(W)
        /\ \A k \in Keys : \E e \in 0 .. Len(ops) : Solid(k, e)' /\ Value(e) = After(W, Len(W), k)
    BY <1>r, <1>1, <2>1, WritesDown
  <2>4. QED
    BY <1>h, <2>2, <2>3
<1>2. CASE mode = "up" /\ mode' = "down"
  <2>1. PICK W, V : W = Writes /\ V = hist'
    OBVIOUS
  <2>2. PICK m \in 0 .. Len(W) :
          /\ V \in Seq(1 .. Len(ops)) /\ Len(V) = m /\ Writes' = V /\ FirmLen' = m
          /\ \A k \in Keys : \E e \in 0 .. Len(ops) : Solid(k, e)' /\ Value(e) = After(V, m, k)
    BY <1>r, <1>2, <2>1, WritesStop
  <2>3. m \in 0 .. Len(V) /\ V \in Seq(Nat)
    BY <1>t, <2>2
  <2>4. QED
    BY <1>h, <2>2, <2>3
<1>3. CASE mode = "up" /\ mode' = "up"
  <2>1. PICK W, V, a, F, n : W = Writes /\ V = Writes' /\ a = active /\ F = Firm(a)' /\ n = FirmLen'
    OBVIOUS
  <2>2. /\ W \in Seq(1 .. Len(ops)) /\ Len(W) \in Nat /\ FirmLen \in Nat
        /\ FirmLen + LooseLen = Len(W) /\ LooseLen \in Nat
    BY <1>r, <2>1, WritesType
  <2>3. /\ Firm(a) <= F /\ n = FirmLen + (F - Firm(a))
        /\ V = W \/ V = Append(W, Len(ops) + 1)
    BY <1>n, <1>r, <1>3, <2>1, WritesUp
  <2>4. ASSUME NEW k \in Keys PROVE \E e \in 0 .. Len(ops) : Solid(k, e)' /\ Value(e) = After(W, n, k)
    BY <1>n, <1>r, <1>3, <2>1, <2>3, FirmedSolid
  <2>5. n \in Nat /\ n <= Len(W)
    <3>1. FirmLen' \in Nat /\ FirmLen' <= Len(hist')
      <4>1. LooseAreLast'
        BY LooseAreLastNext
      <4>2. QED
        BY <4>1, WritesTypeNext
    <3>2. Len(hist') <= Len(W)
      <4>1. hist' \in {hist, W}
        BY <1>n, <1>r, <1>3, <2>1, WritesUp
      <4>2. Len(hist) <= Len(W)
        BY <1>r, <2>1, WritesType
      <4>3. QED
        BY <2>2, <4>1, <4>2
    <3>3. Len(hist') \in Nat
      BY LooseAreLastNext, WritesTypeNext
    <3>4. QED
      BY <2>1, <2>2, <3>1, <3>2, <3>3
  <2>6. V \in Seq(Nat) /\ \A i \in 1 .. n : V[i] = W[i]
    <3>1. W \in Seq(Nat) /\ Len(ops) + 1 \in Nat
      BY <1>t, <2>2
    <3>2. PICK w \in Nat : w = Len(ops) + 1
      BY <3>1
    <3>3. /\ Append(W, w) \in Seq(Nat)
          /\ \A i \in 1 .. Len(W) : Append(W, w)[i] = W[i]
      BY <3>1, <3>2
    <3>4. 1 .. n \subseteq 1 .. Len(W)
      BY <2>2, <2>5
    <3>5. QED
      BY <2>3, <3>1, <3>2, <3>3, <3>4
  <2>7. QED
    BY <1>h, <2>1, <2>2, <2>4, <2>5, <2>6
<1>4. QED
  BY <1>n, <1>1, <1>2, <1>3, UpOrDown

LEMMA AppliedIsHistNext ==
    ASSUME NoLosingFaults, OnlyProcessesDie, NoLostAnswers, Inv, Inv', DurableInv, DurableInv',
           SuffixInv, SuffixInv', RefInv, RefNext
    PROVE  AppliedIsHist'
<1>0. SUFFICES ASSUME mode' # "down", NEW k \in Keys
               PROVE  Value(kv[k])' = After(hist, Len(hist), k)'
  BY DEF AppliedIsHist
<1>n. [Next]_vars /\ AllHanded
  BY DEF RefNext, SuffixInv
<1>r. LooseAreApplied /\ LooseAreLast /\ FirmIsSolid /\ PromisedAreFirm
  BY DEF RefInv
<1>1. PICK h, d : h = hist /\ d = kv[k]
  OBVIOUS
<1>2. h \in Seq(1 .. Len(ops)) /\ Len(h) \in Nat /\ Len(h) \in 0 .. Len(h) /\ Len(ops) \in Nat
  BY <1>r, <1>1, WritesType
<1>3. d \in 0 .. Len(ops)
  BY <1>1 DEF Inv, Issued
<1>4. mode # "down" => Value(d) = After(h, Len(h), k)
  BY <1>1 DEF RefInv, AppliedIsHist
<1>5. Value(d)' = Value(d) /\ After(h, Len(h), k)' = After(h, Len(h), k)
  BY <1>n, <1>2, <1>3, SaidIsSaid
<1>6. CASE mode # "down" /\ kv'[k] = d /\ hist' = h
  BY <1>4, <1>5, <1>6 DEF Value, IsDelete, After
<1>7. CASE mode = "down"
  <2>1. Recover /\ hist' = h /\ UNCHANGED ops
    BY <1>n, <1>r, <1>0, <1>1, <1>7, DownSteps, WritesDown DEF Reback, RebackFails, CleanOld
  <2>2. PICK e \in 0 .. Len(ops) : Solid(k, e) /\ Value(e) = After(h, Len(h), k)
    BY <1>r, <1>1, <1>7, WritesDown
  <2>3. Value(Recovered(k)) = Value(e)
    BY <1>7, <2>2, SolidAnswer DEF SuffixInv
  <2>4. kv'[k] = Recovered(k)
    BY <2>1 DEF Recover
  <2>5. Value(kv[k])' = Value(Recovered(k))
    BY <2>1, <2>4 DEF Value, IsDelete
  <2>6. After(hist, Len(hist), k)' = After(h, Len(h), k)
    BY <1>5, <2>1 DEF After
  <2>7. QED
    BY <2>2, <2>3, <2>5, <2>6
<1>8. CASE mode # "down" /\ mode # "up"
  <2>1. UNCHANGED kv /\ hist' = h
    BY <1>n, <1>r, <1>1, <1>8, DownSteps, WritesDown
       DEF Recover, Reback, RebackFails, CleanOld, Crash, ghosts
  <2>2. QED
    BY <1>1, <1>6, <1>8, <2>1
<1>9. CASE mode = "up"
  <2>1. hist' = IF wr.pc = "apply" /\ wr'.pc # "apply" THEN h \o Underway ELSE h
    BY <1>0, <1>1 DEF RefNext
  <2>2. ASSUME NEW q \in Keys, NEW del \in BOOLEAN, Write(q, del) \/ WriteSyncFails(q, del)
        PROVE  kv'[k] = d /\ hist' = h
    BY <1>1, <2>1, <2>2 DEF Write, WriteSyncFails
  <2>3. ASSUME NEW c \in Clients, FlushSync(c) PROVE kv'[k] = d /\ hist' = h
    BY <1>1, <2>1, <2>3 DEF FlushSync
  <2>4. Swap => kv'[k] = d /\ hist' = h
    BY <1>1, <2>1 DEF Swap
  <2>5. StaysPut => kv'[k] = d /\ hist' = h
    BY <1>1, <2>1 DEF StaysPut
  <2>6. ~ Close /\ ~ Crash("kill")
    BY <1>0 DEF Close, Crash, ProcessGone
  <2>7. ASSUME NEW freeze \in BOOLEAN, Apply(freeze)
        PROVE  Value(kv[k])' = After(hist, Len(hist), k)'
    <3>1. PICK w, q : w = wr.w /\ q = ops[w].key
      OBVIOUS
    <3>2. /\ wr.pc = "apply" /\ w \in 1 .. Len(ops) /\ w \in 0 .. Len(ops)
          /\ kv'[q] = w /\ (k # q => kv'[k] = d) /\ UNCHANGED ops
      BY <1>1, <1>2, <2>7, <3>1, ApplyWrites
    <3>3. wr'.pc # "apply"
      <4>1. wr \in WrType
        BY DEF Inv, TypeOK, TypeProcess
      <4>2. wr' = [wr EXCEPT !.pc = "rotate"] \/ wr' = WrFree
        BY <2>7 DEF Apply
      <4>3. QED
        BY <4>1, <4>2 DEF WrType, WrFree
    <3>4. PICK V, n : V = h \o <<w>> /\ n = Len(h) + 1
      OBVIOUS
    <3>5. hist' = V
      BY <2>1, <3>1, <3>2, <3>3, <3>4 DEF Underway
    <3>6. n \in Nat /\ Len(V) = n /\ V[n] = w /\ \A i \in 1 .. Len(h) : V[i] = h[i]
      BY <1>2, <3>2, <3>4
    <3>7. After(hist, Len(hist), k)' = After(V, n, k)
      BY <3>2, <3>5, <3>6 DEF After, Value, IsDelete
    <3>8. CASE k = q
      <4>1. n \in 1 .. n /\ ops[V[n]].key = k /\ \A i \in 1 .. n : n < i => ops[V[i]].key # k
        BY <1>2, <3>1, <3>4, <3>6, <3>8
      <4>2. After(V, n, k) = Value(w)
        BY <3>6, <4>1, AfterLast
      <4>3. Value(kv[k])' = Value(w)
        BY <3>2, <3>8 DEF Value, IsDelete
      <4>4. QED
        BY <3>7, <4>2, <4>3
    <3>9. CASE k # q
      <4>1. \A i \in 1 .. n : Len(h) < i => ops[V[i]].key # k
        <5>1. \A i \in 1 .. n : Len(h) < i => i = n
          BY <1>2, <3>4
        <5>2. QED
          BY <3>1, <3>6, <3>9, <5>1
      <4>2. Len(h) \in 0 .. n /\ \A i \in 1 .. Len(h) : h[i] = V[i]
        BY <1>2, <3>4, <3>6
      <4>3. After(h, Len(h), k) = After(V, n, k)
        BY <3>6, <4>1, <4>2, AfterSame
      <4>4. Value(kv[k])' = Value(d)
        BY <3>2, <3>9 DEF Value, IsDelete
      <4>5. QED
        BY <1>4, <1>9, <3>7, <4>3, <4>4
    <3>10. QED
      BY <3>8, <3>9
  <2>8. QED
    BY <1>n, <1>6, <1>9, <2>2, <2>3, <2>4, <2>5, <2>6, <2>7, UpSteps
<1>10. QED
  BY <1>7, <1>8, <1>9

\* What was firm stays firm.
LEMMA FirmLenGrows ==
    ASSUME NoLosingFaults, OnlyProcessesDie, NoLostAnswers, Inv, Inv', DurableInv, DurableInv',
           SuffixInv, SuffixInv', RefInv, RefNext
    PROVE  /\ FirmLen \in Nat /\ FirmLen' \in Nat /\ FirmLen <= FirmLen'
           /\ Len(hist') \in Nat /\ FirmLen' <= Len(hist')
<1>n. [Next]_vars /\ AllHanded
  BY DEF RefNext, SuffixInv
<1>r. LooseAreApplied /\ LooseAreLast /\ FirmIsSolid /\ PromisedAreFirm
  BY DEF RefInv
<1>1. FirmLen \in Nat /\ (mode # "up" => FirmLen = Len(hist))
  BY <1>r, WritesType
<1>2. FirmLen' \in Nat /\ Len(hist') \in Nat /\ FirmLen' <= Len(hist')
  BY LooseAreLastNext, WritesTypeNext
<1>3. CASE mode # "up"
  <2>1. FirmLen' = FirmLen
    BY <1>r, <1>1, <1>3, WritesDown
  <2>2. QED
    BY <1>1, <1>2, <2>1
<1>4. CASE mode = "up" /\ mode' = "down"
  <2>1. PICK W : W = Writes
    OBVIOUS
  <2>2. \E m \in 0 .. Len(W) : FirmLen <= m /\ FirmLen' = m
    BY <1>r, <1>4, <2>1, WritesStop
  <2>3. QED
    BY <1>1, <1>2, <2>2
<1>5. CASE mode = "up" /\ mode' = "up"
  <2>1. PICK a, F, L, W : a = active /\ F = Firm(a)' /\ L = Firm(a) /\ W = Writes
    OBVIOUS
  <2>2. L <= F /\ FirmLen' = FirmLen + (F - L)
    BY <1>n, <1>r, <1>5, <2>1, WritesUp
  <2>3. L \in Nat /\ F \in Nat
    <3>1. a \in Seqs
      BY <1>5, <2>1, FirmRange DEF FirmShape
    <3>2. QED
      BY <2>1, <3>1, FirmRange, FirmRangeNext DEF FirmShape
  <2>4. FirmLen <= FirmLen + (F - L)
    BY <1>1, <2>2, <2>3
  <2>5. QED
    BY <1>1, <1>2, <2>2, <2>4
<1>6. QED
  BY <1>n, <1>3, <1>4, <1>5, UpOrDown

\* With an empty buffer, all that took effect is firm.
LEMMA DrainedIsFirm ==
    Inv /\ DurableInv /\ LooseAreLast /\ (mode = "up" => wos[active] = Len(wlog[active]))
      => FirmLen = Len(hist)
<1>1. SUFFICES ASSUME Inv, DurableInv, LooseAreLast, mode = "up" => wos[active] = Len(wlog[active])
               PROVE  FirmLen = Len(hist)
  OBVIOUS
<1>2. CASE mode # "up"
  BY <1>1, <1>2, WritesType
<1>3. CASE mode = "up"
  <2>1. PICK n, h : n = Len(wlog[active]) /\ h = Len(hist)
    OBVIOUS
  <2>2. n \in Nat /\ wos[active] = n /\ h \in Nat
    <3>1. active \in Seqs
      BY <1>1, <1>3, FirmRange DEF FirmShape
    <3>2. QED
      BY <1>1, <1>3, <2>1, <3>1, Numbers, WritesType
  <2>3. CASE wr.pc = "apply"
    <3>1. Firm(active) = n - 1 /\ LooseLen = n - (n - 1)
      BY <1>3, <2>1, <2>2, <2>3 DEF Firm, LooseLen
    <3>2. Len(Writes) = h + 1
      BY <1>1, <2>1, <2>3, WritesType
    <3>3. QED
      BY <2>1, <2>2, <3>1, <3>2 DEF FirmLen
  <2>4. CASE wr.pc # "apply"
    <3>1. Firm(active) = n /\ LooseLen = n - n
      BY <1>3, <2>1, <2>2, <2>4 DEF Firm, LooseLen
    <3>2. Writes = hist
      BY <1>1, <2>4, WritesType
    <3>3. QED
      BY <2>1, <2>2, <3>1, <3>2 DEF FirmLen
  <2>5. QED
    BY <2>3, <2>4
<1>4. QED
  BY <1>2, <1>3

LEMMA DrainedIsFirmNext ==
    Inv' /\ DurableInv' /\ LooseAreLast' /\ (mode' = "up" => wos'[active'] = Len(wlog'[active']))
      => FirmLen' = Len(hist')
<1>1. (Inv /\ DurableInv /\ LooseAreLast /\ (mode = "up" => wos[active] = Len(wlog[active]))
         => FirmLen = Len(hist))'
  BY DrainedIsFirm, PTL
<1>2. QED
  BY <1>1

\* With sync_per_write the buffer stays empty.
LEMMA SyncedStaysDrained ==
    ASSUME NoLosingFaults, OnlyProcessesDie, NoLostAnswers, Inv, Inv', DurableInv, DurableInv',
           SuffixInv, SuffixInv', RefInv, RefNext, SyncPerWrite, mode' = "up"
    PROVE  wos'[active'] = Len(wlog'[active'])
<1>n. [Next]_vars /\ AllHanded
  BY DEF RefNext, SuffixInv
<1>r. LooseAreApplied /\ LooseAreLast /\ FirmIsSolid /\ PromisedAreFirm
  BY DEF RefInv
<1>1. CASE mode # "up"
  BY <1>r, <1>1, WritesDown
<1>2. CASE mode = "up"
  <2>0. PICK a : a = active
    OBVIOUS
  <2>1. wos[a] = Len(wlog[a]) /\ a \in Seqs
    <3>1. active \in Seqs
      BY <1>2, FirmRange DEF FirmShape
    <3>2. QED
      BY <1>r, <1>2, <2>0, <3>1 DEF PromisedAreFirm
  <2>2. wos \in [Seqs -> Nat] /\ wlog \in [Seqs -> Seq(1 .. MaxWrites)]
    BY DEF Inv, TypeOK, TypeDirectory
  <2>3. ASSUME NEW k \in Keys, NEW del \in BOOLEAN, Write(k, del)
        PROVE  wos'[active'] = Len(wlog'[active'])
    <3>1. Len(wlog'[a]) = Len(wlog[a]) + 1
      BY <2>0, <2>1, <2>3, LogExtended DEF Write
    <3>2. wos'[a] = Len(wlog[a]) + 1 /\ active' = a
      BY <2>0, <2>1, <2>2, <2>3 DEF Write
    <3>3. QED
      BY <3>1, <3>2
  <2>4. ASSUME NEW k \in Keys, NEW del \in BOOLEAN PROVE ~ WriteSyncFails(k, del)
    BY DEF WriteSyncFails, NoLostAnswers
  <2>5. ASSUME NEW freeze \in BOOLEAN, Apply(freeze) PROVE wos'[active'] = Len(wlog'[active'])
    BY <2>0, <2>1, <2>5, ApplyWrites
  <2>6. ASSUME NEW c \in Clients, FlushSync(c) PROVE wos'[active'] = Len(wlog'[active'])
    BY <2>0, <2>1, <2>2, <2>6 DEF FlushSync, Drained
  <2>7. CASE Swap
    <3>1. PICK b : b = wr.new
      OBVIOUS
    <3>2. b \in Seqs /\ b # a /\ wr.pc = "swap" /\ active' = b /\ UNCHANGED wlog
          /\ wos' = Drained(a)
      BY <2>0, <2>7, <3>1, Numbers DEF Swap
    <3>3. wlog[b] = << >> /\ wos[b] = 0
      <4>1. wlog[b] = << >>
        BY <1>2, <3>1, <3>2 DEF DurableInv, LiveLogs
      <4>2. wos[b] \in Nat /\ wos[b] <= Len(wlog[b])
        BY <2>2, <3>2 DEF DurableInv, LogShape
      <4>3. QED
        BY <4>1, <4>2
    <3>4. QED
      BY <2>2, <3>2, <3>3 DEF Drained
  <2>8. CASE StaysPut
    BY <1>2, <2>0, <2>1, <2>8, StaysPutKeeps
  <2>9. ~ Close /\ ~ Crash("kill")
    BY DEF Close, Crash, ProcessGone
  <2>10. QED
    BY <1>n, <1>2, <2>3, <2>4, <2>5, <2>6, <2>7, <2>8, <2>9, UpSteps
<1>3. QED
  BY <1>1, <1>2

LEMMA PromisedAreFirmNext ==
    ASSUME NoLosingFaults, OnlyProcessesDie, NoLostAnswers, Inv, Inv', DurableInv, DurableInv',
           SuffixInv, SuffixInv', RefInv, RefNext
    PROVE  PromisedAreFirm'
<1>n. [Next]_vars /\ AllHanded
  BY DEF RefNext, SuffixInv
<1>r. LooseAreApplied /\ LooseAreLast /\ FirmIsSolid /\ PromisedAreFirm
  BY DEF RefInv
<1>1. PICK F, G, h : F = FirmLen /\ G = FirmLen' /\ h = Len(hist')
  OBVIOUS
<1>2. F \in Nat /\ G \in Nat /\ F <= G /\ h \in Nat /\ G <= h
  BY <1>1, FirmLenGrows
<1>3. /\ promised \in 0 .. F /\ marks \in [Clients -> Nat]
      /\ \A c \in Clients : calls[c] \in {"sync", "drain"} => marks[c] <= F
  BY <1>r, <1>1 DEF PromisedAreFirm
<1>4. SyncPerWrite /\ mode' = "up" => wos'[active'] = Len(wlog'[active'])
  BY SyncedStaysDrained
<1>5. promised' \in 0 .. G
  <2>1. CASE fl.pc = "ok" /\ fl'.pc = "free" /\ fl.by \in Clients /\ mode' = "up"
    <3>1. calls[fl.by] = "drain"
      BY <2>1 DEF DurableInv, CallsInOrder
    <3>2. PICK m : m = marks[fl.by]
      OBVIOUS
    <3>3. m \in Nat /\ m <= F
      BY <1>3, <2>1, <3>1, <3>2
    <3>4. promised' = Max({promised, m})
      BY <2>1, <3>2 DEF RefNext
    <3>5. {promised, m} \subseteq 0 .. F /\ {promised, m} # {}
      BY <1>2, <1>3, <3>3
    <3>6. Max({promised, m}) \in 0 .. F
      BY <1>2, <3>5, MaxOfBounded
    <3>7. QED
      BY <1>2, <3>4, <3>6
  <2>2. CASE /\ ~ (fl.pc = "ok" /\ fl'.pc = "free" /\ fl.by \in Clients /\ mode' = "up")
             /\ SyncPerWrite /\ acked' # acked
    <3>1. promised' = h
      BY <1>1, <2>2 DEF RefNext
    <3>2. G = h
      BY <1>1, <1>4, <2>2, LooseAreLastNext, DrainedIsFirmNext
    <3>3. QED
      BY <1>2, <3>1, <3>2
  <2>3. CASE /\ ~ (fl.pc = "ok" /\ fl'.pc = "free" /\ fl.by \in Clients /\ mode' = "up")
             /\ ~ (SyncPerWrite /\ acked' # acked)
    <3>1. promised' = promised
      BY <2>3 DEF RefNext
    <3>2. QED
      BY <1>2, <1>3, <3>1
  <2>4. QED
    BY <2>1, <2>2, <2>3
<1>6. Len(hist) \in Nat
  BY <1>r, WritesType
<1>7. marks' = [c \in Clients |-> IF calls[c] = "idle" /\ calls'[c] # "idle"
                                  THEN Len(hist) ELSE marks[c]]
  BY DEF RefNext
<1>8. marks' \in [Clients -> Nat]
  BY <1>3, <1>6, <1>7
<1>9. ASSUME NEW c \in Clients, calls'[c] \in {"sync", "drain"} PROVE marks'[c] <= G
  <2>1. CASE FlushSync(c)
    <3>1. marks'[c] = Len(hist)
      BY <1>7, <1>9, <2>1 DEF FlushSync
    <3>2. hist' = hist
      BY <2>1 DEF RefNext, FlushSync
    <3>3. wos'[active'] = Len(wlog'[active'])
      <4>1. active \in Seqs /\ wos \in [Seqs -> Nat]
        BY <2>1, Numbers DEF FlushSync, Inv, TypeOK, TypeDirectory
      <4>2. QED
        BY <2>1, <4>1 DEF FlushSync, Drained
    <3>4. G = h
      BY <1>1, <3>3, LooseAreLastNext, DrainedIsFirmNext
    <3>5. QED
      BY <1>1, <1>2, <3>1, <3>2, <3>4
  <2>2. CASE ~ FlushSync(c)
    <3>1. calls[c] \in {"sync", "drain"}
      BY <1>n, <1>9, <2>2, CallSteps DEF DurableInv
    <3>2. marks'[c] = marks[c] /\ marks[c] \in Nat /\ marks[c] <= F
      BY <1>3, <1>7, <1>9, <3>1
    <3>3. QED
      BY <1>2, <3>2
  <2>3. QED
    BY <2>1, <2>2
<1>10. QED
  BY <1>1, <1>4, <1>5, <1>8, <1>9 DEF PromisedAreFirm

LEMMA RefInvInit == RefInit => RefInv
<1>0. SUFFICES ASSUME RefInit PROVE RefInv
  OBVIOUS
<1>1. /\ mode = "down" /\ walFiles = {} /\ wlog = [g \in Seqs |-> << >>]
      /\ sst = [l \in Levels |-> [s \in Seqs |-> EmptyTable]] /\ manifest = NoTables
      /\ gone = EmptyTable /\ ops = << >> /\ wr = WrFree
      /\ calls = [c \in Clients |-> "idle"]
      /\ hist = << >> /\ marks = [c \in Clients |-> 0] /\ promised = 0
  BY <1>0 DEF RefInit, Init
<1>2. Underway = << >>
  BY <1>1 DEF Underway, WrFree
<1>3. LooseLen = 0
  BY <1>1 DEF LooseLen
<1>4. Writes = << >> /\ FirmLen = 0
  <2>1. << >> \o << >> = << >> /\ Len(<< >>) = 0
    OBVIOUS
  <2>2. QED
    BY <1>1, <1>2, <1>3, <2>1 DEF Writes, FirmLen
<1>5. LooseAreApplied /\ LooseAreLast
  BY <1>1, <1>3, <1>4 DEF LooseAreApplied, LooseAreLast
<1>6. FirmIsSolid
  <2>1. SUFFICES ASSUME NEW k \in Keys PROVE Solid(k, 0) /\ Value(0) = After(Writes, FirmLen, k)
    BY <1>1 DEF FirmIsSolid
  <2>2. \A i \in 1 .. 0 : FALSE
    OBVIOUS
  <2>3. After(Writes, FirmLen, k) = 0
    BY <1>4, <2>2 DEF After
  <2>4. \A g \in Seqs : Entries(g, k) = {}
    BY <1>1 DEF Entries
  <2>5. \A l \in Levels, s \in Seqs : sst[l][s][k] = 0
    BY <1>1 DEF EmptyTable
  <2>6. gone[k] = 0
    BY <1>1 DEF EmptyTable
  <2>7. Bounded(k, 0)
    BY <2>4, <2>5, <2>6 DEF Bounded
  <2>8. FromTables(manifest, k) = 0
    <3>1. manifest[0] = {} /\ manifest[1] = {}
      BY <1>1 DEF NoTables, Levels
    <3>2. QED
      BY <3>1 DEF FromTables, NewestHit, Hits, OrElse
  <2>9. DiskKeeps("kill", k, 0)
    BY <1>1, <2>8 DEF DiskKeeps, Fresh
  <2>10. Kept(k, 0)
    BY <1>1, <2>9 DEF Kept
  <2>11. QED
    BY <2>3, <2>7, <2>10 DEF Solid, Value, IsDelete
<1>7. AppliedIsHist
  BY <1>1 DEF AppliedIsHist
<1>8. PromisedAreFirm
  BY <1>1, <1>4 DEF PromisedAreFirm
<1>9. QED
  BY <1>5, <1>6, <1>7, <1>8 DEF RefInv

LEMMA RefInvStutters ==
    ASSUME NoLosingFaults, OnlyProcessesDie, Inv, DurableInv, DurableInv', RefInv, UNCHANGED refVars
    PROVE  RefInv'
<1>u. UNCHANGED vars /\ UNCHANGED <<hist, marks, promised>>
  BY DEF refVars
<1>1. LooseAreApplied'
  BY <1>u DEF vars, RefInv, LooseAreApplied, Loose, Firm
<1>2. /\ Writes' = Writes /\ LooseLen' = LooseLen /\ FirmLen' = FirmLen
      /\ \A g \in Seqs \cup {active} : Firm(g)' = Firm(g)
  BY <1>u DEF vars, Writes, Underway, LooseLen, FirmLen, Firm
<1>3. LooseAreLast'
  <2>1. LooseAreLast
    BY DEF RefInv
  <2>2. UNCHANGED <<ops, wlog, active>>
    BY <1>u DEF vars
  <2>3. Firm(active)' = Firm(active)
    BY <1>2, <2>2
  <2>4. QED
    BY <1>u, <1>2, <2>1, <2>2, <2>3 DEF LooseAreLast
<1>4. FirmIsSolid'
  <2>1. SUFFICES ASSUME NEW k \in Keys
                 PROVE  \E d \in 0 .. Len(ops') : Solid(k, d)' /\ Value(d)' = After(Writes, FirmLen, k)'
    BY DEF FirmIsSolid
  <2>2. PICK d \in 0 .. Len(ops) : Solid(k, d) /\ Value(d) = After(Writes, FirmLen, k)
    BY DEF RefInv, FirmIsSolid
  <2>3. Kept(k, d)'
    BY <1>u, <2>2, KeptNext DEF Solid
  <2>4. UNCHANGED <<ops, wlog, sst, gone, active, mode, wr, wos>>
    BY <1>u DEF vars
  <2>5. Bounded(k, d)'
    BY <2>2, <2>4 DEF Solid, Bounded, Entries, Firm
  <2>6. Value(d)' = Value(d) /\ After(Writes, FirmLen, k)' = After(Writes, FirmLen, k)
    BY <1>2, <2>4 DEF After, Value, IsDelete
  <2>7. QED
    BY <2>2, <2>3, <2>4, <2>5, <2>6 DEF Solid
<1>5. AppliedIsHist'
  <2>1. UNCHANGED <<ops, mode, kv, hist>>
    BY <1>u DEF vars
  <2>2. QED
    BY <2>1 DEF RefInv, AppliedIsHist, After, Value, IsDelete
<1>6. PromisedAreFirm'
  <2>1. UNCHANGED <<mode, wos, wlog, active, calls, marks, promised>>
    BY <1>u DEF vars
  <2>2. QED
    BY <1>2, <2>1 DEF RefInv, PromisedAreFirm
<1>7. QED
  BY <1>1, <1>3, <1>4, <1>5, <1>6 DEF RefInv

LEMMA RefInvNext ==
    ASSUME NoLosingFaults, OnlyProcessesDie, NoLostAnswers, Inv, Inv', DurableInv, DurableInv',
           SuffixInv, SuffixInv', RefInv, [RefNext]_refVars
    PROVE  RefInv'
<1>1. CASE RefNext
  <2>n. [Next]_vars /\ AllHanded /\ LooseAreApplied
    BY <1>1 DEF RefNext, SuffixInv, RefInv
  <2>1. LooseAreApplied' /\ LooseAreLast'
    BY <1>1, <2>n, LooseAreAppliedNext, LooseAreLastNext
  <2>2. FirmIsSolid' /\ AppliedIsHist' /\ PromisedAreFirm'
    BY <1>1, FirmIsSolidNext, AppliedIsHistNext, PromisedAreFirmNext
  <2>3. QED
    BY <2>1, <2>2 DEF RefInv
<1>2. CASE UNCHANGED refVars
  BY <1>2, RefInvStutters
<1>3. QED
  BY <1>1, <1>2

\* The invariant that ties the engine to the store: the writes that took effect are
\* what get answers, those that have left the buffer of the active WAL are what an
\* engine opened on the directory would answer, and only they are promised.
THEOREM RefInvCorrect ==
    ASSUME NoLosingFaults, OnlyProcessesDie, NoLostAnswers
    PROVE  RefSpec => [](Inv /\ DurableInv /\ SuffixInv /\ RefInv)
<1>1. RefInit => Inv /\ DurableInv /\ SuffixInv /\ RefInv
  <2>1. RefInit => Init
    BY DEF RefInit
  <2>2. QED
    BY <2>1, InvInit, DurableInit, SuffixInit, RefInvInit
<1>2. (Inv /\ DurableInv /\ SuffixInv /\ RefInv) /\ [RefNext]_refVars
        => (Inv /\ DurableInv /\ SuffixInv /\ RefInv)'
  <2>1. SUFFICES ASSUME Inv, DurableInv, SuffixInv, RefInv, [RefNext]_refVars
                 PROVE  (Inv /\ DurableInv /\ SuffixInv /\ RefInv)'
    OBVIOUS
  <2>2. [Next]_vars
    BY <2>1 DEF RefNext, refVars
  <2>3. Inv' /\ DurableInv' /\ SuffixInv'
    BY <2>1, <2>2, InvNext, DurableNext, SuffixNext
  <2>4. QED
    BY <2>1, <2>3, RefInvNext
<1>3. QED
  BY <1>1, <1>2, PTL DEF RefSpec

-----------------------------------------------------------------------------
(* The steps of the engine are steps of the store.                         *)

Store == [k \in Keys |-> Value(IF mode = "up" THEN Lookup(k) ELSE Recovered(k))]

\* The answers are those of the writes that took effect.
LEMMA StoreIsView ==
    Inv /\ DurableInv /\ SuffixInv /\ RefInv => Store = KV!View(OpsOf(hist))
<1>1. SUFFICES ASSUME Inv, DurableInv, SuffixInv, RefInv PROVE Store = KV!View(OpsOf(hist))
  OBVIOUS
<1>r. LooseAreLast /\ FirmIsSolid /\ AppliedIsHist /\ GoneAreDeletes
  BY <1>1 DEF RefInv, SuffixInv
<1>2. PICK h : h = hist
  OBVIOUS
<1>3. h \in Seq(1 .. Len(ops)) /\ Len(ops) \in Nat
  BY <1>1, <1>r, <1>2, WritesType
<1>4. KV!View(OpsOf(h)) = [k \in Keys |-> After(h, Len(h), k)]
  BY <1>3, ViewIs
<1>5. ASSUME NEW k \in Keys
      PROVE  Value(IF mode = "up" THEN Lookup(k) ELSE Recovered(k)) = After(h, Len(h), k)
  <2>1. CASE mode = "up"
    <3>1. Value(Lookup(k)) = Value(kv[k])
      BY <1>1, <2>1 DEF Inv, View
    <3>2. Value(kv[k]) = After(h, Len(h), k)
      BY <1>r, <1>2, <2>1 DEF AppliedIsHist
    <3>3. QED
      BY <2>1, <3>1, <3>2
  <2>2. CASE mode # "up"
    <3>1. Writes = h /\ FirmLen = Len(h)
      BY <1>1, <1>r, <1>2, <2>2, WritesType
    <3>2. PICK d \in 0 .. Len(ops) : Solid(k, d) /\ Value(d) = After(h, Len(h), k)
      BY <1>r, <3>1 DEF FirmIsSolid
    <3>3. Value(Recovered(k)) = Value(d)
      BY <1>1, <1>r, <2>2, <3>2, SolidAnswer
    <3>4. QED
      BY <2>2, <3>2, <3>3
  <2>3. QED
    BY <2>1, <2>2
<1>6. QED
  BY <1>2, <1>4, <1>5 DEF Store

LEMMA StoreIsViewNext ==
    Inv' /\ DurableInv' /\ SuffixInv' /\ RefInv' => Store' = KV!View(OpsOf(hist))'
<1>1. (Inv /\ DurableInv /\ SuffixInv /\ RefInv => Store = KV!View(OpsOf(hist)))'
  BY StoreIsView, PTL
<1>2. QED
  BY <1>1

\* OpsOf renames the writes of a sequence one by one.
LEMMA OpsOfIs ==
    ASSUME Len(ops) \in Nat, NEW W \in Seq(1 .. Len(ops)), NEW S, S = {Op(w) : w \in 1 .. Len(ops)}
    PROVE  /\ OpsOf(W) \in Seq(S) /\ Len(OpsOf(W)) = Len(W)
           /\ \A i \in 1 .. Len(W) : OpsOf(W)[i] = Op(W[i])
<1>1. Len(W) \in Nat /\ DOMAIN W = 1 .. Len(W) /\ \A i \in 1 .. Len(W) : W[i] \in 1 .. Len(ops)
  OBVIOUS
<1>2. PICK n, V : n = Len(W) /\ V = OpsOf(W)
  OBVIOUS
<1>3. V = [i \in 1 .. n |-> Op(W[i])]
  BY <1>1, <1>2 DEF OpsOf
<1>4. \A i \in 1 .. n : Op(W[i]) \in S
  BY <1>1, <1>2
<1>5. V \in [1 .. n -> S] /\ \A i \in 1 .. n : V[i] = Op(W[i])
  BY <1>3, <1>4
<1>6. V \in Seq(S) /\ Len(V) = n
  BY <1>1, <1>2, <1>5
<1>7. QED
  BY <1>2, <1>5, <1>6

LEMMA OpsOfEmpty == OpsOf(<< >>) = << >>
<1>1. PICK V : V = OpsOf(<< >>)
  OBVIOUS
<1>2. DOMAIN << >> = 1 .. 0 /\ 1 .. 0 = {}
  OBVIOUS
<1>3. V = [i \in 1 .. 0 |-> Op(<< >>[i])]
  BY <1>1, <1>2 DEF OpsOf
<1>4. V \in [1 .. 0 -> {}]
  BY <1>2, <1>3
<1>5. V \in Seq({}) /\ Len(V) = 0
  BY <1>4
<1>6. QED
  BY <1>1, <1>5, EmptySeq

LEMMA NothingUnderway == wr.pc # "apply" => OpsOf(Underway) = << >>
  BY OpsOfEmpty DEF Underway

LEMMA NothingUnderwayNext == wr'.pc # "apply" => OpsOf(Underway)' = << >>
<1>1. (wr.pc # "apply" => OpsOf(Underway) = << >>)'
  BY NothingUnderway, PTL
<1>2. QED
  BY <1>1

LEMMA OpsOfAppended ==
    ASSUME Len(ops) \in Nat, NEW W \in Seq(1 .. Len(ops)), NEW w \in 1 .. Len(ops)
    PROVE  OpsOf(W \o <<w>>) = OpsOf(W) \o OpsOf(<<w>>) /\ Len(OpsOf(<<w>>)) = 1
<1>1. PICK S, V : S = {Op(x) : x \in 1 .. Len(ops)} /\ V = W \o <<w>>
  OBVIOUS
<1>2. /\ V \in Seq(1 .. Len(ops)) /\ Len(V) = Len(W) + 1 /\ Len(W) \in Nat
      /\ \A i \in 1 .. Len(W) : V[i] = W[i]
      /\ V[Len(W) + 1] = w
  BY <1>1
<1>3. <<w>> \in Seq(1 .. Len(ops)) /\ Len(<<w>>) = 1 /\ <<w>>[1] = w
  OBVIOUS
<1>4. PICK A, B, C : A = OpsOf(W) /\ B = OpsOf(<<w>>) /\ C = OpsOf(V)
  OBVIOUS
<1>5. A \in Seq(S) /\ Len(A) = Len(W) /\ \A i \in 1 .. Len(W) : A[i] = Op(W[i])
  BY <1>1, <1>4, OpsOfIs
<1>6. B \in Seq(S) /\ Len(B) = 1 /\ B[1] = Op(w)
  <2>1. B \in Seq(S) /\ Len(B) = 1 /\ \A i \in 1 .. 1 : B[i] = Op(<<w>>[i])
    BY <1>1, <1>3, <1>4, OpsOfIs
  <2>2. QED
    BY <1>3, <2>1
<1>7. C \in Seq(S) /\ Len(C) = Len(W) + 1 /\ \A i \in 1 .. Len(W) + 1 : C[i] = Op(V[i])
  BY <1>1, <1>2, <1>4, OpsOfIs
<1>n. PICK n \in Nat : n = Len(W)
  BY <1>2
<1>8. /\ A \o B \in Seq(S) /\ Len(A \o B) = n + 1
      /\ \A i \in 1 .. n : (A \o B)[i] = A[i]
      /\ (A \o B)[n + 1] = B[1]
  <2>1. Len(A) = n
    <3>1. Len(A) = Len(W)
      BY <1>5
    <3>2. QED
      BY <1>n, <3>1
  <2>b. Len(B) = 1
    BY <1>6
  <2>2. /\ A \o B \in Seq(S) /\ Len(A \o B) = Len(A) + Len(B)
        /\ \A i \in 1 .. Len(A) + Len(B) :
             (A \o B)[i] = IF i <= Len(A) THEN A[i] ELSE B[i - Len(A)]
    <3>1. A \in Seq(S) /\ B \in Seq(S)
      BY <1>5, <1>6
    <3>2. QED
      BY <3>1, ConcatProperties
  <2>3. /\ \A i \in 1 .. n : i \in 1 .. n + 1 /\ i <= n
        /\ n + 1 \in 1 .. n + 1 /\ ~ (n + 1 <= n) /\ (n + 1) - n = 1
    OBVIOUS
  <2>4. PICK D : D = A \o B
    OBVIOUS
  <2>5. /\ D \in Seq(S) /\ Len(D) = n + 1
        /\ \A i \in 1 .. n + 1 : D[i] = IF i <= n THEN A[i] ELSE B[i - n]
    BY <2>1, <2>b, <2>2, <2>4
  <2>6. \A i \in 1 .. n : D[i] = A[i]
    BY <2>3, <2>5
  <2>7. D[n + 1] = B[1]
    BY <2>3, <2>5
  <2>8. QED
    BY <2>4, <2>5, <2>6, <2>7
<1>9. \A i \in 1 .. n + 1 : C[i] = (A \o B)[i]
  <2>1. SUFFICES ASSUME NEW i \in 1 .. n + 1 PROVE C[i] = (A \o B)[i]
    OBVIOUS
  <2>2. CASE i \in 1 .. n
    <3>1. (A \o B)[i] = A[i] /\ V[i] = W[i] /\ A[i] = Op(W[i])
      BY <1>2, <1>5, <1>8, <1>n, <2>2
    <3>2. C[i] = Op(V[i])
      BY <1>7, <1>n
    <3>3. QED
      BY <3>1, <3>2
  <2>3. CASE i = n + 1
    BY <1>2, <1>6, <1>7, <1>8, <1>n, <2>3
  <2>4. i \in 1 .. n \/ i = n + 1
    OBVIOUS
  <2>5. QED
    BY <2>2, <2>3, <2>4
<1>10. C = A \o B
  <2>1. Len(C) = n + 1
    BY <1>7, <1>n
  <2>2. QED
    BY <1>7, <1>8, <1>9, <2>1, SeqEqual
<1>11. QED
  BY <1>1, <1>4, <1>6, <1>10

LEMMA OpsOfPrefix ==
    ASSUME Len(ops) \in Nat, NEW W \in Seq(1 .. Len(ops)), NEW m \in 0 .. Len(W)
    PROVE  OpsOf(SubSeq(W, 1, m)) = SubSeq(OpsOf(W), 1, m)
<1>1. PICK S, V : S = {Op(x) : x \in 1 .. Len(ops)} /\ V = SubSeq(W, 1, m)
  OBVIOUS
<1>2. V \in Seq(1 .. Len(ops)) /\ Len(V) = m /\ m \in Nat /\ \A i \in 1 .. m : V[i] = W[i]
  BY <1>1
<1>3. PICK A, C : A = OpsOf(W) /\ C = OpsOf(V)
  OBVIOUS
<1>4. A \in Seq(S) /\ Len(A) = Len(W) /\ \A i \in 1 .. Len(W) : A[i] = Op(W[i])
  BY <1>1, <1>3, OpsOfIs
<1>5. C \in Seq(S) /\ Len(C) = m /\ \A i \in 1 .. m : C[i] = Op(V[i])
  BY <1>1, <1>2, <1>3, OpsOfIs
<1>6. SubSeq(A, 1, m) \in Seq(S) /\ Len(SubSeq(A, 1, m)) = m /\ \A i \in 1 .. m : SubSeq(A, 1, m)[i] = A[i]
  BY <1>2, <1>4
<1>7. 1 .. m \subseteq 1 .. Len(W)
  BY <1>2
<1>8. \A i \in 1 .. m : C[i] = SubSeq(A, 1, m)[i]
  BY <1>2, <1>4, <1>5, <1>6, <1>7
<1>9. C = SubSeq(A, 1, m)
  BY <1>5, <1>6, <1>8, SeqEqual
<1>10. QED
  BY <1>1, <1>3, <1>9

\* The log of the store and the write under way are the writes of the engine.
LEMMA LogIsWrites ==
    ASSUME Inv, DurableInv, LooseAreLast
    PROVE  /\ OpsOf(hist) \o OpsOf(Underway) = OpsOf(Writes)
           /\ Len(OpsOf(hist)) + Len(OpsOf(Underway)) = Len(Writes)
           /\ Len(OpsOf(hist)) = Len(hist)
           /\ wr.pc = "apply" => OpsOf(Underway) # << >>
           /\ wr.pc # "apply" => OpsOf(Underway) = << >>
<1>1. PICK h, w, S : h = hist /\ w = wr.w /\ S = {Op(x) : x \in 1 .. Len(ops)}
  OBVIOUS
<1>2. /\ h \in Seq(1 .. Len(ops)) /\ Len(ops) \in Nat /\ Len(h) \in Nat
      /\ wr.pc = "apply" => w \in 1 .. Len(ops) /\ Writes = h \o <<w>> /\ Len(Writes) = Len(h) + 1
      /\ wr.pc # "apply" => Writes = h
  BY <1>1, WritesType
<1>3. OpsOf(h) \in Seq(S) /\ Len(OpsOf(h)) = Len(h)
  BY <1>1, <1>2, OpsOfIs
<1>4. CASE wr.pc = "apply"
  <2>1. Underway = <<w>>
    BY <1>1, <1>4 DEF Underway
  <2>2. OpsOf(h \o <<w>>) = OpsOf(h) \o OpsOf(<<w>>) /\ Len(OpsOf(<<w>>)) = 1
    BY <1>2, <1>4, OpsOfAppended
  <2>3. OpsOf(<<w>>) # << >>
    <3>1. PICK B : B = OpsOf(<<w>>)
      OBVIOUS
    <3>2. Len(B) = 1 /\ Len(<< >>) = 0
      BY <2>2, <3>1
    <3>3. B # << >>
      BY <3>2
    <3>4. QED
      BY <3>1, <3>3
  <2>4. QED
    BY <1>1, <1>2, <1>3, <1>4, <2>1, <2>2, <2>3
<1>5. CASE wr.pc # "apply"
  <2>1. OpsOf(Underway) = << >>
    BY <1>5, NothingUnderway
  <2>2. PICK A : A = OpsOf(h)
    OBVIOUS
  <2>3. A \o << >> = A /\ Len(A) + Len(<< >>) = Len(h)
    BY <1>2, <1>3, <2>2
  <2>4. QED
    BY <1>1, <1>2, <1>3, <1>5, <2>1, <2>2, <2>3
<1>6. QED
  BY <1>4, <1>5

-----------------------------------------------------------------------------

\* The answers after a step.
LEMMA StoreNext ==
    ASSUME Inv', DurableInv', SuffixInv', RefInv', NEW L, L = OpsOf(hist)'
    PROVE  Store' = KV!View(L)
<1>1. Store' = KV!View(OpsOf(hist))'
  BY StoreIsViewNext
<1>2. KV!View(OpsOf(hist))' = KV!View(L)
  BY DEF KV!View
<1>3. QED
  BY <1>1, <1>2

LEMMA StoreStays ==
    ASSUME Inv, Inv', DurableInv, DurableInv', SuffixInv, SuffixInv', RefInv, RefInv',
           [Next]_vars, UNCHANGED hist
    PROVE  Store' = Store /\ OpsOf(hist)' = OpsOf(hist)
<1>1. PICK h, L : h = hist /\ L = OpsOf(h)
  OBVIOUS
<1>2. h \in Seq(1 .. Len(ops))
  BY <1>1, WritesType DEF RefInv
<1>3. OpsOf(h)' = OpsOf(h)
  BY <1>2, SaidIsSaid
<1>4. OpsOf(hist)' = OpsOf(h)'
  BY <1>1 DEF OpsOf, Op
<1>5. L = OpsOf(hist)'
  BY <1>1, <1>3, <1>4
<1>6. Store' = KV!View(L)
  BY <1>5, StoreNext
<1>7. Store = KV!View(L)
  BY <1>1, StoreIsView
<1>8. QED
  BY <1>1, <1>5, <1>6, <1>7

\* A promise is about writes that took effect, and is never withdrawn.
LEMMA PromisedGrows ==
    ASSUME NoLosingFaults, OnlyProcessesDie, NoLostAnswers, Inv, Inv', DurableInv, DurableInv',
           SuffixInv, SuffixInv', RefInv, RefInv', RefNext
    PROVE  /\ promised \in Nat /\ promised' \in Nat /\ promised <= promised'
           /\ promised <= FirmLen /\ promised' <= Len(hist') /\ Len(hist') \in Nat
<1>1. PICK F, G, h, p : F = FirmLen /\ G = FirmLen' /\ h = Len(hist') /\ p = promised
  OBVIOUS
<1>2. F \in Nat /\ G \in Nat /\ F <= G /\ h \in Nat /\ G <= h
  BY <1>1, FirmLenGrows
<1>3. p \in 0 .. F /\ promised' \in 0 .. G /\ marks \in [Clients -> Nat]
  BY <1>1 DEF RefInv, PromisedAreFirm
<1>4. p <= promised'
  <2>1. CASE fl.pc = "ok" /\ fl'.pc = "free" /\ fl.by \in Clients /\ mode' = "up"
    <3>1. PICK m, n : m = marks[fl.by] /\ n = m + p
      OBVIOUS
    <3>2. m \in Nat /\ n \in Nat /\ {p, m} \subseteq 0 .. n /\ {p, m} # {}
      BY <1>2, <1>3, <2>1, <3>1
    <3>3. promised' = Max({p, m})
      BY <1>1, <2>1, <3>1 DEF RefNext
    <3>4. QED
      BY <3>2, <3>3, MaxOfBounded
  <2>2. CASE ~ (fl.pc = "ok" /\ fl'.pc = "free" /\ fl.by \in Clients /\ mode' = "up")
    <3>1. promised' \in {p, h}
      BY <1>1, <2>2 DEF RefNext
    <3>2. QED
      BY <1>2, <1>3, <3>1
  <2>3. QED
    BY <2>1, <2>2
<1>5. QED
  BY <1>1, <1>2, <1>3, <1>4

\* Starting and stopping promise nothing.
LEMMA PromisedStays ==
    ASSUME OnlyProcessesDie, Inv, Inv', DurableInv, RefNext, mode # "up" \/ mode' # "up"
    PROVE  promised' = promised
<1>n. [Next]_vars
  BY DEF RefNext
<1>1. acked' = acked
  <2>1. CASE mode # "up"
    BY <1>n, <2>1, DownSteps DEF Recover, Reback, RebackFails, CleanOld, Crash, ghosts, promises
  <2>2. CASE mode = "up" /\ mode' # "up"
    <3>1. Close \/ Crash("kill")
      BY <1>n, <2>2, UpSteps, ApplyWrites DEF Write, WriteSyncFails, FlushSync, Swap, StaysPut
    <3>2. QED
      BY <3>1 DEF Close, Crash, promises
  <2>3. QED
    BY <2>1, <2>2
<1>2. ~ (fl.pc = "ok" /\ fl'.pc = "free" /\ fl.by \in Clients /\ mode' = "up")
  BY DEF Inv, Quiet
<1>3. QED
  BY <1>1, <1>2 DEF RefNext

LEMMA WriteIsBegin ==
    ASSUME Inv, Inv', DurableInv, DurableInv', SuffixInv, SuffixInv', RefInv, RefInv', RefNext,
           NEW k \in Keys, NEW del \in BOOLEAN, Write(k, del)
    PROVE  KV!Begin
<1>n. [Next]_vars
  BY DEF RefNext
<1>1. PICK w : w = Len(ops) + 1
  OBVIOUS
<1>2. /\ mode = "up" /\ mode' = "up" /\ wr.pc = "free" /\ wr'.pc = "apply" /\ wr'.w = w
      /\ ops' = Append(ops, [key |-> k, del |-> del]) /\ Len(ops) < MaxWrites
      /\ UNCHANGED <<fl, acked>>
  BY <1>1 DEF Write, promises
<1>3. Len(ops) \in Nat /\ ops \in Seq([key : Keys, del : BOOLEAN]) /\ MaxWrites \in Nat
  BY Numbers, BoundsAssumption DEF Inv, TypeOK, TypeHistory
<1>4. w \in Ids \ {0} /\ ops'[w] = [key |-> k, del |-> del]
  <2>1. PICK x, n : x = [key |-> k, del |-> del] /\ n = Len(ops)
    OBVIOUS
  <2>2. Append(ops, x)[n + 1] = x
    BY <1>3, <2>1
  <2>3. w \in 0 .. MaxWrites /\ w # 0
    BY <1>1, <1>2, <1>3
  <2>4. QED
    BY <1>1, <1>2, <2>1, <2>2, <2>3 DEF Ids
<1>5. OpsOf(Underway) = << >>
  BY <1>2, LogIsWrites DEF RefInv
<1>6. OpsOf(Underway)' = <<[key |-> k, del |-> del, id |-> w]>>
  <2>1. Underway' = <<w>>
    BY <1>2 DEF Underway
  <2>2. Op(w)' = [key |-> k, del |-> del, id |-> w]
    BY <1>4 DEF Op
  <2>3. OpsOf(Underway)' = [i \in DOMAIN <<w>> |-> Op(<<w>>[i])']
    BY <2>1 DEF OpsOf, Op
  <2>4. DOMAIN <<w>> = 1 .. 1 /\ <<w>>[1] = w /\ 1 .. 1 = {1}
    OBVIOUS
  <2>5. OpsOf(Underway)' = [i \in 1 .. 1 |-> [key |-> k, del |-> del, id |-> w]]
    <3>1. \A i \in DOMAIN <<w>> : Op(<<w>>[i])' = [key |-> k, del |-> del, id |-> w]
      BY <2>2, <2>4 DEF Op
    <3>2. QED
      BY <2>3, <2>4, <3>1
  <2>6. QED
    BY <2>5
<1>7. UNCHANGED hist /\ promised' = promised
  BY <1>2 DEF RefNext
<1>8. Store' = Store /\ OpsOf(hist)' = OpsOf(hist)
  BY <1>n, <1>7, StoreStays
<1>9. QED
  BY <1>2, <1>4, <1>5, <1>6, <1>7, <1>8 DEF KV!Begin, Store

LEMMA ApplyIsTakeEffect ==
    ASSUME Inv, Inv', DurableInv, DurableInv', SuffixInv, SuffixInv', RefInv, RefInv', RefNext,
           NEW freeze \in BOOLEAN, Apply(freeze)
    PROVE  KV!TakeEffect
<1>r. LooseAreLast /\ LooseAreLast'
  BY DEF RefInv
<1>1. PICK h, w : h = hist /\ w = wr.w
  OBVIOUS
<1>2. /\ wr.pc = "apply" /\ mode = "up" /\ mode' = "up" /\ UNCHANGED ops /\ UNCHANGED fl
  BY ApplyWrites DEF Apply
<1>3. wr'.pc # "apply"
  <2>1. wr \in WrType
    BY DEF Inv, TypeOK, TypeProcess
  <2>2. wr' = [wr EXCEPT !.pc = "rotate"] \/ wr' = WrFree
    BY DEF Apply
  <2>3. QED
    BY <2>1, <2>2 DEF WrType, WrFree
<1>4. PICK W : W = Writes
  OBVIOUS
<1>5. hist' = W
  BY <1>2, <1>3, <1>4 DEF RefNext, Writes
<1>6. OpsOf(hist) \o OpsOf(Underway) = OpsOf(W) /\ OpsOf(Underway) # << >>
  BY <1>r, <1>2, <1>4, LogIsWrites
<1>7. PICK L : L = OpsOf(hist)'
  OBVIOUS
<1>8. L = OpsOf(W)
  BY <1>2, <1>5, <1>7 DEF OpsOf, Op
<1>9. Store' = KV!View(L)
  BY <1>7, StoreNext
<1>10. OpsOf(Underway)' = << >>
  BY <1>3, NothingUnderwayNext
<1>11. promised' \in {promised, Len(L)}
  <2>1. promised' \in {promised, Len(hist')}
    BY <1>2 DEF RefNext
  <2>2. Len(L) = Len(W)
    <3>1. W \in Seq(1 .. Len(ops)) /\ Len(ops) \in Nat
      BY <1>r, <1>4, WritesType
    <3>2. QED
      BY <1>8, <3>1, OpsOfIs
  <2>3. QED
    BY <1>5, <2>1, <2>2
<1>12. QED
  <2>1. OpsOf(hist)' = OpsOf(hist) \o OpsOf(Underway)
    BY <1>6, <1>7, <1>8
  <2>2. Store' = KV!View(OpsOf(hist)')
    BY <1>7, <1>9
  <2>3. promised' \in {promised, Len(OpsOf(hist)')}
    BY <1>7, <1>11
  <2>4. QED
    BY <1>2, <1>6, <1>10, <2>1, <2>2, <2>3 DEF KV!TakeEffect, Store

LEMMA DyingIsStop ==
    ASSUME NoLosingFaults, OnlyProcessesDie, NoLostAnswers, Inv, Inv', DurableInv, DurableInv',
           SuffixInv, SuffixInv', RefInv, RefInv', RefNext, mode = "up", mode' = "down"
    PROVE  KV!Stop
<1>r. LooseAreApplied /\ LooseAreLast /\ LooseAreLast' /\ FirmIsSolid
  BY DEF RefInv
<1>1. PICK W : W = Writes
  OBVIOUS
<1>2. PICK m \in 0 .. Len(W) : FirmLen <= m /\ hist' = SubSeq(W, 1, m) /\ UNCHANGED ops
  BY <1>r, <1>1, WritesStop
<1>3. W \in Seq(1 .. Len(ops)) /\ Len(ops) \in Nat /\ Len(W) \in Nat /\ FirmLen \in Nat
  BY <1>r, <1>1, WritesType
<1>4. promised \in Nat /\ promised <= FirmLen
  BY PromisedGrows
<1>5. m \in promised .. Len(W)
  BY <1>2, <1>3, <1>4
<1>6. /\ OpsOf(hist) \o OpsOf(Underway) = OpsOf(W)
      /\ Len(OpsOf(hist)) + Len(OpsOf(Underway)) = Len(W)
  BY <1>r, <1>1, LogIsWrites
<1>7. PICK L : L = OpsOf(hist)'
  OBVIOUS
<1>8. L = OpsOf(SubSeq(W, 1, m))
  BY <1>2, <1>7 DEF OpsOf, Op
<1>9. L = SubSeq(OpsOf(W), 1, m)
  BY <1>2, <1>3, <1>8, OpsOfPrefix
<1>10. Store' = KV!View(L)
  BY <1>7, StoreNext
<1>11. OpsOf(Underway)' = << >>
  <2>1. wr'.pc = "free"
    BY DEF Inv, Quiet
  <2>2. QED
    BY <2>1, NothingUnderwayNext
<1>12. promised' = promised
  BY PromisedStays
<1>13. \E n \in promised .. (Len(OpsOf(hist)) + Len(OpsOf(Underway))) :
         OpsOf(hist)' = SubSeq(OpsOf(hist) \o OpsOf(Underway), 1, n)
  <2>1. m \in promised .. (Len(OpsOf(hist)) + Len(OpsOf(Underway)))
    BY <1>5, <1>6
  <2>2. OpsOf(hist)' = SubSeq(OpsOf(hist) \o OpsOf(Underway), 1, m)
    BY <1>6, <1>7, <1>9
  <2>3. QED
    BY <2>1, <2>2
<1>14. Store' = KV!View(OpsOf(hist)')
  BY <1>7, <1>10
<1>15. QED
  BY <1>11, <1>12, <1>13, <1>14 DEF KV!Stop, Store

\* A step of the engine that is neither a put nor a delete, nor a stop.
LEMMA OtherSteps ==
    ASSUME Inv, Inv', DurableInv, DurableInv', SuffixInv, SuffixInv', RefInv, RefInv', RefNext,
           UNCHANGED hist, OpsOf(Underway)' = OpsOf(Underway),
           mode' = "up" \/ mode # "up", mode = "up" \/ promised' = promised,
           promised \in Nat, promised' \in Nat, promised <= promised', promised' <= Len(hist)
    PROVE  [KV!Next]_(KV!kvVars)
<1>n. [Next]_vars
  BY DEF RefNext
<1>1. Store' = Store /\ OpsOf(hist)' = OpsOf(hist)
  BY <1>n, StoreStays
<1>2. CASE mode # "up" /\ mode' = "up"
  <2>1. KV!Start
    BY <1>1, <1>2 DEF KV!Start, Store
  <2>2. QED
    BY <2>1 DEF KV!Next
<1>3. CASE (mode = "up" <=> mode' = "up") /\ promised' = promised
  <2>1. UNCHANGED KV!kvVars
    BY <1>1, <1>3 DEF KV!kvVars, Store
  <2>2. QED
    BY <2>1
<1>4. CASE mode = "up" /\ mode' = "up" /\ promised' # promised
  <2>1. Len(OpsOf(hist)) = Len(hist) /\ Len(hist) \in Nat
    BY LogIsWrites, WritesType DEF RefInv
  <2>2. promised' \in (promised + 1) .. Len(OpsOf(hist))
    BY <1>4, <2>1
  <2>3. KV!Promise
    BY <1>1, <1>4, <2>2 DEF KV!Promise, Store
  <2>4. QED
    BY <2>3 DEF KV!Next
<1>5. QED
  BY <1>2, <1>3, <1>4

LEMMA StepIsStep ==
    ASSUME NoLosingFaults, OnlyProcessesDie, NoLostAnswers, Inv, Inv', DurableInv, DurableInv',
           SuffixInv, SuffixInv', RefInv, RefInv', RefNext
    PROVE  [KV!Next]_(KV!kvVars)
<1>n. [Next]_vars
  BY DEF RefNext
<1>r. LooseAreLast /\ LooseAreLast' /\ FirmIsSolid
  BY DEF RefInv
<1>p. /\ promised \in Nat /\ promised' \in Nat /\ promised <= promised'
      /\ promised' <= Len(hist') /\ (mode # "up" => promised' = promised)
  BY PromisedGrows, PromisedStays
<1>e. (wr.pc # "apply" => OpsOf(Underway) = << >>) /\ (wr'.pc # "apply" => OpsOf(Underway)' = << >>)
  BY NothingUnderway, NothingUnderwayNext
<1>1. CASE mode # "up"
  <2>1. UNCHANGED hist /\ wr'.pc = "free" /\ wr.pc = "free"
    BY <1>r, <1>1, WritesDown DEF Inv, Quiet
  <2>2. OpsOf(Underway)' = OpsOf(Underway)
    BY <1>e, <2>1
  <2>3. QED
    BY <1>p, <1>1, <2>1, <2>2, OtherSteps
<1>2. CASE mode = "up" /\ mode' = "down"
  <2>1. KV!Stop
    BY <1>2, DyingIsStop
  <2>2. QED
    BY <2>1 DEF KV!Next
<1>3. CASE mode = "up" /\ mode' = "up"
  <2>1. ASSUME NEW k \in Keys, NEW del \in BOOLEAN, Write(k, del) PROVE [KV!Next]_(KV!kvVars)
    <3>1. KV!Begin
      BY <2>1, WriteIsBegin
    <3>2. QED
      BY <3>1 DEF KV!Next
  <2>2. ASSUME NEW k \in Keys, NEW del \in BOOLEAN PROVE ~ WriteSyncFails(k, del)
    BY DEF WriteSyncFails, NoLostAnswers
  <2>3. ASSUME NEW freeze \in BOOLEAN, Apply(freeze) PROVE [KV!Next]_(KV!kvVars)
    <3>1. KV!TakeEffect
      BY <2>3, ApplyIsTakeEffect
    <3>2. QED
      BY <3>1 DEF KV!Next
  <2>4. hist' = IF wr.pc = "apply" /\ wr'.pc # "apply" THEN hist \o Underway ELSE hist
    BY <1>3 DEF RefNext
  <2>5. ASSUME wr.pc # "apply", wr'.pc # "apply" PROVE [KV!Next]_(KV!kvVars)
    <3>1. UNCHANGED hist /\ OpsOf(Underway)' = OpsOf(Underway)
      BY <1>e, <2>4, <2>5
    <3>2. QED
      BY <1>p, <1>3, <3>1, OtherSteps
  <2>6. ASSUME NEW c \in Clients, FlushSync(c) PROVE [KV!Next]_(KV!kvVars)
    BY <2>5, <2>6 DEF FlushSync
  <2>7. CASE Swap
    BY <2>5, <2>7 DEF Swap, WrFree
  <2>8. CASE StaysPut
    <3>1. UNCHANGED hist /\ UNCHANGED ops /\ Underway' = Underway
      BY <2>4, <2>8 DEF StaysPut, Underway
    <3>2. OpsOf(Underway)' = OpsOf(Underway)
      BY <3>1 DEF OpsOf, Op
    <3>3. QED
      BY <1>p, <1>3, <3>1, <3>2, OtherSteps
  <2>9. ~ Close /\ ~ Crash("kill")
    BY <1>3 DEF Close, Crash, ProcessGone
  <2>10. QED
    BY <1>n, <1>3, <2>1, <2>2, <2>3, <2>6, <2>7, <2>8, <2>9, UpSteps
<1>4. QED
  BY <1>n, <1>1, <1>2, <1>3, UpOrDown

\* Every behaviour of the engine, with its writers, its flushes, its worker, its
\* compactions and processes that die and are restarted at any moment, is one of the
\* store: a put or delete takes effect at once, nothing else changes an answer, and
\* a stop loses only a suffix of the writes, none of which flush() or a synced put
\* has promised (put, delete, get, flush, compact, open_with_options).
THEOREM EngineRefinesKVStore ==
    ASSUME NoLosingFaults, OnlyProcessesDie, NoLostAnswers PROVE RefSpec => RefinesKVStore
<1>1. RefInit => KV!Init
  <2>1. SUFFICES ASSUME RefInit PROVE KV!Init
    OBVIOUS
  <2>2. mode = "down" /\ hist = << >> /\ promised = 0 /\ wr = WrFree
    BY <2>1 DEF RefInit, Init
  <2>3. OpsOf(hist) = << >> /\ OpsOf(Underway) = << >>
    BY <2>2, OpsOfEmpty DEF Underway, WrFree
  <2>4. Inv /\ DurableInv /\ SuffixInv /\ RefInv
    BY <2>1, InvInit, DurableInit, SuffixInit, RefInvInit DEF RefInit
  <2>5. Store = KV!View(<< >>)
    BY <2>3, <2>4, StoreIsView
  <2>6. QED
    BY <2>2, <2>3, <2>5 DEF KV!Init, Store
<1>2. /\ Inv /\ DurableInv /\ SuffixInv /\ RefInv
      /\ (Inv /\ DurableInv /\ SuffixInv /\ RefInv)'
      /\ [RefNext]_refVars
      => [KV!Next]_(KV!kvVars)
  <2>1. SUFFICES ASSUME Inv, Inv', DurableInv, DurableInv', SuffixInv, SuffixInv', RefInv, RefInv',
                        [RefNext]_refVars
                 PROVE  [KV!Next]_(KV!kvVars)
    OBVIOUS
  <2>2. CASE RefNext
    BY <2>1, <2>2, StepIsStep
  <2>3. CASE UNCHANGED refVars
    <3>1. UNCHANGED vars /\ UNCHANGED <<hist, promised, mode, ops, wr>>
      BY <2>3 DEF refVars, vars
    <3>2. Store' = Store /\ OpsOf(hist)' = OpsOf(hist)
      BY <2>1, <3>1, StoreStays
    <3>3. OpsOf(Underway)' = OpsOf(Underway)
      BY <3>1 DEF OpsOf, Op, Underway
    <3>4. UNCHANGED KV!kvVars
      BY <3>1, <3>2, <3>3 DEF KV!kvVars, Store
    <3>5. QED
      BY <3>4
  <2>4. QED
    BY <2>1, <2>2, <2>3
<1>3. QED
  BY <1>1, <1>2, RefInvCorrect, PTL DEF RefSpec, RefinesKVStore, KV!Spec
=============================================================================
