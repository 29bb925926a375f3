-------------------------- MODULE LsmDirCrashProofs --------------------------
(***************************************************************************)
(* open survives power failures that undo changes of the directory, and    *)
(* with sync_per_write so does every acknowledged write, for every value   *)
(* of the constants.                                                       *)
(***************************************************************************)
EXTENDS LsmDirCrashInv, LsmPromisesProofs

\* The directory of the moment is one that open accepts.
LEMMA DirectoryOpenable ==
    ASSUME Inv PROVE Directory \in Directories /\ Openable(Directory)
<1>1. /\ walFiles \subseteq Seqs /\ files \in [Levels -> SUBSET Seqs]
      /\ manifest \in [Levels -> SUBSET Seqs]
  BY DEF Inv, TypeOK, TypeDirectory
<1>2. Directory \in Directories
  BY <1>1 DEF Directory, Directories
<1>3. Openable(Directory)
  BY DEF Inv, Tables, LevelOrder, Openable, Directory
<1>4. QED
  BY <1>2, <1>3

\* Writes are only added.
LEMMA OpsGrow ==
    ASSUME Inv, Inv', [Next]_vars
    PROVE  /\ 1 .. Len(ops) \subseteq 1 .. Len(ops')
           /\ 0 .. Len(ops) \subseteq 0 .. Len(ops')
<1>1. Len(ops) \in Nat /\ Len(ops') \in Nat
  <2>1. Len(ops) \in Nat
    BY Numbers
  <2>2. ops' \in Seq([key : Keys, del : BOOLEAN])
    BY DEF Inv, TypeOK, TypeHistory
  <2>3. QED
    BY <2>1, <2>2
<1>2. ops' = ops \/ \E k \in Keys, del \in BOOLEAN : ops' = Append(ops, [key |-> k, del |-> del])
  BY LogSteps DEF Write, WriteSyncFails, Rotate, Crash, Recover, ghosts
<1>3. ops \in Seq([key : Keys, del : BOOLEAN])
  BY DEF Inv, TypeOK, TypeHistory
<1>4. Len(ops) <= Len(ops')
  <2>1. CASE ops' = ops
    BY <1>1, <2>1
  <2>2. ASSUME NEW x, ops' = Append(ops, x) PROVE Len(ops) <= Len(ops')
    <3>1. Len(ops') = Len(ops) + 1
      BY <1>3, <2>2
    <3>2. QED
      BY <1>1, <3>1
  <2>3. QED
    BY <1>2, <2>1, <2>2
<1>5. QED
  BY <1>1, <1>4

\* A step of the engine records the directory it leaves.
LEMMA TrackedDir == ASSUME Inv, DirInv, Tracked PROVE Inv' /\ DirInv'
<1>0. Next
  BY DEF Tracked
<1>1. Inv'
  BY <1>0, InvNext
<1>2. PICK D : D = {d \in Directories : Openable(d)}
  OBVIOUS
<1>3. Directory \in D
  BY <1>2, DirectoryOpenable
<1>4. Directory' \in D
  <2>1. PICK e : e = Directory'
    OBVIOUS
  <2>2. /\ walFiles' \subseteq Seqs /\ files' \in [Levels -> SUBSET Seqs]
        /\ manifest' \in [Levels -> SUBSET Seqs]
    BY <1>1 DEF Inv, TypeOK, TypeDirectory
  <2>3. e = [wals |-> walFiles', files |-> files', manifest |-> manifest']
    BY <2>1 DEF Directory
  <2>4. e \in Directories
    BY <2>2, <2>3 DEF Directories
  <2>5. Openable(e)
    BY <1>1, <2>3 DEF Inv, Tables, LevelOrder, Openable
  <2>6. QED
    BY <1>2, <2>1, <2>4, <2>5
<1>5. past' \in Seq(D)
  <2>1. past \in Seq(D)
    BY <1>2 DEF DirInv
  <2>2. PICK before : /\ before = IF Fsyncs THEN <<Directory>> ELSE past
                      /\ past' = IF Directory' = Directory THEN before
                                 ELSE Append(before, Directory')
    BY DEF Tracked
  <2>3. before \in Seq(D)
    BY <1>3, <2>1, <2>2
  <2>4. QED
    BY <1>4, <2>2, <2>3
<1>6. 1 .. Len(ops) \subseteq 1 .. Len(ops') /\ 0 .. Len(ops) \subseteq 0 .. Len(ops')
  BY <1>0, <1>1, OpsGrow
<1>7. logs' \in [Seqs -> [log : Seq(1 .. Len(ops')), synced : Nat]]
  <2>1. logs' = [g \in Seqs |-> IF g \in walFiles'
                                THEN [log |-> wlog'[g], synced |-> wsync'[g]] ELSE logs[g]]
    BY DEF Tracked
  <2>2. \A g \in Seqs : wlog'[g] \in Seq(1 .. Len(ops')) /\ wsync'[g] \in Nat
    BY <1>1 DEF Inv, Issued, TypeOK, TypeDirectory
  <2>3. ASSUME NEW g \in Seqs PROVE logs[g] \in [log : Seq(1 .. Len(ops')), synced : Nat]
    <3>1. logs[g] \in [log : Seq(1 .. Len(ops)), synced : Nat]
      BY DEF DirInv
    <3>2. logs[g].log \in Seq(1 .. Len(ops)) /\ logs[g].synced \in Nat
          /\ logs[g] = [log |-> logs[g].log, synced |-> logs[g].synced]
      BY <3>1
    <3>3. logs[g].log \in Seq(1 .. Len(ops'))
      BY <1>6, <3>2, SeqMonotonic
    <3>4. QED
      BY <3>2, <3>3
  <2>4. QED
    BY <2>1, <2>2, <2>3
<1>8. tabs' \in [Levels -> [Seqs -> [Keys -> 0 .. Len(ops')]]]
  <2>1. tabs' = [l \in Levels |-> [s \in Seqs |->
                   IF s \in files'[l] THEN sst'[l][s] ELSE tabs[l][s]]]
    BY DEF Tracked
  <2>2. \A l \in Levels, s \in Seqs : sst'[l][s] \in [Keys -> 0 .. Len(ops')]
    BY <1>1 DEF Inv, Issued
  <2>3. \A l \in Levels, s \in Seqs : tabs[l][s] \in [Keys -> 0 .. Len(ops')]
    BY <1>6 DEF DirInv
  <2>4. QED
    BY <2>1, <2>2, <2>3
<1>9. QED
  BY <1>1, <1>2, <1>5, <1>7, <1>8 DEF DirInv

\* A power failure brings back a directory that open accepts, whatever it undoes.
LEMMA PowerFailureDir == ASSUME Inv, DirInv, PowerFailure PROVE Inv' /\ DirInv'
<1>1. PICK d \in Range(past) :
        /\ walFiles' = d.wals /\ files' = d.files /\ manifest' = d.manifest
        /\ \E cut \in [d.wals -> Ids] :
             /\ \A g \in d.wals : cut[g] \in logs[g].synced .. Len(logs[g].log)
             /\ wlog' = [g \in Seqs |-> IF g \in d.wals THEN SubSeq(logs[g].log, 1, cut[g])
                                                        ELSE << >>]
        /\ wos' = [g \in Seqs |-> Len(wlog'[g])]
        /\ wsync' = wos'
        /\ sst' = [l \in Levels |-> [s \in Seqs |->
                     IF s \in d.files[l] THEN tabs[l][s] ELSE EmptyTable]]
        /\ past' = <<d>>
        /\ logs' = [g \in Seqs |-> [log |-> wlog'[g], synced |-> wsync'[g]]]
  BY DEF PowerFailure
<1>2. PICK cut \in [d.wals -> Ids] :
        /\ \A g \in d.wals : cut[g] \in logs[g].synced .. Len(logs[g].log)
        /\ wlog' = [g \in Seqs |-> IF g \in d.wals THEN SubSeq(logs[g].log, 1, cut[g])
                                                   ELSE << >>]
  BY <1>1
<1>3. /\ tabs' = sst' /\ ProcessGone /\ stops' = stops + 1
      /\ UNCHANGED <<ops, kv, gone, durable, acked, closed>>
  BY DEF PowerFailure, promises
<1>4. d \in Directories /\ Openable(d)
  <2>1. PICK D : D = {e \in Directories : Openable(e)}
    OBVIOUS
  <2>2. past \in Seq(D)
    BY <2>1 DEF DirInv
  <2>3. d \in D
    BY <2>2 DEF Range
  <2>4. QED
    BY <2>1, <2>3
<1>5. /\ d.wals \subseteq Seqs /\ d.files \in [Levels -> SUBSET Seqs]
      /\ d.manifest \in [Levels -> SUBSET Seqs]
  BY <1>4 DEF Directories
<1>6. ASSUME NEW g \in d.wals PROVE SubSeq(logs[g].log, 1, cut[g]) \in Seq(1 .. Len(ops))
  <2>1. logs[g] \in [log : Seq(1 .. Len(ops)), synced : Nat]
    BY <1>5 DEF DirInv
  <2>2. logs[g].log \in Seq(1 .. Len(ops)) /\ logs[g].synced \in Nat
    BY <2>1
  <2>3. cut[g] \in Nat /\ cut[g] <= Len(logs[g].log)
    BY <1>2, <2>2
  <2>4. \A i \in 1 .. cut[g] : logs[g].log[i] \in 1 .. Len(ops)
    BY <2>2, <2>3, ElementOfSeq
  <2>5. QED
    BY <2>3, <2>4, SubSeqProperties
<1>7. wlog' \in [Seqs -> Seq(1 .. Len(ops))]
  BY <1>2, <1>6, EmptySeq
<1>8. wos' \in [Seqs -> Nat] /\ wsync' \in [Seqs -> Nat]
  <2>1. \A g \in Seqs : Len(wlog'[g]) \in Nat
    BY <1>7
  <2>2. QED
    BY <1>1, <2>1
<1>9. Len(ops) \in Nat /\ Len(ops) <= MaxWrites /\ MaxWrites \in Nat
  BY Numbers, BoundsAssumption DEF Inv, TypeOK, TypeHistory
<1>10. sst' \in [Levels -> [Seqs -> [Keys -> 0 .. Len(ops)]]]
  <2>1. 0 \in 0 .. Len(ops)
    BY <1>9
  <2>2. EmptyTable \in [Keys -> 0 .. Len(ops)]
    BY <2>1 DEF EmptyTable
  <2>3. \A l \in Levels, s \in Seqs : tabs[l][s] \in [Keys -> 0 .. Len(ops)]
    BY DEF DirInv
  <2>4. QED
    BY <1>1, <2>2, <2>3
<1>11. TypeOK'
  <2>1. 0 .. Len(ops) \subseteq Ids /\ 1 .. Len(ops) \subseteq 1 .. MaxWrites
    BY <1>9 DEF Ids
  <2>2. wlog' \in [Seqs -> Seq(1 .. MaxWrites)]
    BY <1>7, <2>1, SeqMonotonic
  <2>3. sst' \in [Levels -> [Seqs -> Table]]
    BY <1>10, <2>1 DEF Table
  <2>4. TypeDirectory'
    BY <1>1, <1>5, <1>8, <2>2, <2>3 DEF TypeDirectory
  <2>5. TypeProcess' /\ snap' \in [Clients -> Table] /\ (wr'.pc # "apply" /\ wr'.by # "put")
    <3>1. /\ mode' = "down" /\ mem' = [g \in Seqs |-> EmptyTable] /\ active' = 0 /\ imms' = {}
          /\ levels' = NoTables /\ nextSeq' = 1 /\ stale' = {} /\ wr' = WrFree /\ fl' = FlFree
          /\ wk' = "recv" /\ signals' = 0 /\ calls' = [c \in Clients |-> "idle"]
          /\ snap' = [c \in Clients |-> EmptyTable]
      BY <1>3 DEF ProcessGone
    <3>2. wr'.pc = "free" /\ wr'.by = "none" /\ fl'.pc = "free"
      BY <3>1 DEF WrFree, FlFree
    <3>3. 1 \in 1 .. (MaxSeq + 1) /\ 0 \in 0 .. MaxSeq
      BY BoundsAssumption
    <3>4. QED
      BY <3>1, <3>2, <3>3, BasicSets DEF TypeProcess
  <2>6. TypeHistory'
    BY <1>3, <2>5 DEF Inv, TypeOK, TypeHistory
  <2>7. QED
    BY <2>4, <2>5, <2>6 DEF TypeOK
<1>12. Inv'
  <2>1. /\ mode' = "down" /\ wr'.pc = "free" /\ fl'.pc = "free" /\ imms' = {}
        /\ mem' = [g \in Seqs |-> EmptyTable] /\ levels' = NoTables
    BY <1>3 DEF ProcessGone, WrFree, FlFree
  <2>2. Quiet' /\ Generations' /\ View'
    BY <2>1 DEF Quiet, Generations, View
  <2>3. \A l \in Levels : levels'[l] = {}
    BY <2>1 DEF NoTables
  <2>4. Tables' /\ LevelOrder'
    BY <1>1, <1>4, <2>1, <2>3, BasicSets DEF Tables, LevelOrder, Openable
  <2>5. FlushInFlight' /\ CompactionInFlight' /\ InputsRetired'
    BY <2>1 DEF FlushInFlight, CompactionInFlight, InputsRetired
  <2>6. mem' \in [Seqs -> [Keys -> 0 .. Len(ops)]]
    <3>1. 0 \in 0 .. Len(ops)
      BY <1>9
    <3>2. QED
      BY <2>1, <3>1 DEF EmptyTable
  <2>7. Issued'
    BY <1>3, <1>7, <1>10, <2>6 DEF Inv, Issued
  <2>8. QED
    BY <1>11, <2>2, <2>4, <2>5, <2>7 DEF Inv
<1>13. DirInv'
  <2>1. past' \in Seq({e \in Directories : Openable(e)})
    BY <1>1, <1>4
  <2>2. logs' \in [Seqs -> [log : Seq(1 .. Len(ops)), synced : Nat]]
    BY <1>1, <1>7, <1>8
  <2>3. QED
    BY <1>3, <1>10, <2>1, <2>2 DEF DirInv
<1>14. QED
  BY <1>12, <1>13

LEMMA DirInvInit == DirInit => Inv /\ DirInv
<1> SUFFICES ASSUME DirInit PROVE Inv /\ DirInv
  OBVIOUS
<1>1. /\ Inv /\ past = <<Directory>> /\ tabs = sst
      /\ logs = [g \in Seqs |-> [log |-> << >>, synced |-> 0]]
  BY InvInit DEF DirInit
<1>2. Directory \in Directories /\ Openable(Directory)
  BY <1>1, DirectoryOpenable
<1>3. past \in Seq({d \in Directories : Openable(d)})
  BY <1>1, <1>2
<1>4. tabs \in [Levels -> [Seqs -> [Keys -> 0 .. Len(ops)]]]
  BY <1>1 DEF Inv, Issued
<1>5. logs \in [Seqs -> [log : Seq(1 .. Len(ops)), synced : Nat]]
  <2>1. << >> \in Seq(1 .. Len(ops)) /\ 0 \in Nat
    OBVIOUS
  <2>2. QED
    BY <1>1, <2>1
<1>6. QED
  BY <1>1, <1>3, <1>4, <1>5 DEF DirInv

\* The engine's invariant and that of the directories hold together, whatever the
\* power failures undo.
THEOREM DirInvCorrect == DirSpec => [](Inv /\ DirInv)
<1>1. Inv /\ DirInv /\ [DirNext]_dirCrashVars => (Inv /\ DirInv)'
  <2>1. SUFFICES ASSUME Inv, DirInv, [DirNext]_dirCrashVars PROVE Inv' /\ DirInv'
    OBVIOUS
  <2>2. CASE UNCHANGED dirCrashVars
    <3>1. UNCHANGED vars /\ UNCHANGED <<past, logs, tabs>>
      BY <2>2 DEF dirCrashVars
    <3>2. Inv'
      BY <2>1, <3>1, InvNext
    <3>3. ops' = ops
      BY <3>1 DEF vars
    <3>4. DirInv'
      BY <2>1, <3>1, <3>3 DEF DirInv
    <3>5. QED
      BY <3>2, <3>4
  <2>3. QED
    BY <2>1, <2>2, TrackedDir, PowerFailureDir DEF DirNext
<1>2. QED
  BY <1>1, DirInvInit, PTL DEF DirSpec

\* open never fails on "manifest references missing sstable", although the code does
\* not fsync the directory: every table is renamed into place, and fsynced, before a
\* MANIFEST that lists it, and deleted after one that does not
\* (flush_pending, compact_all_pending, open_with_options).
THEOREM OpenSurvivesEveryUndo == DirSpec => []OpenSurvivesUndo
<1>1. Inv => OpenSurvivesUndo
  BY DEF Inv, Tables, OpenSurvivesUndo, ManifestOnDisk
<1>2. QED
  BY <1>1, DirInvCorrect, PTL

-----------------------------------------------------------------------------
(* What a stop leaves, whatever it undoes.                                 *)

\* A write that a power failure leaves now is still left after a step.
LEMMA KeptNowNext ==
    ASSUME NoLosingFaults, Inv, DurableInv, DurableInv', [Next]_vars,
           NEW k \in Keys, NEW e \in 0 .. Len(ops), KeptNow(k, e)
    PROVE  KeptNow(k, e)'
<1>d. /\ LogShape /\ LogsAccounted /\ ManifestLags /\ Reappended /\ LiveLogs'
      /\ "power" \in PromiseKinds
  BY DEF DurableInv, PromiseKinds
<1>0. e \in Nat
  OBVIOUS
<1>1. DiskKeeps("power", k, e) /\ DiskKeeps("power", k, e)'
  BY <1>d, DiskKeepsNext DEF KeptNow
<1>2. ASSUME mode' = "reback" PROVE ~ HasOlder(active, k, e)'
  <2>1. CASE Recover
    BY <1>0, <1>d, <1>1, <2>1, RecoveredNotOlder
  <2>2. CASE mode = "reback" /\ UNCHANGED <<wlog, active, ops>>
    BY <2>2 DEF KeptNow, HasOlder, Entries
  <2>3. QED
    BY <1>2, <2>1, <2>2, RebackSteps
<1>3. ASSUME mode' \in {"clean", "up"} PROVE LiveKeeps("power", k, e)'
  <2>1. CASE Reback
    <3>1. ~ HasOlder(active, k, e)
      BY <2>1 DEF Reback, KeptNow
    <3>2. QED
      BY <1>d, <1>1, <2>1, <3>1, LiveRebacked
  <2>2. CASE mode \in {"clean", "up"}
    BY <1>d, <1>3, <2>2, LiveKeepsNext DEF KeptNow
  <2>3. QED
    BY <1>3, <2>1, <2>2, OpenSteps
<1>4. QED
  BY <1>1, <1>2, <1>3 DEF KeptNow

\* Every entry of a log is a number.
LEMMA EntryNumbers ==
    ASSUME Inv, DirInv
    PROVE  /\ \A g \in Seqs : \A i \in 1 .. Len(wlog[g]) : wlog[g][i] \in 1 .. Len(ops)
           /\ \A g \in Seqs : /\ logs[g].log \in Seq(1 .. Len(ops)) /\ Len(logs[g].log) \in Nat
                              /\ logs[g].synced \in Nat
                              /\ \A i \in 1 .. Len(logs[g].log) : logs[g].log[i] \in 1 .. Len(ops)
           /\ \A d \in Range(past) : /\ d \in Directories /\ Openable(d) /\ d.wals \subseteq Seqs
                                     /\ d.manifest \in [Levels -> SUBSET Seqs]
                                     /\ d.files \in [Levels -> SUBSET Seqs]
           /\ \A l \in Levels, s \in Seqs, k \in Keys : tabs[l][s][k] \in 0 .. Len(ops)
           /\ Len(ops) \in Nat
<1>1. \A g \in Seqs : \A i \in 1 .. Len(wlog[g]) : wlog[g][i] \in 1 .. Len(ops)
  <2>1. \A g \in Seqs : wlog[g] \in Seq(1 .. Len(ops))
    BY DEF Inv, Issued
  <2>2. QED
    BY <2>1, ElementOfSeq
<1>2. ASSUME NEW g \in Seqs
      PROVE  /\ logs[g].log \in Seq(1 .. Len(ops)) /\ Len(logs[g].log) \in Nat
             /\ logs[g].synced \in Nat
             /\ \A i \in 1 .. Len(logs[g].log) : logs[g].log[i] \in 1 .. Len(ops)
  <2>1. logs[g] \in [log : Seq(1 .. Len(ops)), synced : Nat]
    BY DEF DirInv
  <2>2. logs[g].log \in Seq(1 .. Len(ops)) /\ logs[g].synced \in Nat
    BY <2>1
  <2>3. QED
    BY <2>2, ElementOfSeq
<1>3. ASSUME NEW d \in Range(past)
      PROVE  /\ d \in Directories /\ Openable(d) /\ d.wals \subseteq Seqs
             /\ d.manifest \in [Levels -> SUBSET Seqs] /\ d.files \in [Levels -> SUBSET Seqs]
  <2>1. PICK D : D = {e \in Directories : Openable(e)}
    OBVIOUS
  <2>2. past \in Seq(D)
    BY <2>1 DEF DirInv
  <2>3. d \in D
    BY <2>2 DEF Range
  <2>4. d \in Directories /\ Openable(d)
    BY <2>1, <2>3
  <2>5. QED
    BY <2>4 DEF Directories
<1>4. \A l \in Levels, s \in Seqs, k \in Keys : tabs[l][s][k] \in 0 .. Len(ops)
  BY DEF DirInv
<1>5. QED
  BY <1>1, <1>2, <1>3, <1>4, Numbers

\* What leaves a write leaves every older one.
LEMMA KeptNowLess ==
    ASSUME Inv, DirInv, NEW k \in Keys, NEW d \in Nat, NEW e \in Nat, e <= d, KeptNow(k, d)
    PROVE  KeptNow(k, e)
<1>1. /\ \A g \in Seqs : \A i \in 1 .. Len(wlog[g]) : wlog[g][i] \in 1 .. Len(ops)
      /\ Len(ops) \in Nat
  BY EntryNumbers
<1>2. /\ walFiles \subseteq Seqs /\ \A g \in Seqs : g \in Nat
      /\ mode # "down" => active \in Seqs /\ LiveGens \subseteq Seqs
      /\ levels \in [Levels -> SUBSET Seqs] /\ manifest \in [Levels -> SUBSET Seqs]
      /\ gone[k] \in Nat
  <2>1. levels \in [Levels -> SUBSET Seqs] /\ manifest \in [Levels -> SUBSET Seqs]
    BY DEF Inv, TypeOK, TypeDirectory, TypeProcess
  <2>2. gone[k] \in Ids
    BY DEF Inv, TypeOK, TypeHistory, Table
  <2>3. QED
    BY <2>1, <2>2, Numbers, BasicSets
<1>3. \A g \in Seqs : HasOlder(g, k, e) => HasOlder(g, k, d)
  <2>1. ASSUME NEW g \in Seqs, NEW i \in Entries(g, k), wlog[g][i] < e PROVE wlog[g][i] < d
    BY <1>1, <2>1 DEF Entries
  <2>2. QED
    BY <2>1 DEF HasOlder
<1>4. \A g \in Seqs : SafeHit("power", g, k, d) => SafeHit("power", g, k, e)
  <2>1. ASSUME NEW g \in Seqs, NEW i \in Entries(g, k), wlog[g][i] >= d PROVE wlog[g][i] >= e
    BY <1>1, <2>1 DEF Entries
  <2>2. QED
    BY <2>1 DEF SafeHit
<1>5. \A r \in Nat : Fresh(k, r, d) => Fresh(k, r, e)
  BY <1>2 DEF Fresh
<1>6. FromTables(manifest, k) \in Nat /\ FromTables(levels, k) \in Nat
  <2>1. FromTables(manifest, k) \in 0 .. Len(ops) /\ FromTables(levels, k) \in 0 .. Len(ops)
    BY <1>2, TablesType
  <2>2. QED
    BY <2>1
<1>7. DiskKeeps("power", k, e)
  <2>1. DiskKeeps("power", k, d)
    BY DEF KeptNow
  <2>2. ASSUME NEW g \in walFiles, HasOlder(g, k, e)
        PROVE  \E h \in walFiles : g <= h /\ SafeHit("power", h, k, e)
    BY <1>2, <1>3, <1>4, <2>1, <2>2 DEF DiskKeeps
  <2>3. ASSUME \A g \in walFiles : ~ SafeHit("power", g, k, e)
        PROVE  Fresh(k, FromTables(manifest, k), e)
    <3>1. Fresh(k, FromTables(manifest, k), d)
      BY <1>2, <1>4, <2>1, <2>3 DEF DiskKeeps
    <3>2. QED
      BY <1>5, <1>6, <3>1
  <2>4. QED
    BY <2>2, <2>3 DEF DiskKeeps
<1>8. ASSUME mode \in {"clean", "up"} PROVE LiveKeeps("power", k, e)
  <2>1. LiveKeeps("power", k, d) /\ LiveGens \subseteq Seqs
    BY <1>2, <1>8 DEF KeptNow
  <2>2. ASSUME NEW g \in LiveGens, mem[g][k] >= d PROVE mem[g][k] >= e
    <3>1. mem[g][k] \in Nat
      BY <1>1, <2>1 DEF Inv, Issued
    <3>2. QED
      BY <2>2, <3>1
  <2>3. ASSUME NEW g \in LiveGens, HasOlder(g, k, e)
        PROVE  \E h \in LiveGens : g <= h /\ mem[h][k] >= e /\ SafeHit("power", h, k, e)
    BY <1>3, <1>4, <2>1, <2>2, <2>3 DEF LiveKeeps
  <2>4. ASSUME \A g \in LiveGens : ~ (mem[g][k] >= e /\ SafeHit("power", g, k, e))
        PROVE  Fresh(k, FromTables(levels, k), e)
    <3>1. Fresh(k, FromTables(levels, k), d)
      BY <1>4, <2>1, <2>2, <2>4 DEF LiveKeeps
    <3>2. QED
      BY <1>5, <1>6, <3>1
  <2>5. QED
    BY <2>3, <2>4 DEF LiveKeeps
<1>9. QED
  BY <1>2, <1>3, <1>7, <1>8 DEF KeptNow

LEMMA PastTablesType ==
    ASSUME Inv, DirInv, NEW d \in Directories, NEW k \in Keys
    PROVE  PastTables(d, k) \in 0 .. Len(ops)
<1>1. /\ \A l \in Levels, s \in Seqs : tabs[l][s][k] \in 0 .. Len(ops)
      /\ Len(ops) \in Nat
  BY EntryNumbers
<1>2. /\ d.manifest[0] \subseteq Seqs /\ d.manifest[1] \subseteq Seqs
      /\ 0 \in Levels /\ 1 \in Levels /\ 0 \in 0 .. Len(ops)
  BY <1>1, BasicSets DEF Directories
<1>3. NewestHit(d.manifest[0], tabs[0], k) \in 0 .. Len(ops)
  BY <1>1, <1>2, NewestHitFrom
<1>4. NewestHit(d.manifest[1], tabs[1], k) \in 0 .. Len(ops)
  BY <1>1, <1>2, NewestHitFrom
<1>5. QED
  BY <1>3, <1>4 DEF PastTables, OrElse

LEMMA PastKeepsLess ==
    ASSUME Inv, DirInv, NEW d \in Directories, NEW k \in Keys, NEW f \in Nat, NEW e \in Nat,
           e <= f, PastKeeps(d, k, f)
    PROVE  PastKeeps(d, k, e)
<1>1. /\ \A g \in Seqs : \A i \in 1 .. Len(logs[g].log) : logs[g].log[i] \in 1 .. Len(ops)
      /\ Len(ops) \in Nat
  BY EntryNumbers
<1>2. d.wals \subseteq Seqs
  BY DEF Directories
<1>3. \A g \in Seqs : PastHasOlder(g, k, e) => PastHasOlder(g, k, f)
  <2>1. ASSUME NEW g \in Seqs, NEW i \in PastEntries(g, k), logs[g].log[i] < e
        PROVE  logs[g].log[i] < f
    BY <1>1, <2>1 DEF PastEntries
  <2>2. QED
    BY <2>1 DEF PastHasOlder
<1>4. \A g \in Seqs : PastSafeHit(g, k, f) => PastSafeHit(g, k, e)
  <2>1. ASSUME NEW g \in Seqs, NEW i \in PastEntries(g, k), logs[g].log[i] >= f
        PROVE  logs[g].log[i] >= e
    BY <1>1, <2>1 DEF PastEntries
  <2>2. QED
    BY <2>1 DEF PastSafeHit
<1>5. Fresh(k, PastTables(d, k), f) => Fresh(k, PastTables(d, k), e)
  <2>1. PastTables(d, k) \in Nat
    BY <1>1, PastTablesType
  <2>2. gone[k] \in Nat
    <3>1. gone[k] \in Ids
      BY DEF Inv, TypeOK, TypeHistory, Table
    <3>2. QED
      BY <3>1, BasicSets
  <2>3. QED
    BY <2>1, <2>2 DEF Fresh
<1>6. QED
  BY <1>2, <1>3, <1>4, <1>5 DEF PastKeeps

LEMMA SecureLess ==
    ASSUME Inv, DirInv, NEW k \in Keys, NEW f \in Nat, NEW e \in Nat, e <= f, Secure(k, f)
    PROVE  Secure(k, e)
<1>1. \A d \in Range(past) : d \in Directories
  BY EntryNumbers
<1>2. KeptNow(k, e)
  BY KeptNowLess DEF Secure
<1>3. \A d \in Range(past) : PastKeeps(d, k, e)
  BY <1>1, PastKeepsLess DEF Secure
<1>4. QED
  BY <1>2, <1>3 DEF Secure

\* What is on disk is what the directory of the moment would keep.
LEMMA MirrorKeeps ==
    ASSUME Inv, Mirrored, NEW k \in Keys, NEW e
    PROVE  /\ PastTables(Directory, k) = FromTables(manifest, k)
           /\ PastKeeps(Directory, k, e) <=> DiskKeeps("power", k, e)
           /\ \A g \in walFiles : /\ PastEntries(g, k) = Entries(g, k)
                                  /\ PastSafeHit(g, k, e) <=> SafeHit("power", g, k, e)
                                  /\ PastHasOlder(g, k, e) <=> HasOlder(g, k, e)
<1>1. Directory.wals = walFiles /\ Directory.manifest = manifest
  BY DEF Directory
<1>2. PastTables(Directory, k) = FromTables(manifest, k)
  <2>1. /\ 0 \in Levels /\ 1 \in Levels /\ manifest[0] \subseteq Seqs /\ manifest[1] \subseteq Seqs
    BY BasicSets DEF Inv, TypeOK, TypeDirectory
  <2>2. \A l \in Levels : \A s \in manifest[l] : tabs[l][s][k] = sst[l][s][k]
    BY DEF Inv, Tables, Mirrored
  <2>3. NewestHit(manifest[0], tabs[0], k) = NewestHit(manifest[0], sst[0], k)
    BY <2>1, <2>2, NewestHitSame
  <2>4. NewestHit(manifest[1], tabs[1], k) = NewestHit(manifest[1], sst[1], k)
    BY <2>1, <2>2, NewestHitSame
  <2>5. QED
    BY <1>1, <2>3, <2>4 DEF PastTables, FromTables
<1>3. ASSUME NEW g \in walFiles
      PROVE  /\ PastEntries(g, k) = Entries(g, k)
             /\ PastSafeHit(g, k, e) <=> SafeHit("power", g, k, e)
             /\ PastHasOlder(g, k, e) <=> HasOlder(g, k, e)
  <2>0. logs[g] = [log |-> wlog[g], synced |-> wsync[g]]
    BY DEF Mirrored
  <2>1. logs[g].log = wlog[g] /\ logs[g].synced = wsync[g]
    BY <2>0
  <2>2. PastEntries(g, k) = Entries(g, k)
    BY <2>1 DEF PastEntries, Entries
  <2>3. Safe("power", g) = wsync[g]
    BY DEF Safe
  <2>4. QED
    BY <2>1, <2>2, <2>3 DEF PastSafeHit, SafeHit, PastHasOlder, HasOlder
<1>4. PastKeeps(Directory, k, e) <=> DiskKeeps("power", k, e)
  BY <1>1, <1>2, <1>3 DEF PastKeeps, DiskKeeps
<1>5. QED
  BY <1>2, <1>3, <1>4

-----------------------------------------------------------------------------
(* How a step changes what past directories would keep.                    *)

LEMMA SstSteps ==
    ASSUME [Next]_vars
    PROVE  \/ UNCHANGED <<files, sst>>
           \/ FlushBuild
           \/ \E p \in Clients \cup {"worker"} : CompactBuild(p)
           \/ \E l \in Levels : CompactUnlink(l)
<1>1. CASE UNCHANGED vars
  BY <1>1 DEF vars
<1>2. CASE WritePath
  BY <1>2 DEF WritePath, Write, WriteSyncFails, Apply, FlushSync, Rotate, RotateFails, Swap,
     sstVars
<1>3. CASE FlushPipeline
  BY <1>3 DEF FlushPipeline, FlushBegin, FlushBuildFails, FlushCommit,
     FlushNothing, FlushManifest, FlushManifestFails, FlushUnlink, FlushReturn,
     dirVars, sstVars
<1>4. CASE Compaction
  BY <1>4 DEF Compaction, CompactBuildFails, CompactNothing,
     CompactCommit, CompactManifest, CompactManifestFails, CompactReturn, dirVars
<1>5. CASE Worker
  BY <1>5 DEF Worker, WorkerRecv, WorkerCheck, dirVars
<1>6. CASE Lifecycle
  BY <1>6 DEF Lifecycle, Close, Crash, RebackFails, Recover, Reback, CleanOld, sstVars
<1>7. QED
  BY <1>1, <1>2, <1>3, <1>4, <1>5, <1>6 DEF Next

\* A table is only written where its file is fsynced.
LEMMA FileSteps ==
    ASSUME Inv, [Next]_vars, ~ Fsyncs, NEW l \in Levels, NEW s \in files'[l]
    PROVE  s \in files[l] /\ sst'[l][s] = sst[l][s]
<1>1. CASE FlushBuild
  <2>1. fl.pc = "drain" /\ fl'.pc = "commit"
    BY <1>1 DEF FlushBuild, Inv, TypeOK, TypeProcess, FlType
  <2>2. QED
    BY <2>1 DEF Fsyncs
<1>2. ASSUME NEW p, CompactBuild(p) PROVE s \in files[l] /\ sst'[l][s] = sst[l][s]
  <2>1. CASE Merged(levels) = EmptyTable
    BY <1>2, <2>1 DEF CompactBuild
  <2>2. CASE Merged(levels) # EmptyTable
    <3>1. fl.pc = "free" /\ fl' = [FlFree EXCEPT !.pc = "merged", !.by = p, !.seq = nextSeq]
      BY <1>2, <2>2 DEF CompactBuild, CompactCaller
    <3>2. fl'.pc = "merged" /\ fl'.seq = nextSeq
      BY <3>1 DEF FlFree
    <3>3. nextSeq # 0
      BY BoundsAssumption DEF Inv, TypeOK, TypeProcess
    <3>4. QED
      BY <3>1, <3>2, <3>3 DEF Fsyncs
  <2>3. QED
    BY <2>1, <2>2
<1>3. ASSUME NEW m \in Levels, CompactUnlink(m)
      PROVE  s \in files[l] /\ sst'[l][s] = sst[l][s]
  <2>1. CASE UNCHANGED <<files, sst>>
    BY <2>1
  <2>2. PICK n : \/ UNCHANGED <<files, sst>>
                 \/ /\ files' = [files EXCEPT ![m] = @ \ {n}]
                    /\ sst' = [sst EXCEPT ![m] = [sst[m] EXCEPT ![n] = EmptyTable]]
    BY <1>3 DEF CompactUnlink
  <2>3. files \in [Levels -> SUBSET Seqs] /\ sst \in [Levels -> [Seqs -> Table]]
    BY DEF Inv, TypeOK, TypeDirectory
  <2>4. CASE /\ files' = [files EXCEPT ![m] = @ \ {n}]
             /\ sst' = [sst EXCEPT ![m] = [sst[m] EXCEPT ![n] = EmptyTable]]
    <3>1. s \in files[l] /\ s \in Seqs /\ (l = m => s # n)
      BY <2>3, <2>4
    <3>2. QED
      BY <2>3, <2>4, <3>1
  <2>5. QED
    BY <2>1, <2>2, <2>4
<1>4. QED
  BY <1>1, <1>2, <1>3, SstSteps

\* The number of a new generation is above those of all that exist.
LEMMA NewWal ==
    ASSUME Inv, LogShape, LiveLogs, [Next]_vars, NEW g \in walFiles', g \notin walFiles
    PROVE  \A h \in walFiles : h < g
<1>1. CASE Rotate
  <2>1. g = nextSeq /\ mode = "up"
    BY <1>1 DEF Rotate, Inv, Quiet
  <2>2. QED
    BY <2>1 DEF LiveLogs
<1>2. CASE Recover
  BY <1>2, RecoverLog
<1>3. CASE FlushUnlink \/ CleanOld
  BY <1>3 DEF FlushUnlink, CleanOld, UnlinkWal, walVars
<1>4. QED
  BY <1>1, <1>2, <1>3, DirectorySteps

\* No write is issued anew.
LEMMA OpsKept ==
    ASSUME Inv, [Next]_vars PROVE \A w \in 1 .. Len(ops) : ops'[w] = ops[w]
<1>1. ops' = ops \/ \E k \in Keys, del \in BOOLEAN : ops' = Append(ops, [key |-> k, del |-> del])
  BY LogSteps DEF Write, WriteSyncFails, Rotate, Crash, Recover, ghosts
<1>2. ops \in Seq([key : Keys, del : BOOLEAN])
  BY DEF Inv, TypeOK, TypeHistory
<1>3. ASSUME NEW x, ops' = Append(ops, x), NEW w \in 1 .. Len(ops) PROVE ops'[w] = ops[w]
  BY <1>2, <1>3
<1>4. QED
  BY <1>1, <1>3

\* A log that exists, or once did, keeps what it keeps.
LEMMA PastLogKept ==
    ASSUME Inv, DirInv, Mirrored, LogShape, Tracked, NEW g \in Seqs,
           g \in walFiles \/ g \notin walFiles', NEW k \in Keys, NEW e \in 0 .. Len(ops)
    PROVE  /\ PastSafeHit(g, k, e) => PastSafeHit(g, k, e)'
           /\ PastHasOlder(g, k, e)' => PastHasOlder(g, k, e)
<1>0. [Next]_vars
  BY DEF Tracked
<1>1. CASE g \notin walFiles'
  <2>1. logs'[g] = logs[g]
    BY <1>1 DEF Tracked
  <2>2. \A i \in 1 .. Len(logs[g].log) : ops'[logs[g].log[i]] = ops[logs[g].log[i]]
    BY <1>0, EntryNumbers, OpsKept
  <2>3. PastEntries(g, k)' = PastEntries(g, k)
    BY <2>1, <2>2 DEF PastEntries
  <2>4. QED
    BY <2>1, <2>3 DEF PastSafeHit, PastHasOlder
<1>2. CASE g \in walFiles /\ g \in walFiles'
  <2>1. logs'[g] = [log |-> wlog'[g], synced |-> wsync'[g]]
    BY <1>2 DEF Tracked
  <2>2. logs'[g].log = wlog'[g] /\ logs'[g].synced = wsync'[g]
    BY <2>1
  <2>3. PastEntries(g, k)' = Entries(g, k)' /\ Safe("power", g)' = wsync'[g]
    BY <2>2 DEF PastEntries, Entries, Safe
  <2>4. /\ PastSafeHit(g, k, e)' <=> SafeHit("power", g, k, e)'
        /\ PastHasOlder(g, k, e)' <=> HasOlder(g, k, e)'
    BY <2>2, <2>3 DEF PastSafeHit, SafeHit, PastHasOlder, HasOlder
  <2>5. /\ PastSafeHit(g, k, e) <=> SafeHit("power", g, k, e)
        /\ PastHasOlder(g, k, e) <=> HasOlder(g, k, e)
    BY <1>2, MirrorKeeps
  <2>6. "power" \in PromiseKinds
    BY DEF PromiseKinds
  <2>7. QED
    BY <1>0, <1>2, <2>4, <2>5, <2>6, LogKept
<1>3. QED
  BY <1>1, <1>2

\* So do the tables that a directory lists.
LEMMA PastTabKept ==
    ASSUME Inv, DirInv, Mirrored, Tracked, NEW d \in Directories, Openable(d),
           d = Directory \/ ~ Fsyncs, NEW k \in Keys
    PROVE  PastTables(d, k)' = PastTables(d, k)
<1>0. [Next]_vars
  BY DEF Tracked
<1>1. /\ d.manifest \in [Levels -> SUBSET Seqs] /\ 0 \in Levels /\ 1 \in Levels
      /\ \A l \in Levels : d.manifest[l] \subseteq d.files[l]
  BY BasicSets DEF Directories, Openable
<1>2. ASSUME NEW l \in Levels, NEW s \in d.manifest[l] PROVE tabs'[l][s] = tabs[l][s]
  <2>0. s \in Seqs
    BY <1>1
  <2>1. tabs'[l][s] = IF s \in files'[l] THEN sst'[l][s] ELSE tabs[l][s]
    BY <2>0 DEF Tracked
  <2>2. CASE d = Directory
    <3>1. s \in manifest[l]
      BY <2>2 DEF Directory
    <3>2. s \in files[l]
      BY <3>1 DEF Inv, Tables
    <3>3. sst'[l][s] = sst[l][s]
      BY <1>0, <3>1, ReferencedUntouched
    <3>4. QED
      BY <2>1, <3>2, <3>3 DEF Mirrored
  <2>3. CASE ~ Fsyncs /\ s \in files'[l]
    <3>1. s \in files[l] /\ sst'[l][s] = sst[l][s]
      BY <1>0, <2>3, FileSteps
    <3>2. QED
      BY <2>1, <3>1 DEF Mirrored
  <2>4. QED
    BY <2>1, <2>2, <2>3
<1>3. NewestHit(d.manifest[0], tabs'[0], k) = NewestHit(d.manifest[0], tabs[0], k)
  BY <1>1, <1>2, NewestHitSame
<1>4. NewestHit(d.manifest[1], tabs'[1], k) = NewestHit(d.manifest[1], tabs[1], k)
  BY <1>1, <1>2, NewestHitSame
<1>5. QED
  BY <1>3, <1>4 DEF PastTables

\* What a directory keeps it keeps for as long as it may come back.
LEMMA PastPersists ==
    ASSUME Inv, DirInv, Mirrored, LogShape, LiveLogs, Tracked, NEW d \in Directories, Openable(d),
           d = Directory \/ (d \in Range(past) /\ ~ Fsyncs),
           NEW k \in Keys, NEW e \in 0 .. Len(ops), PastKeeps(d, k, e)
    PROVE  PastKeeps(d, k, e)'
<1>0. [Next]_vars
  BY DEF Tracked
<1>1. d.wals \subseteq Seqs /\ \A g \in Seqs : g \in Nat
  BY Numbers DEF Directories
<1>2. ASSUME NEW g \in d.wals PROVE g \in walFiles \/ g \notin walFiles'
  <2>1. CASE d = Directory
    BY <2>1 DEF Directory
  <2>2. CASE d \in Range(past)
    <3>1. PICK h \in walFiles : g <= h
      BY <2>2 DEF Mirrored
    <3>2. h \in Nat /\ g \in Nat
      BY <1>1, Numbers
    <3>3. QED
      BY <1>0, <3>1, <3>2, NewWal
  <2>3. QED
    BY <2>1, <2>2
<1>3. \A g \in d.wals : /\ PastSafeHit(g, k, e) => PastSafeHit(g, k, e)'
                        /\ PastHasOlder(g, k, e)' => PastHasOlder(g, k, e)
  BY <1>1, <1>2, PastLogKept
<1>4. PastTables(d, k)' = PastTables(d, k)
  BY PastTabKept
<1>5. Fresh(k, PastTables(d, k), e) => Fresh(k, PastTables(d, k), e)'
  <2>1. PICK r : r = PastTables(d, k)
    OBVIOUS
  <2>2. r \in Nat /\ e \in Nat
    BY <2>1, PastTablesType, Numbers
  <2>3. Fresh(k, r, e) => Fresh(k, r, e)'
    BY <1>0, <2>2, FreshKept
  <2>4. QED
    BY <1>4, <2>1, <2>3 DEF Fresh
<1>6. QED
  BY <1>3, <1>5 DEF PastKeeps

\* The directories that may come back after a step.
LEMMA PastSteps ==
    ASSUME DirInv, Tracked, NEW d \in Range(past')
    PROVE  d = Directory \/ d = Directory' \/ (d \in Range(past) /\ ~ Fsyncs)
<1>1. PICK before : /\ before = IF Fsyncs THEN <<Directory>> ELSE past
                    /\ past' = IF Directory' = Directory THEN before
                               ELSE Append(before, Directory')
  BY DEF Tracked
<1>2. PICK D : past \in Seq(D)
  BY DEF DirInv
<1>3. before \in Seq(D \cup {Directory})
  <2>1. past \in Seq(D \cup {Directory})
    BY <1>2, SeqMonotonic
  <2>2. <<Directory>> \in Seq(D \cup {Directory})
    OBVIOUS
  <2>3. QED
    BY <1>1, <2>1, <2>2
<1>4. d \in Range(before) \/ d = Directory'
  <2>1. PICK n \in DOMAIN past' : d = past'[n]
    BY DEF Range
  <2>2. CASE Directory' = Directory
    BY <1>1, <2>1, <2>2 DEF Range
  <2>3. CASE Directory' # Directory
    <3>1. past' = Append(before, Directory')
      BY <1>1, <2>3
    <3>2. DOMAIN past' = 1 .. (Len(before) + 1) /\ DOMAIN before = 1 .. Len(before)
          /\ Len(before) \in Nat
      BY <1>3, <3>1
    <3>3. CASE n = Len(before) + 1
      BY <1>3, <2>1, <3>1, <3>3
    <3>4. CASE n \in 1 .. Len(before)
      <4>1. d = before[n]
        BY <1>3, <2>1, <3>1, <3>4
      <4>2. QED
        BY <3>2, <3>4, <4>1 DEF Range
    <3>5. QED
      BY <3>2, <3>3, <3>4
  <2>4. QED
    BY <2>2, <2>3
<1>5. Fsyncs /\ d \in Range(before) => d = Directory
  BY <1>1 DEF Range
<1>6. QED
  BY <1>1, <1>4, <1>5

\* The same of every key, as one formula.
DirectoryKeeps ==
    \A k \in Keys : /\ PastTables(Directory, k) = FromTables(manifest, k)
                    /\ FromTables(manifest, k) \in 0 .. Len(ops)
                    /\ \A e \in Nat : DiskKeeps("power", k, e) <=> PastKeeps(Directory, k, e)

LEMMA MirrorShown == Inv /\ Mirrored => DirectoryKeeps
<1>1. Inv => manifest \in [Levels -> SUBSET Seqs]
  BY DEF Inv, TypeOK, TypeDirectory
<1>2. QED
  BY <1>1, MirrorKeeps, TablesType DEF DirectoryKeeps

LEMMA MirrorShownNext == Inv' /\ Mirrored' => DirectoryKeeps'
  BY MirrorShown, PTL

LEMMA MirrorNext ==
    ASSUME Inv', Mirrored', NEW d, d = Directory', NEW k \in Keys
    PROVE  /\ PastTables(d, k)' = FromTables(manifest, k)'
           /\ FromTables(manifest, k)' \in 0 .. Len(ops')
           /\ \A e \in Nat : DiskKeeps("power", k, e)' <=> PastKeeps(d, k, e)'
<1>1. DirectoryKeeps'
  BY MirrorShownNext
<1>2. PastTables(d, k)' = PastTables(Directory, k)'
  BY DEF PastTables
<1>3. \A e \in Nat : PastKeeps(d, k, e)' <=> PastKeeps(Directory, k, e)'
  BY <1>2 DEF PastKeeps, Fresh
<1>4. QED
  BY <1>1, <1>2, <1>3 DEF DirectoryKeeps

\* What is secure stays so.
LEMMA SecureNext ==
    ASSUME NoLosingFaults, Inv, Inv', DirInv, DurableInv, DurableInv', Mirrored, Mirrored', Tracked,
           NEW k \in Keys, NEW e \in 0 .. Len(ops), Secure(k, e)
    PROVE  Secure(k, e)'
<1>0. [Next]_vars /\ e \in Nat /\ LogShape /\ LiveLogs
  BY Numbers DEF Tracked, DurableInv
<1>1. KeptNow(k, e) /\ KeptNow(k, e)'
  BY <1>0, KeptNowNext DEF Secure
<1>2. ASSUME NEW d \in Range(past') PROVE PastKeeps(d, k, e)'
  <2>1. CASE d = Directory
    <3>1. d \in Directories /\ Openable(d)
      BY <2>1, DirectoryOpenable
    <3>2. PastKeeps(d, k, e)
      BY <1>1, <2>1, MirrorKeeps DEF KeptNow
    <3>3. QED
      BY <1>0, <2>1, <3>1, <3>2, PastPersists
  <2>2. CASE d = Directory'
    BY <1>0, <1>1, <2>2, MirrorNext DEF KeptNow
  <2>3. CASE d \in Range(past) /\ ~ Fsyncs
    <3>1. d \in Directories /\ Openable(d) /\ PastKeeps(d, k, e)
      BY <2>3, EntryNumbers DEF Secure
    <3>2. QED
      BY <1>0, <2>3, <3>1, PastPersists
  <2>4. QED
    BY <2>1, <2>2, <2>3, PastSteps
<1>3. QED
  BY <1>1, <1>2 DEF Secure

-----------------------------------------------------------------------------
(* The parts of SecureInv, step by step.                                   *)

\* The highest generation is not deleted before there is a higher one.
LEMMA HighestWal ==
    ASSUME Inv, DurableInv, [Next]_vars, NEW h \in walFiles
    PROVE  \E m \in walFiles' : h <= m
<1>0. walFiles \subseteq Seqs /\ h \in Nat
  BY Numbers
<1>1. CASE h \in walFiles'
  BY <1>0, <1>1
<1>2. CASE h \notin walFiles'
  <2>1. FlushUnlink \/ CleanOld
    BY <1>2, DirectorySteps DEF Rotate, Recover
  <2>2. /\ mode \in {"clean", "up"} /\ active \in LiveGens
        /\ FlushUnlink => Min(fl.todo) < active
        /\ CleanOld => Min(stale) < active
    BY <2>1, UnlinkedIsNotLive DEF LiveGens
  <2>3. active \in walFiles /\ active \in Nat
    BY <2>2, Numbers DEF DurableInv, LiveLogs
  <2>4. CASE FlushUnlink
    <3>1. walFiles' = walFiles \ {Min(fl.todo)}
      BY <1>2, <2>4 DEF FlushUnlink, UnlinkWal, OldestGen, walVars
    <3>2. h = Min(fl.todo) /\ active \in walFiles'
      BY <1>2, <2>2, <2>3, <2>4, <3>1
    <3>3. QED
      BY <1>0, <2>2, <2>3, <2>4, <3>2
  <2>5. CASE CleanOld
    <3>1. walFiles' = walFiles \ {Min(stale)}
      BY <1>2, <2>5 DEF CleanOld, UnlinkWal, OldestGen, walVars
    <3>2. h = Min(stale) /\ active \in walFiles'
      BY <1>2, <2>2, <2>3, <2>5, <3>1
    <3>3. QED
      BY <1>0, <2>2, <2>3, <2>5, <3>2
  <2>6. QED
    BY <2>1, <2>4, <2>5
<1>3. QED
  BY <1>1, <1>2

LEMMA MirroredNext ==
    ASSUME Inv, Inv', DirInv, DurableInv, LogShape', Mirrored, Tracked
    PROVE  Mirrored'
<1>0. [Next]_vars
  BY DEF Tracked
<1>1. /\ walFiles' \subseteq Seqs /\ files' \in [Levels -> SUBSET Seqs]
      /\ walFiles \subseteq Seqs /\ \A s \in Seqs : s \in Nat
  BY Numbers DEF Inv, TypeOK, TypeDirectory
<1>2. \A g \in walFiles' : logs'[g] = [log |-> wlog'[g], synced |-> wsync'[g]]
  BY <1>1 DEF Tracked
<1>3. \A l \in Levels : \A s \in files'[l] : tabs'[l][s] = sst'[l][s]
  BY <1>1 DEF Tracked
<1>4. ASSUME NEW g \in Seqs, NEW i \in 1 .. Len(logs'[g].log), NEW j \in 1 .. Len(logs'[g].log),
             i < j, ops'[logs'[g].log[i]].key = ops'[logs'[g].log[j]].key
      PROVE  logs'[g].log[i] < logs'[g].log[j]
  <2>1. CASE g \in walFiles'
    <3>0. logs'[g] = [log |-> wlog'[g], synced |-> wsync'[g]]
      BY <1>2, <2>1
    <3>1. logs'[g].log = wlog'[g]
      BY <3>0
    <3>2. QED
      BY <1>4, <3>1 DEF LogShape
  <2>2. CASE g \notin walFiles'
    <3>1. logs'[g] = logs[g]
      BY <2>2 DEF Tracked
    <3>2. \A n \in 1 .. Len(logs[g].log) : ops'[logs[g].log[n]] = ops[logs[g].log[n]]
      BY <1>0, EntryNumbers, OpsKept
    <3>3. i \in 1 .. Len(logs[g].log) /\ j \in 1 .. Len(logs[g].log)
      BY <3>1
    <3>4. ops[logs[g].log[i]].key = ops[logs[g].log[j]].key
      BY <1>4, <3>1, <3>2, <3>3
    <3>5. logs[g].log[i] < logs[g].log[j]
      BY <1>4, <3>3, <3>4 DEF Mirrored
    <3>6. QED
      BY <3>1, <3>5
  <2>3. QED
    BY <2>1, <2>2
<1>5. ASSUME NEW d \in Range(past'), NEW g \in d.wals PROVE \E h \in walFiles' : g <= h
  <2>1. CASE d = Directory'
    <3>1. g \in walFiles'
      BY <2>1 DEF Directory
    <3>2. QED
      BY <1>1, <3>1
  <2>2. CASE d = Directory \/ d \in Range(past)
    <3>1. PICK h \in walFiles : g <= h /\ g \in Nat
      <4>1. CASE d = Directory
        <5>1. g \in walFiles
          BY <4>1 DEF Directory
        <5>2. QED
          BY <1>1, <5>1
      <4>2. CASE d \in Range(past)
        <5>1. d.wals \subseteq Seqs
          BY <4>2, EntryNumbers
        <5>2. QED
          BY <1>1, <4>2, <5>1 DEF Mirrored
      <4>3. QED
        BY <2>2, <4>1, <4>2
    <3>2. PICK m \in walFiles' : h <= m
      BY <1>0, HighestWal
    <3>3. h \in Nat /\ m \in Nat
      BY <1>1
    <3>4. QED
      BY <3>1, <3>2, <3>3
  <2>3. QED
    BY <2>1, <2>2, PastSteps
<1>6. QED
  BY <1>2, <1>3, <1>4, <1>5 DEF Mirrored

\* Who holds the WAL mutex.
LEMMA WrSteps ==
    ASSUME Inv, [Next]_vars
    PROVE  \/ wr'.pc = "free"
           \/ wr'.pc = "apply" /\ \E k \in Keys, del \in BOOLEAN : Write(k, del)
           \/ /\ wr'.pc = "rotate" /\ wr'.w = wr.w /\ wr'.by = wr.by
              /\ \E freeze \in BOOLEAN : Apply(freeze)
           \/ wr'.pc = "rotate" /\ wr'.by \in Clients
           \/ /\ wr'.pc = "swap" /\ wr.pc = "rotate" /\ wr'.w = wr.w /\ wr'.by = wr.by
              /\ UNCHANGED <<active, ops, kv>>
           \/ wr' = wr /\ wr.pc # "free" /\ UNCHANGED <<active, ops, kv>>
<1>0. (wr.pc # "free" => mode = "up") /\ wr \in WrType
  BY DEF Inv, TypeOK, TypeProcess
<1>1. CASE WritePath
  <2>1. CASE \E k \in Keys, del \in BOOLEAN : Write(k, del)
    BY <2>1 DEF Write
  <2>2. CASE \E k \in Keys, del \in BOOLEAN : WriteSyncFails(k, del)
    BY <2>2 DEF WriteSyncFails
  <2>3. CASE \E freeze \in BOOLEAN : Apply(freeze)
    BY <1>0, <2>3 DEF Apply, WrFree, WrType
  <2>4. CASE \E c \in Clients : FlushSync(c)
    BY <2>4 DEF FlushSync
  <2>5. CASE Rotate \/ RotateFails \/ Swap
    <3>1. CASE Rotate
      <4>1. /\ wr' = [wr EXCEPT !.pc = "swap", !.new = nextSeq] /\ wr.pc = "rotate"
            /\ UNCHANGED <<active, ops, kv>>
        BY <3>1 DEF Rotate, ghosts
      <4>2. wr'.pc = "swap" /\ wr'.w = wr.w /\ wr'.by = wr.by
        BY <1>0, <4>1 DEF WrType
      <4>3. QED
        BY <4>1, <4>2
    <3>2. CASE RotateFails \/ Swap
      BY <3>2 DEF RotateFails, Swap, WrFree
    <3>3. QED
      BY <2>5, <3>1, <3>2
  <2>6. QED
    BY <1>1, <2>1, <2>2, <2>3, <2>4, <2>5 DEF WritePath
<1>2. CASE FlushPipeline
  BY <1>2 DEF FlushPipeline, FlushBegin, FlushBuild, FlushBuildFails, FlushCommit, FlushNothing,
     FlushManifest, FlushManifestFails, FlushUnlink, FlushReturn, ghosts
<1>3. CASE Compaction
  BY <1>3 DEF Compaction, CompactBuild, CompactBuildFails, CompactNothing,
     CompactCommit, CompactManifest, CompactManifestFails, CompactUnlink, CompactReturn, ghosts
<1>4. CASE Worker
  BY <1>4 DEF Worker, WorkerRecv, WorkerCheck, ghosts
<1>5. CASE Lifecycle
  BY <1>0, <1>5 DEF Lifecycle, Close, Crash, Recover, Reback, RebackFails, CleanOld,
     ProcessGone, WrFree, ghosts
<1>6. CASE UNCHANGED vars
  BY <1>6 DEF vars
<1>7. QED
  BY <1>1, <1>2, <1>3, <1>4, <1>5, <1>6 DEF Next

LEMMA PutFsyncedNext ==
    ASSUME SyncPerWrite, Inv, Inv', DirInv, DurableInv, DurableInv', PutFsynced, Tracked
    PROVE  PutFsynced'
<1>1. SUFFICES ASSUME wr'.pc = "apply", NEW d \in Range(past') PROVE active' \in d.wals
  BY DEF PutFsynced
<1>2. [Next]_vars
  BY DEF Tracked
<1>3. mode' = "up" /\ active' \in walFiles'
  <2>1. mode' = "up"
    BY <1>1 DEF Inv, Quiet
  <2>2. QED
    BY <2>1 DEF DurableInv, LiveLogs, LiveGens
<1>4. CASE \E k \in Keys, del \in BOOLEAN : Write(k, del)
  <2>1. /\ wsync' = [wsync EXCEPT ![active] = Len(wlog[active]) + 1]
        /\ UNCHANGED <<walFiles, files, manifest, active>> /\ mode = "up"
    BY <1>4 DEF Write, sstVars
  <2>2. active \in Seqs /\ wsync \in [Seqs -> Nat] /\ Len(wlog[active]) \in Nat
    BY <2>1, Numbers DEF Inv, TypeOK, TypeDirectory
  <2>3. wsync[active] <= Len(wlog[active])
    <3>1. /\ wsync[active] <= wos[active] /\ wos[active] <= Len(wlog[active])
          /\ wos[active] \in Nat /\ wsync[active] \in Nat
      BY <2>2, Numbers DEF DurableInv, LogShape
    <3>2. QED
      BY <2>2, <3>1
  <2>4. wsync'[active] > wsync[active]
    BY <2>1, <2>2, <2>3
  <2>5. Fsyncs
    BY <2>2, <2>4 DEF Fsyncs
  <2>6. Directory' = Directory
    BY <2>1 DEF Directory
  <2>7. d = Directory'
    BY <2>5, <2>6, PastSteps
  <2>8. QED
    BY <1>3, <2>7 DEF Directory
<1>5. CASE wr.pc = "apply" /\ UNCHANGED active
  <2>1. CASE d = Directory'
    BY <1>3, <2>1 DEF Directory
  <2>2. CASE d = Directory
    <3>1. mode = "up"
      BY <1>5 DEF Inv, Quiet
    <3>2. active \in walFiles
      BY <3>1 DEF DurableInv, LiveLogs, LiveGens
    <3>3. QED
      BY <1>5, <2>2, <3>2 DEF Directory
  <2>3. CASE d \in Range(past)
    BY <1>5, <2>3 DEF PutFsynced
  <2>4. QED
    BY <2>1, <2>2, <2>3, PastSteps
<1>6. QED
  BY <1>1, <1>2, <1>4, <1>5, WrSteps

LEMMA RebackUnsyncedNext ==
    ASSUME Inv, DurableInv, RebackUnsynced, [Next]_vars PROVE RebackUnsynced'
<1>1. CASE Recover
  BY <1>1, RecoverLog DEF DurableInv, RebackUnsynced
<1>2. QED
  BY <1>1, RebackSteps DEF RebackUnsynced

LEMMA AnswerNumbers ==
    ASSUME Inv, NEW k \in Keys
    PROVE  /\ kv[k] \in 0 .. Len(ops) /\ kv[k] \in Nat
           /\ \A g \in Seqs : mem[g][k] \in 0 .. Len(ops) /\ mem[g][k] \in Nat
           /\ FromTables(levels, k) \in 0 .. Len(ops) /\ FromTables(levels, k) \in Nat
           /\ FromTables(manifest, k) \in 0 .. Len(ops) /\ FromTables(manifest, k) \in Nat
           /\ Len(ops) \in Nat
<1>1. levels \in [Levels -> SUBSET Seqs] /\ manifest \in [Levels -> SUBSET Seqs]
  BY DEF Inv, TypeOK, TypeDirectory, TypeProcess
<1>2. kv[k] \in 0 .. Len(ops) /\ \A g \in Seqs : mem[g][k] \in 0 .. Len(ops)
  BY DEF Inv, Issued
<1>3. FromTables(levels, k) \in 0 .. Len(ops) /\ FromTables(manifest, k) \in 0 .. Len(ops)
  BY <1>1, TablesType
<1>4. QED
  BY <1>2, <1>3, Numbers

\* What was applied last only grows while the engine runs, except that open starts
\* again from what it found.
LEMMA KvGrows ==
    ASSUME Inv, DurableInv, [Next]_vars, mode # "down", mode' # "down", NEW k \in Keys
    PROVE  kv[k] <= kv'[k]
<1>1. kv[k] \in 0 .. Len(ops) /\ kv[k] \in Nat /\ Len(ops) \in Nat
  BY AnswerNumbers
<1>2. CASE UNCHANGED kv
  BY <1>1, <1>2
<1>3. ASSUME NEW freeze \in BOOLEAN, Apply(freeze) PROVE kv[k] <= kv'[k]
  <2>1. /\ wr.by = "put" /\ wr.pc = "apply" /\ kv'[ops[wr.w].key] = wr.w
        /\ k # ops[wr.w].key => kv'[k] = kv[k]
    BY <1>3, ApplyWrites
  <2>2. wr.w = Len(ops)
    BY <2>1 DEF DurableInv, InHand
  <2>3. QED
    BY <1>1, <2>1, <2>2
<1>4. QED
  BY <1>2, <1>3, MemorySteps DEF Swap, FlushCommit, Recover, ghosts

\* Neither the MemTables nor the live levels answer with more than was applied.
LEMMA MemoryApplied ==
    ASSUME Inv, DurableInv, AnswersApplied, [Next]_vars, mode # "down", mode' # "down",
           NEW k \in Keys
    PROVE  /\ \A g \in LiveGens' : mem'[g][k] <= kv'[k]
           /\ FromTables(levels, k)' <= kv'[k]
<1>1. /\ kv[k] \in 0 .. Len(ops) /\ kv[k] \in Nat
      /\ \A g \in Seqs : mem[g][k] \in 0 .. Len(ops) /\ mem[g][k] \in Nat
      /\ FromTables(levels, k) \in 0 .. Len(ops) /\ FromTables(levels, k) \in Nat
      /\ Len(ops) \in Nat
  BY AnswerNumbers
<1>2. LiveGens \subseteq Seqs
  BY Numbers
<1>3. (\A g \in LiveGens : mem[g][k] <= kv[k]) /\ FromTables(levels, k) <= kv[k]
  BY DEF AnswersApplied
<1>4. CASE UNCHANGED <<mem, active, imms, levels, kv>>
  <2>1. LiveGens' = LiveGens /\ FromTables(levels, k)' = FromTables(levels, k)
    BY <1>4, SameTables DEF LiveGens
  <2>2. QED
    BY <1>3, <1>4, <2>1
<1>5. ASSUME NEW freeze \in BOOLEAN, Apply(freeze)
      PROVE  /\ \A g \in LiveGens' : mem'[g][k] <= kv'[k]
             /\ FromTables(levels, k)' <= kv'[k]
  <2>1. /\ wr.by = "put" /\ wr.pc = "apply" /\ kv'[ops[wr.w].key] = wr.w /\ active \in Seqs
        /\ mem'[active][ops[wr.w].key] = wr.w
        /\ \A g \in Seqs : ~ (g = active /\ k = ops[wr.w].key) => mem'[g][k] = mem[g][k]
        /\ k # ops[wr.w].key => kv'[k] = kv[k]
        /\ LiveGens' = LiveGens /\ levels' = levels
    BY <1>5, ApplyWrites
  <2>2. wr.w = Len(ops)
    BY <2>1 DEF DurableInv, InHand
  <2>3. FromTables(levels, k)' = FromTables(levels, k)
    BY <2>1, SameTables
  <2>4. CASE k = ops[wr.w].key
    BY <1>1, <1>2, <2>1, <2>2, <2>3, <2>4
  <2>5. CASE k # ops[wr.w].key
    BY <1>2, <1>3, <2>1, <2>3, <2>5
  <2>6. QED
    BY <2>4, <2>5
<1>6. CASE Swap
  <2>1. PICK n : n = wr.new
    OBVIOUS
  <2>2. /\ LiveGens' = LiveGens \cup {n} /\ mem'[n][k] = 0 /\ UNCHANGED <<mem, levels, kv>>
    BY <1>6, <2>1, SwapAdds DEF DurableInv
  <2>3. FromTables(levels, k)' = FromTables(levels, k)
    BY <2>2, SameTables
  <2>4. QED
    BY <1>1, <1>3, <2>2, <2>3
<1>7. CASE FlushCommit
  <2>1. /\ FromTables(levels, k)' = OrElse(mem[fl.gen][k], FromTables(levels, k))
        /\ fl.gen \in imms /\ LiveGens' = LiveGens \ {fl.gen}
        /\ \A g \in Seqs : g # fl.gen => mem'[g] = mem[g]
        /\ kv' = kv
    BY <1>7, FlushedTables
  <2>2. fl.gen \in LiveGens
    BY <2>1 DEF LiveGens
  <2>3. QED
    BY <1>2, <1>3, <2>1, <2>2 DEF OrElse
<1>8. CASE CompactCommit /\ UNCHANGED <<mem, active, imms, kv>>
  <2>1. FromTables(levels, k)' = Value(FromTables(levels, k))
    BY <1>8, CompactedTables
  <2>2. LiveGens' = LiveGens
    BY <1>8 DEF LiveGens
  <2>3. QED
    BY <1>1, <1>3, <1>8, <2>1, <2>2 DEF Value
<1>9. ~ Recover
  BY DEF Recover
<1>10. QED
  BY <1>4, <1>5, <1>6, <1>7, <1>8, <1>9, MemorySteps

\* open answers with exactly what it found.
LEMMA OpenApplied ==
    ASSUME Inv, DurableInv, PromisesSecure, Recover, NEW k \in Keys
    PROVE  /\ LiveGens' = {active'} /\ mem'[active'][k] <= kv'[k]
           /\ FromTables(levels, k)' <= kv'[k] /\ FromTables(manifest, k)' <= kv'[k]
           /\ kv'[k] = OrElse(mem'[active'][k], FromTables(manifest, k)')
<1>0. [Next]_vars /\ LogShape
  BY DEF Next, Lifecycle, DurableInv
<1>1. PICK r : r = FromTables(manifest, k)
  OBVIOUS
<1>2. r \in Nat /\ r \in 0 .. Len(ops) /\ Len(ops) \in Nat
  BY <1>1, AnswerNumbers
<1>3. DiskKeeps("power", k, r)
  BY <1>1 DEF PromisesSecure, Due, Secure, KeptNow
<1>4. Replayed(k) # 0 => Replayed(k) >= r
  BY <1>0, <1>2, <1>3, OpenKeeps
<1>5. /\ LiveGens' = {active'} /\ mem'[active'][k] = Replayed(k)
  BY <1>0, RecoverLog
<1>6. kv'[k] = OrElse(Replayed(k), r)
  BY <1>1, RecoveredIs DEF Recover
<1>7. FromTables(levels, k)' = r /\ FromTables(manifest, k)' = r
  BY <1>0, <1>1, SameTables DEF Recover
<1>8. Replayed(k) \in Nat
  <2>1. Replayed(k) \in 0 .. Len(ops)
    BY <1>2, ReplayedType DEF Inv, TypeOK, Issued
  <2>2. QED
    BY <1>2, <2>1
<1>9. QED
  BY <1>2, <1>4, <1>5, <1>6, <1>7, <1>8 DEF OrElse

LEMMA AnswersAppliedNext ==
    ASSUME Inv, Inv', DurableInv, AnswersApplied, PromisesSecure, [Next]_vars
    PROVE  AnswersApplied'
<1>1. SUFFICES ASSUME mode' # "down", NEW k \in Keys
               PROVE  /\ \A g \in LiveGens' : mem'[g][k] <= kv'[k]
                      /\ FromTables(levels, k)' <= kv'[k] /\ FromTables(manifest, k)' <= kv'[k]
                      /\ mode' = "reback" =>
                           kv'[k] = OrElse(mem'[active'][k], FromTables(manifest, k)')
                      /\ \A c \in Clients : calls'[c] \in {"sync", "drain"} => snap'[c][k] <= kv'[k]
                      /\ wr'.pc \in {"rotate", "swap"} /\ wr'.by = "put" /\ ops'[wr'.w].key = k
                           => kv'[k] = wr'.w
  BY DEF AnswersApplied
<1>2. CASE Recover
  <2>1. /\ LiveGens' = {active'} /\ mem'[active'][k] <= kv'[k]
        /\ FromTables(levels, k)' <= kv'[k] /\ FromTables(manifest, k)' <= kv'[k]
        /\ kv'[k] = OrElse(mem'[active'][k], FromTables(manifest, k)')
    BY <1>2, OpenApplied
  <2>2. wr'.pc = "free" /\ \A c \in Clients : calls'[c] = "idle"
    BY <1>2 DEF Recover, Inv, Quiet, DurableInv, CallsInOrder
  <2>3. QED
    BY <2>1, <2>2
<1>3. CASE ~ Recover
  <2>0. mode # "down"
    BY <1>1, <1>3, MemorySteps DEF Apply, Swap, FlushCommit, Inv, Quiet
  <2>1. /\ \A g \in LiveGens' : mem'[g][k] <= kv'[k]
        /\ FromTables(levels, k)' <= kv'[k]
    BY <1>1, <2>0, MemoryApplied
  <2>2. kv[k] <= kv'[k] /\ kv[k] \in Nat /\ kv'[k] \in Nat
    <3>1. kv'[k] \in Ids
      BY DEF Inv, TypeOK, TypeHistory, Table
    <3>2. QED
      BY <1>1, <2>0, <3>1, KvGrows, AnswerNumbers, BasicSets
  <2>3. FromTables(manifest, k)' <= kv'[k]
    <3>1. FromTables(manifest, k) \in Nat /\ FromTables(levels, k) \in Nat
      BY AnswerNumbers
    <3>2. FromTables(manifest, k)' \in {FromTables(manifest, k), FromTables(levels, k)}
      BY SameTables, DirectorySteps DEF FlushManifest, CompactManifest, LiveManifest
    <3>3. FromTables(manifest, k) <= kv[k] /\ FromTables(levels, k) <= kv[k]
      BY <2>0 DEF AnswersApplied
    <3>4. QED
      BY <2>2, <3>1, <3>2, <3>3
  <2>4. ASSUME mode' = "reback" PROVE kv'[k] = OrElse(mem'[active'][k], FromTables(manifest, k)')
    <3>1. mode = "reback" /\ UNCHANGED <<mem, active>>
      BY <1>3, <2>4, RebackSteps
    <3>2. wr.pc = "free" /\ fl.pc = "free"
      BY <3>1 DEF Inv, Quiet
    <3>3. kv' = kv
      BY <1>1, <1>3, <3>2, MemorySteps DEF Apply, Swap, FlushCommit
    <3>4. manifest' = manifest
      BY <3>2, DirectorySteps DEF FlushManifest, CompactManifest
    <3>5. FromTables(manifest, k)' = FromTables(manifest, k)
      BY <3>4, SameTables
    <3>6. QED
      BY <3>1, <3>3, <3>5 DEF AnswersApplied
  <2>5. ASSUME NEW c \in Clients, calls'[c] \in {"sync", "drain"} PROVE snap'[c][k] <= kv'[k]
    <3>1. CASE FlushSync(c)
      <4>1. snap'[c] = kv /\ kv' = kv
        BY <3>1 DEF FlushSync, Inv, TypeOK, TypeHistory
      <4>2. QED
        BY <2>2, <4>1
    <3>2. CASE ~ FlushSync(c)
      <4>1. calls[c] \in {"sync", "drain"} /\ snap'[c] = snap[c]
        BY <2>5, <3>2, CallSteps DEF DurableInv
      <4>2. snap[c][k] <= kv[k]
        BY <2>0, <4>1 DEF AnswersApplied
      <4>3. snap[c][k] \in Nat
        <5>1. snap[c][k] \in Ids
          BY DEF Inv, TypeOK, TypeHistory, Table
        <5>2. QED
          BY <5>1, BasicSets
      <4>4. QED
        BY <2>2, <4>1, <4>2, <4>3
    <3>3. QED
      BY <3>1, <3>2
  <2>6. ASSUME wr'.pc \in {"rotate", "swap"}, wr'.by = "put", ops'[wr'.w].key = k
        PROVE  kv'[k] = wr'.w
    <3>1. CASE wr'.w = wr.w /\ \E freeze \in BOOLEAN : Apply(freeze)
      BY <2>6, <3>1, ApplyWrites
    <3>2. CASE /\ wr.pc \in {"rotate", "swap"} /\ wr'.w = wr.w /\ wr'.by = wr.by
               /\ UNCHANGED <<ops, kv>>
      BY <2>0, <2>6, <3>2 DEF AnswersApplied
    <3>3. "put" \notin Clients
      BY ClientsAssumption
    <3>4. QED
      BY <2>6, <3>1, <3>2, <3>3, WrSteps
  <2>7. QED
    BY <2>1, <2>3, <2>4, <2>5, <2>6
<1>4. QED
  BY <1>2, <1>3

\* The generation of a put that has not returned is the highest there is.
LEMMA ActiveHighest ==
    ASSUME Inv, DurableInv, mode = "up", wr.pc # "swap", NEW g \in walFiles PROVE g <= active
<1>1. g \in imms \cup {active} \cup fl.todo
  BY DEF DurableInv, LogsAccounted, NoStrayWal
<1>2. /\ active \in Nat /\ \A h \in imms : h < active /\ h \in Nat
  BY Numbers
<1>3. \A t \in fl.todo : t < active /\ t \in Nat
  BY Numbers DEF DurableInv, TodoOlder, LiveGens
<1>4. QED
  BY <1>1, <1>2, <1>3

\* A put is secure once its frame is fsynced, when it enters the MemTable.
LEMMA ApplySecure ==
    ASSUME SyncPerWrite, Inv, Inv', DirInv, DurableInv, Mirrored, Mirrored', PutFsynced, Tracked,
           NEW freeze \in BOOLEAN, Apply(freeze), NEW k \in Keys, NEW e, e = wr.w, k = ops[e].key
    PROVE  Secure(k, e)'
<1>0. /\ [Next]_vars /\ LogShape /\ LiveLogs /\ InHand /\ TodoOlder /\ LogsAccounted
  BY DEF Tracked, DurableInv
<1>1. /\ e \in 1 .. Len(ops) /\ wr.by = "put" /\ wr.pc = "apply" /\ active \in Seqs
      /\ mode = "up" /\ mode' = "up" /\ mem'[active][k] = e /\ LiveGens' = LiveGens
      /\ UNCHANGED <<active, wlog, wsync, walFiles, manifest, sst, ops, gone>>
  BY ApplyWrites
<1>2. e \in Nat /\ e \in 0 .. Len(ops)
  BY <1>1, Numbers
<1>3. SafeHit("power", active, k, e) /\ DiskKeeps("power", k, e)
  BY <1>0, <1>1, WrittenKeeps DEF InHand
<1>4. DiskKeeps("power", k, e)' /\ SafeHit("power", active, k, e)'
  BY <1>1, <1>3 DEF DiskKeeps, HasOlder, SafeHit, Entries, Safe, Fresh, FromTables
<1>5. LiveKeeps("power", k, e)'
  <2>1. active \in LiveGens /\ \A g \in LiveGens : g <= active
    BY <1>1, Numbers DEF LiveGens
  <2>2. mem'[active'][k] >= e /\ SafeHit("power", active, k, e)' /\ active' = active
    BY <1>1, <1>2, <1>4
  <2>3. ASSUME NEW g \in LiveGens'
        PROVE  \E h \in LiveGens' : g <= h /\ mem'[h][k] >= e /\ SafeHit("power", h, k, e)'
    BY <1>1, <2>1, <2>2
  <2>4. QED
    BY <1>1, <2>1, <2>2, <2>3 DEF LiveKeeps
<1>6. ASSUME NEW d \in Range(past) PROVE PastKeeps(d, k, e)
  <2>1. active \in d.wals /\ active \in walFiles
    BY <1>1 DEF PutFsynced, DurableInv, LiveLogs, LiveGens
  <2>2. PastSafeHit(active, k, e)
    BY <1>3, <2>1, MirrorKeeps
  <2>3. ASSUME NEW g \in d.wals PROVE g <= active
    <3>1. PICK h \in walFiles : g <= h
      BY DEF Mirrored
    <3>2. h <= active
      BY <1>1, ActiveHighest
    <3>3. g \in Nat /\ h \in Nat /\ active \in Nat
      <4>1. d.wals \subseteq Seqs /\ walFiles \subseteq Seqs
        BY EntryNumbers, Numbers
      <4>2. QED
        BY <1>1, <4>1, Numbers
    <3>4. QED
      BY <3>1, <3>2, <3>3
  <2>4. QED
    BY <2>1, <2>2, <2>3 DEF PastKeeps
<1>7. ASSUME NEW d \in Range(past') PROVE PastKeeps(d, k, e)'
  <2>1. CASE d = Directory
    <3>1. d \in Directories /\ Openable(d)
      BY <2>1, DirectoryOpenable
    <3>2. PastKeeps(d, k, e)
      BY <1>3, <2>1, MirrorKeeps
    <3>3. QED
      BY <1>0, <1>2, <2>1, <3>1, <3>2, PastPersists
  <2>2. CASE d = Directory'
    BY <1>2, <1>4, <2>2, MirrorNext
  <2>3. CASE d \in Range(past) /\ ~ Fsyncs
    <3>1. d \in Directories /\ Openable(d) /\ PastKeeps(d, k, e)
      BY <1>6, <2>3, EntryNumbers
    <3>2. QED
      BY <1>0, <1>2, <2>3, <3>1, PastPersists
  <2>4. QED
    BY <2>1, <2>2, <2>3, PastSteps
<1>8. QED
  BY <1>1, <1>4, <1>5, <1>7 DEF Secure, KeptNow

\* What open has replayed is secure once the new generation is fsynced.
LEMMA RebackSecure ==
    ASSUME Inv, Inv', DirInv, DurableInv, Mirrored, Mirrored', RebackUnsynced, Tracked, Reback,
           NEW k \in Keys, NEW e \in Nat, e = mem[active][k], e # 0
    PROVE  Secure(k, e)'
<1>1. /\ mode = "reback" /\ mode' \in {"clean", "up"} /\ wsync' = Synced(active)
      /\ UNCHANGED <<walFiles, wlog, files, manifest, mem, active, imms, stale, ops>>
  BY DEF Reback, sstVars, ghosts
<1>2. /\ active \in Seqs /\ active \in Nat /\ walFiles \subseteq Seqs /\ Len(wlog[active]) \in Nat
      /\ imms = {} /\ LiveGens = {active} /\ LiveGens' = {active} /\ wsync \in [Seqs -> Nat]
  BY <1>1, Numbers DEF Inv, Quiet, LiveGens, TypeOK, TypeDirectory
<1>3. PICK i \in Entries(active, k) : wlog[active][i] = e
  BY <1>1, <1>2 DEF DurableInv, LiveLogs, HasWrite
<1>4. wsync'[active] = Len(wlog[active]) /\ i \in 1 .. Len(wlog[active])
  BY <1>1, <1>2, <1>3 DEF Synced, Entries
<1>5. SafeHit("power", active, k, e)'
  <2>1. i \in Entries(active, k)' /\ wlog'[active'][i] = e
    BY <1>1, <1>3 DEF Entries
  <2>2. Safe("power", active)' = Len(wlog[active])
    BY <1>1, <1>4 DEF Safe
  <2>3. i <= Safe("power", active)' /\ wlog'[active'][i] >= e
    BY <1>2, <1>4, <2>1, <2>2
  <2>4. QED
    BY <2>1, <2>3 DEF SafeHit
<1>6. active \in walFiles /\ \A g \in walFiles : g <= active
  <2>1. /\ active \in walFiles /\ walFiles \subseteq stale \cup {active}
        /\ \A g \in stale : g < active
    BY <1>1, <1>2 DEF DurableInv, LiveLogs, LogsAccounted
  <2>2. QED
    BY <1>2, <2>1, Numbers
<1>7. DiskKeeps("power", k, e)'
  <2>1. /\ SafeHit("power", active, k, e)' /\ active' \in walFiles'
        /\ \A g \in walFiles' : g <= active'
    BY <1>1, <1>5, <1>6
  <2>2. QED
    BY <2>1 DEF DiskKeeps
<1>8. LiveKeeps("power", k, e)'
  <2>1. SafeHit("power", active, k, e)' /\ mem'[active'][k] >= e /\ LiveGens' = {active'}
        /\ active' \in Nat
    BY <1>1, <1>2, <1>5
  <2>2. QED
    BY <2>1 DEF LiveKeeps
<1>9. ASSUME NEW d \in Range(past') PROVE PastKeeps(d, k, e)'
  <2>1. wsync[active] = 0
    BY <1>1 DEF RebackUnsynced
  <2>2. wsync'[active] > wsync[active]
    BY <1>2, <1>4, <2>1
  <2>3. Fsyncs
    BY <1>2, <2>2 DEF Fsyncs
  <2>4. d = Directory'
    BY <1>1, <2>3, PastSteps DEF Directory
  <2>5. QED
    BY <1>7, <2>4, MirrorNext
<1>10. QED
  BY <1>1, <1>7, <1>8, <1>9 DEF Secure, KeptNow

LEMMA DueType ==
    ASSUME Inv, PromisedIssued, NEW k \in Keys, NEW e \in Due(k)
    PROVE  e \in 0 .. Len(ops) /\ e \in Nat
<1>1. durable[k] \in 0 .. Len(ops) /\ closed[k] \in 0 .. Len(ops)
  <2>1. Owed("power", k) = durable[k] /\ Owed("kill", k) = closed[k]
    BY DEF Owed
  <2>2. Owed("power", k) \in 0 .. Len(ops) /\ Owed("kill", k) \in 0 .. Len(ops)
    BY OwedType
  <2>3. QED
    BY <2>1, <2>2
<1>2. kv[k] \in 0 .. Len(ops) /\ FromTables(manifest, k) \in 0 .. Len(ops) /\ Len(ops) \in Nat
  BY AnswerNumbers
<1>3. e \in {durable[k], closed[k], FromTables(manifest, k), kv[k]}
  BY DEF Due
<1>4. QED
  BY <1>1, <1>2, <1>3

\* What must not be lost after a step: what must not be lost before it, something no
\* newer than what was applied, or the write that the step applies or makes durable.
LEMMA DueSteps ==
    ASSUME SyncPerWrite, Inv, DurableInv, AnswersApplied, [Next]_vars,
           NEW k \in Keys, NEW e \in Due(k)'
    PROVE  \/ e \in Due(k)
           \/ mode = "up" /\ e <= kv[k] /\ e \in Nat
           \/ e = wr.w /\ k = ops[e].key /\ \E freeze \in BOOLEAN : Apply(freeze)
           \/ Reback /\ e = mem[active][k] /\ e # 0 /\ e \in Nat
<1>0. kv[k] \in Nat /\ \A g \in Seqs : mem[g][k] \in Nat
  BY AnswerNumbers
<1>1. CASE e = durable'[k] /\ durable'[k] # durable[k]
  <2>1. CASE FlushReturn
    <3>1. /\ fl.pc = "ok" /\ fl.by \in Clients /\ e = snap[fl.by][k]
      BY <1>1, <2>1, FlushReturnSteps
    <3>2. mode = "up" /\ calls[fl.by] = "drain"
      BY <3>1 DEF Inv, Quiet, DurableInv, CallsInOrder
    <3>3. e <= kv[k]
      BY <3>1, <3>2 DEF AnswersApplied
    <3>4. e \in Ids
      BY <3>1 DEF Inv, TypeOK, TypeHistory, Table
    <3>5. QED
      BY <3>2, <3>3, <3>4, BasicSets
  <2>2. ASSUME NEW freeze \in BOOLEAN, Apply(freeze)
        PROVE  e = wr.w /\ k = ops[e].key
    BY <1>1, <2>2, AcknowledgeSteps
  <2>3. CASE Swap
    <3>1. wr.by = "put" /\ k = ops[wr.w].key /\ e = wr.w
      BY <1>1, <2>3, AcknowledgeSteps
    <3>2. wr.pc = "swap" /\ mode = "up"
      BY <2>3 DEF Swap, Inv, Quiet
    <3>3. kv[k] = e
      BY <3>1, <3>2 DEF AnswersApplied
    <3>4. QED
      BY <1>0, <3>2, <3>3
  <2>4. QED
    BY <1>1, <2>1, <2>2, <2>3, PromiseSteps
<1>2. CASE e = closed'[k] /\ closed'[k] # closed[k]
  <2>1. Close
    BY <1>2, PromiseSteps
  <2>2. mode = "up" /\ e = kv[k]
    BY <1>2, <2>1 DEF Close
  <2>3. QED
    BY <1>0, <2>2
<1>3. CASE e = FromTables(manifest, k)'
  <2>1. CASE manifest' = manifest
    BY <1>3, <2>1, SameTables DEF Due
  <2>2. CASE FlushManifest \/ CompactManifest
    <3>1. manifest' = levels /\ mode = "up"
      BY <2>2 DEF FlushManifest, CompactManifest, LiveManifest, Inv, Quiet
    <3>2. e = FromTables(levels, k)
      BY <1>3, <3>1, SameTables
    <3>3. e <= kv[k] /\ e \in Nat
      BY <3>1, <3>2, AnswerNumbers DEF AnswersApplied
    <3>4. QED
      BY <3>1, <3>3
  <2>3. QED
    BY <2>1, <2>2, DirectorySteps
<1>4. CASE e = kv'[k] /\ mode' \in {"clean", "up"}
  <2>1. CASE Reback
    <3>1. mode = "reback" /\ e = kv[k] /\ active \in Seqs
      BY <1>4, <2>1, Numbers DEF Reback, ghosts
    <3>2. e = OrElse(mem[active][k], FromTables(manifest, k))
      BY <3>1 DEF AnswersApplied
    <3>3. QED
      BY <1>0, <2>1, <3>1, <3>2 DEF OrElse, Due
  <2>2. CASE mode \in {"clean", "up"} /\ kv'[k] = kv[k]
    BY <1>4, <2>2 DEF Due
  <2>3. CASE mode \in {"clean", "up"} /\ kv'[k] # kv[k]
    <3>1. PICK freeze \in BOOLEAN : Apply(freeze)
      BY <1>4, <2>3, MemorySteps DEF Swap, FlushCommit, Recover, ghosts
    <3>2. e = wr.w /\ k = ops[e].key
      BY <1>4, <2>3, <3>1, ApplyWrites
    <3>3. QED
      BY <3>1, <3>2
  <2>4. QED
    BY <1>4, <2>1, <2>2, <2>3, OpenSteps
<1>5. QED
  BY <1>1, <1>2, <1>3, <1>4 DEF Due

LEMMA PromisesSecureNext ==
    ASSUME NoLosingFaults, SyncPerWrite, Inv, Inv', DirInv, DurableInv, DurableInv',
           SecureInv, Mirrored', Tracked
    PROVE  PromisesSecure'
<1>0. /\ [Next]_vars /\ LogShape /\ LiveLogs /\ PromisedIssued
      /\ Mirrored /\ PutFsynced /\ RebackUnsynced /\ AnswersApplied /\ PromisesSecure
  BY DEF Tracked, DurableInv, SecureInv
<1>1. ASSUME NEW k \in Keys, NEW e \in Due(k)' PROVE Secure(k, e)'
  <2>1. CASE e \in Due(k)
    <3>1. e \in 0 .. Len(ops) /\ Secure(k, e)
      BY <1>0, <2>1, DueType DEF PromisesSecure
    <3>2. QED
      BY <1>0, <3>1, SecureNext
  <2>2. CASE mode = "up" /\ e <= kv[k] /\ e \in Nat
    <3>1. kv[k] \in Nat /\ kv[k] \in 0 .. Len(ops) /\ Len(ops) \in Nat
      BY AnswerNumbers
    <3>2. Secure(k, kv[k])
      BY <1>0, <2>2 DEF PromisesSecure, Due
    <3>3. Secure(k, e) /\ e \in 0 .. Len(ops)
      BY <2>2, <3>1, <3>2, SecureLess
    <3>4. QED
      BY <1>0, <3>3, SecureNext
  <2>3. ASSUME e = wr.w, k = ops[e].key, NEW freeze \in BOOLEAN, Apply(freeze)
        PROVE  Secure(k, e)'
    BY <1>0, <2>3, ApplySecure
  <2>4. CASE Reback /\ e = mem[active][k] /\ e # 0 /\ e \in Nat
    BY <1>0, <2>4, RebackSecure
  <2>5. QED
    BY <1>0, <1>1, <2>1, <2>2, <2>3, <2>4, DueSteps
<1>2. ASSUME NEW k \in Keys, NEW d \in Range(past'), NEW e \in {PastTables(d, k)'}
      PROVE  PastKeeps(d, k, e)'
  <2>1. CASE d = Directory'
    <3>1. e = FromTables(manifest, k)' /\ e \in 0 .. Len(ops')
      BY <1>2, <2>1, MirrorNext
    <3>2. Secure(k, e)'
      BY <1>1, <3>1 DEF Due
    <3>3. e \in Nat
      BY <3>1
    <3>4. QED
      BY <2>1, <3>2, <3>3, MirrorNext DEF Secure, KeptNow
  <2>2. ASSUME d \in Directories, Openable(d), d = Directory \/ (d \in Range(past) /\ ~ Fsyncs)
        PROVE  PastKeeps(d, k, e)'
    <3>1. e = PastTables(d, k) /\ e \in 0 .. Len(ops)
      BY <1>0, <1>2, <2>2, PastTabKept, PastTablesType
    <3>2. CASE d = Directory
      <4>1. e = FromTables(manifest, k)
        BY <1>0, <3>1, <3>2, MirrorKeeps
      <4>2. DiskKeeps("power", k, e)
        BY <1>0, <4>1 DEF PromisesSecure, Due, Secure, KeptNow
      <4>3. PastKeeps(d, k, e)
        BY <1>0, <3>2, <4>2, MirrorKeeps
      <4>4. QED
        BY <1>0, <2>2, <3>1, <4>3, PastPersists
    <3>3. CASE d \in Range(past) /\ ~ Fsyncs
      <4>1. PastKeeps(d, k, e)
        BY <1>0, <3>1, <3>3 DEF PromisesSecure
      <4>2. QED
        BY <1>0, <2>2, <3>1, <4>1, PastPersists
    <3>4. QED
      BY <2>2, <3>2, <3>3
  <2>3. d # Directory' => d \in Directories /\ Openable(d)
                          /\ (d = Directory \/ (d \in Range(past) /\ ~ Fsyncs))
    BY PastSteps, DirectoryOpenable, EntryNumbers
  <2>4. QED
    BY <2>1, <2>2, <2>3
<1>3. QED
  BY <1>1, <1>2 DEF PromisesSecure

LEMMA TrackedSecure ==
    ASSUME NoLosingFaults, SyncPerWrite, Inv, DirInv, DurableInv, SecureInv, Tracked
    PROVE  DurableInv' /\ SecureInv'
<1>1. [Next]_vars
  BY DEF Tracked
<1>2. Inv' /\ DurableInv'
  BY <1>1, InvNext, DurableNext
<1>3. Mirrored /\ PutFsynced /\ RebackUnsynced /\ AnswersApplied /\ PromisesSecure
  BY DEF SecureInv
<1>4. Mirrored'
  BY <1>2, <1>3, MirroredNext DEF DurableInv
<1>5. PutFsynced' /\ RebackUnsynced' /\ AnswersApplied'
  BY <1>1, <1>2, <1>3, PutFsyncedNext, RebackUnsyncedNext, AnswersAppliedNext
<1>6. PromisesSecure'
  BY <1>2, <1>4, PromisesSecureNext
<1>7. QED
  BY <1>2, <1>4, <1>5, <1>6 DEF SecureInv

-----------------------------------------------------------------------------
(* A power failure.                                                        *)

\* What it leaves of the directory d that it brings back.
BroughtBack(d) ==
    /\ walFiles' = d.wals /\ files' = d.files /\ manifest' = d.manifest
    /\ past' = <<d>> /\ tabs' = sst'
    /\ \A g \in d.wals :
         /\ Len(wlog'[g]) \in Nat /\ logs[g].synced <= Len(wlog'[g])
         /\ Len(wlog'[g]) <= Len(logs[g].log)
         /\ \A i \in 1 .. Len(wlog'[g]) : wlog'[g][i] = logs[g].log[i]
    /\ \A g \in Seqs \ d.wals : wlog'[g] = << >>
    /\ \A g \in Seqs : wos'[g] = Len(wlog'[g]) /\ wsync'[g] = Len(wlog'[g])
    /\ \A l \in Levels : \A s \in d.files[l] : sst'[l][s] = tabs[l][s]
    /\ \A g \in Seqs : logs'[g] = [log |-> wlog'[g], synced |-> wsync'[g]]

LEMMA PowerFailureLeaves ==
    ASSUME Inv, DirInv, PowerFailure
    PROVE  \E d \in Range(past) : BroughtBack(d)
<1>1. PICK d \in Range(past) :
        /\ walFiles' = d.wals /\ files' = d.files /\ manifest' = d.manifest
        /\ \E cut \in [d.wals -> Ids] :
             /\ \A g \in d.wals : cut[g] \in logs[g].synced .. Len(logs[g].log)
             /\ wlog' = [g \in Seqs |-> IF g \in d.wals THEN SubSeq(logs[g].log, 1, cut[g])
                                                        ELSE << >>]
        /\ wos' = [g \in Seqs |-> Len(wlog'[g])]
        /\ wsync' = wos'
        /\ sst' = [l \in Levels |-> [s \in Seqs |->
                     IF s \in d.files[l] THEN tabs[l][s] ELSE EmptyTable]]
        /\ past' = <<d>>
        /\ logs' = [g \in Seqs |-> [log |-> wlog'[g], synced |-> wsync'[g]]]
  BY DEF PowerFailure
<1>2. PICK cut \in [d.wals -> Ids] :
        /\ \A g \in d.wals : cut[g] \in logs[g].synced .. Len(logs[g].log)
        /\ wlog' = [g \in Seqs |-> IF g \in d.wals THEN SubSeq(logs[g].log, 1, cut[g])
                                                   ELSE << >>]
  BY <1>1
<1>3. d.wals \subseteq Seqs /\ d.files \in [Levels -> SUBSET Seqs]
  BY EntryNumbers
<1>4. ASSUME NEW g \in d.wals
      PROVE  /\ Len(wlog'[g]) \in Nat /\ logs[g].synced <= Len(wlog'[g])
             /\ Len(wlog'[g]) <= Len(logs[g].log)
             /\ \A i \in 1 .. Len(wlog'[g]) : wlog'[g][i] = logs[g].log[i]
  <2>1. logs[g].log \in Seq(1 .. Len(ops)) /\ logs[g].synced \in Nat /\ Len(logs[g].log) \in Nat
    BY <1>3, EntryNumbers
  <2>2. cut[g] \in Nat /\ logs[g].synced <= cut[g] /\ cut[g] <= Len(logs[g].log)
    BY <1>2, <2>1
  <2>3. wlog'[g] = SubSeq(logs[g].log, 1, cut[g])
    BY <1>2, <1>3
  <2>4. Len(wlog'[g]) = cut[g] /\ \A i \in 1 .. cut[g] : wlog'[g][i] = logs[g].log[i]
    BY <2>1, <2>2, <2>3
  <2>5. QED
    BY <2>2, <2>4
<1>5. \A g \in Seqs \ d.wals : wlog'[g] = << >>
  BY <1>2
<1>6. \A g \in Seqs : wos'[g] = Len(wlog'[g]) /\ wsync'[g] = Len(wlog'[g])
  BY <1>1
<1>7. \A l \in Levels : \A s \in d.files[l] : sst'[l][s] = tabs[l][s]
  BY <1>1, <1>3
<1>8. \A g \in Seqs : logs'[g] = [log |-> wlog'[g], synced |-> wsync'[g]]
  BY <1>1
<1>9. tabs' = sst'
  BY DEF PowerFailure
<1>10. QED
  BY <1>1, <1>4, <1>5, <1>6, <1>7, <1>8, <1>9 DEF BroughtBack

\* The directory that is brought back keeps what it would have kept.
LEMMA FailureKeeps ==
    ASSUME Inv, DirInv, PowerFailure, NEW d \in Range(past), BroughtBack(d), NEW k \in Keys
    PROVE  /\ FromTables(manifest, k)' = PastTables(d, k)
           /\ \A e \in Nat : PastKeeps(d, k, e) => DiskKeeps("power", k, e)'
<1>0. ops' = ops /\ gone' = gone
  BY DEF PowerFailure
<1>1. /\ d.wals \subseteq Seqs /\ d.manifest \in [Levels -> SUBSET Seqs] /\ Openable(d)
      /\ \A g \in Seqs : logs[g].synced \in Nat /\ Len(logs[g].log) \in Nat
  BY EntryNumbers
<1>2. FromTables(manifest, k)' = PastTables(d, k)
  <2>1. \A l \in Levels : \A s \in d.manifest[l] : sst'[l][s][k] = tabs[l][s][k]
    BY <1>1 DEF BroughtBack, Openable
  <2>2. 0 \in Levels /\ 1 \in Levels /\ manifest' = d.manifest
    BY BasicSets DEF BroughtBack
  <2>3. NewestHit(d.manifest[0], sst'[0], k) = NewestHit(d.manifest[0], tabs[0], k)
    BY <1>1, <2>1, <2>2, NewestHitSame
  <2>4. NewestHit(d.manifest[1], sst'[1], k) = NewestHit(d.manifest[1], tabs[1], k)
    BY <1>1, <2>1, <2>2, NewestHitSame
  <2>5. QED
    BY <2>2, <2>3, <2>4 DEF FromTables, PastTables
<1>3. ASSUME NEW e \in Nat, PastKeeps(d, k, e) PROVE DiskKeeps("power", k, e)'
  <2>1. ASSUME NEW g \in d.wals
        PROVE  /\ PastSafeHit(g, k, e) => SafeHit("power", g, k, e)'
               /\ HasOlder(g, k, e)' => PastHasOlder(g, k, e)
    <3>1. /\ Len(wlog'[g]) \in Nat /\ logs[g].synced <= Len(wlog'[g])
          /\ Len(wlog'[g]) <= Len(logs[g].log) /\ wsync'[g] = Len(wlog'[g])
          /\ \A i \in 1 .. Len(wlog'[g]) : wlog'[g][i] = logs[g].log[i]
          /\ logs[g].synced \in Nat /\ Len(logs[g].log) \in Nat
      BY <1>1 DEF BroughtBack
    <3>2. \A i \in Entries(g, k)' : i \in PastEntries(g, k) /\ wlog'[g][i] = logs[g].log[i]
      BY <1>0, <3>1 DEF Entries, PastEntries
    <3>3. \A i \in PastEntries(g, k) : i <= logs[g].synced =>
            /\ i \in Entries(g, k)' /\ wlog'[g][i] = logs[g].log[i]
            /\ i <= Safe("power", g)'
      BY <1>0, <3>1 DEF Entries, PastEntries, Safe
    <3>4. PastSafeHit(g, k, e) => SafeHit("power", g, k, e)'
      BY <3>3 DEF PastSafeHit, SafeHit
    <3>5. HasOlder(g, k, e)' => PastHasOlder(g, k, e)
      BY <3>2 DEF PastHasOlder, HasOlder
    <3>6. QED
      BY <3>4, <3>5
  <2>2. walFiles' = d.wals
    BY DEF BroughtBack
  <2>3. Fresh(k, PastTables(d, k), e) => Fresh(k, FromTables(manifest, k), e)'
    BY <1>0, <1>2 DEF Fresh
  <2>4. QED
    BY <1>3, <2>1, <2>2, <2>3 DEF PastKeeps, DiskKeeps
<1>4. QED
  BY <1>2, <1>3

LEMMA FailureSecure ==
    ASSUME Inv, DirInv, DurableInv, SecureInv, PowerFailure PROVE SecureInv'
<1>0. /\ Inv' /\ Mirrored /\ PromisesSecure
      /\ ops' = ops /\ durable' = durable /\ closed' = closed
      /\ mode' = "down" /\ wr'.pc = "free"
  BY PowerFailureDir DEF SecureInv, PowerFailure, promises, ProcessGone, WrFree
<1>1. PICK d \in Range(past) : BroughtBack(d)
  BY PowerFailureLeaves
<1>2. /\ walFiles' = d.wals /\ files' = d.files /\ manifest' = d.manifest
      /\ past' = <<d>> /\ tabs' = sst'
      /\ \A g \in Seqs : logs'[g] = [log |-> wlog'[g], synced |-> wsync'[g]]
  BY <1>1 DEF BroughtBack
<1>3. d.wals \subseteq Seqs /\ d \in Directories /\ \A g \in Seqs : g \in Nat
  BY EntryNumbers, Numbers
<1>4. Range(past') = {d} /\ Directory' = d
  <2>1. Range(past') = {d}
    BY <1>2 DEF Range
  <2>2. Directory' = [wals |-> d.wals, files |-> d.files, manifest |-> d.manifest]
    BY <1>2 DEF Directory
  <2>3. d = [wals |-> d.wals, files |-> d.files, manifest |-> d.manifest]
    BY <1>3 DEF Directories
  <2>4. QED
    BY <2>1, <2>2, <2>3
<1>5. Mirrored'
  <2>1. \A g \in walFiles' : logs'[g] = [log |-> wlog'[g], synced |-> wsync'[g]]
    BY <1>2, <1>3
  <2>2. \A l \in Levels : \A s \in files'[l] : tabs'[l][s] = sst'[l][s]
    BY <1>2
  <2>3. ASSUME NEW g \in Seqs, NEW i \in 1 .. Len(logs'[g].log), NEW j \in 1 .. Len(logs'[g].log),
               i < j, ops'[logs'[g].log[i]].key = ops'[logs'[g].log[j]].key
        PROVE  logs'[g].log[i] < logs'[g].log[j]
    <3>0. logs'[g] = [log |-> wlog'[g], synced |-> wsync'[g]]
      BY <1>2
    <3>1. logs'[g].log = wlog'[g]
      BY <3>0
    <3>2. CASE g \in d.wals
      <4>1. /\ Len(wlog'[g]) \in Nat /\ Len(wlog'[g]) <= Len(logs[g].log)
            /\ \A n \in 1 .. Len(wlog'[g]) : wlog'[g][n] = logs[g].log[n]
            /\ Len(logs[g].log) \in Nat
        BY <1>1, <3>2, EntryNumbers DEF BroughtBack
      <4>2. i \in 1 .. Len(logs[g].log) /\ j \in 1 .. Len(logs[g].log)
        BY <3>1, <4>1
      <4>3. logs'[g].log[i] = logs[g].log[i] /\ logs'[g].log[j] = logs[g].log[j]
        BY <3>1, <4>1
      <4>4. ops[logs[g].log[i]].key = ops[logs[g].log[j]].key
        BY <1>0, <2>3, <4>3
      <4>5. logs[g].log[i] < logs[g].log[j]
        BY <1>0, <2>3, <4>2, <4>4 DEF Mirrored
      <4>6. QED
        BY <4>3, <4>5
    <3>3. CASE g \notin d.wals
      <4>1. wlog'[g] = << >>
        BY <1>1, <3>3 DEF BroughtBack
      <4>2. QED
        BY <2>3, <3>1, <4>1
    <3>4. QED
      BY <3>2, <3>3
  <2>4. \A e \in Range(past') : \A g \in e.wals : \E h \in walFiles' : g <= h
    BY <1>2, <1>3, <1>4
  <2>5. QED
    BY <2>1, <2>2, <2>3, <2>4 DEF Mirrored
<1>6. PutFsynced' /\ RebackUnsynced' /\ AnswersApplied'
  BY <1>0 DEF PutFsynced, RebackUnsynced, AnswersApplied
<1>7. ASSUME NEW k \in Keys, NEW e \in Due(k)' PROVE Secure(k, e)' /\ PastKeeps(d, k, e)'
  <2>1. e = durable[k] \/ e = closed[k] \/ e = PastTables(d, k)
    BY <1>0, <1>1, FailureKeeps DEF Due
  <2>2. PastKeeps(d, k, e)
    BY <1>0, <2>1 DEF PromisesSecure, Due, Secure
  <2>3. e \in Nat
    <3>1. PastTables(d, k) \in 0 .. Len(ops)
      BY <1>3, PastTablesType
    <3>2. durable[k] \in Nat /\ closed[k] \in Nat
      BY DueType DEF DurableInv, Due
    <3>3. QED
      BY <2>1, <3>1, <3>2
  <2>4. DiskKeeps("power", k, e)'
    BY <1>1, <2>2, <2>3, FailureKeeps
  <2>5. PastKeeps(d, k, e)'
    BY <1>0, <1>4, <1>5, <2>3, <2>4, MirrorNext
  <2>6. QED
    BY <1>0, <1>4, <2>4, <2>5 DEF Secure, KeptNow
<1>8. ASSUME NEW k \in Keys, NEW f \in Range(past'), NEW e \in {PastTables(f, k)'}
      PROVE  PastKeeps(f, k, e)'
  <2>1. f = d
    BY <1>4
  <2>2. e = FromTables(manifest, k)'
    BY <1>0, <1>4, <1>5, <1>8, <2>1, MirrorNext
  <2>3. QED
    BY <1>7, <2>1, <2>2 DEF Due
<1>9. PromisesSecure'
  BY <1>7, <1>8 DEF PromisesSecure
<1>10. QED
  BY <1>5, <1>6, <1>9 DEF SecureInv

LEMMA FailureDurable ==
    ASSUME Inv, DirInv, DurableInv, SecureInv, PowerFailure PROVE DurableInv'
<1>0. /\ ops' = ops /\ durable' = durable /\ closed' = closed /\ acked' = acked
      /\ mode' = "down" /\ wr'.pc = "free" /\ fl'.pc = "free" /\ fl'.todo = {}
      /\ calls' = [c \in Clients |-> "idle"] /\ snap' = [c \in Clients |-> EmptyTable]
  BY DEF PowerFailure, promises, ProcessGone, WrFree, FlFree
<1>1. PICK d \in Range(past) : BroughtBack(d)
  BY PowerFailureLeaves
<1>2. /\ walFiles' = d.wals /\ \A g \in Seqs \ d.wals : wlog'[g] = << >>
      /\ \A g \in Seqs : wos'[g] = Len(wlog'[g]) /\ wsync'[g] = Len(wlog'[g])
      /\ \A g \in Seqs : logs'[g] = [log |-> wlog'[g], synced |-> wsync'[g]]
  BY <1>1 DEF BroughtBack
<1>3. Inv' /\ SecureInv'
  BY PowerFailureDir, FailureSecure
<1>4. LogShape'
  <2>1. \A g \in Seqs : wlog'[g] \in Seq(1 .. Len(ops')) /\ Len(wlog'[g]) \in Nat
    BY <1>3 DEF Inv, Issued
  <2>2. \A g \in Seqs : wsync'[g] <= wos'[g] /\ wos'[g] <= Len(wlog'[g])
    BY <1>2, <2>1
  <2>3. ASSUME NEW g \in Seqs PROVE logs'[g].log = wlog'[g]
    <3>1. logs'[g] = [log |-> wlog'[g], synced |-> wsync'[g]]
      BY <1>2
    <3>2. QED
      BY <3>1
  <2>4. \A g \in Seqs : \A i, j \in 1 .. Len(wlog'[g]) :
          i < j /\ ops'[wlog'[g][i]].key = ops'[wlog'[g][j]].key => wlog'[g][i] < wlog'[g][j]
    <3>1. \A g \in Seqs : \A i, j \in 1 .. Len(logs'[g].log) :
            i < j /\ ops'[logs'[g].log[i]].key = ops'[logs'[g].log[j]].key
              => logs'[g].log[i] < logs'[g].log[j]
      BY <1>3 DEF SecureInv, Mirrored
    <3>2. QED
      BY <2>3, <3>1
  <2>5. QED
    BY <1>2, <2>2, <2>4 DEF LogShape
<1>5. LiveLogs' /\ InHand' /\ TodoOlder' /\ LogsAccounted' /\ ManifestLags'
  BY <1>0 DEF LiveLogs, InHand, TodoOlder, LogsAccounted, NoStrayWal, ManifestLags
<1>6. CallsInOrder'
  BY <1>0 DEF CallsInOrder
<1>7. AppliedHeld' /\ SnapHeld' /\ SnapFlushed' /\ Reappended' /\ LivePromises'
  BY <1>0 DEF AppliedHeld, SnapHeld, SnapFlushed, Reappended, LivePromises
<1>8. PromisedIssued'
  <2>1. \A c \in Clients, k \in Keys : snap'[c][k] <= Len(ops')
    BY <1>0, Numbers DEF EmptyTable
  <2>2. QED
    BY <1>0, <2>1 DEF DurableInv, PromisedIssued
<1>9. ASSUME NEW kind \in PromiseKinds, NEW k \in Keys PROVE DiskKeeps(kind, k, Owed(kind, k))'
  <2>1. PICK e : e = Owed(kind, k)'
    OBVIOUS
  <2>2. e \in Due(k)'
    BY <2>1 DEF Owed, Due
  <2>3. DiskKeeps("power", k, e)'
    BY <1>3, <2>2 DEF SecureInv, PromisesSecure, Secure, KeptNow
  <2>4. \A g \in walFiles' : Safe(kind, g)' = Safe("power", g)'
    <3>1. walFiles' \subseteq Seqs
      BY <1>3 DEF Inv, TypeOK, TypeDirectory
    <3>2. QED
      BY <1>2, <3>1 DEF Safe
  <2>5. \A g \in walFiles' : SafeHit(kind, g, k, e)' <=> SafeHit("power", g, k, e)'
    BY <2>4 DEF SafeHit
  <2>6. DiskKeeps(kind, k, e)'
    BY <2>3, <2>5 DEF DiskKeeps
  <2>7. QED
    BY <2>1, <2>6 DEF DiskKeeps, HasOlder, SafeHit, Fresh
<1>10. DiskPromises'
  BY <1>9 DEF DiskPromises, PromiseKinds
<1>11. QED
  BY <1>4, <1>5, <1>6, <1>7, <1>8, <1>10 DEF DurableInv

LEMMA SecureStutter == ASSUME SecureInv, UNCHANGED dirCrashVars PROVE SecureInv'
<1>1. /\ UNCHANGED <<walFiles, wlog, wos, wsync, files, sst, manifest, mode, mem, active, imms>>
      /\ UNCHANGED <<levels, wr, calls, ops, kv, gone, snap, durable, closed, past, logs, tabs>>
  BY DEF dirCrashVars, vars
<1>2. Mirrored' /\ PutFsynced' /\ RebackUnsynced'
  BY <1>1 DEF SecureInv, Mirrored, PutFsynced, RebackUnsynced
<1>3. \A k : /\ FromTables(levels, k)' = FromTables(levels, k)
             /\ FromTables(manifest, k)' = FromTables(manifest, k)
  BY <1>1 DEF FromTables
<1>4. LiveGens' = LiveGens
  BY <1>1 DEF LiveGens
<1>5. AnswersApplied'
  BY <1>1, <1>3, <1>4 DEF SecureInv, AnswersApplied
<1>6. \A g, k : Entries(g, k)' = Entries(g, k) /\ PastEntries(g, k)' = PastEntries(g, k)
  BY <1>1 DEF Entries, PastEntries
<1>7. \A g, k, e : /\ HasOlder(g, k, e)' <=> HasOlder(g, k, e)
                   /\ PastHasOlder(g, k, e)' <=> PastHasOlder(g, k, e)
                   /\ PastSafeHit(g, k, e)' <=> PastSafeHit(g, k, e)
                   /\ SafeHit("power", g, k, e)' <=> SafeHit("power", g, k, e)
  BY <1>1, <1>6 DEF HasOlder, PastHasOlder, PastSafeHit, SafeHit, Safe
<1>8. \A d, k : PastTables(d, k)' = PastTables(d, k)
  BY <1>1 DEF PastTables
<1>9. \A d, k, e : PastKeeps(d, k, e) => PastKeeps(d, k, e)'
  BY <1>1, <1>7, <1>8 DEF PastKeeps, Fresh
<1>10. \A k, e : KeptNow(k, e) => KeptNow(k, e)'
  <2>1. \A k, e : DiskKeeps("power", k, e) => DiskKeeps("power", k, e)'
    BY <1>1, <1>3, <1>7 DEF DiskKeeps, Fresh
  <2>2. \A k, e : LiveKeeps("power", k, e) => LiveKeeps("power", k, e)'
    BY <1>1, <1>3, <1>4, <1>7 DEF LiveKeeps, Fresh
  <2>3. QED
    BY <1>1, <1>7, <2>1, <2>2 DEF KeptNow
<1>11. \A k, e : Secure(k, e) => Secure(k, e)'
  BY <1>1, <1>9, <1>10 DEF Secure
<1>12. \A k : Due(k)' = Due(k)
  BY <1>1, <1>3 DEF Due
<1>13. PromisesSecure'
  BY <1>1, <1>8, <1>9, <1>11, <1>12 DEF SecureInv, PromisesSecure
<1>14. QED
  BY <1>2, <1>5, <1>13 DEF SecureInv

LEMMA SecureInit == DirInit => Inv /\ DirInv /\ DurableInv /\ SecureInv
<1> SUFFICES ASSUME DirInit PROVE Inv /\ DirInv /\ DurableInv /\ SecureInv
  OBVIOUS
<1>1. Inv /\ DirInv /\ DurableInv
  BY DirInvInit, DurableInit DEF DirInit
<1>2. /\ mode = "down" /\ wr.pc = "free" /\ walFiles = {} /\ manifest = NoTables
      /\ durable = EmptyTable /\ closed = EmptyTable
      /\ past = <<Directory>> /\ tabs = sst
      /\ logs = [g \in Seqs |-> [log |-> << >>, synced |-> 0]]
  BY DEF DirInit, Init, WrFree
<1>3. Range(past) = {Directory} /\ Directory.wals = {}
  <2>1. Range(past) = {Directory}
    BY <1>2 DEF Range
  <2>2. Directory.wals = {}
    BY <1>2 DEF Directory
  <2>3. QED
    BY <2>1, <2>2
<1>4. Mirrored
  <2>1. \A g \in Seqs : logs[g].log = << >>
    BY <1>2
  <2>2. \A g \in Seqs : 1 .. Len(logs[g].log) = {}
    BY <2>1
  <2>3. QED
    BY <1>2, <1>3, <2>2 DEF Mirrored
<1>5. PutFsynced /\ RebackUnsynced /\ AnswersApplied
  BY <1>2 DEF PutFsynced, RebackUnsynced, AnswersApplied
<1>6. ASSUME NEW k \in Keys
      PROVE  /\ FromTables(manifest, k) = 0 /\ Due(k) = {0} /\ PastTables(Directory, k) = 0
             /\ Secure(k, 0) /\ PastKeeps(Directory, k, 0)
  <2>1. FromTables(manifest, k) = 0
    <3>1. manifest[0] = {} /\ manifest[1] = {}
      BY <1>2 DEF NoTables, Levels
    <3>2. NewestHit({}, sst[0], k) = 0 /\ NewestHit({}, sst[1], k) = 0
      BY DEF NewestHit, Hits
    <3>3. QED
      BY <3>1, <3>2 DEF FromTables, OrElse
  <2>2. durable[k] = 0 /\ closed[k] = 0
    BY <1>2 DEF EmptyTable
  <2>3. Due(k) = {0}
    BY <1>2, <2>1, <2>2 DEF Due
  <2>4. DiskKeeps("power", k, 0)
    BY <1>2, <2>1 DEF DiskKeeps, Fresh
  <2>5. PastTables(Directory, k) = 0 /\ PastKeeps(Directory, k, 0)
    BY <1>1, <1>4, <2>1, <2>4, MirrorKeeps
  <2>6. QED
    BY <1>2, <1>3, <2>1, <2>3, <2>4, <2>5 DEF Secure, KeptNow
<1>7. PromisesSecure
  BY <1>3, <1>6 DEF PromisesSecure
<1>8. QED
  BY <1>1, <1>4, <1>5, <1>7 DEF SecureInv

\* With sync_per_write, and without the faults that forget a flushed generation or a
\* committed table, every directory that a power failure can bring back still answers
\* for every acknowledged write: the fsync of a put makes its WAL part of all of them,
\* and a WAL is deleted only after the MANIFEST that replaces it was renamed into
\* place (put, freeze_active, flush_all_pending, open_with_options).
THEOREM SecureInvCorrect ==
    ASSUME NoLosingFaults, SyncPerWrite
    PROVE  DirSpec => [](Inv /\ DirInv /\ DurableInv /\ SecureInv)
<1>1. Inv /\ DirInv /\ DurableInv /\ SecureInv /\ [DirNext]_dirCrashVars
        => (Inv /\ DirInv /\ DurableInv /\ SecureInv)'
  <2>1. SUFFICES ASSUME Inv, DirInv, DurableInv, SecureInv, [DirNext]_dirCrashVars
                 PROVE  Inv' /\ DirInv' /\ DurableInv' /\ SecureInv'
    OBVIOUS
  <2>2. CASE UNCHANGED dirCrashVars
    <3>1. UNCHANGED vars /\ UNCHANGED <<past, logs, tabs>>
      BY <2>2 DEF dirCrashVars
    <3>2. Inv' /\ DurableInv'
      BY <2>1, <3>1, InvNext, DurableNext
    <3>3. DirInv'
      BY <2>1, <3>1 DEF DirInv, vars
    <3>4. SecureInv'
      BY <2>1, <2>2, SecureStutter
    <3>5. QED
      BY <3>2, <3>3, <3>4
  <2>3. CASE Tracked
    BY <2>1, <2>3, TrackedDir, TrackedSecure
  <2>4. CASE PowerFailure
    BY <2>1, <2>4, PowerFailureDir, FailureSecure, FailureDurable
  <2>5. QED
    BY <2>1, <2>2, <2>3, <2>4 DEF DirNext
<1>2. QED
  BY <1>1, SecureInit, PTL DEF DirSpec

\* Every write whose put or delete returned Ok with sync_per_write is recovered, also
\* after power failures that undo the creation, renaming and deletion of files, which
\* the code does not fsync: AcknowledgedKept.
THEOREM AcknowledgedSurviveUndo ==
    ASSUME NoLosingFaults, SyncPerWrite PROVE DirSpec => []AcknowledgedKept
<1>1. Inv /\ DurableInv => AcknowledgedKept
  BY AcknowledgedFound
<1>2. QED
  BY <1>1, SecureInvCorrect, PTL

\* So is every write applied before a clean drop: with sync_per_write DropKept does not
\* depend on the fsync of Drop, nor on the machine staying up.
THEOREM DropSurvivesUndo ==
    ASSUME NoLosingFaults, SyncPerWrite PROVE DirSpec => []DropKept
<1>1. Inv /\ DirInv /\ DurableInv /\ SecureInv => DropKept
  <2> SUFFICES ASSUME Inv, DirInv, DurableInv, SecureInv, NEW k \in Keys
               PROVE  Fresh(k, Recovered(k), closed[k])
    BY DEF DropKept
  <2>1. DiskKeeps("power", k, closed[k])
    BY DEF SecureInv, PromisesSecure, Due, Secure, KeptNow
  <2>2. closed[k] \in Nat
    BY DueType DEF DurableInv, Due
  <2>3. QED
    BY <2>1, <2>2, OpenKeeps DEF DurableInv
<1>2. QED
  BY <1>1, SecureInvCorrect, PTL
=============================================================================
