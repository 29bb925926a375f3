------------------------- MODULE LsmDurabilityProofs -------------------------
(***************************************************************************)
(* Durability of the engine, for every value of the constants: whatever    *)
(* was promised is recovered after a stop at any moment, as long as none   *)
(* of the faults of NoLosingFaults happens.                                *)
(***************************************************************************)
EXTENDS LsmDurabilityInv, LsmEngineProofs

-----------------------------------------------------------------------------
(* Replay.                                                                 *)

\* replay_into leaves for a key its last entry in the highest generation that has
\* one, and nothing when no generation has.
LEMMA ReplayedIs ==
    ASSUME TypeOK, NEW k
    PROVE  \/ Replayed(k) = 0 /\ \A g \in walFiles : Entries(g, k) = {}
           \/ \E g \in walFiles : \E i \in Entries(g, k) :
                /\ Replayed(k) = wlog[g][i] /\ Replayed(k) # 0
                /\ \A h \in walFiles : Entries(h, k) # {} => h <= g
                /\ \A j \in Entries(g, k) : j <= i
<1> DEFINE hit == {g \in walFiles : Entries(g, k) # {}}
<1>1. CASE hit = {}
  BY <1>1 DEF Replayed
<1>2. CASE hit # {}
  <2>1. hit \subseteq 0 .. MaxSeq
    BY BasicSets DEF TypeOK, TypeDirectory
  <2>2. Max(hit) \in hit /\ \A h \in hit : h <= Max(hit)
    <3> HIDE DEF hit
    <3>1. QED BY <1>2, <2>1, MaxOfBounded, BoundsAssumption
  <2>3. PICK g \in walFiles : g = Max(hit) /\ Entries(g, k) # {}
    BY <2>2
  <2>4. wlog[g] \in Seq(1 .. MaxWrites)
    BY DEF TypeOK, TypeDirectory
  <2>5. Len(wlog[g]) \in Nat /\ Entries(g, k) \subseteq 0 .. Len(wlog[g])
    BY <2>4 DEF Entries
  <2>6. /\ Max(Entries(g, k)) \in Entries(g, k)
        /\ \A j \in Entries(g, k) : j <= Max(Entries(g, k))
    BY <2>3, <2>5, MaxOfBounded
  <2>7. Replayed(k) = wlog[g][Max(Entries(g, k))]
    BY <1>2, <2>3, Zenon DEF Replayed
  <2>8. PICK i \in Entries(g, k) : i = Max(Entries(g, k))
    BY <2>6
  <2>9. wlog[g][i] \in 1 .. MaxWrites
    <3>1. i \in 1 .. Len(wlog[g])
      BY DEF Entries
    <3>2. QED
      BY <2>4, <3>1, ElementOfSeq
  <2>10. wlog[g][i] # 0
    BY <2>9, BoundsAssumption
  <2>11. \A h \in walFiles : Entries(h, k) # {} => h <= g
    BY <2>2, <2>3
  <2>12. \A j \in Entries(g, k) : j <= i
    BY <2>6, <2>8
  <2>13. Replayed(k) = wlog[g][i]
    BY <2>7, <2>8
  <2>14. QED
    BY <2>10, <2>11, <2>12, <2>13
<1>3. QED
  BY <1>1, <1>2

\* An issued write has a key.
LEMMA IssuedKeys ==
    ASSUME TypeOK PROVE \A w \in 1 .. Len(ops) : ops[w].key \in Keys
<1> DEFINE R == [key : Keys, del : BOOLEAN]
<1>1. ops \in Seq(R)
  BY DEF TypeOK, TypeHistory
<1>2. \A w \in 1 .. Len(ops) : ops[w] \in R
  <2> HIDE DEF R
  <2>1. QED BY <1>1, ElementOfSeq
<1>3. QED
  BY <1>2

\* The log that open writes holds the recovered entries, each once, in key order.
LEMMA InKeyOrderIs ==
    ASSUME NEW n \in Nat, NEW t \in [Keys -> 0 .. n], NEW log \in InKeyOrder(t)
    PROVE  /\ log \in Seq(1 .. n)
           /\ \A i, j \in 1 .. Len(log) : i < j => ops[log[i]].key < ops[log[j]].key
           /\ \A k \in Keys : t[k] # 0 => \E i \in 1 .. Len(log) : log[i] = t[k]
           /\ \A i \in 1 .. Len(log) : \E k \in Keys : log[i] = t[k] /\ t[k] # 0
<1> DEFINE S == {t[k] : k \in Keys} \ {0}
<1>1. log \in Seq(1 .. n)
  BY InKeyOrderType
<1>2. /\ log \in [1 .. Cardinality(S) -> S]
      /\ \A w \in S : \E i \in DOMAIN log : log[i] = w
      /\ \A i, j \in DOMAIN log : i < j => ops[log[i]].key < ops[log[j]].key
  BY Zenon DEF InKeyOrder
<1>3. DOMAIN log = 1 .. Len(log)
  BY <1>1, LenProperties
<1>4. \A i \in DOMAIN log : log[i] \in S
  <2> HIDE DEF S
  <2>1. QED BY <1>2
<1>5. \A k \in Keys : t[k] # 0 => t[k] \in S
  OBVIOUS
<1>6. \A w \in S : \E k \in Keys : w = t[k] /\ t[k] # 0
  OBVIOUS
<1>7. \A k \in Keys : t[k] # 0 => \E i \in 1 .. Len(log) : log[i] = t[k]
  <2> HIDE DEF S
  <2>1. QED BY <1>2, <1>3, <1>5
<1>8. \A i \in 1 .. Len(log) : \E k \in Keys : log[i] = t[k] /\ t[k] # 0
  <2> HIDE DEF S
  <2>1. QED BY <1>3, <1>4, <1>6
<1>9. QED
  BY <1>1, <1>2, <1>3, <1>7, <1>8

\* What a crash leaves of the logs: of each file a prefix that includes everything
\* safe.
LEMMA CrashLeaves ==
    ASSUME TypeOK, NEW kind, Crash(kind)
    PROVE  \E cut \in [walFiles -> Nat] :
             /\ \A g \in walFiles :
                  /\ Safe(kind, g) <= cut[g] /\ cut[g] <= Len(wlog[g])
                  /\ Len(wlog'[g]) = cut[g]
                  /\ \A i \in 1 .. cut[g] : wlog'[g][i] = wlog[g][i]
                  /\ wos'[g] = cut[g]
                  /\ wsync'[g] = IF kind = "kill" THEN wsync[g] ELSE cut[g]
             /\ \A g \in Seqs \ walFiles :
                  /\ wlog'[g] = << >> /\ wos'[g] = 0
                  /\ wsync'[g] = IF kind = "kill" THEN wsync[g] ELSE 0
<1>1. PICK cut \in [walFiles -> Ids] :
          /\ \A g \in walFiles : Safe(kind, g) <= cut[g] /\ cut[g] <= Len(wlog[g])
          /\ wlog' = [g \in Seqs |->
                        IF g \in walFiles THEN SubSeq(wlog[g], 1, cut[g]) ELSE << >>]
          /\ wos' = [g \in Seqs |-> IF g \in walFiles THEN cut[g] ELSE 0]
          /\ wsync' = IF kind = "kill" THEN wsync
                      ELSE [g \in Seqs |-> IF g \in walFiles THEN cut[g] ELSE 0]
  BY Zenon DEF Crash
<1>2. walFiles \subseteq Seqs /\ cut \in [walFiles -> Nat]
  BY BasicSets DEF TypeOK, TypeDirectory
<1>3. ASSUME NEW g \in walFiles
      PROVE  /\ Len(wlog'[g]) = cut[g]
             /\ \A i \in 1 .. cut[g] : wlog'[g][i] = wlog[g][i]
  <2>1. wlog[g] \in Seq(1 .. MaxWrites) /\ cut[g] \in Nat /\ cut[g] <= Len(wlog[g])
    BY <1>1, <1>2 DEF TypeOK, TypeDirectory
  <2>2. wlog'[g] = SubSeq(wlog[g], 1, cut[g])
    BY <1>1, <1>2
  <2>3. QED
    BY <2>1, <2>2
<1>4. QED
  <2>1. /\ \A g \in walFiles : wos'[g] = cut[g]
        /\ \A g \in Seqs \ walFiles : wlog'[g] = << >> /\ wos'[g] = 0
    BY <1>1, <1>2
  <2>2. CASE kind = "kill"
    BY <1>1, <1>2, <1>3, <2>1, <2>2
  <2>3. CASE kind # "kill"
    <3>1. wsync' = [g \in Seqs |-> IF g \in walFiles THEN cut[g] ELSE 0]
      BY <1>1, <2>3
    <3>2. QED
      BY <1>1, <1>2, <1>3, <2>1, <2>3, <3>1
  <2>4. QED
    BY <2>2, <2>3

-----------------------------------------------------------------------------
(* The logs.                                                               *)

\* put and delete append one frame to the active log and change no other entry.
LEMMA LogExtended ==
    ASSUME Inv, active \in Seqs, NEW op, ops' = Append(ops, op),
           wlog' = Logged(active, Len(ops) + 1)
    PROVE  /\ \A g \in Seqs : \A i \in 1 .. Len(wlog[g]) :
                /\ wlog'[g][i] = wlog[g][i] /\ wlog[g][i] \in 1 .. Len(ops)
                /\ ops'[wlog[g][i]] = ops[wlog[g][i]]
           /\ \A g \in Seqs \ {active} : wlog'[g] = wlog[g]
           /\ Len(wlog'[active]) = Len(wlog[active]) + 1
           /\ wlog'[active][Len(wlog[active]) + 1] = Len(ops) + 1
           /\ ops'[Len(ops) + 1] = op
           /\ \A g \in Seqs : Len(wlog[g]) \in Nat /\ Len(wlog'[g]) \in Nat
           /\ Len(ops) \in Nat /\ Len(ops') = Len(ops) + 1
<1>1. wlog \in [Seqs -> Seq(1 .. Len(ops))] /\ ops \in Seq([key : Keys, del : BOOLEAN])
  BY DEF Inv, Issued, TypeOK, TypeHistory
<1>2. /\ Len(ops) \in Nat /\ Len(ops') = Len(ops) + 1 /\ ops'[Len(ops) + 1] = op
      /\ \A w \in 1 .. Len(ops) : ops'[w] = ops[w]
  BY <1>1
<1>3. /\ \A g \in Seqs \ {active} : wlog'[g] = wlog[g]
      /\ wlog'[active] = Append(wlog[active], Len(ops) + 1)
  BY <1>1 DEF Logged
<1>4. ASSUME NEW g \in Seqs, NEW i \in 1 .. Len(wlog[g])
      PROVE  wlog'[g][i] = wlog[g][i] /\ wlog[g][i] \in 1 .. Len(ops)
  <2>1. wlog[g] \in Seq(1 .. Len(ops))
    BY <1>1
  <2>2. wlog[g][i] \in 1 .. Len(ops)
    BY <2>1, ElementOfSeq
  <2>3. Append(wlog[g], Len(ops) + 1)[i] = wlog[g][i]
    BY <2>1
  <2>4. QED
    BY <1>3, <2>2, <2>3
<1>5. /\ Len(wlog'[active]) = Len(wlog[active]) + 1
      /\ wlog'[active][Len(wlog[active]) + 1] = Len(ops) + 1
  <2>1. wlog[active] \in Seq(1 .. Len(ops))
    BY <1>1
  <2>2. QED
    BY <1>3, <2>1
<1>6. \A g \in Seqs : Len(wlog[g]) \in Nat /\ Len(wlog'[g]) \in Nat
  BY <1>1, <1>3, <1>5
<1>7. QED
  BY <1>2, <1>3, <1>4, <1>5, <1>6

\* Deleting a log leaves the others as they are.
LEMMA LogUnlinked ==
    ASSUME TypeOK, NEW g, UnlinkWal(g)
    PROVE  /\ walFiles' = walFiles \ {g}
           /\ \A h \in Seqs : h # g =>
                wlog'[h] = wlog[h] /\ wos'[h] = wos[h] /\ wsync'[h] = wsync[h]
           /\ g \in Seqs => wlog'[g] = << >> /\ wos'[g] = 0 /\ wsync'[g] = 0
  BY DEF TypeOK, TypeDirectory, UnlinkWal

\* The ways in which a step changes the logs.
LEMMA LogSteps ==
    ASSUME Inv, [Next]_vars
    PROVE  \/ UNCHANGED <<walFiles, wlog, wos, wsync, ops>>
           \/ \E k \in Keys, del \in BOOLEAN : Write(k, del) \/ WriteSyncFails(k, del)
           \/ /\ mode # "down" /\ wos' = Drained(active)
              /\ wsync' = Synced(active) \/ UNCHANGED wsync
              /\ UNCHANGED <<walFiles, wlog, ops>>
           \/ Rotate
           \/ UNCHANGED ops /\ \E g : UnlinkWal(g)
           \/ \E kind \in CrashKinds : Crash(kind)
           \/ Recover
  BY DEF Next, WritePath, FlushPipeline, Compaction, Worker, Lifecycle, vars,
         Apply, FlushSync, RotateFails, Swap, FlushBegin, FlushBuild,
         FlushBuildFails, FlushCommit, FlushNothing, FlushManifest, FlushManifestFails,
         FlushUnlink, FlushReturn, CompactBuild, CompactBuildFails, CompactNothing,
         CompactCommit, CompactManifest, CompactManifestFails, CompactUnlink,
         CompactReturn, WorkerRecv, WorkerCheck, Close, Reback, RebackFails, CleanOld,
         dirVars, walVars, ghosts, Inv, TypeOK, TypeProcess

\* Logs stay well formed.
LEMMA LogShapeNext ==
    ASSUME Inv, LogShape, LiveLogs, [Next]_vars PROVE LogShape'
<1>0. /\ TypeOK /\ walFiles \subseteq Seqs
      /\ wlog \in [Seqs -> Seq(1 .. MaxWrites)]
      /\ wos \in [Seqs -> Nat] /\ wsync \in [Seqs -> Nat]
      /\ \A g \in Seqs : Len(wlog[g]) \in Nat /\ wos[g] \in Nat /\ wsync[g] \in Nat
  BY DEF Inv, TypeOK, TypeDirectory
<1>a. /\ \A g \in Seqs \ walFiles : wlog[g] = << >>
      /\ \A g \in Seqs : wsync[g] <= wos[g] /\ wos[g] <= Len(wlog[g])
      /\ \A g \in Seqs : \A i, j \in 1 .. Len(wlog[g]) :
           i < j /\ ops[wlog[g][i]].key = ops[wlog[g][j]].key => wlog[g][i] < wlog[g][j]
  BY DEF LogShape
<1>b. mode # "down" => active \in Seqs
  BY <1>0 DEF TypeOK, TypeProcess
<1>1. \/ UNCHANGED <<walFiles, wlog, wos, wsync, ops>>
      \/ \E k \in Keys, del \in BOOLEAN : Write(k, del) \/ WriteSyncFails(k, del)
      \/ /\ mode # "down" /\ wos' = Drained(active)
         /\ wsync' = Synced(active) \/ UNCHANGED wsync
         /\ UNCHANGED <<walFiles, wlog, ops>>
      \/ Rotate
      \/ UNCHANGED ops /\ \E g : UnlinkWal(g)
      \/ \E kind \in CrashKinds : Crash(kind)
      \/ Recover
  BY LogSteps
<1>2. CASE UNCHANGED <<walFiles, wlog, wos, wsync, ops>>
  BY <1>2, <1>a DEF LogShape
<1>3. ASSUME NEW k \in Keys, NEW del \in BOOLEAN, Write(k, del) \/ WriteSyncFails(k, del)
      PROVE  LogShape'
  <2> DEFINE op == [key |-> k, del |-> del]
  <2>1. /\ ops' = Append(ops, op) /\ wlog' = Logged(active, Len(ops) + 1)
        /\ UNCHANGED walFiles /\ mode = "up" /\ active \in Seqs
    BY <1>3, <1>b DEF Write, WriteSyncFails
  <2> HIDE DEF op
  <2>2. /\ \A g \in Seqs : \A i \in 1 .. Len(wlog[g]) :
             /\ wlog'[g][i] = wlog[g][i] /\ wlog[g][i] \in 1 .. Len(ops)
             /\ ops'[wlog[g][i]] = ops[wlog[g][i]]
        /\ \A g \in Seqs \ {active} : wlog'[g] = wlog[g]
        /\ Len(wlog'[active]) = Len(wlog[active]) + 1
        /\ wlog'[active][Len(wlog[active]) + 1] = Len(ops) + 1
        /\ Len(ops) \in Nat
    BY <2>1, LogExtended
  <2>3. \/ UNCHANGED <<wos, wsync>>
        \/ /\ wos' = [wos EXCEPT ![active] = Len(wlog[active]) + 1]
           /\ wsync' = [wsync EXCEPT ![active] = Len(wlog[active]) + 1]
    BY <1>3 DEF Write, WriteSyncFails
  <2>4. ASSUME NEW g \in Seqs PROVE wsync'[g] <= wos'[g] /\ wos'[g] <= Len(wlog'[g])
    <3>1. /\ wsync[g] <= wos[g] /\ wos[g] <= Len(wlog[g])
          /\ wsync[g] \in Nat /\ wos[g] \in Nat /\ Len(wlog[g]) \in Nat
      BY <1>0, <1>a
    <3>2. Len(wlog[g]) <= Len(wlog'[g]) /\ Len(wlog'[g]) \in Nat
      <4>1. CASE g = active
        BY <2>2, <3>1, <4>1
      <4>2. CASE g # active
        BY <2>2, <3>1, <4>2
      <4>3. QED
        BY <4>1, <4>2
    <3>3. CASE wos'[g] = wos[g] /\ wsync'[g] = wsync[g]
      BY <3>1, <3>2, <3>3
    <3>4. CASE g = active /\ ~ UNCHANGED <<wos, wsync>>
      <4>1. wos'[g] = Len(wlog[g]) + 1 /\ wsync'[g] = Len(wlog[g]) + 1
        BY <1>0, <2>3, <3>4
      <4>2. Len(wlog'[g]) = Len(wlog[g]) + 1
        BY <2>2, <3>4
      <4>3. QED
        BY <3>1, <4>1, <4>2
    <3>5. QED
      BY <1>0, <2>3, <3>3, <3>4
  <2>5. active \in walFiles
    BY <2>1 DEF LiveLogs, LiveGens
  <2>6. ASSUME NEW g \in Seqs, NEW i \in 1 .. Len(wlog'[g]), NEW j \in 1 .. Len(wlog'[g]),
               i < j, ops'[wlog'[g][i]].key = ops'[wlog'[g][j]].key
        PROVE  wlog'[g][i] < wlog'[g][j]
    <3>0. Len(wlog[g]) \in Nat /\ i \in Int /\ j \in Int /\ i < j /\ 1 <= i
      BY <1>0, <2>6
    <3>1. CASE j \in 1 .. Len(wlog[g])
      <4>1. i \in 1 .. Len(wlog[g])
        BY <3>0, <3>1
      <4>2. /\ wlog'[g][i] = wlog[g][i] /\ wlog'[g][j] = wlog[g][j]
            /\ ops'[wlog[g][i]] = ops[wlog[g][i]] /\ ops'[wlog[g][j]] = ops[wlog[g][j]]
        BY <2>2, <3>1, <4>1
      <4>3. ops[wlog[g][i]].key = ops[wlog[g][j]].key
        BY <2>6, <4>2
      <4>4. QED
        BY <1>a, <3>0, <3>1, <4>1, <4>2, <4>3
    <3>2. CASE j \notin 1 .. Len(wlog[g])
      <4>1. g = active /\ j = Len(wlog[active]) + 1 /\ i \in 1 .. Len(wlog[g])
        <5>1. g = active
          BY <2>2, <3>2
        <5>2. j <= Len(wlog[active]) + 1
          BY <2>2, <2>6, <5>1
        <5>3. QED
          BY <3>0, <3>2, <5>1, <5>2
      <4>2. wlog'[g][i] \in 1 .. Len(ops) /\ wlog'[g][j] = Len(ops) + 1
        BY <2>2, <4>1
      <4>3. QED
        BY <2>2, <4>2
    <3>3. QED
      BY <3>1, <3>2
  <2>7. QED
    BY <1>a, <2>1, <2>2, <2>4, <2>5, <2>6 DEF LogShape
<1>4. CASE /\ mode # "down" /\ wos' = Drained(active)
           /\ wsync' = Synced(active) \/ UNCHANGED wsync
           /\ UNCHANGED <<walFiles, wlog, ops>>
  <2>1. \A g \in Seqs : wsync'[g] <= wos'[g] /\ wos'[g] <= Len(wlog[g])
    BY <1>0, <1>a, <1>b, <1>4 DEF Drained, Synced
  <2>2. QED
    BY <1>a, <1>4, <2>1 DEF LogShape
<1>5. CASE Rotate
  BY <1>a, <1>5 DEF LogShape, Rotate, ghosts
<1>6. ASSUME UNCHANGED ops, NEW g, UnlinkWal(g) PROVE LogShape'
  <2>1. /\ walFiles' = walFiles \ {g}
        /\ \A h \in Seqs : h # g =>
             wlog'[h] = wlog[h] /\ wos'[h] = wos[h] /\ wsync'[h] = wsync[h]
        /\ g \in Seqs => wlog'[g] = << >> /\ wos'[g] = 0 /\ wsync'[g] = 0
    BY <1>0, <1>6, LogUnlinked
  <2>2. Len(<< >>) = 0
    OBVIOUS
  <2>3. \A h \in Seqs : wsync'[h] <= wos'[h] /\ wos'[h] <= Len(wlog'[h])
    BY <1>a, <2>1, <2>2
  <2>4. \A h \in Seqs : \A i, j \in 1 .. Len(wlog'[h]) :
          i < j /\ ops[wlog'[h][i]].key = ops[wlog'[h][j]].key => wlog'[h][i] < wlog'[h][j]
    BY <1>a, <2>1, <2>2
  <2>5. QED
    BY <1>a, <1>6, <2>1, <2>3, <2>4 DEF LogShape
<1>7. ASSUME NEW kind \in CrashKinds, Crash(kind) PROVE LogShape'
  <2>1. PICK cut \in [walFiles -> Nat] :
             /\ \A g \in walFiles :
                  /\ Safe(kind, g) <= cut[g] /\ cut[g] <= Len(wlog[g])
                  /\ Len(wlog'[g]) = cut[g]
                  /\ \A i \in 1 .. cut[g] : wlog'[g][i] = wlog[g][i]
                  /\ wos'[g] = cut[g]
                  /\ wsync'[g] = IF kind = "kill" THEN wsync[g] ELSE cut[g]
             /\ \A g \in Seqs \ walFiles :
                  /\ wlog'[g] = << >> /\ wos'[g] = 0
                  /\ wsync'[g] = IF kind = "kill" THEN wsync[g] ELSE 0
    BY <1>0, <1>7, CrashLeaves
  <2>2. UNCHANGED <<walFiles, ops>>
    BY <1>7 DEF Crash
  <2>3. \A g \in Seqs : wsync'[g] <= wos'[g] /\ wos'[g] <= Len(wlog'[g])
    <3>1. ASSUME NEW g \in walFiles PROVE wsync'[g] <= wos'[g] /\ wos'[g] <= Len(wlog'[g])
      <4>1. g \in Seqs /\ cut[g] \in Nat
        BY <1>0
      <4>2. kind = "kill" => wsync[g] <= cut[g]
        <5>1. kind = "kill" => wos[g] <= cut[g]
          BY <2>1 DEF Safe
        <5>2. QED
          BY <1>0, <1>a, <4>1, <5>1
      <4>3. QED
        BY <2>1, <4>1, <4>2
    <3>2. ASSUME NEW g \in Seqs \ walFiles PROVE wsync'[g] <= wos'[g] /\ wos'[g] <= Len(wlog'[g])
      <4>1. wlog[g] = << >> /\ wlog'[g] = << >> /\ wos'[g] = 0 /\ wsync[g] = 0
        <5>1. wlog[g] = << >> /\ Len(<< >>) = 0
          BY <1>a
        <5>2. QED
          BY <1>0, <1>a, <2>1, <5>1
      <4>2. QED
        BY <2>1, <4>1
    <3>3. QED
      BY <3>1, <3>2
  <2>4. ASSUME NEW g \in Seqs, NEW i \in 1 .. Len(wlog'[g]), NEW j \in 1 .. Len(wlog'[g]),
               i < j, ops[wlog'[g][i]].key = ops[wlog'[g][j]].key
        PROVE  wlog'[g][i] < wlog'[g][j]
    <3>1. CASE g \in walFiles
      <4>1. Len(wlog'[g]) = cut[g] /\ cut[g] \in Nat /\ cut[g] <= Len(wlog[g])
        BY <2>1, <3>1
      <4>2. i \in 1 .. Len(wlog[g]) /\ j \in 1 .. Len(wlog[g])
        BY <1>0, <4>1
      <4>3. wlog'[g][i] = wlog[g][i] /\ wlog'[g][j] = wlog[g][j]
        BY <2>1, <3>1, <4>1
      <4>4. QED
        BY <1>a, <2>4, <4>2, <4>3
    <3>2. CASE g \notin walFiles
      BY <2>1, <2>4, <3>2
    <3>3. QED
      BY <3>1, <3>2
  <2>5. QED
    BY <2>1, <2>2, <2>3, <2>4 DEF LogShape
<1>8. CASE Recover
  <2> DEFINE t == [k \in Keys |-> Replayed(k)]
             r == RecoveredSeq
  <2>1. r \in Seqs /\ r \notin walFiles
    <3>1. r \in Nat \ {0} /\ \A s \in KnownSeqs : s < r
      BY <1>0, RecoveredSeqAbove DEF TypeOK
    <3>2. r <= MaxSeq
      BY <1>8 DEF Recover
    <3>3. QED
      BY <3>1, <3>2, BoundsAssumption DEF KnownSeqs, Seqs
  <2>2. PICK log \in InKeyOrder(t) : wlog' = [wlog EXCEPT ![r] = log]
    BY <1>8, Zenon DEF Recover
  <2>3. t \in [Keys -> 0 .. MaxWrites]
    <3>1. \A k \in Keys : Replayed(k) \in 0 .. MaxWrites
      BY <1>0, ReplayedType, BoundsAssumption DEF TypeOK, TypeDirectory
    <3>2. QED
      BY <3>1
  <2>4. /\ log \in Seq(1 .. MaxWrites)
        /\ \A i, j \in 1 .. Len(log) : i < j => ops[log[i]].key < ops[log[j]].key
    <3> HIDE DEF t
    <3>1. QED BY <2>2, <2>3, InKeyOrderIs, BoundsAssumption
  <2> HIDE DEF t, r
  <2>5. /\ walFiles' = walFiles \cup {r} /\ UNCHANGED <<wos, wsync, ops>>
    BY <1>8 DEF Recover, r
  <2>6. wlog'[r] = log /\ \A g \in Seqs : g # r => wlog'[g] = wlog[g]
    BY <1>0, <2>1, <2>2
  <2>7. wos[r] <= 0 /\ Len(log) \in Nat
    <3>1. wlog[r] = << >> /\ Len(<< >>) = 0
      BY <1>a, <2>1
    <3>2. QED
      BY <1>a, <2>1, <2>4, <3>1
  <2>8. \A g \in Seqs : wsync[g] <= wos[g] /\ wos[g] <= Len(wlog'[g])
    <3>1. wsync[r] <= wos[r] /\ wos[r] <= Len(wlog'[r])
      BY <1>0, <1>a, <2>1, <2>6, <2>7
    <3>2. QED
      BY <1>a, <2>6, <3>1
  <2>9. ASSUME NEW i \in 1 .. Len(log), NEW j \in 1 .. Len(log), i < j
        PROVE  ops[log[i]].key # ops[log[j]].key
    <3>1. ops[log[i]].key \in Int /\ ops[log[j]].key \in Int
      <4>1. log \in Seq(1 .. Len(ops))
        <5>1. wlog \in [Seqs -> Seq(1 .. Len(ops))] /\ Len(ops) \in Nat
          BY DEF Inv, Issued, TypeOK, TypeHistory
        <5>2. t \in [Keys -> 0 .. Len(ops)]
          <6>1. \A k \in Keys : Replayed(k) \in 0 .. Len(ops)
            BY <1>0, <5>1, ReplayedType DEF TypeOK
          <6>2. QED
            BY <6>1 DEF t
        <5>3. QED
          BY <2>2, <5>1, <5>2, InKeyOrderIs
      <4>2. log[i] \in 1 .. Len(ops) /\ log[j] \in 1 .. Len(ops)
        BY <4>1, ElementOfSeq
      <4>3. \A w \in 1 .. Len(ops) : ops[w].key \in Keys
        BY IssuedKeys DEF Inv
      <4>4. ops[log[i]].key \in Keys /\ ops[log[j]].key \in Keys
        BY <4>2, <4>3
      <4>5. \A k \in Keys : k \in Int
        BY KeysAssumption
      <4>6. QED
        BY <4>4, <4>5
    <3>2. QED
      BY <2>4, <2>9, <3>1
  <2>10. \A g \in Seqs : \A i, j \in 1 .. Len(wlog'[g]) :
           i < j /\ ops[wlog'[g][i]].key = ops[wlog'[g][j]].key => wlog'[g][i] < wlog'[g][j]
    BY <1>a, <2>6, <2>9
  <2>11. QED
    BY <1>a, <2>5, <2>6, <2>8, <2>10 DEF LogShape
<1>9. QED
  BY <1>1, <1>2, <1>3, <1>4, <1>5, <1>6, <1>7, <1>8

\* What a generation has logged does not depend on the other logs.
LEMMA SameEntries ==
    ASSUME NEW g, wlog'[g] = wlog[g], UNCHANGED ops
    PROVE  \A k : /\ Entries(g, k)' = Entries(g, k)
                  /\ \A w : HasWrite(g, k, w) => HasWrite(g, k, w)'
                  /\ \A d : HasOlder(g, k, d)' = HasOlder(g, k, d)
  BY DEF Entries, HasWrite, HasOlder

\* The numbers that a step compares.
LEMMA Numbers ==
    ASSUME Inv
    PROVE  /\ \A s \in Seqs : s \in Nat
           /\ nextSeq \in Nat /\ active \in Nat /\ imms \subseteq Seqs
           /\ walFiles \subseteq Seqs /\ stale \subseteq Seqs /\ fl.todo \subseteq Seqs
           /\ Len(ops) \in Nat
           /\ \A g \in Seqs : Len(wlog[g]) \in Nat /\ wos[g] \in Nat /\ wsync[g] \in Nat
           /\ mode # "down" => /\ active \in Seqs /\ active < nextSeq
                               /\ LiveGens \subseteq Seqs
                               /\ \A g \in imms : g < active
                               /\ \A g \in LiveGens : g <= active
           /\ wr.pc = "swap" => /\ mode = "up" /\ wr.new \in Seqs /\ active < wr.new
                                /\ wr.new < nextSeq /\ mem[wr.new] = EmptyTable
<1>1. TypeDirectory /\ TypeProcess /\ TypeHistory /\ Quiet
  BY DEF Inv, TypeOK
<1>2. /\ \A s \in Seqs : s \in Nat
      /\ nextSeq \in Nat /\ active \in Nat /\ imms \subseteq Seqs
      /\ walFiles \subseteq Seqs /\ stale \subseteq Seqs /\ fl.todo \subseteq Seqs
      /\ Len(ops) \in Nat
  BY <1>1, BasicSets, BoundsAssumption DEF TypeDirectory, TypeProcess, TypeHistory, FlType
<1>3. \A g \in Seqs : Len(wlog[g]) \in Nat /\ wos[g] \in Nat /\ wsync[g] \in Nat
  BY <1>1 DEF TypeDirectory
<1>4. mode # "down" => /\ active \in Seqs /\ active < nextSeq
                       /\ \A g \in imms : g < active
  BY DEF Inv, Generations
<1>5. mode # "down" => LiveGens \subseteq Seqs /\ \A g \in LiveGens : g <= active
  BY <1>2, <1>4 DEF LiveGens
<1>6. wr.pc = "swap" => /\ mode = "up" /\ wr.new \in Seqs /\ active < wr.new
                        /\ wr.new < nextSeq /\ mem[wr.new] = EmptyTable
  BY <1>1 DEF Inv, Generations, Quiet
<1>7. QED
  BY <1>2, <1>3, <1>4, <1>5, <1>6

\* A log is deleted only when its MemTable has left memory.
LEMMA UnlinkedIsNotLive ==
    ASSUME Inv, DurableInv, FlushUnlink \/ CleanOld
    PROVE  /\ mode \in {"clean", "up"}
           /\ FlushUnlink => /\ fl.todo # {} /\ Min(fl.todo) \in fl.todo
                             /\ \A t \in fl.todo : Min(fl.todo) <= t
           /\ CleanOld => /\ stale # {} /\ Min(stale) \in stale
                          /\ \A t \in stale : Min(stale) <= t
           /\ \A g \in walFiles :
                (FlushUnlink => Min(fl.todo) <= g) /\ (CleanOld => Min(stale) <= g)
           /\ \A g \in LiveGens :
                (FlushUnlink => Min(fl.todo) < g) /\ (CleanOld => Min(stale) < g)
<1>1. CASE FlushUnlink
  <2>1. /\ mode = "up" /\ fl.pc = "unlink" /\ fl.todo # {} /\ mode # "clean"
        /\ \A t \in fl.todo, g \in LiveGens : t < g
    BY <1>1 DEF FlushUnlink, Inv, Quiet, DurableInv, TodoOlder
  <2>2. fl.todo \subseteq Nat
    BY Numbers
  <2>3. Min(fl.todo) \in fl.todo /\ \A t \in fl.todo : Min(fl.todo) <= t
    BY <2>1, <2>2, MinOfNats
  <2> DEFINE m == Min(fl.todo)
  <2> HIDE DEF m
  <2>4. m \in Nat /\ \A g \in LiveGens : m < g
    BY <2>1, <2>2, <2>3 DEF m
  <2>5. ASSUME NEW g \in walFiles PROVE m <= g
    <3>1. g \in LiveGens \/ g \in fl.todo \/ (wr.pc = "swap" /\ g = wr.new)
      BY <2>1 DEF DurableInv, LogsAccounted, NoStrayWal, LiveGens
    <3>2. wr.pc = "swap" => active < wr.new /\ active \in LiveGens
      BY Numbers DEF LiveGens
    <3>3. g \in Nat /\ active \in Nat
      BY Numbers
    <3>4. QED
      BY <2>3, <2>4, <3>1, <3>2, <3>3 DEF m
  <2>6. ~ CleanOld
    BY <2>1 DEF CleanOld
  <2>7. QED
    BY <2>1, <2>3, <2>4, <2>5, <2>6 DEF m
<1>2. CASE CleanOld
  <2>1. /\ mode = "clean" /\ stale # {} /\ fl.pc = "free"
        /\ walFiles \subseteq stale \cup {active}
        /\ \A g \in stale : g < active
        /\ LiveGens = {active}
    BY <1>2 DEF CleanOld, DurableInv, LogsAccounted, Inv, Quiet, LiveGens
  <2>2. stale \subseteq Nat /\ active \in Nat
    BY Numbers
  <2>3. Min(stale) \in stale /\ \A t \in stale : Min(stale) <= t
    BY <2>1, <2>2, MinOfNats
  <2> DEFINE m == Min(stale)
  <2> HIDE DEF m
  <2>4. m \in Nat /\ (\A g \in LiveGens : m < g) /\ \A g \in walFiles : m <= g
    <3>1. m \in stale /\ m \in Nat /\ m < active
      BY <2>1, <2>2, <2>3 DEF m
    <3>2. \A g \in stale : m <= g
      BY <2>3 DEF m
    <3>3. \A g \in walFiles : m <= g
      BY <2>1, <2>2, <3>1, <3>2
    <3>4. QED
      BY <2>1, <3>1, <3>3
  <2>5. ~ FlushUnlink
    BY <2>1 DEF FlushUnlink
  <2>6. QED
    BY <2>1, <2>3, <2>4, <2>5 DEF m
<1>3. QED
  BY <1>1, <1>2

\* A log that keeps its entries keeps its hits.
LEMMA EntriesKept ==
    ASSUME NEW g, Len(wlog[g]) \in Nat, Len(wlog'[g]) \in Nat, Len(wlog[g]) <= Len(wlog'[g]),
           \A i \in 1 .. Len(wlog[g]) :
             wlog'[g][i] = wlog[g][i] /\ ops'[wlog[g][i]].key = ops[wlog[g][i]].key
    PROVE  \A k : /\ \A i \in Entries(g, k) : i \in Entries(g, k)' /\ wlog'[g][i] = wlog[g][i]
                  /\ \A w : HasWrite(g, k, w) => HasWrite(g, k, w)'
<1>1. ASSUME NEW k, NEW i \in Entries(g, k)
      PROVE  i \in Entries(g, k)' /\ wlog'[g][i] = wlog[g][i]
  <2>1. i \in 1 .. Len(wlog[g]) /\ ops[wlog[g][i]].key = k
    BY DEF Entries
  <2>2. i \in 1 .. Len(wlog'[g])
    BY <2>1
  <2>3. QED
    BY <2>1, <2>2 DEF Entries
<1>2. QED
  BY <1>1 DEF HasWrite

\* A hit that a stop leaves alone stays one as long as what is safe does not shrink.
LEMMA SafeHitKept ==
    ASSUME NEW g, NEW k, NEW d, NEW kind, SafeHit(kind, g, k, d),
           \A i \in Entries(g, k) : i <= Safe(kind, g) =>
             i <= Safe(kind, g)' /\ i \in Entries(g, k)' /\ wlog'[g][i] = wlog[g][i]
    PROVE  SafeHit(kind, g, k, d)'
<1>1. PICK i \in Entries(g, k) : i <= Safe(kind, g) /\ wlog[g][i] >= d
  BY DEF SafeHit
<1>2. i <= Safe(kind, g)' /\ i \in Entries(g, k)' /\ wlog'[g][i] >= d
  BY <1>1
<1>3. QED
  BY <1>2 DEF SafeHit

\* As long as a log exists, no step makes a promise harder to keep: what was safe
\* in it stays safe, and nothing older than an issued write is added to it.  Only
\* a stop takes entries away.
LEMMA LogKept ==
    ASSUME Inv, LogShape, [Next]_vars, NEW g \in walFiles, g \in walFiles',
           NEW k, NEW d \in 0 .. Len(ops)
    PROVE  /\ \A kind \in PromiseKinds : SafeHit(kind, g, k, d) => SafeHit(kind, g, k, d)'
           /\ HasOlder(g, k, d)' => HasOlder(g, k, d)
           /\ mode' # "down" => \A w : HasWrite(g, k, w) => HasWrite(g, k, w)'
           /\ UNCHANGED ops /\ Entries(g, k) = {} => Entries(g, k)' = {}
<1> USE Numbers
<1>0. g \in Seqs /\ TypeOK /\ Len(ops) \in Nat /\ d \in Int
  BY DEF Inv
<1>p. \A kind \in PromiseKinds : kind \in {"power", "kill"} /\ (kind = "kill" => CrashKinds \subseteq {"kill"})
  BY DEF PromiseKinds
<1>s. wsync[g] <= wos[g] /\ wos[g] <= Len(wlog[g])
  BY <1>0 DEF LogShape
<1>1. CASE /\ wlog'[g] = wlog[g] /\ UNCHANGED ops
           /\ \A kind \in PromiseKinds : \A i \in 1 .. Len(wlog[g]) :
                i <= Safe(kind, g) => i <= Safe(kind, g)'
  <2>1. \A i \in Entries(g, k) : i \in 1 .. Len(wlog[g]) /\ i \in Entries(g, k)'
    BY <1>1 DEF Entries
  <2>2. ASSUME NEW kind \in PromiseKinds, SafeHit(kind, g, k, d) PROVE SafeHit(kind, g, k, d)'
    <3>1. \A i \in Entries(g, k) : i <= Safe(kind, g) =>
            i <= Safe(kind, g)' /\ i \in Entries(g, k)' /\ wlog'[g][i] = wlog[g][i]
      BY <1>1, <2>1
    <3>2. QED
      BY <2>2, <3>1, SafeHitKept
  <2>3. QED
    BY <1>1, <2>2, SameEntries
<1>2. CASE UNCHANGED <<walFiles, wlog, wos, wsync, ops>>
  BY <1>1, <1>2 DEF Safe
<1>3. ASSUME NEW j \in Keys, NEW del \in BOOLEAN, Write(j, del) \/ WriteSyncFails(j, del)
      PROVE  /\ \A kind \in PromiseKinds : SafeHit(kind, g, k, d) => SafeHit(kind, g, k, d)'
             /\ HasOlder(g, k, d)' => HasOlder(g, k, d)
             /\ \A w : HasWrite(g, k, w) => HasWrite(g, k, w)'
             /\ ~ UNCHANGED ops
  <2> DEFINE op == [key |-> j, del |-> del]
  <2>1. /\ ops' = Append(ops, op) /\ wlog' = Logged(active, Len(ops) + 1)
        /\ mode = "up" /\ active \in Seqs
        /\ \/ UNCHANGED <<wos, wsync>>
           \/ /\ wos' = [wos EXCEPT ![active] = Len(wlog[active]) + 1]
              /\ wsync' = [wsync EXCEPT ![active] = Len(wlog[active]) + 1]
    BY <1>3 DEF Write, WriteSyncFails
  <2> HIDE DEF op
  <2>2. /\ \A i \in 1 .. Len(wlog[g]) :
             /\ wlog'[g][i] = wlog[g][i] /\ wlog[g][i] \in 1 .. Len(ops)
             /\ ops'[wlog[g][i]] = ops[wlog[g][i]]
        /\ g # active => wlog'[g] = wlog[g]
        /\ Len(wlog'[active]) = Len(wlog[active]) + 1
        /\ wlog'[active][Len(wlog[active]) + 1] = Len(ops) + 1
        /\ Len(wlog[g]) \in Nat /\ Len(wlog'[g]) \in Nat /\ Len(ops') = Len(ops) + 1
    BY <1>0, <2>1, LogExtended
  <2>3. Len(wlog[g]) <= Len(wlog'[g])
    BY <2>2
  <2>4. /\ \A i \in Entries(g, k) : i \in Entries(g, k)' /\ wlog'[g][i] = wlog[g][i]
        /\ \A w : HasWrite(g, k, w) => HasWrite(g, k, w)'
    BY <2>2, <2>3, EntriesKept
  <2>5. /\ wos[g] <= wos'[g] /\ wsync[g] <= wsync'[g]
        /\ wos'[g] \in Nat /\ wsync'[g] \in Nat
    <3>1. wos \in [Seqs -> Nat] /\ wsync \in [Seqs -> Nat]
      BY <1>0 DEF TypeOK, TypeDirectory
    <3>2. /\ wos[g] \in Nat /\ wsync[g] \in Nat /\ Len(wlog[g]) \in Nat
          /\ wos[g] <= Len(wlog[g]) + 1 /\ wsync[g] <= Len(wlog[g]) + 1
      BY <1>s, <2>2, <3>1
    <3>3. CASE wos'[g] = wos[g] /\ wsync'[g] = wsync[g]
      BY <3>2, <3>3
    <3>4. CASE g = active /\ ~ UNCHANGED <<wos, wsync>>
      <4>1. wos'[g] = Len(wlog[g]) + 1 /\ wsync'[g] = Len(wlog[g]) + 1
        BY <1>0, <2>1, <3>1, <3>4
      <4>2. QED
        BY <3>2, <4>1
    <3>5. QED
      BY <1>0, <2>1, <3>1, <3>3, <3>4
  <2>6. \A kind \in PromiseKinds : \A i \in Entries(g, k) : i <= Safe(kind, g) => i <= Safe(kind, g)'
    <3>1. \A i \in Entries(g, k) : i \in Int
      BY DEF Entries
    <3>2. QED
      BY <1>0, <2>5, <3>1 DEF Safe
  <2>7. ASSUME HasOlder(g, k, d)' PROVE HasOlder(g, k, d)
    <3>1. PICK i \in Entries(g, k)' : wlog'[g][i] < d
      BY <2>7 DEF HasOlder
    <3>2. i \in 1 .. Len(wlog'[g]) /\ ops'[wlog'[g][i]].key = k
      BY <3>1 DEF Entries
    <3>3. CASE i \in 1 .. Len(wlog[g])
      <4>1. wlog[g][i] = wlog'[g][i] /\ ops[wlog[g][i]].key = k
        BY <2>2, <3>2, <3>3
      <4>2. QED
        BY <3>1, <3>3, <4>1 DEF HasOlder, Entries
    <3>4. CASE i \notin 1 .. Len(wlog[g])
      <4>1. g = active /\ i = Len(wlog[active]) + 1
        <5>1. g = active
          BY <2>2, <3>2, <3>4
        <5>2. QED
          BY <2>2, <3>2, <3>4, <5>1
      <4>2. wlog'[g][i] = Len(ops) + 1
        BY <2>2, <4>1
      <4>3. QED
        BY <1>0, <3>1, <4>2
    <3>5. QED
      BY <3>3, <3>4
  <2>8. \A kind \in PromiseKinds : SafeHit(kind, g, k, d) => SafeHit(kind, g, k, d)'
    BY <2>4, <2>6, SafeHitKept
  <2>9. QED
    BY <1>0, <2>2, <2>4, <2>7, <2>8
<1>4. CASE /\ mode # "down" /\ wos' = Drained(active)
           /\ wsync' = Synced(active) \/ UNCHANGED wsync
           /\ UNCHANGED <<walFiles, wlog, ops>>
  <2>1. wos \in [Seqs -> Nat] /\ wsync \in [Seqs -> Nat] /\ active \in Seqs
    BY <1>0, <1>4 DEF TypeOK, TypeDirectory
  <2>2. \A i \in 1 .. Len(wlog[g]) :
          (i <= wos[g] => i <= wos'[g]) /\ (i <= wsync[g] => i <= wsync'[g])
    <3>1. wos'[g] = IF g = active THEN Len(wlog[g]) ELSE wos[g]
      BY <1>0, <1>4, <2>1 DEF Drained
    <3>2. wsync'[g] = wsync[g] \/ wsync'[g] = IF g = active THEN Len(wlog[g]) ELSE wsync[g]
      BY <1>0, <1>4, <2>1 DEF Synced
    <3>3. \A i \in 1 .. Len(wlog[g]) : i <= Len(wlog[g])
      BY <1>0
    <3>4. QED
      BY <3>1, <3>2, <3>3
  <2>3. QED
    BY <1>1, <1>4, <2>2 DEF Safe
<1>5. CASE Rotate
  BY <1>1, <1>5 DEF Rotate, Safe, ghosts
<1>6. ASSUME UNCHANGED ops, NEW m, UnlinkWal(m)
      PROVE  /\ wlog'[g] = wlog[g] /\ wos'[g] = wos[g] /\ wsync'[g] = wsync[g]
  <2>1. /\ walFiles' = walFiles \ {m}
        /\ \A h \in Seqs : h # m =>
             wlog'[h] = wlog[h] /\ wos'[h] = wos[h] /\ wsync'[h] = wsync[h]
    BY <1>0, <1>6, LogUnlinked
  <2>2. QED
    BY <1>0, <2>1
<1>7. ASSUME NEW c \in CrashKinds, Crash(c)
      PROVE  /\ \A kind \in PromiseKinds : SafeHit(kind, g, k, d) => SafeHit(kind, g, k, d)'
             /\ HasOlder(g, k, d)' => HasOlder(g, k, d)
             /\ mode' = "down"
             /\ Entries(g, k) = {} => Entries(g, k)' = {}
  <2>1. PICK cut \in [walFiles -> Nat] :
             \A h \in walFiles :
                  /\ Safe(c, h) <= cut[h] /\ cut[h] <= Len(wlog[h])
                  /\ Len(wlog'[h]) = cut[h]
                  /\ \A i \in 1 .. cut[h] : wlog'[h][i] = wlog[h][i]
                  /\ wos'[h] = cut[h]
                  /\ wsync'[h] = IF c = "kill" THEN wsync[h] ELSE cut[h]
    BY <1>0, <1>7, CrashLeaves
  <2>2. /\ Safe(c, g) <= cut[g] /\ cut[g] <= Len(wlog[g]) /\ cut[g] \in Nat
        /\ Len(wlog'[g]) = cut[g] /\ wos'[g] = cut[g]
        /\ \A i \in 1 .. cut[g] : wlog'[g][i] = wlog[g][i]
        /\ wsync'[g] = IF c = "kill" THEN wsync[g] ELSE cut[g]
    BY <2>1
  <2>3. UNCHANGED ops /\ mode' = "down"
    BY <1>7 DEF Crash, ProcessGone
  <2>4. \A i : i \in Entries(g, k)' <=> i \in Entries(g, k) /\ i <= cut[g]
    <3>1. \A i \in 1 .. cut[g] : i \in 1 .. Len(wlog[g])
      BY <1>0, <2>2
    <3>2. \A i \in 1 .. Len(wlog[g]) : i <= cut[g] => i \in 1 .. cut[g]
      BY <1>0, <2>2
    <3>3. \A i \in 1 .. cut[g] : i <= cut[g]
      BY <2>2
    <3>4. QED
      BY <2>2, <2>3, <3>1, <3>2, <3>3 DEF Entries
  <2>5. \A i \in Entries(g, k)' : i \in Entries(g, k) /\ wlog'[g][i] = wlog[g][i]
    BY <2>2, <2>3, <2>4 DEF Entries
  <2>6. ASSUME NEW kind \in PromiseKinds, NEW i \in Entries(g, k), i <= Safe(kind, g)
        PROVE  i <= Safe(kind, g)' /\ i <= cut[g]
    <3>0. i \in Int
      BY DEF Entries
    <3>1. CASE c = "kill"
      <4>1. wos[g] <= cut[g] /\ wsync[g] <= cut[g]
        BY <1>0, <1>s, <2>2, <3>1 DEF Safe
      <4>2. QED
        BY <1>0, <1>p, <2>2, <2>6, <3>0, <3>1, <4>1 DEF Safe
    <3>2. CASE c # "kill"
      <4>1. kind = "power" /\ wsync[g] <= cut[g] /\ wsync'[g] = cut[g]
        BY <1>p, <2>2, <3>2 DEF Safe
      <4>2. QED
        BY <1>0, <2>2, <2>6, <3>0, <4>1 DEF Safe
    <3>3. QED
      BY <3>1, <3>2
  <2>7. \A kind \in PromiseKinds : SafeHit(kind, g, k, d) => SafeHit(kind, g, k, d)'
    <3>1. ASSUME NEW kind \in PromiseKinds, SafeHit(kind, g, k, d) PROVE SafeHit(kind, g, k, d)'
      <4>1. \A i \in Entries(g, k) : i <= Safe(kind, g) =>
              i <= Safe(kind, g)' /\ i \in Entries(g, k)' /\ wlog'[g][i] = wlog[g][i]
        BY <2>4, <2>5, <2>6
      <4>2. QED
        BY <3>1, <4>1, SafeHitKept
    <3>2. QED
      BY <3>1
  <2>8. QED
    BY <2>3, <2>4, <2>5, <2>7 DEF HasOlder
<1>8. CASE Recover
  <2>1. /\ UNCHANGED <<wos, wsync, ops>> /\ RecoveredSeq \notin walFiles
        /\ wlog'[g] = wlog[g]
    <3>1. \A s \in KnownSeqs : s < RecoveredSeq
      BY <1>0, RecoveredSeqAbove DEF TypeOK
    <3>2. g # RecoveredSeq /\ RecoveredSeq \notin walFiles
      BY <1>0, <3>1 DEF KnownSeqs
    <3>3. PICK log : wlog' = [wlog EXCEPT ![RecoveredSeq] = log]
      BY <1>8, Zenon DEF Recover
    <3>4. wlog'[g] = wlog[g]
      BY <1>0, <3>2, <3>3 DEF TypeOK, TypeDirectory
    <3>5. QED
      BY <1>8, <3>2, <3>4 DEF Recover
  <2>2. QED
    BY <1>1, <2>1 DEF Safe
<1>9. QED
  <2>1. CASE UNCHANGED ops /\ \E m : UnlinkWal(m)
    BY <1>1, <1>6, <2>1 DEF Safe
  <2>2. QED
    BY <1>2, <1>3, <1>4, <1>5, <1>7, <1>8, <2>1, LogSteps

\* open starts a generation above all others whose log holds, for each key, what
\* replay found for it, and nothing else.
LEMMA RecoverLog ==
    ASSUME Inv, LogShape, Recover
    PROVE  /\ active' \in Seqs /\ active' \notin walFiles /\ nextSeq' = active' + 1
           /\ \A g \in walFiles : g < active'
           /\ walFiles' = walFiles \cup {active'} /\ stale' = walFiles
           /\ imms' = {} /\ LiveGens' = {active'}
           /\ wos'[active'] = 0 /\ wsync'[active'] = 0
           /\ \A g \in walFiles : wlog'[g] = wlog[g]
           /\ \A k \in Keys :
                /\ mem'[active'][k] = Replayed(k)
                /\ \A i \in Entries(active, k)' :
                     wlog'[active'][i] = Replayed(k) /\ Replayed(k) # 0
                /\ Replayed(k) # 0 => \E i \in Entries(active, k)' :
                                        wlog'[active'][i] = Replayed(k)
<1> DEFINE t == [k \in Keys |-> Replayed(k)]
           r == RecoveredSeq
<1>0. TypeOK /\ wlog \in [Seqs -> Seq(1 .. Len(ops))] /\ Len(ops) \in Nat /\ walFiles \subseteq Seqs
  BY Numbers DEF Inv, Issued
<1>1. r \in Seqs /\ r \notin walFiles /\ \A g \in walFiles : g < r
  <2>1. r \in Nat \ {0} /\ \A s \in KnownSeqs : s < r
    BY <1>0, RecoveredSeqAbove DEF TypeOK
  <2>2. r <= MaxSeq
    BY DEF Recover
  <2>3. QED
    BY <2>1, <2>2, BoundsAssumption DEF KnownSeqs, Seqs
<1>2. PICK log \in InKeyOrder(t) : wlog' = [wlog EXCEPT ![r] = log]
  BY Zenon DEF Recover
<1>3. t \in [Keys -> 0 .. Len(ops)] /\ \A k \in Keys : t[k] = Replayed(k)
  <2>1. \A k \in Keys : Replayed(k) \in 0 .. Len(ops)
    BY <1>0, ReplayedType DEF TypeOK
  <2>2. QED
    BY <2>1
<1>4. \A k \in Keys : t[k] # 0 => ops[t[k]].key = k
  <2>1. ASSUME NEW k \in Keys, Replayed(k) # 0 PROVE ops[Replayed(k)].key = k
    BY <1>0, <2>1, ReplayedIs DEF Entries
  <2>2. QED
    BY <1>3, <2>1
<1>5. /\ active' = r /\ nextSeq' = r + 1 /\ walFiles' = walFiles \cup {r} /\ stale' = walFiles
      /\ UNCHANGED <<wos, wsync, imms, ops>> /\ mem' = [mem EXCEPT ![r] = t] /\ mode = "down"
  BY DEF Recover
<1> HIDE DEF t, r
<1>6. /\ \A k \in Keys : t[k] # 0 => \E i \in 1 .. Len(log) : log[i] = t[k]
      /\ \A i \in 1 .. Len(log) : \E k \in Keys : log[i] = t[k] /\ t[k] # 0
  BY <1>0, <1>2, <1>3, InKeyOrderIs
<1>7. wlog'[r] = log /\ \A g \in walFiles : wlog'[g] = wlog[g]
  BY <1>0, <1>1, <1>2
<1>8. mem'[r] = t
  BY <1>0, <1>1, <1>5 DEF TypeOK, TypeProcess
<1>9. wos'[active'] = 0 /\ wsync'[active'] = 0
  <2>1. wlog[r] = << >> /\ wsync[r] <= wos[r] /\ wos[r] <= Len(wlog[r])
    BY <1>1 DEF LogShape
  <2>2. wos[r] \in Nat /\ wsync[r] \in Nat /\ Len(<< >>) = 0
    BY <1>1, Numbers
  <2>3. QED
    BY <1>5, <2>1, <2>2
<1>10. imms' = {} /\ LiveGens' = {active'}
  BY <1>5 DEF Inv, Quiet, LiveGens
<1>11. ASSUME NEW k \in Keys
       PROVE  /\ \A i \in Entries(active, k)' : wlog'[active'][i] = t[k] /\ t[k] # 0
              /\ t[k] # 0 => \E i \in Entries(active, k)' : wlog'[active'][i] = t[k]
  <2>1. Entries(active, k)' = {i \in 1 .. Len(log) : ops[log[i]].key = k}
    BY <1>5, <1>7 DEF Entries
  <2>2. ASSUME NEW i \in Entries(active, k)' PROVE log[i] = t[k] /\ t[k] # 0
    <3>1. i \in 1 .. Len(log) /\ ops[log[i]].key = k
      BY <2>1
    <3>2. PICK j \in Keys : log[i] = t[j] /\ t[j] # 0
      BY <1>6, <3>1
    <3>3. QED
      BY <1>4, <3>1, <3>2
  <2>3. ASSUME t[k] # 0 PROVE \E i \in Entries(active, k)' : log[i] = t[k]
    <3>1. PICK i \in 1 .. Len(log) : log[i] = t[k]
      BY <1>6, <2>3
    <3>2. QED
      BY <1>4, <2>1, <2>3, <3>1
  <2>4. QED
    BY <1>5, <1>7, <2>2, <2>3
<1>12. QED
  BY <1>1, <1>3, <1>5, <1>7, <1>8, <1>9, <1>10, <1>11

\* Every MemTable in memory stays recoverable from its log.
LEMMA LiveLogsNext ==
    ASSUME NoLosingFaults, Inv, Inv', DurableInv, [Next]_vars PROVE LiveLogs'
<1> USE Numbers
<1>0. SUFFICES ASSUME mode' # "down" PROVE LiveLogs'
  BY DEF LiveLogs
<1>a. mode # "down" =>
        /\ LiveGens \subseteq walFiles
        /\ \A g \in walFiles : g < nextSeq
        /\ wr.pc = "swap" => wr.new \in walFiles /\ wlog[wr.new] = << >>
        /\ \A g \in LiveGens, k \in Keys : mem[g][k] # 0 => HasWrite(g, k, mem[g][k])
        /\ \A g \in imms : wos[g] = Len(wlog[g])
  BY DEF DurableInv, LiveLogs
<1>b. TypeOK /\ TypeOK'
  BY DEF Inv
<1> DEFINE Still == /\ UNCHANGED <<wlog, ops, mem, active, imms, walFiles>>
                    /\ mode # "down"
                    /\ nextSeq' \in {nextSeq, nextSeq + 1}
                    /\ wos' = wos \/ wos' = Drained(active)
                    /\ wr'.pc = "swap" => wr' = wr
           Goal == \/ Still
                   \/ \E k \in Keys, del \in BOOLEAN : Write(k, del) \/ WriteSyncFails(k, del)
                   \/ \E freeze \in BOOLEAN : Apply(freeze)
                   \/ Rotate \/ Swap \/ FlushCommit
                   \/ FlushUnlink \/ CleanOld
                   \/ Recover
<1>1. Goal
  <2>1. WrFree.pc = "free" /\ (wr.pc # "free" => mode = "up") /\ (fl.pc # "free" => mode = "up")
    BY <1>b DEF WrFree, Inv, Quiet
  <2>2. CASE WritePath
    BY <2>1, <2>2 DEF WritePath, FlushSync, RotateFails, walVars, ghosts
  <2>3. CASE FlushPipeline
    BY <2>1, <2>3 DEF FlushPipeline, FlushBegin, FlushBuild, FlushBuildFails, FlushNothing,
         FlushManifest, FlushManifestFails, FlushReturn, dirVars, walVars, ghosts
  <2>4. CASE Compaction
    BY <2>1, <2>4 DEF Compaction, CompactBuild, CompactBuildFails, CompactNothing,
         CompactCommit, CompactManifest, CompactManifestFails, CompactUnlink,
         CompactReturn, CompactCaller, dirVars, walVars, ghosts
  <2>5. CASE Worker
    BY <1>0, <2>5 DEF Worker, WorkerRecv, WorkerCheck, dirVars, ghosts
  <2>6. CASE Lifecycle
    BY <1>0, <2>6 DEF Lifecycle, Close, Crash, Reback, RebackFails, ProcessGone, ghosts
  <2>7. CASE UNCHANGED vars
    BY <1>0, <2>7 DEF vars
  <2>8. QED
    BY <2>2, <2>3, <2>4, <2>5, <2>6, <2>7 DEF Next
<1>2. CASE Still
  <2>1. \A g \in walFiles : g < nextSeq'
    BY <1>a, <1>2
  <2>2. \A g \in imms : wos'[g] = Len(wlog[g])
    BY <1>a, <1>b, <1>2 DEF Drained, TypeOK, TypeDirectory
  <2>3. \A g, k, w : HasWrite(g, k, w) => HasWrite(g, k, w)'
    BY <1>2, SameEntries
  <2>4. LiveGens' = LiveGens
    BY <1>2 DEF LiveGens
  <2>5. \A g \in LiveGens, k \in Keys : mem[g][k] # 0 => HasWrite(g, k, mem[g][k])'
    BY <1>a, <1>2, SameEntries DEF HasWrite, Entries
  <2>6. QED
    BY <1>a, <1>2, <2>1, <2>2, <2>4, <2>5 DEF LiveLogs
<1>w. ASSUME mode # "down", NEW g \in LiveGens, g \in walFiles', NEW k \in Keys, mem[g][k] # 0
      PROVE  \E i \in Entries(g, k)' : wlog'[g][i] = mem[g][k]
  <2>1. HasWrite(g, k, mem[g][k]) /\ g \in walFiles
    BY <1>a, <1>w
  <2>2. PICK w : w = mem[g][k]
    OBVIOUS
  <2>3. 0 \in 0 .. Len(ops)
    BY Numbers
  <2>4. HasWrite(g, k, w) => HasWrite(g, k, w)'
    BY <1>0, <1>w, <2>1, <2>3, LogKept DEF DurableInv
  <2>5. QED
    BY <2>1, <2>2, <2>4 DEF HasWrite
<1>3. ASSUME NEW k \in Keys, NEW del \in BOOLEAN, Write(k, del) \/ WriteSyncFails(k, del)
      PROVE  LiveLogs'
  <2> DEFINE op == [key |-> k, del |-> del]
  <2>1. /\ ops' = Append(ops, op) /\ wlog' = Logged(active, Len(ops) + 1)
        /\ UNCHANGED <<walFiles, mem, active, imms, nextSeq>> /\ mode = "up"
        /\ wr.pc = "free" /\ wr'.pc # "swap"
        /\ \A g \in Seqs : g # active => wos'[g] = wos[g]
    <3>1. wos \in [Seqs -> Nat]
      BY <1>b DEF TypeOK, TypeDirectory
    <3>2. QED
      BY <1>3, <3>1 DEF Write, WriteSyncFails
  <2> HIDE DEF op
  <2>2. \A g \in Seqs \ {active} : wlog'[g] = wlog[g]
    BY <2>1, LogExtended
  <2>3. \A g \in imms : wos'[g] = Len(wlog'[g])
    BY <1>a, <2>1, <2>2
  <2>4. LiveGens' = LiveGens /\ LiveGens \subseteq walFiles'
    BY <1>a, <2>1 DEF LiveGens
  <2>5. QED
    BY <1>a, <1>w, <2>1, <2>3, <2>4 DEF LiveLogs, HasWrite
<1>4. ASSUME NEW freeze \in BOOLEAN, Apply(freeze) PROVE LiveLogs'
  <2>1. /\ UNCHANGED <<walFiles, wlog, wos, ops, active, imms, nextSeq>> /\ wr.pc = "apply"
        /\ mem' = [mem EXCEPT ![active] = [mem[active] EXCEPT ![ops[wr.w].key] = wr.w]]
        /\ mode = "up" /\ wr'.pc # "swap"
    <3>1. wr' = WrFree \/ wr' = [wr EXCEPT !.pc = "rotate"]
      BY <1>4 DEF Apply
    <3>2. wr'.pc # "swap"
      BY <1>b, <3>1 DEF WrFree, WrType, TypeOK, TypeProcess
    <3>3. QED
      BY <1>4, <1>b, <3>2 DEF Apply, walVars, TypeOK, TypeProcess
  <2>2. HasWrite(active, ops[wr.w].key, wr.w) /\ active \in Seqs
    BY <1>b, <2>1 DEF DurableInv, InHand, TypeOK, TypeHistory
  <2>3. LiveGens' = LiveGens /\ LiveGens \subseteq walFiles' /\ LiveGens \subseteq Seqs
    BY <1>a, <2>1 DEF LiveGens
  <2>4. ASSUME NEW g \in LiveGens, NEW k \in Keys, mem'[g][k] # 0
        PROVE  \E i \in Entries(g, k)' : wlog'[g][i] = mem'[g][k]
    <3>0. mem \in [Seqs -> [Keys -> Ids]]
      BY <1>b DEF TypeOK, TypeProcess, Table
    <3>1. CASE g = active /\ k = ops[wr.w].key
      <4>1. mem'[g][k] = wr.w
        BY <2>1, <2>2, <3>0, <3>1
      <4>2. QED
        BY <2>1, <2>2, <3>1, <4>1 DEF HasWrite, Entries
    <3>2. CASE ~ (g = active /\ k = ops[wr.w].key)
      <4>1. mem'[g][k] = mem[g][k]
        BY <2>1, <2>2, <2>3, <3>0, <3>2
      <4>2. QED
        BY <1>w, <2>1, <2>3, <2>4, <4>1
    <3>3. QED
      BY <3>1, <3>2
  <2>5. QED
    BY <1>a, <2>1, <2>3, <2>4 DEF LiveLogs, HasWrite
<1>5. CASE Rotate
  <2>1. /\ UNCHANGED <<wlog, wos, mem, active, imms, ops>> /\ mode = "up" /\ nextSeq \in Seqs
        /\ nextSeq' = nextSeq + 1 /\ walFiles' = walFiles \cup {nextSeq}
        /\ wr'.pc = "swap" /\ wr'.new = nextSeq
    BY <1>5, <1>b, BoundsAssumption DEF Rotate, ghosts, TypeOK, TypeProcess, CanAllocate, Seqs, WrType
  <2>2. wlog[nextSeq] = << >>
    BY <1>a, <2>1 DEF DurableInv, LogShape
  <2>3. LiveGens' = LiveGens /\ LiveGens \subseteq walFiles'
    BY <1>a, <2>1 DEF LiveGens
  <2>4. \A g \in walFiles' : g < nextSeq'
    BY <1>a, <2>1
  <2>5. QED
    BY <1>a, <1>w, <2>1, <2>2, <2>3, <2>4 DEF LiveLogs, HasWrite
<1>6. CASE Swap
  <2>1. /\ UNCHANGED <<walFiles, wlog, mem, nextSeq, ops>> /\ mode = "up" /\ wr.pc = "swap"
        /\ imms' = imms \cup {active} /\ active' = wr.new /\ wr'.pc = "free"
        /\ wos' = Drained(active) /\ active \in Seqs
    BY <1>6, <1>b DEF Swap, WrFree, TypeOK, TypeProcess
  <2>2. \A g \in imms' : wos'[g] = Len(wlog'[g])
    <3>1. wos \in [Seqs -> Nat]
      BY <1>b DEF TypeOK, TypeDirectory
    <3>2. QED
      BY <1>a, <2>1, <3>1 DEF Drained
  <2>3. LiveGens' = LiveGens \cup {wr.new} /\ LiveGens' \subseteq walFiles'
    BY <1>a, <2>1 DEF LiveGens
  <2>4. mem[wr.new] = EmptyTable
    BY <2>1
  <2>5. \A g \in LiveGens', k \in Keys : mem'[g][k] # 0 => g \in LiveGens /\ mem[g][k] # 0
    BY <2>1, <2>3, <2>4 DEF EmptyTable
  <2>6. QED
    BY <1>a, <1>w, <2>1, <2>2, <2>3, <2>5 DEF LiveLogs, HasWrite
<1>7. CASE FlushCommit
  <2>1. /\ UNCHANGED <<walFiles, wlog, wos, ops, active, nextSeq, wr>> /\ mode = "up"
        /\ imms' = imms \ {fl.gen} /\ mem' = [mem EXCEPT ![fl.gen] = EmptyTable]
    BY <1>7 DEF FlushCommit, StillFrozen, dirVars, ghosts, Inv, Quiet
  <2>2. \A g \in Seqs, k \in Keys : mem'[g][k] # 0 => mem'[g][k] = mem[g][k]
    <3>1. mem \in [Seqs -> Table]
      BY <1>b DEF TypeOK, TypeProcess
    <3>2. QED
      BY <2>1, <3>1 DEF EmptyTable
  <2>3. LiveGens' \subseteq LiveGens /\ LiveGens' \subseteq walFiles' /\ LiveGens \subseteq Seqs
    BY <1>a, <2>1 DEF LiveGens
  <2>4. \A g \in LiveGens', k \in Keys : mem'[g][k] # 0 => mem[g][k] # 0 /\ mem'[g][k] = mem[g][k]
    BY <2>2, <2>3
  <2>5. QED
    BY <1>a, <1>w, <2>1, <2>3, <2>4 DEF LiveLogs, HasWrite
<1>8. CASE FlushUnlink \/ CleanOld
  <2>1. PICK m : /\ UnlinkWal(m) /\ \A g \in LiveGens : m < g
    BY <1>8, UnlinkedIsNotLive DEF FlushUnlink, CleanOld, OldestGen, NoLosingFaults
  <2>2. /\ mode # "down" /\ UNCHANGED <<mem, active, imms, nextSeq, wr, ops>>
    BY <1>8, UnlinkedIsNotLive DEF FlushUnlink, CleanOld, ghosts
  <2>3. /\ walFiles' = walFiles \ {m}
        /\ \A h \in Seqs : h # m => wlog'[h] = wlog[h] /\ wos'[h] = wos[h]
    BY <1>b, <2>1, LogUnlinked
  <2>4. m \notin LiveGens /\ active \in LiveGens /\ m < active
    BY <2>1, <2>2 DEF LiveGens
  <2>5. LiveGens' = LiveGens /\ LiveGens \subseteq walFiles'
    BY <1>a, <2>2, <2>3, <2>4 DEF LiveGens
  <2>6. wr.pc = "swap" => wr.new # m
    BY <2>1, <2>2, <2>4
  <2>7. \A g \in imms : wos'[g] = Len(wlog'[g])
    BY <1>a, <2>2, <2>3, <2>4 DEF LiveGens
  <2>8. wr.pc = "swap" => wr.new \in walFiles' /\ wlog'[wr.new] = << >>
    BY <1>a, <2>2, <2>3, <2>6
  <2>9. QED
    BY <1>a, <1>w, <2>2, <2>3, <2>5, <2>7, <2>8 DEF LiveLogs, HasWrite
<1>9. CASE Recover
  <2>1. LogShape
    BY DEF DurableInv
  <2>2. /\ active' \in Seqs /\ nextSeq' = active' + 1
        /\ \A g \in walFiles : g < active'
        /\ walFiles' = walFiles \cup {active'}
        /\ imms' = {} /\ LiveGens' = {active'}
        /\ \A k \in Keys :
             /\ mem'[active'][k] = Replayed(k)
             /\ Replayed(k) # 0 => \E i \in Entries(active, k)' : wlog'[active'][i] = Replayed(k)
    BY <1>9, <2>1, RecoverLog
  <2>3. wr'.pc = "free"
    BY <1>9 DEF Recover, Inv, Quiet
  <2>4. \A g \in walFiles' : g < nextSeq'
    BY <2>2
  <2>5. QED
    BY <2>2, <2>3, <2>4 DEF LiveLogs, HasWrite
<1>10. QED
  BY <1>1, <1>2, <1>3, <1>4, <1>5, <1>6, <1>7, <1>8, <1>9

-----------------------------------------------------------------------------
(* The two mutexes.                                                        *)

\* flush() holds the WAL mutex while it freezes and waits for flush_lock after it.
LEMMA CallsInOrderNext ==
    ASSUME Inv, CallsInOrder, [Next]_vars PROVE CallsInOrder'
<1>0. /\ calls \in [Clients -> {"idle", "sync", "drain", "compact"}]
      /\ wr \in WrType /\ fl \in FlType
      /\ wr.pc # "free" \/ fl.pc # "free" => mode = "up"
      /\ wr.pc = "apply" => wr.by = "put"
  BY DEF Inv, TypeOK, TypeProcess, TypeHistory, Quiet
<1>a. /\ \A c \in Clients : calls[c] = "sync" => wr.by = c /\ wr.pc \in {"rotate", "swap"}
      /\ wr.pc \in {"rotate", "swap"} /\ wr.by # "put" =>
           wr.by \in Clients /\ calls[wr.by] = "sync"
      /\ fl.pc \in {"drain", "commit", "unlink", "ok"} /\ fl.by \in Clients =>
           calls[fl.by] = "drain"
      /\ fl.pc \in {"merged", "record", "sweep"} /\ fl.by \in Clients =>
           calls[fl.by] = "compact"
      /\ mode # "up" => \A c \in Clients : calls[c] = "idle"
  BY DEF CallsInOrder
<1>b. "put" \notin Clients /\ "worker" \notin Clients /\ "none" \notin Clients
  BY ClientsAssumption
<1> USE DEF WrType, FlType
<1>1. CASE UNCHANGED <<calls, wr, fl, mode>>
  BY <1>a, <1>1 DEF CallsInOrder
<1>2. CASE WritePath
  <2>1. ASSUME NEW k \in Keys, NEW del \in BOOLEAN, Write(k, del) \/ WriteSyncFails(k, del)
        PROVE  CallsInOrder'
    BY <1>0, <1>a, <2>1 DEF CallsInOrder, Write, WriteSyncFails
  <2>2. ASSUME NEW freeze \in BOOLEAN, Apply(freeze) PROVE CallsInOrder'
    BY <1>0, <1>a, <1>b, <2>2 DEF CallsInOrder, Apply, WrFree
  <2>3. ASSUME NEW c \in Clients, FlushSync(c) PROVE CallsInOrder'
    BY <1>0, <1>a, <1>b, <2>3 DEF CallsInOrder, FlushSync
  <2>4. CASE Rotate
    BY <1>0, <1>a, <2>4 DEF CallsInOrder, Rotate
  <2>5. CASE RotateFails
    BY <1>0, <1>a, <1>b, <2>5 DEF CallsInOrder, RotateFails, WrFree
  <2>6. CASE Swap
    BY <1>0, <1>a, <1>b, <2>6 DEF CallsInOrder, Swap, WrFree
  <2>7. QED
    BY <1>2, <2>1, <2>2, <2>3, <2>4, <2>5, <2>6 DEF WritePath
<1>r. ASSUME NEW n, Release(n), UNCHANGED <<wr, mode>>, fl.pc # "free", calls[fl.by] # "sync" \/ fl.by \notin Clients
      PROVE CallsInOrder'
  BY <1>0, <1>a, <1>b, <1>r DEF CallsInOrder, Release, FlFree
<1>3. CASE FlushPipeline
  <2>1. ASSUME NEW p \in Clients \cup {"worker"}, FlushBegin(p) PROVE CallsInOrder'
    BY <1>0, <1>a, <1>b, <2>1 DEF CallsInOrder, FlushBegin, FlFree
  <2>2. CASE FlushBuild \/ FlushCommit \/ FlushNothing \/ FlushManifest \/ FlushUnlink
    <3>1. /\ UNCHANGED <<calls, wr, mode>> /\ fl'.by = fl.by
          /\ fl.pc \in {"drain", "commit", "unlink", "ok"}
          /\ fl'.pc \in {"drain", "commit", "unlink", "ok"}
      BY <1>0, <2>2 DEF FlushBuild, FlushCommit, FlushNothing, FlushManifest, FlushUnlink
    <3>2. QED
      BY <1>a, <3>1 DEF CallsInOrder
  <2>3. CASE FlushBuildFails \/ FlushManifestFails \/ FlushReturn
    BY <1>0, <1>a, <1>r, <2>3 DEF FlushBuildFails, FlushManifestFails, FlushReturn
  <2>4. QED
    BY <1>3, <2>1, <2>2, <2>3 DEF FlushPipeline
<1>4. CASE Compaction
  <2>1. ASSUME NEW p \in Clients \cup {"worker"}, CompactBuild(p) \/ CompactBuildFails(p)
        PROVE CallsInOrder'
    <3>1. CASE CompactBuildFails(p)
      BY <1>0, <1>a, <3>1 DEF CallsInOrder, CompactBuildFails
    <3>2. CASE CompactBuild(p)
      <4>1. /\ UNCHANGED <<wr, mode>> /\ fl'.pc = "merged" /\ fl'.by = p /\ mode = "up"
            /\ calls' = IF p = "worker" THEN calls ELSE [calls EXCEPT ![p] = "compact"]
            /\ p \in Clients => calls[p] = "idle"
        BY <1>b, <3>2 DEF CompactBuild, CompactCaller, FlFree
      <4>2. QED
        BY <1>0, <1>a, <1>b, <4>1 DEF CallsInOrder
    <3>3. QED
      BY <2>1, <3>1, <3>2
  <2>2. CASE CompactNothing
    BY <1>a, <2>2 DEF CallsInOrder, CompactNothing
  <2>3. CASE CompactCommit \/ CompactManifest \/ (\E l \in Levels : CompactUnlink(l))
    <3>1. /\ UNCHANGED <<calls, wr, mode>> /\ fl'.pc \in {"record", "sweep"}
          /\ fl.pc \in {"merged", "record", "sweep"} /\ fl'.by = fl.by
      BY <1>0, <2>3 DEF CompactCommit, CompactManifest, CompactUnlink
    <3>2. QED
      BY <1>a, <3>1 DEF CallsInOrder
  <2>4. CASE CompactManifestFails \/ CompactReturn
    BY <1>0, <1>a, <1>r, <2>4 DEF CompactManifestFails, CompactReturn
  <2>5. QED
    BY <1>4, <2>1, <2>2, <2>3, <2>4 DEF Compaction
<1>5. CASE Worker
  BY <1>1, <1>5 DEF Worker, WorkerRecv, WorkerCheck
<1>6. CASE Lifecycle
  BY <1>0, <1>a, <1>6 DEF CallsInOrder, Lifecycle, Close, Crash, Recover, Reback, RebackFails,
       CleanOld, ProcessGone, WrFree, FlFree
<1>7. QED
  BY <1>1, <1>2, <1>3, <1>4, <1>5, <1>6 DEF Next, vars

\* The generations to delete stay older than those in memory.
LEMMA TodoOlderNext ==
    ASSUME Inv, TodoOlder, [Next]_vars PROVE TodoOlder'
<1>0. /\ wr \in WrType /\ fl \in FlType
      /\ fl.pc # "free" => mode = "up"
  BY DEF Inv, TypeOK, TypeProcess, Quiet
<1>a. /\ fl.pc \notin {"drain", "commit", "unlink"} => fl.todo = {}
      /\ fl.pc = "unlink" => fl.todo # {}
      /\ \A t \in fl.todo, g \in LiveGens : t < g
  BY DEF TodoOlder
<1>1. CASE /\ fl'.todo = fl.todo /\ LiveGens' = LiveGens
           /\ fl'.pc = fl.pc \/ (fl'.pc = "unlink" /\ fl.todo # {})
                \/ (fl'.pc # "unlink" /\ fl.todo = {})
                \/ (fl'.pc \in {"drain", "commit"})
  BY <1>a, <1>1 DEF TodoOlder
<1>2. CASE fl'.todo = {} /\ fl'.pc # "unlink"
  BY <1>2 DEF TodoOlder
<1>3. CASE Swap
  <2>1. /\ wr.pc = "swap" /\ imms' = imms \cup {active} /\ active' = wr.new /\ fl' = fl
    BY <1>3 DEF Swap
  <2>2. LiveGens' = LiveGens \cup {wr.new} /\ active \in LiveGens /\ active < wr.new
    BY <2>1, Numbers DEF LiveGens
  <2>3. \A t \in fl.todo : t \in Nat /\ t < active
    BY <1>a, <2>2, Numbers
  <2>4. \A t \in fl.todo : t < wr.new
    BY <2>1, <2>2, <2>3, Numbers
  <2>5. QED
    BY <1>a, <2>1, <2>2, <2>4 DEF TodoOlder
<1>4. CASE FlushCommit
  <2>1. /\ fl.pc = "commit" /\ imms' = imms \ {fl.gen} /\ active' = active
        /\ fl'.pc = "drain" /\ fl'.todo = fl.todo \cup {fl.gen} /\ mode = "up"
    BY <1>0, <1>4 DEF FlushCommit, Flushed, StillFrozen, FlType
  <2>2. fl.gen \in imms /\ \A g \in imms : fl.gen <= g
    BY <2>1 DEF Inv, FlushInFlight
  <2>3. LiveGens' = LiveGens \ {fl.gen} /\ \A g \in LiveGens' : fl.gen < g
    BY <2>1, <2>2, Numbers DEF LiveGens
  <2>4. QED
    BY <1>a, <2>1, <2>3 DEF TodoOlder
<1>5. CASE FlushUnlink
  <2>1. /\ fl.pc = "unlink" /\ fl'.todo = fl.todo \ {OldestGen(fl.todo)}
        /\ fl'.pc = IF fl.todo = {OldestGen(fl.todo)} THEN "ok" ELSE "unlink"
        /\ UNCHANGED <<active, imms>> /\ LiveGens' = LiveGens
    BY <1>0, <1>5 DEF FlushUnlink, FlType, LiveGens
  <2>2. fl.todo # {}
    BY <1>a, <2>1
  <2>3. QED
    BY <1>a, <2>1, <2>2 DEF TodoOlder
<1>6. CASE WritePath
  <2>1. UNCHANGED <<fl, active, imms>> \/ Swap
    BY <1>6 DEF WritePath, Write, WriteSyncFails, Apply, FlushSync, Rotate, RotateFails
  <2>2. QED
    BY <1>1, <1>3, <2>1 DEF LiveGens
<1>7. CASE FlushPipeline
  <2>1. CASE \E p \in Clients \cup {"worker"} : FlushBegin(p)
    BY <1>2, <2>1 DEF FlushBegin, FlFree
  <2>2. CASE FlushBuildFails \/ FlushManifestFails \/ FlushReturn
    BY <1>2, <2>2 DEF FlushBuildFails, FlushManifestFails, FlushReturn, Release, FlFree
  <2>3. CASE FlushBuild \/ FlushNothing \/ FlushManifest
    BY <1>0, <1>1, <2>3 DEF FlushBuild, FlushNothing, FlushManifest, FlType, LiveGens
  <2>4. QED
    BY <1>4, <1>5, <1>7, <2>1, <2>2, <2>3 DEF FlushPipeline
<1>8. CASE Compaction
  <2>1. CASE \E p \in Clients \cup {"worker"} : CompactBuild(p)
    BY <1>2, <2>1 DEF CompactBuild, FlFree
  <2>2. CASE CompactManifestFails \/ CompactReturn
    BY <1>2, <2>2 DEF CompactManifestFails, CompactReturn, Release, FlFree
  <2>3. CASE CompactCommit \/ CompactManifest \/ (\E l \in Levels : CompactUnlink(l))
    <3>1. fl'.todo = fl.todo /\ fl'.pc \in {"record", "sweep"} /\ fl.pc \in {"merged", "record", "sweep"}
      BY <1>0, <2>3 DEF CompactCommit, CompactManifest, CompactUnlink, FlType
    <3>2. QED
      BY <1>2, <1>a, <3>1
  <2>4. CASE CompactNothing \/ (\E p \in Clients \cup {"worker"} : CompactBuildFails(p))
    BY <1>1, <2>4 DEF CompactNothing, CompactBuildFails, LiveGens
  <2>5. QED
    BY <1>8, <2>1, <2>2, <2>3, <2>4 DEF Compaction
<1>9. CASE Worker
  BY <1>1, <1>9 DEF Worker, WorkerRecv, WorkerCheck, LiveGens
<1>10. CASE Lifecycle
  <2>1. fl'.todo = {} /\ fl'.pc # "unlink"
    <3>1. CASE Close \/ (\E kind \in CrashKinds : Crash(kind)) \/ RebackFails
      BY <3>1 DEF Close, Crash, RebackFails, ProcessGone, FlFree
    <3>2. CASE Recover \/ Reback \/ CleanOld
      BY <1>0, <1>a, <3>2 DEF Recover, Reback, CleanOld
    <3>3. QED
      BY <1>10, <3>1, <3>2 DEF Lifecycle
  <2>2. QED
    BY <1>2, <2>1
<1>11. QED
  BY <1>1, <1>6, <1>7, <1>8, <1>9, <1>10 DEF Next, vars, LiveGens

\* The MANIFEST falls behind only between a commit and its record.
LEMMA ManifestLagsNext ==
    ASSUME NoLosingFaults, Inv, TodoOlder, ManifestLags, [Next]_vars PROVE ManifestLags'
<1>0. /\ fl \in FlType
      /\ fl.pc # "free" => mode = "up"
      /\ fl.pc = "sweep" => manifest = levels
      /\ "manifest_write" \notin Faults /\ "sst_write" \notin Faults
  BY DEF Inv, TypeOK, TypeProcess, Quiet, InputsRetired, NoLosingFaults
<1>a. /\ mode # "down" /\ manifest # levels =>
           fl.pc = "record" \/ (fl.pc \in {"drain", "commit"} /\ fl.todo # {})
      /\ fl.pc \notin {"drain", "commit", "unlink"} => fl.todo = {}
  BY DEF ManifestLags, TodoOlder
<1>1. CASE (UNCHANGED <<fl, manifest, levels>> /\ mode # "down") \/ mode' = "down"
  BY <1>a, <1>1 DEF ManifestLags
<1>2. CASE manifest' = levels' \/ mode' = "down"
  BY <1>2 DEF ManifestLags
<1>3. CASE WritePath
  <2>1. UNCHANGED <<fl, manifest, levels, mode>>
    BY <1>3 DEF WritePath, Write, WriteSyncFails, Apply, FlushSync, Rotate, RotateFails, Swap, sstVars
  <2>2. QED
    BY <1>a, <2>1 DEF ManifestLags
<1>4. CASE FlushPipeline
  <2>1. CASE \E p \in Clients \cup {"worker"} : FlushBegin(p)
    BY <1>2, <1>a, <2>1 DEF FlushBegin, dirVars
  <2>2. CASE FlushReturn
    BY <1>0, <1>2, <1>a, <2>2 DEF FlushReturn, dirVars
  <2>3. CASE FlushBuild
    BY <1>0, <1>a, <2>3 DEF FlushBuild, FlType, ManifestLags
  <2>4. CASE FlushCommit
    BY <1>0, <2>4 DEF FlushCommit, FlType, ManifestLags, Flushed
  <2>5. CASE FlushNothing
    BY <1>0, <1>2, <1>a, <2>5 DEF FlushNothing, dirVars
  <2>6. CASE FlushManifest
    BY <1>2, <2>6 DEF FlushManifest, LiveManifest
  <2>7. CASE FlushUnlink
    BY <1>0, <1>2, <1>a, <2>7 DEF FlushUnlink, sstVars
  <2>8. QED
    BY <1>0, <1>4, <2>1, <2>2, <2>3, <2>4, <2>5, <2>6, <2>7 DEF FlushPipeline,
       FlushBuildFails, FlushManifestFails
<1>5. CASE Compaction
  <2>1. CASE \E p \in Clients \cup {"worker"} : CompactBuild(p)
    BY <1>2, <1>a, <2>1 DEF CompactBuild, CompactCaller
  <2>2. CASE CompactReturn
    BY <1>0, <1>2, <2>2 DEF CompactReturn, dirVars
  <2>3. CASE CompactCommit
    BY <1>0, <2>3 DEF CompactCommit, FlType, ManifestLags
  <2>4. CASE CompactManifest
    BY <1>2, <2>4 DEF CompactManifest, LiveManifest
  <2>5. ASSUME NEW l \in Levels, CompactUnlink(l) PROVE ManifestLags'
    BY <1>0, <1>2, <2>5 DEF CompactUnlink
  <2>6. CASE CompactNothing
    BY <1>1, <1>a, <2>6 DEF CompactNothing, CompactCaller, dirVars
  <2>7. QED
    BY <1>0, <1>5, <2>1, <2>2, <2>3, <2>4, <2>5, <2>6 DEF Compaction, CompactManifestFails,
       CompactBuildFails
<1>6. CASE Worker
  BY <1>a, <1>6 DEF Worker, WorkerRecv, WorkerCheck, dirVars, ManifestLags
<1>7. CASE Lifecycle
  BY <1>1, <1>2, <1>7 DEF Lifecycle, Close, Crash, RebackFails, ProcessGone, Recover, Reback,
     CleanOld, sstVars
<1>8. CASE UNCHANGED vars
  BY <1>a, <1>8 DEF vars, ManifestLags
<1>9. QED
  BY <1>3, <1>4, <1>5, <1>6, <1>7, <1>8 DEF Next

\* Every log on disk keeps an owner that will delete it.
LEMMA LogsAccountedNext ==
    ASSUME NoLosingFaults, Inv, TodoOlder, LogsAccounted, [Next]_vars PROVE LogsAccounted'
<1> DEFINE new == IF wr.pc = "swap" THEN {wr.new} ELSE {}
           Owners == LiveGens \cup fl.todo \cup new
<1>0. /\ wr \in WrType /\ fl \in FlType
      /\ wr.pc # "free" \/ fl.pc # "free" => mode = "up"
      /\ fl.pc \notin {"drain", "commit", "unlink"} => fl.todo = {}
      /\ "manifest_write" \notin Faults /\ "sst_write" \notin Faults /\ "wal_unlink" \notin Faults
  BY DEF Inv, TypeOK, TypeProcess, Quiet, TodoOlder, NoLosingFaults
<1>a. /\ mode = "up" => walFiles \subseteq Owners
      /\ mode \in {"reback", "clean"} => walFiles \subseteq stale \cup {active}
      /\ mode \in {"reback", "clean"} => \A g \in stale : g < active
      /\ mode = "clean" => stale # {}
      /\ mode = "up" => stale = {}
  BY DEF LogsAccounted, NoStrayWal, LiveGens
<1>1. CASE mode' = "down"
  BY <1>1 DEF LogsAccounted, NoStrayWal
<1>2. CASE /\ mode = "up" /\ mode' = "up" /\ stale' = stale
           /\ walFiles' \subseteq LiveGens' \cup fl'.todo \cup new'
  BY <1>a, <1>2 DEF LogsAccounted, NoStrayWal, LiveGens
<1>3. CASE WritePath
  <2>1. mode = "up" /\ mode' = mode /\ stale' = stale /\ fl' = fl
    BY <1>0, <1>3 DEF WritePath, Write, WriteSyncFails, Apply, FlushSync, Rotate, RotateFails, Swap
  <2>2. CASE Rotate
    <3>1. /\ walFiles' = walFiles \cup {nextSeq} /\ wr'.pc = "swap" /\ wr'.new = nextSeq
          /\ wr.pc = "rotate" /\ LiveGens' = LiveGens
      BY <1>0, <2>2 DEF Rotate, LiveGens, WrType
    <3>2. QED
      BY <1>2, <1>a, <2>1, <3>1
  <2>3. CASE Swap
    <3>1. /\ walFiles' = walFiles /\ wr.pc = "swap" /\ LiveGens' = LiveGens \cup {wr.new}
      BY <2>3 DEF Swap, LiveGens
    <3>2. QED
      BY <1>2, <1>a, <2>1, <3>1
  <2>4. CASE ~ Rotate /\ ~ Swap
    <3>1. UNCHANGED <<walFiles, imms, active>> /\ wr.pc # "swap"
      BY <1>3, <2>4 DEF WritePath, Write, WriteSyncFails, Apply, FlushSync, RotateFails, walVars
    <3>2. LiveGens' = LiveGens
      BY <3>1 DEF LiveGens
    <3>3. QED
      BY <1>2, <1>a, <2>1, <3>1, <3>2
  <2>5. QED
    BY <2>2, <2>3, <2>4
<1>4. CASE FlushPipeline
  <2>1. mode = "up" /\ mode' = mode /\ stale' = stale /\ wr' = wr
    BY <1>0, <1>4 DEF FlushPipeline, FlushBegin, FlushBuild, FlushBuildFails, FlushCommit,
       FlushNothing, FlushManifest, FlushManifestFails, FlushUnlink, FlushReturn
  <2>2. CASE FlushCommit
    <3>1. walFiles' = walFiles /\ fl'.todo = fl.todo \cup {fl.gen} /\ imms' = imms \ {fl.gen} /\ active' = active
      BY <1>0, <2>2 DEF FlushCommit, FlType, Flushed, StillFrozen, dirVars
    <3>2. LiveGens \subseteq LiveGens' \cup {fl.gen}
      BY <3>1 DEF LiveGens
    <3>3. QED
      BY <1>2, <1>a, <2>1, <3>1, <3>2
  <2>3. CASE FlushUnlink
    <3>1. /\ walFiles' = walFiles \ {OldestGen(fl.todo)} /\ fl'.todo = fl.todo \ {OldestGen(fl.todo)}
          /\ UNCHANGED <<imms, active>>
      BY <1>0, <2>3 DEF FlushUnlink, FlType, UnlinkWal
    <3>2. LiveGens' = LiveGens
      BY <3>1 DEF LiveGens
    <3>3. QED
      BY <1>2, <1>a, <2>1, <3>1, <3>2
  <2>4. CASE ~ FlushCommit /\ ~ FlushUnlink
    <3>1. UNCHANGED <<walFiles, imms, active>>
      BY <1>4, <2>4 DEF FlushPipeline, FlushBegin, FlushBuild, FlushBuildFails, FlushCommit,
         FlushNothing, FlushManifest, FlushManifestFails, FlushReturn, walVars, dirVars
    <3>2. fl'.todo = fl.todo
      <4>1. CASE FlushBuild \/ FlushNothing \/ FlushManifest
        BY <1>0, <4>1 DEF FlushBuild, FlushNothing, FlushManifest, FlType
      <4>2. CASE FlushReturn \/ \E p \in Clients \cup {"worker"} : FlushBegin(p)
        <5>1. fl.pc \in {"free", "ok"}
          BY <4>2 DEF FlushReturn, FlushBegin
        <5>2. fl'.todo = {}
          <6>1. CASE FlushReturn
            BY <6>1 DEF FlushReturn, Release, FlFree
          <6>2. ASSUME NEW p \in Clients \cup {"worker"}, FlushBegin(p) PROVE fl'.todo = {}
            BY <6>2 DEF FlushBegin, FlFree
          <6>3. QED
            BY <4>2, <6>1, <6>2
        <5>3. QED
          BY <1>0, <5>1, <5>2
      <4>3. QED
        BY <1>0, <1>4, <2>4, <4>1, <4>2 DEF FlushPipeline, FlushBuildFails, FlushManifestFails
    <3>3. LiveGens' = LiveGens
      BY <3>1 DEF LiveGens
    <3>4. QED
      BY <1>2, <1>a, <2>1, <3>1, <3>2, <3>3
  <2>5. QED
    BY <2>2, <2>3, <2>4
<1>5. CASE Compaction
  <2>1. mode = "up" /\ mode' = mode /\ UNCHANGED <<stale, wr, walFiles, imms, active>>
    BY <1>0, <1>5 DEF Compaction, CompactBuild, CompactBuildFails, CompactNothing,
         CompactCommit, CompactManifest, CompactManifestFails, CompactUnlink,
         CompactReturn, CompactCaller, dirVars, walVars
  <2>2. fl'.todo = fl.todo
    <3>1. CASE \E p \in Clients \cup {"worker"} : CompactBuild(p)
      BY <1>0, <3>1 DEF CompactBuild, CompactCaller, FlFree
    <3>2. CASE CompactReturn
      BY <1>0, <3>2 DEF CompactReturn, Release, FlFree
    <3>3. CASE CompactCommit \/ CompactManifest \/ (\E l \in Levels : CompactUnlink(l))
      <4>1. CASE CompactCommit
        BY <1>0, <4>1 DEF CompactCommit, FlType
      <4>2. CASE CompactManifest
        BY <1>0, <4>2 DEF CompactManifest, FlType
      <4>3. CASE \E l \in Levels : CompactUnlink(l)
        BY <1>0, <4>3 DEF CompactUnlink, FlType
      <4>4. QED
        BY <3>3, <4>1, <4>2, <4>3
    <3>4. QED
      BY <1>0, <1>5, <3>1, <3>2, <3>3 DEF Compaction, CompactBuildFails, CompactManifestFails, CompactNothing
  <2>3. LiveGens' = LiveGens
    BY <2>1 DEF LiveGens
  <2>4. QED
    BY <1>2, <1>a, <2>1, <2>2, <2>3
<1>6. CASE Worker \/ UNCHANGED vars
  <2>1. UNCHANGED <<walFiles, mode, imms, active, stale, wr, fl>>
    BY <1>6 DEF Worker, WorkerRecv, WorkerCheck, vars, dirVars
  <2>2. QED
    BY <2>1 DEF LogsAccounted, NoStrayWal
<1>7. CASE Recover
  <2>1. /\ walFiles' = walFiles \cup {active'} /\ stale' = walFiles /\ mode' = "reback"
        /\ active' = RecoveredSeq
    BY <1>7 DEF Recover
  <2>2. \A s \in walFiles : s < active'
    BY <2>1, RecoveredSeqAbove DEF KnownSeqs, Inv, TypeOK
  <2>3. QED
    BY <2>1, <2>2 DEF LogsAccounted, NoStrayWal
<1>8. CASE Reback
  <2>1. /\ mode = "reback" /\ UNCHANGED <<walFiles, stale, active, imms, fl, wr>>
        /\ mode' = IF stale = {} THEN "up" ELSE "clean"
    BY <1>8 DEF Reback
  <2>2. QED
    BY <1>a, <2>1 DEF LogsAccounted, NoStrayWal
<1>9. CASE CleanOld
  <2>1. /\ mode = "clean" /\ UNCHANGED <<active, imms, fl, wr>>
        /\ walFiles' = walFiles \ {OldestGen(stale)} /\ stale' = stale \ {OldestGen(stale)}
        /\ mode' = IF stale' = {} THEN "up" ELSE "clean"
    BY <1>0, <1>9 DEF CleanOld, UnlinkWal
  <2>2. QED
    BY <1>a, <2>1 DEF LogsAccounted, NoStrayWal
<1>10. QED
  <2>1. CASE Lifecycle
    BY <1>1, <1>7, <1>8, <1>9, <2>1 DEF Lifecycle, Close, Crash, RebackFails, ProcessGone
  <2>2. QED
    BY <1>3, <1>4, <1>5, <1>6, <2>1 DEF Next

\* The write in hand stays the newest, and logged.
LEMMA InHandNext ==
    ASSUME Inv, Inv', LogShape, LiveLogs, LiveLogs', InHand, [Next]_vars PROVE InHand'
<1>0. /\ wr \in WrType /\ "put" \notin Clients
      /\ wr.pc # "free" => mode = "up"
      /\ wr.pc = "apply" => wr.by = "put"
      /\ wr.by = "put" => wr.w \in 1 .. Len(ops)
      /\ TypeOK /\ Len(ops) \in Nat
  BY Numbers, ClientsAssumption DEF Inv, TypeOK, TypeProcess, TypeHistory, Quiet
<1>a. wr.pc # "free" /\ wr.by = "put" =>
        /\ wr.w = Len(ops)
        /\ HasWrite(active, ops[wr.w].key, wr.w)
        /\ SyncPerWrite => SafeHit("power", active, ops[wr.w].key, wr.w)
        /\ wr.pc # "apply" => mem[active][ops[wr.w].key] = wr.w
  BY DEF InHand
<1>1. CASE wr'.pc = "free" \/ wr'.by # "put"
  BY <1>1 DEF InHand
<1>2. ASSUME wr.pc # "free", wr.by = "put", wr'.pc # "free", wr'.by = "put", wr'.w = wr.w, UNCHANGED <<ops, active>>,
             wr'.pc # "apply" => mem'[active][ops[wr.w].key] = wr.w
      PROVE  InHand'
  <2>1. PICK w, k, a : w = wr.w /\ k = ops[wr.w].key /\ a = active
    OBVIOUS
  <2>2. w \in 0 .. Len(ops) /\ mode = "up" /\ mode' = "up" /\ mode' # "down"
    BY <1>0, <1>2, <2>1 DEF Inv, TypeOK, TypeProcess
  <2>3. active \in walFiles /\ active \in walFiles'
    BY <1>2, <2>2 DEF LiveLogs, LiveGens
  <2>4. /\ HasWrite(a, k, w) => HasWrite(a, k, w)'
        /\ SafeHit("power", a, k, w) => SafeHit("power", a, k, w)'
    BY <2>1, <2>2, <2>3, LogKept DEF PromiseKinds
  <2>5. HasWrite(a, k, w)' /\ (SyncPerWrite => SafeHit("power", a, k, w)')
    BY <1>2, <1>a, <2>1, <2>4
  <2>6. QED
    BY <1>2, <1>a, <2>1, <2>5 DEF InHand, HasWrite, SafeHit, Entries, Safe
<1>3. ASSUME NEW k \in Keys, NEW del \in BOOLEAN, Write(k, del) PROVE InHand'
  <2> DEFINE op == [key |-> k, del |-> del]
             n == Len(wlog[active]) + 1
  <2>1. /\ ops' = Append(ops, op) /\ wlog' = Logged(active, Len(ops) + 1)
        /\ mode = "up" /\ active' = active /\ active \in Seqs
        /\ wr' = [pc |-> "apply", by |-> "put", w |-> Len(ops) + 1, new |-> 0]
        /\ SyncPerWrite => wsync' = [wsync EXCEPT ![active] = n]
    BY <1>0, <1>3 DEF Write, TypeOK, TypeProcess
  <2>2. op.key = k
    OBVIOUS
  <2> HIDE DEF op
  <2>3. /\ Len(wlog'[active]) = n /\ wlog'[active][n] = Len(ops) + 1
        /\ ops'[Len(ops) + 1] = op /\ Len(ops') = Len(ops) + 1 /\ n \in Nat /\ 1 <= n
    BY <2>1, LogExtended
  <2>4. SyncPerWrite => wsync'[active] = n
    BY <1>0, <2>1 DEF TypeOK, TypeDirectory
  <2> HIDE DEF n
  <2>5. n \in 1 .. Len(wlog'[active])
    BY <2>3
  <2>6. n \in Entries(active, k)'
    BY <2>1, <2>2, <2>3, <2>5 DEF Entries
  <2>7. wr'.pc = "apply" /\ wr'.w = Len(ops') /\ ops'[wr'.w].key = k
    BY <2>1, <2>2, <2>3
  <2>8. HasWrite(active, k, wr.w)'
    BY <2>1, <2>3, <2>6, <2>7 DEF HasWrite
  <2>9. SyncPerWrite => SafeHit("power", active, k, wr.w)'
    BY <1>0, <2>1, <2>3, <2>4, <2>6, <2>7 DEF SafeHit, Safe
  <2>10. QED
    BY <2>7, <2>8, <2>9 DEF InHand
<1>4. CASE WritePath
  <2>1. ASSUME NEW freeze \in BOOLEAN, Apply(freeze) PROVE InHand'
    <3>1. CASE wr' = WrFree
      BY <1>1, <3>1 DEF WrFree
    <3>2. CASE wr' = [wr EXCEPT !.pc = "rotate"]
      <4>1. wr'.pc = "rotate" /\ wr'.by = wr.by /\ wr'.w = wr.w /\ wr.pc = "apply" /\ wr.by = "put"
        BY <1>0, <2>1, <3>2 DEF WrType, Apply
      <4>2. UNCHANGED <<ops, active>>
        BY <2>1 DEF Apply
      <4>3. mem'[active][ops[wr.w].key] = wr.w
        <5>1. /\ mem \in [Seqs -> [Keys -> Ids]] /\ active \in Seqs /\ ops[wr.w].key \in Keys
          BY <1>0, <4>1, IssuedKeys DEF TypeOK, TypeProcess, Table
        <5>2. mem' = [mem EXCEPT ![active] = [mem[active] EXCEPT ![ops[wr.w].key] = wr.w]]
          BY <2>1 DEF Apply
        <5>3. QED
          BY <5>1, <5>2
      <4>4. QED
        BY <1>2, <4>1, <4>2, <4>3
    <3>3. QED
      BY <2>1, <3>1, <3>2 DEF Apply
  <2>2. ASSUME NEW c \in Clients, FlushSync(c) PROVE InHand'
    <3>1. wr'.pc = "free" \/ wr'.by = c
      BY <2>2 DEF FlushSync
    <3>2. QED
      BY <1>0, <1>1, <3>1
  <2>3. CASE Rotate
    <3>1. /\ wr'.by = wr.by /\ wr'.w = wr.w /\ UNCHANGED <<ops, active, mem>> /\ wr.pc = "rotate" /\ wr'.pc = "swap"
      BY <1>0, <2>3 DEF Rotate, WrType, ghosts
    <3>2. QED
      BY <1>1, <1>2, <1>a, <3>1
  <2>4. CASE RotateFails \/ Swap
    BY <1>1, <2>4 DEF RotateFails, Swap, WrFree
  <2>5. ASSUME NEW k \in Keys, NEW del \in BOOLEAN, WriteSyncFails(k, del) PROVE InHand'
    BY <1>1, <2>5 DEF WriteSyncFails
  <2>6. QED
    BY <1>3, <1>4, <2>1, <2>2, <2>3, <2>4, <2>5 DEF WritePath
<1>5. CASE wr' = wr /\ UNCHANGED <<ops, active>> /\ mem'[active] = mem[active]
  BY <1>1, <1>2, <1>a, <1>5
<1>6. CASE FlushPipeline
  <2>1. CASE FlushCommit
    <3>1. fl.gen \in imms /\ mode = "up"
      BY <2>1 DEF FlushCommit, Inv, FlushInFlight, Quiet
    <3>2. fl.gen # active /\ active \in Seqs
      BY <3>1, Numbers
    <3>3. mem' = [mem EXCEPT ![fl.gen] = EmptyTable] /\ wr' = wr /\ UNCHANGED <<ops, active>>
      BY <2>1 DEF FlushCommit, ghosts
    <3>4. mem'[active] = mem[active]
      BY <1>0, <3>2, <3>3 DEF TypeOK, TypeProcess
    <3>5. QED
      BY <1>5, <3>3, <3>4
  <2>2. QED
    BY <1>5, <1>6, <2>1 DEF FlushPipeline, FlushBegin, FlushBuild, FlushBuildFails,
       FlushNothing, FlushManifest, FlushManifestFails, FlushUnlink, FlushReturn, ghosts
<1>7. CASE Compaction \/ Worker
  BY <1>5, <1>7 DEF Compaction, CompactBuild, CompactBuildFails, CompactNothing,
       CompactCommit, CompactManifest, CompactManifestFails, CompactUnlink,
       CompactReturn, Worker, WorkerRecv, WorkerCheck, ghosts
<1>8. CASE Lifecycle
  <2>1. wr'.pc = "free"
    <3>1. CASE Close \/ (\E kind \in CrashKinds : Crash(kind)) \/ RebackFails
      BY <3>1 DEF Close, Crash, RebackFails, ProcessGone, WrFree
    <3>2. CASE Recover \/ Reback \/ CleanOld
      BY <1>0, <3>2 DEF Recover, Reback, CleanOld
    <3>3. QED
      BY <1>8, <3>1, <3>2 DEF Lifecycle
  <2>2. QED
    BY <1>1, <2>1
<1>9. QED
  BY <1>4, <1>5, <1>6, <1>7, <1>8 DEF Next, vars

\* The writes promised have been issued.
LEMMA PromisedIssuedNext ==
    ASSUME Inv, Inv', PromisedIssued, [Next]_vars PROVE PromisedIssued'
<1>0. /\ Len(ops) \in Nat /\ Len(ops') \in Nat
      /\ kv \in [Keys -> 0 .. Len(ops)]
      /\ durable \in [Keys -> Nat] /\ closed \in [Keys -> Nat] /\ acked \in [Keys -> Nat]
      /\ snap \in [Clients -> [Keys -> Nat]]
      /\ wr.by = "put" => wr.w \in 1 .. Len(ops) /\ ops[wr.w].key \in Keys
      /\ wr.pc = "apply" => wr.by = "put"
  <2>1. Ids \subseteq Nat
    BY BasicSets
  <2>2. durable \in Table /\ closed \in Table /\ acked \in Table /\ snap \in [Clients -> Table]
    BY DEF Inv, TypeOK, TypeHistory
  <2>3. \A t \in Table : t \in [Keys -> Nat]
    BY <2>1 DEF Table
  <2>4. snap \in [Clients -> [Keys -> Nat]]
    BY <2>2, <2>3
  <2>5. Len(ops) \in Nat /\ Len(ops') \in Nat
    BY DEF Inv, TypeOK, TypeHistory
  <2>6. QED
    BY <2>2, <2>3, <2>4, <2>5, IssuedKeys DEF Inv, TypeOK, TypeHistory, Issued
<1>a. /\ \A k \in Keys : durable[k] <= Len(ops) /\ closed[k] <= Len(ops)
      /\ \A c \in Clients, k \in Keys : snap[c][k] <= Len(ops)
      /\ SyncPerWrite => \A k \in Keys : acked[k] <= durable[k]
  BY DEF PromisedIssued
<1>e. \A k \in Keys : EmptyTable[k] = 0
  BY DEF EmptyTable
<1>1. CASE UNCHANGED <<durable, closed, snap, acked>> /\ Len(ops) <= Len(ops')
  BY <1>0, <1>a, <1>1 DEF PromisedIssued
<1>2. CASE UNCHANGED <<durable, acked, ops>> /\ snap' = [c \in Clients |-> EmptyTable] /\ closed' \in {closed, kv}
  <2>1. \A c \in Clients, k \in Keys : snap'[c][k] = 0
    BY <1>e, <1>2
  <2>2. \A k \in Keys : closed'[k] <= Len(ops)
    <3>1. \A k \in Keys : kv[k] <= Len(ops)
      BY <1>0
    <3>2. QED
      BY <1>a, <1>2, <3>1
  <2>3. \A c \in Clients, k \in Keys : snap'[c][k] <= Len(ops)
    BY <1>0, <2>1
  <2>4. QED
    BY <1>a, <1>2, <2>2, <2>3 DEF PromisedIssued
<1>3. CASE Acknowledge(wr.w) /\ wr.by = "put" /\ UNCHANGED <<ops, closed, snap>>
  <2>1. wr.w \in Nat /\ wr.w <= Len(ops)
    BY <1>0, <1>3
  <2>2. \A k \in Keys : /\ acked'[k] = IF k = ops[wr.w].key THEN wr.w ELSE acked[k]
                        /\ durable'[k] = IF SyncPerWrite /\ k = ops[wr.w].key THEN wr.w ELSE durable[k]
    BY <1>0, <1>3 DEF Acknowledge
  <2>3. \A k \in Keys : durable'[k] <= Len(ops)
    BY <1>a, <2>1, <2>2
  <2>4. SyncPerWrite => \A k \in Keys : acked'[k] <= durable'[k]
    BY <1>a, <2>1, <2>2
  <2>5. QED
    BY <1>3, <1>a, <2>3, <2>4 DEF PromisedIssued
<1>4. CASE WritePath
  <2>1. ASSUME NEW k \in Keys, NEW del \in BOOLEAN, Write(k, del) \/ WriteSyncFails(k, del)
        PROVE  PromisedIssued'
    <3>1. ops' = Append(ops, [key |-> k, del |-> del]) /\ UNCHANGED <<durable, closed, snap, acked>>
      BY <2>1 DEF Write, WriteSyncFails, promises
    <3>2. Len(ops') = Len(ops) + 1
      BY <3>1 DEF Inv, TypeOK, TypeHistory
    <3>3. QED
      BY <1>0, <1>1, <3>1, <3>2
  <2>2. ASSUME NEW freeze \in BOOLEAN, Apply(freeze) PROVE PromisedIssued'
    <3>1. wr.pc = "apply" /\ UNCHANGED <<ops, closed, snap>> /\ (UNCHANGED <<acked, durable>> \/ Acknowledge(wr.w))
      BY <2>2 DEF Apply
    <3>2. Len(ops) <= Len(ops')
      BY <1>0, <3>1
    <3>3. QED
      BY <1>0, <1>1, <1>3, <3>1, <3>2
  <2>3. ASSUME NEW c \in Clients, FlushSync(c) PROVE PromisedIssued'
    <3>1. snap' = [snap EXCEPT ![c] = kv] /\ UNCHANGED <<ops, closed, durable, acked>>
      BY <2>3 DEF FlushSync, promises
    <3>2. \A b \in Clients, k \in Keys : snap'[b][k] <= Len(ops)
      BY <1>0, <1>a, <3>1
    <3>3. QED
      BY <1>a, <3>1, <3>2 DEF PromisedIssued
  <2>4. CASE Rotate \/ RotateFails
    BY <1>0, <1>1, <2>4 DEF Rotate, RotateFails, ghosts
  <2>5. CASE Swap
    <3>1. UNCHANGED <<ops, closed, snap>> /\ (UNCHANGED <<acked, durable>> \/ (wr.by = "put" /\ Acknowledge(wr.w)))
      BY <2>5 DEF Swap
    <3>2. Len(ops) <= Len(ops')
      BY <1>0, <3>1
    <3>3. QED
      BY <1>1, <1>3, <3>1, <3>2
  <2>6. QED
    BY <1>4, <2>1, <2>2, <2>3, <2>4, <2>5 DEF WritePath
<1>5. CASE FlushReturn
  <2>1. /\ durable' = IF fl.by \in Clients THEN NewerOf(durable, snap[fl.by]) ELSE durable
        /\ snap' = [c \in Clients |-> IF c = fl.by THEN EmptyTable ELSE snap[c]]
        /\ UNCHANGED <<ops, acked, closed>>
    BY <1>5 DEF FlushReturn
  <2>2. \A k \in Keys : durable'[k] \in Nat /\ durable[k] <= durable'[k] /\ durable'[k] <= Len(ops)
    <3>1. CASE fl.by \in Clients
      BY <1>0, <1>a, <2>1, <3>1 DEF NewerOf
    <3>2. CASE fl.by \notin Clients
      BY <1>0, <1>a, <2>1, <3>2
    <3>3. QED
      BY <3>1, <3>2
  <2>3. \A c \in Clients, k \in Keys : snap'[c][k] <= Len(ops)
    BY <1>0, <1>a, <1>e, <2>1
  <2>4. SyncPerWrite => \A k \in Keys : acked[k] <= durable'[k]
    BY <1>0, <1>a, <2>2
  <2>5. QED
    BY <1>a, <2>1, <2>2, <2>3, <2>4 DEF PromisedIssued
<1>6. CASE FlushPipeline
  <2>1. FlushReturn \/ UNCHANGED <<durable, closed, snap, acked, ops>>
    BY <1>6 DEF FlushPipeline, FlushBegin, FlushBuild, FlushBuildFails,
     FlushCommit, FlushNothing, FlushManifest, FlushManifestFails, FlushUnlink, ghosts
  <2>2. QED
    BY <1>0, <1>1, <1>5, <2>1
<1>7. CASE Compaction \/ Worker
  <2>1. UNCHANGED <<durable, closed, snap, acked, ops>>
    BY <1>7 DEF Compaction, CompactBuild, CompactBuildFails, CompactNothing,
       CompactCommit, CompactManifest, CompactManifestFails, CompactUnlink,
       CompactReturn, Worker, WorkerRecv, WorkerCheck, ghosts, promises
  <2>2. QED
    BY <1>0, <1>1, <2>1
<1>8. CASE Lifecycle
  <2>1. CASE Close \/ (\E kind \in CrashKinds : Crash(kind)) \/ RebackFails
    BY <1>2, <2>1 DEF Close, Crash, RebackFails, ProcessGone, promises
  <2>2. CASE Recover \/ Reback \/ CleanOld
    BY <1>0, <1>1, <2>2 DEF Recover, Reback, CleanOld, promises, ghosts
  <2>3. QED
    BY <1>8, <2>1, <2>2 DEF Lifecycle
<1>9. QED
  BY <1>0, <1>1, <1>4, <1>6, <1>7, <1>8 DEF Next, vars

-----------------------------------------------------------------------------
(* The tables.                                                             *)

\* Tables in use do not change, so neither does what they answer.
LEMMA SameAnswer ==
    ASSUME Inv, [Next]_vars, NEW k, NEW T \in [Levels -> SUBSET Seqs],
           \A l \in Levels : T[l] \subseteq levels[l] \cup manifest[l]
    PROVE  OrElse(NewestHit(T[0], sst'[0], k), NewestHit(T[1], sst'[1], k))
             = OrElse(NewestHit(T[0], sst[0], k), NewestHit(T[1], sst[1], k))
<1>1. 0 \in Levels /\ 1 \in Levels
  BY BasicSets
<1>2. ASSUME NEW l \in Levels
      PROVE  NewestHit(T[l], sst'[l], k) = NewestHit(T[l], sst[l], k)
  <2>1. T[l] \subseteq Seqs
    OBVIOUS
  <2>2. \A s \in T[l] : sst'[l][s] = sst[l][s]
    BY ReferencedUntouched
  <2>3. \A s \in T[l] : sst'[l][s][k] = sst[l][s][k]
    BY <2>2
  <2> DEFINE u == sst'[l]
             t == sst[l]
             S == T[l]
  <2>4. S \subseteq Seqs /\ \A s \in S : u[s][k] = t[s][k]
    BY <2>1, <2>3
  <2> HIDE DEF u, t, S
  <2>5. NewestHit(S, u, k) = NewestHit(S, t, k)
    BY <2>4, NewestHitSame
  <2>6. QED
    BY <2>5 DEF S, t, u
<1>3. QED
  BY <1>1, <1>2

\* What the live levels and the MANIFEST answer changes only with their lists.
LEMMA SameTables ==
    ASSUME Inv, [Next]_vars, NEW k
    PROVE  /\ levels' = levels => FromTables(levels, k)' = FromTables(levels, k)
           /\ manifest' = manifest => FromTables(manifest, k)' = FromTables(manifest, k)
           /\ manifest' = levels => FromTables(manifest, k)' = FromTables(levels, k)
           /\ levels' = manifest => FromTables(levels, k)' = FromTables(manifest, k)
<1>1. levels \in [Levels -> SUBSET Seqs] /\ manifest \in [Levels -> SUBSET Seqs]
  BY DEF Inv, TypeOK, TypeProcess, TypeDirectory
<1>2. /\ OrElse(NewestHit(levels[0], sst'[0], k), NewestHit(levels[1], sst'[1], k))
           = FromTables(levels, k)
      /\ OrElse(NewestHit(manifest[0], sst'[0], k), NewestHit(manifest[1], sst'[1], k))
           = FromTables(manifest, k)
  BY <1>1, SameAnswer DEF FromTables
<1>3. QED
  BY <1>2 DEF FromTables

\* An answer from the tables is a write that was issued, or none.
LEMMA TablesType ==
    ASSUME Inv, NEW k \in Keys, NEW T \in [Levels -> SUBSET Seqs]
    PROVE  FromTables(T, k) \in 0 .. Len(ops)
<1> DEFINE W == 0 .. Len(ops)
<1>1. 0 \in W /\ 0 \in Levels /\ 1 \in Levels
  BY Numbers, BasicSets
<1>2. sst \in [Levels -> [Seqs -> [Keys -> W]]]
  BY DEF Inv, Issued
<1>3. T[0] \subseteq Seqs /\ T[1] \subseteq Seqs
  BY <1>1
<1> HIDE DEF W
<1>4. ASSUME NEW l \in Levels PROVE NewestHit(T[l], sst[l], k) \in W
  <2> DEFINE S == T[l]
             t == sst[l]
  <2>1. S \subseteq Seqs /\ \A s \in S : t[s][k] \in W
    BY <1>2
  <2> HIDE DEF S, t
  <2>2. NewestHit(S, t, k) \in W
    BY <1>1, <2>1, NewestHitFrom
  <2>3. QED
    BY <2>2 DEF S, t
<1>5. QED
  BY <1>1, <1>4 DEF FromTables, OrElse, W

\* What compaction has dropped stays dropped.
LEMMA GoneGrows ==
    ASSUME Inv, [Next]_vars, NEW k \in Keys
    PROVE  gone[k] \in Nat /\ gone'[k] \in Nat /\ gone[k] <= gone'[k]
<1>1. gone \in Table /\ \A t \in Table : t[k] \in Nat
  BY BasicSets DEF Inv, TypeOK, TypeHistory, Table
<1>2. CASE CompactCommit
  <2>1. Dropped(levels) \in Table
    BY MergedType DEF Inv, TypeOK, TypeProcess
  <2>2. gone'[k] = IF gone[k] >= Dropped(levels)[k] THEN gone[k] ELSE Dropped(levels)[k]
    BY <1>2 DEF CompactCommit, NewerOf
  <2>3. QED
    BY <1>1, <2>1, <2>2
<1>3. CASE ~ CompactCommit
  <2>1. gone' = gone
    <3>1. CASE WritePath \/ FlushPipeline
      BY <3>1 DEF WritePath, Write, WriteSyncFails, Apply, FlushSync, Rotate, RotateFails, Swap,
         FlushPipeline, FlushBegin, FlushBuild, FlushBuildFails, FlushCommit, FlushNothing,
         FlushManifest, FlushManifestFails, FlushUnlink, FlushReturn, ghosts
    <3>2. CASE Compaction \/ Worker
      BY <1>3, <3>2 DEF Compaction, CompactBuild, CompactBuildFails, CompactNothing,
         CompactManifest, CompactManifestFails, CompactUnlink,
         CompactReturn, Worker, WorkerRecv, WorkerCheck, ghosts
    <3>3. CASE Lifecycle
      BY <3>3 DEF Lifecycle, Close, Crash, RebackFails, Recover, Reback, CleanOld, ghosts
    <3>4. QED
      BY <3>1, <3>2, <3>3 DEF Next, vars
  <2>2. QED
    BY <1>1, <2>1
<1>4. QED
  BY <1>2, <1>3

\* An answer that was good enough stays so.
LEMMA FreshKept ==
    ASSUME Inv, [Next]_vars, NEW k \in Keys, NEW r \in Nat, NEW d \in Nat, Fresh(k, r, d)
    PROVE  Fresh(k, r, d)'
<1>1. gone[k] \in Nat /\ gone'[k] \in Nat /\ gone[k] <= gone'[k]
  BY GoneGrows
<1>2. QED
  BY <1>1 DEF Fresh

\* A compaction leaves of the tables' answer what a reader makes of it.
LEMMA CompactedTables ==
    ASSUME Inv, CompactCommit, NEW k \in Keys
    PROVE  /\ FromTables(levels, k) \in Nat /\ FromTables(levels, k) = Winner(levels, k)
           /\ FromTables(levels, k)' = Value(FromTables(levels, k))
<1> DEFINE r == FromTables(levels, k)
<1>0. levels \in [Levels -> SUBSET Seqs] /\ TypeOK /\ sst' = sst /\ ops' = ops
  BY DEF Inv, TypeOK, TypeProcess, CompactCommit, dirVars
<1>1. r \in Nat /\ r = Winner(levels, k)
  <2>1. Winner(levels, k) = r
    BY <1>0, WinnerByLevel DEF Inv, LevelOrder, FromTables
  <2>2. r \in 0 .. Len(ops) /\ Len(ops) \in Nat
    BY <1>0, TablesType, Numbers
  <2>3. QED
    BY <2>1, <2>2
<1>2. FromTables(levels, k)' = Value(r)
  <2>1. Value(r) = Merged(levels)[k]
    BY <1>1 DEF Merged
  <2>2. levels' = Compacted /\ fl.pc = "merged" /\ fl.seq \in 0 .. MaxSeq
    BY DEF CompactCommit, Inv, TypeOK, TypeProcess, FlType
  <2>3. CASE fl.seq = 0
    <3>1. Merged(levels) = EmptyTable
      BY <2>2, <2>3 DEF Inv, CompactionInFlight
    <3>2. levels'[0] = {} /\ levels'[1] = {}
      BY <2>2, <2>3 DEF Compacted, Levels
    <3>3. NewestHit({}, sst[0], k) = 0 /\ NewestHit({}, sst[1], k) = 0
      BY DEF NewestHit, Hits
    <3>4. QED
      BY <1>0, <2>1, <3>1, <3>2, <3>3 DEF FromTables, OrElse, EmptyTable
  <2>4. CASE fl.seq # 0
    <3>1. fl.seq \in Seqs /\ sst[1][fl.seq] = Merged(levels)
      BY <2>2, <2>4, BoundsAssumption DEF Inv, CompactionInFlight, Seqs
    <3>2. levels'[0] = {} /\ levels'[1] = {fl.seq}
      BY <2>2, <2>4 DEF Compacted, Levels
    <3>3. NewestHit({}, sst[0], k) = 0 /\ NewestHit({fl.seq}, sst[1], k) = sst[1][fl.seq][k]
      BY <3>1, NewestHitFew
    <3>4. QED
      BY <1>0, <2>1, <3>1, <3>2, <3>3 DEF FromTables, OrElse
  <2>5. QED
    BY <2>3, <2>4
<1>3. QED
  BY <1>1, <1>2

\* A compaction answers as the tables did that it replaces, except that a tombstone
\* has become nothing, which counts as such from now on.
LEMMA CompactedFresh ==
    ASSUME Inv, CompactCommit, NEW k \in Keys, NEW a \in Nat, NEW d \in Nat,
           Fresh(k, OrElse(a, FromTables(levels, k)), d)
    PROVE  OrElse(a, FromTables(levels, k)') >= d
             \/ (OrElse(a, FromTables(levels, k)') = 0 /\ gone'[k] >= d)
<1> DEFINE r == FromTables(levels, k)
<1>1. r \in Nat /\ r = Winner(levels, k)
  BY CompactedTables
<1>2. FromTables(levels, k)' = Value(r)
  BY CompactedTables
<1>3. gone[k] \in Nat /\ gone'[k] \in Nat /\ gone[k] <= gone'[k]
  <2>1. [Next]_vars
    BY DEF Next, Compaction
  <2>2. QED
    BY <2>1, GoneGrows
<1>4. IsDelete(r) => gone'[k] >= r
  <2>1. Dropped(levels)[k] = IF IsDelete(r) THEN r ELSE 0
    BY <1>1 DEF Dropped
  <2>2. gone'[k] = IF gone[k] >= Dropped(levels)[k] THEN gone[k] ELSE Dropped(levels)[k]
    BY DEF CompactCommit, NewerOf
  <2>3. QED
    BY <1>1, <1>3, <2>1, <2>2
<1> HIDE DEF r
<1>5. OrElse(a, r) >= d \/ (OrElse(a, r) = 0 /\ gone[k] >= d)
  BY DEF Fresh, r
<1>6. CASE a # 0
  BY <1>3, <1>5, <1>6 DEF OrElse
<1>7. CASE a = 0 /\ IsDelete(r)
  <2>1. r >= d /\ r # 0
    BY <1>1, <1>5, <1>7 DEF OrElse, IsDelete
  <2>2. gone'[k] >= d /\ FromTables(levels, k)' = 0
    BY <1>1, <1>2, <1>3, <1>4, <1>7, <2>1 DEF Value
  <2>3. QED
    BY <1>7, <2>2 DEF OrElse
<1>8. CASE a = 0 /\ ~ IsDelete(r)
  <2>1. FromTables(levels, k)' = r
    BY <1>2, <1>8 DEF Value
  <2>2. QED
    BY <1>1, <1>3, <1>5, <1>8, <2>1 DEF OrElse
<1>9. QED
  BY <1>6, <1>7, <1>8

\* A flushed MemTable becomes the newest table.
LEMMA FlushedTables ==
    ASSUME Inv, FlushCommit, NEW k \in Keys
    PROVE  /\ FromTables(levels, k)' = OrElse(mem[fl.gen][k], FromTables(levels, k))
           /\ fl.gen \in imms /\ \A g \in imms : fl.gen <= g
           /\ LiveGens' = LiveGens \ {fl.gen} /\ \A g \in LiveGens' : fl.gen < g
           /\ \A g \in Seqs : g # fl.gen => mem'[g] = mem[g]
           /\ mode = "up" /\ mode' = "up" /\ imms' = imms \ {fl.gen}
           /\ UNCHANGED <<walFiles, wlog, wos, wsync, ops, gone, calls, snap, kv>>
<1>0. /\ fl.pc = "commit" /\ mode = "up" /\ mode' = "up" /\ imms' = imms \ {fl.gen}
      /\ mem' = [mem EXCEPT ![fl.gen] = EmptyTable] /\ sst' = sst
      /\ levels' = [levels EXCEPT ![0] = levels[0] \cup {fl.seq}]
      /\ UNCHANGED <<walFiles, wlog, wos, wsync, ops, gone, calls, snap, kv, active>>
  BY DEF FlushCommit, StillFrozen, dirVars, ghosts, Inv, Quiet
<1>1. /\ fl.gen \in imms /\ \A g \in imms : fl.gen <= g
      /\ sst[0][fl.seq] = mem[fl.gen] /\ fl.seq \in Seqs
      /\ \A s \in levels[0] : s < fl.seq
  BY <1>0, BasicSets DEF Inv, FlushInFlight, TypeOK, TypeProcess
<1>2. levels \in [Levels -> SUBSET Seqs] /\ mem \in [Seqs -> Table] /\ imms \subseteq Seqs /\ levels[0] \subseteq Seqs
  BY BasicSets DEF Inv, TypeOK, TypeProcess
<1>3. NewestHit(levels[0] \cup {fl.seq}, sst[0], k)
        = OrElse(sst[0][fl.seq][k], NewestHit(levels[0], sst[0], k))
  BY <1>1, <1>2, FlushedKeepsItsPlace
<1>4. levels'[0] = levels[0] \cup {fl.seq} /\ levels'[1] = levels[1]
  BY <1>0, <1>2, BasicSets
<1>5. FromTables(levels, k)' = OrElse(mem[fl.gen][k], FromTables(levels, k))
  <2> DEFINE a == NewestHit(levels[0], sst[0], k)
             b == NewestHit(levels[1], sst[1], k)
  <2>1. FromTables(levels, k)' = OrElse(OrElse(mem[fl.gen][k], a), b)
    BY <1>0, <1>1, <1>3, <1>4 DEF FromTables
  <2>2. FromTables(levels, k) = OrElse(a, b)
    BY DEF FromTables
  <2> HIDE DEF a, b
  <2>3. QED
    BY <2>1, <2>2 DEF OrElse
<1>6. LiveGens' = LiveGens \ {fl.gen} /\ \A g \in LiveGens' : fl.gen < g
  BY <1>0, <1>1, Numbers DEF LiveGens
<1>7. \A g \in Seqs : g # fl.gen => mem'[g] = mem[g]
  BY <1>0, <1>2
<1>8. QED
  BY <1>0, <1>1, <1>5, <1>6, <1>7

-----------------------------------------------------------------------------
(* What the MemTables and the tables hold.                                 *)

\* The steps that change what memory holds.
LEMMA MemorySteps ==
    ASSUME Inv, [Next]_vars, mode' # "down"
    PROVE  \/ UNCHANGED <<mem, active, imms, levels, kv>> /\ mode # "down"
           \/ \E freeze \in BOOLEAN : Apply(freeze)
           \/ Swap \/ FlushCommit
           \/ CompactCommit /\ UNCHANGED <<mem, active, imms, kv>> /\ mode # "down"
           \/ Recover
<1>0. wr.pc # "free" \/ fl.pc # "free" => mode = "up"
  BY DEF Inv, Quiet
<1>1. CASE WritePath
  BY <1>0, <1>1 DEF WritePath, Write, WriteSyncFails, FlushSync, Rotate, RotateFails, sstVars, ghosts
<1>2. CASE FlushPipeline
  BY <1>0, <1>2 DEF FlushPipeline, FlushBegin, FlushBuild, FlushBuildFails, FlushNothing,
     FlushManifest, FlushManifestFails, FlushUnlink, FlushReturn, sstVars, ghosts
<1>3. CASE Compaction
  BY <1>0, <1>3 DEF Compaction, CompactBuild, CompactBuildFails, CompactNothing,
     CompactCommit, CompactManifest, CompactManifestFails, CompactUnlink,
     CompactReturn, CompactCaller, ghosts
<1>4. CASE Worker
  BY <1>4 DEF Worker, WorkerRecv, WorkerCheck, ghosts
<1>5. CASE Lifecycle
  BY <1>5 DEF Lifecycle, Close, Crash, Reback, RebackFails, CleanOld, ProcessGone, sstVars, ghosts
<1>6. CASE UNCHANGED vars
  BY <1>6 DEF vars
<1>7. QED
  BY <1>1, <1>2, <1>3, <1>4, <1>5, <1>6 DEF Next

\* What MemTables answer is a write that was issued, or none.
LEMMA MemTablesType ==
    ASSUME Inv, NEW k \in Keys, NEW F, F \subseteq Seqs
    PROVE  /\ NewestHit(F, mem, k) \in 0 .. Len(ops)
           /\ \A g \in Seqs : mem[g][k] \in 0 .. Len(ops)
<1> DEFINE W == 0 .. Len(ops)
<1>1. 0 \in W
  BY Numbers
<1>2. mem \in [Seqs -> [Keys -> W]]
  BY DEF Inv, Issued
<1> HIDE DEF W
<1>3. \A g \in Seqs : mem[g][k] \in W
  BY <1>2
<1>4. NewestHit(F, mem, k) \in W
  BY <1>1, <1>3, NewestHitFrom
<1>5. QED
  BY <1>3, <1>4 DEF W

\* The whole answer as well.
LEMMA AnswerType ==
    ASSUME Inv, NEW k \in Keys, NEW F, F \subseteq Seqs
    PROVE  /\ NewestHit(F, mem, k) \in Nat /\ FromTables(levels, k) \in Nat
           /\ OrElse(NewestHit(F, mem, k), FromTables(levels, k)) \in Nat
<1>1. NewestHit(F, mem, k) \in 0 .. Len(ops) /\ Len(ops) \in Nat
  BY MemTablesType, Numbers
<1>2. FromTables(levels, k) \in 0 .. Len(ops)
  BY TablesType DEF Inv, TypeOK, TypeProcess
<1>3. QED
  BY <1>1, <1>2 DEF OrElse

\* Only a write that was issued after d is ever added to the logs of the
\* generations in memory.
LEMMA OlderKept ==
    ASSUME Inv, LogShape, LiveLogs, LiveLogs', [Next]_vars, mode # "down", mode' # "down",
           NEW g \in LiveGens, g \in LiveGens', NEW k, NEW d \in 0 .. Len(ops)
    PROVE  HasOlder(g, k, d)' => HasOlder(g, k, d)
<1>1. g \in walFiles /\ g \in walFiles'
  BY DEF LiveLogs
<1>2. QED
  BY <1>1, LogKept

\* What is held stays held by a step that leaves alone what the MemTables have of
\* the key.
LEMMA HeldKept ==
    ASSUME Inv, LogShape, LiveLogs, LiveLogs', [Next]_vars, mode # "down", mode' # "down",
           UNCHANGED <<active, imms>>, UNCHANGED levels \/ CompactCommit,
           NEW F, F \subseteq Seqs, NEW k \in Keys, NEW d \in 0 .. Len(ops), Held(F, k, d),
           \A g \in F : mem'[g][k] = mem[g][k]
    PROVE  Held(F, k, d)'
<1>0. d \in Nat /\ Len(ops) \in Nat
  BY Numbers
<1>1. PICK a \in Nat : a = NewestHit(F, mem, k)
  BY AnswerType
<1>2. Fresh(k, OrElse(a, FromTables(levels, k)), d)
  BY <1>1 DEF Held
<1>3. OrElse(a, FromTables(levels, k)') >= d
        \/ (OrElse(a, FromTables(levels, k)') = 0 /\ gone'[k] >= d)
  <2>1. CASE UNCHANGED levels
    <3>1. FromTables(levels, k)' = FromTables(levels, k)
      BY <2>1, SameTables
    <3>2. PICK r \in Nat : r = OrElse(a, FromTables(levels, k))
      BY <1>1, AnswerType
    <3>3. Fresh(k, r, d)'
      BY <1>0, <1>2, <3>2, FreshKept
    <3>4. QED
      BY <3>1, <3>2, <3>3 DEF Fresh
  <2>2. CASE CompactCommit
    BY <1>0, <1>1, <1>2, <2>2, CompactedFresh
  <2>3. QED
    BY <2>1, <2>2
<1>4. NewestHit(F, mem', k) = a
  BY <1>1, NewestHitSame
<1>5. Fresh(k, OrElse(NewestHit(F, mem, k), FromTables(levels, k)), d)'
  BY <1>3, <1>4 DEF Fresh
<1>6. ASSUME NEW g \in LiveGens', HasOlder(g, k, d)'
      PROVE  \E h \in F : g <= h /\ mem'[h][k] # 0
  <2>1. g \in LiveGens
    BY DEF LiveGens
  <2>2. HasOlder(g, k, d)
    BY <1>6, <2>1, OlderKept
  <2>3. QED
    BY <2>1, <2>2 DEF Held
<1>7. QED
  BY <1>5, <1>6 DEF Held

\* What is held by MemTables of which the oldest is flushed stays held by the rest.
LEMMA HeldFlushed ==
    ASSUME Inv, LogShape, LiveLogs, LiveLogs', [Next]_vars, FlushCommit,
           NEW F, F \subseteq LiveGens, NEW gen \in F, gen = fl.gen,
           NEW k \in Keys, NEW d \in 0 .. Len(ops), Held(F, k, d)
    PROVE  Held(F \ {gen}, k, d)'
<1>0. /\ FromTables(levels, k)' = OrElse(mem[gen][k], FromTables(levels, k))
      /\ LiveGens' = LiveGens \ {gen} /\ \A g \in LiveGens' : gen < g
      /\ \A g \in Seqs : g # gen => mem'[g] = mem[g]
      /\ mode = "up" /\ mode' = "up" /\ UNCHANGED <<gone, ops>>
  BY FlushedTables
<1>1. F \subseteq Seqs /\ gen \in Seqs /\ \A g \in F : gen <= g
  BY <1>0, Numbers
<1> DEFINE G == F \ {gen}
<1>2. NewestHit(F, mem, k) = OrElse(NewestHit(G, mem, k), mem[gen][k])
  <2>1. \A S \in SUBSET Seqs, g \in Seqs : g \in S /\ (\A s \in S : g <= s) =>
          \A t : NewestHit(S, t, k) = OrElse(NewestHit(S \ {g}, t, k), t[g][k])
    BY NewestHitDrop
  <2>2. QED
    BY <1>1, <2>1
<1>3. NewestHit(G, mem', k) = NewestHit(G, mem, k)
  <2>1. G \subseteq Seqs /\ \A s \in G : mem'[s][k] = mem[s][k]
    BY <1>0, <1>1
  <2> HIDE DEF G
  <2>2. QED
    BY <2>1, NewestHitSame
<1>4. OrElse(NewestHit(G, mem', k), FromTables(levels, k)')
        = OrElse(NewestHit(F, mem, k), FromTables(levels, k))
  BY <1>0, <1>2, <1>3 DEF OrElse
<1>5. Fresh(k, OrElse(NewestHit(F, mem, k), FromTables(levels, k)), d)
  BY DEF Held
<1>6. Fresh(k, OrElse(NewestHit(G, mem, k), FromTables(levels, k)), d)'
  BY <1>0, <1>4, <1>5 DEF Fresh
<1>7. ASSUME NEW g \in LiveGens', HasOlder(g, k, d)'
      PROVE  \E h \in G : g <= h /\ mem'[h][k] # 0
  <2>1. g \in LiveGens /\ gen < g /\ g \in Seqs
    BY <1>0, Numbers
  <2>2. HasOlder(g, k, d)
    BY <1>0, <1>7, <2>1, OlderKept
  <2>3. PICK h \in F : g <= h /\ mem[h][k] # 0
    BY <2>1, <2>2 DEF Held
  <2>4. h \in Seqs /\ gen \in Nat /\ g \in Nat /\ h \in Nat
    BY <1>1, <2>1, Numbers
  <2>5. h # gen
    BY <2>1, <2>3, <2>4
  <2>6. QED
    BY <1>0, <2>3, <2>4, <2>5
<1>8. QED
  BY <1>6, <1>7 DEF Held

\* A freeze adds a generation with an empty log and an empty MemTable.
LEMMA SwapAdds ==
    ASSUME Inv, LiveLogs, Swap, NEW n, n = wr.new
    PROVE  /\ LiveGens' = LiveGens \cup {n} /\ active' = n /\ imms' = LiveGens
           /\ n \in Seqs /\ n \notin LiveGens /\ \A g \in LiveGens : g < n
           /\ \A k \in Keys : mem'[n][k] = 0 /\ Entries(n, k)' = {}
           /\ n \in walFiles
           /\ UNCHANGED <<mem, wlog, ops, levels, sst, manifest, gone, kv, snap, walFiles, wsync>>
           /\ mode = "up" /\ mode' = "up" /\ wr.pc = "swap" /\ active \in LiveGens
<1>1. /\ wr.pc = "swap" /\ imms' = imms \cup {active} /\ active' = n /\ mode' = mode
      /\ UNCHANGED <<mem, wlog, ops, levels, sst, manifest, gone, kv, snap, walFiles, wsync>>
  BY DEF Swap, sstVars
<1>2. mode = "up" /\ n \in Seqs /\ active < n /\ mem[n] = EmptyTable /\ active \in Nat
  BY <1>1, Numbers
<1>3. wlog[n] = << >> /\ n \in walFiles
  BY <1>1, <1>2 DEF LiveLogs
<1>4. \A k \in Keys : Entries(n, k)' = {}
  <2>1. 1 .. Len(<< >>) = {}
    OBVIOUS
  <2>2. QED
    BY <1>1, <1>3, <2>1 DEF Entries
<1>5. \A g \in LiveGens : g < n /\ g \in Nat
  BY <1>2, Numbers
<1>6. \A k \in Keys : mem'[n][k] = 0
  BY <1>1, <1>2 DEF EmptyTable
<1>7. n \notin LiveGens
  BY <1>2, <1>5, Numbers
<1>8. LiveGens' = LiveGens \cup {n} /\ imms' = LiveGens /\ active \in LiveGens
  BY <1>1 DEF LiveGens
<1>9. QED
  BY <1>1, <1>2, <1>3, <1>4, <1>5, <1>6, <1>7, <1>8

\* What is held stays held by a freeze, with or without the new MemTable.
LEMMA HeldSwap ==
    ASSUME Inv, LogShape, LiveLogs, LiveLogs', [Next]_vars, Swap, NEW n, n = wr.new,
           NEW F, F \subseteq LiveGens, NEW k \in Keys, NEW d \in 0 .. Len(ops), Held(F, k, d)
    PROVE  Held(F, k, d)' /\ Held(F \cup {n}, k, d)'
<1>0. /\ LiveGens' = LiveGens \cup {n} /\ n \in Seqs /\ \A g \in LiveGens : g < n
      /\ mem'[n][k] = 0 /\ Entries(n, k)' = {}
      /\ UNCHANGED <<mem, wlog, ops, levels, sst, gone>> /\ mode = "up" /\ mode' = "up"
  BY SwapAdds
<1>1. F \subseteq Seqs /\ \A g \in F : g < n
  BY <1>0, Numbers
<1>2. NewestHit(F \cup {n}, mem', k) = NewestHit(F, mem', k)
  <2>1. \A S \in SUBSET Seqs, m \in Seqs : (\A s \in S : s < m) =>
          \A t, j : NewestHit(S \cup {m}, t, j) = OrElse(t[m][j], NewestHit(S, t, j))
    BY NewestHitAdd
  <2>2. NewestHit(F \cup {n}, mem', k) = OrElse(mem'[n][k], NewestHit(F, mem', k))
    <3>1. \A t, j : NewestHit(F \cup {n}, t, j) = OrElse(t[n][j], NewestHit(F, t, j))
      BY <1>0, <1>1, <2>1
    <3>2. QED
      BY <3>1
  <2>3. QED
    BY <1>0, <2>2 DEF OrElse
<1>3. Fresh(k, OrElse(NewestHit(F, mem, k), FromTables(levels, k)), d)'
  BY <1>0 DEF Held, Fresh, FromTables
<1>4. Fresh(k, OrElse(NewestHit(F \cup {n}, mem, k), FromTables(levels, k)), d)'
  BY <1>2, <1>3
<1>5. ASSUME NEW g \in LiveGens', HasOlder(g, k, d)'
      PROVE  \E h \in F : g <= h /\ mem'[h][k] # 0
  <2>1. g # n
    BY <1>0, <1>5 DEF HasOlder
  <2>2. g \in LiveGens
    BY <1>0, <2>1
  <2>3. HasOlder(g, k, d)
    BY <1>0, <1>5, <2>2, OlderKept
  <2>4. QED
    BY <1>0, <2>2, <2>3 DEF Held
<1>6. QED
  BY <1>3, <1>4, <1>5 DEF Held

\* apply_and_maybe_freeze changes the active MemTable for the key it writes.
LEMMA ApplyWrites ==
    ASSUME Inv, NEW freeze, Apply(freeze)
    PROVE  /\ ops[wr.w].key \in Keys /\ wr.w \in 1 .. Len(ops) /\ wr.by = "put"
           /\ active \in Seqs /\ mode = "up" /\ mode' = "up"
           /\ mem'[active][ops[wr.w].key] = wr.w /\ kv'[ops[wr.w].key] = wr.w
           /\ \A g \in Seqs, k \in Keys :
                ~ (g = active /\ k = ops[wr.w].key) => mem'[g][k] = mem[g][k]
           /\ \A k \in Keys : k # ops[wr.w].key => kv'[k] = kv[k]
           /\ UNCHANGED <<active, imms, levels, ops, wlog, wos, wsync, walFiles, sst, manifest,
                          gone, calls, snap>>
           /\ LiveGens' = LiveGens /\ wr.pc = "apply"
<1>1. TypeOK /\ wr.pc = "apply" /\ mode = "up" /\ wr.by = "put" /\ active \in Seqs
  BY DEF Apply, Inv, TypeOK, TypeProcess, TypeHistory
<1>2. wr.w \in 1 .. Len(ops) /\ ops[wr.w].key \in Keys
  BY <1>1, IssuedKeys DEF TypeOK, TypeHistory
<1>3. mem \in [Seqs -> [Keys -> Ids]] /\ kv \in [Keys -> Ids]
  BY <1>1 DEF TypeOK, TypeProcess, TypeHistory, Table
<1>4. /\ mem' = [mem EXCEPT ![active] = [mem[active] EXCEPT ![ops[wr.w].key] = wr.w]]
      /\ kv' = [kv EXCEPT ![ops[wr.w].key] = wr.w]
      /\ UNCHANGED <<active, imms, levels, ops, wlog, wos, wsync, walFiles, sst, manifest,
                     gone, calls, snap, mode>>
  BY DEF Apply, walVars, sstVars
<1>5. mem'[active][ops[wr.w].key] = wr.w /\ kv'[ops[wr.w].key] = wr.w
  BY <1>1, <1>2, <1>3, <1>4
<1>6. \A g \in Seqs, k \in Keys :
        ~ (g = active /\ k = ops[wr.w].key) => mem'[g][k] = mem[g][k]
  BY <1>1, <1>2, <1>3, <1>4
<1>7. \A k \in Keys : k # ops[wr.w].key => kv'[k] = kv[k]
  BY <1>2, <1>3, <1>4
<1>8. LiveGens' = LiveGens
  BY <1>4 DEF LiveGens
<1>9. QED
  BY <1>1, <1>2, <1>4, <1>5, <1>6, <1>7, <1>8

\* The MemTables and the tables keep holding every write applied.
LEMMA AppliedHeldNext ==
    ASSUME Inv, Inv', LogShape, LiveLogs, LiveLogs', AppliedHeld, [Next]_vars
    PROVE  AppliedHeld'
<1>0. SUFFICES ASSUME mode' # "down", NEW k \in Keys PROVE Held(LiveGens, k, kv[k])'
  BY DEF AppliedHeld
<1>1. PICK F, d : F = LiveGens /\ d = kv[k]
  OBVIOUS
<1>2. d \in 0 .. Len(ops) /\ kv'[k] \in 0 .. Len(ops')
  BY <1>1 DEF Inv, Issued
<1>3. mode # "down" => F \subseteq Seqs /\ Held(F, k, d)
  BY <1>1, Numbers DEF AppliedHeld
<1>h. ASSUME NEW G, LiveGens' = G, kv'[k] = d, Held(G, k, d)' PROVE Held(LiveGens, k, kv[k])'
  BY <1>h DEF Held
<1>4. CASE /\ UNCHANGED <<mem, active, imms, kv>> /\ mode # "down"
           /\ UNCHANGED levels \/ CompactCommit
  <2>1. Held(F, k, d)'
    BY <1>0, <1>2, <1>3, <1>4, HeldKept
  <2>2. LiveGens' = F /\ kv'[k] = d
    BY <1>1, <1>4 DEF LiveGens
  <2>3. QED
    BY <1>h, <2>1, <2>2
<1>5. ASSUME NEW freeze \in BOOLEAN, Apply(freeze) PROVE Held(LiveGens, k, kv[k])'
  <2>0. /\ wr.w \in 1 .. Len(ops)
        /\ active \in Seqs /\ mode = "up" /\ mode' = "up"
        /\ mem'[active][ops[wr.w].key] = wr.w /\ kv'[ops[wr.w].key] = wr.w
        /\ \A g \in Seqs : k # ops[wr.w].key => mem'[g][k] = mem[g][k]
        /\ k # ops[wr.w].key => kv'[k] = kv[k]
        /\ UNCHANGED <<active, imms, levels, ops>>
        /\ LiveGens' = LiveGens
    BY <1>5, ApplyWrites
  <2>1. CASE k # ops[wr.w].key
    <3>1. Held(F, k, d)'
      BY <1>2, <1>3, <2>0, <2>1, HeldKept
    <3>2. QED
      BY <1>1, <1>h, <2>0, <2>1, <3>1
  <2>2. CASE k = ops[wr.w].key
    <3>1. imms \subseteq Seqs /\ (\A g \in imms : g < active) /\ LiveGens = imms \cup {active}
          /\ (\A g \in LiveGens : g <= active) /\ Len(ops) \in Nat
      BY <2>0, Numbers DEF LiveGens
    <3>2. NewestHit(imms \cup {active}, mem', k) = OrElse(mem'[active][k], NewestHit(imms, mem', k))
      <4>1. \A S \in SUBSET Seqs, m \in Seqs : (\A s \in S : s < m) =>
              \A t, j : NewestHit(S \cup {m}, t, j) = OrElse(t[m][j], NewestHit(S, t, j))
        BY NewestHitAdd
      <4>2. \A t, j : NewestHit(imms \cup {active}, t, j) = OrElse(t[active][j], NewestHit(imms, t, j))
        BY <2>0, <3>1, <4>1
      <4>3. QED
        BY <4>2
    <3>3. wr.w \in Nat /\ wr.w # 0
      BY <2>0, <3>1
    <3>4. OrElse(NewestHit(LiveGens, mem, k)', FromTables(levels, k)') = wr.w
      BY <2>0, <2>2, <3>1, <3>2, <3>3 DEF OrElse
    <3>5. Fresh(k, OrElse(NewestHit(LiveGens, mem, k), FromTables(levels, k)), kv[k])'
      BY <2>0, <2>2, <3>3, <3>4 DEF Fresh
    <3>6. \A g \in LiveGens' : g <= active' /\ active' \in LiveGens' /\ mem'[active'][k] # 0
      BY <2>0, <2>2, <3>1, <3>3
    <3>7. QED
      BY <3>5, <3>6 DEF Held
  <2>3. QED
    BY <2>1, <2>2
<1>6. CASE Swap
  <2>1. PICK n : n = wr.new
    OBVIOUS
  <2>2. LiveGens' = F \cup {n} /\ UNCHANGED kv /\ mode = "up"
    BY <1>1, <1>6, <2>1, SwapAdds
  <2>3. Held(F \cup {n}, k, d)'
    BY <1>1, <1>2, <1>3, <1>6, <2>1, <2>2, HeldSwap
  <2>4. QED
    BY <1>1, <1>h, <2>2, <2>3
<1>7. CASE FlushCommit
  <2>1. PICK gen : gen = fl.gen
    OBVIOUS
  <2>2. LiveGens' = F \ {gen} /\ UNCHANGED kv /\ gen \in F /\ mode = "up"
    BY <1>1, <1>7, <2>1, FlushedTables DEF LiveGens
  <2>3. Held(F \ {gen}, k, d)'
    BY <1>1, <1>2, <1>3, <1>7, <2>1, <2>2, HeldFlushed
  <2>4. QED
    BY <1>1, <1>h, <2>2, <2>3
<1>8. CASE Recover
  <2>1. /\ active' \in Seqs /\ LiveGens' = {active'}
        /\ mem'[active'][k] = Replayed(k)
        /\ \A i \in Entries(active, k)' : wlog'[active'][i] = Replayed(k) /\ Replayed(k) # 0
    BY <1>8, RecoverLog
  <2>2. kv'[k] = OrElse(Replayed(k), FromTables(manifest, k)) /\ levels' = manifest
    BY <1>8 DEF Recover, Recovered, FromTables
  <2>3. NewestHit({active'}, mem', k) = Replayed(k)
    <3>1. \A s \in Seqs : \A t : NewestHit({s}, t, k) = t[s][k]
      BY NewestHitFew
    <3>2. QED
      BY <2>1, <3>1
  <2>4. FromTables(levels, k)' = FromTables(manifest, k)
    BY <2>2, SameTables
  <2>5. OrElse(NewestHit(LiveGens, mem, k), FromTables(levels, k))' = kv'[k]
    BY <2>1, <2>2, <2>3, <2>4
  <2>6. kv'[k] \in Nat
    BY <1>2, Numbers
  <2>7. Fresh(k, OrElse(NewestHit(LiveGens, mem, k), FromTables(levels, k)), kv[k])'
    BY <2>5, <2>6 DEF Fresh
  <2>8. ASSUME NEW g \in LiveGens', HasOlder(g, k, kv[k])' PROVE FALSE
    <3>1. g = active'
      BY <2>1
    <3>2. PICK i \in Entries(active, k)' : wlog'[active'][i] < kv'[k]
      BY <2>8, <3>1 DEF HasOlder, Entries
    <3>3. Replayed(k) # 0 /\ Replayed(k) < kv'[k]
      BY <2>1, <3>2
    <3>4. QED
      BY <2>2, <2>6, <3>3 DEF OrElse
  <2>9. QED
    BY <2>7, <2>8 DEF Held
<1>9. QED
  BY <1>0, <1>4, <1>5, <1>6, <1>7, <1>8, MemorySteps

\* A flush() that is under way was so before, unless this step starts it, and
\* promises what it set out to; only its freeze makes it stop waiting for the
\* active MemTable.
LEMMA CallSteps ==
    ASSUME Inv, CallsInOrder, [Next]_vars, NEW c \in Clients,
           calls'[c] \in {"sync", "drain"}, ~ FlushSync(c)
    PROVE  /\ calls[c] \in {"sync", "drain"} /\ snap'[c] = snap[c]
           /\ mode = "up" /\ mode' = "up"
           /\ Swap \/ calls'[c] = calls[c]
           /\ Swap => calls'[c] = "drain"
<1>0. /\ calls \in [Clients -> {"idle", "sync", "drain", "compact"}]
      /\ snap \in [Clients -> Table] /\ "put" \notin Clients
      /\ wr.pc # "free" \/ fl.pc # "free" => mode = "up"
  BY ClientsAssumption DEF Inv, TypeOK, TypeProcess, TypeHistory, Quiet
<1>a. /\ calls[c] = "sync" => wr.by = c /\ wr.pc \in {"rotate", "swap"}
      /\ wr.pc \in {"rotate", "swap"} /\ wr.by # "put" =>
           wr.by \in Clients /\ calls[wr.by] = "sync"
      /\ mode # "up" => calls[c] = "idle"
  BY DEF CallsInOrder
<1>b. CASE UNCHANGED <<calls, snap, mode>> /\ ~ Swap
  BY <1>0, <1>a, <1>b
<1>1. CASE WritePath
  <2>1. CASE \E b \in Clients : FlushSync(b)
    <3>1. PICK b \in Clients : FlushSync(b)
      BY <2>1
    <3>2. b # c /\ mode' = mode /\ wr.pc = "free"
      BY <3>1 DEF FlushSync
    <3>3. snap' = [snap EXCEPT ![b] = kv]
      BY <3>1 DEF FlushSync
    <3>4. calls' = [calls EXCEPT ![b] = "drain"] \/ calls' = [calls EXCEPT ![b] = "sync"]
      BY <3>1 DEF FlushSync
    <3>5. ~ Swap
      BY <3>2 DEF Swap
    <3>6. QED
      BY <1>0, <1>a, <3>2, <3>3, <3>4, <3>5
  <2>2. CASE RotateFails
    <3>1. /\ calls' = [b \in Clients |-> IF wr.by = b THEN "idle" ELSE calls[b]]
          /\ UNCHANGED <<snap, mode>> /\ wr.pc = "rotate"
      BY <2>2 DEF RotateFails, ghosts
    <3>2. ~ Swap
      BY <3>1 DEF Swap
    <3>3. QED
      BY <1>0, <1>a, <3>1, <3>2
  <2>3. CASE Swap
    <3>1. /\ UNCHANGED <<snap, mode>> /\ wr.pc = "swap"
          /\ \/ wr.by = "put" /\ UNCHANGED calls
             \/ wr.by # "put" /\ calls' = [calls EXCEPT ![wr.by] = "drain"]
      BY <2>3 DEF Swap
    <3>2. QED
      BY <1>0, <1>a, <2>3, <3>1
  <2>4. CASE (\E k \in Keys, del \in BOOLEAN : Write(k, del) \/ WriteSyncFails(k, del))
               \/ (\E freeze \in BOOLEAN : Apply(freeze)) \/ Rotate
    <3>1. UNCHANGED <<calls, snap, mode>> /\ ~ Swap
      BY <2>4 DEF Write, WriteSyncFails, Apply, Rotate, ghosts, Swap
    <3>2. QED
      BY <1>b, <3>1
  <2>5. QED
    BY <1>1, <2>1, <2>2, <2>3, <2>4 DEF WritePath
<1>2. CASE ~ WritePath
  <2>1. ~ Swap
    BY <1>2 DEF WritePath
  <2>2. CASE FlushPipeline
    <3>1. CASE FlushReturn \/ FlushBuildFails \/ FlushManifestFails
      <4>1. /\ calls' = [b \in Clients |-> IF fl.by = b THEN "idle" ELSE calls[b]]
            /\ mode' = mode
        BY <3>1 DEF FlushReturn, FlushBuildFails, FlushManifestFails, Release
      <4>2. snap' = snap \/ snap' = [b \in Clients |-> IF b = fl.by THEN EmptyTable ELSE snap[b]]
        BY <3>1 DEF FlushReturn, FlushBuildFails, FlushManifestFails, ghosts
      <4>3. QED
        BY <1>0, <1>a, <2>1, <4>1, <4>2
    <3>2. UNCHANGED <<calls, snap, mode>> \/ FlushReturn \/ FlushBuildFails \/ FlushManifestFails
      BY <2>2 DEF FlushPipeline, FlushBegin, FlushBuild, FlushCommit, FlushNothing,
         FlushManifest, FlushUnlink, ghosts
    <3>3. QED
      BY <1>b, <2>1, <3>1, <3>2
  <2>3. CASE Compaction
    <3>1. CASE \E p \in Clients \cup {"worker"} : CompactBuild(p)
      <4>1. PICK p \in Clients \cup {"worker"} : CompactBuild(p)
        BY <3>1
      <4>2. /\ calls' = IF p = "worker" THEN calls ELSE [calls EXCEPT ![p] = "compact"]
            /\ UNCHANGED <<snap, mode>>
        BY <4>1 DEF CompactBuild, ghosts
      <4>3. QED
        BY <1>0, <1>a, <2>1, <4>2
    <3>2. CASE CompactManifestFails \/ CompactReturn
      <4>1. /\ calls' = [b \in Clients |-> IF fl.by = b THEN "idle" ELSE calls[b]]
            /\ UNCHANGED <<snap, mode>>
        BY <3>2 DEF CompactManifestFails, CompactReturn, Release, ghosts
      <4>2. QED
        BY <1>0, <1>a, <2>1, <4>1
    <3>3. \/ UNCHANGED <<calls, snap, mode>>
          \/ (\E p \in Clients \cup {"worker"} : CompactBuild(p))
          \/ CompactManifestFails \/ CompactReturn
      BY <2>3 DEF Compaction, CompactBuildFails, CompactNothing, CompactCommit, CompactManifest,
         CompactUnlink, ghosts
    <3>4. QED
      BY <1>b, <2>1, <3>1, <3>2, <3>3
  <2>4. CASE Worker \/ UNCHANGED vars
    <3>1. UNCHANGED <<calls, snap, mode>>
      BY <2>4 DEF Worker, WorkerRecv, WorkerCheck, ghosts, vars
    <3>2. QED
      BY <1>b, <2>1, <3>1
  <2>5. CASE Lifecycle
    <3>1. calls' = [b \in Clients |-> "idle"] \/ (mode # "up" /\ calls' = calls)
      BY <2>5 DEF Lifecycle, Close, Crash, RebackFails, ProcessGone, Recover, Reback, CleanOld
    <3>2. QED
      BY <1>a, <3>1
  <2>6. QED
    BY <1>2, <2>2, <2>3, <2>4, <2>5 DEF Next
<1>3. QED
  BY <1>1, <1>2

\* A promise that the frozen MemTables hold is not spoilt by the active one.
LEMMA HeldMore ==
    ASSUME Inv, LiveLogs, mode # "down", NEW k \in Keys, NEW d \in 0 .. Len(ops),
           Held(imms, k, d)
    PROVE  Held(LiveGens, k, d)
<1>0. /\ imms \subseteq Seqs /\ active \in Seqs /\ \A g \in imms : g < active
      /\ active \in Nat /\ \A g \in imms : g \in Nat
      /\ LiveGens = imms \cup {active} /\ d \in Nat
  BY Numbers DEF LiveGens
<1>1. NewestHit(LiveGens, mem, k) = OrElse(mem[active][k], NewestHit(imms, mem, k))
  BY <1>0, FrozenIsFirst
<1>2. mem[active][k] \in Nat
  <2>1. \A g \in Seqs : mem[g][k] \in 0 .. Len(ops)
    BY <1>0, MemTablesType
  <2>2. mem[active][k] \in 0 .. Len(ops)
    BY <1>0, <2>1
  <2>3. QED
    BY <2>2
<1>3. mem[active][k] # 0 => mem[active][k] >= d
  <2>1. SUFFICES ASSUME mem[active][k] # 0, mem[active][k] < d PROVE FALSE
    BY <1>0, <1>2
  <2>2. HasWrite(active, k, mem[active][k])
    BY <1>0, <2>1 DEF LiveLogs
  <2>3. HasOlder(active, k, d)
    BY <2>1, <2>2 DEF HasWrite, HasOlder
  <2>4. PICK h \in imms : active <= h
    BY <1>0, <2>3 DEF Held
  <2>5. QED
    BY <1>0, <2>4
<1>4. Fresh(k, OrElse(NewestHit(LiveGens, mem, k), FromTables(levels, k)), d)
  <2>1. Fresh(k, OrElse(NewestHit(imms, mem, k), FromTables(levels, k)), d)
    BY DEF Held
  <2>2. CASE mem[active][k] = 0
    BY <1>1, <2>1, <2>2 DEF OrElse
  <2>3. CASE mem[active][k] # 0
    BY <1>1, <1>3, <2>3 DEF OrElse, Fresh
  <2>4. QED
    BY <2>2, <2>3
<1>5. QED
  BY <1>0, <1>4 DEF Held

\* What a flush() is about to promise stays held by the MemTables it waits for.
LEMMA SnapHeldNext ==
    ASSUME Inv, Inv', LogShape, LiveLogs, LiveLogs', CallsInOrder, PromisedIssued,
           AppliedHeld, SnapHeld, [Next]_vars
    PROVE  SnapHeld'
<1>0. SUFFICES ASSUME NEW c \in Clients, calls'[c] \in {"sync", "drain"}, NEW k \in Keys
               PROVE  Held(Awaited(c), k, snap[c][k])'
  BY DEF SnapHeld
<1>h. ASSUME NEW G, NEW e, Awaited(c)' = G, snap'[c][k] = e, Held(G, k, e)'
      PROVE  Held(Awaited(c), k, snap[c][k])'
  BY <1>h DEF Held
<1>n. Len(ops) \in Nat /\ snap[c][k] \in Nat /\ kv[k] \in 0 .. Len(ops)
  <2>1. snap \in [Clients -> [Keys -> Ids]] /\ Ids \subseteq Nat
    BY BasicSets DEF Inv, TypeOK, TypeHistory, Table
  <2>2. snap[c][k] \in Nat
    BY <2>1
  <2>3. Len(ops) \in Nat
    BY Numbers
  <2>4. kv[k] \in 0 .. Len(ops)
    BY DEF Inv, Issued
  <2>5. QED
    BY <2>2, <2>3, <2>4
<1>1. CASE FlushSync(c)
  <2>1. PICK e, F, I : e = kv[k] /\ F = LiveGens /\ I = imms
    OBVIOUS
  <2>2. /\ mode = "up" /\ UNCHANGED <<mode, mem, active, imms, levels>>
        /\ snap' = [snap EXCEPT ![c] = kv]
        /\ IF mem[active] = EmptyTable THEN calls' = [calls EXCEPT ![c] = "drain"]
                                       ELSE calls' = [calls EXCEPT ![c] = "sync"]
    BY <1>1 DEF FlushSync, sstVars
  <2>3. snap'[c][k] = e
    BY <2>1, <2>2 DEF Inv, TypeOK, TypeHistory
  <2>4. Held(F, k, e) /\ F \subseteq Seqs /\ I \subseteq Seqs /\ e \in 0 .. Len(ops)
    BY <1>n, <2>1, <2>2, Numbers DEF AppliedHeld
  <2>5. calls'[c] = IF mem[active] = EmptyTable THEN "drain" ELSE "sync"
    BY <2>2 DEF Inv, TypeOK, TypeProcess
  <2>6. CASE mem[active] # EmptyTable
    <3>1. Awaited(c)' = F
      BY <2>1, <2>2, <2>5, <2>6 DEF Awaited, LiveGens
    <3>2. Held(F, k, e)'
      BY <2>2, <2>4, HeldKept
    <3>3. QED
      BY <1>h, <2>3, <3>1, <3>2
  <2>7. CASE mem[active] = EmptyTable
    <3>1. Awaited(c)' = I
      BY <2>1, <2>2, <2>5, <2>7 DEF Awaited
    <3>2. mem[active][k] = 0
      BY <2>7 DEF EmptyTable
    <3>3. NewestHit(LiveGens, mem, k) = OrElse(mem[active][k], NewestHit(imms, mem, k))
      BY <2>2, Numbers, FrozenIsFirst DEF LiveGens
    <3>4. Fresh(k, OrElse(NewestHit(I, mem, k), FromTables(levels, k)), e)
      BY <2>1, <2>4, <3>2, <3>3 DEF Held, OrElse
    <3>5. \A g \in LiveGens : HasOlder(g, k, e) => \E h \in I : g <= h /\ mem[h][k] # 0
      BY <2>1, <2>4, <3>2 DEF Held, LiveGens
    <3>6. Held(I, k, e)
      BY <3>4, <3>5 DEF Held
    <3>7. Held(I, k, e)'
      BY <2>2, <2>4, <3>6, HeldKept
    <3>8. QED
      BY <1>h, <2>3, <3>1, <3>7
  <2>8. QED
    BY <2>6, <2>7
<1>2. CASE ~ FlushSync(c)
  <2>1. PICK e, F, s : e = snap[c][k] /\ F = Awaited(c) /\ s = calls[c]
    OBVIOUS
  <2>2. /\ s \in {"sync", "drain"} /\ snap'[c][k] = e
        /\ mode = "up" /\ mode' = "up"
        /\ Swap \/ calls'[c] = s
        /\ Swap => calls'[c] = "drain"
    BY <1>0, <1>2, <2>1, CallSteps
  <2>3. /\ Held(F, k, e) /\ e \in 0 .. Len(ops) /\ F \subseteq Seqs /\ F \subseteq LiveGens
        /\ imms \subseteq F /\ active \notin imms
    <3>1. e \in 0 .. Len(ops)
      BY <1>n, <2>1 DEF PromisedIssued
    <3>2. Held(F, k, e)
      BY <2>1, <2>2 DEF SnapHeld
    <3>3. F \subseteq LiveGens /\ imms \subseteq F
      BY <2>1 DEF Awaited, LiveGens
    <3>4. LiveGens \subseteq Seqs /\ active \notin imms
      <4>1. LiveGens \subseteq Seqs /\ active \in Nat /\ \A g \in imms : g < active
        BY <2>2, Numbers
      <4>2. QED
        BY <4>1
    <3>5. QED
      BY <3>1, <3>2, <3>3, <3>4
  <2>4. CASE Swap
    <3>1. PICK n : n = wr.new
      OBVIOUS
    <3>2. imms' = LiveGens /\ calls'[c] = "drain"
      BY <2>2, <2>4, <3>1, SwapAdds
    <3>3. PICK L : L = LiveGens
      OBVIOUS
    <3>4. Awaited(c)' = L
      BY <3>2, <3>3 DEF Awaited
    <3>5. Held(L, k, e)
      <4>1. CASE s = "sync"
        BY <2>1, <2>3, <3>3, <4>1 DEF Awaited, LiveGens
      <4>2. CASE s = "drain"
        <5>1. F = imms
          BY <2>1, <4>2 DEF Awaited
        <5>2. QED
          BY <2>2, <2>3, <3>3, <5>1, HeldMore
      <4>3. QED
        BY <2>2, <4>1, <4>2
    <3>6. Held(L, k, e)'
      BY <2>3, <2>4, <3>1, <3>3, <3>5, HeldSwap
    <3>7. QED
      BY <1>h, <2>2, <3>4, <3>6
  <2>5. CASE /\ ~ Swap /\ UNCHANGED <<mem, active, imms>>
             /\ UNCHANGED levels \/ CompactCommit
    <3>1. Awaited(c)' = F
      BY <2>1, <2>2, <2>5 DEF Awaited
    <3>2. Held(F, k, e)'
      BY <2>2, <2>3, <2>5, HeldKept
    <3>3. QED
      BY <1>h, <2>2, <3>1, <3>2
  <2>6. ASSUME NEW freeze \in BOOLEAN, Apply(freeze) PROVE Held(Awaited(c), k, snap[c][k])'
    <3>1. /\ UNCHANGED <<active, imms, levels>> /\ wr.pc = "apply"
          /\ \A g \in Seqs : g # active => mem'[g][k] = mem[g][k]
      BY <2>6, ApplyWrites
    <3>2. s = "drain" /\ ~ Swap
      BY <2>1, <2>2, <3>1 DEF CallsInOrder, Swap
    <3>3. F = imms /\ Awaited(c)' = F
      BY <2>1, <2>2, <3>1, <3>2 DEF Awaited
    <3>4. \A g \in F : mem'[g][k] = mem[g][k]
      BY <2>3, <3>1, <3>3
    <3>5. Held(F, k, e)'
      BY <2>2, <2>3, <3>1, <3>4, HeldKept
    <3>6. QED
      BY <1>h, <2>2, <3>3, <3>5
  <2>7. CASE FlushCommit
    <3>1. PICK gen : gen = fl.gen
      OBVIOUS
    <3>2. gen \in imms /\ imms' = imms \ {gen} /\ UNCHANGED <<calls, active>>
      BY <2>7, <3>1, FlushedTables DEF FlushCommit
    <3>3. Awaited(c)' = F \ {gen} /\ gen \in F
      BY <2>1, <2>3, <3>2 DEF Awaited
    <3>4. Held(F \ {gen}, k, e)'
      BY <2>3, <2>7, <3>1, <3>3, HeldFlushed
    <3>5. QED
      BY <1>h, <2>2, <3>3, <3>4
  <2>8. ~ Recover /\ mode' # "down"
    BY <2>2 DEF Recover
  <2>9. QED
    BY <2>4, <2>5, <2>6, <2>7, <2>8, MemorySteps
<1>3. QED
  BY <1>1, <1>2
=============================================================================
