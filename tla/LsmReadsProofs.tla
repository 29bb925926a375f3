---------------------------- MODULE LsmReadsProofs ----------------------------
(***************************************************************************)
(* get() against the whole engine, for every value of the constants: it is *)
(* linearizable, and no table it still has to look at disappears unread.   *)
(***************************************************************************)
EXTENDS LsmReadsInv, LsmDurabilityProofs

-----------------------------------------------------------------------------
(* Steps.                                                                  *)

\* A step of get() leaves the engine alone.
LEMMA ReaderSteps ==
    ASSUME NEW r,
           \/ \E k \in Keys : GetBegin(r, k)
           \/ GetActive(r) \/ GetImms(r) \/ GetTable(r) \/ GetNone(r) \/ GetReturn(r)
    PROVE  UNCHANGED vars /\ UNCHANGED arcs /\ opened \subseteq opened' /\ failed \subseteq failed'
  BY DEF GetBegin, GetActive, GetImms, GetTable, GetNone, GetReturn

\* A compaction that cannot open an input changes nothing but where the worker is.
LEMMA OpenFailsSteps ==
    ASSUME NEW p, CompactOpenFails(p)
    PROVE  /\ UNCHANGED <<walFiles, wlog, wos, wsync, files, sst, manifest, mode, mem,
                          active, imms, levels, nextSeq, stale, wr, fl, signals, calls,
                          ops, kv, gone, snap, durable, acked, closed, stops>>
           /\ UNCHANGED <<arcs, rd, gets, seen>>
           /\ opened \subseteq opened' /\ failed \subseteq failed'
           /\ wk' = wk \/ wk' = "recv"
  BY DEF CompactOpenFails, dirVars, ghosts

\* The kinds of steps there are.
LEMMA ReadSteps ==
    ASSUME Inv, [ReadNext]_allVars
    PROVE  \/ EngineStep /\ [Next]_vars
           \/ \E p \in Clients \cup {"worker"} : CompactOpenFails(p)
           \/ \E r \in Readers :
                /\ UNCHANGED vars
                /\ \/ \E k \in Keys : GetBegin(r, k)
                   \/ GetActive(r) \/ GetImms(r) \/ GetTable(r) \/ GetNone(r) \/ GetReturn(r)
           \/ UNCHANGED vars /\ UNCHANGED <<arcs, opened, failed, rd, gets, seen>>
<1>1. CASE UNCHANGED allVars
  BY <1>1 DEF allVars, readVars
<1>2. CASE EngineStep
  BY <1>2 DEF EngineStep
<1>3. ASSUME NEW r \in Readers,
             \/ \E k \in Keys : GetBegin(r, k)
             \/ GetActive(r) \/ GetImms(r) \/ GetTable(r) \/ GetNone(r) \/ GetReturn(r)
      PROVE  UNCHANGED vars
  BY <1>3, ReaderSteps
<1>4. QED
  BY <1>1, <1>2, <1>3 DEF ReadNext

\* The engine keeps its own invariant beside its readers.
LEMMA EngineInvNext ==
    ASSUME Inv, [ReadNext]_allVars PROVE Inv'
<1>1. CASE EngineStep /\ [Next]_vars
  BY <1>1, InvNext
<1>2. CASE UNCHANGED vars
  BY <1>2, InvNext
<1>3. ASSUME NEW p \in Clients \cup {"worker"}, CompactOpenFails(p) PROVE Inv'
  <2>1. /\ UNCHANGED <<walFiles, wlog, wos, wsync, files, sst, manifest, mode, mem,
                       active, imms, levels, nextSeq, stale, wr, fl, signals, calls,
                       ops, kv, gone, snap, durable, acked, closed, stops>>
        /\ wk' = wk \/ wk' = "recv"
    BY <1>3, OpenFailsSteps
  <2>2. TypeOK'
    BY <2>1 DEF Inv, TypeOK, TypeDirectory, TypeProcess, TypeHistory
  <2>3. Quiet' /\ nextSeq <= nextSeq' /\ wlog' \in [Seqs -> Seq(1 .. Len(ops))]
    BY <2>1, Numbers DEF Inv, Quiet, Issued
  <2>4. QED
    BY <2>1, <2>2, <2>3, Frame DEF viewVars
<1>4. QED
  BY <1>1, <1>2, <1>3, ReadSteps

\* The engine leaves "up" only by stopping.
LEMMA UpStays ==
    ASSUME Next, mode = "up", mode' # "down" PROVE mode' = "up"
<1>1. CASE WritePath
  BY <1>1 DEF WritePath, Write, WriteSyncFails, Apply, FlushSync, Rotate, RotateFails, Swap
<1>2. CASE FlushPipeline
  BY <1>2 DEF FlushPipeline, FlushBegin, FlushBuild, FlushBuildFails, FlushCommit,
     FlushNothing, FlushManifest, FlushManifestFails, FlushUnlink, FlushReturn
<1>3. CASE Compaction
  BY <1>3 DEF Compaction, CompactBuild, CompactBuildFails, CompactNothing,
     CompactCommit, CompactManifest, CompactManifestFails, CompactUnlink, CompactReturn
<1>4. CASE Worker
  BY <1>4 DEF Worker, WorkerRecv, WorkerCheck
<1>5. CASE Lifecycle
  BY <1>5 DEF Lifecycle, Close, Crash, RebackFails, ProcessGone, Recover, Reback, CleanOld
<1>6. QED
  BY <1>1, <1>2, <1>3, <1>4, <1>5 DEF Next

\* Numbers only grow while the process lives, and a freeze takes the next one.
LEMMA NumberSteps ==
    ASSUME Inv, Next, mode # "down", mode' # "down"
    PROVE  /\ nextSeq <= nextSeq'
           /\ wr'.pc = "swap" => (wr.pc = "swap" /\ wr'.new = wr.new) \/ wr'.new = nextSeq
<1>0. nextSeq \in Nat /\ wr \in WrType
  BY Numbers DEF Inv, TypeOK, TypeProcess
<1>1. nextSeq' = nextSeq \/ nextSeq' = nextSeq + 1
  <2>1. CASE WritePath
    BY <2>1 DEF WritePath, Write, WriteSyncFails, Apply, FlushSync, Rotate, RotateFails, Swap
  <2>2. CASE FlushPipeline
    BY <2>2 DEF FlushPipeline, FlushBegin, FlushBuild, FlushBuildFails, FlushCommit,
       FlushNothing, FlushManifest, FlushManifestFails, FlushUnlink, FlushReturn
  <2>3. CASE Compaction
    BY <2>3 DEF Compaction, CompactBuild, CompactBuildFails, CompactNothing,
       CompactCommit, CompactManifest, CompactManifestFails, CompactUnlink, CompactReturn
  <2>4. CASE Worker
    BY <2>4 DEF Worker, WorkerRecv, WorkerCheck
  <2>5. CASE Lifecycle
    BY <2>5 DEF Lifecycle, Close, Crash, RebackFails, ProcessGone, Recover, Reback, CleanOld
  <2>6. QED
    BY <2>1, <2>2, <2>3, <2>4, <2>5 DEF Next
<1>2. wr' = wr \/ wr'.pc # "swap" \/ wr'.new = nextSeq
  <2>1. CASE WritePath
    <3>1. CASE Rotate
      BY <1>0, <3>1 DEF Rotate, WrType
    <3>2. ASSUME NEW freeze \in BOOLEAN, Apply(freeze) PROVE wr'.pc # "swap"
      BY <1>0, <3>2 DEF Apply, WrType, WrFree
    <3>3. ASSUME NEW c \in Clients, FlushSync(c) PROVE wr' = wr \/ wr'.pc # "swap"
      BY <3>3 DEF FlushSync
    <3>4. ASSUME NEW k \in Keys, NEW del \in BOOLEAN, Write(k, del) \/ WriteSyncFails(k, del)
          PROVE  wr' = wr \/ wr'.pc # "swap"
      BY <3>4 DEF Write, WriteSyncFails
    <3>5. CASE RotateFails \/ Swap
      BY <3>5 DEF RotateFails, Swap, WrFree
    <3>6. QED
      BY <2>1, <3>1, <3>2, <3>3, <3>4, <3>5 DEF WritePath
  <2>2. CASE FlushPipeline
    BY <2>2 DEF FlushPipeline, FlushBegin, FlushBuild, FlushBuildFails, FlushCommit,
       FlushNothing, FlushManifest, FlushManifestFails, FlushUnlink, FlushReturn
  <2>3. CASE Compaction
    BY <2>3 DEF Compaction, CompactBuild, CompactBuildFails, CompactNothing,
       CompactCommit, CompactManifest, CompactManifestFails, CompactUnlink, CompactReturn
  <2>4. CASE Worker
    BY <2>4 DEF Worker, WorkerRecv, WorkerCheck
  <2>5. CASE Lifecycle
    BY <2>5 DEF Lifecycle, Close, Crash, RebackFails, ProcessGone, Recover, Reback, CleanOld
  <2>6. QED
    BY <2>1, <2>2, <2>3, <2>4, <2>5 DEF Next
<1>3. nextSeq <= nextSeq'
  BY <1>0, <1>1
<1>4. QED
  BY <1>2, <1>3

\* Writes are only added, so an issued write keeps its value.
LEMMA ValueKept ==
    ASSUME Inv, [Next]_vars, NEW w \in 0 .. Len(ops)
    PROVE  Value(w)' = Value(w) /\ w \in 0 .. Len(ops')
<1>0. ops \in Seq([key : Keys, del : BOOLEAN]) /\ Len(ops) \in Nat
  BY Numbers DEF Inv, TypeOK, TypeHistory
<1>1. ops' = ops \/ \E k \in Keys, del \in BOOLEAN : ops' = Append(ops, [key |-> k, del |-> del])
  BY LogSteps DEF Write, WriteSyncFails, Rotate, Crash, Recover, ghosts
<1>2. CASE ops' = ops
  BY <1>2 DEF Value, IsDelete
<1>3. ASSUME NEW k \in Keys, NEW del \in BOOLEAN, ops' = Append(ops, [key |-> k, del |-> del])
      PROVE  Value(w)' = Value(w) /\ w \in 0 .. Len(ops')
  <2>1. Len(ops') = Len(ops) + 1 /\ \A v \in 1 .. Len(ops) : ops'[v] = ops[v]
    BY <1>0, <1>3
  <2>2. CASE w = 0
    BY <1>0, <2>1, <2>2 DEF Value, IsDelete
  <2>3. CASE w # 0
    <3>1. ops'[w] = ops[w]
      BY <1>0, <2>1, <2>3
    <3>2. QED
      BY <1>0, <2>1, <3>1 DEF Value, IsDelete
  <2>4. QED
    BY <2>2, <2>3
<1>4. QED
  BY <1>1, <1>2, <1>3

-----------------------------------------------------------------------------
(* The readers' variables.                                                 *)

\* A reader that is idle has its type.
LEMMA IdleType == RdIdle \in RdType({RdIdle.tables}, {0})
<1>1. 0 \in Nat /\ 0 \in 0 .. MaxSeq
  BY BoundsAssumption
<1>2. QED
  BY <1>1 DEF RdIdle, RdType

\* Readers have their types whatever copies they have.
LEMMA OwnCopies ==
    ASSUME NEW C, NEW A, NEW f \in [Readers -> RdType(C, A)]
    PROVE  Typed(f)
  BY DEF RdType, Typed

\* A step that changes the get() of one reader only, and not what it has copied.
LEMMA ReaderMoves ==
    ASSUME ReadTypes, NEW r \in Readers,
           \/ GetActive(r) \/ GetImms(r) \/ GetTable(r) \/ GetNone(r)
    PROVE  /\ rd[r].pc \in {"active", "imms", "tables"}
           /\ \A q \in Readers : q # r => rd'[q] = rd[q]
           /\ rd'[r].key = rd[r].key /\ rd'[r].act = rd[r].act /\ rd'[r].imms = rd[r].imms
           /\ rd'[r].todo \subseteq rd[r].todo /\ rd'[r].tables = rd[r].tables
           /\ rd'[r].pc \in {"imms", "tables", "answered", "failed"}
           /\ Typed(rd')
           /\ UNCHANGED <<seen, gets>>
<1> DEFINE C == {rd[q].tables : q \in Readers}
           A == {rd[q].answer : q \in Readers}
<1>0. rd \in [Readers -> RdType(C, A)]
  BY DEF ReadTypes, Typed
<1>a. ASSUME NEW D, NEW B, rd' \in [Readers -> RdType(D, B)]
      PROVE  Typed(rd')
  <2>1. PICK f : f = rd'
    OBVIOUS
  <2>2. f \in [Readers -> RdType(D, B)]
    BY <1>a, <2>1
  <2>3. Typed(f)
    BY <2>2, OwnCopies
  <2>4. QED
    BY <2>1, <2>3
<1> HIDE DEF C, A
<1>1. ASSUME NEW w, Answer(r, w)
      PROVE  /\ \A q \in Readers : q # r => rd'[q] = rd[q]
             /\ rd'[r].key = rd[r].key /\ rd'[r].act = rd[r].act /\ rd'[r].imms = rd[r].imms
             /\ rd'[r].todo = rd[r].todo /\ rd'[r].tables = rd[r].tables
             /\ rd'[r].pc = "answered" /\ rd' \in [Readers -> RdType(C, A \cup {Value(w)})]
  <2>1. rd' = [rd EXCEPT ![r] = [rd[r] EXCEPT !.pc = "answered", !.answer = Value(w)]]
    BY <1>0, <1>1 DEF Answer
  <2>2. DOMAIN rd = Readers /\ \A q \in Readers : rd[q] \in RdType(C, A \cup {Value(w)})
    BY <1>0 DEF RdType
  <2>3. [rd[r] EXCEPT !.pc = "answered", !.answer = Value(w)] \in RdType(C, A \cup {Value(w)})
    BY <1>0 DEF RdType
  <2>4. rd' \in [Readers -> RdType(C, A \cup {Value(w)})]
    BY <1>0, <2>1, <2>2, <2>3
  <2>5. /\ \A q \in Readers : q # r => rd'[q] = rd[q]
        /\ rd'[r] = [rd[r] EXCEPT !.pc = "answered", !.answer = Value(w)]
    BY <1>0, <2>1
  <2>6. rd[r] \in RdType(C, A)
    BY <1>0
  <2>7. QED
    BY <2>4, <2>5, <2>6 DEF RdType
<1>2. ASSUME NEW p \in {"imms", "tables", "failed"}, rd' = [rd EXCEPT ![r].pc = p]
      PROVE  /\ \A q \in Readers : q # r => rd'[q] = rd[q]
             /\ rd'[r].key = rd[r].key /\ rd'[r].act = rd[r].act /\ rd'[r].imms = rd[r].imms
             /\ rd'[r].todo = rd[r].todo /\ rd'[r].tables = rd[r].tables
             /\ rd'[r].pc = p /\ rd' \in [Readers -> RdType(C, A)]
  BY <1>0, <1>2 DEF RdType
<1>3. ASSUME NEW h, rd' = [rd EXCEPT ![r].todo = @ \ {h}]
      PROVE  /\ \A q \in Readers : q # r => rd'[q] = rd[q]
             /\ rd'[r].key = rd[r].key /\ rd'[r].act = rd[r].act /\ rd'[r].imms = rd[r].imms
             /\ rd'[r].todo = rd[r].todo \ {h} /\ rd'[r].tables = rd[r].tables
             /\ rd'[r].pc = rd[r].pc /\ rd' \in [Readers -> RdType(C, A)]
  BY <1>0, <1>3 DEF RdType
<1>4. CASE GetActive(r)
  <2>1. /\ rd[r].pc = "active" /\ UNCHANGED <<seen, gets>>
        /\ (\E w : Answer(r, w)) \/ rd' = [rd EXCEPT ![r].pc = "imms"]
    BY <1>4 DEF GetActive
  <2>2. QED
    BY <1>a, <1>1, <1>2, <2>1
<1>5. CASE GetImms(r)
  <2>1. /\ rd[r].pc = "imms" /\ UNCHANGED <<seen, gets>>
        /\ (\E w : Answer(r, w)) \/ rd' = [rd EXCEPT ![r].pc = "tables"]
    BY <1>5 DEF GetImms
  <2>2. QED
    BY <1>a, <1>1, <1>2, <2>1
<1>6. CASE GetNone(r)
  <2>1. rd[r].pc = "tables" /\ UNCHANGED <<seen, gets>> /\ Answer(r, 0)
    BY <1>6 DEF GetNone
  <2>2. QED
    BY <1>a, <1>1, <2>1
<1>7. CASE GetTable(r)
  <2>1. /\ rd[r].pc = "tables" /\ UNCHANGED <<seen, gets>>
        /\ \/ \E h : rd' = [rd EXCEPT ![r].todo = @ \ {h}]
           \/ \E w : Answer(r, w)
           \/ rd' = [rd EXCEPT ![r].pc = "failed"]
    BY <1>7 DEF GetTable, AfterOpenError
  <2>2. CASE \E h : rd' = [rd EXCEPT ![r].todo = @ \ {h}]
    BY <1>a, <1>3, <2>1, <2>2
  <2>3. QED
    BY <1>a, <1>1, <1>2, <2>1, <2>2
<1>8. QED
  BY <1>4, <1>5, <1>6, <1>7

\* The copy that a get() starts with.
LEMMA ReaderBegins ==
    ASSUME Inv, ReadTypes, NEW r \in Readers, NEW k \in Keys, GetBegin(r, k)
    PROVE  /\ mode = "up" /\ UNCHANGED vars /\ UNCHANGED arcs
           /\ \A q \in Readers : q # r => rd'[q] = rd[q] /\ seen'[q] = seen[q]
           /\ rd'[r] = [pc |-> "active", key |-> k, act |-> active, imms |-> imms,
                        todo |-> Runs(levels),
                        tables |-> [h \in Runs(levels) |-> sst[h[1]][h[2]]], answer |-> 0]
           /\ seen'[r] = {Value(kv[k])}
           /\ rd' = [rd EXCEPT ![r] = rd'[r]] /\ DOMAIN seen' = Readers
           /\ UNCHANGED <<opened, failed>>
  BY DEF GetBegin, ReadTypes, Typed, RdIdle

\* The fields of the copy.
LEMMA CopyFields ==
    ASSUME Inv, ReadTypes, NEW r \in Readers, NEW k \in Keys, GetBegin(r, k)
    PROVE  /\ rd'[r].pc = "active" /\ rd'[r].key = k /\ rd'[r].act = active
           /\ rd'[r].imms = imms /\ rd'[r].todo = Runs(levels)
           /\ rd'[r].tables = [h \in Runs(levels) |-> sst[h[1]][h[2]]]
<1>1. PICK c : c = [h \in Runs(levels) |-> sst[h[1]][h[2]]]
  OBVIOUS
<1>2. rd'[r] = [pc |-> "active", key |-> k, act |-> active, imms |-> imms,
                todo |-> Runs(levels), tables |-> c, answer |-> 0]
  BY <1>1, ReaderBegins
<1>3. QED
  BY <1>1, <1>2

\* A get() that returns.
LEMMA ReaderEnds ==
    ASSUME ReadTypes, NEW r \in Readers, GetReturn(r)
    PROVE  /\ UNCHANGED vars /\ UNCHANGED arcs
           /\ \A q \in Readers : q # r => rd'[q] = rd[q] /\ seen'[q] = seen[q]
           /\ rd'[r] = RdIdle
           /\ rd' = [rd EXCEPT ![r] = RdIdle] /\ DOMAIN seen' = Readers
           /\ UNCHANGED <<opened, failed>> /\ rd[r].pc # "idle"
  BY DEF GetReturn, ReadTypes, Typed

\* The engine changes the readers only when it stops.
LEMMA ReadersBeside ==
    ASSUME EngineStep
    PROVE  /\ mode' = "down" => /\ arcs' = NoArcs /\ rd' = [r \in Readers |-> RdIdle]
                                /\ DOMAIN seen' = Readers
           /\ mode' # "down" => /\ UNCHANGED <<rd, failed>> /\ opened \subseteq opened'
                                /\ DOMAIN seen' = Readers
                                /\ \A g \in Seqs : arcs'[g] = IF mem'[g] = EmptyTable
                                                                THEN arcs[g] ELSE mem'[g]
                                /\ DOMAIN arcs' = Seqs /\ arcs' = [g \in Seqs |-> arcs'[g]]
                                /\ \A r \in Readers : rd[r].pc # "idle" =>
                                     /\ seen[r] \subseteq seen'[r]
                                     /\ Value(kv'[rd[r].key]) \in seen'[r]
           /\ Next /\ [Next]_vars
  BY DEF EngineStep

\* A reader that starts or ends a get() has its type.
LEMMA ReaderTypes ==
    ASSUME ReadTypes, NEW r \in Readers, NEW x, NEW c, NEW a, x \in RdType({c}, {a}),
           rd' = [rd EXCEPT ![r] = x]
    PROVE  Typed(rd')
<1>1. PICK f, D, B : /\ f = rd'
                     /\ D = {c} \cup {rd[q].tables : q \in Readers}
                     /\ B = {a} \cup {rd[q].answer : q \in Readers}
  OBVIOUS
<1>2. PICK C, A : C = {rd[q].tables : q \in Readers} /\ A = {rd[q].answer : q \in Readers}
  OBVIOUS
<1>3. rd \in [Readers -> RdType(C, A)] /\ C \subseteq D /\ A \subseteq B /\ c \in D /\ a \in B
  BY <1>1, <1>2 DEF ReadTypes, Typed
<1>4. \A y : y \in RdType(C, A) \/ y \in RdType({c}, {a}) => y \in RdType(D, B)
  BY <1>3 DEF RdType
<1>5. rd' \in [Readers -> RdType(D, B)]
  BY <1>3, <1>4
<1>6. Typed(f)
  <2>1. f \in [Readers -> RdType(D, B)]
    BY <1>1, <1>5
  <2>2. QED
    BY <2>1, OwnCopies
<1>7. QED
  BY <1>1, <1>6

\* Types.
LEMMA ReadTypesNext ==
    ASSUME Inv, Inv', ReadTypes, [ReadNext]_allVars PROVE ReadTypes'
<1>0. /\ \A h \in Handles : h[1] \in Levels /\ h[2] \in Seqs
      /\ Runs(levels) \subseteq Handles
  BY DEF Handles, Runs
<1>1. CASE EngineStep
  <2>1. \A w \in 0 .. Len(ops) : w \in 0 .. Len(ops')
    BY <1>1, ReadersBeside, ValueKept
  <2>2. CASE mode' = "down"
    <3>1. arcs' = NoArcs /\ rd' = [r \in Readers |-> RdIdle] /\ DOMAIN seen' = Readers
      BY <1>1, <2>2, ReadersBeside
    <3>2. PICK f : f = rd'
      OBVIOUS
    <3>3. f \in [Readers -> RdType({RdIdle.tables}, {0})]
      BY <3>1, <3>2, IdleType
    <3>4. Typed(f)
      BY <3>3, OwnCopies
    <3>5. Typed(rd')
      BY <3>2, <3>4
    <3>6. \A r \in Readers : rd'[r].pc = "idle"
      BY <3>1 DEF RdIdle
    <3>7. arcs' \in [Seqs -> [Keys -> 0 .. Len(ops')]]
      <4>1. 0 \in 0 .. Len(ops')
        <5>1. 0 \in 0 .. Len(ops)
          BY Numbers
        <5>2. QED
          BY <2>1, <5>1
      <4>2. QED
        BY <3>1, <4>1 DEF NoArcs, EmptyTable
    <3>8. QED
      BY <3>1, <3>5, <3>6, <3>7 DEF ReadTypes
  <2>3. CASE mode' # "down"
    <3>1. /\ rd' = rd /\ DOMAIN seen' = Readers
          /\ \A g \in Seqs : arcs'[g] = IF mem'[g] = EmptyTable THEN arcs[g] ELSE mem'[g]
          /\ arcs' = [g \in Seqs |-> arcs'[g]]
      BY <1>1, <2>3, ReadersBeside
    <3>2. \A t : t \in [Keys -> 0 .. Len(ops)] => t \in [Keys -> 0 .. Len(ops')]
      BY <2>1
    <3>3. \A g \in Seqs : mem'[g] \in [Keys -> 0 .. Len(ops')] /\ arcs[g] \in [Keys -> 0 .. Len(ops)]
      BY DEF Inv, Issued, ReadTypes
    <3>4. \A g \in Seqs : arcs'[g] \in [Keys -> 0 .. Len(ops')]
      BY <3>1, <3>2, <3>3
    <3>5. arcs' \in [Seqs -> [Keys -> 0 .. Len(ops')]]
      BY <3>1, <3>4
    <3>6. QED
      BY <3>1, <3>2, <3>5 DEF ReadTypes
  <2>4. QED
    BY <2>2, <2>3
<1>2. ASSUME NEW p \in Clients \cup {"worker"}, CompactOpenFails(p) PROVE ReadTypes'
  BY <1>2, OpenFailsSteps DEF ReadTypes
<1>3. ASSUME NEW r \in Readers, GetActive(r) \/ GetImms(r) \/ GetTable(r) \/ GetNone(r)
      PROVE  ReadTypes'
  <2>1. UNCHANGED <<ops, arcs, seen>>
    BY <1>3, ReaderSteps, ReaderMoves DEF vars
  <2>2. /\ Typed(rd')
        /\ \A q \in Readers : q # r => rd'[q] = rd[q]
        /\ rd[r].pc # "idle" /\ rd'[r].key = rd[r].key
        /\ rd'[r].todo \subseteq rd[r].todo /\ rd'[r].tables = rd[r].tables
    BY <1>3, ReaderMoves
  <2>3. QED
    BY <2>1, <2>2 DEF ReadTypes
<1>4. ASSUME NEW r \in Readers, NEW k \in Keys, GetBegin(r, k) PROVE ReadTypes'
  <2>1. PICK c : c = [h \in Runs(levels) |-> sst[h[1]][h[2]]]
    OBVIOUS
  <2>2. /\ UNCHANGED vars /\ UNCHANGED arcs /\ DOMAIN seen' = Readers
        /\ \A q \in Readers : q # r => rd'[q] = rd[q]
        /\ rd'[r] = [pc |-> "active", key |-> k, act |-> active, imms |-> imms,
                     todo |-> Runs(levels), tables |-> c, answer |-> 0]
        /\ rd' = [rd EXCEPT ![r] = rd'[r]]
    BY <1>4, <2>1, ReaderBegins
  <2>3. ops' = ops
    BY <2>2 DEF vars
  <2>4. rd'[r] \in RdType({c}, {0})
    <3>1. k \in Nat /\ active \in 0 .. MaxSeq /\ imms \in SUBSET Seqs /\ Runs(levels) \in SUBSET Handles
      BY <1>0, KeysAssumption DEF Inv, TypeOK, TypeProcess
    <3>2. QED
      BY <2>2, <3>1 DEF RdType
  <2>5. \A h \in Runs(levels) : c[h] \in [Keys -> 0 .. Len(ops)]
    BY <1>0, <2>1 DEF Inv, Issued
  <2>6. Typed(rd')
    <3>1. PICK x : x = rd'[r]
      OBVIOUS
    <3>2. QED
      BY <2>2, <2>4, <3>1, ReaderTypes
  <2>7. rd'[r].key = k /\ rd'[r].todo = Runs(levels) /\ rd'[r].tables = c
    BY <2>2
  <2>8. QED
    BY <2>2, <2>3, <2>5, <2>6, <2>7 DEF ReadTypes
<1>5. ASSUME NEW r \in Readers, GetReturn(r) PROVE ReadTypes'
  <2>1. /\ UNCHANGED vars /\ UNCHANGED arcs /\ DOMAIN seen' = Readers
        /\ \A q \in Readers : q # r => rd'[q] = rd[q]
        /\ rd'[r] = RdIdle /\ rd' = [rd EXCEPT ![r] = RdIdle]
    BY <1>5, ReaderEnds
  <2>2. ops' = ops /\ rd'[r].pc = "idle"
    BY <2>1 DEF vars, RdIdle
  <2>3. Typed(rd')
    BY <2>1, IdleType, ReaderTypes
  <2>4. QED
    BY <2>1, <2>2, <2>3 DEF ReadTypes
<1>6. CASE UNCHANGED vars /\ UNCHANGED <<arcs, opened, failed, rd, gets, seen>>
  BY <1>6 DEF ReadTypes, vars
<1>7. QED
  BY <1>1, <1>2, <1>3, <1>4, <1>5, <1>6, ReadSteps

\* Readers come and go with the engine.
LEMMA ReadersQuietNext ==
    ASSUME Inv, ReadTypes, ReadersQuiet, [ReadNext]_allVars PROVE ReadersQuiet'
<1>0. RdIdle.pc = "idle"
  BY DEF RdIdle
<1>1. CASE EngineStep
  <2>1. CASE mode' = "down"
    BY <1>1, <2>1, ReadersBeside DEF ReadersQuiet
  <2>2. CASE mode' # "down"
    <3>1. rd' = rd /\ (mode = "up" => mode' = "up")
      BY <1>1, <2>2, ReadersBeside, UpStays
    <3>2. QED
      BY <2>2, <3>1 DEF ReadersQuiet
  <2>3. QED
    BY <2>1, <2>2
<1>2. ASSUME NEW p \in Clients \cup {"worker"}, CompactOpenFails(p) PROVE ReadersQuiet'
  BY <1>2, OpenFailsSteps DEF ReadersQuiet
<1>3. ASSUME NEW r \in Readers, GetActive(r) \/ GetImms(r) \/ GetTable(r) \/ GetNone(r)
      PROVE  ReadersQuiet'
  <2>1. rd[r].pc # "idle" /\ UNCHANGED <<mode, arcs>>
    BY <1>3, ReaderMoves, ReaderSteps DEF vars
  <2>2. QED
    BY <1>0, <2>1 DEF ReadersQuiet
<1>4. ASSUME NEW r \in Readers, NEW k \in Keys, GetBegin(r, k) PROVE ReadersQuiet'
  BY <1>4, ReaderBegins DEF ReadersQuiet, vars
<1>5. ASSUME NEW r \in Readers, GetReturn(r) PROVE ReadersQuiet'
  BY <1>0, <1>5, ReaderEnds DEF ReadersQuiet, vars
<1>6. CASE UNCHANGED vars /\ UNCHANGED <<arcs, opened, failed, rd, gets, seen>>
  BY <1>6 DEF ReadersQuiet, vars
<1>7. QED
  BY <1>1, <1>2, <1>3, <1>4, <1>5, <1>6, ReadSteps

-----------------------------------------------------------------------------
(* The Arcs.                                                               *)

\* apply_and_maybe_freeze leaves the other MemTables alone.
LEMMA ApplyElsewhere ==
    ASSUME Inv, NEW freeze, Apply(freeze)
    PROVE  /\ \A g \in Seqs : g # active => mem'[g] = mem[g]
           /\ mem'[active] # EmptyTable
<1>1. mem \in [Seqs -> Table] /\ mem' = [mem EXCEPT ![active][ops[wr.w].key] = wr.w]
  BY DEF Apply, Inv, TypeOK, TypeProcess
<1>2. /\ mem'[active][ops[wr.w].key] = wr.w /\ wr.w \in 1 .. Len(ops)
      /\ ops[wr.w].key \in Keys
  BY ApplyWrites
<1>3. wr.w # 0
  <2>1. Len(ops) \in Nat
    BY Numbers
  <2>2. QED
    BY <1>2, <2>1
<1>4. QED
  BY <1>1, <1>2, <1>3 DEF EmptyTable

\* A generation that is unflushed was so before, and its MemTable changes only by a
\* write.
LEMMA UnflushedSteps ==
    ASSUME Inv, Next, mode # "down", mode' # "down", NEW g \in Seqs, Unflushed(g)'
    PROVE  Unflushed(g) /\ (mem'[g] = mem[g] \/ mem'[g] # EmptyTable)
<1>0. /\ g \in Nat /\ nextSeq \in Nat /\ nextSeq' \in Nat /\ nextSeq <= nextSeq'
      /\ wr'.pc = "swap" => (wr.pc = "swap" /\ wr'.new = wr.new) \/ wr'.new = nextSeq
  <2>1. nextSeq \in Nat /\ g \in Nat
    BY Numbers
  <2>2. nextSeq' \in 1 .. (MaxSeq + 1)
    <3>1. TypeOK'
      BY TypeNext DEF Inv
    <3>2. QED
      BY <3>1 DEF TypeOK, TypeProcess
  <2>3. nextSeq' \in Nat
    BY <2>2, BoundsAssumption
  <2>4. QED
    BY <2>1, <2>3, NumberSteps
<1>1. g >= nextSeq' => g >= nextSeq
  BY <1>0
<1>2. wr'.pc = "swap" /\ g = wr'.new => (wr.pc = "swap" /\ g = wr.new) \/ g >= nextSeq
  BY <1>0
<1>3. CASE UNCHANGED <<mem, active, imms>>
  BY <1>1, <1>2, <1>3 DEF Unflushed
<1>4. ASSUME NEW freeze \in BOOLEAN, Apply(freeze)
      PROVE  Unflushed(g) /\ (mem'[g] = mem[g] \/ mem'[g] # EmptyTable)
  <2>1. UNCHANGED <<active, imms>>
    BY <1>4, ApplyWrites
  <2>2. mem'[g] = mem[g] \/ mem'[g] # EmptyTable
    BY <1>4, ApplyElsewhere
  <2>3. QED
    BY <1>1, <1>2, <2>1, <2>2 DEF Unflushed
<1>5. CASE Swap
  <2>1. /\ wr.pc = "swap" /\ imms' = imms \cup {active} /\ active' = wr.new /\ mem' = mem
    BY <1>5 DEF Swap
  <2>2. QED
    BY <1>1, <1>2, <2>1 DEF Unflushed
<1>6. CASE FlushCommit
  <2>1. PICK gen : gen = fl.gen
    OBVIOUS
  <2>2. /\ mem' = [mem EXCEPT ![gen] = EmptyTable] /\ imms' = imms \ {gen} /\ active' = active
        /\ gen \in imms
    BY <1>6, <2>1 DEF FlushCommit, StillFrozen, Inv, FlushInFlight
  <2>3. Unflushed(g)
    BY <1>1, <1>2, <2>2 DEF Unflushed
  <2>4. gen \in Nat /\ active \in Nat /\ gen < active /\ active < nextSeq
        /\ (wr.pc = "swap" => wr.new \in Nat /\ active < wr.new)
    <3>1. imms \subseteq Seqs /\ \A s \in Seqs : s \in Nat
      BY Numbers
    <3>2. active \in Nat /\ active < nextSeq /\ \A h \in imms : h < active
      BY Numbers
    <3>3. wr.pc = "swap" => wr.new \in Seqs /\ active < wr.new
      BY Numbers
    <3>4. QED
      BY <2>2, <3>1, <3>2, <3>3
  <2>5. g # gen
    <3>1. SUFFICES ASSUME g = gen PROVE FALSE
      OBVIOUS
    <3>2. g \notin imms' /\ g # active'
      BY <2>2, <2>4, <3>1
    <3>3. ~ (g >= nextSeq')
      BY <1>0, <2>4, <3>1
    <3>4. ~ (wr'.pc = "swap" /\ g = wr'.new)
      BY <1>0, <1>2, <2>4, <3>1
    <3>5. QED
      BY <3>2, <3>3, <3>4 DEF Unflushed
  <2>6. mem'[g] = mem[g]
    BY <2>2, <2>5 DEF Inv, TypeOK, TypeProcess
  <2>7. QED
    BY <2>3, <2>6
<1>7. ~ Recover
  BY DEF Recover
<1>8. QED
  BY <1>3, <1>4, <1>5, <1>6, <1>7, MemorySteps

\* Arcs stay current.
LEMMA ArcsCurrentNext ==
    ASSUME Inv, Inv', ReadTypes, ReadersQuiet, ArcsCurrent, [ReadNext]_allVars PROVE ArcsCurrent'
<1>1. CASE EngineStep
  <2>1. CASE mode' = "down"
    <3>1. mem' = [g \in Seqs |-> EmptyTable]
      BY <2>1 DEF Inv, Quiet
    <3>2. QED
      BY <2>1, <3>1 DEF ArcsCurrent
  <2>2. CASE mode' # "down"
    <3>1. \A g \in Seqs : arcs'[g] = IF mem'[g] = EmptyTable THEN arcs[g] ELSE mem'[g]
      BY <1>1, <2>2, ReadersBeside
    <3>2. ASSUME NEW g \in Seqs, Unflushed(g)' PROVE arcs'[g] = mem'[g]
      <4>1. CASE mode = "down"
        BY <3>1, <4>1 DEF ReadersQuiet, NoArcs
      <4>2. CASE mode # "down"
        <5>1. Unflushed(g) /\ (mem'[g] = mem[g] \/ mem'[g] # EmptyTable)
          BY <1>1, <2>2, <3>2, <4>2, ReadersBeside, UnflushedSteps
        <5>2. arcs[g] = mem[g]
          BY <4>2, <5>1 DEF ArcsCurrent
        <5>3. QED
          BY <3>1, <5>1, <5>2
      <4>3. QED
        BY <4>1, <4>2
    <3>3. QED
      BY <3>1, <3>2 DEF ArcsCurrent
  <2>3. QED
    BY <2>1, <2>2
<1>2. UNCHANGED <<mem, mode, imms, active, wr, nextSeq, arcs>> => ArcsCurrent'
  BY DEF ArcsCurrent, Unflushed
<1>3. ASSUME NEW p \in Clients \cup {"worker"}, CompactOpenFails(p) PROVE ArcsCurrent'
  BY <1>2, <1>3, OpenFailsSteps
<1>4. UNCHANGED vars /\ UNCHANGED arcs => ArcsCurrent'
  BY <1>2 DEF vars
<1>5. QED
  BY <1>1, <1>3, <1>4, ReadSteps, ReaderSteps

\* The copies stay older than the active MemTable.
LEMMA CopyIsOldNext ==
    ASSUME Inv, Inv', ReadTypes, ReadersQuiet, CopyIsOld, [ReadNext]_allVars PROVE CopyIsOld'
<1>0. RdIdle.pc = "idle"
  BY DEF RdIdle
<1>1. CASE EngineStep
  <2>1. CASE mode' = "down" \/ mode # "up"
    <3>1. \A r \in Readers : rd'[r].pc = "idle"
      BY <1>0, <1>1, <2>1, ReadersBeside DEF ReadersQuiet
    <3>2. QED
      BY <3>1 DEF CopyIsOld
  <2>2. CASE mode' # "down" /\ mode = "up"
    <3>1. rd' = rd /\ Next /\ [Next]_vars
      BY <1>1, <2>2, ReadersBeside
    <3>2. active \in Nat /\ active' \in Nat /\ active <= active'
      <4>1. active \in Nat /\ (wr.pc = "swap" => wr.new \in Seqs /\ active < wr.new)
        BY Numbers
      <4>2. active' = active \/ Swap
        <5>1. ~ Recover
          BY <2>2 DEF Recover
        <5>2. FlushCommit => active' = active
          BY DEF FlushCommit
        <5>3. ASSUME NEW freeze \in BOOLEAN, Apply(freeze) PROVE active' = active
          BY <5>3 DEF Apply
        <5>4. QED
          BY <2>2, <3>1, <5>1, <5>2, <5>3, MemorySteps
      <4>3. CASE Swap
        <5>1. active' = wr.new /\ wr.pc = "swap"
          BY <4>3 DEF Swap
        <5>2. wr.new \in Nat
          BY <4>1, <5>1, Numbers
        <5>3. QED
          BY <4>1, <5>1, <5>2
      <4>4. QED
        BY <4>1, <4>2, <4>3
    <3>3. \A s \in Seqs : s \in Nat
      BY Numbers
    <3>4. ASSUME NEW r \in Readers, rd[r].pc # "idle"
          PROVE  rd[r].act \in Seqs /\ rd[r].act <= active' /\ \A g \in rd[r].imms : g < rd[r].act
      <4>1. rd[r].act \in Seqs /\ rd[r].act <= active /\ \A g \in rd[r].imms : g < rd[r].act
        BY <3>4 DEF CopyIsOld
      <4>2. rd[r].act \in Nat
        BY <3>3, <4>1
      <4>3. QED
        BY <3>2, <4>1, <4>2
    <3>5. QED
      BY <3>1, <3>4 DEF CopyIsOld
  <2>3. QED
    BY <2>1, <2>2
<1>2. ASSUME NEW p \in Clients \cup {"worker"}, CompactOpenFails(p) PROVE CopyIsOld'
  BY <1>2, OpenFailsSteps DEF CopyIsOld
<1>3. ASSUME NEW r \in Readers, GetActive(r) \/ GetImms(r) \/ GetTable(r) \/ GetNone(r)
      PROVE  CopyIsOld'
  <2>1. active' = active
    BY <1>3, ReaderSteps DEF vars
  <2>2. /\ \A q \in Readers : q # r => rd'[q] = rd[q]
        /\ rd[r].pc # "idle" /\ rd'[r].act = rd[r].act /\ rd'[r].imms = rd[r].imms
    BY <1>3, ReaderMoves
  <2>3. QED
    BY <2>1, <2>2 DEF CopyIsOld
<1>4. ASSUME NEW r \in Readers, NEW k \in Keys, GetBegin(r, k) PROVE CopyIsOld'
  <2>1. /\ mode = "up" /\ UNCHANGED vars
        /\ \A q \in Readers : q # r => rd'[q] = rd[q]
        /\ rd'[r].act = active /\ rd'[r].imms = imms
    BY <1>4, ReaderBegins, CopyFields
  <2>2. active' = active
    BY <2>1 DEF vars
  <2>3. active \in Seqs /\ active \in Nat /\ active <= active /\ \A g \in imms : g < active
    <3>1. active \in Seqs /\ active \in Nat /\ \A g \in imms : g < active
      BY <2>1, Numbers
    <3>2. QED
      BY <3>1
  <2>4. QED
    BY <2>1, <2>2, <2>3 DEF CopyIsOld
<1>5. ASSUME NEW r \in Readers, GetReturn(r) PROVE CopyIsOld'
  BY <1>0, <1>5, ReaderEnds DEF CopyIsOld, vars
<1>6. CASE UNCHANGED vars /\ UNCHANGED <<arcs, opened, failed, rd, gets, seen>>
  BY <1>6 DEF CopyIsOld, vars
<1>7. QED
  BY <1>1, <1>2, <1>3, <1>4, <1>5, <1>6, ReadSteps

-----------------------------------------------------------------------------
(* What a scan finds.                                                      *)

\* What an Arc shows for a key changes only by a write to that key, which is then the
\* newest.
LEMMA ArcsKept ==
    ASSUME Inv, ReadTypes, ArcsCurrent, EngineStep, mode = "up", mode' # "down",
           NEW g \in Seqs, NEW k \in Keys
    PROVE  \/ arcs'[g][k] = arcs[g][k]
           \/ /\ g = active /\ arcs'[g][k] = kv'[k] /\ arcs'[g][k] # 0
              /\ ops' = ops /\ kv'[k] \in 0 .. Len(ops)
<1>0. /\ arcs'[g] = IF mem'[g] = EmptyTable THEN arcs[g] ELSE mem'[g]
      /\ [Next]_vars
  BY ReadersBeside
<1>1. mem[g] # EmptyTable => arcs[g] = mem[g]
  BY DEF ArcsCurrent
<1>2. mem'[g] = mem[g] => arcs'[g][k] = arcs[g][k]
  BY <1>0, <1>1
<1>3. CASE FlushCommit
  <2>1. mem' = [mem EXCEPT ![fl.gen] = EmptyTable]
    BY <1>3 DEF FlushCommit
  <2>2. mem'[g] = mem[g] \/ mem'[g] = EmptyTable
    BY <2>1 DEF Inv, TypeOK, TypeProcess
  <2>3. QED
    BY <1>0, <1>2, <2>2
<1>4. ASSUME NEW freeze \in BOOLEAN, Apply(freeze)
      PROVE  \/ arcs'[g][k] = arcs[g][k]
             \/ /\ g = active /\ arcs'[g][k] = kv'[k] /\ arcs'[g][k] # 0
                /\ ops' = ops /\ kv'[k] \in 0 .. Len(ops)
  <2>1. /\ ops[wr.w].key \in Keys /\ wr.w \in 1 .. Len(ops) /\ ops' = ops
        /\ mem'[active][ops[wr.w].key] = wr.w /\ kv'[ops[wr.w].key] = wr.w
        /\ ~ (g = active /\ k = ops[wr.w].key) => mem'[g][k] = mem[g][k]
    BY <1>4, ApplyWrites
  <2>2. wr.w # 0 /\ wr.w \in 0 .. Len(ops)
    <3>1. Len(ops) \in Nat
      BY Numbers
    <3>2. QED
      BY <2>1, <3>1
  <2>3. CASE g # active
    BY <1>2, <1>4, <2>3, ApplyElsewhere
  <2>4. CASE g = active
    <3>1. mem'[g] # EmptyTable
      BY <1>4, <2>4, ApplyElsewhere
    <3>2. arcs'[g] = mem'[g] /\ arcs[g] = mem[g]
      BY <1>0, <2>4, <3>1 DEF ArcsCurrent, Unflushed
    <3>3. QED
      BY <2>1, <2>2, <2>4, <3>2
  <2>5. QED
    BY <2>3, <2>4
<1>5. Swap => mem' = mem
  BY DEF Swap
<1>6. ~ Recover
  BY DEF Recover
<1>7. QED
  BY <1>0, <1>2, <1>3, <1>4, <1>5, <1>6, MemorySteps

\* The first entry of a scan has been issued.
LEMMA FirstEntryIssued ==
    ASSUME NEW S, NEW T, NEW k \in Keys, NEW n \in Nat, NEW w,
           \A h \in S : T[h] \in [Keys -> 0 .. n], FirstEntry(S, T, k, w)
    PROVE  w \in 0 .. n
<1>1. 0 \in 0 .. n
  OBVIOUS
<1>2. QED
  BY <1>1 DEF FirstEntry

\* And that of the frozen MemTables.
LEMMA NewestHitIssued ==
    ASSUME NEW S, S \subseteq Seqs, NEW T, NEW k \in Keys, NEW n \in Nat,
           T \in [Seqs -> [Keys -> 0 .. n]]
    PROVE  NewestHit(S, T, k) \in 0 .. n
<1>1. 0 \in 0 .. n
  OBVIOUS
<1>2. IsNewest(S, T, k, NewestHit(S, T, k))
  BY NewestHitIs
<1>3. QED
  BY <1>1, <1>2 DEF IsNewest

\* The rest of a scan finds what it would have found before a step of the engine, or
\* the write that the step applies.
LEMMA ScanStays ==
    ASSUME Inv, Inv', ReadTypes, ArcsCurrent, CopyIsOld, EngineStep, mode = "up",
           mode' # "down", NEW r \in Readers, rd[r].pc # "idle"
    PROVE  /\ FromCopies(r) => FromCopies(r)'
           /\ FromFrozen(r) => FromFrozen(r)'
           /\ FromActive(r) => FromActive(r)'
<1>0. /\ rd' = rd /\ seen[r] \subseteq seen'[r] /\ Value(kv'[rd[r].key]) \in seen'[r]
      /\ [Next]_vars
  BY ReadersBeside
<1>1. PICK key, act, S, todo, tables :
        /\ key = rd[r].key /\ act = rd[r].act /\ S = rd[r].imms
        /\ todo = rd[r].todo /\ tables = rd[r].tables
  OBVIOUS
<1>2. /\ key \in Keys /\ act \in Seqs /\ S \subseteq Seqs
      /\ \A h \in todo : tables[h] \in [Keys -> 0 .. Len(ops)]
      /\ \A g \in S : g < act
      /\ act <= active
  <2>1. S \subseteq Seqs
    BY <1>1 DEF ReadTypes, Typed, RdType
  <2>2. QED
    BY <1>1, <2>1 DEF ReadTypes, CopyIsOld
<1>3. \A w \in 0 .. Len(ops) : Value(w) \in seen[r] => Value(w)' \in seen'[r]
  BY <1>0, ValueKept
<1>4. Len(ops) \in Nat
  BY Numbers
<1>5. ASSUME FromCopies(r) PROVE FromCopies(r)'
  <2>1. SUFFICES ASSUME NEW w, FirstEntry(todo, tables, key, w)
                 PROVE  Value(w)' \in seen'[r]
    BY <1>0, <1>1 DEF FromCopies
  <2>2. w \in 0 .. Len(ops)
    BY <1>2, <1>4, <2>1, FirstEntryIssued
  <2>3. Value(w) \in seen[r]
    BY <1>1, <1>5, <2>1, <2>2 DEF FromCopies
  <2>4. QED
    BY <1>3, <2>2, <2>3
<1>6. ASSUME FromFrozen(r) PROVE FromFrozen(r)'
  <2>1. PICK a, b : a = arcs /\ b = arcs'
    OBVIOUS
  <2>2. \A g \in S : b[g][key] = a[g][key]
    <3>1. SUFFICES ASSUME NEW g \in S PROVE b[g][key] = a[g][key]
      OBVIOUS
    <3>2. g \in Nat /\ act \in Nat /\ active \in Nat /\ g \in Seqs
      BY <1>2, Numbers
    <3>3. g # active
      BY <1>2, <3>2
    <3>4. QED
      BY <1>2, <2>1, <3>2, <3>3, ArcsKept
  <2>3. NewestHit(S, b, key) = NewestHit(S, a, key)
    BY <1>2, <2>2, NewestHitSame
  <2>4. PICK hit : hit = NewestHit(S, a, key)
    OBVIOUS
  <2>5. hit \in 0 .. Len(ops)
    BY <1>2, <1>4, <2>1, <2>4, NewestHitIssued DEF ReadTypes
  <2>6. IF hit # 0 THEN Value(hit) \in seen[r] ELSE FromCopies(r)
    BY <1>1, <1>6, <2>1, <2>4 DEF FromFrozen
  <2>7. IF hit # 0 THEN Value(hit)' \in seen'[r] ELSE FromCopies(r)'
    BY <1>3, <1>5, <2>5, <2>6
  <2>8. QED
    BY <1>0, <1>1, <2>1, <2>3, <2>4, <2>7 DEF FromFrozen
<1>7. ASSUME FromActive(r) PROVE FromActive(r)'
  <2>1. PICK hit, now : hit = arcs[act][key] /\ now = arcs'[act][key]
    OBVIOUS
  <2>2. hit \in 0 .. Len(ops)
    BY <1>2, <2>1 DEF ReadTypes
  <2>3. IF hit # 0 THEN Value(hit) \in seen[r] ELSE FromFrozen(r)
    BY <1>1, <1>7, <2>1 DEF FromActive
  <2>4. CASE now = hit
    <3>1. IF now # 0 THEN Value(now)' \in seen'[r] ELSE FromFrozen(r)'
      BY <1>3, <1>6, <2>2, <2>3, <2>4
    <3>2. QED
      BY <1>0, <1>1, <2>1, <3>1 DEF FromActive
  <2>5. CASE now # hit
    <3>1. now = kv'[key] /\ now # 0 /\ ops' = ops /\ kv'[key] \in 0 .. Len(ops)
      BY <1>2, <2>1, <2>5, ArcsKept
    <3>2. Value(now) \in seen'[r]
      BY <1>0, <1>1, <3>1
    <3>3. Value(now)' \in seen'[r]
      BY <3>1, <3>2 DEF Value, IsDelete
    <3>4. QED
      BY <1>0, <1>1, <2>1, <3>1, <3>3 DEF FromActive
  <2>6. QED
    BY <2>4, <2>5
<1>8. QED
  BY <1>5, <1>6, <1>7

\* The first handle of a scan.
LEMMA NextTableIs ==
    ASSUME NEW todo, todo \subseteq Handles, todo # {}
    PROVE  NextTable(todo) \in todo /\ \A q \in todo : NoLater(NextTable(todo), q)
<1>1. SUFFICES \E h \in todo : \A q \in todo : h[1] < q[1] \/ (h[1] = q[1] /\ h[2] >= q[2])
  BY DEF NextTable, NoLater
<1>2. /\ \A h \in Handles : h[1] \in {0, 1} /\ h[2] \in Seqs /\ h = <<h[1], h[2]>>
      /\ Seqs \subseteq 0 .. MaxSeq /\ MaxSeq \in Nat
  BY BoundsAssumption DEF Handles, Levels, Seqs
<1>3. ASSUME NEW l \in {0, 1}, \E h \in todo : h[1] = l
      PROVE  \E h \in todo : h[1] = l /\ \A q \in todo : q[1] = l => h[2] >= q[2]
  <2>1. PICK S : S = {h[2] : h \in {q \in todo : q[1] = l}}
    OBVIOUS
  <2>2. S \subseteq 0 .. MaxSeq /\ S # {}
    BY <1>2, <1>3, <2>1
  <2>3. Max(S) \in S /\ \A x \in S : x <= Max(S)
    BY <1>2, <2>2, MaxOfBounded
  <2>4. PICK h \in todo : h[1] = l /\ h[2] = Max(S)
    BY <2>1, <2>3
  <2>5. ASSUME NEW q \in todo, q[1] = l PROVE h[2] >= q[2]
    <3>1. q[2] \in S
      BY <2>1, <2>5
    <3>2. q[2] <= h[2] /\ q[2] \in 0 .. MaxSeq /\ h[2] \in 0 .. MaxSeq
      BY <2>2, <2>3, <2>4, <3>1
    <3>3. QED
      BY <1>2, <3>2
  <2>6. QED
    BY <2>4, <2>5
<1>4. CASE \E h \in todo : h[1] = 0
  <2>1. PICK h \in todo : h[1] = 0 /\ \A q \in todo : q[1] = 0 => h[2] >= q[2]
    BY <1>3, <1>4
  <2>2. \A q \in todo : q[1] = 0 \/ q[1] = 1
    BY <1>2
  <2>3. QED
    BY <2>1, <2>2
<1>5. CASE ~ \E h \in todo : h[1] = 0
  <2>1. \A q \in todo : q[1] = 1
    BY <1>2, <1>5
  <2>2. PICK h \in todo : h[1] = 1 /\ \A q \in todo : q[1] = 1 => h[2] >= q[2]
    BY <1>3, <2>1
  <2>3. QED
    BY <2>1, <2>2
<1>6. QED
  BY <1>4, <1>5

\* A scan of the live tables finds what a lookup finds below the MemTables.
LEMMA CopyAnswers ==
    ASSUME Inv, NEW T, T = [h \in Runs(levels) |-> sst[h[1]][h[2]]],
           NEW k \in Keys, NEW w, FirstEntry(Runs(levels), T, k, w)
    PROVE  w = OrElse(NewestHit(levels[0], sst[0], k), NewestHit(levels[1], sst[1], k))
<1>1. PICK a, b : a = NewestHit(levels[0], sst[0], k) /\ b = NewestHit(levels[1], sst[1], k)
  OBVIOUS
<1>2. 0 \in Levels /\ 1 \in Levels /\ \A l \in Levels : l = 0 \/ l = 1
  BY DEF Levels
<1>3. \A l \in Levels : levels[l] \subseteq Seqs
  BY DEF Inv, TypeOK, TypeProcess
<1>4. IsNewest(levels[0], sst[0], k, a) /\ IsNewest(levels[1], sst[1], k, b)
  BY <1>1, <1>2, <1>3, NewestHitIs
<1>5. \A l \in Levels : \A s \in levels[l] :
        <<l, s>> \in Runs(levels) /\ T[<<l, s>>] = sst[l][s]
  BY <1>3 DEF Runs
<1>6. \A h \in Runs(levels) : h[1] \in Levels /\ h[2] \in levels[h[1]] /\ T[h] = sst[h[1]][h[2]]
  BY DEF Runs
<1>7. CASE w = 0 /\ \A h \in Runs(levels) : T[h][k] = 0
  <2>1. \A l \in Levels : \A s \in levels[l] : sst[l][s][k] = 0
    BY <1>5, <1>7
  <2>2. a = 0 /\ b = 0
    BY <1>2, <1>4, <2>1 DEF IsNewest
  <2>3. QED
    BY <1>1, <1>7, <2>2 DEF OrElse
<1>8. ASSUME NEW h \in Runs(levels), T[h][k] # 0, w = T[h][k],
             \A q \in Runs(levels) : T[q][k] # 0 => NoLater(h, q)
      PROVE  w = OrElse(a, b)
  <2>0. /\ h[1] \in Levels /\ h[2] \in levels[h[1]] /\ T[h] = sst[h[1]][h[2]]
        /\ \A l \in Levels : \A s \in levels[l] : s \in Nat
    BY <1>3, <1>6, Numbers
  <2>1. ASSUME NEW l \in Levels, NEW s \in levels[l], sst[l][s][k] # 0
        PROVE  h[1] < l \/ (h[1] = l /\ h[2] >= s)
    <3>1. PICK q : q = <<l, s>>
      OBVIOUS
    <3>2. q \in Runs(levels) /\ T[q][k] # 0 /\ q[1] = l /\ q[2] = s
      BY <1>5, <2>1, <3>1
    <3>3. QED
      BY <1>8, <3>2 DEF NoLater
  <2>2. CASE h[1] = 0
    <3>1. h[2] \in levels[0] /\ sst[0][h[2]][k] = w /\ w # 0
      BY <1>8, <2>0, <2>2
    <3>2. PICK s \in levels[0] : /\ sst[0][s][k] # 0 /\ a = sst[0][s][k]
                                 /\ \A t \in levels[0] : sst[0][t][k] # 0 => t <= s
      BY <1>4, <3>1 DEF IsNewest
    <3>3. h[2] <= s /\ h[2] >= s
      BY <1>2, <2>1, <2>2, <3>1, <3>2
    <3>4. h[2] = s
      BY <1>2, <2>0, <3>1, <3>2, <3>3
    <3>5. QED
      BY <3>1, <3>2, <3>4 DEF OrElse
  <2>3. CASE h[1] = 1
    <3>1. h[2] \in levels[1] /\ sst[1][h[2]][k] = w /\ w # 0
      BY <1>8, <2>0, <2>3
    <3>2. \A s \in levels[0] : sst[0][s][k] = 0
      BY <1>2, <2>1, <2>3
    <3>3. a = 0
      BY <1>4, <3>2 DEF IsNewest
    <3>4. PICK s \in levels[1] : /\ sst[1][s][k] # 0 /\ b = sst[1][s][k]
                                 /\ \A t \in levels[1] : sst[1][t][k] # 0 => t <= s
      BY <1>4, <3>1 DEF IsNewest
    <3>5. h[2] <= s /\ h[2] >= s
      BY <1>2, <2>1, <2>3, <3>1, <3>4
    <3>6. h[2] = s
      BY <1>2, <2>0, <3>1, <3>4, <3>5
    <3>7. QED
      BY <3>1, <3>3, <3>4, <3>6 DEF OrElse
  <2>4. QED
    BY <1>2, <2>0, <2>2, <2>3
<1>9. QED
  BY <1>1, <1>7, <1>8 DEF FirstEntry

\* A get() begins with everything that is current.
LEMMA CopyIsCurrent ==
    ASSUME Inv, ReadTypes, ArcsCurrent, NEW r \in Readers, NEW k \in Keys, GetBegin(r, k)
    PROVE  FromActive(r)'
<1>0. mode = "up" /\ UNCHANGED vars /\ UNCHANGED arcs /\ seen'[r] = {Value(kv[k])}
  BY ReaderBegins
<1>1. UNCHANGED ops
  BY <1>0 DEF vars
<1>2. PICK T : T = [h \in Runs(levels) |-> sst[h[1]][h[2]]]
  OBVIOUS
<1>3. /\ rd'[r].key = k /\ rd'[r].act = active /\ rd'[r].imms = imms
      /\ rd'[r].todo = Runs(levels) /\ rd'[r].tables = T
  BY <1>2, CopyFields
<1>4. Value(Lookup(k)) \in seen'[r]
  BY <1>0 DEF Inv, View
<1>5. active \in Seqs /\ imms \subseteq Seqs
  BY <1>0, Numbers
<1>6. /\ arcs[active] = mem[active]
      /\ \A g \in imms : arcs[g] = mem[g]
  BY <1>0, <1>5 DEF ArcsCurrent, Unflushed
<1>7. NewestHit(imms, arcs, k) = NewestHit(imms, mem, k)
  <2>1. PICK a, m : a = arcs /\ m = mem
    OBVIOUS
  <2>2. \A g \in imms : a[g][k] = m[g][k]
    BY <1>6, <2>1
  <2>3. QED
    BY <1>5, <2>1, <2>2, NewestHitSame
<1>8. PICK x, y, z : /\ x = mem[active][k] /\ y = NewestHit(imms, mem, k)
                     /\ z = OrElse(NewestHit(levels[0], sst[0], k), NewestHit(levels[1], sst[1], k))
  OBVIOUS
<1>9. Value(OrElse(x, OrElse(y, z))) \in seen'[r]
  BY <1>4, <1>8 DEF Lookup
<1>10. ASSUME x = 0, y = 0 PROVE FromCopies(r)'
  <2>1. Value(z) \in seen'[r]
    BY <1>9, <1>10 DEF OrElse
  <2>2. ASSUME NEW w, FirstEntry(Runs(levels), T, k, w) PROVE Value(w)' \in seen'[r]
    <3>1. w = z
      BY <1>2, <1>8, <2>2, CopyAnswers
    <3>2. QED
      BY <1>1, <2>1, <3>1 DEF Value, IsDelete
  <2>3. QED
    BY <1>3, <2>2 DEF FromCopies
<1>11. ASSUME x = 0 PROVE FromFrozen(r)'
  <2>1. CASE y = 0
    <3>1. NewestHit(rd'[r].imms, arcs', rd'[r].key) = 0
      BY <1>0, <1>3, <1>7, <1>8, <2>1
    <3>2. QED
      BY <1>10, <1>11, <2>1, <3>1 DEF FromFrozen
  <2>2. CASE y # 0
    <3>1. Value(y) \in seen'[r]
      BY <1>9, <1>11, <2>2 DEF OrElse
    <3>2. Value(y)' \in seen'[r]
      BY <1>1, <3>1 DEF Value, IsDelete
    <3>3. NewestHit(rd'[r].imms, arcs', rd'[r].key) = y
      BY <1>0, <1>3, <1>7, <1>8
    <3>4. QED
      BY <2>2, <3>2, <3>3 DEF FromFrozen
  <2>3. QED
    BY <2>1, <2>2
<1>12. arcs'[rd'[r].act][rd'[r].key] = x
  BY <1>0, <1>3, <1>6, <1>8
<1>13. CASE x = 0
  BY <1>11, <1>12, <1>13 DEF FromActive
<1>14. CASE x # 0
  <2>1. Value(x) \in seen'[r]
    BY <1>9, <1>14 DEF OrElse
  <2>2. Value(x)' \in seen'[r]
    BY <1>1, <2>1 DEF Value, IsDelete
  <2>3. QED
    BY <1>12, <1>14, <2>2 DEF FromActive
<1>15. QED
  BY <1>13, <1>14

\* The outcomes of a step of get().
LEMMA ReaderOutcome ==
    ASSUME ReadTypes, NEW r \in Readers
    PROVE  /\ \A w : Answer(r, w) => rd'[r].pc = "answered" /\ rd'[r].answer = Value(w)
           /\ \A p : rd' = [rd EXCEPT ![r].pc = p] => rd'[r].pc = p /\ rd'[r].todo = rd[r].todo
           /\ \A h : rd' = [rd EXCEPT ![r].todo = @ \ {h}] =>
                rd'[r].pc = rd[r].pc /\ rd'[r].todo = rd[r].todo \ {h}
<1>1. PICK C, A : rd \in [Readers -> RdType(C, A)]
  BY DEF ReadTypes, Typed
<1>2. QED
  BY <1>1 DEF RdType, Answer

\* A scan is judged by its own copy only.
LEMMA ScanBeside ==
    ASSUME UNCHANGED <<ops, arcs>>, NEW q \in Readers, seen'[q] = seen[q],
           rd'[q].key = rd[q].key, rd'[q].act = rd[q].act, rd'[q].imms = rd[q].imms,
           rd'[q].todo = rd[q].todo, rd'[q].tables = rd[q].tables
    PROVE  /\ FromCopies(q) => FromCopies(q)'
           /\ FromFrozen(q) => FromFrozen(q)'
           /\ FromActive(q) => FromActive(q)'
<1>1. ASSUME FromCopies(q) PROVE FromCopies(q)'
  BY <1>1 DEF FromCopies, Value, IsDelete
<1>2. ASSUME FromFrozen(q) PROVE FromFrozen(q)'
  BY <1>1, <1>2 DEF FromFrozen, Value, IsDelete
<1>3. ASSUME FromActive(q) PROVE FromActive(q)'
  BY <1>2, <1>3 DEF FromActive, Value, IsDelete
<1>4. QED
  BY <1>1, <1>2, <1>3

\* A table looked at in vain does not count.
LEMMA FirstEntryRest ==
    ASSUME NEW S, NEW T, NEW k, NEW w, NEW h, T[h][k] = 0, FirstEntry(S \ {h}, T, k, w)
    PROVE  FirstEntry(S, T, k, w)
<1>1. CASE w = 0 /\ \A q \in S \ {h} : T[q][k] = 0
  BY <1>1 DEF FirstEntry
<1>2. ASSUME NEW q \in S \ {h}, T[q][k] # 0, w = T[q][k],
             \A x \in S \ {h} : T[x][k] # 0 => NoLater(q, x)
      PROVE  FirstEntry(S, T, k, w)
  <2>1. \A x \in S : T[x][k] # 0 => NoLater(q, x)
    BY <1>2
  <2>2. QED
    BY <1>2, <2>1 DEF FirstEntry
<1>3. QED
  BY <1>1, <1>2 DEF FirstEntry

\* One step of get() finds an entry that was current, or leaves it to the rest of the
\* scan to find one.
LEMMA ScanGoesOn ==
    ASSUME Inv, ReadTypes, ScanIsCurrent, NEW r \in Readers,
           GetActive(r) \/ GetImms(r) \/ GetTable(r) \/ GetNone(r)
    PROVE  /\ rd'[r].pc = "imms" => FromFrozen(r)'
           /\ rd'[r].pc = "tables" => FromCopies(r)'
           /\ rd'[r].pc = "answered" => rd'[r].answer \in seen'[r]
           /\ rd'[r].pc # "active"
<1>0. /\ rd'[r].key = rd[r].key /\ rd'[r].act = rd[r].act /\ rd'[r].imms = rd[r].imms
      /\ rd'[r].tables = rd[r].tables /\ seen' = seen
      /\ rd'[r].pc \in {"imms", "tables", "answered", "failed"}
  BY ReaderMoves
<1>1. UNCHANGED <<ops, arcs>>
  BY ReaderSteps DEF vars
<1>2. rd[r].pc # "idle" => rd[r].key \in Keys
  BY DEF ReadTypes
<1>a. /\ \A w : Answer(r, w) => rd'[r].pc = "answered" /\ rd'[r].answer = Value(w)
      /\ \A p : rd' = [rd EXCEPT ![r].pc = p] => rd'[r].pc = p /\ rd'[r].todo = rd[r].todo
      /\ \A h : rd' = [rd EXCEPT ![r].todo = @ \ {h}] =>
           rd'[r].pc = rd[r].pc /\ rd'[r].todo = rd[r].todo \ {h}
  BY ReaderOutcome
<1>b. rd'[r].todo = rd[r].todo => /\ FromCopies(r) => FromCopies(r)'
                                  /\ FromFrozen(r) => FromFrozen(r)'
  BY <1>0, <1>1, ScanBeside
<1>3. CASE GetActive(r)
  <2>1. PICK hit : hit = arcs[rd[r].act][rd[r].key]
    OBVIOUS
  <2>2. IF hit # 0 THEN Answer(r, hit) ELSE rd' = [rd EXCEPT ![r].pc = "imms"]
    BY <1>3, <2>1 DEF GetActive, HeldTables
  <2>3. IF hit # 0 THEN Value(hit) \in seen[r] ELSE FromFrozen(r)
    BY <1>3, <2>1 DEF GetActive, ScanIsCurrent, FromActive
  <2>4. CASE hit # 0
    BY <1>0, <1>a, <2>2, <2>3, <2>4
  <2>5. CASE hit = 0
    BY <1>a, <1>b, <2>2, <2>3, <2>5
  <2>6. QED
    BY <2>4, <2>5
<1>4. CASE GetImms(r)
  <2>1. PICK hit : hit = NewestHit(rd[r].imms, arcs, rd[r].key)
    OBVIOUS
  <2>2. IF hit # 0 THEN Answer(r, hit) ELSE rd' = [rd EXCEPT ![r].pc = "tables"]
    BY <1>4, <2>1 DEF GetImms, HeldTables
  <2>3. IF hit # 0 THEN Value(hit) \in seen[r] ELSE FromCopies(r)
    BY <1>4, <2>1 DEF GetImms, ScanIsCurrent, FromFrozen
  <2>4. CASE hit # 0
    BY <1>0, <1>a, <2>2, <2>3, <2>4
  <2>5. CASE hit = 0
    BY <1>a, <1>b, <2>2, <2>3, <2>5
  <2>6. QED
    BY <2>4, <2>5
<1>5. CASE GetNone(r)
  <2>1. rd[r].pc = "tables" /\ rd[r].todo = {} /\ Answer(r, 0)
    BY <1>5 DEF GetNone
  <2>2. FirstEntry(rd[r].todo, rd[r].tables, rd[r].key, 0) /\ 0 \in 0 .. Len(ops)
    BY <2>1, Numbers DEF FirstEntry
  <2>3. Value(0) \in seen[r]
    BY <2>1, <2>2 DEF ScanIsCurrent, FromCopies
  <2>4. QED
    BY <1>0, <1>a, <2>1, <2>3
<1>6. CASE GetTable(r)
  <2>1. PICK todo, T, k : todo = rd[r].todo /\ T = rd[r].tables /\ k = rd[r].key
    OBVIOUS
  <2>2. PICK h : h = NextTable(todo)
    OBVIOUS
  <2>3. /\ rd[r].pc = "tables" /\ todo # {} /\ todo \subseteq Handles /\ k \in Keys
        /\ \A q \in todo : T[q] \in [Keys -> 0 .. Len(ops)]
    <3>1. rd[r].pc = "tables" /\ todo # {}
      BY <1>6, <2>1 DEF GetTable
    <3>2. todo \subseteq Handles
      BY <2>1 DEF ReadTypes, Typed, RdType
    <3>3. QED
      BY <2>1, <3>1, <3>2 DEF ReadTypes
  <2>4. h \in todo /\ \A q \in todo : NoLater(h, q)
    BY <2>2, <2>3, NextTableIs
  <2>5. FromCopies(r)
    BY <2>3 DEF ScanIsCurrent
  <2>6. \/ ~ InRange(T[h], k) /\ rd' = [rd EXCEPT ![r].todo = @ \ {h}]
        \/ IF T[h][k] # 0 THEN Answer(r, T[h][k]) ELSE rd' = [rd EXCEPT ![r].todo = @ \ {h}]
        \/ rd' = [rd EXCEPT ![r].pc = "failed"]
    BY <1>6, <2>1, <2>2 DEF GetTable, AfterOpenError
  <2>7. ~ InRange(T[h], k) => T[h][k] = 0
    <3>1. k \in Nat
      BY <2>3, KeysAssumption
    <3>2. QED
      BY <2>3, <3>1 DEF InRange
  <2>8. CASE T[h][k] # 0 /\ Answer(r, T[h][k])
    <3>1. FirstEntry(todo, T, k, T[h][k])
      BY <2>4, <2>8 DEF FirstEntry
    <3>2. T[h][k] \in 0 .. Len(ops)
      BY <2>3, <2>4
    <3>3. Value(T[h][k]) \in seen[r]
      BY <2>1, <2>5, <3>1, <3>2 DEF FromCopies
    <3>4. QED
      BY <1>0, <1>a, <2>8, <3>3
  <2>9. CASE T[h][k] = 0 /\ rd' = [rd EXCEPT ![r].todo = @ \ {h}]
    <3>1. rd'[r].pc = "tables" /\ rd'[r].todo = todo \ {h}
      BY <1>a, <2>1, <2>3, <2>9
    <3>2. ASSUME NEW w \in 0 .. Len(ops), FirstEntry(todo \ {h}, T, k, w)
          PROVE  Value(w)' \in seen'[r]
      <4>1. FirstEntry(todo, T, k, w)
        BY <2>9, <3>2, FirstEntryRest
      <4>2. Value(w) \in seen[r]
        BY <2>1, <2>5, <3>2, <4>1 DEF FromCopies
      <4>3. QED
        BY <1>0, <1>1, <4>2 DEF Value, IsDelete
    <3>3. FromCopies(r)'
      BY <1>0, <1>1, <2>1, <3>1, <3>2 DEF FromCopies
    <3>4. QED
      BY <3>1, <3>3
  <2>10. CASE rd' = [rd EXCEPT ![r].pc = "failed"]
    BY <1>a, <2>10
  <2>11. QED
    BY <2>6, <2>7, <2>8, <2>9, <2>10
<1>7. QED
  BY <1>3, <1>4, <1>5, <1>6

\* Every scan stays current, and so is the answer it ends with.
LEMMA ScanIsCurrentNext ==
    ASSUME Inv, Inv', ReadTypes, ReadersQuiet, ArcsCurrent, CopyIsOld, ScanIsCurrent,
           ReadIsCurrent, [ReadNext]_allVars
    PROVE  ScanIsCurrent' /\ ReadIsCurrent'
<1>0. RdIdle.pc = "idle"
  BY DEF RdIdle
<1>1. CASE EngineStep
  <2>1. CASE mode' = "down" \/ mode # "up"
    <3>1. \A r \in Readers : rd'[r].pc = "idle"
      BY <1>0, <1>1, <2>1, ReadersBeside DEF ReadersQuiet
    <3>2. QED
      BY <3>1 DEF ScanIsCurrent, ReadIsCurrent
  <2>2. CASE mode' # "down" /\ mode = "up"
    <3>1. rd' = rd /\ \A r \in Readers : rd[r].pc # "idle" => seen[r] \subseteq seen'[r]
      BY <1>1, <2>2, ReadersBeside
    <3>2. ReadIsCurrent'
      BY <3>1 DEF ReadIsCurrent
    <3>3. \A r \in Readers : rd[r].pc # "idle" =>
            /\ FromCopies(r) => FromCopies(r)'
            /\ FromFrozen(r) => FromFrozen(r)'
            /\ FromActive(r) => FromActive(r)'
      BY <1>1, <2>2, ScanStays
    <3>4. ScanIsCurrent'
      BY <3>1, <3>3 DEF ScanIsCurrent
    <3>5. QED
      BY <3>2, <3>4
  <2>3. QED
    BY <2>1, <2>2
<1>2. ASSUME UNCHANGED <<ops, arcs>>, NEW q \in Readers, seen'[q] = seen[q], rd'[q] = rd[q]
      PROVE  /\ FromCopies(q) => FromCopies(q)'
             /\ FromFrozen(q) => FromFrozen(q)'
             /\ FromActive(q) => FromActive(q)'
  BY <1>2, ScanBeside
<1>3. CASE UNCHANGED <<ops, arcs, seen, rd>>
  BY <1>2, <1>3 DEF ScanIsCurrent, ReadIsCurrent
<1>4. ASSUME NEW p \in Clients \cup {"worker"}, CompactOpenFails(p)
      PROVE  ScanIsCurrent' /\ ReadIsCurrent'
  BY <1>3, <1>4, OpenFailsSteps
<1>5. ASSUME NEW r \in Readers,
             \A q \in Readers : q # r => rd'[q] = rd[q] /\ seen'[q] = seen[q],
             UNCHANGED <<ops, arcs>>,
             /\ rd'[r].pc = "active" => FromActive(r)'
             /\ rd'[r].pc = "imms" => FromFrozen(r)'
             /\ rd'[r].pc = "tables" => FromCopies(r)'
             /\ rd'[r].pc = "answered" => rd'[r].answer \in seen'[r]
      PROVE  ScanIsCurrent' /\ ReadIsCurrent'
  <2>1. ASSUME NEW q \in Readers, q # r
        PROVE  /\ rd'[q].pc = "active" => FromActive(q)'
               /\ rd'[q].pc = "imms" => FromFrozen(q)'
               /\ rd'[q].pc = "tables" => FromCopies(q)'
               /\ rd'[q].pc = "answered" => rd'[q].answer \in seen'[q]
    BY <1>2, <1>5, <2>1 DEF ScanIsCurrent, ReadIsCurrent
  <2>2. QED
    BY <1>5, <2>1 DEF ScanIsCurrent, ReadIsCurrent
<1>6. ASSUME NEW r \in Readers, GetActive(r) \/ GetImms(r) \/ GetTable(r) \/ GetNone(r)
      PROVE  ScanIsCurrent' /\ ReadIsCurrent'
  <2>1. /\ \A q \in Readers : q # r => rd'[q] = rd[q] /\ seen'[q] = seen[q]
        /\ UNCHANGED <<ops, arcs>>
    BY <1>6, ReaderMoves, ReaderSteps DEF vars
  <2>2. QED
    BY <1>5, <1>6, <2>1, ScanGoesOn
<1>7. ASSUME NEW r \in Readers, NEW k \in Keys, GetBegin(r, k)
      PROVE  ScanIsCurrent' /\ ReadIsCurrent'
  <2>1. /\ \A q \in Readers : q # r => rd'[q] = rd[q] /\ seen'[q] = seen[q]
        /\ UNCHANGED <<ops, arcs>> /\ rd'[r].pc = "active"
    BY <1>7, ReaderBegins, CopyFields DEF vars
  <2>2. FromActive(r)'
    BY <1>7, CopyIsCurrent
  <2>3. QED
    BY <1>5, <2>1, <2>2
<1>8. ASSUME NEW r \in Readers, GetReturn(r) PROVE ScanIsCurrent' /\ ReadIsCurrent'
  <2>1. /\ \A q \in Readers : q # r => rd'[q] = rd[q] /\ seen'[q] = seen[q]
        /\ UNCHANGED <<ops, arcs>> /\ rd'[r].pc = "idle"
    BY <1>0, <1>8, ReaderEnds DEF vars
  <2>2. QED
    BY <1>5, <2>1
<1>9. CASE UNCHANGED vars /\ UNCHANGED <<arcs, opened, failed, rd, gets, seen>>
  BY <1>3, <1>9 DEF vars
<1>10. QED
  BY <1>1, <1>4, <1>6, <1>7, <1>8, <1>9, ReadSteps

-----------------------------------------------------------------------------
(* The files of the copies.                                                *)

\* The compaction that holds flush_lock merges the live tables, and only it changes
\* them; the inputs it deletes are those it has merged.
LEMMA CompactionSteps ==
    ASSUME Inv, Next, mode = "up", mode' # "down"
    PROVE  /\ fl'.pc = "merged" => (fl.pc = "free" \/ fl.pc = "merged") /\ levels' = levels
           /\ fl'.pc \in {"record", "sweep"} =>
                \/ fl.pc = "merged" /\ fl'.inputs = levels
                \/ /\ fl.pc \in {"record", "sweep"}
                   /\ \A l \in Levels : fl'.inputs[l] \subseteq fl.inputs[l]
<1>0. fl \in FlType
  BY DEF Inv, TypeOK, TypeProcess
<1>1. CASE WritePath
  <2>1. UNCHANGED <<fl, levels>>
    BY <1>1 DEF WritePath, Write, WriteSyncFails, Apply, FlushSync, Rotate, RotateFails, Swap,
                sstVars, dirVars
  <2>2. QED
    BY <2>1
<1>2. CASE FlushPipeline
  <2>1. fl'.pc \in {"drain", "commit", "ok", "unlink", "free"}
    <3>1. CASE FlushBuild \/ FlushCommit \/ FlushNothing \/ FlushManifest \/ FlushUnlink
      BY <1>0, <3>1 DEF FlushBuild, FlushCommit, FlushNothing, FlushManifest, FlushUnlink, FlType
    <3>2. CASE FlushBuildFails \/ FlushManifestFails \/ FlushReturn
      BY <3>2 DEF FlushBuildFails, FlushManifestFails, FlushReturn, Release, FlFree
    <3>3. ASSUME NEW p, FlushBegin(p) PROVE fl'.pc = "drain"
      BY <3>3 DEF FlushBegin, FlFree
    <3>4. QED
      BY <1>2, <3>1, <3>2, <3>3 DEF FlushPipeline
  <2>2. QED
    BY <2>1
<1>3. CASE Compaction
  <2>1. CASE CompactNothing \/ \E p : CompactBuildFails(p)
    BY <2>1 DEF CompactNothing, CompactBuildFails
  <2>2. ASSUME NEW p, CompactBuild(p) PROVE fl.pc = "free" /\ fl'.pc = "merged" /\ levels' = levels
    <3>1. fl.pc = "free" /\ levels' = levels
      BY <2>2 DEF CompactBuild, CompactCaller
    <3>2. fl'.pc = "merged"
      BY <2>2 DEF CompactBuild, FlFree
    <3>3. QED
      BY <3>1, <3>2
  <2>3. CASE CompactCommit
    BY <1>0, <2>3 DEF CompactCommit, FlType
  <2>4. CASE CompactManifest
    BY <1>0, <2>4 DEF CompactManifest, FlType
  <2>5. CASE CompactManifestFails \/ CompactReturn
    BY <2>5 DEF CompactManifestFails, CompactReturn, Release, FlFree
  <2>6. ASSUME NEW m \in Levels, CompactUnlink(m)
        PROVE  /\ fl.pc = "sweep" /\ fl'.pc = "sweep"
               /\ \A l \in Levels : fl'.inputs[l] \subseteq fl.inputs[l]
    <3>1. PICK x : fl' = [fl EXCEPT !.inputs[m] = @ \ {x}] /\ fl.pc = "sweep"
      BY <2>6 DEF CompactUnlink
    <3>2. QED
      BY <1>0, <3>1 DEF FlType
  <2>7. QED
    BY <1>3, <2>1, <2>2, <2>3, <2>4, <2>5, <2>6 DEF Compaction
<1>4. CASE Worker
  BY <1>4 DEF Worker, WorkerRecv, WorkerCheck
<1>5. ~ Lifecycle
  BY DEF Lifecycle, Close, Crash, RebackFails, ProcessGone, Recover, Reback, CleanOld
<1>6. QED
  BY <1>1, <1>2, <1>3, <1>4, <1>5 DEF Next

\* While the engine is up only the inputs of a committed compaction are deleted.
LEMMA FilesKept ==
    ASSUME Inv, Next, mode = "up", mode' # "down", NEW l \in Levels, NEW s \in files[l]
    PROVE  s \in files'[l] \/ (fl.pc = "sweep" /\ s \in fl.inputs[l])
<1>0. files \in [Levels -> SUBSET Seqs] /\ 0 \in Levels /\ 1 \in Levels
  BY DEF Inv, TypeOK, TypeDirectory, Levels
<1>1. \/ files' = files
      \/ FlushBuild
      \/ \E p : CompactBuild(p) /\ Merged(levels) # EmptyTable
      \/ \E m \in Levels : CompactUnlink(m)
  BY DEF Next, WritePath, FlushPipeline, Compaction, Worker, Lifecycle, Write,
         WriteSyncFails, Apply, FlushSync, Rotate, RotateFails, Swap, FlushBegin,
         FlushBuildFails, FlushCommit, FlushNothing, FlushManifest, FlushManifestFails,
         FlushUnlink, FlushReturn, CompactBuild, CompactBuildFails, CompactNothing,
         CompactCommit, CompactManifest, CompactManifestFails, CompactReturn, WorkerRecv,
         WorkerCheck, Close, Crash, Recover, Reback, RebackFails, CleanOld, dirVars, sstVars
<1>2. CASE FlushBuild
  BY <1>0, <1>2 DEF FlushBuild
<1>3. ASSUME NEW p, CompactBuild(p), Merged(levels) # EmptyTable PROVE s \in files'[l]
  BY <1>0, <1>3 DEF CompactBuild
<1>4. ASSUME NEW m \in Levels, CompactUnlink(m)
      PROVE  s \in files'[l] \/ (fl.pc = "sweep" /\ s \in fl.inputs[l])
  <2>1. fl.inputs[m] # {} /\ fl.inputs[m] \subseteq Seqs /\ fl.pc = "sweep"
    BY <1>4 DEF Inv, TypeOK, TypeProcess, CompactUnlink, FlType
  <2>2. PICK n : n = Min(fl.inputs[m])
    OBVIOUS
  <2>3. n \in fl.inputs[m]
    BY <2>1, <2>2, BasicSets, MinOfNats
  <2>4. files' = files \/ files' = [files EXCEPT ![m] = @ \ {n}]
    BY <1>4, <2>2 DEF CompactUnlink
  <2>5. QED
    BY <1>0, <2>1, <2>3, <2>4
<1>5. QED
  BY <1>1, <1>2, <1>3, <1>4

\* A compaction opens its inputs first.
LEMMA InputsOpenedNext ==
    ASSUME Inv, Inv', InputsOpened, [ReadNext]_allVars PROVE InputsOpened'
<1>1. CASE EngineStep
  <2>1. CASE mode' = "down" \/ mode # "up"
    <3>1. mode' # "up" \/ (fl.pc = "free" /\ fl' = fl)
      <4>1. mode' = "down" \/ (mode # "up" /\ fl.pc = "free" /\ wr.pc = "free")
        BY <2>1 DEF Inv, Quiet
      <4>2. mode # "up" /\ fl.pc = "free" /\ wr.pc = "free" => fl' = fl \/ mode' # "up"
        <5>1. SUFFICES ASSUME mode # "up", fl.pc = "free", wr.pc = "free"
                       PROVE  fl' = fl \/ mode' # "up"
          OBVIOUS
        <5>2. Next
          BY <1>1 DEF EngineStep
        <5>3. ~ WritePath
          BY <5>1 DEF WritePath, Write, WriteSyncFails, Apply, FlushSync, Rotate,
                      RotateFails, Swap
        <5>4. ~ FlushPipeline
          BY <5>1 DEF FlushPipeline, FlushBegin, FlushBuild, FlushBuildFails, FlushCommit,
             FlushNothing, FlushManifest, FlushManifestFails, FlushUnlink, FlushReturn
        <5>5. ~ Compaction
          BY <5>1 DEF Compaction, CompactBuild, CompactBuildFails, CompactNothing,
             CompactCommit, CompactManifest, CompactManifestFails, CompactUnlink,
             CompactReturn, CompactCaller
        <5>6. Worker \/ Lifecycle => fl' = fl \/ mode' # "up"
          BY DEF Worker, WorkerRecv, WorkerCheck, Lifecycle, Close, Crash, RebackFails,
                 ProcessGone, Recover, Reback, CleanOld
        <5>7. QED
          BY <5>2, <5>3, <5>4, <5>5, <5>6 DEF Next
      <4>3. QED
        BY <4>1, <4>2
    <3>2. fl'.pc = "free"
      BY <3>1 DEF Inv, Quiet
    <3>3. QED
      BY <3>2 DEF InputsOpened
  <2>2. CASE mode' # "down" /\ mode = "up"
    <3>1. Next /\ opened \subseteq opened'
      BY <1>1, <2>2, ReadersBeside
    <3>2. ASSUME fl'.pc = "merged" PROVE Runs(levels') \subseteq opened'
      <4>1. (fl.pc = "free" \/ fl.pc = "merged") /\ levels' = levels
        BY <2>2, <3>1, <3>2, CompactionSteps
      <4>2. fl.pc = "free" => Runs(levels) \subseteq opened'
        BY <1>1, <2>2, <3>2 DEF EngineStep, CompactOpens
      <4>3. QED
        BY <3>1, <4>1, <4>2 DEF InputsOpened
    <3>3. ASSUME fl'.pc \in {"record", "sweep"} PROVE Runs(fl'.inputs) \subseteq opened'
      <4>1. \/ fl.pc = "merged" /\ fl'.inputs = levels
            \/ /\ fl.pc \in {"record", "sweep"}
               /\ \A l \in Levels : fl'.inputs[l] \subseteq fl.inputs[l]
        BY <2>2, <3>1, <3>3, CompactionSteps
      <4>2. CASE fl.pc = "merged" /\ fl'.inputs = levels
        BY <3>1, <4>2 DEF InputsOpened
      <4>3. CASE /\ fl.pc \in {"record", "sweep"}
                 /\ \A l \in Levels : fl'.inputs[l] \subseteq fl.inputs[l]
        <5>1. Runs(fl'.inputs) \subseteq Runs(fl.inputs)
          BY <4>3 DEF Runs
        <5>2. QED
          BY <3>1, <4>3, <5>1 DEF InputsOpened
      <4>4. QED
        BY <4>1, <4>2, <4>3
    <3>4. QED
      BY <3>2, <3>3 DEF InputsOpened
  <2>3. QED
    BY <2>1, <2>2
<1>2. UNCHANGED <<fl, levels>> /\ opened \subseteq opened' => InputsOpened'
  BY DEF InputsOpened
<1>3. ASSUME NEW p \in Clients \cup {"worker"}, CompactOpenFails(p) PROVE InputsOpened'
  BY <1>2, <1>3, OpenFailsSteps
<1>4. UNCHANGED vars /\ opened \subseteq opened' => InputsOpened'
  BY <1>2 DEF vars
<1>5. QED
  BY <1>1, <1>3, <1>4, ReadSteps, ReaderSteps

\* So no table disappears unread.
LEMMA CompactionSparesReadersNext ==
    ASSUME Inv, ReadTypes, ReadersQuiet, InputsOpened, CompactionSparesReaders,
           [ReadNext]_allVars
    PROVE  CompactionSparesReaders'
<1>0. RdIdle.todo = {}
  BY DEF RdIdle
<1>h. \A r \in Readers : \A h \in rd[r].todo : h \in Handles
  BY DEF ReadTypes, Typed, RdType
<1>1. CASE EngineStep
  <2>1. CASE mode' = "down" \/ mode # "up"
    <3>1. \A r \in Readers : rd'[r].todo = {}
      BY <1>0, <1>1, <2>1, ReadersBeside DEF ReadersQuiet
    <3>2. QED
      BY <3>1 DEF CompactionSparesReaders
  <2>2. CASE mode' # "down" /\ mode = "up"
    <3>1. Next /\ opened \subseteq opened' /\ UNCHANGED <<rd, failed>>
      BY <1>1, <2>2, ReadersBeside
    <3>2. ASSUME NEW r \in Readers, NEW h \in rd[r].todo
          PROVE  h \in opened' \cup failed' \/ h[2] \in files'[h[1]]
      <4>1. h \in opened \cup failed \/ h[2] \in files[h[1]]
        BY <3>2 DEF CompactionSparesReaders
      <4>2. CASE h \in opened \cup failed
        BY <3>1, <4>2
      <4>3. CASE h[2] \in files[h[1]]
        <5>1. h \in Levels \X Seqs
          BY <1>h, <3>2 DEF Handles
        <5>2. h[1] \in Levels
          BY <5>1
        <5>3. h[2] \in files'[h[1]] \/ (fl.pc = "sweep" /\ h[2] \in fl.inputs[h[1]])
          BY <2>2, <3>1, <4>3, <5>2, FilesKept
        <5>4. h[2] \in fl.inputs[h[1]] => h \in Runs(fl.inputs)
          BY <5>1 DEF Runs
        <5>5. QED
          BY <3>1, <5>3, <5>4 DEF InputsOpened
      <4>4. QED
        BY <4>1, <4>2, <4>3
    <3>3. QED
      BY <3>1, <3>2 DEF CompactionSparesReaders
  <2>3. QED
    BY <2>1, <2>2
<1>2. ASSUME UNCHANGED files, opened \subseteq opened', failed \subseteq failed',
             NEW r \in Readers, rd'[r].todo \subseteq rd[r].todo
      PROVE  \A h \in rd'[r].todo : h \in opened' \cup failed' \/ h[2] \in files'[h[1]]
  BY <1>2 DEF CompactionSparesReaders
<1>3. ASSUME NEW p \in Clients \cup {"worker"}, CompactOpenFails(p)
      PROVE  CompactionSparesReaders'
  BY <1>2, <1>3, OpenFailsSteps DEF CompactionSparesReaders
<1>4. ASSUME NEW r \in Readers, GetActive(r) \/ GetImms(r) \/ GetTable(r) \/ GetNone(r)
      PROVE  CompactionSparesReaders'
  <2>1. UNCHANGED files /\ opened \subseteq opened' /\ failed \subseteq failed'
    BY <1>4, ReaderSteps DEF vars
  <2>2. \A q \in Readers : rd'[q].todo \subseteq rd[q].todo
    BY <1>4, ReaderMoves
  <2>3. QED
    BY <1>2, <2>1, <2>2 DEF CompactionSparesReaders
<1>5. ASSUME NEW r \in Readers, NEW k \in Keys, GetBegin(r, k) PROVE CompactionSparesReaders'
  <2>1. /\ UNCHANGED vars /\ UNCHANGED <<opened, failed>>
        /\ \A q \in Readers : q # r => rd'[q] = rd[q]
        /\ rd'[r].todo = Runs(levels)
    BY <1>5, ReaderBegins, CopyFields
  <2>2. UNCHANGED files
    BY <2>1 DEF vars
  <2>3. \A h \in Runs(levels) : h[2] \in files[h[1]]
    BY DEF Inv, Tables, Runs
  <2>4. QED
    BY <1>2, <2>1, <2>2, <2>3 DEF CompactionSparesReaders
<1>6. ASSUME NEW r \in Readers, GetReturn(r) PROVE CompactionSparesReaders'
  <2>1. /\ UNCHANGED vars /\ UNCHANGED <<opened, failed>>
        /\ \A q \in Readers : q # r => rd'[q] = rd[q]
        /\ rd'[r].todo = {}
    BY <1>0, <1>6, ReaderEnds
  <2>2. UNCHANGED files
    BY <2>1 DEF vars
  <2>3. QED
    BY <1>2, <2>1, <2>2 DEF CompactionSparesReaders
<1>7. CASE UNCHANGED vars /\ UNCHANGED <<arcs, opened, failed, rd, gets, seen>>
  BY <1>7 DEF CompactionSparesReaders, vars
<1>8. QED
  BY <1>1, <1>3, <1>4, <1>5, <1>6, <1>7, ReadSteps

-----------------------------------------------------------------------------
(* The theorems.                                                           *)

LEMMA ReadInvInit == ReadInit => Inv /\ ReadInv
<1> SUFFICES ASSUME ReadInit PROVE Inv /\ ReadInv
  OBVIOUS
<1>0. /\ Init /\ arcs = NoArcs /\ rd = [r \in Readers |-> RdIdle]
      /\ seen = [r \in Readers |-> {}]
  BY DEF ReadInit
<1>1. Inv
  BY <1>0, InvInit
<1>2. mode = "down" /\ mem = [g \in Seqs |-> EmptyTable] /\ fl.pc = "free"
  BY <1>0, <1>1 DEF Init, Inv, Quiet
<1>3. \A r \in Readers : rd[r].pc = "idle" /\ rd[r].todo = {}
  BY <1>0 DEF RdIdle
<1>4. ReadTypes
  <2>1. rd \in [Readers -> RdType({RdIdle.tables}, {0})]
    BY <1>0, IdleType
  <2>2. Typed(rd)
    BY <2>1, OwnCopies
  <2>3. 0 \in 0 .. Len(ops)
    BY <1>1, Numbers
  <2>4. arcs \in [Seqs -> [Keys -> 0 .. Len(ops)]]
    BY <1>0, <2>3 DEF NoArcs, EmptyTable
  <2>5. QED
    BY <1>0, <1>3, <2>2, <2>4 DEF ReadTypes
<1>5. ReadersQuiet /\ ArcsCurrent
  BY <1>0, <1>2 DEF ReadersQuiet, ArcsCurrent
<1>6. CopyIsOld /\ ScanIsCurrent /\ ReadIsCurrent /\ CompactionSparesReaders
  BY <1>3 DEF CopyIsOld, ScanIsCurrent, ReadIsCurrent, CompactionSparesReaders
<1>7. InputsOpened
  BY <1>2 DEF InputsOpened
<1>8. QED
  BY <1>1, <1>4, <1>5, <1>6, <1>7 DEF ReadInv

LEMMA ReadInvNext == Inv /\ ReadInv /\ [ReadNext]_allVars => (Inv /\ ReadInv)'
<1> SUFFICES ASSUME Inv, ReadInv, [ReadNext]_allVars PROVE Inv' /\ ReadInv'
  OBVIOUS
<1>1. /\ Inv /\ ReadTypes /\ ReadersQuiet /\ ArcsCurrent /\ CopyIsOld /\ ScanIsCurrent
      /\ ReadIsCurrent /\ InputsOpened /\ CompactionSparesReaders
  BY DEF ReadInv
<1>2. Inv'
  BY <1>1, EngineInvNext
<1>3. ReadTypes' /\ ReadersQuiet' /\ ArcsCurrent' /\ CopyIsOld'
  BY <1>1, <1>2, ReadTypesNext, ReadersQuietNext, ArcsCurrentNext, CopyIsOldNext
<1>4. ScanIsCurrent' /\ ReadIsCurrent'
  BY <1>1, <1>2, ScanIsCurrentNext
<1>5. InputsOpened' /\ CompactionSparesReaders'
  BY <1>1, <1>2, InputsOpenedNext, CompactionSparesReadersNext
<1>6. QED
  BY <1>2, <1>3, <1>4, <1>5 DEF ReadInv

\* The invariant of the readers holds in every state, whatever the engine does beside
\* them: every fault, crash and option included.
THEOREM ReadInvCorrect == ReadSpec => [](Inv /\ ReadInv)
  BY ReadInvInit, ReadInvNext, PTL DEF ReadSpec

\* get() is linearizable for any number of readers, keys, tables and calls: its answer
\* was the key's value at a moment of the call (get, open_reader, flush_pending,
\* compact_all_pending).
THEOREM ReadsAreCurrent == ReadSpec => []ReadIsCurrent
<1>1. ReadInv => ReadIsCurrent
  BY DEF ReadInv
<1>2. QED
  BY <1>1, ReadInvCorrect, PTL

\* A table that some get() has still to look at is on disk, or its reader has been
\* opened or has failed to (compact_all_pending, SstHandle::open_reader).
THEOREM CompactionSparesAllReaders == ReadSpec => []CompactionSparesReaders
<1>1. ReadInv => CompactionSparesReaders
  BY DEF ReadInv
<1>2. QED
  BY <1>1, ReadInvCorrect, PTL
=============================================================================
