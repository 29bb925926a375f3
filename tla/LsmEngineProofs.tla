--------------------------- MODULE LsmEngineProofs ---------------------------
(***************************************************************************)
(* Proofs about the engine, for every value of the constants and every     *)
(* choice of I/O faults and crashes: types are kept, the inductive         *)
(* invariant of LsmEngineInv holds, and with it LiveView, LevelOrder,      *)
(* ManifestFilesExist and ReferencedTablesImmutable.                       *)
(***************************************************************************)
EXTENDS LsmEngineInv, FiniteSetTheorems, SequenceTheorems, WellFoundedInduction, TLAPS

-----------------------------------------------------------------------------
(* Facts about the operators of LsmTables: smallest and largest file       *)
(* numbers, and what a newest-first scan returns.                          *)

\* The order of the naturals as a relation, the form WFMin works with.
Below == {p \in Nat \X Nat : p[1] < p[2]}

\* A non-empty set of naturals has a smallest element, and Min picks it: the
\* immutable that flush_all_pending drains next, the WAL it deletes next.
LEMMA MinOfNats ==
    ASSUME NEW S, S \subseteq Nat, S # {}
    PROVE  Min(S) \in S /\ \A x \in S : Min(S) <= x
<1>1. IsWellFoundedOn(Below, Nat)
  BY NatLessThanWellFounded DEF OpToRel, Below
<1>2. PICK m \in S : \A y \in S : ~ (<<y, m>> \in Below)
  BY <1>1, WFMin, Zenon
<1>3. ASSUME NEW y \in S PROVE m <= y
  <2>1. SUFFICES ASSUME y < m PROVE FALSE
    OBVIOUS
  <2>2. <<y, m>> \in Nat \X Nat /\ <<y, m>>[1] < <<y, m>>[2]
    BY <2>1
  <2>3. <<y, m>> \in Below
    BY <2>2, Zenon DEF Below
  <2>4. QED
    BY <1>2, <2>3
<1>4. QED
  BY <1>3 DEF Min

\* A non-empty bounded set of naturals has a largest element, and Max picks it:
\* the newest table of a scan, the highest number open has to step over.
LEMMA MaxOfBounded ==
    ASSUME NEW n \in Nat, NEW S, S \subseteq 0 .. n, S # {}
    PROVE  Max(S) \in S /\ \A x \in S : x <= Max(S)
<1> DEFINE T == {n - x : x \in S}
<1>1. \A x \in S : n - x \in Nat
  BY SMT
<1>2. T \subseteq Nat /\ T # {}
  BY <1>1, Zenon
<1> DEFINE t == Min(T)
<1>3. t \in T /\ \A u \in T : t <= u
  <2> HIDE DEF T
  <2>1. QED
    BY <1>2, MinOfNats
<1>4. PICK m \in S : t = n - m
  BY <1>3, Zenon
<1>5. ASSUME NEW x \in S PROVE m >= x
  <2>1. n - x \in T
    BY Zenon
  <2>2. t <= n - x
    BY <1>3, <2>1, Zenon
  <2>3. n - m <= n - x
    BY <1>4, <2>2, Zenon
  <2>4. m \in 0 .. n /\ x \in 0 .. n
    BY Zenon
  <2>5. QED
    BY <2>3, <2>4, SMT
<1>6. Max(S) \in S /\ \A y \in S : Max(S) >= y
  BY <1>5, Zenon DEF Max
<1>7. \A x \in S : x \in 0 .. n
  BY Zenon
<1>8. QED
  BY <1>6, <1>7, SMT

\* w is what a newest-first scan of the tables S returns for k: either no table
\* has an entry, or the entry of the highest-numbered table that has one.
IsNewest(S, tables, k, w) ==
    \/ (\A s \in S : tables[s][k] = 0) /\ w = 0
    \/ \E s \in S : /\ tables[s][k] # 0 /\ w = tables[s][k]
                    /\ \A t \in S : tables[t][k] # 0 => t <= s

\* NewestHit is such a scan.
LEMMA NewestHitIs ==
    ASSUME NEW S, S \subseteq Seqs, NEW tables, NEW k
    PROVE  IsNewest(S, tables, k, NewestHit(S, tables, k))
<1>1. CASE Hits(S, tables, k) = {}
  BY <1>1, Zenon DEF NewestHit, Hits, IsNewest
<1>2. CASE Hits(S, tables, k) # {}
  <2>1. Seqs \subseteq 0 .. MaxSeq /\ MaxSeq \in Nat
    BY BoundsAssumption DEF Seqs
  <2>2. Hits(S, tables, k) \subseteq 0 .. MaxSeq
    BY <2>1, Zenon DEF Hits
  <2>3. /\ Max(Hits(S, tables, k)) \in Hits(S, tables, k)
        /\ \A x \in Hits(S, tables, k) : x <= Max(Hits(S, tables, k))
    BY <1>2, <2>1, <2>2, MaxOfBounded, Zenon
  <2>4. NewestHit(S, tables, k) = tables[Max(Hits(S, tables, k))][k]
    BY <1>2, Zenon DEF NewestHit
  <2>5. /\ Max(Hits(S, tables, k)) \in S
        /\ tables[Max(Hits(S, tables, k))][k] # 0
        /\ \A t \in S : tables[t][k] # 0 => t \in Hits(S, tables, k)
    BY <2>3, Zenon DEF Hits
  <2>6. QED
    BY <2>3, <2>4, <2>5, Zenon DEF IsNewest
<1>3. QED
  BY <1>1, <1>2, Zenon

\* A scan of well-typed tables returns an entry or nothing.
LEMMA NewestHitType ==
    ASSUME NEW S, S \subseteq Seqs, NEW tables \in [Seqs -> Table], NEW k \in Keys
    PROVE  NewestHit(S, tables, k) \in Ids
<1>1. \A s \in Seqs : tables[s][k] \in Ids
  BY DEF Table
<1>2. 0 \in Ids
  BY BoundsAssumption DEF Ids
<1>3. \/ NewestHit(S, tables, k) = 0
      \/ \E s \in S : NewestHit(S, tables, k) = tables[s][k]
  <2>1. IsNewest(S, tables, k, NewestHit(S, tables, k))
    BY NewestHitIs, Zenon
  <2>2. QED
    BY <2>1, Zenon DEF IsNewest
<1>4. QED
  BY <1>1, <1>2, <1>3

\* A scan depends only on the tables it visits.
LEMMA NewestHitSame ==
    ASSUME NEW S, NEW t, NEW u, NEW k, \A s \in S : t[s][k] = u[s][k],
           S \subseteq Seqs
    PROVE  NewestHit(S, t, k) = NewestHit(S, u, k)
<1>1. Hits(S, t, k) = Hits(S, u, k)
  BY DEF Hits
<1>2. CASE Hits(S, t, k) = {}
  BY <1>1, <1>2 DEF NewestHit
<1>3. CASE Hits(S, t, k) # {}
  <2>0. Seqs \subseteq 0 .. MaxSeq
    BY BoundsAssumption DEF Seqs
  <2>1. Hits(S, t, k) \subseteq 0 .. MaxSeq /\ MaxSeq \in Nat
    BY <2>0, BoundsAssumption, Zenon DEF Hits
  <2>2. Max(Hits(S, t, k)) \in Hits(S, t, k)
    BY <1>3, <2>1, MaxOfBounded, Zenon
  <2>3. Max(Hits(S, t, k)) \in S
    BY <2>2, Zenon DEF Hits
  <2>4. QED
    BY <1>1, <1>3, <2>3, Zenon DEF NewestHit
<1>4. QED
  BY <1>2, <1>3

\* A table newer than all others is consulted first: a freeze, a flush commit.
LEMMA NewestHitAdd ==
    ASSUME NEW S, S \subseteq Seqs, NEW n \in Seqs, \A s \in S : s < n,
           NEW t, NEW k
    PROVE  NewestHit(S \cup {n}, t, k) = OrElse(t[n][k], NewestHit(S, t, k))
<1>0. S \cup {n} \subseteq Seqs /\ \A s \in Seqs : s \in Int
  BY DEF Seqs
<1>1. IsNewest(S, t, k, NewestHit(S, t, k))
  BY NewestHitIs, Zenon
<1>2. IsNewest(S \cup {n}, t, k, NewestHit(S \cup {n}, t, k))
  BY <1>0, NewestHitIs, Zenon
<1>3. CASE t[n][k] # 0
  BY <1>0, <1>2, <1>3 DEF OrElse, IsNewest
<1>4. CASE t[n][k] = 0
  <2>1. CASE \A s \in S \cup {n} : t[s][k] = 0
    <3>1. NewestHit(S \cup {n}, t, k) = 0 /\ NewestHit(S, t, k) = 0
      BY <1>1, <1>2, <2>1, Zenon DEF IsNewest
    <3>2. QED
      BY <1>4, <3>1 DEF OrElse
  <2>2. CASE \E s \in S : t[s][k] # 0
    <3>1. PICK s \in S : /\ NewestHit(S, t, k) = t[s][k] /\ t[s][k] # 0
                        /\ \A r \in S : t[r][k] # 0 => r <= s
      BY <1>1, <2>2, Zenon DEF IsNewest
    <3>2. PICK q \in S : /\ NewestHit(S \cup {n}, t, k) = t[q][k] /\ t[q][k] # 0
                        /\ \A r \in S : t[r][k] # 0 => r <= q
      BY <1>2, <1>4, <2>2, Zenon DEF IsNewest
    <3>3. s = q
      BY <1>0, <3>1, <3>2
    <3>4. QED
      BY <1>4, <3>1, <3>2, <3>3 DEF OrElse
  <2>3. QED
    BY <1>4, <2>1, <2>2
<1>5. QED
  BY <1>3, <1>4

\* The table older than all others is consulted last: the immutable that a flush
\* commit turns into a level-0 table.
LEMMA NewestHitDrop ==
    ASSUME NEW S, S \subseteq Seqs, NEW g \in S, \A s \in S : g <= s,
           NEW t, NEW k
    PROVE  NewestHit(S, t, k) = OrElse(NewestHit(S \ {g}, t, k), t[g][k])
<1>0. S \ {g} \subseteq Seqs /\ \A s \in Seqs : s \in Int
  BY DEF Seqs
<1>1. IsNewest(S, t, k, NewestHit(S, t, k))
  BY NewestHitIs, Zenon
<1>2. IsNewest(S \ {g}, t, k, NewestHit(S \ {g}, t, k))
  BY <1>0, NewestHitIs, Zenon
<1>3. QED
  BY <1>0, <1>1, <1>2 DEF OrElse, IsNewest

\* A scan returns nothing, or what one of its tables holds.
LEMMA NewestHitFrom ==
    ASSUME NEW S, S \subseteq Seqs, NEW t, NEW k, NEW W, 0 \in W,
           \A s \in S : t[s][k] \in W
    PROVE  NewestHit(S, t, k) \in W
<1>1. \/ NewestHit(S, t, k) = 0
      \/ \E s \in S : NewestHit(S, t, k) = t[s][k]
  <2>1. IsNewest(S, t, k, NewestHit(S, t, k))
    BY NewestHitIs, Zenon
  <2>2. QED
    BY <2>1, Zenon DEF IsNewest
<1>2. QED
  BY <1>1

\* Scans of no table and of a single one: level 0 and level 1 after a compaction.
LEMMA NewestHitFew ==
    ASSUME NEW n \in Seqs, NEW t, NEW k
    PROVE  NewestHit({}, t, k) = 0 /\ NewestHit({n}, t, k) = t[n][k]
<1>1. NewestHit({}, t, k) = 0
  BY DEF NewestHit, Hits
<1>2. IsNewest({n}, t, k, NewestHit({n}, t, k))
  BY NewestHitIs
<1>3. NewestHit({n}, t, k) = t[n][k]
  BY <1>2 DEF IsNewest
<1>4. QED
  BY <1>1, <1>3

-----------------------------------------------------------------------------
(* Type correctness.                                                       *)

\* Membership facts about the sets that types are built from.
LEMMA BasicSets ==
    /\ 0 \in Ids /\ Ids \subseteq Nat
    /\ 1 .. MaxWrites \subseteq Ids
    /\ Seqs \subseteq Nat /\ Seqs \subseteq 0 .. MaxSeq /\ 0 \notin Seqs
    /\ 0 \in Levels /\ 1 \in Levels
    /\ EmptyTable \in Table
    /\ NoTables \in [Levels -> SUBSET Seqs]
    /\ WrFree \in WrType /\ FlFree \in FlType
  BY BoundsAssumption
     DEF Ids, Seqs, Levels, EmptyTable, Table, NoTables, WrFree, FlFree, Callers,
         WrType, FlType

\* Updating the tables of one level preserves types.
LEMMA LevelUpdate ==
    ASSUME NEW l \in Levels, NEW n \in Seqs
    PROVE  /\ \A f \in [Levels -> SUBSET Seqs] : \A T \in SUBSET Seqs :
                [f EXCEPT ![l] = T] \in [Levels -> SUBSET Seqs]
           /\ \A f \in [Levels -> [Seqs -> Table]] : \A t \in Table :
                [f EXCEPT ![l] = [f[l] EXCEPT ![n] = t]] \in [Levels -> [Seqs -> Table]]
  OBVIOUS

\* The initial state is well typed.
LEMMA TypeInit == Init => TypeOK
  BY BasicSets, BoundsAssumption, EmptySeq
     DEF Init, TypeOK, TypeDirectory, TypeProcess, TypeHistory, Levels, WrFree, FlFree

\* merge_runs has a winner for every key that some run holds: the record of a run
\* whose number no other such run exceeds.
LEMMA WinnerIs ==
    ASSUME NEW T \in [Levels -> SUBSET Seqs], NEW k, RunsWith(T, k) # {}
    PROVE  \E r \in RunsWith(T, k) :
             /\ Winner(T, k) = sst[r[1]][r[2]][k]
             /\ \A q \in RunsWith(T, k) : q[2] <= r[2]
<1> DEFINE N == {r[2] : r \in RunsWith(T, k)}
<1>1. N \subseteq 0 .. MaxSeq /\ N # {}
  <2>1. \A r \in RunsWith(T, k) : r[2] \in 0 .. MaxSeq
    BY BasicSets DEF RunsWith, Runs
  <2>2. QED
    BY <2>1, Zenon
<1>2. Max(N) \in N /\ \A n \in N : n <= Max(N)
  <2> HIDE DEF N
  <2>1. QED BY <1>1, MaxOfBounded, BoundsAssumption
<1>3. PICK r \in RunsWith(T, k) : Max(N) = r[2]
  BY <1>2
<1>4. \A q \in RunsWith(T, k) : q[2] \in N
  BY Zenon
<1>5. \A q \in RunsWith(T, k) : q[2] <= r[2]
  <2> HIDE DEF N
  <2>1. QED BY <1>2, <1>3, <1>4
<1> DEFINE b == CHOOSE x \in RunsWith(T, k) : \A q \in RunsWith(T, k) : q[2] <= x[2]
<1>6. b \in RunsWith(T, k) /\ \A q \in RunsWith(T, k) : q[2] <= b[2]
  BY <1>5, Zenon
<1>7. Winner(T, k) = sst[b[1]][b[2]][k]
  BY Zenon DEF Winner
<1>8. QED
  <2> HIDE DEF b
  <2>1. QED BY <1>6, <1>7

\* The winning record of a merge is an entry or nothing.
LEMMA WinnerType ==
    ASSUME TypeOK, NEW T \in [Levels -> SUBSET Seqs], NEW k \in Keys
    PROVE  Winner(T, k) \in Ids
<1>1. CASE RunsWith(T, k) = {}
  BY <1>1, BasicSets DEF Winner
<1>2. CASE RunsWith(T, k) # {}
  <2>1. PICK r \in RunsWith(T, k) : Winner(T, k) = sst[r[1]][r[2]][k]
    BY <1>2, WinnerIs
  <2>2. r[1] \in Levels /\ r[2] \in Seqs
    BY DEF RunsWith, Runs
  <2>3. QED
    BY <2>1, <2>2 DEF TypeOK, TypeDirectory, Table
<1>3. QED
  BY <1>1, <1>2

\* The output of a merge is a table.
LEMMA MergedType ==
    ASSUME TypeOK, NEW T \in [Levels -> SUBSET Seqs]
    PROVE  Merged(T) \in Table /\ Dropped(T) \in Table
<1>1. \A k \in Keys : Winner(T, k) \in Ids
  BY WinnerType
<1>2. QED
  BY <1>1, BasicSets DEF Merged, Dropped, Value, Table

\* What replay leaves for a key is an entry or nothing.
LEMMA ReplayedType ==
    ASSUME TypeDirectory, NEW n \in Nat, wlog \in [Seqs -> Seq(1 .. n)], NEW k
    PROVE  Replayed(k) \in 0 .. n
<1> DEFINE hit == {g \in walFiles : Entries(g, k) # {}}
<1>1. CASE hit = {}
  BY <1>1, BasicSets DEF Replayed
<1>2. CASE hit # {}
  <2>1. hit \subseteq 0 .. MaxSeq
    BY BasicSets DEF TypeDirectory
  <2>2. Max(hit) \in hit
    <3> HIDE DEF hit
    <3>1. QED BY <1>2, <2>1, MaxOfBounded, BoundsAssumption
  <2>3. PICK g \in walFiles : g = Max(hit) /\ Entries(g, k) # {}
    BY <2>2
  <2>4. wlog[g] \in Seq(1 .. n)
    BY DEF TypeDirectory
  <2>5. Len(wlog[g]) \in Nat /\ Entries(g, k) \subseteq 0 .. Len(wlog[g])
    BY <2>4 DEF Entries
  <2>6. Max(Entries(g, k)) \in Entries(g, k)
    BY <2>3, <2>5, MaxOfBounded
  <2>7. Replayed(k) = wlog[g][Max(Entries(g, k))]
    BY <1>2, <2>3, Zenon DEF Replayed
  <2>8. PICK i \in 1 .. Len(wlog[g]) : i = Max(Entries(g, k))
    BY <2>6 DEF Entries
  <2>9. wlog[g][i] \in 1 .. n
    BY <2>4, ElementOfSeq
  <2>10. QED
    BY <2>7, <2>8, <2>9, BasicSets
<1>3. QED
  BY <1>1, <1>2

\* Every step of the WAL mutex holder preserves types.
LEMMA TypeWritePath == ASSUME TypeOK, WritePath PROVE TypeOK'
<1> USE BasicSets, BoundsAssumption, ClientsAssumption
<1>0. TypeDirectory /\ TypeProcess /\ TypeHistory
  BY DEF TypeOK
<1>1. ASSUME NEW k \in Keys, NEW del \in BOOLEAN,
             Write(k, del) \/ WriteSyncFails(k, del)
      PROVE  TypeOK'
  <2>1. /\ ops' = Append(ops, [key |-> k, del |-> del])
        /\ wlog' = [wlog EXCEPT ![active] = Append(@, Len(ops) + 1)]
        /\ Len(ops) < MaxWrites /\ active \in Seqs /\ mode = "up" /\ wr.pc = "free"
        /\ \/ wr' = [pc |-> "apply", by |-> "put", w |-> Len(ops) + 1, new |-> 0]
           \/ wr' = wr
        /\ UNCHANGED <<walFiles, files, sst, manifest, levels, mode, mem, active,
                       imms, nextSeq, stale, fl, wk, signals, calls, kv, gone,
                       snap, durable, acked, closed, stops>>
    BY <1>0, <1>1 DEF Write, WriteSyncFails, Logged, sstVars, promises, TypeProcess
  <2>2. Len(ops) + 1 \in 1 .. MaxWrites /\ Len(ops) + 1 \in Ids
    BY <1>0, <2>1 DEF TypeHistory, Ids
  <2>3. wlog' \in [Seqs -> Seq(1 .. MaxWrites)]
    BY <1>0, <2>1, <2>2 DEF TypeDirectory
  <2>4. wos' \in [Seqs -> Nat] /\ wsync' \in [Seqs -> Nat]
    BY <1>0, <1>1 DEF Write, WriteSyncFails, TypeDirectory
  <2>5. TypeDirectory'
    BY <1>0, <2>1, <2>3, <2>4 DEF TypeDirectory
  <2>6. wr' \in WrType
    BY <1>0, <2>1, <2>2 DEF WrType, TypeProcess
  <2>7. TypeProcess'
    BY <1>0, <2>1, <2>6 DEF TypeProcess
  <2>8. ops' \in Seq([key : Keys, del : BOOLEAN]) /\ Len(ops') = Len(ops) + 1
    BY <1>0, <2>1 DEF TypeHistory
  <2>9. TypeHistory'
    BY <1>0, <2>1, <2>2, <2>8 DEF TypeHistory
  <2>10. QED
    BY <2>5, <2>7, <2>9 DEF TypeOK
<1>2. ASSUME NEW w \in 1 .. Len(ops)
      PROVE  /\ ops[w].key \in Keys /\ w \in Ids
             /\ \A t \in Table : [t EXCEPT ![ops[w].key] = w] \in Table
  <2>1. ops[w] \in [key : Keys, del : BOOLEAN]
    BY <1>0, ElementOfSeq DEF TypeHistory
  <2>2. w \in Ids
    BY <1>0 DEF TypeHistory, Ids
  <2>3. QED
    BY <2>1, <2>2 DEF Table
<1>3. ASSUME NEW freeze \in BOOLEAN, Apply(freeze) PROVE TypeOK'
  <2>1. wr.w \in 1 .. Len(ops)
    BY <1>0, <1>3 DEF TypeHistory, Apply
  <2>2. TypeDirectory'
    BY <1>0, <1>3 DEF Apply, TypeDirectory, walVars, sstVars
  <2>3. mem' \in [Seqs -> Table]
    <3>1. mem' = [mem EXCEPT ![active] = [mem[active] EXCEPT ![ops[wr.w].key] = wr.w]]
      BY <1>3 DEF Apply
    <3>2. active \in Seqs /\ mem[active] \in Table
      BY <1>0, <1>3 DEF TypeProcess, Apply
    <3>3. QED
      BY <1>0, <1>2, <2>1, <3>1, <3>2 DEF TypeProcess
  <2>4. wr' \in WrType /\ (wr' = WrFree \/ (wr'.pc = "rotate" /\ wr'.by = wr.by /\ wr'.w = wr.w))
    BY <1>0, <1>3 DEF Apply, TypeProcess, WrType
  <2>5. TypeProcess'
    BY <1>0, <1>3, <2>3, <2>4 DEF Apply, TypeProcess, WrFree, sstVars
  <2>6. kv' \in Table /\ acked' \in Table /\ durable' \in Table
    <3>1. /\ kv' = [kv EXCEPT ![ops[wr.w].key] = wr.w]
          /\ acked' = acked \/ acked' = [acked EXCEPT ![ops[wr.w].key] = wr.w]
          /\ durable' = durable \/ durable' = [durable EXCEPT ![ops[wr.w].key] = wr.w]
      BY <1>3 DEF Apply, Acknowledge
    <3>2. kv \in Table /\ acked \in Table /\ durable \in Table
      BY <1>0 DEF TypeHistory
    <3>3. \A t \in Table : [t EXCEPT ![ops[wr.w].key] = wr.w] \in Table
      BY <1>2, <2>1
    <3>4. QED
      BY <3>1, <3>2, <3>3
  <2>7. TypeHistory'
    BY <1>0, <1>3, <2>1, <2>4, <2>6 DEF Apply, TypeHistory, WrFree
  <2>8. QED
    BY <2>2, <2>5, <2>7 DEF TypeOK
<1>4. ASSUME NEW c \in Clients, FlushSync(c) PROVE TypeOK'
  <2>1. TypeDirectory'
    <3>1. active \in Seqs /\ Len(wlog[active]) \in Nat
      BY <1>0, <1>4 DEF FlushSync, TypeDirectory, TypeProcess
    <3>2. QED
      BY <1>0, <1>4, <3>1 DEF FlushSync, Drained, Synced, TypeDirectory, sstVars
  <2>2. wr' \in WrType
    BY <1>0, <1>4 DEF FlushSync, TypeProcess, WrType
  <2>3. TypeProcess'
    BY <1>0, <1>4, <2>2 DEF FlushSync, TypeProcess, sstVars
  <2>4. TypeHistory'
    BY <1>0, <1>4 DEF FlushSync, TypeHistory, promises
  <2>5. QED
    BY <2>1, <2>3, <2>4 DEF TypeOK
<1>5. CASE Rotate
  <2>1. nextSeq \in Seqs /\ nextSeq' \in 1 .. (MaxSeq + 1)
    BY <1>0, <1>5 DEF Rotate, CanAllocate, Seqs, TypeProcess
  <2>2. TypeDirectory'
    BY <1>0, <1>5, <2>1 DEF Rotate, TypeDirectory, sstVars
  <2>3. wr' \in WrType /\ wr'.pc = "swap" /\ wr'.new = nextSeq /\ wr'.by = wr.by /\ wr'.w = wr.w
    BY <1>0, <1>5, <2>1 DEF Rotate, TypeProcess, WrType
  <2>4. TypeProcess'
    BY <1>0, <1>5, <2>1, <2>3 DEF Rotate, TypeProcess, sstVars
  <2>5. TypeHistory'
    BY <1>0, <1>5, <2>3 DEF Rotate, TypeHistory, ghosts
  <2>6. QED
    BY <2>2, <2>4, <2>5 DEF TypeOK
<1>6. CASE RotateFails
  <2>1. TypeDirectory'
    BY <1>0, <1>6 DEF RotateFails, TypeDirectory, walVars, sstVars
  <2>2. TypeProcess'
    BY <1>0, <1>6 DEF RotateFails, TypeProcess, CanAllocate, WrFree, sstVars
  <2>3. TypeHistory'
    BY <1>0, <1>6 DEF RotateFails, TypeHistory, ghosts, WrFree
  <2>4. QED
    BY <2>1, <2>2, <2>3 DEF TypeOK
<1>7. CASE Swap
  <2>1. TypeDirectory'
    <3>1. active \in Seqs /\ Len(wlog[active]) \in Nat
      BY <1>0, <1>7 DEF Swap, TypeDirectory, TypeProcess
    <3>2. QED
      BY <1>0, <1>7, <3>1 DEF Swap, Drained, TypeDirectory, sstVars
  <2>2. TypeProcess'
    <3>1. active \in Seqs /\ active' \in Seqs /\ mode = "up"
      BY <1>0, <1>7 DEF Swap, TypeProcess
    <3>2. imms' \subseteq Seqs /\ signals' \in Nat
      BY <1>0, <1>7, <3>1 DEF Swap, Signalled, TypeProcess
    <3>3. calls' \in [Clients -> {"idle", "sync", "drain", "compact"}]
      BY <1>0, <1>7 DEF Swap, TypeProcess
    <3>4. QED
      BY <1>0, <1>7, <3>1, <3>2, <3>3 DEF Swap, TypeProcess, WrFree, sstVars
  <2>3. acked' \in Table /\ durable' \in Table
    BY <1>0, <1>2, <1>7 DEF Swap, TypeHistory, Acknowledge
  <2>4. TypeHistory'
    BY <1>0, <1>7, <2>3 DEF Swap, TypeHistory, WrFree
  <2>5. QED
    BY <2>1, <2>2, <2>4 DEF TypeOK
<1>8. QED
  BY <1>1, <1>3, <1>4, <1>5, <1>6, <1>7 DEF WritePath

\* Leaving flush_lock preserves the types of what it changes.
LEMMA TypeRelease ==
    ASSUME TypeProcess, NEW n \in {"recv", "check"}, Release(n)
    PROVE  /\ fl' \in FlType /\ fl'.pc = "free"
           /\ wk' \in {"recv", "flush", "check", "compact"}
           /\ calls' \in [Clients -> {"idle", "sync", "drain", "compact"}]
  BY BasicSets DEF Release, TypeProcess, FlFree

\* Unlinking a WAL preserves the types of what it changes.
LEMMA TypeUnlinkWal ==
    ASSUME TypeDirectory, NEW g, UnlinkWal(g)
    PROVE  /\ walFiles' \subseteq Seqs
           /\ wlog' \in [Seqs -> Seq(1 .. MaxWrites)]
           /\ wos' \in [Seqs -> Nat] /\ wsync' \in [Seqs -> Nat]
<1>1. << >> \in Seq(1 .. MaxWrites)
  BY EmptySeq
<1>2. wlog' \in [Seqs -> Seq(1 .. MaxWrites)]
  BY <1>1 DEF UnlinkWal, TypeDirectory
<1>3. QED
  BY <1>2 DEF UnlinkWal, TypeDirectory

\* Every step of a flush pipeline preserves types.
LEMMA TypeFlushPipeline == ASSUME TypeOK, FlushPipeline PROVE TypeOK'
<1> USE BasicSets, BoundsAssumption, ClientsAssumption
<1>0. TypeDirectory /\ TypeProcess /\ TypeHistory
  BY DEF TypeOK
<1>1. ASSUME NEW p \in Clients \cup {"worker"}, FlushBegin(p) PROVE TypeOK'
  <2>1. fl' \in FlType /\ fl'.pc = "drain"
    BY <1>1 DEF FlushBegin, FlFree, FlType, Callers
  <2>2. QED
    BY <1>0, <1>1, <2>1
       DEF FlushBegin, TypeOK, TypeDirectory, TypeProcess, TypeHistory, dirVars, ghosts
<1>2. CASE FlushBuild
  <2>1. FirstFrozen \in Seqs
    BY <1>0, <1>2, MinOfNats DEF FlushBuild, FirstFrozen, TypeProcess
  <2>2. nextSeq \in Seqs /\ nextSeq' \in 1 .. (MaxSeq + 1)
    BY <1>0, <1>2 DEF FlushBuild, CanAllocate, Seqs, TypeProcess
  <2>3. files' \in [Levels -> SUBSET Seqs]
    BY <1>0, <1>2, <2>2 DEF FlushBuild, TypeDirectory
  <2>4. sst' \in [Levels -> [Seqs -> Table]]
    BY <1>0, <1>2, <2>1, <2>2 DEF FlushBuild, TypeDirectory, TypeProcess
  <2>5. fl' \in FlType /\ fl'.gen \in Seqs /\ fl'.seq \in Seqs
    BY <1>0, <1>2, <2>1, <2>2 DEF FlushBuild, TypeProcess, FlType
  <2>6. TypeDirectory'
    BY <1>0, <1>2, <2>3, <2>4 DEF FlushBuild, TypeDirectory, walVars
  <2>7. QED
    BY <1>0, <1>2, <2>2, <2>5, <2>6
       DEF FlushBuild, TypeOK, TypeProcess, TypeHistory, ghosts
<1>3. CASE FlushBuildFails
  <2>1. nextSeq' \in 1 .. (MaxSeq + 1)
    BY <1>0, <1>3 DEF FlushBuildFails, CanAllocate, TypeProcess
  <2>2. Release("recv")
    BY <1>3 DEF FlushBuildFails
  <2>3. QED
    BY <1>0, <1>3, <2>1, <2>2, TypeRelease
       DEF FlushBuildFails, TypeOK, TypeDirectory, TypeProcess, TypeHistory, dirVars,
           ghosts
<1>4. CASE FlushCommit
  <2>1. fl.seq \in Seqs /\ fl.gen \in Seqs
    BY <1>0, <1>4 DEF FlushCommit, TypeProcess
  <2>2. fl' \in FlType /\ fl'.pc = "drain"
    <3>1. fl \in FlType
      BY <1>0 DEF TypeProcess
    <3>2. fl' = [fl EXCEPT !.pc = "drain", !.todo = fl.todo \cup {fl.gen},
                           !.gen = 0, !.seq = 0]
      BY <1>4 DEF FlushCommit, Flushed
    <3>3. fl.todo \cup {fl.gen} \in SUBSET Seqs /\ 0 \in 0 .. MaxSeq
      BY <2>1, <3>1 DEF FlType
    <3>4. QED
      BY <3>1, <3>2, <3>3 DEF FlType
  <2>3. levels' \in [Levels -> SUBSET Seqs] /\ mem' \in [Seqs -> Table]
    BY <1>0, <1>4, <2>1 DEF FlushCommit, TypeProcess
  <2>4. QED
    BY <1>0, <1>4, <2>2, <2>3
       DEF FlushCommit, StillFrozen, TypeOK, TypeDirectory, TypeProcess, TypeHistory, dirVars, ghosts
<1>5. CASE FlushNothing
  <2>1. fl' \in FlType /\ fl'.pc = "ok"
    BY <1>0, <1>5 DEF FlushNothing, TypeProcess, FlType
  <2>2. QED
    BY <1>0, <1>5, <2>1
       DEF FlushNothing, TypeOK, TypeDirectory, TypeProcess, TypeHistory, dirVars, ghosts
<1>6. CASE FlushManifest
  <2>1. fl' \in FlType /\ fl'.pc = "unlink"
    BY <1>0, <1>6 DEF FlushManifest, TypeProcess, FlType
  <2>2. QED
    BY <1>0, <1>6, <2>1
       DEF FlushManifest, LiveManifest, TypeOK, TypeDirectory, TypeProcess, TypeHistory, walVars, ghosts
<1>7. CASE FlushManifestFails
  BY <1>0, <1>7, TypeRelease
     DEF FlushManifestFails, TypeOK, TypeDirectory, TypeProcess, TypeHistory, dirVars,
         ghosts
<1>8. CASE FlushUnlink
  <2>1. fl' \in FlType /\ fl'.pc # "commit"
    BY <1>0, <1>8 DEF FlushUnlink, TypeProcess, FlType
  <2>2. TypeDirectory'
    <3>1. UnlinkWal(OldestGen(fl.todo)) \/ UNCHANGED walVars
      BY <1>8 DEF FlushUnlink
    <3>2. QED
      BY <1>0, <1>8, <3>1, TypeUnlinkWal DEF FlushUnlink, TypeDirectory, sstVars, walVars
  <2>3. QED
    BY <1>0, <1>8, <2>1, <2>2
       DEF FlushUnlink, TypeOK, TypeProcess, TypeHistory, sstVars, ghosts
<1>9. CASE FlushReturn
  <2>1. Release("check")
    BY <1>9 DEF FlushReturn
  <2>2. ASSUME NEW t \in Table, NEW u \in Table PROVE NewerOf(t, u) \in Table
    BY DEF NewerOf, Table
  <2>3. durable' \in Table /\ snap' \in [Clients -> Table]
    BY <1>0, <1>9, <2>2 DEF FlushReturn, TypeHistory
  <2>4. QED
    BY <1>0, <1>9, <2>1, <2>3, TypeRelease
       DEF FlushReturn, TypeOK, TypeDirectory, TypeProcess, TypeHistory, dirVars
<1>10. QED
  BY <1>1, <1>2, <1>3, <1>4, <1>5, <1>6, <1>7, <1>8, <1>9 DEF FlushPipeline

\* Every step of a compaction preserves types.
LEMMA TypeCompaction == ASSUME TypeOK, Compaction PROVE TypeOK'
<1> USE BasicSets, BoundsAssumption, ClientsAssumption
<1>0. TypeDirectory /\ TypeProcess /\ TypeHistory /\ levels \in [Levels -> SUBSET Seqs]
  BY DEF TypeOK, TypeProcess
<1>1. ASSUME NEW p \in Clients \cup {"worker"}, CompactBuild(p) PROVE TypeOK'
  <2>1. Merged(levels) \in Table
    BY <1>0, MergedType
  <2>2. \/ UNCHANGED <<nextSeq, files, sst>> /\ fl' = [FlFree EXCEPT !.pc = "merged", !.by = p]
        \/ /\ nextSeq \in Seqs /\ nextSeq' = nextSeq + 1
           /\ files' = [files EXCEPT ![1] = files[1] \cup {nextSeq}]
           /\ sst' = [sst EXCEPT ![1] = [sst[1] EXCEPT ![nextSeq] = Merged(levels)]]
           /\ fl' = [FlFree EXCEPT !.pc = "merged", !.by = p, !.seq = nextSeq]
    <3>1. CanAllocate => nextSeq \in Seqs
      BY <1>0 DEF CanAllocate, Seqs, TypeProcess
    <3>2. CASE Merged(levels) = EmptyTable
      BY <1>1, <3>2 DEF CompactBuild
    <3>3. CASE Merged(levels) # EmptyTable
      BY <1>1, <3>1, <3>3 DEF CompactBuild
    <3>4. QED
      BY <3>2, <3>3
  <2>3. nextSeq' \in 1 .. (MaxSeq + 1)
    BY <1>0, <2>2 DEF Seqs, TypeProcess
  <2>4. fl' \in FlType /\ fl'.pc = "merged"
    BY <1>0, <2>2 DEF FlFree, FlType, Callers
  <2>5. files' \in [Levels -> SUBSET Seqs]
    <3>1. files \in [Levels -> SUBSET Seqs] /\ files[1] \in SUBSET Seqs
      BY <1>0 DEF TypeDirectory
    <3>2. nextSeq \in Seqs =>
            [files EXCEPT ![1] = files[1] \cup {nextSeq}] \in [Levels -> SUBSET Seqs]
      BY <3>1, LevelUpdate
    <3>3. QED
      BY <2>2, <3>1, <3>2, Zenon
  <2>6. sst' \in [Levels -> [Seqs -> Table]]
    <3>1. sst \in [Levels -> [Seqs -> Table]]
      BY <1>0 DEF TypeDirectory
    <3>2. nextSeq \in Seqs =>
            [sst EXCEPT ![1] = [sst[1] EXCEPT ![nextSeq] = Merged(levels)]]
              \in [Levels -> [Seqs -> Table]]
      BY <2>1, <3>1, LevelUpdate, Zenon
    <3>3. QED
      BY <2>2, <3>1, <3>2, Zenon
  <2>7. calls' \in [Clients -> {"idle", "sync", "drain", "compact"}]
    BY <1>0, <1>1 DEF CompactBuild, TypeProcess
  <2>8. TypeDirectory'
    BY <1>0, <1>1, <2>5, <2>6 DEF CompactBuild, TypeDirectory, walVars
  <2>9. QED
    BY <1>0, <1>1, <2>3, <2>4, <2>7, <2>8
       DEF CompactBuild, TypeOK, TypeProcess, TypeHistory, ghosts
<1>2. ASSUME NEW p \in Clients \cup {"worker"}, CompactBuildFails(p) PROVE TypeOK'
  BY <1>0, <1>2
     DEF CompactBuildFails, CanAllocate, TypeOK, TypeDirectory, TypeProcess, TypeHistory,
         dirVars, ghosts
<1>3. CASE CompactNothing
  BY <1>0, <1>3
     DEF CompactNothing, TypeOK, TypeDirectory, TypeProcess, TypeHistory, dirVars, ghosts
<1>4. CASE CompactCommit
  <2>1. Dropped(levels) \in Table
    BY <1>0, MergedType
  <2>2. gone' \in Table
    BY <1>0, <1>4, <2>1 DEF CompactCommit, NewerOf, Table, TypeHistory
  <2>3. fl.seq \in 0 .. MaxSeq
    BY <1>0 DEF TypeProcess, FlType
  <2>4. levels' \in [Levels -> SUBSET Seqs]
    BY <1>0, <1>4, <2>3 DEF CompactCommit, Compacted, Seqs
  <2>5. fl' \in FlType /\ fl'.pc = "record"
    <3>1. fl \in FlType
      BY <1>0 DEF TypeProcess
    <3>2. fl' = [fl EXCEPT !.pc = "record", !.inputs = levels, !.seq = 0]
      BY <1>4 DEF CompactCommit
    <3>3. levels \in [Levels -> SUBSET Seqs] /\ 0 \in 0 .. MaxSeq
      BY <1>0
    <3>4. QED
      BY <3>1, <3>2, <3>3 DEF FlType
  <2>6. QED
    BY <1>0, <1>4, <2>2, <2>4, <2>5
       DEF CompactCommit, TypeOK, TypeDirectory, TypeProcess, TypeHistory, dirVars, promises
<1>5. CASE CompactManifest
  <2>1. fl' \in FlType /\ fl'.pc = "sweep"
    BY <1>0, <1>5 DEF CompactManifest, TypeProcess, FlType
  <2>2. QED
    BY <1>0, <1>5, <2>1
       DEF CompactManifest, LiveManifest, TypeOK, TypeDirectory, TypeProcess, TypeHistory, walVars, ghosts
<1>6. CASE CompactManifestFails
  BY <1>0, <1>6, TypeRelease
     DEF CompactManifestFails, TypeOK, TypeDirectory, TypeProcess, TypeHistory, dirVars,
         ghosts
<1>7. ASSUME NEW l \in Levels, CompactUnlink(l) PROVE TypeOK'
  <2>1. fl' \in FlType /\ fl'.pc = "sweep"
    BY <1>0, <1>7 DEF CompactUnlink, TypeProcess, FlType
  <2>2. files' \in [Levels -> SUBSET Seqs] /\ sst' \in [Levels -> [Seqs -> Table]]
    <3>1. \/ UNCHANGED <<files, sst>>
          \/ /\ files' = [files EXCEPT ![l] = files[l] \ {Min(fl.inputs[l])}]
             /\ sst' = [sst EXCEPT ![l] = [sst[l] EXCEPT ![Min(fl.inputs[l])] = EmptyTable]]
      BY <1>7 DEF CompactUnlink
    <3>2. Min(fl.inputs[l]) \in Seqs
      BY <1>0, <1>7, MinOfNats DEF CompactUnlink, TypeProcess, FlType
    <3>3. /\ sst \in [Levels -> [Seqs -> Table]]
          /\ files \in [Levels -> SUBSET Seqs]
          /\ files[l] \ {Min(fl.inputs[l])} \in SUBSET Seqs
      BY <1>0 DEF TypeDirectory
    <3>4. /\ [files EXCEPT ![l] = files[l] \ {Min(fl.inputs[l])}]
               \in [Levels -> SUBSET Seqs]
          /\ [sst EXCEPT ![l] = [sst[l] EXCEPT ![Min(fl.inputs[l])] = EmptyTable]]
               \in [Levels -> [Seqs -> Table]]
      BY <3>2, <3>3, LevelUpdate, Zenon
    <3>5. QED
      BY <3>1, <3>3, <3>4, Zenon
  <2>3. QED
    BY <1>0, <1>7, <2>1, <2>2
       DEF CompactUnlink, TypeOK, TypeDirectory, TypeProcess, TypeHistory, walVars, ghosts
<1>8. CASE CompactReturn
  BY <1>0, <1>8, TypeRelease
     DEF CompactReturn, TypeOK, TypeDirectory, TypeProcess, TypeHistory, dirVars, ghosts
<1>9. QED
  BY <1>1, <1>2, <1>3, <1>4, <1>5, <1>6, <1>7, <1>8 DEF Compaction

\* The number open draws is above every number it knows of.
LEMMA RecoveredSeqAbove ==
    ASSUME TypeDirectory
    PROVE  RecoveredSeq \in Nat \ {0} /\ \A s \in KnownSeqs : s < RecoveredSeq
<1>1. KnownSeqs \subseteq 0 .. MaxSeq
  BY BasicSets DEF TypeDirectory, KnownSeqs
<1>2. CASE KnownSeqs = {}
  BY <1>2 DEF RecoveredSeq
<1>3. CASE KnownSeqs # {}
  <2>1. Max(KnownSeqs) \in KnownSeqs /\ \A s \in KnownSeqs : s <= Max(KnownSeqs)
    BY <1>1, <1>3, MaxOfBounded, BoundsAssumption
  <2>2. PICK m \in KnownSeqs : m = Max(KnownSeqs)
    BY <2>1
  <2>3. m \in Nat /\ \A s \in KnownSeqs : s \in Nat /\ s <= m
    BY <1>1, <2>1, <2>2
  <2>4. RecoveredSeq = m + 1
    BY <1>3, <2>2 DEF RecoveredSeq
  <2>5. QED
    BY <2>3, <2>4
<1>4. QED
  BY <1>2, <1>3

\* The entries that open re-appends form a log.
LEMMA InKeyOrderType ==
    ASSUME NEW n \in Nat, NEW t \in [Keys -> 0 .. n], NEW log \in InKeyOrder(t)
    PROVE  log \in Seq(1 .. n)
<1> DEFINE S == {t[k] : k \in Keys} \ {0}
<1>1. S \subseteq 1 .. n
  OBVIOUS
<1>2. IsFiniteSet(S)
  <2> HIDE DEF S
  <2>1. IsFiniteSet(1 .. n)
    BY FS_Interval, BoundsAssumption
  <2>2. QED
    BY <1>1, <2>1, FS_Subset
<1>3. Cardinality(S) \in Nat
  <2> HIDE DEF S
  <2>1. QED
    BY <1>2, FS_CardinalityType
<1>4. log \in [1 .. Cardinality(S) -> S]
  BY Zenon DEF InKeyOrder
<1>5. QED
  <2> HIDE DEF S
  <2>1. log \in Seq(S)
    BY <1>3, <1>4, SeqDef
  <2>2. QED
    BY <1>1, <2>1, SeqMonotonic

\* A stopped process has well-typed (empty) memory.
LEMMA TypeProcessGone ==
    ASSUME ProcessGone
    PROVE  TypeProcess' /\ wr' = WrFree /\ snap' \in [Clients -> Table]
<1>1. /\ mem' \in [Seqs -> Table]
      /\ levels' \in [Levels -> SUBSET Seqs]
      /\ wr' \in WrType /\ fl' \in FlType
  BY BasicSets DEF ProcessGone
<1>2. QED
  BY <1>1, BasicSets, BoundsAssumption DEF ProcessGone, TypeProcess, WrFree, FlFree

\* Dropping, crashing and opening preserve types.
LEMMA TypeLifecycle == ASSUME TypeOK, Lifecycle PROVE TypeOK'
<1> USE BasicSets, BoundsAssumption
<1>0. TypeDirectory /\ TypeProcess /\ TypeHistory
  BY DEF TypeOK
<1>1. CASE Close
  <2>1. active \in Seqs /\ Len(wlog[active]) \in Nat
    BY <1>0, <1>1 DEF Close, TypeDirectory, TypeProcess
  <2>2. TypeDirectory'
    <3>1. wsync' = Synced(active) \/ wsync' = wsync
      BY <1>1 DEF Close
    <3>2. Synced(active) \in [Seqs -> Nat] /\ Drained(active) \in [Seqs -> Nat]
      BY <1>0, <2>1 DEF Drained, Synced, TypeDirectory
    <3>3. wsync' \in [Seqs -> Nat]
      BY <1>0, <3>1, <3>2 DEF TypeDirectory
    <3>4. QED
      BY <1>0, <1>1, <3>2, <3>3 DEF Close, TypeDirectory
  <2>3. TypeProcess' /\ wr' = WrFree /\ snap' \in [Clients -> Table]
    BY <1>1, TypeProcessGone DEF Close
  <2>4. TypeHistory'
    BY <1>0, <1>1, <2>3 DEF Close, TypeHistory, WrFree
  <2>5. QED
    BY <2>2, <2>3, <2>4 DEF TypeOK
<1>2. ASSUME NEW kind \in CrashKinds, Crash(kind) PROVE TypeOK'
  <2>1. PICK cut \in [walFiles -> Ids] :
          /\ \A g \in walFiles : Safe(kind, g) <= cut[g] /\ cut[g] <= Len(wlog[g])
          /\ wlog' = [g \in Seqs |->
                        IF g \in walFiles THEN SubSeq(wlog[g], 1, cut[g]) ELSE << >>]
          /\ wos' = [g \in Seqs |-> IF g \in walFiles THEN cut[g] ELSE 0]
          /\ wsync' = IF kind = "kill" THEN wsync
                      ELSE [g \in Seqs |-> IF g \in walFiles THEN cut[g] ELSE 0]
    BY <1>2, Zenon DEF Crash
  <2>2. ASSUME NEW g \in walFiles PROVE SubSeq(wlog[g], 1, cut[g]) \in Seq(1 .. MaxWrites)
    <3>1. wlog[g] \in Seq(1 .. MaxWrites)
      BY <1>0 DEF TypeDirectory
    <3>2. cut[g] \in Nat /\ cut[g] <= Len(wlog[g])
      BY <2>1
    <3>3. \A i \in 1 .. cut[g] : wlog[g][i] \in 1 .. MaxWrites
      BY <3>1, <3>2, ElementOfSeq
    <3>4. QED
      BY <3>2, <3>3, SubSeqProperties
  <2>3. wlog' \in [Seqs -> Seq(1 .. MaxWrites)]
    BY <2>1, <2>2, EmptySeq
  <2>4. wos' \in [Seqs -> Nat] /\ wsync' \in [Seqs -> Nat]
    BY <1>0, <2>1 DEF TypeDirectory
  <2>5. TypeDirectory'
    BY <1>0, <1>2, <2>3, <2>4 DEF Crash, TypeDirectory
  <2>6. TypeProcess' /\ wr' = WrFree /\ snap' \in [Clients -> Table]
    BY <1>2, TypeProcessGone DEF Crash
  <2>7. TypeHistory'
    BY <1>0, <1>2, <2>6 DEF Crash, TypeHistory, WrFree, promises
  <2>8. QED
    BY <2>5, <2>6, <2>7 DEF TypeOK
<1>3. CASE Recover
  <2> DEFINE t == [k \in Keys |-> Replayed(k)]
  <2>1. RecoveredSeq \in Seqs /\ RecoveredSeq + 1 \in 1 .. (MaxSeq + 1)
    BY <1>0, <1>3, RecoveredSeqAbove DEF Recover, Seqs
  <2>2. t \in Table /\ t \in [Keys -> 0 .. MaxWrites]
    <3>1. \A k \in Keys : Replayed(k) \in 0 .. MaxWrites
      BY <1>0, ReplayedType DEF TypeDirectory
    <3>2. QED
      BY <3>1 DEF Table, Ids
  <2>3. PICK log \in InKeyOrder(t) : wlog' = [wlog EXCEPT ![RecoveredSeq] = log]
    BY <1>3, Zenon DEF Recover
  <2>4. log \in Seq(1 .. MaxWrites)
    <3> HIDE DEF t
    <3>1. QED BY <2>2, InKeyOrderType
  <2>5. wlog' \in [Seqs -> Seq(1 .. MaxWrites)]
    BY <1>0, <2>3, <2>4 DEF TypeDirectory
  <2>6. TypeDirectory'
    BY <1>0, <1>3, <2>1, <2>5 DEF Recover, TypeDirectory
  <2>7. mem' \in [Seqs -> Table]
    <3>1. mem' = [mem EXCEPT ![RecoveredSeq] = t]
      BY <1>3 DEF Recover
    <3> HIDE DEF t
    <3>2. QED BY <1>0, <2>2, <3>1 DEF TypeProcess
  <2>8. TypeProcess'
    BY <1>0, <1>3, <2>1, <2>7 DEF Recover, TypeProcess, TypeDirectory
  <2>9. ASSUME NEW k \in Keys PROVE Recovered(k) \in Ids
    <3>1. Replayed(k) \in Ids
      BY <1>0, ReplayedType DEF TypeDirectory, Ids
    <3>2. /\ NewestHit(manifest[0], sst[0], k) \in Ids
          /\ NewestHit(manifest[1], sst[1], k) \in Ids
      BY <1>0, NewestHitType DEF TypeDirectory
    <3>3. QED
      BY <3>1, <3>2 DEF Recovered, OrElse
  <2>10. kv' \in Table
    BY <1>3, <2>9 DEF Recover, Table
  <2>11. TypeHistory'
    BY <1>0, <1>3, <2>10 DEF Recover, TypeHistory, promises
  <2>12. QED
    BY <2>6, <2>8, <2>11 DEF TypeOK
<1>4. CASE Reback
  <2>1. active \in Seqs /\ Len(wlog[active]) \in Nat
    BY <1>0, <1>4 DEF Reback, TypeDirectory, TypeProcess
  <2>2. TypeDirectory'
    BY <1>0, <1>4, <2>1 DEF Reback, Drained, Synced, TypeDirectory, sstVars
  <2>3. QED
    BY <1>0, <1>4, <2>2 DEF Reback, TypeOK, TypeProcess, TypeHistory, sstVars, ghosts
<1>5. CASE RebackFails
  <2>1. active \in Seqs /\ Len(wlog[active]) \in Nat
    BY <1>0, <1>5 DEF RebackFails, TypeDirectory, TypeProcess
  <2>2. TypeDirectory'
    BY <1>0, <1>5, <2>1 DEF RebackFails, Drained, TypeDirectory
  <2>3. TypeProcess' /\ wr' = WrFree /\ snap' \in [Clients -> Table]
    BY <1>5, TypeProcessGone DEF RebackFails
  <2>4. TypeHistory'
    BY <1>0, <1>5, <2>3 DEF RebackFails, TypeHistory, WrFree, promises
  <2>5. QED
    BY <2>2, <2>3, <2>4 DEF TypeOK
<1>6. CASE CleanOld
  <2>1. UnlinkWal(OldestGen(stale)) \/ UNCHANGED walVars
    BY <1>6 DEF CleanOld
  <2>2. TypeDirectory'
    BY <1>0, <1>6, <2>1, TypeUnlinkWal DEF CleanOld, TypeDirectory, sstVars, walVars
  <2>3. QED
    BY <1>0, <1>6, <2>2 DEF CleanOld, TypeOK, TypeProcess, TypeHistory, sstVars, ghosts
<1>7. QED
  BY <1>1, <1>2, <1>3, <1>4, <1>5, <1>6 DEF Lifecycle

\* The worker's own steps preserve types.
LEMMA TypeWorker == ASSUME TypeOK, Worker PROVE TypeOK'
  BY DEF Worker, WorkerRecv, WorkerCheck, TypeOK, TypeDirectory, TypeProcess, TypeHistory,
         dirVars, ghosts

\* Every step preserves types.
LEMMA TypeNext == TypeOK /\ [Next]_vars => TypeOK'
<1>1. SUFFICES ASSUME TypeOK, [Next]_vars PROVE TypeOK'
  OBVIOUS
<1>2. CASE UNCHANGED vars
  BY <1>1, <1>2 DEF vars, TypeOK, TypeDirectory, TypeProcess, TypeHistory
<1>3. QED
  BY <1>1, <1>2, TypeWritePath, TypeFlushPipeline, TypeCompaction, TypeWorker,
     TypeLifecycle DEF Next

\* Every variable of the engine keeps its type: file numbers stay in range also
\* after a recovery, the holders of the two mutexes are in a legal position, and a
\* put between its append and its return has an issued number (engine.rs).
THEOREM TypeCorrect == Spec => []TypeOK
  BY TypeInit, TypeNext, PTL DEF Spec

-----------------------------------------------------------------------------
(* Reading and merging.                                                    *)

\* merge_runs and get agree on the newest record of a key when level 1 is older
\* than level 0.
LEMMA WinnerByLevel ==
    ASSUME NEW T \in [Levels -> SUBSET Seqs], NEW k,
           \A s \in T[0], t \in T[1] : t < s
    PROVE  Winner(T, k) = OrElse(NewestHit(T[0], sst[0], k),
                                 NewestHit(T[1], sst[1], k))
<1>0. T[0] \subseteq Seqs /\ T[1] \subseteq Seqs /\ \A s \in Seqs : s \in Int
  BY BasicSets DEF Seqs
<1>1. /\ IsNewest(T[0], sst[0], k, NewestHit(T[0], sst[0], k))
      /\ IsNewest(T[1], sst[1], k, NewestHit(T[1], sst[1], k))
  BY <1>0, NewestHitIs, Zenon
<1>2. ASSUME NEW l \in Levels, NEW s \in T[l], sst[l][s][k] # 0
      PROVE  <<l, s>> \in RunsWith(T, k)
  BY <1>2 DEF RunsWith, Runs
<1>3. CASE RunsWith(T, k) = {}
  <2>1. \A l \in Levels : \A s \in T[l] : sst[l][s][k] = 0
    BY <1>2, <1>3
  <2>2. (\A s \in T[0] : sst[0][s][k] = 0) /\ (\A s \in T[1] : sst[1][s][k] = 0)
    BY <2>1, BasicSets
  <2>3. NewestHit(T[0], sst[0], k) = 0 /\ NewestHit(T[1], sst[1], k) = 0
    BY <1>1, <2>2, Zenon DEF IsNewest
  <2>4. QED
    BY <1>3, <2>3 DEF Winner, OrElse
<1>4. CASE RunsWith(T, k) # {}
  <2>1. PICK r \in RunsWith(T, k) :
          /\ Winner(T, k) = sst[r[1]][r[2]][k]
          /\ \A q \in RunsWith(T, k) : q[2] <= r[2]
    BY <1>4, WinnerIs
  <2>2. r[1] \in Levels /\ r[2] \in T[r[1]] /\ sst[r[1]][r[2]][k] # 0
    BY DEF RunsWith, Runs
  <2>3. ASSUME NEW l \in Levels, NEW s \in T[l], sst[l][s][k] # 0 PROVE s <= r[2]
    <3>1. <<l, s>>[2] <= r[2]
      BY <1>2, <2>1, <2>3
    <3>2. QED
      BY <3>1
  <2>newest. /\ \A s \in T[0] : sst[0][s][k] # 0 => s <= r[2]
        /\ \A s \in T[1] : sst[1][s][k] # 0 => s <= r[2]
    BY <2>3, BasicSets
  <2>4. CASE r[1] = 0
    <3>1. PICK s \in T[0] : /\ NewestHit(T[0], sst[0], k) = sst[0][s][k]
                           /\ sst[0][s][k] # 0
                           /\ \A t \in T[0] : sst[0][t][k] # 0 => t <= s
      BY <1>1, <2>2, <2>4, Zenon DEF IsNewest
    <3>here. r[2] \in T[0] /\ sst[0][r[2]][k] # 0
      BY <2>2, <2>4
    <3>same. r[2] <= s /\ s <= r[2]
      BY <2>newest, <3>1, <3>here
    <3>2. s = r[2]
      BY <1>0, <3>1, <3>here, <3>same
    <3>3. QED
      BY <2>1, <2>4, <3>1, <3>2 DEF OrElse
  <2>5. CASE r[1] = 1
    <3>1. \A s \in T[0] : sst[0][s][k] = 0
      <4>1. r[2] \in T[1]
        BY <2>2, <2>5
      <4>2. \A s \in T[0] : r[2] < s /\ s \in Int /\ r[2] \in Int
        BY <1>0, <4>1
      <4>3. QED
        BY <2>newest, <4>2
    <3>2. NewestHit(T[0], sst[0], k) = 0
      BY <1>1, <3>1, Zenon DEF IsNewest
    <3>3. PICK s \in T[1] : /\ NewestHit(T[1], sst[1], k) = sst[1][s][k]
                           /\ sst[1][s][k] # 0
                           /\ \A t \in T[1] : sst[1][t][k] # 0 => t <= s
      BY <1>1, <2>2, <2>5, Zenon DEF IsNewest
    <3>here. r[2] \in T[1] /\ sst[1][r[2]][k] # 0
      BY <2>2, <2>5
    <3>same. r[2] <= s /\ s <= r[2]
      BY <2>newest, <3>3, <3>here
    <3>4. s = r[2]
      BY <1>0, <3>3, <3>here, <3>same
    <3>5. QED
      BY <2>1, <2>5, <3>2, <3>3, <3>4 DEF OrElse
  <2>6. QED
    BY <2>2, <2>4, <2>5 DEF Levels
<1>5. QED
  BY <1>3, <1>4

\* Layers may be regrouped.
LEMMA OrElseAssoc ==
    ASSUME NEW a, NEW b, NEW c
    PROVE  OrElse(OrElse(a, b), c) = OrElse(a, OrElse(b, c))
  BY DEF OrElse

\* Dropping a tombstone from the last layer changes no answer.
LEMMA ValueOfLast ==
    ASSUME NEW a, NEW b
    PROVE  Value(OrElse(a, Value(b))) = Value(OrElse(a, b))
<1>1. Value(0) = 0
  BY DEF Value, IsDelete
<1>2. Value(Value(b)) = Value(b)
  BY <1>1 DEF Value
<1>3. QED
  BY <1>2 DEF OrElse

\* A merge depends on the live tables and on nothing else.
LEMMA MergedSame ==
    ASSUME UNCHANGED <<levels, sst, ops>> PROVE Merged(levels)' = Merged(levels)
  BY DEF Merged, Value, IsDelete, Winner, RunsWith, Runs

\* The parts of the state that a reader looks at.
viewVars == <<mem, active, imms, levels, sst>>

-----------------------------------------------------------------------------
(* Steps that leave the tables alone.                                      *)

\* A step that leaves MemTables, tables, MANIFEST and history as they are, and
\* starts no freeze, flush or compaction that it does not leave as it was,
\* preserves the invariant.
LEMMA Frame ==
    ASSUME Inv, TypeOK', Quiet',
           UNCHANGED <<viewVars, files, manifest, kv, ops>>,
           nextSeq <= nextSeq',
           mode' = mode \/ (mode # "down" /\ mode' # "down"),
           wlog' \in [Seqs -> Seq(1 .. Len(ops))],
           wr'.pc = "swap" => wr' = wr,
           fl'.pc \in {"commit", "merged", "record", "sweep"} => fl' = fl
    PROVE  Inv'
<1>0. /\ nextSeq \in Nat /\ nextSeq' \in Nat /\ active \in Int
      /\ \A s \in Seqs : s \in Int
  BY DEF Inv, TypeOK, TypeProcess, Seqs
<1>1. UNCHANGED <<mem, active, imms, levels, sst, files, manifest, kv, ops>>
  BY DEF viewVars
<1>2. Generations'
  <2>1. SUFFICES ASSUME mode # "down"
        PROVE  Generations'
    BY DEF Generations
  <2>2. /\ active \in Seqs /\ active < nextSeq
        /\ \A g \in imms : g < active
        /\ \A g \in Seqs : g >= nextSeq => mem[g] = EmptyTable
        /\ wr.pc = "swap" => /\ wr.new \in Seqs /\ active < wr.new
                             /\ wr.new < nextSeq
                             /\ mem[wr.new] = EmptyTable
    BY <2>1 DEF Inv, Generations
  <2>3. active < nextSeq' /\ \A g \in Seqs : g >= nextSeq' => g >= nextSeq
    BY <1>0, <2>2
  <2>4. ASSUME wr'.pc = "swap" PROVE wr'.new < nextSeq'
    <3>1. wr' = wr
      BY <2>4
    <3>2. wr.new \in Int /\ wr.new < nextSeq
      BY <1>0, <2>2, <2>4, <3>1
    <3>3. QED
      BY <1>0, <3>1, <3>2
  <2>5. /\ active' \in Seqs /\ active' < nextSeq'
        /\ \A g \in imms' : g < active'
        /\ \A g \in Seqs : g >= nextSeq' => mem'[g] = EmptyTable
    BY <1>1, <2>2, <2>3
  <2>6. wr'.pc = "swap" => /\ wr'.new \in Seqs /\ active' < wr'.new
                           /\ wr'.new < nextSeq'
                           /\ mem'[wr'.new] = EmptyTable
    BY <1>1, <2>2, <2>4
  <2>7. QED
    BY <2>5, <2>6 DEF Generations
<1>3. Tables'
  <2>1. \A l \in Levels : \A s \in levels[l] \cup manifest[l] : s \in Int
    BY <1>0 DEF Inv, TypeOK, TypeProcess, TypeDirectory
  <2>2. mode' # "down" =>
          \A l \in Levels : \A s \in levels[l] \cup manifest[l] : s < nextSeq
    BY DEF Inv, Tables
  <2>3. mode' # "down" =>
          \A l \in Levels : \A s \in levels[l] \cup manifest[l] : s < nextSeq'
    BY <1>0, <2>1, <2>2
  <2>4. QED
    BY <1>1, <2>3 DEF Inv, Tables
<1>4. LevelOrder'
  BY <1>1 DEF Inv, LevelOrder
<1>5. FlushInFlight'
  <2>1. SUFFICES ASSUME fl'.pc = "commit" PROVE FlushInFlight'
    BY DEF FlushInFlight
  <2>2. fl' = fl /\ fl.seq \in Int /\ (fl.seq < nextSeq => fl.seq < nextSeq')
    BY <1>0, <2>1 DEF Inv, TypeOK, TypeProcess, FlType
  <2>3. QED
    BY <1>1, <2>1, <2>2 DEF Inv, FlushInFlight
<1>6. CompactionInFlight'
  <2>1. SUFFICES ASSUME fl'.pc = "merged" PROVE CompactionInFlight'
    BY DEF CompactionInFlight
  <2>2. fl' = fl /\ fl.seq \in Int /\ (fl.seq < nextSeq => fl.seq < nextSeq')
    BY <1>0, <2>1 DEF Inv, TypeOK, TypeProcess, FlType
  <2>3. Merged(levels)' = Merged(levels)
    BY <1>1, MergedSame, Zenon
  <2>4. QED
    BY <1>1, <2>1, <2>2, <2>3 DEF Inv, CompactionInFlight
<1>7. InputsRetired'
  BY <1>1 DEF Inv, InputsRetired
<1>8. Issued'
  BY <1>1 DEF Inv, Issued
<1>9. View'
  <2>1. \A k \in Keys : Lookup(k)' = Lookup(k)
    BY <1>1 DEF Lookup
  <2>2. QED
    BY <1>1, <2>1 DEF Inv, View, Value, IsDelete
<1>10. QED
  BY <1>2, <1>3, <1>4, <1>5, <1>6, <1>7, <1>8, <1>9 DEF Inv

-----------------------------------------------------------------------------
(* The write path.                                                         *)

\* What a reader finds, and what a merge of the live tables emits, are issued
\* writes.
LEMMA LookupIssued ==
    ASSUME Inv, mode # "down", NEW k \in Keys
    PROVE  Lookup(k) \in 0 .. Len(ops) /\ Winner(levels, k) \in 0 .. Len(ops)
<1> DEFINE W == 0 .. Len(ops)
<1>1. 0 \in W
  BY DEF Inv, TypeOK, TypeHistory
<1>2. /\ mem \in [Seqs -> [Keys -> W]]
      /\ sst \in [Levels -> [Seqs -> [Keys -> W]]]
  BY DEF Inv, Issued
<1>3. active \in Seqs /\ imms \subseteq Seqs /\ levels \in [Levels -> SUBSET Seqs]
  BY DEF Inv, TypeOK, TypeProcess
<1> HIDE DEF W
<1>4. mem[active][k] \in W
  BY <1>2, <1>3
<1>5. NewestHit(imms, mem, k) \in W
  <2>1. \A g \in imms : mem[g][k] \in W
    BY <1>2, <1>3
  <2>2. QED
    BY <1>1, <1>3, <2>1, NewestHitFrom
<1>6. levels[0] \subseteq Seqs /\ levels[1] \subseteq Seqs
  BY <1>3, BasicSets
<1>7. /\ \A s \in levels[0] : sst[0][s][k] \in W
      /\ \A s \in levels[1] : sst[1][s][k] \in W
  <2>1. sst[0] \in [Seqs -> [Keys -> W]] /\ sst[1] \in [Seqs -> [Keys -> W]]
    BY <1>2, BasicSets
  <2>2. QED
    BY <1>6, <2>1
<1>8. NewestHit(levels[0], sst[0], k) \in W /\ NewestHit(levels[1], sst[1], k) \in W
  BY <1>1, <1>6, <1>7, NewestHitFrom
<1>9. Winner(levels, k) = OrElse(NewestHit(levels[0], sst[0], k),
                                 NewestHit(levels[1], sst[1], k))
  BY <1>3, WinnerByLevel DEF Inv, LevelOrder
<1>10. Lookup(k) \in W /\ Winner(levels, k) \in W
  BY <1>4, <1>5, <1>8, <1>9 DEF Lookup, OrElse
<1>11. QED
  BY <1>10 DEF W

\* The next write being issued (put and delete up to the MemTable insert, or up
\* to a failing fsync) changes nothing a reader can see.
LEMMA IssuedNext ==
    ASSUME Inv, TypeOK', Quiet', NEW op, ops' = Append(ops, op), mode = "up",
           UNCHANGED <<viewVars, files, manifest, kv, nextSeq, mode, fl>>,
           wlog' = Logged(active, Len(ops) + 1),
           wr'.pc # "swap"
    PROVE  Inv'
<1>0. /\ Len(ops) \in Nat /\ Len(ops') = Len(ops) + 1
      /\ \A w \in 1 .. Len(ops) : ops'[w] = ops[w]
  BY DEF Inv, TypeOK, TypeHistory
<1>1. UNCHANGED <<mem, active, imms, levels, sst, files, manifest, kv, nextSeq, mode, fl>>
  BY DEF viewVars
<1>2. /\ \A k \in Keys : Lookup(k) \in 0 .. Len(ops)
      /\ \A k \in Keys : Winner(levels, k) \in 0 .. Len(ops)
      /\ \A k \in Keys : kv[k] \in 0 .. Len(ops)
  BY LookupIssued DEF Inv, Issued
<1>3. Generations' /\ Tables' /\ LevelOrder' /\ FlushInFlight' /\ InputsRetired'
  BY <1>1 DEF Inv, Generations, Tables, LevelOrder, FlushInFlight, InputsRetired
<1>4. CompactionInFlight'
  <2>1. \A k \in Keys : Winner(levels, k)' = Winner(levels, k)
    BY <1>1 DEF Winner, RunsWith, Runs
  <2>2. Merged(levels)' = Merged(levels)
    BY <1>0, <1>2, <2>1 DEF Merged, Value, IsDelete
  <2>3. QED
    BY <1>1, <2>2 DEF Inv, CompactionInFlight
<1>5. Issued'
  <2>1. 0 .. Len(ops) \subseteq 0 .. Len(ops') /\ Len(ops) + 1 \in 1 .. Len(ops')
    BY <1>0
  <2>2. active \in Seqs /\ wlog \in [Seqs -> Seq(1 .. Len(ops))]
    BY DEF Inv, TypeOK, TypeProcess, Issued
  <2>3. wlog \in [Seqs -> Seq(1 .. Len(ops'))]
    <3>1. 1 .. Len(ops) \subseteq 1 .. Len(ops')
      BY <1>0
    <3>2. \A g \in Seqs : wlog[g] \in Seq(1 .. Len(ops'))
      BY <2>2, <3>1, SeqMonotonic
    <3>3. QED
      BY <2>2, <3>2
  <2>4. wlog' \in [Seqs -> Seq(1 .. Len(ops'))]
    BY <2>1, <2>2, <2>3 DEF Logged
  <2>5. mem \in [Seqs -> [Keys -> 0 .. Len(ops')]]
    BY <2>1 DEF Inv, Issued
  <2>6. sst \in [Levels -> [Seqs -> [Keys -> 0 .. Len(ops')]]]
    BY <2>1 DEF Inv, Issued
  <2>7. kv \in [Keys -> 0 .. Len(ops')]
    BY <2>1 DEF Inv, Issued
  <2>8. QED
    BY <1>1, <2>4, <2>5, <2>6, <2>7 DEF Issued
<1>6. View'
  <2>1. \A k \in Keys : Lookup(k)' = Lookup(k)
    BY <1>1 DEF Lookup
  <2>2. \A k \in Keys : Value(Lookup(k)) = Value(kv[k])
    BY DEF Inv, View
  <2>3. QED
    BY <1>0, <1>1, <1>2, <2>1, <2>2 DEF View, Value, IsDelete
<1>7. QED
  BY <1>3, <1>4, <1>5, <1>6 DEF Inv

\* put and delete: the write enters the active MemTable and is what readers see
\* from then on.
LEMMA InvApply ==
    ASSUME Inv, TypeOK', NEW freeze \in BOOLEAN, Apply(freeze)
    PROVE  Inv'
<1>0. UNCHANGED <<sst, files, manifest, levels, mode, active, imms, nextSeq, fl, ops, wlog>>
  BY DEF Apply, sstVars, walVars
<1>typed. /\ mode = "up" /\ wr.w \in 1 .. Len(ops) /\ Len(ops) \in Nat
      /\ ops[wr.w].key \in Keys /\ active \in Seqs
  <2>1. /\ mode = "up" /\ wr.w \in 1 .. Len(ops) /\ active \in Seqs
        /\ ops \in Seq([key : Keys, del : BOOLEAN])
    BY DEF Inv, TypeOK, TypeProcess, TypeHistory, Apply
  <2>2. ops[wr.w] \in [key : Keys, del : BOOLEAN]
    BY <2>1, ElementOfSeq, Zenon
  <2>3. ops[wr.w].key \in Keys /\ Len(ops) \in Nat
    BY <2>1, <2>2
  <2>4. QED
    BY <2>1, <2>3
<1> DEFINE w == wr.w
           key == ops[wr.w].key
<1>1. /\ mode = "up" /\ w \in 1 .. Len(ops) /\ Len(ops) \in Nat /\ key \in Keys
      /\ active \in Seqs
  BY <1>typed
<1>2. /\ mem' = [mem EXCEPT ![active][key] = w]
      /\ kv' = [kv EXCEPT ![key] = w]
      /\ wr'.pc # "swap"
  <2>1. wr \in WrType
    BY DEF Inv, TypeOK, TypeProcess
  <2>2. wr' = [wr EXCEPT !.pc = "rotate"] \/ wr' = WrFree
    BY DEF Apply
  <2>3. wr'.pc # "swap"
    BY <2>1, <2>2 DEF WrType, WrFree
  <2>4. QED
    BY <2>3, Zenon DEF Apply
<1>3. /\ mem \in [Seqs -> [Keys -> 0 .. Len(ops)]]
      /\ kv \in [Keys -> 0 .. Len(ops)]
  BY DEF Inv, Issued
<1>4. /\ active < nextSeq /\ \A g \in imms : g < active
      /\ \A g \in Seqs : g >= nextSeq => mem[g] = EmptyTable
  BY <1>1 DEF Inv, Generations
<1>5. active \in Int /\ nextSeq \in Int /\ imms \subseteq Seqs
  BY <1>1 DEF Inv, TypeOK, TypeProcess, Seqs
<1> HIDE DEF w, key
<1>6. /\ \A g \in Seqs : g # active => mem'[g] = mem[g]
      /\ \A k \in Keys : mem'[active][k] = IF k = key THEN w ELSE mem[active][k]
  BY <1>1, <1>2, <1>3
<1>7. Quiet'
  BY <1>0, <1>1 DEF Inv, Quiet
<1>8. Generations'
  <2>1. \A g \in Seqs : g >= nextSeq => mem'[g] = EmptyTable
    BY <1>4, <1>5, <1>6
  <2>2. QED
    BY <1>0, <1>1, <1>2, <1>4, <2>1 DEF Generations
<1>9. Tables' /\ LevelOrder' /\ InputsRetired'
  BY <1>0 DEF Inv, Tables, LevelOrder, InputsRetired
<1>10. FlushInFlight'
  <2>1. SUFFICES ASSUME fl.pc = "commit" PROVE FlushInFlight'
    BY <1>0 DEF FlushInFlight
  <2>2. fl.gen \in imms /\ fl.gen < active /\ fl.gen \in Seqs
    BY <1>4, <1>5, <2>1 DEF Inv, FlushInFlight
  <2>3. mem'[fl.gen] = mem[fl.gen]
    BY <1>5, <1>6, <2>2
  <2>4. QED
    BY <1>0, <2>1, <2>3 DEF Inv, FlushInFlight
<1>11. CompactionInFlight'
  <2>1. Merged(levels)' = Merged(levels)
    BY <1>0, MergedSame, Zenon
  <2>2. QED
    BY <1>0, <2>1 DEF Inv, CompactionInFlight
<1>12. Issued'
  <2>1. mem' \in [Seqs -> [Keys -> 0 .. Len(ops)]] /\ kv' \in [Keys -> 0 .. Len(ops)]
    BY <1>1, <1>2, <1>3
  <2>2. QED
    BY <1>0, <2>1 DEF Inv, Issued
<1>13. View'
  <2>1. ASSUME NEW k \in Keys, k = key PROVE Lookup(k)' = w /\ kv'[k] = w
    <3>1. mem'[active][k] = w /\ w # 0 /\ kv'[k] = w
      BY <1>1, <1>2, <1>3, <1>6, <2>1
    <3>2. QED
      BY <1>0, <3>1 DEF Lookup, OrElse
  <2>2. ASSUME NEW k \in Keys, k # key PROVE Lookup(k)' = Lookup(k) /\ kv'[k] = kv[k]
    <3>1. \A g \in imms : mem'[g][k] = mem[g][k]
      BY <1>4, <1>5, <1>6
    <3>2. NewestHit(imms, mem', k) = NewestHit(imms, mem, k)
      BY <1>5, <3>1, NewestHitSame
    <3>3. mem'[active][k] = mem[active][k] /\ kv'[k] = kv[k]
      BY <1>2, <1>3, <1>6, <2>2
    <3>4. QED
      BY <1>0, <3>2, <3>3 DEF Lookup
  <2>3. \A k \in Keys : Value(Lookup(k)) = Value(kv[k])
    BY <1>1 DEF Inv, View
  <2>4. ASSUME NEW k \in Keys PROVE (Value(Lookup(k)) = Value(kv[k]))'
    <3>1. CASE k = key
      BY <2>1, <3>1 DEF Value, IsDelete
    <3>2. CASE k # key
      BY <1>0, <2>2, <2>3, <3>2 DEF Value, IsDelete
    <3>3. QED
      BY <3>1, <3>2
  <2>5. QED
    BY <2>4 DEF View
<1>14. QED
  BY <1>7, <1>8, <1>9, <1>10, <1>11, <1>12, <1>13 DEF Inv

\* freeze_active creates the next generation: its number is above every other
\* and has no MemTable yet.
LEMMA InvRotate == ASSUME Inv, TypeOK', Rotate PROVE Inv'
<1>0. UNCHANGED <<mem, active, imms, levels, sst, files, manifest, kv, ops, wlog, mode, fl>>
  BY DEF Rotate, sstVars, ghosts
<1>1. /\ mode = "up" /\ nextSeq \in Seqs /\ nextSeq' = nextSeq + 1
      /\ wr' = [wr EXCEPT !.pc = "swap", !.new = nextSeq]
      /\ wr \in WrType
  BY BoundsAssumption DEF Inv, TypeOK, TypeProcess, Rotate, CanAllocate, Seqs
<1>2. \A s \in Seqs : s \in Int
  BY DEF Seqs
<1>3. wr'.pc = "swap" /\ wr'.new = nextSeq
  BY <1>1 DEF WrType
<1>4. Quiet'
  BY <1>0, <1>1 DEF Inv, Quiet
<1>5. Generations'
  <2>1. /\ active \in Seqs /\ active < nextSeq
        /\ \A g \in imms : g < active
        /\ \A g \in Seqs : g >= nextSeq => mem[g] = EmptyTable
    BY <1>1 DEF Inv, Generations
  <2>2. /\ active < nextSeq' /\ nextSeq < nextSeq'
        /\ \A g \in Seqs : g >= nextSeq' => mem[g] = EmptyTable
        /\ mem[nextSeq] = EmptyTable
    BY <1>1, <1>2, <2>1
  <2>3. QED
    BY <1>0, <1>1, <1>3, <2>1, <2>2 DEF Generations
<1>6. Tables' /\ LevelOrder' /\ InputsRetired'
  <2>1. \A l \in Levels : \A s \in levels[l] \cup manifest[l] : s \in Int /\ s < nextSeq
    BY <1>1, <1>2 DEF Inv, Tables, TypeOK, TypeProcess, TypeDirectory
  <2>2. \A l \in Levels : \A s \in levels[l] \cup manifest[l] : s < nextSeq'
    BY <1>1, <1>2, <2>1
  <2>3. QED
    BY <1>0, <2>2 DEF Inv, Tables, LevelOrder, InputsRetired
<1>7. FlushInFlight' /\ CompactionInFlight'
  <2>1. Merged(levels)' = Merged(levels)
    BY <1>0, MergedSame, Zenon
  <2>2. fl.seq \in Int /\ (fl.seq < nextSeq => fl.seq < nextSeq')
    BY <1>1, <1>2 DEF Inv, TypeOK, TypeProcess, FlType
  <2>3. QED
    BY <1>0, <2>1, <2>2 DEF Inv, FlushInFlight, CompactionInFlight
<1>8. Issued'
  BY <1>0 DEF Inv, Issued
<1>9. View'
  <2>1. \A k \in Keys : Lookup(k)' = Lookup(k)
    BY <1>0 DEF Lookup
  <2>2. QED
    BY <1>0, <2>1 DEF Inv, View, Value, IsDelete
<1>10. QED
  BY <1>4, <1>5, <1>6, <1>7, <1>8, <1>9 DEF Inv

\* The MemTable being frozen is consulted before the older immutables.
LEMMA FrozenIsFirst ==
    ASSUME imms \subseteq Seqs, active \in Seqs, \A g \in imms : g < active, NEW k
    PROVE  NewestHit(imms \cup {active}, mem, k)
             = OrElse(mem[active][k], NewestHit(imms, mem, k))
  BY NewestHitAdd

\* freeze_active swaps the MemTable: the frozen one becomes the newest immutable
\* and an empty one is consulted before it, so every key reads as before.
LEMMA InvSwap == ASSUME Inv, TypeOK', Swap PROVE Inv'
<1>0. UNCHANGED <<mem, levels, sst, files, manifest, kv, ops, wlog, mode, fl, nextSeq>>
  BY DEF Swap, sstVars
<1>1. /\ imms' = imms \cup {active} /\ active' = wr.new /\ wr' = WrFree
      /\ wr.pc = "swap" /\ mode = "up"
  BY DEF Inv, TypeOK, TypeProcess, Swap
<1>2. /\ active \in Seqs /\ active < nextSeq /\ wr.new \in Seqs
      /\ active < wr.new /\ wr.new < nextSeq
      /\ \A g \in imms : g < active
      /\ \A g \in Seqs : g >= nextSeq => mem[g] = EmptyTable
      /\ mem[wr.new] = EmptyTable
  BY <1>1 DEF Inv, Generations
<1>3. imms \subseteq Seqs /\ nextSeq \in Int /\ \A s \in Seqs : s \in Int
  BY DEF Inv, TypeOK, TypeProcess, Seqs
<1>4. wr'.pc = "free"
  BY <1>1 DEF WrFree
<1>5. Quiet'
  BY <1>0, <1>1 DEF Inv, Quiet
<1>6. Generations'
  <2>1. \A g \in imms \cup {active} : g < wr.new
    BY <1>2, <1>3
  <2>2. QED
    BY <1>0, <1>1, <1>2, <1>4, <2>1 DEF Generations
<1>7. Tables' /\ LevelOrder' /\ InputsRetired'
  BY <1>0 DEF Inv, Tables, LevelOrder, InputsRetired
<1>8. FlushInFlight'
  <2>1. SUFFICES ASSUME fl.pc = "commit" PROVE FlushInFlight'
    BY <1>0 DEF FlushInFlight
  <2>2. fl.gen \in imms /\ \A g \in imms : fl.gen <= g
    BY <2>1 DEF Inv, FlushInFlight
  <2>3. \A g \in imms \cup {active} : fl.gen <= g
    BY <1>2, <1>3, <2>2
  <2>4. QED
    BY <1>0, <1>1, <2>1, <2>2, <2>3 DEF Inv, FlushInFlight
<1>9. CompactionInFlight'
  <2>1. Merged(levels)' = Merged(levels)
    BY <1>0, MergedSame, Zenon
  <2>2. QED
    BY <1>0, <2>1 DEF Inv, CompactionInFlight
<1>10. Issued'
  BY <1>0 DEF Inv, Issued
<1>11. View'
  <2>1. ASSUME NEW k \in Keys PROVE Lookup(k)' = Lookup(k)
    <3>1. mem[wr.new][k] = 0
      BY <1>2 DEF EmptyTable
    <3>2. NewestHit(imms \cup {active}, mem, k)
            = OrElse(mem[active][k], NewestHit(imms, mem, k))
      <4>1. /\ imms \subseteq Seqs /\ active \in Seqs
            /\ \A g \in imms : g < active
        BY <1>2, <1>3
      <4>2. QED
        BY <4>1, FrozenIsFirst, Zenon
    <3> DEFINE rest == OrElse(NewestHit(levels[0], sst[0], k),
                              NewestHit(levels[1], sst[1], k))
    <3>3. Lookup(k)' = OrElse(mem[wr.new][k],
                              OrElse(NewestHit(imms \cup {active}, mem, k), rest))
      BY <1>0, <1>1, Zenon DEF Lookup
    <3>4. Lookup(k) = OrElse(mem[active][k], OrElse(NewestHit(imms, mem, k), rest))
      BY Zenon DEF Lookup
    <3> HIDE DEF rest
    <3>5. QED
      BY <3>1, <3>2, <3>3, <3>4 DEF OrElse
  <2>2. QED
    BY <1>0, <2>1 DEF Inv, View, Value, IsDelete
<1>12. QED
  BY <1>5, <1>6, <1>7, <1>8, <1>9, <1>10, <1>11 DEF Inv

-----------------------------------------------------------------------------
(* The flush pipeline.                                                     *)

\* The newly allocated number names no table that is referred to.
LEMMA FreshNumber ==
    ASSUME Inv, mode # "down"
    PROVE  /\ \A l \in Levels : \A s \in levels[l] \cup manifest[l] :
                s \in Seqs /\ s < nextSeq /\ s # nextSeq
           /\ \A l \in Levels : levels[l] \subseteq Seqs
<1>1. \A l \in Levels : levels[l] \subseteq Seqs /\ manifest[l] \subseteq Seqs
  BY DEF Inv, TypeOK, TypeProcess, TypeDirectory
<1>2. \A l \in Levels : \A s \in levels[l] \cup manifest[l] : s < nextSeq
  BY DEF Inv, Tables
<1>3. nextSeq \in Int /\ \A s \in Seqs : s \in Int
  BY DEF Inv, TypeOK, TypeProcess, Seqs
<1>4. QED
  BY <1>1, <1>2, <1>3

\* A table that no reader looks at may be written: every key reads, and every
\* merge yields, what it did.
LEMMA UnseenTable ==
    ASSUME Inv, NEW n \in Seqs, NEW m \in Levels, NEW t,
           n \notin levels[m],
           sst' = [sst EXCEPT ![m] = [sst[m] EXCEPT ![n] = t]],
           UNCHANGED <<mem, active, imms, levels, ops>>
    PROVE  /\ \A k \in Keys : Lookup(k)' = Lookup(k)
           /\ Merged(levels)' = Merged(levels)
           /\ \A l \in Levels, s \in Seqs : (l # m \/ s # n) => sst'[l][s] = sst[l][s]
<1>1. /\ sst \in [Levels -> [Seqs -> Table]] /\ levels \in [Levels -> SUBSET Seqs]
  BY DEF Inv, TypeOK, TypeDirectory, TypeProcess
<1>2. \A l \in Levels : sst[l] \in [Seqs -> Table]
  BY <1>1
<1>3. \A l \in Levels, s \in Seqs : (l # m \/ s # n) => sst'[l][s] = sst[l][s]
  BY <1>1, <1>2
<1>4. \A l \in Levels : \A s \in levels[l] : s \in Seqs /\ sst'[l][s] = sst[l][s]
  BY <1>1, <1>3
<1>5. /\ levels[0] \subseteq Seqs /\ \A s \in levels[0] : sst'[0][s] = sst[0][s]
      /\ levels[1] \subseteq Seqs /\ \A s \in levels[1] : sst'[1][s] = sst[1][s]
  BY <1>1, <1>4, BasicSets
<1>6. ASSUME NEW k \in Keys PROVE Lookup(k)' = Lookup(k)
  <2>1. NewestHit(levels[0], sst'[0], k) = NewestHit(levels[0], sst[0], k)
    <3>1. ASSUME NEW u, \A s \in levels[0] : u[s] = sst[0][s]
          PROVE  NewestHit(levels[0], u, k) = NewestHit(levels[0], sst[0], k)
      BY <1>5, <3>1, NewestHitSame, SMT
    <3>2. QED
      BY <1>5, <3>1, Zenon
  <2>2. NewestHit(levels[1], sst'[1], k) = NewestHit(levels[1], sst[1], k)
    <3>1. ASSUME NEW u, \A s \in levels[1] : u[s] = sst[1][s]
          PROVE  NewestHit(levels[1], u, k) = NewestHit(levels[1], sst[1], k)
      BY <1>5, <3>1, NewestHitSame, SMT
    <3>2. QED
      BY <1>5, <3>1, Zenon
  <2>3. QED
    BY <2>1, <2>2 DEF Lookup
<1>7. ASSUME NEW k \in Keys PROVE Winner(levels, k)' = Winner(levels, k)
  <2>1. \A r \in Runs(levels) : sst'[r[1]][r[2]] = sst[r[1]][r[2]]
    BY <1>4 DEF Runs
  <2>2. RunsWith(levels, k)' = RunsWith(levels, k)
    BY <2>1 DEF RunsWith, Runs
  <2>3. CASE RunsWith(levels, k) = {}
    BY <2>2, <2>3 DEF Winner
  <2>4. CASE RunsWith(levels, k) # {}
    <3> DEFINE b == CHOOSE r \in RunsWith(levels, k) :
                      \A q \in RunsWith(levels, k) : q[2] <= r[2]
    <3>1. Winner(levels, k) = sst[b[1]][b[2]][k]
      BY <2>4, Zenon DEF Winner
    <3>2. Winner(levels, k)' = sst'[b[1]][b[2]][k]
      BY <2>2, <2>4, Zenon DEF Winner
    <3>3. b \in Runs(levels)
      <4>1. \E r \in RunsWith(levels, k) : \A q \in RunsWith(levels, k) : q[2] <= r[2]
        BY <1>1, <2>4, WinnerIs, Zenon
      <4>2. b \in RunsWith(levels, k)
        BY <4>1, Zenon
      <4> HIDE DEF b
      <4>3. QED
        BY <4>2 DEF RunsWith
    <3> HIDE DEF b
    <3>4. QED
      BY <2>1, <3>1, <3>2, <3>3
  <2>5. QED
    BY <2>3, <2>4
<1>8. Merged(levels)' = Merged(levels)
  BY <1>7 DEF Merged, Value, IsDelete
<1>9. QED
  BY <1>3, <1>6, <1>8

\* flush_pending up to the rename: the oldest immutable is copied to a table that
\* nobody refers to yet.
LEMMA InvFlushBuild == ASSUME Inv, TypeOK', FlushBuild PROVE Inv'
<1>0. UNCHANGED <<mem, active, imms, levels, manifest, kv, ops, wlog, mode, wr>>
  BY DEF FlushBuild, walVars, ghosts
<1>1. /\ mode = "up" /\ nextSeq \in Seqs /\ nextSeq' = nextSeq + 1 /\ fl \in FlType
      /\ imms # {} /\ imms \subseteq Nat /\ imms \subseteq Seqs
  BY BoundsAssumption DEF Inv, Quiet, TypeOK, TypeProcess, FlushBuild, CanAllocate, Seqs
<1>ints. nextSeq \in Int /\ nextSeq' = nextSeq + 1 /\ \A s \in Seqs : s \in Int
  BY <1>1 DEF Seqs
<1>2. FirstFrozen \in imms /\ \A g \in imms : FirstFrozen <= g
  BY <1>1, MinOfNats DEF FirstFrozen
<1>3. /\ files' = [files EXCEPT ![0] = files[0] \cup {nextSeq}]
      /\ sst' = [sst EXCEPT ![0] = [sst[0] EXCEPT ![nextSeq] = mem[FirstFrozen]]]
      /\ fl' = [fl EXCEPT !.pc = "commit", !.gen = FirstFrozen, !.seq = nextSeq]
  BY DEF FlushBuild
<1>4. fl'.pc = "commit" /\ fl'.gen = FirstFrozen /\ fl'.seq = nextSeq
  BY <1>1, <1>3 DEF FlType
<1>5. \A l \in Levels : \A s \in levels[l] \cup manifest[l] :
        s \in Seqs /\ s < nextSeq /\ s # nextSeq
  BY <1>1, FreshNumber
<1>6. /\ \A k \in Keys : Lookup(k)' = Lookup(k)
      /\ \A l \in Levels, s \in Seqs : (l # 0 \/ s # nextSeq) => sst'[l][s] = sst[l][s]
  BY <1>0, <1>1, <1>3, <1>5, BasicSets, UnseenTable
<1>7. Quiet'
  BY <1>0, <1>1 DEF Inv, Quiet
<1>8. Generations'
  <2>1. /\ active \in Seqs /\ active < nextSeq
        /\ \A g \in imms : g < active
        /\ \A g \in Seqs : g >= nextSeq => mem[g] = EmptyTable
        /\ wr.pc = "swap" => /\ wr.new \in Seqs /\ active < wr.new
                             /\ wr.new < nextSeq
                             /\ mem[wr.new] = EmptyTable
    BY <1>1 DEF Inv, Generations
  <2>2. /\ active < nextSeq' /\ \A g \in Seqs : g >= nextSeq' => g >= nextSeq
        /\ wr.pc = "swap" => wr.new < nextSeq'
    BY <1>ints, <2>1
  <2>3. QED
    BY <1>0, <2>1, <2>2 DEF Generations
<1>9. Tables'
  <2>1. files \in [Levels -> SUBSET Seqs]
    BY DEF Inv, TypeOK, TypeDirectory
  <2>2. \A l \in Levels : files[l] \subseteq files'[l]
    BY <1>3, <2>1
  <2>3. \A l \in Levels : \A s \in levels[l] \cup manifest[l] : s < nextSeq'
    BY <1>ints, <1>5
  <2>4. QED
    BY <1>0, <2>2, <2>3 DEF Inv, Tables
<1>10. LevelOrder'
  BY <1>0 DEF Inv, LevelOrder
<1>11. FlushInFlight'
  <2>1. sst \in [Levels -> [Seqs -> Table]] /\ files \in [Levels -> SUBSET Seqs]
    BY DEF Inv, TypeOK, TypeDirectory
  <2>2. sst[0] \in [Seqs -> Table] /\ nextSeq < nextSeq'
    BY <1>1, <2>1, BasicSets
  <2>3. sst'[0][nextSeq] = mem[FirstFrozen] /\ nextSeq \in files'[0]
    BY <1>1, <1>3, <2>1, <2>2, BasicSets
  <2>4. QED
    BY <1>0, <1>2, <1>4, <1>5, <2>2, <2>3 DEF FlushInFlight
<1>12. CompactionInFlight' /\ InputsRetired'
  BY <1>4 DEF CompactionInFlight, InputsRetired
<1>13. Issued'
  <2> DEFINE W == 0 .. Len(ops)
  <2>1. sst \in [Levels -> [Seqs -> [Keys -> W]]] /\ mem \in [Seqs -> [Keys -> W]]
    BY DEF Inv, Issued
  <2> HIDE DEF W
  <2>2. mem[FirstFrozen] \in [Keys -> W] /\ sst[0] \in [Seqs -> [Keys -> W]]
    BY <1>1, <1>2, <2>1, BasicSets
  <2>3. [sst[0] EXCEPT ![nextSeq] = mem[FirstFrozen]] \in [Seqs -> [Keys -> W]]
    BY <2>2
  <2>4. sst' \in [Levels -> [Seqs -> [Keys -> W]]]
    BY <1>3, <2>1, <2>3
  <2>5. QED
    BY <1>0, <2>4 DEF Inv, Issued, W
<1>14. View'
  BY <1>0, <1>6 DEF Inv, View, Value, IsDelete
<1>15. QED
  BY <1>7, <1>8, <1>9, <1>10, <1>11, <1>12, <1>13, <1>14 DEF Inv

\* The oldest immutable is consulted last among them, and once flushed, first
\* among the tables.
LEMMA FlushedKeepsItsPlace ==
    ASSUME imms \subseteq Seqs, levels[0] \subseteq Seqs, NEW gen \in imms,
           \A g \in imms : gen <= g, NEW seq \in Seqs,
           \A s \in levels[0] : s < seq, NEW k
    PROVE  /\ NewestHit(imms, mem, k)
                = OrElse(NewestHit(imms \ {gen}, mem, k), mem[gen][k])
           /\ NewestHit(levels[0] \cup {seq}, sst[0], k)
                = OrElse(sst[0][seq][k], NewestHit(levels[0], sst[0], k))
<1>1. NewestHit(imms, mem, k) = OrElse(NewestHit(imms \ {gen}, mem, k), mem[gen][k])
  BY NewestHitDrop
<1>2. NewestHit(levels[0] \cup {seq}, sst[0], k)
        = OrElse(sst[0][seq][k], NewestHit(levels[0], sst[0], k))
  <2>1. \A S \in SUBSET Seqs, n \in Seqs :
          (\A s \in S : s < n) =>
            \A t, j : NewestHit(S \cup {n}, t, j) = OrElse(t[n][j], NewestHit(S, t, j))
    BY NewestHitAdd
  <2>2. \A t, j : NewestHit(levels[0] \cup {seq}, t, j)
                   = OrElse(t[seq][j], NewestHit(levels[0], t, j))
    BY <2>1
  <2>3. QED
    BY <2>2
<1>3. QED
  BY <1>1, <1>2

\* flush_pending's commit: the table takes the place of the immutable it was
\* built from, below the remaining immutables and above the older tables.
LEMMA InvFlushCommit == ASSUME Inv, TypeOK', FlushCommit PROVE Inv'
<1>0. UNCHANGED <<active, sst, files, manifest, kv, ops, wlog, mode, wr, nextSeq>>
  BY DEF FlushCommit, dirVars, ghosts
<1>1. /\ mode = "up" /\ fl \in FlType /\ fl.pc = "commit"
      /\ fl.gen \in Seqs /\ fl.seq \in Seqs /\ imms \subseteq Seqs /\ active \in Seqs
      /\ mem \in [Seqs -> Table] /\ levels \in [Levels -> SUBSET Seqs]
      /\ nextSeq \in Int /\ \A s \in Seqs : s \in Int
  BY DEF Inv, Quiet, TypeOK, TypeProcess, FlushCommit, Seqs
<1>2. /\ fl.gen \in imms /\ \A g \in imms : fl.gen <= g
      /\ fl.seq \in files[0] /\ fl.seq < nextSeq
      /\ sst[0][fl.seq] = mem[fl.gen]
      /\ \A l \in Levels : \A s \in levels[l] \cup manifest[l] : s < fl.seq
  BY <1>1 DEF Inv, FlushInFlight
<1>3. /\ levels' = [levels EXCEPT ![0] = levels[0] \cup {fl.seq}]
      /\ imms' = imms \ {fl.gen}
      /\ mem' = [mem EXCEPT ![fl.gen] = EmptyTable]
      /\ fl' = [fl EXCEPT !.pc = "drain", !.todo = Flushed, !.gen = 0, !.seq = 0]
  BY DEF FlushCommit, StillFrozen
<1>4. fl'.pc = "drain"
  BY <1>1, <1>3 DEF FlType
<1>5. /\ levels'[0] = levels[0] \cup {fl.seq} /\ levels'[1] = levels[1]
      /\ \A g \in Seqs : mem'[g] = IF g = fl.gen THEN EmptyTable ELSE mem[g]
      /\ levels[0] \subseteq Seqs /\ levels[1] \subseteq Seqs
  BY <1>1, <1>3, BasicSets
<1>6. /\ active < nextSeq /\ \A g \in imms : g < active
      /\ \A g \in Seqs : g >= nextSeq => mem[g] = EmptyTable
      /\ wr.pc = "swap" => /\ wr.new \in Seqs /\ active < wr.new
                           /\ wr.new < nextSeq
                           /\ mem[wr.new] = EmptyTable
  BY <1>1 DEF Inv, Generations
<1>7. Quiet'
  BY <1>0, <1>1 DEF Inv, Quiet
<1>8. Generations'
  BY <1>0, <1>1, <1>3, <1>5, <1>6 DEF Generations
<1>9. Tables' /\ LevelOrder'
  <2>1. /\ levels[0] \cup manifest[0] \subseteq files[0]
        /\ levels[1] \cup manifest[1] \subseteq files[1]
        /\ \A s \in levels[0] \cup manifest[0] : s < nextSeq
        /\ \A s \in levels[1] \cup manifest[1] : s < nextSeq
    BY <1>1, BasicSets DEF Inv, Tables
  <2>2. \A t \in levels[1] : t < fl.seq
    BY <1>2, BasicSets
  <2>3. /\ levels'[0] \cup manifest[0] \subseteq files[0]
        /\ levels'[1] \cup manifest[1] \subseteq files[1]
        /\ \A s \in levels'[0] \cup manifest[0] : s < nextSeq
        /\ \A s \in levels'[1] \cup manifest[1] : s < nextSeq
    BY <1>2, <1>5, <2>1
  <2>4. \A s \in levels'[0], t \in levels'[1] : t < s
    BY <1>5, <2>2 DEF Inv, LevelOrder
  <2>5. Tables'
    BY <1>0, <2>3 DEF Tables, Levels
  <2>6. LevelOrder'
    BY <1>0, <2>4 DEF Inv, LevelOrder
  <2>7. QED
    BY <2>5, <2>6
<1>10. FlushInFlight' /\ CompactionInFlight' /\ InputsRetired'
  BY <1>4 DEF FlushInFlight, CompactionInFlight, InputsRetired
<1>11. Issued'
  <2> DEFINE W == 0 .. Len(ops)
  <2>1. mem \in [Seqs -> [Keys -> W]] /\ 0 \in W
    BY DEF Inv, Issued, TypeOK, TypeHistory
  <2> HIDE DEF W
  <2>2. mem' \in [Seqs -> [Keys -> W]]
    BY <1>3, <2>1 DEF EmptyTable
  <2>3. QED
    BY <1>0, <2>2 DEF Inv, Issued, W
<1>12. View'
  <2>1. ASSUME NEW k \in Keys PROVE Lookup(k)' = Lookup(k)
    <3>1. /\ NewestHit(imms, mem, k)
               = OrElse(NewestHit(imms \ {fl.gen}, mem, k), mem[fl.gen][k])
          /\ NewestHit(levels[0] \cup {fl.seq}, sst[0], k)
               = OrElse(sst[0][fl.seq][k], NewestHit(levels[0], sst[0], k))
      <4>1. \A s \in levels[0] : s < fl.seq
        BY <1>2, BasicSets
      <4>2. QED
        BY <1>1, <1>2, <1>5, <4>1, FlushedKeepsItsPlace, Zenon
    <3>2. NewestHit(imms \ {fl.gen}, mem', k) = NewestHit(imms \ {fl.gen}, mem, k)
      <4>1. ASSUME NEW u, \A g \in imms \ {fl.gen} : u[g] = mem[g]
            PROVE  NewestHit(imms \ {fl.gen}, u, k) = NewestHit(imms \ {fl.gen}, mem, k)
        BY <1>1, <4>1, NewestHitSame, SMT
      <4>2. \A g \in imms \ {fl.gen} : mem'[g] = mem[g]
        BY <1>1, <1>5
      <4>3. QED
        BY <4>1, <4>2, Zenon
    <3>3. mem'[active][k] = mem[active][k] /\ sst[0][fl.seq][k] = mem[fl.gen][k]
      BY <1>1, <1>2, <1>5, <1>6
    <3> DEFINE l1 == NewestHit(levels[1], sst[1], k)
               l0 == NewestHit(levels[0], sst[0], k)
               i0 == NewestHit(imms \ {fl.gen}, mem, k)
    <3>4. Lookup(k) = OrElse(mem[active][k],
                      OrElse(OrElse(i0, mem[fl.gen][k]), OrElse(l0, l1)))
      BY <3>1, Zenon DEF Lookup
    <3>5. Lookup(k)' = OrElse(mem[active][k],
                       OrElse(i0, OrElse(OrElse(mem[fl.gen][k], l0), l1)))
      BY <1>0, <1>3, <1>5, <3>1, <3>2, <3>3, Zenon DEF Lookup
    <3> HIDE DEF l1, l0, i0
    <3>6. QED
      BY <3>4, <3>5, OrElseAssoc
  <2>2. QED
    BY <1>0, <2>1 DEF Inv, View, Value, IsDelete
<1>13. QED
  BY <1>7, <1>8, <1>9, <1>10, <1>11, <1>12 DEF Inv

\* write_manifest, after a flush or a compaction: what is listed is what is live.
LEMMA InvManifest ==
    ASSUME Inv, TypeOK', FlushManifest \/ CompactManifest PROVE Inv'
<1>0. /\ UNCHANGED <<mem, active, imms, levels, sst, files, kv, ops, wlog, mode, wr, nextSeq>>
      /\ manifest' = levels
  BY DEF FlushManifest, CompactManifest, LiveManifest, walVars, ghosts
<1>1. /\ mode = "up" /\ fl \in FlType
  BY DEF Inv, Quiet, TypeOK, TypeProcess, FlushManifest, CompactManifest
<1>2. \/ fl'.pc = "unlink"
      \/ fl'.pc = "sweep" /\ fl'.inputs = fl.inputs /\ fl.pc = "record"
  <2>1. CASE FlushManifest
    BY <1>1, <2>1 DEF FlushManifest, FlType
  <2>2. CASE CompactManifest
    BY <1>1, <2>2 DEF CompactManifest, FlType
  <2>3. QED
    BY <2>1, <2>2
<1>3. Quiet' /\ Generations'
  BY <1>0, <1>1 DEF Inv, Quiet, Generations
<1>4. Tables' /\ LevelOrder'
  BY <1>0 DEF Inv, Tables, LevelOrder
<1>5. FlushInFlight' /\ CompactionInFlight'
  BY <1>2 DEF FlushInFlight, CompactionInFlight
<1>6. InputsRetired'
  BY <1>0, <1>2 DEF Inv, InputsRetired
<1>7. Issued'
  BY <1>0 DEF Inv, Issued
<1>8. View'
  <2>1. \A k \in Keys : Lookup(k)' = Lookup(k)
    BY <1>0 DEF Lookup
  <2>2. QED
    BY <1>0, <2>1 DEF Inv, View, Value, IsDelete
<1>9. QED
  BY <1>3, <1>4, <1>5, <1>6, <1>7, <1>8 DEF Inv

-----------------------------------------------------------------------------
(* Compaction.                                                             *)

\* A merge that leaves nothing starts a compaction without an output file.
LEMMA InvCompactBuildEmpty ==
    ASSUME Inv, TypeOK', NEW p, CompactBuild(p), Merged(levels) = EmptyTable
    PROVE  Inv'
<1>0. UNCHANGED <<mem, active, imms, levels, sst, files, manifest, kv, ops, wlog, mode,
                  wr, nextSeq>>
  BY DEF CompactBuild, walVars, ghosts
<1>1. mode = "up" /\ fl'.pc = "merged" /\ fl'.seq = 0
  BY DEF CompactBuild, CompactCaller, FlFree
<1>2. Quiet' /\ Generations' /\ Tables' /\ LevelOrder' /\ Issued'
  BY <1>0, <1>1 DEF Inv, Quiet, Generations, Tables, LevelOrder, Issued
<1>3. FlushInFlight' /\ InputsRetired'
  BY <1>1 DEF FlushInFlight, InputsRetired
<1>4. CompactionInFlight'
  <2>1. Merged(levels)' = Merged(levels)
    BY <1>0, MergedSame, Zenon
  <2>2. QED
    BY <1>1, <2>1 DEF CompactionInFlight
<1>5. View'
  <2>1. \A k \in Keys : Lookup(k)' = Lookup(k)
    BY <1>0 DEF Lookup
  <2>2. QED
    BY <1>0, <2>1 DEF Inv, View, Value, IsDelete
<1>6. QED
  BY <1>2, <1>3, <1>4, <1>5 DEF Inv

\* Otherwise the merge of the live tables is written to a table that nobody
\* refers to yet.
LEMMA InvCompactBuildFile ==
    ASSUME Inv, TypeOK', NEW p, CompactBuild(p), Merged(levels) # EmptyTable
    PROVE  Inv'
<1>0. UNCHANGED <<mem, active, imms, levels, manifest, kv, ops, wlog, mode, wr>>
  BY DEF CompactBuild, walVars, ghosts
<1>1. mode = "up" /\ nextSeq \in Seqs /\ nextSeq' = nextSeq + 1
  BY BoundsAssumption
     DEF Inv, TypeOK, TypeProcess, CompactBuild, CompactCaller, CanAllocate, Seqs
<1>2. nextSeq \in Int /\ nextSeq' = nextSeq + 1 /\ \A s \in Seqs : s \in Int
  BY <1>1 DEF Seqs
<1>3. /\ files' = [files EXCEPT ![1] = files[1] \cup {nextSeq}]
      /\ sst' = [sst EXCEPT ![1] = [sst[1] EXCEPT ![nextSeq] = Merged(levels)]]
      /\ fl' = [FlFree EXCEPT !.pc = "merged", !.by = p, !.seq = nextSeq]
  BY DEF CompactBuild
<1>4. fl'.pc = "merged" /\ fl'.seq = nextSeq
  BY <1>3 DEF FlFree
<1>5. \A l \in Levels : \A s \in levels[l] \cup manifest[l] :
        s \in Seqs /\ s < nextSeq /\ s # nextSeq
  BY <1>1, FreshNumber
<1>6. /\ \A k \in Keys : Lookup(k)' = Lookup(k)
      /\ Merged(levels)' = Merged(levels)
  BY <1>0, <1>1, <1>3, <1>5, BasicSets, UnseenTable
<1>7. Quiet'
  BY <1>0, <1>1 DEF Inv, Quiet
<1>8. Generations'
  <2>1. /\ active \in Seqs /\ active < nextSeq
        /\ \A g \in imms : g < active
        /\ \A g \in Seqs : g >= nextSeq => mem[g] = EmptyTable
        /\ wr.pc = "swap" => /\ wr.new \in Seqs /\ active < wr.new
                             /\ wr.new < nextSeq
                             /\ mem[wr.new] = EmptyTable
    BY <1>1 DEF Inv, Generations
  <2>2. /\ active < nextSeq' /\ \A g \in Seqs : g >= nextSeq' => g >= nextSeq
        /\ wr.pc = "swap" => wr.new < nextSeq'
    BY <1>2, <2>1
  <2>3. QED
    BY <1>0, <2>1, <2>2 DEF Generations
<1>9. Tables'
  <2>1. files \in [Levels -> SUBSET Seqs]
    BY DEF Inv, TypeOK, TypeDirectory
  <2>2. \A l \in Levels : files[l] \subseteq files'[l]
    BY <1>3, <2>1
  <2>3. \A l \in Levels : \A s \in levels[l] \cup manifest[l] : s < nextSeq'
    BY <1>2, <1>5
  <2>4. QED
    BY <1>0, <2>2, <2>3 DEF Inv, Tables
<1>10. LevelOrder'
  BY <1>0 DEF Inv, LevelOrder
<1>11. FlushInFlight' /\ InputsRetired'
  BY <1>4 DEF FlushInFlight, InputsRetired
<1>12. CompactionInFlight'
  <2>1. sst \in [Levels -> [Seqs -> Table]] /\ files \in [Levels -> SUBSET Seqs]
    BY DEF Inv, TypeOK, TypeDirectory
  <2>2. sst[1] \in [Seqs -> Table] /\ nextSeq < nextSeq' /\ nextSeq # 0
    BY <1>1, <1>2, <2>1, BasicSets
  <2>3. sst'[1][nextSeq] = Merged(levels) /\ nextSeq \in files'[1]
    BY <1>1, <1>3, <2>1, <2>2, BasicSets
  <2>4. QED
    BY <1>0, <1>4, <1>5, <1>6, <2>2, <2>3 DEF CompactionInFlight
<1>13. Issued'
  <2>1. \A k \in Keys : Winner(levels, k) \in 0 .. Len(ops)
    BY <1>1, LookupIssued
  <2>2. 0 \in 0 .. Len(ops)
    BY DEF Inv, TypeOK, TypeHistory
  <2>3. Merged(levels) \in [Keys -> 0 .. Len(ops)]
    BY <2>1, <2>2 DEF Merged, Value
  <2> DEFINE W == 0 .. Len(ops)
  <2>4. sst \in [Levels -> [Seqs -> [Keys -> W]]] /\ Merged(levels) \in [Keys -> W]
    BY <2>3 DEF Inv, Issued
  <2> HIDE DEF W
  <2>5. sst[1] \in [Seqs -> [Keys -> W]]
    BY <2>4, BasicSets
  <2>6. [sst[1] EXCEPT ![nextSeq] = Merged(levels)] \in [Seqs -> [Keys -> W]]
    BY <2>4, <2>5
  <2>7. sst' \in [Levels -> [Seqs -> [Keys -> W]]]
    BY <1>3, <2>4, <2>6
  <2>8. QED
    BY <1>0, <2>7 DEF Inv, Issued, W
<1>14. View'
  BY <1>0, <1>6 DEF Inv, View, Value, IsDelete
<1>15. QED
  BY <1>7, <1>8, <1>9, <1>10, <1>11, <1>12, <1>13, <1>14 DEF Inv

\* The commit of a compaction: the merged table stands in for all the tables it
\* was merged from, and the tombstones it left out hid nothing else.
LEMMA InvCompactCommit == ASSUME Inv, TypeOK', CompactCommit PROVE Inv'
<1>0. UNCHANGED <<mem, active, imms, sst, files, manifest, kv, ops, wlog, mode, wr, nextSeq>>
  BY DEF CompactCommit, dirVars, promises
<1>1. /\ mode = "up" /\ fl \in FlType /\ fl.pc = "merged" /\ fl.seq \in 0 .. MaxSeq
      /\ levels \in [Levels -> SUBSET Seqs] /\ levels[0] \subseteq Seqs
      /\ levels' = [l \in Levels |-> IF l = 1 /\ fl.seq # 0 THEN {fl.seq} ELSE {}]
      /\ fl' = [fl EXCEPT !.pc = "record", !.inputs = levels, !.seq = 0]
  BY BasicSets DEF Inv, Quiet, TypeOK, TypeProcess, CompactCommit, Compacted, FlType
<1>2. fl'.pc = "record" /\ fl'.inputs = levels
  BY <1>1 DEF FlType
<1>3. /\ fl.seq = 0 => Merged(levels) = EmptyTable
      /\ fl.seq # 0 => /\ fl.seq \in Seqs
                       /\ fl.seq \in files[1] /\ fl.seq < nextSeq
                       /\ sst[1][fl.seq] = Merged(levels)
                       /\ \A l \in Levels : \A s \in levels[l] \cup manifest[l] : s < fl.seq
  BY <1>1 DEF Inv, CompactionInFlight, Seqs
<1>4. levels'[0] = {} /\ levels'[1] = IF fl.seq # 0 THEN {fl.seq} ELSE {}
  BY <1>1, BasicSets
<1>5. Quiet' /\ Generations'
  BY <1>0, <1>1 DEF Inv, Quiet, Generations
<1>6. Tables' /\ LevelOrder'
  <2>1. \A l \in Levels : manifest[l] \subseteq files[l] /\ \A s \in manifest[l] : s < nextSeq
    BY <1>1 DEF Inv, Tables
  <2>2. \A l \in Levels : levels'[l] \cup manifest[l] \subseteq files[l]
    BY <1>3, <1>4, <2>1 DEF Levels
  <2>3. \A l \in Levels : \A s \in levels'[l] \cup manifest[l] : s < nextSeq
    BY <1>3, <1>4, <2>1 DEF Levels
  <2>4. QED
    BY <1>0, <1>4, <2>2, <2>3 DEF Inv, Tables, LevelOrder
<1>7. FlushInFlight' /\ CompactionInFlight'
  BY <1>2 DEF FlushInFlight, CompactionInFlight
<1>8. InputsRetired'
  <2>1. \A l \in Levels : fl.seq # 0 => fl.seq \notin levels[l]
    <3>1. \A s \in Seqs : s \in Int
      BY DEF Seqs
    <3>2. QED
      BY <1>3, <3>1
  <2>2. \A l \in Levels : levels[l] \cap levels'[l] = {}
    BY <1>4, <2>1 DEF Levels
  <2>3. QED
    BY <1>2, <2>2 DEF InputsRetired
<1>9. Issued'
  BY <1>0 DEF Inv, Issued
<1>10. View'
  <2>1. ASSUME NEW k \in Keys PROVE Value(Lookup(k)') = Value(Lookup(k))
    <3> DEFINE above == OrElse(mem[active][k], NewestHit(imms, mem, k))
               below == OrElse(NewestHit(levels[0], sst[0], k),
                               NewestHit(levels[1], sst[1], k))
    <3>1. below = Winner(levels, k)
      BY <1>1, WinnerByLevel DEF Inv, LevelOrder
    <3>2. Lookup(k) = OrElse(above, below)
      BY OrElseAssoc DEF Lookup
    <3>3. Lookup(k)' = OrElse(above, OrElse(NewestHit(levels'[0], sst[0], k),
                                            NewestHit(levels'[1], sst[1], k)))
      BY <1>0, OrElseAssoc DEF Lookup
    <3>4. Merged(levels)[k] = Value(Winner(levels, k))
      BY DEF Merged
    <3>5. NewestHit(levels'[0], sst[0], k) = 0
      BY <1>4 DEF NewestHit, Hits
    <3>6. NewestHit(levels'[1], sst[1], k) = Value(Winner(levels, k))
      <4>1. CASE fl.seq = 0
        <5>1. NewestHit(levels'[1], sst[1], k) = 0
          BY <1>4, <4>1 DEF NewestHit, Hits
        <5>2. QED
          BY <1>3, <3>4, <4>1, <5>1 DEF EmptyTable
      <4>2. CASE fl.seq # 0
        <5>0. fl.seq \in Seqs
          BY <1>3, <4>2
        <5>1. NewestHit({fl.seq}, sst[1], k) = sst[1][fl.seq][k]
          BY <5>0, NewestHitFew
        <5>2. QED
          BY <1>3, <1>4, <3>4, <4>2, <5>1
      <4>3. QED
        BY <4>1, <4>2
    <3> HIDE DEF above, below
    <3>7. Lookup(k)' = OrElse(above, Value(below))
      BY <3>1, <3>3, <3>5, <3>6 DEF OrElse
    <3>8. QED
      BY <3>2, <3>7, ValueOfLast
  <2>2. \A k \in Keys : Value(Lookup(k))' = Value(Lookup(k)')
    BY <1>0 DEF Value, IsDelete
  <2>3. \A k \in Keys : Value(Lookup(k)) = Value(kv[k])
    BY <1>1 DEF Inv, View
  <2>4. QED
    BY <1>0, <2>1, <2>2, <2>3 DEF View, Value, IsDelete
<1>11. QED
  BY <1>5, <1>6, <1>7, <1>8, <1>9, <1>10 DEF Inv

\* Deleting an input of a compaction: neither the live levels nor the MANIFEST
\* refer to it.
LEMMA InvCompactUnlink ==
    ASSUME Inv, TypeOK', NEW l \in Levels, CompactUnlink(l) PROVE Inv'
<1> DEFINE n == Min(fl.inputs[l])
<1>0. UNCHANGED <<mem, active, imms, levels, manifest, kv, ops, wlog, mode, wr, nextSeq>>
  BY DEF CompactUnlink, walVars, ghosts
<1>1. /\ fl \in FlType /\ fl.pc = "sweep" /\ fl.inputs \in [Levels -> SUBSET Seqs]
      /\ fl.inputs[l] # {} /\ fl.inputs[l] \subseteq Seqs /\ mode = "up"
  BY DEF Inv, Quiet, TypeOK, TypeProcess, CompactUnlink, FlType
<1>2. n \in fl.inputs[l]
  BY <1>1, BasicSets, MinOfNats
<1>3. /\ fl' = [fl EXCEPT !.inputs = [fl.inputs EXCEPT ![l] = fl.inputs[l] \ {n}]]
      /\ \/ /\ files' = [files EXCEPT ![l] = files[l] \ {n}]
            /\ sst' = [sst EXCEPT ![l] = [sst[l] EXCEPT ![n] = EmptyTable]]
         \/ UNCHANGED <<files, sst>>
  BY DEF CompactUnlink
<1> HIDE DEF n
<1>4. n \in Seqs /\ n \notin levels[l] /\ manifest = levels
  BY <1>1, <1>2 DEF Inv, InputsRetired
<1>5. fl'.pc = "sweep" /\ \A m \in Levels : fl'.inputs[m] \subseteq fl.inputs[m]
  BY <1>1, <1>3 DEF FlType
<1>6. \A k \in Keys : Lookup(k)' = Lookup(k)
  <2>1. CASE sst' = [sst EXCEPT ![l] = [sst[l] EXCEPT ![n] = EmptyTable]]
    BY <1>0, <1>4, <2>1, UnseenTable
  <2>2. CASE sst' = sst
    BY <1>0, <2>2 DEF Lookup
  <2>3. QED
    BY <1>3, <2>1, <2>2
<1>7. Quiet' /\ Generations' /\ LevelOrder'
  BY <1>0, <1>1 DEF Inv, Quiet, Generations, LevelOrder
<1>8. Tables'
  <2>1. files \in [Levels -> SUBSET Seqs]
    BY DEF Inv, TypeOK, TypeDirectory
  <2>2. \A m \in Levels : levels[m] \subseteq files[m]
    BY DEF Inv, Tables
  <2>3. \A m \in Levels : levels[m] \subseteq files'[m]
    BY <1>3, <1>4, <2>1, <2>2
  <2>4. QED
    BY <1>0, <1>1, <1>4, <2>3 DEF Inv, Tables
<1>9. FlushInFlight' /\ CompactionInFlight'
  BY <1>5 DEF FlushInFlight, CompactionInFlight
<1>10. InputsRetired'
  BY <1>0, <1>1, <1>4, <1>5 DEF Inv, InputsRetired
<1>11. Issued'
  <2> DEFINE W == 0 .. Len(ops)
  <2>1. sst \in [Levels -> [Seqs -> [Keys -> W]]] /\ 0 \in W
    BY DEF Inv, Issued, TypeOK, TypeHistory
  <2> HIDE DEF W
  <2>2. sst[l] \in [Seqs -> [Keys -> W]] /\ EmptyTable \in [Keys -> W]
    BY <2>1 DEF EmptyTable
  <2>3. [sst[l] EXCEPT ![n] = EmptyTable] \in [Seqs -> [Keys -> W]]
    BY <2>2
  <2>4. sst' \in [Levels -> [Seqs -> [Keys -> W]]]
    BY <1>3, <2>1, <2>3
  <2>5. QED
    BY <1>0, <2>4 DEF Inv, Issued, W
<1>12. View'
  BY <1>0, <1>6 DEF Inv, View, Value, IsDelete
<1>13. QED
  BY <1>7, <1>8, <1>9, <1>10, <1>11, <1>12 DEF Inv

-----------------------------------------------------------------------------
(* Clean drop, crashes, open.                                              *)

\* When the process goes, only the directory remains; no table in it changes.
LEMMA InvProcessGone ==
    ASSUME Inv, TypeOK', ProcessGone, UNCHANGED <<files, sst, manifest, kv, ops>>,
           wlog' \in [Seqs -> Seq(1 .. Len(ops))]
    PROVE  Inv'
<1>1. /\ mode' = "down" /\ wr'.pc = "free" /\ fl'.pc = "free" /\ imms' = {}
      /\ mem' = [g \in Seqs |-> EmptyTable] /\ levels' = NoTables
  BY DEF ProcessGone, WrFree, FlFree
<1>2. Quiet'
  BY <1>1 DEF Quiet
<1>3. Generations' /\ View'
  BY <1>1 DEF Generations, View
<1>4. \A l \in Levels : levels'[l] = {}
  BY <1>1 DEF NoTables
<1>5. Tables'
  BY <1>1, <1>4 DEF Inv, Tables
<1>6. LevelOrder'
  BY <1>4, BasicSets DEF Inv, LevelOrder
<1>7. FlushInFlight' /\ CompactionInFlight' /\ InputsRetired'
  BY <1>1 DEF FlushInFlight, CompactionInFlight, InputsRetired
<1>8. Issued'
  <2>1. 0 \in 0 .. Len(ops)
    BY DEF Inv, TypeOK, TypeHistory
  <2>2. mem' \in [Seqs -> [Keys -> 0 .. Len(ops)]]
    BY <1>1, <2>1 DEF EmptyTable
  <2>3. QED
    BY <2>2 DEF Inv, Issued
<1>9. QED
  BY <1>2, <1>3, <1>5, <1>6, <1>7, <1>8 DEF Inv

\* A clean drop, a failed open, and a crash, which cuts the logs short.
LEMMA InvStop ==
    ASSUME Inv, TypeOK',
           Close \/ RebackFails \/ \E kind \in CrashKinds : Crash(kind)
    PROVE  Inv'
<1>1. ProcessGone /\ UNCHANGED <<files, sst, manifest, kv, ops>>
  BY DEF Close, RebackFails, Crash
<1>2. wlog \in [Seqs -> Seq(1 .. Len(ops))] /\ walFiles \subseteq Seqs
  BY DEF Inv, Issued, TypeOK, TypeDirectory
<1>3. wlog' \in [Seqs -> Seq(1 .. Len(ops))]
  <2>1. CASE Close \/ RebackFails
    BY <1>2, <2>1 DEF Close, RebackFails
  <2>2. ASSUME NEW kind \in CrashKinds, Crash(kind)
        PROVE  wlog' \in [Seqs -> Seq(1 .. Len(ops))]
    <3>1. PICK cut \in [walFiles -> Ids] :
            /\ \A g \in walFiles : cut[g] <= Len(wlog[g])
            /\ wlog' = [g \in Seqs |->
                          IF g \in walFiles THEN SubSeq(wlog[g], 1, cut[g]) ELSE << >>]
      BY <2>2, Zenon DEF Crash
    <3>2. ASSUME NEW g \in walFiles PROVE SubSeq(wlog[g], 1, cut[g]) \in Seq(1 .. Len(ops))
      <4>1. wlog[g] \in Seq(1 .. Len(ops))
        BY <1>2
      <4>2. cut[g] \in Nat /\ cut[g] <= Len(wlog[g])
        BY <3>1, BasicSets
      <4>3. \A i \in 1 .. cut[g] : wlog[g][i] \in 1 .. Len(ops)
        BY <4>1, <4>2, ElementOfSeq
      <4>4. QED
        BY <4>2, <4>3, SubSeqProperties
    <3>3. QED
      BY <3>1, <3>2, EmptySeq
  <2>3. QED
    BY <2>1, <2>2
<1>4. QED
  BY <1>1, <1>2, <1>3, InvProcessGone

\* open: the recovered MemTable over the MANIFEST's tables is the whole state, and
\* the next number is above every one in use.
LEMMA InvRecover == ASSUME Inv, TypeOK', Recover PROVE Inv'
<1> DEFINE t == [k \in Keys |-> Replayed(k)]
           r == RecoveredSeq
<1>0. /\ UNCHANGED <<sst, files, manifest, imms, ops, wr, fl>>
      /\ mode = "down" /\ mode' = "reback"
  BY DEF Recover
<1>1. /\ levels' = manifest /\ active' = r /\ nextSeq' = r + 1
      /\ mem' = [mem EXCEPT ![r] = t]
      /\ kv' = [k \in Keys |-> Recovered(k)]
      /\ \E log \in InKeyOrder(t) : wlog' = [wlog EXCEPT ![r] = log]
  BY Zenon DEF Recover
<1>2. /\ r \in Seqs /\ r \in Int /\ \A s \in manifest[0] \cup manifest[1] : s < r
  BY RecoveredSeqAbove DEF Inv, TypeOK, Recover, Seqs, KnownSeqs
<1>3. /\ wr.pc = "free" /\ fl.pc = "free" /\ imms = {}
      /\ mem = [g \in Seqs |-> EmptyTable]
  BY <1>0 DEF Inv, Quiet
<1>4. \A k \in Keys : Replayed(k) \in 0 .. Len(ops)
  <2>1. TypeDirectory /\ Len(ops) \in Nat /\ wlog \in [Seqs -> Seq(1 .. Len(ops))]
    BY DEF Inv, TypeOK, TypeHistory, Issued
  <2>2. QED
    BY <2>1, ReplayedType, Zenon
<1>5. \A s \in Seqs : s \in Int
  BY DEF Seqs
<1>6. /\ manifest \in [Levels -> SUBSET Seqs]
      /\ manifest[0] \subseteq Seqs /\ manifest[1] \subseteq Seqs
  BY BasicSets DEF Inv, TypeOK, TypeDirectory
<1>7. t \in [Keys -> 0 .. Len(ops)]
  BY <1>4
<1>8. \A k \in Keys : t[k] = Replayed(k)
  OBVIOUS
<1> HIDE DEF t, r
<1>9. mem'[r] = t /\ \A g \in Seqs : g # r => mem'[g] = EmptyTable
  BY <1>1, <1>2, <1>3
<1>10. Quiet'
  BY <1>0, <1>3 DEF Quiet
<1>11. Generations'
  <2>1. r < r + 1 /\ \A g \in Seqs : g >= r + 1 => g # r
    BY <1>2, <1>5
  <2>2. QED
    BY <1>0, <1>1, <1>2, <1>3, <1>9, <2>1 DEF Generations
<1>12. Tables' /\ LevelOrder'
  <2>1. \A l \in Levels : manifest[l] \subseteq files[l]
    BY DEF Inv, Tables
  <2>2. \A l \in Levels : \A s \in manifest[l] : s < r
    BY <1>2 DEF Levels
  <2>3. \A l \in Levels : \A s \in manifest[l] : s < r + 1
    BY <1>2, <1>5, <1>6, <2>2
  <2>4. QED
    BY <1>0, <1>1, <2>1, <2>3 DEF Inv, Tables, LevelOrder
<1>13. FlushInFlight' /\ CompactionInFlight' /\ InputsRetired'
  BY <1>0, <1>3 DEF FlushInFlight, CompactionInFlight, InputsRetired
<1>14. Issued'
  <2> DEFINE W == 0 .. Len(ops)
  <2>1. /\ mem \in [Seqs -> [Keys -> W]] /\ Len(ops) \in Nat /\ 0 \in W
        /\ sst \in [Levels -> [Seqs -> [Keys -> W]]]
        /\ wlog \in [Seqs -> Seq(1 .. Len(ops))]
    BY DEF Inv, Issued, TypeOK, TypeHistory
  <2>2. wlog' \in [Seqs -> Seq(1 .. Len(ops))]
    <3>1. PICK log \in InKeyOrder(t) : wlog' = [wlog EXCEPT ![r] = log]
      BY <1>1
    <3>2. log \in Seq(1 .. Len(ops))
      BY <1>7, <2>1, InKeyOrderType
    <3>3. QED
      BY <2>1, <3>1, <3>2
  <2>3. t \in [Keys -> W]
    BY <1>7
  <2> HIDE DEF W
  <2>4. mem' \in [Seqs -> [Keys -> W]]
    BY <1>1, <2>1, <2>3
  <2>5. ASSUME NEW k \in Keys PROVE Recovered(k) \in W
    <3>1. sst[0] \in [Seqs -> [Keys -> W]] /\ sst[1] \in [Seqs -> [Keys -> W]]
      BY <2>1, BasicSets
    <3>2. /\ \A s \in manifest[0] : sst[0][s][k] \in W
          /\ \A s \in manifest[1] : sst[1][s][k] \in W
      BY <1>6, <3>1
    <3>3. NewestHit(manifest[0], sst[0], k) \in W /\ NewestHit(manifest[1], sst[1], k) \in W
      BY <1>6, <2>1, <3>2, NewestHitFrom
    <3>4. Replayed(k) \in W
      BY <1>8, <2>3
    <3>5. QED
      BY <3>3, <3>4 DEF Recovered, OrElse
  <2>6. kv' \in [Keys -> W]
    BY <1>1, <2>5
  <2>7. QED
    BY <1>0, <2>1, <2>2, <2>4, <2>6 DEF Issued, W
<1>15. View'
  <2>1. ASSUME NEW k \in Keys PROVE Lookup(k)' = kv'[k]
    <3>1. NewestHit({}, mem', k) = 0
      BY DEF NewestHit, Hits
    <3>2. mem'[r][k] = Replayed(k)
      BY <1>8, <1>9
    <3> DEFINE below == OrElse(NewestHit(manifest[0], sst[0], k),
                               NewestHit(manifest[1], sst[1], k))
    <3>3. Lookup(k)' = OrElse(mem'[r][k], OrElse(NewestHit({}, mem', k), below))
      BY <1>0, <1>1, <1>3, Zenon DEF Lookup
    <3>4. kv'[k] = OrElse(Replayed(k), below)
      BY <1>1 DEF Recovered
    <3> HIDE DEF below
    <3>5. QED
      BY <3>1, <3>2, <3>3, <3>4 DEF OrElse
  <2>2. QED
    BY <2>1 DEF View, Value, IsDelete
<1>16. QED
  BY <1>10, <1>11, <1>12, <1>13, <1>14, <1>15 DEF Inv

-----------------------------------------------------------------------------
(* The steps that only move a lock holder, a counter or a log.             *)

\* put and delete append to the log; flush() syncs it; a failed rotation uses up
\* a number.
LEMMA InvWritePath == ASSUME Inv, TypeOK', WritePath PROVE Inv'
<1>0. /\ wlog \in [Seqs -> Seq(1 .. Len(ops))] /\ wr \in WrType /\ nextSeq \in Int
      /\ wr.pc # "free" => mode = "up"
  BY DEF Inv, Issued, TypeOK, TypeProcess
<1>1. ASSUME NEW k \in Keys, NEW del \in BOOLEAN, Write(k, del) \/ WriteSyncFails(k, del)
      PROVE  Inv'
  <2>1. /\ ops' = Append(ops, [key |-> k, del |-> del]) /\ mode = "up"
        /\ UNCHANGED <<mem, active, imms, levels, sst, files, manifest, kv, nextSeq, mode, fl>>
        /\ wlog' = Logged(active, Len(ops) + 1)
        /\ wr'.pc # "swap"
    BY <1>1 DEF Write, WriteSyncFails, sstVars
  <2>2. Quiet'
    BY <2>1 DEF Quiet
  <2>3. QED
    BY <2>1, <2>2, IssuedNext DEF viewVars
<1>2. ASSUME NEW freeze \in BOOLEAN, Apply(freeze) PROVE Inv'
  BY <1>2, InvApply
<1>3. ASSUME NEW c \in Clients, FlushSync(c) PROVE Inv'
  <2>1. /\ UNCHANGED <<mem, active, imms, levels, sst, files, manifest, kv, ops, nextSeq,
                       mode, fl, wlog>>
        /\ mode = "up" /\ wr'.pc # "swap"
    BY <1>3 DEF FlushSync, sstVars
  <2>2. Quiet' /\ nextSeq <= nextSeq'
    BY <1>0, <2>1 DEF Quiet
  <2>3. QED
    BY <1>0, <2>1, <2>2, Frame DEF viewVars
<1>4. CASE RotateFails
  <2>1. /\ UNCHANGED <<mem, active, imms, levels, sst, files, manifest, kv, ops, mode, fl, wlog>>
        /\ mode = "up" /\ wr'.pc # "swap" /\ nextSeq' = nextSeq + 1
    BY <1>0, <1>4 DEF RotateFails, sstVars, walVars, ghosts, WrFree
  <2>2. Quiet' /\ nextSeq <= nextSeq'
    BY <1>0, <2>1 DEF Quiet
  <2>3. QED
    BY <1>0, <2>1, <2>2, Frame DEF viewVars
<1>5. QED
  BY <1>1, <1>2, <1>3, <1>4, InvRotate, InvSwap DEF WritePath

\* Deleting a WAL leaves logs of issued writes.
LEMMA IssuedUnlink ==
    ASSUME wlog \in [Seqs -> Seq(1 .. Len(ops))],
           (\E g : UnlinkWal(g)) \/ UNCHANGED walVars
    PROVE  wlog' \in [Seqs -> Seq(1 .. Len(ops))]
  BY EmptySeq DEF UnlinkWal, walVars

\* The drain loop of flush_all_pending.
LEMMA InvFlushPipeline == ASSUME Inv, TypeOK', FlushPipeline PROVE Inv'
<1>0. /\ wlog \in [Seqs -> Seq(1 .. Len(ops))] /\ fl \in FlType /\ nextSeq \in Int
      /\ fl.pc # "free" => mode = "up"
  BY DEF Inv, Issued, TypeOK, TypeProcess, Quiet
<1>1. ASSUME NEW p \in Clients \cup {"worker"}, FlushBegin(p) PROVE Inv'
  <2>1. /\ UNCHANGED <<mem, active, imms, levels, sst, files, manifest, kv, ops, nextSeq,
                       mode, wlog, wr>>
        /\ mode = "up" /\ fl'.pc = "drain"
    BY <1>1 DEF FlushBegin, dirVars, ghosts, FlFree
  <2>2. Quiet' /\ nextSeq <= nextSeq'
    BY <1>0, <2>1 DEF Quiet
  <2>3. QED
    BY <1>0, <2>1, <2>2, Frame DEF viewVars
<1>2. CASE FlushBuildFails \/ FlushManifestFails \/ FlushNothing \/ FlushReturn \/ FlushUnlink
  <2>1. /\ UNCHANGED <<mem, active, imms, levels, sst, files, manifest, kv, ops, mode, wr>>
        /\ nextSeq' = nextSeq \/ nextSeq' = nextSeq + 1
        /\ fl.pc # "free"
    BY <1>2 DEF FlushBuildFails, FlushManifestFails, FlushNothing, FlushReturn, FlushUnlink,
                dirVars, sstVars, ghosts
  <2>2. fl'.pc \in {"free", "ok", "unlink"}
    <3>1. CASE FlushBuildFails \/ FlushManifestFails \/ FlushReturn
      BY <3>1 DEF FlushBuildFails, FlushManifestFails, FlushReturn, Release, FlFree
    <3>2. CASE FlushNothing
      BY <1>0, <3>2 DEF FlushNothing, FlType
    <3>3. CASE FlushUnlink
      BY <1>0, <3>3 DEF FlushUnlink, FlType
    <3>4. QED
      BY <1>2, <3>1, <3>2, <3>3
  <2>3. wlog' \in [Seqs -> Seq(1 .. Len(ops))]
    <3>1. (\E g : UnlinkWal(g)) \/ UNCHANGED walVars
      BY <1>2 DEF FlushBuildFails, FlushManifestFails, FlushNothing, FlushReturn, FlushUnlink,
                  dirVars, walVars
    <3>2. QED
      BY <1>0, <3>1, IssuedUnlink
  <2>4. Quiet' /\ nextSeq <= nextSeq' /\ mode = "up"
    BY <1>0, <2>1 DEF Quiet
  <2>5. QED
    BY <1>0, <2>1, <2>2, <2>3, <2>4, Frame DEF viewVars
<1>3. QED
  BY <1>1, <1>2, InvFlushBuild, InvFlushCommit, InvManifest DEF FlushPipeline

\* compact_all_pending.
LEMMA InvCompaction == ASSUME Inv, TypeOK', Compaction PROVE Inv'
<1>0. /\ wlog \in [Seqs -> Seq(1 .. Len(ops))] /\ fl \in FlType /\ nextSeq \in Int
      /\ fl.pc # "free" => mode = "up"
  BY DEF Inv, Issued, TypeOK, TypeProcess, Quiet
<1>1. ASSUME NEW p \in Clients \cup {"worker"}, CompactBuild(p) PROVE Inv'
  BY <1>1, InvCompactBuildEmpty, InvCompactBuildFile
<1>2. ASSUME NEW p \in Clients \cup {"worker"}, CompactBuildFails(p) PROVE Inv'
  <2>1. /\ UNCHANGED <<mem, active, imms, levels, sst, files, manifest, kv, ops, mode, wr,
                       wlog, fl>>
        /\ mode = "up" /\ nextSeq' = nextSeq + 1
    BY <1>2 DEF CompactBuildFails, CompactCaller, dirVars, ghosts
  <2>2. Quiet' /\ nextSeq <= nextSeq'
    BY <1>0, <2>1 DEF Quiet
  <2>3. QED
    BY <1>0, <2>1, <2>2, Frame DEF viewVars
<1>3. CASE CompactNothing \/ CompactManifestFails \/ CompactReturn
  <2>1. /\ UNCHANGED <<mem, active, imms, levels, sst, files, manifest, kv, ops, nextSeq,
                       mode, wr, wlog>>
        /\ mode = "up"
    BY <1>0, <1>3 DEF CompactNothing, CompactManifestFails, CompactReturn, CompactCaller,
                      dirVars, ghosts
  <2>2. fl' = fl \/ fl'.pc = "free"
    BY <1>3 DEF CompactNothing, CompactManifestFails, CompactReturn, Release, FlFree
  <2>3. Quiet' /\ nextSeq <= nextSeq'
    BY <1>0, <2>1 DEF Quiet
  <2>4. QED
    BY <1>0, <2>1, <2>2, <2>3, Frame DEF viewVars
<1>4. QED
  BY <1>1, <1>2, <1>3, InvCompactCommit, InvManifest, InvCompactUnlink DEF Compaction

\* The worker between two calls.
LEMMA InvWorker == ASSUME Inv, TypeOK', Worker PROVE Inv'
<1>0. wlog \in [Seqs -> Seq(1 .. Len(ops))] /\ nextSeq \in Int
  BY DEF Inv, Issued, TypeOK, TypeProcess
<1>1. UNCHANGED <<mem, active, imms, levels, sst, files, manifest, kv, ops, nextSeq, mode,
                  wr, wlog, fl>>
  BY DEF Worker, WorkerRecv, WorkerCheck, dirVars, ghosts
<1>2. Quiet' /\ nextSeq <= nextSeq'
  BY <1>0, <1>1 DEF Inv, Quiet
<1>3. QED
  BY <1>0, <1>1, <1>2, Frame DEF viewVars

\* Dropping, crashing and opening.
LEMMA InvLifecycle == ASSUME Inv, TypeOK', Lifecycle PROVE Inv'
<1>0. wlog \in [Seqs -> Seq(1 .. Len(ops))] /\ nextSeq \in Int
  BY DEF Inv, Issued, TypeOK, TypeProcess
<1>1. CASE Reback \/ CleanOld
  <2>1. /\ UNCHANGED <<mem, active, imms, levels, sst, files, manifest, kv, ops, nextSeq,
                       wr, fl>>
        /\ mode \in {"reback", "clean"} /\ mode' \in {"up", "clean"}
    BY <1>1 DEF Reback, CleanOld, sstVars, ghosts
  <2>2. wlog' \in [Seqs -> Seq(1 .. Len(ops))]
    <3>1. (\E g : UnlinkWal(g)) \/ UNCHANGED walVars \/ wlog' = wlog
      BY <1>1 DEF Reback, CleanOld
    <3>2. QED
      BY <1>0, <3>1, IssuedUnlink
  <2>3. Quiet' /\ nextSeq <= nextSeq'
    BY <1>0, <2>1 DEF Inv, Quiet
  <2>4. QED
    BY <1>0, <2>1, <2>2, <2>3, Frame DEF viewVars
<1>2. QED
  BY <1>1, InvStop, InvRecover DEF Lifecycle

-----------------------------------------------------------------------------
(* The invariant and what it is for.                                       *)

\* The empty directory satisfies the invariant.
LEMMA InvInit == Init => Inv
<1>1. SUFFICES ASSUME Init PROVE Inv
  OBVIOUS
<1>2. /\ mode = "down" /\ wr.pc = "free" /\ fl.pc = "free" /\ imms = {} /\ ops = << >>
      /\ mem = [g \in Seqs |-> EmptyTable]
      /\ levels = NoTables /\ manifest = NoTables /\ kv = EmptyTable
      /\ wlog = [g \in Seqs |-> << >>]
      /\ sst = [l \in Levels |-> [s \in Seqs |-> EmptyTable]]
  BY <1>1 DEF Init, WrFree, FlFree
<1>3. TypeOK
  BY <1>1, TypeInit
<1>4. Quiet /\ Generations /\ View
  BY <1>2 DEF Quiet, Generations, View
<1>5. \A l \in Levels : levels[l] = {} /\ manifest[l] = {}
  BY <1>2 DEF NoTables
<1>6. Tables /\ LevelOrder
  BY <1>2, <1>5, BasicSets DEF Tables, LevelOrder
<1>7. FlushInFlight /\ CompactionInFlight /\ InputsRetired
  BY <1>2 DEF FlushInFlight, CompactionInFlight, InputsRetired
<1>8. Issued
  <2>1. Len(ops) = 0 /\ 0 \in 0 .. Len(ops)
    BY <1>2
  <2>2. QED
    BY <1>2, <2>1, EmptySeq DEF Issued, EmptyTable
<1>9. QED
  BY <1>3, <1>4, <1>6, <1>7, <1>8 DEF Inv

\* Every step preserves the invariant.
LEMMA InvNext == Inv /\ [Next]_vars => Inv'
<1>1. SUFFICES ASSUME Inv, [Next]_vars PROVE Inv'
  OBVIOUS
<1>2. TypeOK'
  BY <1>1, TypeNext DEF Inv
<1>3. CASE UNCHANGED vars
  <2>1. UNCHANGED <<mem, active, imms, levels, sst, files, manifest, kv, ops, nextSeq, mode,
                    wr, wlog, fl>>
    BY <1>3 DEF vars
  <2>2. Quiet' /\ nextSeq <= nextSeq' /\ wlog' \in [Seqs -> Seq(1 .. Len(ops))]
    BY <1>1, <2>1 DEF Inv, Quiet, Issued, TypeOK, TypeProcess
  <2>3. QED
    BY <1>1, <1>2, <2>1, <2>2, Frame DEF viewVars
<1>4. QED
  BY <1>1, <1>2, <1>3, InvWritePath, InvFlushPipeline, InvCompaction, InvWorker,
     InvLifecycle DEF Next

\* The inductive invariant holds: what the locks of engine.rs, and the order of the
\* steps inside each critical section, keep true between any two steps.
THEOREM InvCorrect == Spec => []Inv
  BY InvInit, InvNext, PTL DEF Spec

\* Whatever freezes, flushes, compactions, I/O errors, drops, crashes and recoveries
\* happen, get answers with the newest applied write of the key (get, engine.rs).
THEOREM LiveViewHolds == Spec => []LiveView
<1>1. Inv => LiveView
  BY DEF Inv, View, LiveView, Up
<1>2. QED
  BY <1>1, InvCorrect, PTL

\* The level-1 table is older than every level-0 table, live and in the MANIFEST,
\* so that merge_runs (by number) and get (by level) agree.
THEOREM LevelOrderHolds == Spec => []LevelOrder
<1>1. Inv => LevelOrder
  BY DEF Inv
<1>2. QED
  BY <1>1, InvCorrect, PTL

\* open never meets a MANIFEST that lists a missing table
\* (recover_ssts_from_manifest).
THEOREM ManifestFilesExistHolds == Spec => []ManifestFilesExist
<1>1. Inv => ManifestFilesExist
  BY DEF Inv, Tables, ManifestFilesExist, ManifestOnDisk
<1>2. QED
  BY <1>1, InvCorrect, PTL

\* Only a table that nothing refers to is written or removed.
LEMMA ReferencedUntouched ==
    ASSUME Inv, [Next]_vars,
           NEW l \in Levels, NEW s \in manifest[l] \cup levels[l]
    PROVE  sst'[l][s] = sst[l][s]
<1>1. \/ sst' = sst
      \/ FlushBuild
      \/ \E p : CompactBuild(p) /\ Merged(levels) # EmptyTable
      \/ \E m \in Levels : CompactUnlink(m)
  BY DEF Next, WritePath, FlushPipeline, Compaction, Worker, Lifecycle, vars, Write,
         WriteSyncFails, Apply, FlushSync, Rotate, RotateFails, Swap, FlushBegin,
         FlushBuildFails, FlushCommit, FlushNothing, FlushManifest, FlushManifestFails,
         FlushUnlink, FlushReturn, CompactBuild, CompactBuildFails, CompactNothing,
         CompactCommit, CompactManifest, CompactManifestFails, CompactReturn, WorkerRecv,
         WorkerCheck, Close, Crash, Recover, Reback, RebackFails, CleanOld, dirVars, sstVars
<1>2. s \in Seqs
  BY DEF Inv, TypeOK, TypeDirectory, TypeProcess
<1>3. CASE FlushBuild
  <2>1. mode = "up" /\ nextSeq \in Seqs
    BY <1>3, BoundsAssumption
       DEF Inv, Quiet, TypeOK, TypeProcess, FlushBuild, CanAllocate, Seqs
  <2>2. /\ sst' = [sst EXCEPT ![0] = [sst[0] EXCEPT ![nextSeq] = mem[FirstFrozen]]]
        /\ UNCHANGED <<mem, active, imms, levels, ops>>
    BY <1>3 DEF FlushBuild, ghosts
  <2>3. s # nextSeq /\ nextSeq \notin levels[0]
    BY <2>1, FreshNumber, BasicSets
  <2>4. QED
    BY <1>2, <2>1, <2>2, <2>3, UnseenTable, BasicSets
<1>4. ASSUME NEW p, CompactBuild(p), Merged(levels) # EmptyTable
      PROVE  sst'[l][s] = sst[l][s]
  <2>1. mode = "up" /\ nextSeq \in Seqs
    BY <1>4, BoundsAssumption
       DEF Inv, TypeOK, TypeProcess, CompactBuild, CompactCaller, CanAllocate, Seqs
  <2>2. /\ sst' = [sst EXCEPT ![1] = [sst[1] EXCEPT ![nextSeq] = Merged(levels)]]
        /\ UNCHANGED <<mem, active, imms, levels, ops>>
    BY <1>4 DEF CompactBuild, ghosts
  <2>3. s # nextSeq /\ nextSeq \notin levels[1]
    BY <2>1, FreshNumber, BasicSets
  <2>4. QED
    BY <1>2, <2>1, <2>2, <2>3, UnseenTable, BasicSets
<1>5. ASSUME NEW m \in Levels, CompactUnlink(m) PROVE sst'[l][s] = sst[l][s]
  <2> DEFINE n == Min(fl.inputs[m])
  <2>1. fl.inputs[m] # {} /\ fl.inputs[m] \subseteq Seqs /\ fl.pc = "sweep"
    BY <1>5 DEF Inv, TypeOK, TypeProcess, CompactUnlink, FlType
  <2>2. n \in fl.inputs[m]
    BY <2>1, BasicSets, MinOfNats
  <2>3. /\ sst' = sst \/ sst' = [sst EXCEPT ![m] = [sst[m] EXCEPT ![n] = EmptyTable]]
        /\ UNCHANGED <<mem, active, imms, levels, ops>>
    BY <1>5 DEF CompactUnlink, ghosts
  <2> HIDE DEF n
  <2>4. n \in Seqs /\ n \notin levels[m] /\ manifest = levels
    BY <2>1, <2>2 DEF Inv, InputsRetired
  <2>5. l # m \/ s # n
    BY <2>4
  <2>6. CASE sst' = [sst EXCEPT ![m] = [sst[m] EXCEPT ![n] = EmptyTable]]
    BY <1>2, <2>3, <2>4, <2>5, <2>6, UnseenTable
  <2>7. QED
    BY <2>3, <2>6
<1>6. QED
  BY <1>1, <1>3, <1>4, <1>5

\* A table that the MANIFEST or the live levels refer to is never rewritten or
\* removed: a number is drawn for a new file only when no such table has it, and
\* compaction deletes its inputs only once nothing lists them.
THEOREM ReferencedTablesAreImmutable == Spec => ReferencedTablesImmutable
<1>1. Inv /\ Inv' /\ [Next]_vars =>
        [\A l \in Levels : \A s \in manifest'[l] \cup levels'[l] :
           s \in manifest[l] \cup levels[l]
             => s \in files'[l] /\ sst'[l][s] = sst[l][s]]_vars
  <2>1. SUFFICES ASSUME Inv, Inv', [Next]_vars, NEW l \in Levels,
                        NEW s \in manifest'[l] \cup levels'[l],
                        s \in manifest[l] \cup levels[l]
                 PROVE  s \in files'[l] /\ sst'[l][s] = sst[l][s]
    OBVIOUS
  <2>2. s \in files'[l]
    BY <2>1 DEF Inv, Tables
  <2>3. QED
    BY <2>1, <2>2, ReferencedUntouched
<1>2. QED
  BY <1>1, InvCorrect, PTL DEF Spec, ReferencedTablesImmutable
=============================================================================
