------------------------------ MODULE LsmReadsInv ------------------------------
(***************************************************************************)
(* The inductive invariant behind ReadIsCurrent and                        *)
(* CompactionSparesReaders: what a get() may rely on while the engine goes *)
(* on without it.                                                          *)
(***************************************************************************)
EXTENDS LsmReads, LsmEngineInv

Handles == Levels \X Seqs

\* The get() of a reader whose copy of the tables is one of C and whose answer is in A.
RdType(C, A) == [pc : {"idle", "active", "imms", "tables", "answered", "failed"},
                 key : Nat, act : 0 .. MaxSeq, imms : SUBSET Seqs, todo : SUBSET Handles,
                 tables : C, answer : A]

Typed(f) ==
    f \in [Readers -> RdType({f[r].tables : r \in Readers}, {f[r].answer : r \in Readers})]

\* The variables of the readers hold values of their types, and what a reader can
\* reach has been issued.
ReadTypes ==
    /\ Typed(rd)
    /\ DOMAIN seen = Readers
    /\ arcs \in [Seqs -> [Keys -> 0 .. Len(ops)]]
    /\ \A r \in Readers : rd[r].pc # "idle" =>
         /\ rd[r].key \in Keys
         /\ \A h \in rd[r].todo : rd[r].tables[h] \in [Keys -> 0 .. Len(ops)]

\* Nobody reads unless the engine is up, and no MemTable outlives the process.
ReadersQuiet ==
    /\ mode # "up" => \A r \in Readers : rd[r] = RdIdle
    /\ mode = "down" => arcs = NoArcs

\* Generation g has its MemTable in memory or has not been started.
Unflushed(g) ==
    g \in imms \/ g = active \/ (wr.pc = "swap" /\ g = wr.new) \/ g >= nextSeq

\* An Arc shows the MemTable of a generation that is in memory, or that has not been
\* started.
ArcsCurrent ==
    /\ \A g \in Seqs : mem[g] # EmptyTable => arcs[g] = mem[g]
    /\ mode # "down" => \A g \in Seqs : Unflushed(g) => arcs[g] = mem[g]

\* A reader's copy is of the past: only its active MemTable may still be written to.
CopyIsOld ==
    \A r \in Readers : rd[r].pc # "idle" =>
      /\ rd[r].act \in Seqs /\ rd[r].act <= active
      /\ \A g \in rd[r].imms : g < rd[r].act

-----------------------------------------------------------------------------
(* What the rest of a scan would answer.                                   *)

\* Handle h comes no later than q in the scan of get.
NoLater(h, q) == h[1] < q[1] \/ (h[1] = q[1] /\ h[2] >= q[2])

\* The tables T numbered by the handles in S have w as the first entry of k.
FirstEntry(S, T, k, w) ==
    \/ w = 0 /\ \A h \in S : T[h][k] = 0
    \/ \E h \in S : /\ T[h][k] # 0 /\ w = T[h][k]
                    /\ \A q \in S : T[q][k] # 0 => NoLater(h, q)

FromCopies(r) ==
    \A w \in 0 .. Len(ops) :
      FirstEntry(rd[r].todo, rd[r].tables, rd[r].key, w) => Value(w) \in seen[r]

FromFrozen(r) ==
    LET hit == NewestHit(rd[r].imms, arcs, rd[r].key)
    IN IF hit # 0 THEN Value(hit) \in seen[r] ELSE FromCopies(r)

FromActive(r) ==
    LET hit == arcs[rd[r].act][rd[r].key]
    IN IF hit # 0 THEN Value(hit) \in seen[r] ELSE FromFrozen(r)

\* Whatever layer a get has reached, the first entry from there on was current at a
\* moment of its call.
ScanIsCurrent ==
    \A r \in Readers :
      /\ rd[r].pc = "active" => FromActive(r)
      /\ rd[r].pc = "imms" => FromFrozen(r)
      /\ rd[r].pc = "tables" => FromCopies(r)

\* A compaction has opened its inputs through the shared handles before it deletes
\* any.
InputsOpened ==
    /\ fl.pc = "merged" => Runs(levels) \subseteq opened
    /\ fl.pc \in {"record", "sweep"} => Runs(fl.inputs) \subseteq opened

\* The whole invariant of the readers, beside Inv, that of the engine.
ReadInv ==
    /\ ReadTypes /\ ReadersQuiet /\ ArcsCurrent /\ CopyIsOld
    /\ ScanIsCurrent /\ ReadIsCurrent
    /\ InputsOpened /\ CompactionSparesReaders
=============================================================================
