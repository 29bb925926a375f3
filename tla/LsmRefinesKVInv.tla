--------------------------- MODULE LsmRefinesKVInv ---------------------------
(***************************************************************************)
(* The inductive invariants behind LossIsASuffix and RefinesKVStore, when  *)
(* only processes die.  A dying process takes with it the writes that are  *)
(* still in the buffer of the active WAL.  They are the newest there are,  *)
(* so whatever part of them the operating system has got, the rest is a    *)
(* suffix; and everything older is kept by the logs and the tables.        *)
(***************************************************************************)
EXTENDS LsmRefinesKV, LsmDurabilityInv

\* With a failing fsync, put returns Err for a write that is in the log.  It may
\* come back after a restart, though it never took effect: no store does that.
NoLostAnswers == ~ (SyncPerWrite /\ "wal_sync" \in Faults)

OnlyProcessesDie == CrashKinds \subseteq {"kill"}

-----------------------------------------------------------------------------
(* The buffer of the active WAL.                                           *)

\* Only the active log has entries that the operating system has not got.
AllHanded ==
    \A g \in Seqs :
      wos[g] # Len(wlog[g]) => g = active /\ mode \in {"reback", "up"}

\* How many entries of log g are safe and, if they are to be, in a MemTable: all
\* but the buffer of the active log and a write that a put has not yet applied.
Firm(g) ==
    IF mode = "up" /\ g = active
    THEN IF wr.pc = "apply" /\ wos[g] = Len(wlog[g]) THEN wos[g] - 1 ELSE wos[g]
    ELSE Len(wlog[g])

\* The entries of the active log that are not, while the engine is up.
Loose == (Firm(active) + 1) .. Len(wlog[active])

\* The write w is newer than all that precedes entry i of the active log, and than
\* every other log, table and dropped tombstone.
Newest(i, w) ==
    /\ \A j \in 1 .. Len(wlog[active]) : j < i => wlog[active][j] < w
    /\ \A g \in Seqs \ {active} : \A j \in 1 .. Len(wlog[g]) : wlog[g][j] < w
    /\ \A l \in Levels, s \in Seqs, k \in Keys : sst[l][s][k] < w
    /\ \A k \in Keys : gone[k] < w

\* A dropped tombstone was one.
GoneAreDeletes == \A k \in Keys : gone[k] # 0 => gone[k] \in 1 .. Len(ops) /\ ops[gone[k]].del

LooseAreNewest == mode = "up" => \A i \in Loose : Newest(i, wlog[active][i])

-----------------------------------------------------------------------------
(* A dying process loses a suffix.                                         *)

\* A stop at any moment leaves write d of k, or a newer one.
Kept(k, d) ==
    /\ DiskKeeps("kill", k, d)
    /\ mode = "reback" => ~ HasOlder(active, k, d)
    /\ mode \in {"clean", "up"} => LiveKeeps("kill", k, d)

\* The newest write applied to k is still in the buffer.
Buffered(k) ==
    /\ mode = "up" /\ mem[active][k] = kv[k]
    /\ \E i \in Entries(active, k) : wos[active] < i /\ wlog[active][i] = kv[k]

AppliedKept == mode # "down" => \A k \in Keys : Kept(k, kv[k]) \/ Buffered(k)

SuffixInv == AllHanded /\ GoneAreDeletes /\ LooseAreNewest /\ AppliedKept /\ LossIsASuffix

-----------------------------------------------------------------------------
(* The store that the engine implements.                                   *)

\* Nothing that would be found for k is newer than d.
Bounded(k, d) ==
    /\ \A g \in Seqs : \A i \in Entries(g, k) : i <= Firm(g) => wlog[g][i] <= d
    /\ \A l \in Levels, s \in Seqs : sst[l][s][k] <= d
    /\ gone[k] <= d

\* Write d is the one that a stop would leave of k if all that is loose were lost.
Solid(k, d) == Kept(k, d) /\ Bounded(k, d)

\* A put that has been applied shows in the active MemTable.
LooseAreApplied ==
    mode = "up" => \A i \in Loose :
      \/ mem[active][ops[wlog[active][i]].key] >= wlog[active][i]
      \/ wr.pc = "apply" /\ wlog[active][i] = wr.w

\* The writes that took effect and the one under way, in order ...
Writes == hist \o Underway

\* ... and how many of them are not loose.
LooseLen == IF mode = "up" THEN Len(wlog[active]) - Firm(active) ELSE 0
FirmLen  == Len(Writes) - LooseLen

\* The value of k after the first n writes of W.
After(W, n, k) ==
    LET at == {i \in 1 .. n : ops[W[i]].key = k}
    IN IF at = {} THEN 0 ELSE Value(W[Max(at)])

\* The buffer holds the last writes, in order.
LooseAreLast ==
    /\ hist \in Seq(1 .. Len(ops)) /\ FirmLen \in Nat
    /\ \A n \in 1 .. LooseLen : Writes[FirmLen + n] = wlog[active][Firm(active) + n]

\* The others are what a stop leaves.
FirmIsSolid ==
    \A k \in Keys : \E d \in 0 .. Len(ops) :
      Solid(k, d) /\ Value(d) = After(Writes, FirmLen, k)

\* All that took effect is what get answers.
AppliedIsHist == mode # "down" => \A k \in Keys : Value(kv[k]) = After(hist, Len(hist), k)

\* No promise, made or about to be made, is about a loose write.
PromisedAreFirm ==
    /\ promised \in 0 .. FirmLen
    /\ marks \in [Clients -> Nat]
    /\ \A c \in Clients : calls[c] \in {"sync", "drain"} => marks[c] <= FirmLen
    /\ SyncPerWrite /\ mode = "up" => wos[active] = Len(wlog[active])

RefInv ==
    /\ LooseAreApplied /\ LooseAreLast
    /\ FirmIsSolid /\ AppliedIsHist /\ PromisedAreFirm
=============================================================================
