----------------------------- MODULE LsmReopenInv -----------------------------
(***************************************************************************)
(* The inductive invariants of two engines on one directory.               *)
(*                                                                         *)
(* The first, ReopenInv, is behind ReopenedLogsExist.  The dropped engine  *)
(* and the one opened after it number their files independently; what      *)
(* keeps the first from deleting the WALs of the second is that open goes  *)
(* past the highest number on disk, and that the WAL of the dropped        *)
(* engine's active MemTable, or one made after it, is still there to be    *)
(* seen.                                                                   *)
(*                                                                         *)
(* The second, FlushedInv, is behind ReopenedHasDropped and                *)
(* ReopenedTablesImmutable.                                                *)
(***************************************************************************)
EXTENDS LsmReopen, LsmDurabilityInv

OldTypes ==
    /\ merged \in BOOLEAN /\ oLive \in BOOLEAN
    /\ oMem \in [Seqs -> Table] /\ oActive \in 0 .. MaxSeq /\ oImms \subseteq Seqs
    /\ oLevels \in [Levels -> SUBSET Seqs] /\ oNextSeq \in 1 .. (MaxSeq + 1)
    /\ oFl \in FlType
    /\ oFl.pc = "commit" => oFl.gen \in Seqs /\ oFl.seq \in Seqs
    /\ oFl.pc = "unlink" => oFl.todo # {}
    /\ oBuf \in Seq(1 .. MaxWrites)

\* Nothing is in progress unless the engine is up, and a loop that deletes WALs has
\* one left to delete.
Idle ==
    /\ mode # "up" => wr.pc = "free" /\ fl = FlFree /\ imms = {}
    /\ fl.pc = "unlink" => fl.todo # {}
    /\ mode = "clean" => stale # {}

\* The WALs of the engine in use: numbered in the order they were made, and those that
\* flush_all_pending or open deletes are older than those of its MemTables.
OwnLogs ==
    mode # "down" =>
      /\ imms \cup {active} \subseteq walFiles /\ \A g \in imms : g < active
      /\ \A g \in walFiles : g < nextSeq
      /\ wr.pc = "swap" => wr.new \in walFiles /\ active < wr.new
      /\ \A t \in fl.todo, g \in imms \cup {active} : t < g
      /\ fl.pc = "commit" => fl.gen \in imms /\ \A g \in imms : fl.gen <= g
      /\ \A g \in stale : g < active

\* The dropped engine deletes only WALs older than its active one, which open sees,
\* or a newer one.
DroppedLogs ==
    oLive =>
      /\ \A g \in oImms \cup oFl.todo : g < oActive
      /\ oFl.pc = "commit" => oFl.gen < oActive
      /\ mode = "down" => \E g \in walFiles : oActive <= g
      /\ mode # "down" => \A g \in imms \cup {active} : oActive < g

ReopenInv ==
    /\ TypeOK /\ OldTypes /\ Idle
    /\ OwnLogs /\ DroppedLogs

-----------------------------------------------------------------------------
(* The engine dropped after a flush().  It has nothing left to flush, and  *)
(* so nothing left to do to the directory, except for writing the table    *)
(* of a compaction under a number that open goes past.                     *)

\* A log has no write that is promised, or that a flush() is about to promise once it
\* has drained: the WALs are deleted first.
LogsUnpromised ==
    /\ \A g \in walFiles, k \in Keys : \A i \in Entries(g, k) : durable[k] < wlog[g][i]
    /\ \A c \in Clients, k \in Keys : calls[c] = "drain" =>
         \A g \in LiveGens : g = active \/ (fl.by = c /\ fl.pc \in {"unlink", "ok"}) =>
           \A i \in Entries(g, k) : snap[c][k] < wlog[g][i]

\* Entry i of log g has reached the MemTable: it is not that of a put under way.
Reached(g, i) == ~ (wr.pc = "apply" /\ g = active /\ wlog[g][i] = wr.w)

\* What a log has of a key is not newer than its MemTable, nor than what was applied.
LogsApplied ==
    mode # "down" => \A g \in walFiles, k \in Keys : \A i \in Entries(g, k) : Reached(g, i) =>
      /\ wlog[g][i] <= kv[k]
      /\ g \in LiveGens => wlog[g][i] <= mem[g][k]

\* Later logs have newer writes.
LogOrder ==
    \A g, h \in walFiles, k \in Keys : g < h =>
      \A i \in Entries(g, k), j \in Entries(h, k) : wlog[g][i] <= wlog[h][j]

\* Only what holds something is frozen.
FrozenHaveWrites ==
    mode = "up" =>
      /\ \A g \in imms \cup fl.todo : wlog[g] # << >>
      /\ wr.pc \in {"rotate", "swap"} => wlog[active] # << >>

\* While there is something to compact, the newest number is that of a file which open
\* will look at or of a table being built; a freeze that failed has wasted one, but then
\* there is something to flush.
NewestNumberSeen ==
    /\ mode # "down" /\ (levels[0] # {} \/ fl.pc = "commit")
    /\ wr.pc = "swap" \/ wlog[active] = << >>
    => nextSeq - 1 \in walFiles \cup levels[0] \cup levels[1]
                        \cup (IF fl.pc \in {"commit", "merged"} THEN {fl.seq} ELSE {})

UnflushedInv ==
    /\ LogsUnpromised /\ LogsApplied /\ LogOrder
    /\ FrozenHaveWrites /\ NewestNumberSeen

\* The dropped engine has nothing to flush, ...
DroppedIdle ==
    /\ oBuf = << >>
    /\ oLive => /\ oImms = {} /\ oFl.todo = {} /\ oFl.by \in {"worker", "none"}
                /\ oFl.pc \in {"free", "drain", "ok", "merged"}
                /\ oActive \in Seqs => wlog[oActive] = << >>

\* ... its worker may be through, ...
DroppedDone == oWk = "recv" /\ oFl.pc = "free"

\* ... and the table that it may still write has a number that the other one does
\* not use.
DroppedBuild ==
    oLive /\ ~ DroppedDone /\ oLevels[0] # {} /\ oFl.pc # "merged" =>
      /\ \A l \in Levels : oNextSeq \notin levels[l] \cup manifest[l]
      /\ fl.seq # oNextSeq
      /\ mode = "down" => \E s \in KnownSeqs : oNextSeq <= s + 1
      /\ mode # "down" => oNextSeq <= active

FlushedInv ==
    /\ dropped = "no" \/ (dropped = "flushed" /\ ~ merged) => Inv /\ DurableInv
    /\ dropped = "no" => UnflushedInv /\ ~ oLive
    /\ dropped = "flushed" /\ ~ merged => DroppedIdle /\ DroppedBuild
=============================================================================
