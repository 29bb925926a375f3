------------------------------ MODULE LsmReopen ------------------------------
(***************************************************************************)
(* Two engines on one directory (src/src/engine.rs).  The worker holds its *)
(* engine alive while it flushes or compacts: when the client drops its    *)
(* last handle in that window, the drop of the engine is put off until the *)
(* worker is done, and a client that opens the directory again at once     *)
(* shares it with the engine it dropped.                                   *)
(*                                                                         *)
(* The variables of LsmEngine are the directory and the engine that is     *)
(* being used; those named o... are the dropped one.                       *)
(***************************************************************************)
EXTENDS LsmEngine

VARIABLES
    dropped,   \* history: "no", or how the client dropped the first engine: "flushed",
               \* when a flush() had returned since its last write, or "unflushed"
    merged,    \* history: the dropped engine commits or has committed a compaction
    oLive,     \* the worker still holds the dropped engine
    oMem, oActive, oImms, oLevels, oNextSeq, oFl, oWk,
    oBuf       \* the writes still in the buffer of its WAL writer

oVars == <<oMem, oActive, oImms, oLevels, oNextSeq, oFl, oWk, oBuf>>
process == <<mode, mem, active, imms, levels, nextSeq, stale, wr, fl, wk, signals, calls>>
reopenVars == <<vars, dropped, merged, oLive, oVars>>

\* The dropped engine: no client calls it, it receives no further message, and
\* whatever it still does may fail.
Old == INSTANCE LsmEngine WITH
         mode <- "up", mem <- oMem, active <- oActive, imms <- oImms,
         levels <- oLevels, nextSeq <- oNextSeq, stale <- {}, wr <- WrFree,
         fl <- oFl, wk <- oWk, signals <- 0, calls <- [c \in Clients |-> "idle"],
         Faults <- IoFaults

\* Everything applied is covered by a flush() that returned.
AllFlushed == durable = kv

\* A compaction that has replaced the tables and not yet deleted all of the old.
Committed(f) == f.pc \in {"record", "sweep"}

\* The last handle is dropped while the worker is busy: nothing is fsynced yet,
\* and the file of the active WAL lacks what is still in the writer's buffer.
DropHandle ==
    /\ dropped = "no" /\ dropped' = IF AllFlushed THEN "flushed" ELSE "unflushed"
    /\ mode = "up" /\ wr.pc = "free" /\ wk # "recv" /\ fl.by \in {"worker", "none"}
    /\ \A c \in Clients : calls[c] = "idle"
    /\ \E n \in wos[active] .. Len(wlog[active]) :
         /\ wlog' = [wlog EXCEPT ![active] = SubSeq(@, 1, n)]
         /\ oBuf' = SubSeq(wlog[active], n + 1, Len(wlog[active]))
    /\ oLive' = TRUE /\ merged' = Committed(fl)
    /\ oMem' = mem /\ oActive' = active /\ oImms' = imms /\ oLevels' = levels
    /\ oNextSeq' = nextSeq /\ oFl' = fl /\ oWk' = wk
    /\ ProcessGone
    /\ closed' = kv
    /\ UNCHANGED <<walFiles, wos, wsync, files, sst, manifest, ops, kv, gone,
                   durable, acked, stops>>

\* The worker of the dropped engine goes on with its flush and compaction, until it
\* is done or fails.
OldWorker ==
    /\ oLive
    /\ \/ Old!FlushBegin("worker") \/ Old!FlushBuild \/ Old!FlushBuildFails
       \/ Old!FlushCommit \/ Old!FlushNothing \/ Old!FlushManifest
       \/ Old!FlushManifestFails \/ Old!FlushUnlink \/ Old!FlushReturn
       \/ Old!WorkerCheck
       \/ Old!CompactBuild("worker") \/ Old!CompactBuildFails("worker")
       \/ Old!CompactNothing \/ Old!CompactCommit \/ Old!CompactManifest
       \/ Old!CompactManifestFails \/ (\E l \in Levels : Old!CompactUnlink(l))
       \/ Old!CompactReturn
    /\ merged' = (merged \/ Committed(oFl'))
    /\ UNCHANGED <<process, dropped, oLive, oBuf>>

\* The worker lets go of the engine: its WAL is fsynced at last, which is of no
\* use once the file has been deleted.
OldDrop ==
    /\ oLive /\ oWk = "recv"
    /\ oLive' = FALSE
    /\ IF oActive \in walFiles
       THEN /\ wlog' = [wlog EXCEPT ![oActive] = @ \o oBuf]
            /\ wos' = [wos EXCEPT ![oActive] = Len(wlog'[oActive])]
            /\ wsync' = [wsync EXCEPT ![oActive] = Len(wlog'[oActive])]
       ELSE UNCHANGED <<wlog, wos, wsync>>
    /\ UNCHANGED <<walFiles, files, sst, manifest, process, ghosts, dropped, merged, oVars>>

ReopenInit ==
    /\ Init /\ dropped = "no" /\ merged = FALSE /\ oLive = FALSE
    /\ oMem = mem /\ oActive = 0 /\ oImms = {} /\ oLevels = NoTables /\ oNextSeq = 1
    /\ oFl = FlFree /\ oWk = "recv" /\ oBuf = << >>

ReopenNext ==
    \/ Next /\ UNCHANGED <<dropped, merged, oLive, oVars>>
    \/ DropHandle \/ OldWorker \/ OldDrop

ReopenSpec == ReopenInit /\ [][ReopenNext]_reopenVars

-----------------------------------------------------------------------------
(* Properties.                                                             *)

\* Once a flush() had returned before the drop, neither the dropped engine nor the one
\* in use replaces or removes a table that the engine in use or the MANIFEST refers to,
\* as long as the dropped one commits no compaction.  The dropped one may still write
\* the table of a compaction, under a number that it draws without the other knowing:
\* open must have gone past it (drop, compact_all_pending, open_with_options).
ReopenedTablesImmutable ==
    [][dropped = "flushed" /\ ~ merged' =>
         \A l \in Levels : \A s \in manifest'[l] \cup levels'[l] :
           s \in manifest[l] \cup levels[l]
             => s \in files'[l] /\ sst'[l][s] = sst[l][s]]_reopenVars

\* Whenever it was opened, and whatever the dropped engine still flushes and
\* deletes, the WAL of each of its MemTables stays in the directory until it has
\* flushed it itself: open numbers its WAL past every file the dropped engine may
\* still delete (open_with_options, flush_all_pending).
ReopenedLogsExist == Up => imms \cup {active} \subseteq walFiles

\* After a flush(), it answers with every write that the client had made when it
\* dropped the first engine, or a newer one (drop, open_with_options).
ReopenedHasDropped ==
    dropped = "flushed" /\ ~ merged /\ Up => \A k \in Keys : Fresh(k, Lookup(k), closed[k])
=============================================================================
