----------------------------- MODULE EngineTests -----------------------------
(***************************************************************************)
(* The unit tests of src/src/engine.rs as clients of the engine: what each *)
(* test does and asserts, run against every interleaving of the threads it *)
(* starts with the background worker, where a run of the test sees one.    *)
(*                                                                         *)
(* A test is a sequence of blocks; a block is a sequence of scripts, one   *)
(* per thread, run side by side.  Loops over many keys are cut to a few.   *)
(* The writes of a test are numbered in the order it makes them: Get(k, w) *)
(* asserts that get(k) gives the value of write w, or None when w is 0.    *)
(***************************************************************************)
EXTENDS LsmEngine, SequencesExt

CONSTANT Tests  \* the tests to run: a set of sequences of blocks

VARIABLES
    test,    \* the test being run
    block,   \* the block it has reached
    at,      \* at[t]: how many steps of its script thread t has made
    busy,    \* busy[t]: the call of the engine that thread t is in, or ""
    failed   \* an assertion of the test did not hold

testVars == <<vars, test, block, at, busy, failed>>

-----------------------------------------------------------------------------
(* The steps of a script.                                                  *)

Step(do, k, n) == [do |-> do, k |-> k, n |-> n]

Put(k) == Step("put", k, 0)
PutFull(k) == Step("put_full", k, 0)  \* a put that reaches flush_threshold_bytes
Del(k) == Step("delete", k, 0)
Flush == Step("flush", 0, 0)
Compact == Step("compact", 0, 0)
Open == Step("open", 0, 0)
Drop == Step("drop", 0, 0)
RemoveTable == Step("remove_table", 0, 0)  \* the test deletes the listed table
StrayTable == Step("stray_table", 0, 0)    \* the test writes a table of its own
Await(l, n) == Step("await", l, n)         \* poll until level l has n files

Get(k, w) == Step("get", k, w)
FilesAt(l, n) == Step("files", l, n)
Level1Is(s) == Step("level1", 0, s)
Listed(n) == Step("listed", 0, n)
SomeFiles(l) == Step("some_files", l, 0)
Wals(n) == Step("wals", 0, n)
OpenFails == Step("open_fails", 0, 0)
StrayKept == Step("stray_kept", 0, 0)

Alone(script) == <<<<script>>>>
Opened(script) == Alone(<<Open>> \o script)

-----------------------------------------------------------------------------
(* Tests that flush and compact by hand (LARGE_THRESHOLD).                 *)

put_get_delete_end_to_end ==
    Opened(<<Put(1), Get(1, 1), Put(2), Put(2), Get(2, 3), Del(1), Get(1, 0), Get(3, 0)>>)

tombstone_shadows_flushed_data ==
    Opened(<<Put(1), Flush, Get(1, 1), Del(1), Get(1, 0), Flush, Get(1, 0)>>)

flush_creates_sst_and_manifest ==
    Opened(<<Put(1), Put(2), Flush, FilesAt(0, 1), Listed(1)>>)

get_across_levels_newest_wins ==
    Opened(<<Put(1), Flush, Put(1), Flush, FilesAt(0, 2), Get(1, 2)>>)

recovery_from_wal_after_clean_drop ==
    Opened(<<Put(1), Put(2), Put(3), Drop, Open, Get(1, 1), Get(2, 2), Get(3, 3)>>)

recovery_from_sst_after_flush ==
    Opened(<<Put(1), Flush, Put(2), Drop, Open, Get(1, 1), Get(2, 2), Get(3, 0)>>)

recovery_tombstone_persisted ==
    Opened(<<Put(1), Del(1), Flush, Drop, Open, Get(1, 0)>>)

open_fresh_dir_is_empty == Opened(<<Get(1, 0), Put(1), Get(1, 1)>>)

flush_empty_engine_is_noop == Opened(<<Flush, FilesAt(0, 0), Get(1, 0)>>)

manifest_missing_sst_file_errors ==
    Opened(<<Put(1), Flush, Drop, RemoveTable, OpenFails>>)

flush_is_idempotent ==
    Opened(<<Put(1), Flush, FilesAt(0, 1), Flush, FilesAt(0, 1)>>)

concurrent_flushes_do_not_race ==
    Opened(<<Put(1)>>) \o <<<< <<Flush, Flush>>, <<Flush, Flush>> >>>>
      \o Alone(<<Get(1, 1), Drop, Open, Get(1, 1)>>)

get_during_flush_never_misses_committed_data ==
    Opened(<<Put(1)>>)
      \o <<<< <<Flush, Flush>>, <<Get(1, 1), Get(1, 1), Get(1, 1)>> >>>>
      \o Alone(<<Get(1, 1)>>)

orphan_sst_not_in_manifest_is_ignored ==
    Opened(<<Put(1), Flush, Drop, StrayTable, Open, Get(1, 1), StrayKept>>)

recovery_survives_repeated_reopen_without_flush ==
    Opened(<<Put(1), Drop, Open, Get(1, 1), Drop, Open, Get(1, 1)>>)

recovery_reappends_replayed_tombstone ==
    Opened(<<Put(1), Del(1), Drop, Open, Get(1, 0), Drop, Open, Get(1, 0)>>)

recovery_is_idempotent_across_reopens ==
    Opened(<<Put(1), Flush, Put(2), Flush, Drop, Open, Get(1, 1), Get(2, 2), Put(3),
             Flush, FilesAt(0, 3), Drop, Open, Get(1, 1), Get(2, 2), Get(3, 3),
             FilesAt(0, 3)>>)

tombstone_shadows_across_flush_generations ==
    Opened(<<Put(1), Flush, Del(1), Flush, Put(1), Flush, Get(1, 3), Del(1), Flush,
             Drop, Open, Get(1, 0)>>)

\* Three rounds over two keys: in round r the key i is deleted when 3 divides
\* r + i, and written otherwise.
many_small_flushes_recover ==
    LET write(r, i) == IF (r + i) % 3 = 0 THEN Del(i + 1) ELSE Put(i + 1)
        round(r) == <<write(r, 0), write(r, 1), Flush>>
    IN Opened(round(0) \o round(1) \o round(2)
                \o <<Drop, Open, FilesAt(0, 3), Get(1, 5), Get(2, 0)>>)

compact_merges_l0_to_l1 ==
    Opened(<<Put(1), Put(2), Flush, Put(1), Del(2), Put(3), Flush, Put(3), Flush,
             FilesAt(0, 3), Compact, FilesAt(0, 0), FilesAt(1, 1),
             Get(1, 3), Get(2, 0), Get(3, 6)>>)

\* The table of level 1 gets number 4: 1 and 2 are WALs, 3 the table of level 0.
compact_noop_when_no_l0 ==
    Opened(<<Compact, FilesAt(1, 0), Put(1), Flush, Compact, FilesAt(1, 1), Level1Is(4),
             Compact, Level1Is(4), Get(1, 1)>>)

compact_merge_with_existing_l1 ==
    Opened(<<Put(1), Put(2), Flush, Compact, Get(1, 1), Put(2), Put(3), Flush, Compact,
             Get(1, 1), Get(2, 3), Get(3, 4), FilesAt(0, 0), FilesAt(1, 1)>>)

compact_drops_final_tombstone ==
    Opened(<<Put(1), Flush, Del(1), Flush, Compact, Get(1, 0), Drop, Open, Get(1, 0)>>)

compact_empty_result_removes_all_files ==
    Opened(<<Put(1), Flush, Put(1), Del(1), Flush, Compact, Get(1, 0),
             FilesAt(1, 0), FilesAt(0, 0)>>)

compact_while_putting_no_crash ==
    Opened(<<Put(1), Flush>>)
      \o <<<< <<Put(2), Put(3), Put(2)>>, <<Compact, Compact>> >>>>
      \o Alone(<<Flush, Get(2, 4), Get(3, 3)>>)

recovery_across_compact_cycles ==
    Opened(<<Put(1), Flush, Compact, Drop, Open, Get(1, 1), Put(2), Flush, Compact,
             Drop, Open, Get(1, 1), Get(2, 2), FilesAt(0, 0), FilesAt(1, 1)>>)

ManualTests ==
    {put_get_delete_end_to_end, tombstone_shadows_flushed_data,
     flush_creates_sst_and_manifest, get_across_levels_newest_wins,
     recovery_from_wal_after_clean_drop, recovery_from_sst_after_flush,
     recovery_tombstone_persisted, open_fresh_dir_is_empty,
     flush_empty_engine_is_noop, manifest_missing_sst_file_errors,
     flush_is_idempotent, concurrent_flushes_do_not_race,
     get_during_flush_never_misses_committed_data,
     orphan_sst_not_in_manifest_is_ignored,
     recovery_survives_repeated_reopen_without_flush,
     recovery_reappends_replayed_tombstone, recovery_is_idempotent_across_reopens,
     tombstone_shadows_across_flush_generations, many_small_flushes_recover,
     compact_merges_l0_to_l1, compact_noop_when_no_l0, compact_merge_with_existing_l1,
     compact_drops_final_tombstone, compact_empty_result_removes_all_files,
     compact_while_putting_no_crash, recovery_across_compact_cycles}

-----------------------------------------------------------------------------
(* Tests of the background worker (small flush_threshold_bytes).           *)

auto_flush_produces_sst_without_explicit_flush ==
    Opened(<<Put(1), PutFull(2), Put(3), PutFull(4), Await(0, 1),
             Get(1, 1), Get(2, 2), Get(3, 3), Get(4, 4), Flush, Wals(1)>>)

background_worker_recovery_consistency ==
    Opened(<<Put(1), PutFull(2), Put(3), PutFull(4), Flush, Drop, SomeFiles(0), Open,
             Get(1, 1), Get(2, 2), Get(3, 3), Get(4, 4)>>)

recovery_multiple_wal_generations_applied_in_order ==
    Opened(<<PutFull(1), PutFull(2), PutFull(1), PutFull(3), Drop, Open,
             Get(1, 3), Get(2, 2), Get(3, 4)>>)

worker_drops_when_engine_dropped ==
    Opened(<<PutFull(1), PutFull(2), PutFull(3), Flush, Drop>>)

auto_compact_after_many_flushes ==
    Opened(<<PutFull(1), PutFull(2), PutFull(3), PutFull(4), Await(1, 1), Flush,
             Get(1, 1), Get(2, 2), Get(3, 3), Get(4, 4)>>)

\* compaction_l0_file_threshold is 0, 2 or the default of 4.  It stands at 3 here,
\* which the first two tests, where it is 0, do not reach.
WorkerTests ==
    {auto_flush_produces_sst_without_explicit_flush,
     background_worker_recovery_consistency,
     recovery_multiple_wal_generations_applied_in_order,
     worker_drops_when_engine_dropped, auto_compact_after_many_flushes}

-----------------------------------------------------------------------------
(* Running a test.                                                         *)

Threads == DOMAIN test[block]
ClientOf == <<"t1", "t2">>

ASSUME TestClients == Clients = {"t1", "t2"}

Unfinished(t) == at[t] < Len(test[block][t])
Current(t) == test[block][t][at[t] + 1]

\* The assertions, on the state in which the test makes them.
Holds(s) ==
    CASE s.do = "get" -> Value(Lookup(s.k)) = s.n
      [] s.do = "files" -> Cardinality(files[s.k]) = s.n
      [] s.do = "some_files" -> files[s.k] # {}
      [] s.do = "level1" -> files[1] = {s.n}
      [] s.do = "listed" -> Cardinality(manifest[0]) = s.n
      [] s.do = "wals" -> Cardinality(walFiles) = s.n
      [] s.do = "open_fails" -> ~ ManifestOnDisk
      [] s.do = "stray_kept" -> MaxSeq \in files[0]

Advance(t) == at' = [at EXCEPT ![t] = @ + 1] /\ UNCHANGED busy

Asserts(t) ==
    /\ Current(t).do \in {"get", "files", "some_files", "level1", "listed", "wals",
                          "open_fails", "stray_kept"}
    /\ failed' = (failed \/ ~ Holds(Current(t)))
    /\ Advance(t)
    /\ UNCHANGED vars

\* Steps that do not call the engine, or call it without effect.
Passes(t) ==
    /\ \/ /\ Current(t).do = "await" /\ Cardinality(files[Current(t).k]) >= Current(t).n
          /\ UNCHANGED vars
       \/ /\ Current(t).do = "compact" /\ fl.pc = "free" /\ levels[0] = {}
          /\ UNCHANGED vars
       \/ /\ Current(t).do = "remove_table"
          /\ files' = [files EXCEPT ![0] = @ \ manifest[0]]
          /\ UNCHANGED <<walVars, sst, manifest, mode, mem, active, imms, levels, nextSeq,
                         stale, wr, fl, wk, signals, calls, ghosts>>
       \/ /\ Current(t).do = "stray_table"
          /\ files' = [files EXCEPT ![0] = @ \cup {MaxSeq}]
          /\ UNCHANGED <<walVars, sst, manifest, mode, mem, active, imms, levels, nextSeq,
                         stale, wr, fl, wk, signals, calls, ghosts>>
       \/ Current(t).do = "drop" /\ Close
    /\ Advance(t)
    /\ UNCHANGED failed

\* Calls that take several steps of the engine.
Calls(t) ==
    /\ LET s == Current(t)
       IN \/ s.do \in {"put", "put_full"} /\ Write(s.k, FALSE)
          \/ s.do = "delete" /\ Write(s.k, TRUE)
          \/ s.do = "flush" /\ FlushSync(ClientOf[t])
          \/ s.do = "compact" /\ CompactBuild(ClientOf[t])
          \/ s.do = "open" /\ Recover
    /\ busy' = [busy EXCEPT ![t] = Current(t).do]
    /\ UNCHANGED <<at, failed>>

\* The call that thread t is in has returned.
Returned(t) ==
    \/ busy[t] \in {"put", "put_full", "delete"} /\ wr.pc = "free"
    \/ busy[t] \in {"flush", "compact"} /\ calls[ClientOf[t]] = "idle"
    \/ busy[t] = "open" /\ mode = "up"

Return(t) ==
    /\ Returned(t)
    /\ busy' = [busy EXCEPT ![t] = ""]
    /\ at' = [at EXCEPT ![t] = @ + 1]
    /\ UNCHANGED <<vars, failed>>

\* What the engine does by itself; whether a put freezes is the test's choice.
Engine ==
    /\ \/ Apply(\E t \in Threads : busy[t] = "put_full") \/ Rotate \/ Swap
       \/ \E p \in Clients \cup {"worker"} : FlushBegin(p)
       \/ FlushBuild \/ FlushCommit \/ FlushNothing \/ FlushManifest
       \/ FlushUnlink \/ FlushReturn
       \/ Worker
       \/ CompactBuild("worker") \/ CompactNothing \/ CompactCommit \/ CompactManifest
       \/ (\E l \in Levels : CompactUnlink(l)) \/ CompactReturn
       \/ Reback \/ CleanOld
    /\ UNCHANGED <<at, busy, failed>>

NextBlock ==
    /\ block < Len(test) /\ \A t \in Threads : ~ Unfinished(t)
    /\ block' = block + 1
    /\ at' = [t \in 1 .. 2 |-> 0]
    /\ UNCHANGED <<vars, test, busy, failed>>

TestInit ==
    /\ Init /\ test \in Tests /\ block = 1
    /\ at = [t \in 1 .. 2 |-> 0] /\ busy = [t \in 1 .. 2 |-> ""] /\ failed = FALSE

TestNext ==
    \/ /\ \/ Engine
          \/ \E t \in Threads :
               \/ busy[t] = "" /\ Unfinished(t) /\ (Asserts(t) \/ Passes(t) \/ Calls(t))
               \/ Return(t)
       /\ UNCHANGED <<test, block>>
    \/ NextBlock

\* Some thread that can go on does.
TestSpec == TestInit /\ [][TestNext]_testVars /\ WF_testVars(TestNext)

-----------------------------------------------------------------------------
(* Properties.                                                             *)

\* Every assertion of every test holds, however the worker and the threads of the
\* test interleave while the engine is in use.  (A drop waits until the worker is idle;
\* a worker that outlives it is LsmReopen's.)
AssertionsHold == ~ failed

\* Every test comes to its end: no call blocks for ever, and what a test polls
\* for (a flush or a compaction by the worker) happens.
TestsEnd == <>(block = Len(test) /\ \A t \in Threads : ~ Unfinished(t))
=============================================================================
