--------------------------- MODULE LsmDirCrashInv ---------------------------
(***************************************************************************)
(* The invariants behind OpenSurvivesUndo and AcknowledgedKept: what every *)
(* directory that a power failure may bring back has in common with the    *)
(* one of the moment.  DirInv needs nothing else; SecureInv is about       *)
(* sync_per_write, without the faults that NoLosingFaults excludes.        *)
(***************************************************************************)
EXTENDS LsmDirCrash, LsmDurabilityInv

Directories ==
    [wals : SUBSET Seqs, files : [Levels -> SUBSET Seqs], manifest : [Levels -> SUBSET Seqs]]

\* open finds every table the MANIFEST lists, and level 1 is older than level 0.
Openable(d) ==
    /\ \A l \in Levels : d.manifest[l] \subseteq d.files[l]
    /\ \A s \in d.manifest[0], t \in d.manifest[1] : t < s

\* Each directory since the last fsync is one that open accepts, and the files it may
\* bring back hold writes that have been issued (write_manifest before the first
\* remove_file, rename after sync_all).
DirInv ==
    /\ past \in Seq({d \in Directories : Openable(d)})
    /\ logs \in [Seqs -> [log : Seq(1 .. Len(ops)), synced : Nat]]
    /\ tabs \in [Levels -> [Seqs -> [Keys -> 0 .. Len(ops)]]]

-----------------------------------------------------------------------------
(* What a directory d since the last fsync would keep.                     *)

PastEntries(g, k) == {i \in 1 .. Len(logs[g].log) : ops[logs[g].log[i]].key = k}

\* As SafeHit, HasOlder, FromTables and DiskKeeps of LsmDurabilityInv.
PastSafeHit(g, k, e) ==
    \E i \in PastEntries(g, k) : i <= logs[g].synced /\ logs[g].log[i] >= e

PastHasOlder(g, k, e) == \E i \in PastEntries(g, k) : logs[g].log[i] < e

PastTables(d, k) ==
    OrElse(NewestHit(d.manifest[0], tabs[0], k), NewestHit(d.manifest[1], tabs[1], k))

PastKeeps(d, k, e) ==
    /\ \A g \in d.wals : PastHasOlder(g, k, e) =>
         \E h \in d.wals : g <= h /\ PastSafeHit(h, k, e)
    /\ (\A g \in d.wals : ~ PastSafeHit(g, k, e)) => Fresh(k, PastTables(d, k), e)

\* A power failure now, or any other stop, leaves write e of k, or a newer one, ...
KeptNow(k, e) ==
    /\ DiskKeeps("power", k, e)
    /\ mode = "reback" => ~ HasOlder(active, k, e)
    /\ mode \in {"clean", "up"} => LiveKeeps("power", k, e)

\* ... also if it undoes changes of the directory.
Secure(k, e) == KeptNow(k, e) /\ \A d \in Range(past) : PastKeeps(d, k, e)

-----------------------------------------------------------------------------
\* What was on disk under a name that exists is what is there.  A log keeps the
\* order of a key's writes, and numbers of WALs are not used again.
Mirrored ==
    /\ \A g \in walFiles : logs[g] = [log |-> wlog[g], synced |-> wsync[g]]
    /\ \A l \in Levels : \A s \in files[l] : tabs[l][s] = sst[l][s]
    /\ \A g \in Seqs : \A i, j \in 1 .. Len(logs[g].log) :
         i < j /\ ops[logs[g].log[i]].key = ops[logs[g].log[j]].key
           => logs[g].log[i] < logs[g].log[j]
    /\ \A d \in Range(past) : \A g \in d.wals : \E h \in walFiles : g <= h

\* The fsync of a put has made the WAL it is in part of every such directory.
PutFsynced == wr.pc = "apply" => \A d \in Range(past) : active \in d.wals

\* The fsync of the generation that open has created is still to come.
RebackUnsynced == mode = "reback" => wsync[active] = 0

\* No answer is newer than what was applied, and open gives exactly what it found.
AnswersApplied ==
    mode # "down" => \A k \in Keys :
      /\ \A g \in LiveGens : mem[g][k] <= kv[k]
      /\ FromTables(levels, k) <= kv[k] /\ FromTables(manifest, k) <= kv[k]
      /\ mode = "reback" => kv[k] = OrElse(mem[active][k], FromTables(manifest, k))
      /\ \A c \in Clients : calls[c] \in {"sync", "drain"} => snap[c][k] <= kv[k]
      /\ wr.pc \in {"rotate", "swap"} /\ wr.by = "put" /\ ops[wr.w].key = k => kv[k] = wr.w

\* What must not be lost: what is promised, what the tables say, and what was applied.
Due(k) == {durable[k], closed[k], FromTables(manifest, k)}
          \cup (IF mode \in {"clean", "up"} THEN {kv[k]} ELSE {})

\* All of that is secure, and each such directory keeps what its own tables say.
PromisesSecure ==
    \A k \in Keys :
      /\ \A e \in Due(k) : Secure(k, e)
      /\ \A d \in Range(past) : \A e \in {PastTables(d, k)} : PastKeeps(d, k, e)

SecureInv ==
    Mirrored /\ PutFsynced /\ RebackUnsynced /\ AnswersApplied /\ PromisesSecure
=============================================================================
