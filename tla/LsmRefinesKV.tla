----------------------------- MODULE LsmRefinesKV -----------------------------
(***************************************************************************)
(* The engine implements KVStore, as long as only its process dies.  The   *)
(* store is what get answers, or, while the engine is not up, what an      *)
(* engine opened on the directory would answer.  History variables record  *)
(* the order in which writes took effect and how many were promised.       *)
(***************************************************************************)
EXTENDS LsmEngine

VARIABLES
    hist,      \* the writes that took effect, in order
    marks,     \* marks[c]: Len(hist) when the flush() of client c synced the WAL
    promised   \* the length of hist that flush() or a synced put has promised

refVars == <<vars, hist, marks, promised>>

Op(w) == [key |-> ops[w].key, del |-> ops[w].del, id |-> w]
OpsOf(writes) == [i \in DOMAIN writes |-> Op(writes[i])]
Underway == IF wr.pc = "apply" THEN <<wr.w>> ELSE << >>

KV == INSTANCE KVStore WITH
        serving <- mode = "up",
        store <- [k \in Keys |-> Value(IF mode = "up" THEN Lookup(k) ELSE Recovered(k))],
        log <- OpsOf(hist),
        pending <- OpsOf(Underway)

\* The longest prefix of writes that gives the answers of an engine opened on the
\* directory: what a crash has left of them.
Accounted(writes, answers) ==
    LET fits == {n \in 0 .. Len(writes) :
                   KV!View(OpsOf(SubSeq(writes, 1, n))) = answers}
    IN SubSeq(writes, 1, Max(fits \cup {0}))

RefInit ==
    /\ Init
    /\ hist = << >> /\ marks = [c \in Clients |-> 0] /\ promised = 0

RefNext ==
    /\ Next
    /\ IF mode' = "down"
       THEN \E answers \in {[k \in Keys |-> Value(Recovered(k)')]} :
              hist' = Accounted(hist \o Underway, answers)
       ELSE hist' = IF wr.pc = "apply" /\ wr'.pc # "apply" THEN hist \o Underway ELSE hist
    /\ marks' = [c \in Clients |-> IF calls[c] = "idle" /\ calls'[c] # "idle"
                                   THEN Len(hist) ELSE marks[c]]
    /\ promised' = IF fl.pc = "ok" /\ fl'.pc = "free" /\ fl.by \in Clients /\ mode' = "up"
                   THEN Max({promised, marks[fl.by]})
                   ELSE IF SyncPerWrite /\ acked' # acked THEN Len(hist')
                   ELSE promised

RefSpec == RefInit /\ [][RefNext]_refVars

\* Every behaviour of the engine is one of the store: put and delete take effect
\* one at a time and at once, freezes, flushes, compactions and recoveries change
\* no answer, and the end of the process loses at most a suffix of the writes,
\* none of them covered by a flush() or a synced put that returned Ok.
RefinesKVStore == KV!Spec
=============================================================================
