------------------------------- MODULE KVStore -------------------------------
(***************************************************************************)
(* What the engine promises its clients, without MemTables, logs, tables   *)
(* or threads: a map that is the outcome of a sequence of writes.  A stop  *)
(* may lose a suffix of that sequence, never a write that was promised to  *)
(* be durable, and may or may not include the write then under way.        *)
(***************************************************************************)
EXTENDS Integers, Sequences, FiniteSetsExt

CONSTANTS
    Keys,  \* the keys
    Ids    \* names of writes, ascending; 0 names none

VARIABLES
    serving,   \* the store answers
    store,     \* what it answers: the write that gave each key its value, or 0
    log,       \* the writes that took effect, in order: [key, del, id]
    pending,   \* the write under way, if there is one
    promised   \* how many writes of the log can no longer be lost

kvVars == <<serving, store, log, pending, promised>>

\* The map that a sequence of writes leaves.
View(writes) ==
    [k \in Keys |->
       LET at == {i \in DOMAIN writes : writes[i].key = k}
       IN IF at = {} THEN 0
          ELSE IF writes[Max(at)].del THEN 0 ELSE writes[Max(at)].id]

Init ==
    /\ serving = FALSE /\ store = View(<< >>)
    /\ log = << >> /\ pending = << >> /\ promised = 0

Begin ==
    /\ serving /\ pending = << >>
    /\ \E k \in Keys, del \in BOOLEAN, id \in Ids \ {0} :
         pending' = <<[key |-> k, del |-> del, id |-> id]>>
    /\ UNCHANGED <<serving, store, log, promised>>

TakeEffect ==
    /\ serving /\ pending # << >>
    /\ log' = log \o pending
    /\ store' = View(log')
    /\ pending' = << >>
    /\ promised' \in {promised, Len(log')}
    /\ UNCHANGED serving

Promise ==
    /\ serving
    /\ promised' \in (promised + 1) .. Len(log)
    /\ UNCHANGED <<serving, store, log, pending>>

Stop ==
    /\ serving' = FALSE /\ pending' = << >>
    /\ \E n \in promised .. (Len(log) + Len(pending)) :
         log' = SubSeq(log \o pending, 1, n)
    /\ store' = View(log')
    /\ UNCHANGED promised

Start ==
    /\ ~ serving /\ serving' = TRUE
    /\ UNCHANGED <<store, log, pending, promised>>

Next == Begin \/ TakeEffect \/ Promise \/ Stop \/ Start

Spec == Init /\ [][Next]_kvVars
=============================================================================
