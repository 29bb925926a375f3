----------------------------- MODULE MCMergeRuns -----------------------------
(***************************************************************************)
(* Bounded inputs for MergeRuns: up to MaxRuns runs over the keys 1 ..     *)
(* MaxKey, each key absent, live or deleted in each run, file numbers in   *)
(* every order.                                                            *)
(***************************************************************************)
EXTENDS MergeRuns, SequencesExt

CONSTANTS MaxRuns, MaxKey

\* The run numbered s with the given kind of record for each key.
RunOf(s, kind) ==
    LET keys == {k \in 1 .. MaxKey : kind[k] # "absent"}
        at   == SetToSortSeq(keys, LAMBDA a, b : a < b)
    IN [seq |-> s,
        records |-> [n \in 1 .. Len(at) |->
                       [key |-> at[n], from |-> s, del |-> kind[at[n]] = "del"]]]

Contents == [1 .. MaxKey -> {"absent", "put", "del"}]

Numberings(n) == {p \in [1 .. n -> 1 .. n] : \A i, j \in 1 .. n : p[i] = p[j] => i = j}

MCInputs ==
    UNION {{[i \in 1 .. n |-> RunOf(p[i], kinds[i])] :
              p \in Numberings(n), kinds \in [1 .. n -> Contents]} : n \in 0 .. MaxRuns}
=============================================================================
