------------------------------ MODULE MergeRuns ------------------------------
(***************************************************************************)
(* merge_runs of src/src/compaction/leveled.rs: the k-way merge at the     *)
(* heart of compaction, one iteration of its loop per step.                *)
(*                                                                         *)
(* A record keeps its key, its tombstone flag and the number of the table  *)
(* it comes from, which stands for its value.  The reference the result is *)
(* compared with is the one LsmEngine uses for a compaction (Winner and    *)
(* Merged): the record of the highest-numbered run, unless a tombstone.    *)
(***************************************************************************)
EXTENDS Integers, Sequences, FiniteSetsExt

CONSTANTS
    Inputs,  \* the slices of runs that the merge is called with
    MaxSeq   \* the largest file number, a u64

ASSUME MaxSeqAssumption == MaxSeq \in Nat

SeqNo == 0 .. MaxSeq

Record == [key : Nat, from : SeqNo, del : BOOLEAN]

Run == [seq : SeqNo, records : Seq(Record)]

\* SsTableReader::records yields strictly ascending keys; file numbers are
\* unique (the debug_assert of merge_runs).
Valid(rs) ==
    /\ rs \in Seq(Run)
    /\ \A i, j \in DOMAIN rs : rs[i].seq = rs[j].seq => i = j
    /\ \A i \in DOMAIN rs : \A m, n \in DOMAIN rs[i].records :
         m < n => rs[i].records[m].key < rs[i].records[n].key
    /\ \A i \in DOMAIN rs : \A n \in DOMAIN rs[i].records :
         rs[i].records[n].from = rs[i].seq

ASSUME InputsAssumption == \A rs \in Inputs : Valid(rs)

VARIABLES
    runs,    \* the argument
    cursor,  \* cursor[i]: the next record of run i, counted from 1
    out,     \* the merged records so far
    done     \* the loop has ended

vars == <<runs, cursor, out, done>>

-----------------------------------------------------------------------------
\* The runs that still have records.
Live == {i \in DOMAIN runs : cursor[i] <= Len(runs[i].records)}

Current(i) == runs[i].records[cursor[i]]

\* Smallest current key among them.
MinKey == Min({Current(i).key : i \in Live})

\* The runs that consume it now.
Matching == {i \in Live : Current(i).key = MinKey}

\* Seeded defect: the last run in the slice wins.
LastWins == Current(Max(Matching))

\* The record of the highest-numbered run among them.
Winner ==
    Current(CHOOSE i \in Matching : \A j \in Matching : runs[j].seq <= runs[i].seq)

\* Seeded defect: a tombstone is kept in place.
StuckOnTombstone ==
    [i \in DOMAIN runs |->
       IF i \in Matching /\ ~ Winner.del THEN cursor[i] + 1 ELSE cursor[i]]

\* Seeded defect: only the winning run steps over the key.
OnlyWinnerAdvanced ==
    [i \in DOMAIN runs |->
       IF i \in Matching /\ Current(i) = Winner THEN cursor[i] + 1 ELSE cursor[i]]

\* Every run whose current key is the smallest steps over it.
Advanced ==
    [i \in DOMAIN runs |-> IF i \in Matching THEN cursor[i] + 1 ELSE cursor[i]]

\* One iteration: the smallest key is consumed and its winner emitted unless it
\* is a tombstone.
Emit ==
    /\ ~ done /\ Live # {}
    /\ cursor' = Advanced
    /\ out' = IF Winner.del THEN out ELSE Append(out, Winner)
    /\ UNCHANGED <<runs, done>>

\* No run has records left.
Finish ==
    /\ ~ done /\ Live = {}
    /\ done' = TRUE
    /\ UNCHANGED <<runs, cursor, out>>

Init ==
    /\ runs \in Inputs
    /\ cursor = [i \in DOMAIN runs |-> 1]
    /\ out = << >>
    /\ done = FALSE

Next == Emit \/ Finish

Spec == Init /\ [][Next]_vars

FairSpec == Spec /\ WF_vars(Next)

-----------------------------------------------------------------------------
(* The reference: records as a set, newest by table number.                *)

Records == UNION {{runs[i].records[n] : n \in DOMAIN runs[i].records} :
                     i \in DOMAIN runs}

\* The records that a reader of the runs, newest first, would find and that are
\* not tombstones.
Survivors ==
    {r \in Records : ~ r.del /\ \A q \in Records : q.key = r.key => q.from <= r.from}

\* Records whose run has stepped over them.
Consumed == UNION {{runs[i].records[n] : n \in 1 .. (cursor[i] - 1)} :
                      i \in DOMAIN runs}

\* The loop invariant: what is consumed lies below everything that is not, and
\* the output holds exactly the survivors consumed, in strictly ascending key
\* order (merge_runs, the loop).
MergePrefix ==
    /\ \A r \in Consumed : \A i \in Live : r.key < Current(i).key
    /\ {out[n] : n \in DOMAIN out} = Survivors \cap Consumed
    /\ \A m, n \in DOMAIN out : m < n => out[m].key < out[n].key

\* The result holds every surviving record once, in ascending key order, and no
\* tombstone or outdated record, whatever the order of the runs in the slice.
MergeIsNewest ==
    done => /\ {out[n] : n \in DOMAIN out} = Survivors
            /\ \A m, n \in DOMAIN out : m < n => out[m].key < out[n].key

\* The loop ends: every iteration steps over at least one record.
MergeEnds == <> done
=============================================================================
