---------------------------- MODULE MergeRunsProofs ----------------------------
(***************************************************************************)
(* merge_runs keeps its loop invariant and returns the newest record of    *)
(* every key that is not deleted, for any number of runs, records and keys *)
(* and any order of the runs in the slice.                                 *)
(***************************************************************************)
EXTENDS MergeRuns, WellFoundedInduction, TLAPS

\* What the loop reads stays what it was called with, and no cursor leaves its run.
MergeTypes ==
    /\ Valid(runs)
    /\ cursor \in [DOMAIN runs -> Nat]
    /\ \A i \in DOMAIN runs : 1 <= cursor[i] /\ cursor[i] <= Len(runs[i].records) + 1
    /\ out \in Seq(Record)
    /\ done => Live = {}

-----------------------------------------------------------------------------
(* Smallest keys and largest numbers.                                      *)

\* The order of the naturals as a relation.
NatOrder == {p \in Nat \X Nat : p[1] < p[2]}

\* A non-empty set of naturals has a smallest element.
LEMMA SmallestNat ==
    ASSUME NEW S, S \subseteq Nat, S # {}
    PROVE  \E m \in S : \A x \in S : m <= x
<1>1. IsWellFoundedOn(NatOrder, Nat)
  BY NatLessThanWellFounded DEF OpToRel, NatOrder
<1>2. PICK m \in S : \A y \in S : ~ (<<y, m>> \in NatOrder)
  BY <1>1, WFMin, Zenon
<1>3. ASSUME NEW y \in S PROVE m <= y
  <2>1. m \in Nat /\ y \in Nat
    OBVIOUS
  <2>2. y < m => <<y, m>> \in NatOrder
    BY <2>1 DEF NatOrder
  <2>3. QED
    BY <1>2, <2>1, <2>2
<1>4. QED
  BY <1>3

\* The records of the runs have their types.
LEMMA RecordTypes ==
    ASSUME MergeTypes
    PROVE  \A i \in DOMAIN runs :
             /\ runs[i].seq \in SeqNo /\ Len(runs[i].records) \in Nat
             /\ DOMAIN runs[i].records = 1 .. Len(runs[i].records)
             /\ \A n \in 1 .. Len(runs[i].records) :
                  /\ runs[i].records[n] \in Record
                  /\ runs[i].records[n].key \in Nat
                  /\ runs[i].records[n].from = runs[i].seq
             /\ \A m, n \in 1 .. Len(runs[i].records) :
                  m < n => runs[i].records[m].key < runs[i].records[n].key
<1>1. SUFFICES ASSUME NEW i \in DOMAIN runs
               PROVE  /\ runs[i].seq \in SeqNo /\ Len(runs[i].records) \in Nat
                      /\ DOMAIN runs[i].records = 1 .. Len(runs[i].records)
                      /\ \A n \in 1 .. Len(runs[i].records) :
                           /\ runs[i].records[n] \in Record
                           /\ runs[i].records[n].key \in Nat
                           /\ runs[i].records[n].from = runs[i].seq
                      /\ \A m, n \in 1 .. Len(runs[i].records) :
                           m < n => runs[i].records[m].key < runs[i].records[n].key
  OBVIOUS
<1>2. runs[i] \in Run
  BY DEF MergeTypes, Valid
<1>3. runs[i].seq \in SeqNo /\ runs[i].records \in Seq(Record)
  BY <1>2 DEF Run
<1>4. Len(runs[i].records) \in Nat /\ DOMAIN runs[i].records = 1 .. Len(runs[i].records)
  BY <1>3
<1>5. \A n \in 1 .. Len(runs[i].records) : runs[i].records[n] \in Record
  BY <1>3
<1>6. \A n \in 1 .. Len(runs[i].records) : runs[i].records[n].key \in Nat
  BY <1>5 DEF Record
<1>7. QED
  BY <1>3, <1>4, <1>5, <1>6 DEF MergeTypes, Valid

\* A run that is live has a current record.
LEMMA CurrentTypes ==
    ASSUME MergeTypes, NEW i \in Live
    PROVE  /\ i \in DOMAIN runs /\ cursor[i] \in 1 .. Len(runs[i].records)
           /\ Current(i) \in Record /\ Current(i).key \in Nat
           /\ Current(i).from = runs[i].seq
<1>1. i \in DOMAIN runs /\ cursor[i] \in Nat /\ 1 <= cursor[i]
      /\ cursor[i] <= Len(runs[i].records)
  BY DEF Live, MergeTypes
<1>2. Len(runs[i].records) \in Nat
  BY <1>1, RecordTypes
<1>3. cursor[i] \in 1 .. Len(runs[i].records)
  BY <1>1, <1>2
<1>4. QED
  BY <1>1, <1>3, RecordTypes DEF Current

\* The smallest current key.
LEMMA MinKeyIs ==
    ASSUME MergeTypes, Live # {}
    PROVE  /\ MinKey \in Nat /\ \E i \in Live : Current(i).key = MinKey
           /\ \A i \in Live : MinKey <= Current(i).key
<1>1. PICK S : S = {Current(i).key : i \in Live}
  OBVIOUS
<1>2. S \subseteq Nat /\ S # {}
  BY <1>1, CurrentTypes
<1>3. \E m \in S : \A x \in S : m <= x
  BY <1>2, SmallestNat
<1>4. Min(S) \in S /\ \A x \in S : Min(S) <= x
  BY <1>3 DEF Min
<1>5. MinKey = Min(S)
  BY <1>1 DEF MinKey
<1>6. QED
  BY <1>1, <1>2, <1>4, <1>5

\* The record that wins comes from the matching run with the highest number.
LEMMA WinnerIs ==
    ASSUME MergeTypes, Live # {}
    PROVE  \E i \in Matching : Winner = Current(i) /\ \A j \in Matching : runs[j].seq <= runs[i].seq
<1>1. Matching # {} /\ \A i \in Matching : i \in Live /\ i \in DOMAIN runs
  BY MinKeyIs DEF Matching, Live
<1>2. \A i \in Matching : runs[i].seq \in 0 .. MaxSeq
  BY <1>1, RecordTypes DEF SeqNo
<1>3. PICK S : S = {MaxSeq - runs[i].seq : i \in Matching}
  OBVIOUS
<1>4. S \subseteq Nat /\ S # {}
  <2>1. \A x \in 0 .. MaxSeq : MaxSeq - x \in Nat
    BY MaxSeqAssumption
  <2>2. QED
    BY <1>1, <1>2, <1>3, <2>1
<1>5. PICK m \in S : \A x \in S : m <= x
  BY <1>4, SmallestNat
<1>6. PICK i \in Matching : m = MaxSeq - runs[i].seq
  BY <1>3
<1>7. ASSUME NEW j \in Matching PROVE runs[j].seq <= runs[i].seq
  <2>1. MaxSeq - runs[i].seq <= MaxSeq - runs[j].seq
    BY <1>3, <1>5, <1>6
  <2>2. runs[i].seq \in 0 .. MaxSeq /\ runs[j].seq \in 0 .. MaxSeq
    BY <1>2
  <2>3. QED
    BY <2>1, <2>2, MaxSeqAssumption
<1>8. \E a \in Matching : \A j \in Matching : runs[j].seq <= runs[a].seq
  BY <1>7
<1>9. QED
  BY <1>8 DEF Winner

-----------------------------------------------------------------------------
(* One iteration of the loop.                                              *)

\* The cursors after it.
LEMMA CursorSteps ==
    ASSUME MergeTypes, Emit
    PROVE  /\ runs' = runs /\ DOMAIN cursor' = DOMAIN runs
           /\ \A i \in DOMAIN runs :
                cursor'[i] = IF i \in Matching THEN cursor[i] + 1 ELSE cursor[i]
           /\ Matching \subseteq Live /\ Live \subseteq DOMAIN runs
  BY DEF Emit, Advanced, Matching, Live

LEMMA MergeTypesNext == ASSUME MergeTypes, [Next]_vars PROVE MergeTypes'
<1>1. CASE Emit
  <2>1. /\ runs' = runs /\ DOMAIN cursor' = DOMAIN runs
        /\ \A i \in DOMAIN runs :
             cursor'[i] = IF i \in Matching THEN cursor[i] + 1 ELSE cursor[i]
        /\ Matching \subseteq Live /\ Live \subseteq DOMAIN runs
    BY <1>1, CursorSteps
  <2>2. cursor' = [i \in DOMAIN runs |-> cursor'[i]]
    BY <1>1 DEF Emit, Advanced
  <2>3. ASSUME NEW i \in DOMAIN runs
        PROVE  /\ cursor'[i] \in Nat /\ 1 <= cursor'[i]
               /\ cursor'[i] <= Len(runs[i].records) + 1
    <3>1. /\ cursor[i] \in Nat /\ 1 <= cursor[i] /\ cursor[i] <= Len(runs[i].records) + 1
          /\ Len(runs[i].records) \in Nat
      BY RecordTypes DEF MergeTypes
    <3>2. i \in Matching => cursor[i] <= Len(runs[i].records)
      BY <2>1 DEF Live
    <3>3. QED
      BY <2>1, <3>1, <3>2
  <2>4. cursor' \in [DOMAIN runs -> Nat]
    BY <2>2, <2>3
  <2>5. out' \in Seq(Record)
    <3>1. Live # {}
      BY <1>1 DEF Emit
    <3>2. Winner \in Record
      BY <2>1, <3>1, WinnerIs, CurrentTypes
    <3>3. out' = out \/ out' = Append(out, Winner)
      BY <1>1 DEF Emit
    <3>4. QED
      BY <3>2, <3>3 DEF MergeTypes
  <2>6. ~ done'
    BY <1>1 DEF Emit
  <2>7. QED
    BY <2>1, <2>3, <2>4, <2>5, <2>6 DEF MergeTypes
<1>2. CASE Finish
  BY <1>2 DEF Finish, MergeTypes, Live
<1>3. CASE UNCHANGED vars
  BY <1>3 DEF vars, MergeTypes, Live
<1>4. QED
  BY <1>1, <1>2, <1>3 DEF Next

\* An iteration consumes the matching records.
LEMMA ConsumedSteps ==
    ASSUME MergeTypes, Emit
    PROVE  Consumed' = Consumed \cup {Current(i) : i \in Matching}
<1>0. /\ runs' = runs
      /\ \A i \in DOMAIN runs :
           cursor'[i] = IF i \in Matching THEN cursor[i] + 1 ELSE cursor[i]
      /\ Matching \subseteq Live /\ Live \subseteq DOMAIN runs
  BY CursorSteps
<1>1. \A i \in DOMAIN runs : cursor[i] \in Nat /\ 1 <= cursor[i]
  BY DEF MergeTypes
<1>2. \A r : r \in Consumed' <=> \E i \in DOMAIN runs : \E n \in 1 .. (cursor'[i] - 1) : r = runs[i].records[n]
  BY <1>0 DEF Consumed
<1>3. \A r : r \in Consumed <=> \E i \in DOMAIN runs : \E n \in 1 .. (cursor[i] - 1) : r = runs[i].records[n]
  BY DEF Consumed
<1>4. ASSUME NEW r \in Consumed' PROVE r \in Consumed \cup {Current(i) : i \in Matching}
  <2>1. PICK i \in DOMAIN runs : \E n \in 1 .. (cursor'[i] - 1) : r = runs[i].records[n]
    BY <1>2
  <2>2. PICK n \in 1 .. (cursor'[i] - 1) : r = runs[i].records[n]
    BY <2>1
  <2>3. n \in 1 .. (cursor[i] - 1) \/ (i \in Matching /\ n = cursor[i])
    BY <1>0, <1>1
  <2>4. QED
    BY <1>3, <2>2, <2>3 DEF Current
<1>5. ASSUME NEW r \in Consumed PROVE r \in Consumed'
  <2>1. PICK i \in DOMAIN runs : \E n \in 1 .. (cursor[i] - 1) : r = runs[i].records[n]
    BY <1>3
  <2>2. PICK n \in 1 .. (cursor[i] - 1) : r = runs[i].records[n]
    BY <2>1
  <2>3. n \in 1 .. (cursor'[i] - 1)
    BY <1>0, <1>1
  <2>4. QED
    BY <1>2, <2>2, <2>3
<1>6. ASSUME NEW i \in Matching PROVE Current(i) \in Consumed'
  <2>1. i \in DOMAIN runs /\ cursor[i] \in 1 .. (cursor'[i] - 1)
    BY <1>0, <1>1
  <2>2. QED
    BY <1>2, <2>1 DEF Current
<1>7. QED
  BY <1>4, <1>5, <1>6

\* What is current afterwards lies above the key it was about.
LEMMA CurrentSteps ==
    ASSUME MergeTypes, Emit, NEW j \in Live'
    PROVE  /\ j \in Live /\ Current(j)'.key \in Nat
           /\ Current(j).key <= Current(j)'.key /\ MinKey < Current(j)'.key
<1>0. /\ runs' = runs
      /\ \A i \in DOMAIN runs :
           cursor'[i] = IF i \in Matching THEN cursor[i] + 1 ELSE cursor[i]
      /\ Matching \subseteq Live /\ Live \subseteq DOMAIN runs
  BY CursorSteps
<1>1. j \in DOMAIN runs /\ cursor'[j] <= Len(runs[j].records)
  BY <1>0 DEF Live
<1>2. cursor[j] \in Nat /\ 1 <= cursor[j] /\ Len(runs[j].records) \in Nat
  BY <1>1, RecordTypes DEF MergeTypes
<1>3. cursor[j] <= Len(runs[j].records)
  BY <1>0, <1>1, <1>2
<1>4. j \in Live
  BY <1>1, <1>3 DEF Live
<1>5. MinKey \in Nat /\ MinKey <= Current(j).key /\ Current(j).key \in Nat
  BY <1>4, MinKeyIs, CurrentTypes
<1>6. Current(j)' = runs[j].records[cursor'[j]]
  BY <1>0 DEF Current
<1>7. CASE j \in Matching
  <2>1. cursor'[j] = cursor[j] + 1 /\ Current(j).key = MinKey
    BY <1>0, <1>1, <1>7 DEF Matching
  <2>2. /\ cursor[j] \in 1 .. Len(runs[j].records) /\ cursor'[j] \in 1 .. Len(runs[j].records)
        /\ cursor[j] < cursor'[j]
    BY <1>1, <1>2, <1>3, <2>1
  <2>3. /\ runs[j].records[cursor[j]].key < runs[j].records[cursor'[j]].key
        /\ runs[j].records[cursor'[j]].key \in Nat
    BY <1>1, <2>2, RecordTypes
  <2>4. Current(j).key < Current(j)'.key /\ Current(j)'.key \in Nat
    BY <1>6, <2>3 DEF Current
  <2>5. QED
    BY <1>4, <1>5, <2>1, <2>4
<1>8. CASE j \notin Matching
  <2>1. Current(j)' = Current(j)
    BY <1>0, <1>1, <1>6, <1>8 DEF Current
  <2>2. Current(j).key # MinKey
    BY <1>4, <1>8 DEF Matching
  <2>3. MinKey < Current(j).key
    BY <1>5, <2>2
  <2>4. QED
    BY <1>4, <1>5, <2>1, <2>3
<1>9. QED
  BY <1>7, <1>8

\* Of the matching records the winner is the only one that may survive, and it does
\* unless it is a tombstone.
LEMMA WinnerSurvives ==
    ASSUME MergeTypes, MergePrefix, Live # {}
    PROVE  /\ Winner \in {Current(i) : i \in Matching}
           /\ Winner.key = MinKey
           /\ Survivors \cap {Current(i) : i \in Matching} = IF Winner.del THEN {} ELSE {Winner}
<1>1. PICK i \in Matching : Winner = Current(i) /\ \A j \in Matching : runs[j].seq <= runs[i].seq
  BY WinnerIs
<1>2. i \in Live /\ Winner.key = MinKey
  BY <1>1 DEF Matching
<1>3. \A j \in Live : Current(j) \in Records
  <2>1. SUFFICES ASSUME NEW j \in Live PROVE Current(j) \in Records
    OBVIOUS
  <2>2. j \in DOMAIN runs /\ cursor[j] \in 1 .. Len(runs[j].records)
    BY CurrentTypes
  <2>3. cursor[j] \in DOMAIN runs[j].records
    BY <2>2, RecordTypes
  <2>4. QED
    BY <2>2, <2>3 DEF Records, Current
<1>4. ASSUME NEW q \in Records, q.key = MinKey PROVE q.from <= Winner.from
  <2>1. PICK j \in DOMAIN runs : \E n \in DOMAIN runs[j].records : q = runs[j].records[n]
    BY DEF Records
  <2>2. PICK n \in DOMAIN runs[j].records : q = runs[j].records[n]
    BY <2>1
  <2>3. /\ n \in 1 .. Len(runs[j].records) /\ Len(runs[j].records) \in Nat
        /\ cursor[j] \in Nat /\ 1 <= cursor[j] /\ q.key \in Nat
    BY <2>2, RecordTypes DEF MergeTypes
  <2>4. ~ (n < cursor[j])
    <3>1. SUFFICES ASSUME n < cursor[j] PROVE FALSE
      OBVIOUS
    <3>2. n \in 1 .. (cursor[j] - 1)
      BY <2>3, <3>1
    <3>3. q \in Consumed
      BY <2>2, <3>2 DEF Consumed
    <3>4. q.key < Winner.key
      BY <1>1, <1>2, <3>3 DEF MergePrefix
    <3>5. QED
      BY <1>2, <1>4, <2>3, <3>4
  <2>5. cursor[j] <= n /\ cursor[j] \in 1 .. Len(runs[j].records)
    BY <2>3, <2>4
  <2>6. j \in Live
    BY <2>3, <2>5 DEF Live
  <2>7. MinKey <= Current(j).key /\ MinKey \in Nat /\ Current(j).key \in Nat
    BY <2>6, MinKeyIs, CurrentTypes
  <2>8. n = cursor[j]
    <3>1. SUFFICES ASSUME cursor[j] < n PROVE FALSE
      BY <2>3, <2>5
    <3>2. Current(j).key < q.key
      BY <2>2, <2>3, <2>5, <3>1, RecordTypes DEF Current
    <3>3. QED
      BY <1>4, <2>3, <2>7, <3>2
  <2>9. q = Current(j) /\ j \in Matching
    BY <1>4, <2>2, <2>6, <2>8 DEF Current, Matching
  <2>10. q.from = runs[j].seq /\ Winner.from = runs[i].seq
    BY <1>1, <1>2, <2>6, <2>9, CurrentTypes
  <2>11. QED
    BY <1>1, <2>9, <2>10
<1>5. ~ Winner.del => Winner \in Survivors
  BY <1>1, <1>2, <1>3, <1>4 DEF Survivors
<1>6. ASSUME NEW j \in Matching, Current(j) \in Survivors PROVE Current(j) = Winner
  <2>1. j \in Live /\ Current(j).key = MinKey
    BY DEF Matching
  <2>2. Winner.from <= Current(j).from
    BY <1>1, <1>2, <1>3, <1>6, <2>1 DEF Survivors
  <2>3. /\ Current(j).from = runs[j].seq /\ Winner.from = runs[i].seq
        /\ i \in DOMAIN runs /\ j \in DOMAIN runs
    BY <1>1, <1>2, <2>1, CurrentTypes
  <2>4. runs[i].seq \in 0 .. MaxSeq /\ runs[j].seq \in 0 .. MaxSeq
    BY <2>3, RecordTypes DEF SeqNo
  <2>5. runs[i].seq <= runs[j].seq /\ runs[j].seq <= runs[i].seq
    BY <1>1, <2>2, <2>3
  <2>6. runs[i].seq = runs[j].seq
    BY <2>4, <2>5, MaxSeqAssumption
  <2>7. i = j
    BY <2>3, <2>6 DEF MergeTypes, Valid
  <2>8. QED
    BY <1>1, <2>7
<1>7. \A x \in Survivors : ~ x.del
  BY DEF Survivors
<1>8. QED
  BY <1>1, <1>2, <1>5, <1>6, <1>7

\* The loop invariant.
LEMMA MergePrefixNext ==
    ASSUME MergeTypes, MergePrefix, [Next]_vars PROVE MergePrefix'
<1>1. CASE Emit
  <2>0. Live # {} /\ runs' = runs
    BY <1>1 DEF Emit
  <2>1. PICK M : M = {Current(i) : i \in Matching}
    OBVIOUS
  <2>2. Consumed' = Consumed \cup M
    BY <1>1, <2>1, ConsumedSteps
  <2>3. /\ Winner \in M /\ Winner.key = MinKey
        /\ Survivors \cap M = IF Winner.del THEN {} ELSE {Winner}
    BY <2>0, <2>1, WinnerSurvives
  <2>4. \A r \in M : r.key = MinKey
    BY <2>1 DEF Matching
  <2>5. \A r \in Consumed : r.key \in Nat
    <3>1. SUFFICES ASSUME NEW i \in DOMAIN runs, NEW n \in 1 .. (cursor[i] - 1)
                   PROVE  runs[i].records[n].key \in Nat
      BY DEF Consumed
    <3>2. cursor[i] \in Nat /\ cursor[i] <= Len(runs[i].records) + 1 /\ Len(runs[i].records) \in Nat
      BY RecordTypes DEF MergeTypes
    <3>3. n \in 1 .. Len(runs[i].records)
      BY <3>2
    <3>4. QED
      BY <3>3, RecordTypes
  <2>6. \A r \in Consumed' : \A j \in Live' : r.key < Current(j)'.key
    <3>1. SUFFICES ASSUME NEW r \in Consumed', NEW j \in Live' PROVE r.key < Current(j)'.key
      OBVIOUS
    <3>2. /\ j \in Live /\ Current(j)'.key \in Nat
          /\ Current(j).key <= Current(j)'.key /\ MinKey < Current(j)'.key
      BY <1>1, CurrentSteps
    <3>3. CASE r \in M
      BY <2>4, <3>2, <3>3
    <3>4. CASE r \in Consumed
      <4>1. r.key < Current(j).key /\ r.key \in Nat /\ Current(j).key \in Nat
        BY <2>5, <3>2, <3>4, CurrentTypes DEF MergePrefix
      <4>2. QED
        BY <3>2, <4>1
    <3>5. QED
      BY <2>2, <3>3, <3>4
  <2>7. Survivors' = Survivors
    BY <2>0 DEF Survivors, Records
  <2>8. out \in Seq(Record) /\ {out[n] : n \in DOMAIN out} = Survivors \cap Consumed
    BY DEF MergeTypes, MergePrefix
  <2>9. CASE Winner.del
    <3>1. out' = out /\ Survivors \cap M = {}
      BY <1>1, <2>3, <2>9 DEF Emit
    <3>2. {out'[n] : n \in DOMAIN out'} = Survivors' \cap Consumed'
      BY <2>2, <2>7, <2>8, <3>1
    <3>3. \A m, n \in DOMAIN out' : m < n => out'[m].key < out'[n].key
      BY <3>1 DEF MergePrefix
    <3>4. QED
      BY <2>6, <3>2, <3>3 DEF MergePrefix
  <2>10. CASE ~ Winner.del
    <3>1. out' = Append(out, Winner) /\ Survivors \cap M = {Winner}
      BY <1>1, <2>3, <2>10 DEF Emit
    <3>2. Len(out) \in Nat /\ DOMAIN out = 1 .. Len(out) /\ DOMAIN out' = 1 .. (Len(out) + 1)
      BY <2>8, <3>1
    <3>3. out'[Len(out) + 1] = Winner /\ \A n \in 1 .. Len(out) : out'[n] = out[n]
      BY <2>8, <3>1, <3>2
    <3>4. {out'[n] : n \in DOMAIN out'} = {out[n] : n \in DOMAIN out} \cup {Winner}
      <4>1. \A n : n \in DOMAIN out' <=> n \in DOMAIN out \/ n = Len(out) + 1
        BY <3>2
      <4>2. QED
        BY <3>2, <3>3, <4>1
    <3>5. {out'[n] : n \in DOMAIN out'} = Survivors' \cap Consumed'
      BY <2>2, <2>7, <2>8, <3>1, <3>4
    <3>6. \A n \in DOMAIN out : out[n].key < Winner.key
      <4>1. SUFFICES ASSUME NEW n \in DOMAIN out PROVE out[n].key < Winner.key
        OBVIOUS
      <4>2. out[n] \in Consumed
        BY <2>8
      <4>3. PICK i \in Live : Winner = Current(i)
        BY <2>1, <2>3 DEF Matching
      <4>4. QED
        BY <4>2, <4>3 DEF MergePrefix
    <3>7. ASSUME NEW m \in DOMAIN out', NEW n \in DOMAIN out', m < n
          PROVE  out'[m].key < out'[n].key
      <4>1. m \in 1 .. Len(out) /\ (n \in 1 .. Len(out) \/ n = Len(out) + 1)
        BY <3>2, <3>7
      <4>2. CASE n \in 1 .. Len(out)
        BY <3>2, <3>3, <3>7, <4>1, <4>2 DEF MergePrefix
      <4>3. CASE n = Len(out) + 1
        BY <3>2, <3>3, <3>6, <4>1, <4>3
      <4>4. QED
        BY <4>1, <4>2, <4>3
    <3>8. QED
      BY <2>6, <3>5, <3>7 DEF MergePrefix
  <2>11. QED
    BY <2>9, <2>10
<1>2. CASE UNCHANGED <<runs, cursor, out>>
  BY <1>2 DEF MergePrefix, Live, Current, Consumed, Survivors, Records
<1>3. QED
  BY <1>1, <1>2 DEF Next, Finish, vars

-----------------------------------------------------------------------------
(* The theorems.                                                           *)

LEMMA MergeInit == Init => MergeTypes /\ MergePrefix
<1> SUFFICES ASSUME Init PROVE MergeTypes /\ MergePrefix
  OBVIOUS
<1>1. Valid(runs) /\ cursor = [i \in DOMAIN runs |-> 1] /\ out = << >> /\ ~ done
  BY InputsAssumption DEF Init
<1>2. MergeTypes
  <2>1. \A i \in DOMAIN runs : Len(runs[i].records) \in Nat
    BY <1>1 DEF Valid, Run
  <2>2. QED
    BY <1>1, <2>1 DEF MergeTypes
<1>3. Consumed = {}
  BY <1>1 DEF Consumed
<1>4. DOMAIN out = {}
  BY <1>1
<1>5. MergePrefix
  BY <1>3, <1>4 DEF MergePrefix
<1>6. QED
  BY <1>2, <1>5

\* The loop invariant of merge_runs holds for every slice of runs: what has been
\* written is exactly what survives of the records stepped over, in key order.
THEOREM MergePrefixHolds == Spec => [](MergeTypes /\ MergePrefix)
<1>1. MergeTypes /\ MergePrefix /\ [Next]_vars => (MergeTypes /\ MergePrefix)'
  BY MergeTypesNext, MergePrefixNext
<1>2. QED
  BY <1>1, MergeInit, PTL DEF Spec

\* merge_runs returns the newest record of every key whose newest record is not a
\* tombstone, and nothing else, in ascending key order.
THEOREM MergeReturnsNewest == Spec => []MergeIsNewest
<1>1. ASSUME MergeTypes, MergePrefix PROVE MergeIsNewest
  <2>1. SUFFICES ASSUME done PROVE Survivors \subseteq Consumed
    BY <1>1 DEF MergeIsNewest, MergePrefix
  <2>2. SUFFICES ASSUME NEW i \in DOMAIN runs, NEW n \in DOMAIN runs[i].records
                 PROVE  runs[i].records[n] \in Consumed
    BY DEF Survivors, Records
  <2>3. ~ (cursor[i] <= Len(runs[i].records))
    BY <1>1, <2>1 DEF MergeTypes, Live
  <2>4. /\ cursor[i] \in Nat /\ Len(runs[i].records) \in Nat
        /\ n \in 1 .. Len(runs[i].records)
    BY <1>1, RecordTypes DEF MergeTypes
  <2>5. n \in 1 .. (cursor[i] - 1)
    BY <2>3, <2>4
  <2>6. QED
    BY <2>5 DEF Consumed
<1>2. QED
  BY <1>1, MergePrefixHolds, PTL
=============================================================================
