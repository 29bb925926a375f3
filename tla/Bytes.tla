-------------------------------- MODULE Bytes --------------------------------
(***************************************************************************)
(* Byte strings as the codecs of the storage engine see them               *)
(* (src/src/utils/mod.rs, src/src/error.rs): little-endian integers and    *)
(* bounds-checked reads at zero-based offsets.                             *)
(***************************************************************************)
EXTENDS Integers, Sequences, SequencesExt

Byte == 0 .. 255

\* Result of a fallible call: a value, or the kind of LsmError.
Ok(v) == [ok |-> TRUE, v |-> v]
Corruption == [ok |-> FALSE, v |-> "Corruption"]
InvalidOp == [ok |-> FALSE, v |-> "InvalidOp"]
IoError == [ok |-> FALSE, v |-> "Io"]

\* put_u16, put_u32, put_u64: the n low-order bytes of v, least significant first.
PutInt(v, n) ==
    LET shifted[i \in 1 .. n] == IF i = 1 THEN v ELSE shifted[i - 1] \div 256
    IN [i \in 1 .. n |-> shifted[i] % 256]

\* bytes[from .. to) of the code.
Slice(bytes, from, to) == SubSeq(bytes, from + 1, to)

\* A length or offset beyond anything a modelled file can hold.
Huge == 2 ^ 29

\* read_u16, read_u32, read_u64 after their bounds check.  What is read is compared with
\* the length of a file, for which all values of more than three bytes are alike; where
\* the code guards a sum against overflow, the bytes themselves are added (AddBytes).
ReadInt(bytes, offset, n) ==
    IF \E i \in 4 .. n : bytes[offset + i] # 0 THEN Huge
    ELSE bytes[offset + 1] + 256 * bytes[offset + 2]
           + (IF n > 2 THEN 65536 * bytes[offset + 3] ELSE 0)

\* The sum of two integers of the same width, as their bytes, and the carry out of it.
AddBytes(x, y) ==
    LET carry[i \in 0 .. Len(x)] ==
          IF i = 0 THEN 0 ELSE (x[i] + y[i] + carry[i - 1]) \div 256
    IN [sum |-> [i \in 1 .. Len(x) |-> (x[i] + y[i] + carry[i - 1]) % 256],
        carry |-> carry[Len(x)]]

\* Byte-wise lexicographic order, the order of keys.
Less(a, b) ==
    \/ IsStrictPrefix(a, b)
    \/ \E i \in 1 .. Len(a) :
         /\ i <= Len(b)
         /\ SubSeq(a, 1, i - 1) = SubSeq(b, 1, i - 1)
         /\ a[i] < b[i]

AtMost(a, b) == a = b \/ Less(a, b)
=============================================================================
