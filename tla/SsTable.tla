------------------------------- MODULE SsTable -------------------------------
(***************************************************************************)
(* One SSTable file, byte for byte: the builder (src/src/sstable/          *)
(* builder.rs), the record, index and bloom codecs (record.rs, index.rs,   *)
(* bloom.rs) and the reader (reader.rs).                                   *)
(*                                                                         *)
(* A builder accepts records until it is built into a file; the file is    *)
(* then complete, torn (its writing was interrupted) or damaged (a stretch *)
(* of it overwritten at rest), and the reader's operations are operators   *)
(* on it.                                                                  *)
(* TargetBlockSize stands for the 4096 bytes of the code.                  *)
(***************************************************************************)
EXTENDS Bytes, FiniteSetsExt

CONSTANTS
    TableKeys, TableValues,  \* what is added and looked up
    ExpectedItems,           \* sizing hints: 0 (no bloom filter) or more
    TargetBlockSize, MaxKeyLen, MaxValueLen,
    Magic,                   \* the eight bytes that end a table
    NumHashes,               \* hash functions of a new bloom filter
    Damages,                 \* what overwrites a stretch of a file: its length and its byte
    MaxRecords               \* bound: records in a table

VARIABLES
    phase,  \* "adding", "built", "torn" or "damaged"
    b,      \* the SsTableBuilder
    file,   \* the bytes of the file once built
    added   \* history: the records accepted by add, in order

vars == <<phase, b, file, added>>

-----------------------------------------------------------------------------
(* Records: [key_len u16][flags u8][value_len u32][key][value].            *)

RecordHeaderLen == 2 + 1 + 4

RecordLen(key, value) == RecordHeaderLen + Len(key) + Len(value)

PutRecord(key, value, deleted) ==
    PutInt(Len(key), 2) \o <<IF deleted THEN 1 ELSE 0>> \o PutInt(Len(value), 4)
      \o key \o value

\* read_record; only bit 0 of the flags has a meaning.
ReadRecord(bytes, offset) ==
    LET remaining == IF offset > Len(bytes) THEN 0 ELSE Len(bytes) - offset
        keyEnd == offset + RecordHeaderLen + ReadInt(bytes, offset, 2)
        end == keyEnd + ReadInt(bytes, offset + 3, 4)
    IN IF remaining < RecordHeaderLen \/ end - offset > remaining THEN Corruption
       ELSE Ok([key |-> Slice(bytes, offset + RecordHeaderLen, keyEnd),
                value |-> Slice(bytes, keyEnd, end),
                deleted |-> bytes[offset + 3] % 2 = 1,
                next |-> end])

-----------------------------------------------------------------------------
(* Sparse index: [key_len u16][first_key][offset u64][size u64] per block. *)

IndexEntryHeaderLen == 2 + 8 + 8

EncodeIndex(index) ==
    FlattenSeq([i \in DOMAIN index |->
      PutInt(Len(index[i].first), 2) \o index[i].first
        \o PutInt(index[i].offset, 8) \o PutInt(index[i].size, 8)])

\* parse_index: entries until the bytes are consumed exactly.  The offset and the size
\* are kept as their bytes: their sum may exceed a u64.
ParseIndex(bytes) ==
    LET entriesFrom[o \in 0 .. Len(bytes)] ==
          LET keyEnd == o + 2 + ReadInt(bytes, o, 2)
              next == keyEnd + 16
              rest == entriesFrom[next]
          IN IF o = Len(bytes) THEN Ok(<< >>)
             ELSE IF Len(bytes) - o < IndexEntryHeaderLen \/ next > Len(bytes)
             THEN Corruption
             ELSE IF ~ rest.ok THEN Corruption
             ELSE Ok(<<[first |-> Slice(bytes, o + 2, keyEnd),
                        offset |-> Slice(bytes, keyEnd, keyEnd + 8),
                        size |-> Slice(bytes, keyEnd + 8, next)]>>
                     \o rest.v)
    IN entriesFrom[0]

\* locate_block: the rightmost block whose first key is at most key, 0 for none.
LocateBlock(index, key) ==
    Cardinality({i \in DOMAIN index : AtMost(index[i].first, key)})

-----------------------------------------------------------------------------
(* Bloom filter block: [num_hashes u32][words u64 ...].                    *)

\* The bit that hash function i probes for key (fastbloom with a fixed seed;
\* external).  Few bits, so that keys share them.
ProbedBit(key, i) == (FoldLeft(LAMBDA h, c : h + c, Len(key), key) + 3 * i) % 5

ProbedBits(key, hashes) == {ProbedBit(key, i) : i \in 1 .. hashes}

\* encode_bloom of a filter of one word.
EncodeBloom(bits) ==
    PutInt(NumHashes, 4)
      \o [j \in 1 .. 8 |-> MapThenSumSet(LAMBDA x : 2 ^ (x % 8),
                                         {x \in bits : x \div 8 = j - 1})]

DecodeBloom(bytes) ==
    LET hashes == ReadInt(bytes, 0, 4)
    IN IF \/ Len(bytes) < 4 \/ (Len(bytes) - 4) % 8 # 0
          \/ hashes = 0 \/ hashes > 255
          \/ Len(bytes) = 4
       THEN Corruption
       ELSE Ok([hashes |-> hashes,
                bits |-> {x \in 0 .. (8 * (Len(bytes) - 4) - 1) :
                            (bytes[5 + (x \div 8)] \div 2 ^ (x % 8)) % 2 = 1}])

MayContain(bloom, key) == ProbedBits(key, bloom.hashes) \subseteq bloom.bits

-----------------------------------------------------------------------------
(* The builder.  An Option is a sequence of at most one element.           *)

NewBuilder(expected) ==
    [data |-> << >>, current |-> << >>, currentFirst |-> << >>, index |-> << >>,
     first |-> << >>, last |-> << >>, bloom |-> << >>, expected |-> expected]

\* finalize_block.
FinalizeBlock(t) ==
    IF t.currentFirst = << >> THEN t
    ELSE [t EXCEPT !.index = Append(@, [first |-> t.currentFirst[1],
                                        offset |-> Len(t.data),
                                        size |-> Len(t.current)]),
                   !.data = @ \o t.current,
                   !.current = << >>, !.currentFirst = << >>]

\* The early returns of add.
Accepts(t, key, value) ==
    /\ Len(key) <= MaxKeyLen /\ Len(value) <= MaxValueLen
    /\ t.last # << >> => Less(t.last[1], key)

\* Seeded defect: the size of the new record is not counted.
BlockOverfull(t, key, value) == t.current # << >> /\ Len(t.current) > TargetBlockSize

\* The active block cannot take the record.
BlockFull(t, key, value) ==
    /\ t.current # << >>
    /\ Len(t.current) + RecordLen(key, value) > TargetBlockSize

\* Seeded defect: tombstones are not entered in the bloom filter.
BloomOfLive(t, key, deleted) ==
    IF t.expected = 0 THEN << >>
    ELSE LET bits == IF t.bloom = << >> THEN {} ELSE t.bloom[1]
         IN <<IF deleted THEN bits ELSE bits \cup ProbedBits(key, NumHashes)>>

\* The bloom filter, created by the first key when a size is expected.
BloomWith(t, key, deleted) ==
    IF t.expected = 0 THEN << >>
    ELSE <<(IF t.bloom = << >> THEN {} ELSE t.bloom[1]) \cup ProbedBits(key, NumHashes)>>

\* Seeded defect: the smallest key is that of the last block.
MinOfBlock(t, key) == IF t.current = << >> THEN <<key>> ELSE t.first

\* first_key: set by the first record only.
MinKey(t, key) == IF t.last = << >> THEN <<key>> ELSE t.first

\* add, past its checks.
WithRecord(t, key, value, deleted) ==
    LET u == IF BlockFull(t, key, value) THEN FinalizeBlock(t) ELSE t
    IN [u EXCEPT !.currentFirst = IF u.current = << >> THEN <<key>> ELSE @,
                 !.bloom = BloomWith(t, key, deleted),
                 !.current = @ \o PutRecord(key, value, deleted),
                 !.first = MinKey(u, key),
                 !.last = <<key>>]

\* build: [data][index][bloom?][footer].
FileOf(t) ==
    LET u == FinalizeBlock(t)
        index == EncodeIndex(u.index)
        bloom == IF u.bloom = << >> THEN << >> ELSE EncodeBloom(u.bloom[1])
        bloomOffset == IF bloom = << >> THEN 0 ELSE Len(u.data) + Len(index)
    IN u.data \o index \o bloom
         \o PutInt(Len(u.data), 8) \o PutInt(bloomOffset, 8) \o Magic

-----------------------------------------------------------------------------
(* The reader.                                                             *)

FooterLen == 24

\* Seeded defect: the magic is not compared.
MagicIgnored(bytes) == Len(bytes) >= FooterLen

\* The file is long enough for a footer and ends with the magic.
HasFooter(bytes) ==
    /\ Len(bytes) >= FooterLen
    /\ Slice(bytes, Len(bytes) - 8, Len(bytes)) = Magic

\* SsTableReader::open.
OpenTable(bytes) ==
    LET end == Len(bytes) - FooterLen      \* of the index and the bloom block
        indexOffset == ReadInt(bytes, end, 8)
        bloomOffset == ReadInt(bytes, end + 8, 8)
        endOfIndex == IF bloomOffset = 0 THEN end ELSE bloomOffset
    IN IF \/ ~ HasFooter(bytes)
          \/ bloomOffset # 0 /\ bloomOffset > end
          \/ indexOffset > endOfIndex
       THEN Corruption
       ELSE LET index == ParseIndex(Slice(bytes, indexOffset, endOfIndex))
                bloom == DecodeBloom(Slice(bytes, endOfIndex, end))
            IN IF ~ index.ok \/ (bloomOffset # 0 /\ ~ bloom.ok) THEN Corruption
               ELSE Ok([bytes |-> bytes, indexOffset |-> indexOffset,
                        index |-> index.v,
                        bloom |-> IF bloomOffset = 0 THEN << >> ELSE <<bloom.v>>])

\* read_block_at.
ReadAt(bytes, offset, size) ==
    IF offset + size > Len(bytes) THEN IoError
    ELSE Ok(Slice(bytes, offset, offset + size))

\* The three answers of a lookup: LookupValue, or None.
Absent == [found |-> "no", value |-> << >>]
Found(r) == [found |-> IF r.deleted THEN "deleted" ELSE "present",
             value |-> IF r.deleted THEN << >> ELSE r.value]

\* The scan of one block for key, ending where the records pass its place.
ScanBlock(block, key) ==
    LET from[o \in 0 .. Len(block)] ==
          LET r == ReadRecord(block, o)
          IN IF o = Len(block) THEN Ok(Absent)
             ELSE IF ~ r.ok THEN Corruption
             ELSE IF r.v.key = key THEN Ok(Found(r.v))
             ELSE IF Less(key, r.v.key) THEN Ok(Absent)
             ELSE from[r.v.next]
    IN from[0]

\* Seeded defect: the sum wraps around.
PointerWraps(t, i) ==
    ReadInt(AddBytes(t.index[i].offset, t.index[i].size).sum, 0, 8) <= Len(t.bytes)

\* The block pointer of index entry i lies within the file: checked_add, and the end of
\* the block against file_len.
PointerInFile(t, i) ==
    LET end == AddBytes(t.index[i].offset, t.index[i].size)
    IN end.carry = 0 /\ ReadInt(end.sum, 0, 8) <= Len(t.bytes)

\* Seeded defect: the scan starts with the data.
ScanFromStart(t, i, key) ==
    LET data == ReadAt(t.bytes, 0, t.indexOffset)
    IN IF ~ PointerInFile(t, i) THEN Corruption
       ELSE IF data.ok THEN ScanBlock(data.v, key) ELSE data

\* The rest of get, once the block is located.
LookupIn(t, i, key) ==
    LET block == ReadAt(t.bytes, ReadInt(t.index[i].offset, 0, 8), ReadInt(t.index[i].size, 0, 8))
    IN IF ~ PointerInFile(t, i) THEN Corruption
       ELSE IF block.ok THEN ScanBlock(block.v, key) ELSE block

\* SsTableReader::get.
Get(t, key) ==
    IF \/ t.bloom # << >> /\ ~ MayContain(t.bloom[1], key)
       \/ LocateBlock(t.index, key) = 0
    THEN Ok(Absent)
    ELSE LookupIn(t, LocateBlock(t.index, key), key)

\* SsTableReader::records: the data region, record by record.
Records(t) ==
    LET data == ReadAt(t.bytes, 0, t.indexOffset)
        from[o \in 0 .. t.indexOffset] ==
          LET r == ReadRecord(data.v, o)
              rest == from[r.v.next]
          IN IF o = t.indexOffset THEN Ok(<< >>)
             ELSE IF ~ r.ok THEN Corruption
             ELSE IF ~ rest.ok THEN Corruption
             ELSE Ok(<<[key |-> r.v.key, value |-> r.v.value, deleted |-> r.v.deleted]>>
                     \o rest.v)
    IN IF data.ok THEN from[0] ELSE data

-----------------------------------------------------------------------------
Init ==
    /\ phase = "adding"
    /\ \E n \in ExpectedItems : b = NewBuilder(n)
    /\ file = << >> /\ added = << >>

\* add of a record that passes its checks; a refused one leaves the builder as
\* it was.  Tombstones carry no value.
Add(key, value, deleted) ==
    /\ phase = "adding" /\ Len(added) < MaxRecords
    /\ deleted => value = << >>
    /\ Accepts(b, key, value)
    /\ b' = WithRecord(b, key, value, deleted)
    /\ added' = Append(added, [key |-> key, value |-> value, deleted |-> deleted])
    /\ UNCHANGED <<phase, file>>

Build ==
    /\ phase = "adding"
    /\ file' = FileOf(b)
    /\ phase' = "built"
    /\ UNCHANGED <<b, added>>

\* build is interrupted: the file ends early.
Tear ==
    /\ phase = "built"
    /\ \E n \in 0 .. (Len(file) - 1) : file' = SubSeq(file, 1, n)
    /\ phase' = "torn"
    /\ UNCHANGED <<b, added>>

\* A stretch of a finished table is overwritten with one byte.
Damage ==
    /\ phase = "built"
    /\ \E d \in Damages : \E n \in 0 .. (Len(file) - d.len) :
         file' = [i \in DOMAIN file |-> IF i \in (n + 1) .. (n + d.len) THEN d.byte ELSE file[i]]
    /\ phase' = "damaged"
    /\ UNCHANGED <<b, added>>

Next ==
    \/ \E key \in TableKeys, value \in TableValues, deleted \in BOOLEAN :
         Add(key, value, deleted)
    \/ Build \/ Tear \/ Damage

Spec == Init /\ [][Next]_vars

-----------------------------------------------------------------------------
(* Properties.                                                             *)

\* What get should answer, from the records that were added.
Reference(key) ==
    LET found == SelectSeq(added, LAMBDA r : r.key = key)
    IN IF found = << >> THEN Absent ELSE Found(found[1])

\* A complete table opens and answers every lookup with exactly the record that
\* was added for the key, a tombstone told apart from an empty value and from
\* absence: for keys below the first block, on a block's first key, inside a
\* gap, past the last block, and whatever keys share bits of the bloom filter.
LookupIsExact ==
    phase = "built" =>
      /\ OpenTable(file).ok
      /\ \A key \in TableKeys :
           LET answer == Get(OpenTable(file).v, key)
           IN answer.ok /\ answer.v = Reference(key)

\* records() of a complete table returns the added records in order, all of them
\* between the min_key and the max_key that the MANIFEST keeps for the table.
ScanIsExact ==
    phase = "built" =>
      /\ LET all == Records(OpenTable(file).v) IN all.ok /\ all.v = added
      /\ \A i \in DOMAIN added :
           AtMost(b.first[1], added[i].key) /\ AtMost(added[i].key, b.last[1])

\* The index tiles the data: blocks follow each other without gap or overlap,
\* start with their first key, and exceed the target only when one record does.
BlocksTileData ==
    LET t == FinalizeBlock(b)
        start(i) == IF i = 1 THEN 0 ELSE t.index[i - 1].offset + t.index[i - 1].size
    IN /\ \A i \in DOMAIN t.index :
            LET e == t.index[i]
                r == ReadRecord(Slice(t.data, e.offset, e.offset + e.size), 0)
            IN /\ e.offset = start(i)
               /\ r.ok /\ r.v.key = e.first
               /\ e.size <= TargetBlockSize \/ r.v.next = e.size
       /\ start(Len(t.index) + 1) = Len(t.data)

\* A table whose writing was interrupted has no valid footer: open rejects it
\* (no key or value of the instance spells the magic).
TornIsRejected == phase = "torn" => ~ OpenTable(file).ok

ReachesPastEnd(result) == ~ result.ok /\ result.v = "Io"

Damaged == LET whole == FileOf(b) IN {n \in DOMAIN file : file[n] # whole[n]}

\* The bytes of block i and of the pointer to it, the last 16 of its index entry.
BytesOfBlock(i) ==
    LET t == FinalizeBlock(b)
        entryEnd == Len(t.data) + Len(EncodeIndex(SubSeq(t.index, 1, i)))
    IN ((t.index[i].offset + 1) .. (t.index[i].offset + t.index[i].size))
         \cup ((entryEnd - 15) .. entryEnd)

\* No damage makes a lookup or a scan reach past the end of the file, not even through
\* a pointer whose end overflows a u64.  If it is confined to one block, its pointer
\* included, the table opens and every key outside that block is answered exactly:
\* no length that the damage has changed leads into the records of another block.
DamageIsContained ==
    phase = "damaged" =>
      LET t == OpenTable(file)
          index == FinalizeBlock(b).index
          damaged == Damaged
      IN /\ t.ok => /\ ~ ReachesPastEnd(Records(t.v))
                    /\ \A i \in DOMAIN t.v.index, key \in TableKeys :
                         ~ ReachesPastEnd(LookupIn(t.v, i, key))
         /\ \A i \in DOMAIN index : damaged \subseteq BytesOfBlock(i) =>
              /\ t.ok
              /\ \A key \in TableKeys : LocateBlock(index, key) # i =>
                   Get(t.v, key).ok /\ Get(t.v, key).v = Reference(key)
=============================================================================
