-------------------------------- MODULE WalLog --------------------------------
(***************************************************************************)
(* One write-ahead log file, byte for byte: the frame codec                *)
(* (src/src/wal/mod.rs), the buffered writer (src/src/wal/writer.rs) and   *)
(* the recovering reader (src/src/wal/reader.rs), with the engine as their *)
(* caller: it returns a writer's error to the client and keeps using the   *)
(* writer (put, delete, flush of src/src/engine.rs).                       *)
(*                                                                         *)
(* Sizes are scaled down: BufCapacity stands for the 8 KiB of std's        *)
(* BufWriter, MaxKeyLen and MaxValueLen for the caps on keys and values.   *)
(***************************************************************************)
EXTENDS Bytes

CONSTANTS
    Calls,        \* what a client may ask to append: [op, key, value]
    BufCapacity,  \* capacity of the BufWriter
    MaxKeyLen, MaxValueLen,
    Faults,       \* the calls that may fail: "write", "fsync"
    Damage,       \* what a stop may do to the file: see Stop
    MaxAppends,   \* bound: appends that succeed
    MaxErrors     \* bound: calls of the writer that fail

VARIABLES
    mode,     \* "open", "stopped" (the file is at rest), "replayed", "failed"
    file,     \* the bytes the operating system has
    synced,   \* how many of them survive a power failure
    buf,      \* the bytes in the BufWriter
    memtable, \* what replay_into builds: the entry of each key
    \* History.
    log,      \* the entries whose append returned Ok, in order
    durable,  \* how many of them a sync that returned Ok covers
    errors    \* how many calls have failed

vars == <<mode, file, synced, buf, memtable, log, durable, errors>>

-----------------------------------------------------------------------------
(* The frame codec.                                                        *)

HeaderLen == 4 + 1 + 2 + 4
OpOffset == 4
KeyLenOffset == 5
ValLenOffset == 7

ToByte(op) == IF op = "put" THEN 1 ELSE 2

FromByte(b) == IF b = 1 THEN Ok("put") ELSE IF b = 2 THEN Ok("delete") ELSE InvalidOp

\* crc32fast::hash: a checksum that tells the byte strings of a run apart.
Hash(bytes) == FoldLeft(LAMBDA h, b : (h * 61 + b + 1) % 16777213, 0, bytes)

\* The early returns of encode_entry.
Encodable(e) ==
    /\ Len(e.key) <= MaxKeyLen
    /\ Len(e.value) <= MaxValueLen
    /\ e.op = "delete" => e.value = << >>

\* encode_entry: [crc u32][op u8][key_len u16][val_len u32][key][value].
Frame(e) ==
    LET body == <<ToByte(e.op)>> \o PutInt(Len(e.key), 2) \o PutInt(Len(e.value), 4)
                  \o e.key \o e.value
    IN PutInt(Hash(body), 4) \o body

FrameLen(bytes, offset) ==
    HeaderLen + ReadInt(bytes, offset + KeyLenOffset, 2)
              + ReadInt(bytes, offset + ValLenOffset, 4)

\* Seeded defect: the checksum is not verified.
DecodeUnchecked(bytes) ==
    LET op == FromByte(bytes[OpOffset + 1])
        keyEnd == HeaderLen + ReadInt(bytes, KeyLenOffset, 2)
    IN IF ~ op.ok THEN InvalidOp
       ELSE IF FrameLen(bytes, 0) > Len(bytes) THEN Corruption
       ELSE Ok([op |-> op.v, key |-> Slice(bytes, HeaderLen, keyEnd),
                value |-> Slice(bytes, keyEnd, FrameLen(bytes, 0))])

\* decode_entry: the op byte, the declared lengths, then the checksum.
Decode(bytes) ==
    LET op == FromByte(bytes[OpOffset + 1])
        end == FrameLen(bytes, 0)
        keyEnd == HeaderLen + ReadInt(bytes, KeyLenOffset, 2)
    IN IF Len(bytes) < HeaderLen THEN Corruption
       ELSE IF ~ op.ok THEN InvalidOp
       ELSE IF \/ end > Len(bytes)
               \/ Slice(bytes, 0, 4) # PutInt(Hash(Slice(bytes, 4, end)), 4)
       THEN Corruption
       ELSE Ok([op |-> op.v, key |-> Slice(bytes, HeaderLen, keyEnd),
                value |-> Slice(bytes, keyEnd, end)])

\* Seeded defect: a frame that ends exactly at the end of the file is torn.
TornOffByOne(bytes, offset) ==
    \/ Len(bytes) - offset < HeaderLen
    \/ FrameLen(bytes, offset) >= Len(bytes) - offset

\* The log ends inside the frame at offset: the tail that scan drops.
Torn(bytes, offset) ==
    \/ Len(bytes) - offset < HeaderLen
    \/ FrameLen(bytes, offset) > Len(bytes) - offset

\* Seeded defect: a torn tail is reported as Corruption.
ScanStrict(bytes) ==
    LET entriesFrom[o \in 0 .. Len(bytes)] ==
          IF o = Len(bytes) THEN Ok(<< >>)
          ELSE IF Torn(bytes, o) THEN Corruption
          ELSE LET next == o + FrameLen(bytes, o)
                   rest == entriesFrom[next]
               IN IF rest.ok THEN Ok(<<Decode(Slice(bytes, o, next)).v>> \o rest.v) ELSE rest
    IN entriesFrom[0]

\* scan: the entries up to a torn tail, or Corruption if a complete frame does
\* not decode.  entriesFrom[o] is the rest of the loop at offset o.
Scan(bytes) ==
    LET entriesFrom[o \in 0 .. Len(bytes)] ==
          IF Torn(bytes, o) THEN Ok(<< >>)
          ELSE LET next  == o + FrameLen(bytes, o)
                   entry == Decode(Slice(bytes, o, next))
                   rest  == entriesFrom[next]
               IN IF ~ entry.ok \/ ~ rest.ok THEN Corruption
                  ELSE Ok(<<entry.v>> \o rest.v)
    IN entriesFrom[0]

\* The MemTable after applying entries in order: the last entry of each key.
Applied(entries) ==
    [k \in {entries[i].key : i \in DOMAIN entries} |->
       Last(SelectSeq(entries, LAMBDA e : e.key = k))]

-----------------------------------------------------------------------------
(* The writer.                                                             *)

\* BufWriter::write_all (external): a frame that does not fit the spare capacity
\* first empties the buffer, and one as large as the buffer bypasses it.
Spills(f) == Len(buf) + Len(f) > BufCapacity
Bypasses(f) == Len(f) >= BufCapacity

\* append of an entry that encode_entry accepts; one that it refuses leaves the
\* writer as it was.
Append1(e) ==
    /\ mode = "open" /\ Len(log) < MaxAppends /\ Encodable(e)
    /\ LET f == Frame(e)
           out == IF Spills(f) THEN file \o buf ELSE file
           kept == IF Spills(f) THEN << >> ELSE buf
       IN /\ file' = IF Bypasses(f) THEN out \o f ELSE out
          /\ buf' = IF Bypasses(f) THEN kept ELSE kept \o f
    /\ log' = Append(log, e)
    /\ UNCHANGED <<mode, synced, memtable, durable, errors>>

Fail(call) ==
    /\ mode = "open" /\ call \in Faults /\ errors < MaxErrors
    /\ errors' = errors + 1

\* The operating system takes only the first n bytes of the buffer and reports
\* an error; the BufWriter keeps the others.
FlushBufFails ==
    \E n \in 0 .. (Len(buf) - 1) :
      /\ file' = file \o SubSeq(buf, 1, n)
      /\ buf' = SubSeq(buf, n + 1, Len(buf))

\* append fails while the buffer is emptied, or, after that, while a large frame
\* is written directly: then the file keeps the first n bytes of the frame.
AppendFails(e) ==
    /\ Fail("write") /\ Encodable(e)
    /\ \/ Spills(Frame(e)) /\ FlushBufFails
       \/ /\ Bypasses(Frame(e))
          /\ \E n \in 0 .. (Len(Frame(e)) - 1) :
               file' = file \o buf \o SubSeq(Frame(e), 1, n)
          /\ buf' = << >>
    /\ UNCHANGED <<mode, synced, memtable, log, durable>>

\* sync: empty the buffer and fsync.
Sync ==
    /\ mode = "open" /\ durable < Len(log)
    /\ file' = file \o buf
    /\ buf' = << >>
    /\ synced' = Len(file')
    /\ durable' = Len(log)
    /\ UNCHANGED <<mode, memtable, log, errors>>

SyncFails ==
    /\ \/ Fail("write") /\ FlushBufFails
       \/ Fail("fsync") /\ file' = file \o buf /\ buf' = << >>
    /\ UNCHANGED <<mode, synced, memtable, log, durable>>

-----------------------------------------------------------------------------
(* The end of the process, and what recovery finds.                        *)

\* The writer is dropped (its buffer goes to the operating system) or dies with
\* the process (it does not).  A power failure then cuts the file anywhere past
\* its synced part ("cut"), or leaves zeros where the size of the file had
\* reached the disk before its data ("zeros").  "flip" alters one byte at rest.
Stop ==
    /\ mode = "open"
    /\ mode' = "stopped"
    /\ buf' = << >>
    /\ \E bytes \in {file, file \o buf} :
         \/ file' = bytes
         \/ /\ "cut" \in Damage
            /\ \E n \in synced .. Len(bytes) : file' = SubSeq(bytes, 1, n)
         \/ /\ "zeros" \in Damage
            /\ \E n \in synced .. Len(bytes) :
                 file' = [i \in DOMAIN bytes |-> IF i <= n THEN bytes[i] ELSE 0]
         \/ /\ "flip" \in Damage
            /\ \E i \in DOMAIN bytes, b \in {0, 1, 2, 255} :
                 file' = [bytes EXCEPT ![i] = b]
    /\ UNCHANGED <<synced, memtable, log, durable, errors>>

\* replay_into on a fresh MemTable: everything that scan finds, or nothing.
Replay ==
    /\ mode = "stopped"
    /\ LET found == Scan(file)
       IN IF found.ok
          THEN mode' = "replayed" /\ memtable' = Applied(found.v)
          ELSE mode' = "failed" /\ UNCHANGED memtable
    /\ UNCHANGED <<file, synced, buf, log, durable, errors>>

\* WalWriter::create on a fresh path.
Init ==
    /\ mode = "open" /\ file = << >> /\ synced = 0 /\ buf = << >>
    /\ memtable = Applied(<< >>)
    /\ log = << >> /\ durable = 0 /\ errors = 0

Next ==
    \/ \E e \in Calls : Append1(e) \/ AppendFails(e)
    \/ Sync \/ SyncFails
    \/ Stop \/ Replay

Spec == Init /\ [][Next]_vars

-----------------------------------------------------------------------------
(* Properties.                                                             *)

\* The MemTables that the engine had after each of its appends, from the n-th on.
PastTables(n) == {Applied(SubSeq(log, 1, i)) : i \in n .. Len(log)}

\* Recovery never invents, reorders or half-applies an entry, whatever was cut
\* off, zeroed or altered, and although a failed append may have left a torn
\* frame in the middle of the log: it rebuilds the MemTable of an earlier moment,
\* or reports Corruption and applies nothing (scan, replay_into, decode_entry).
ReplayIsAPast ==
    /\ mode = "replayed" => memtable \in PastTables(0)
    /\ mode # "replayed" => memtable = Applied(<< >>)

\* Whatever a sync that returned Ok covered is recovered (sync, scan).
SyncedIsReplayed == mode = "replayed" => memtable \in PastTables(durable)

\* A log that a crash has torn is readable: recovery stops at the tear.
TearIsTolerated == mode # "failed"
=============================================================================
