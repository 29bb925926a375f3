----------------------------- MODULE ManifestFile -----------------------------
(***************************************************************************)
(* The MANIFEST, byte for byte (src/src/manifest.rs): the tables it lists, *)
(* its codec, the write to a temporary file that a rename commits, and     *)
(* load, with failures of every call and crashes between any two of them.  *)
(*                                                                         *)
(* A manifest maps each level that holds a table to its tables.  The code  *)
(* keeps a vector of levels, in which a level without tables is an empty   *)
(* entry or is missing at the end: ssts_at does not tell those apart.      *)
(***************************************************************************)
EXTENDS Bytes, FiniteSetsExt

CONSTANTS
    Metas,         \* the tables that can be listed: SstMeta
    Magic,         \* the bytes that start a MANIFEST
    FaultyCalls,   \* the file system calls that may fail
    Harm,          \* what may happen to the files of a stopped process: "power",
                   \* "cut" (the MANIFEST loses its end)
    MaxEdits       \* bound: edits of the manifest

VARIABLES
    manifest,  \* the Manifest its owner edits and commits
    disk,      \* the directory: "MANIFEST" and "MANIFEST.tmp", as files
    pc,        \* where write_atomic is, or "idle", or "stopped", "cut"
    \* History.
    begun,     \* the manifests that write_atomic was called with, in order
    returned,  \* how many of them had been when write_atomic last returned Ok
    edits

vars == <<manifest, disk, pc, begun, returned, edits>>

-----------------------------------------------------------------------------
(* The list of tables.                                                     *)

Empty == [l \in {} |-> << >>]

SstsAt(m, l) == IF l \in DOMAIN m THEN m[l] ELSE << >>

Put(m, l, metas) ==
    [x \in {y \in DOMAIN m \cup {l} : y = l => metas # << >>} |->
       IF x = l THEN metas ELSE m[x]]

\* Seeded defect: the table goes to the end of its level.
AddLast(m, meta) == Put(m, meta.level, Append(SstsAt(m, meta.level), meta))

\* add: inserted before the first table whose seq is not smaller.
AddSst(m, meta) ==
    LET metas == SstsAt(m, meta.level)
        smaller == Cardinality({i \in DOMAIN metas : metas[i].seq < meta.seq})
    IN Put(m, meta.level, InsertAt(metas, smaller + 1, meta))

\* remove: the first table with that seq, if there is one.
RemoveSst(m, l, seq) ==
    LET at == {i \in DOMAIN SstsAt(m, l) : SstsAt(m, l)[i].seq = seq}
    IN IF at = {} THEN m ELSE Put(m, l, RemoveAt(SstsAt(m, l), Min(at)))

-----------------------------------------------------------------------------
(* The codec.                                                              *)

\* [level u32][seq u64][name_len u32][name][min_len u32][min][max_len u32][max]
EncodeMeta(l, meta) ==
    LET payload(p) == PutInt(Len(p), 4) \o p
    IN PutInt(l, 4) \o PutInt(meta.seq, 8)
         \o payload(meta.name) \o payload(meta.min) \o payload(meta.max)

\* encode: level by level ascending, each level in its order.
Encode(m) ==
    LET level(l) == FlattenSeq([i \in DOMAIN m[l] |-> EncodeMeta(l, m[l][i])])
        levels == SetToSortSeq(DOMAIN m, LAMBDA a, c : a < c)
    IN Magic \o FlattenSeq([i \in DOMAIN levels |-> level(levels[i])])

FixedHeaderLen == 4 + 8 + 4

\* Seeded defect: a payload that runs past the end is cut there.
ReadPayloadClipped(bytes, offset) ==
    IF offset + 4 > Len(bytes) THEN Ok([bytes |-> << >>, next |-> Len(bytes)])
    ELSE LET end == Min({offset + 4 + ReadInt(bytes, offset, 4), Len(bytes)})
         IN Ok([bytes |-> Slice(bytes, offset + 4, end), next |-> end])

\* read_u32 of a length and read_payload of that many bytes.
ReadPayload(bytes, offset) ==
    IF \/ offset + 4 > Len(bytes)
       \/ offset + 4 + ReadInt(bytes, offset, 4) > Len(bytes)
    THEN Corruption
    ELSE LET end == offset + 4 + ReadInt(bytes, offset, 4)
         IN Ok([bytes |-> Slice(bytes, offset + 4, end), next |-> end])

\* String::from_utf8 on names of single-byte characters (external).
IsUtf8(name) == \A i \in DOMAIN name : name[i] < 128

\* One turn of decode's loop.  It also rejects a level that memory has no room for, which
\* no table ever had.
DecodeMeta(bytes, offset) ==
    IF Len(bytes) - offset < FixedHeaderLen THEN Corruption
    ELSE LET name == ReadPayload(bytes, offset + 12)
             min  == ReadPayload(bytes, name.v.next)
             max  == ReadPayload(bytes, min.v.next)
         IN IF ~ name.ok THEN Corruption
            ELSE IF ~ IsUtf8(name.v.bytes) \/ ~ min.ok THEN Corruption
            ELSE IF ~ max.ok THEN Corruption
            ELSE Ok([meta |-> [level |-> ReadInt(bytes, offset, 4),
                               seq |-> ReadInt(bytes, offset + 4, 8),
                               name |-> name.v.bytes,
                               min |-> min.v.bytes, max |-> max.v.bytes],
                     next |-> max.v.next])

\* The check that each table's seq exceeds that of the one before in its level.
Ascending(metas) ==
    \A i, j \in DOMAIN metas :
      i < j /\ metas[i].level = metas[j].level => metas[i].seq < metas[j].seq

\* decode.
Decode(bytes) ==
    LET metasFrom[o \in Len(Magic) .. Len(bytes)] ==
          LET record == DecodeMeta(bytes, o)
              rest == metasFrom[record.v.next]
          IN IF o = Len(bytes) THEN Ok(<< >>)
             ELSE IF ~ record.ok THEN Corruption
             ELSE IF ~ rest.ok THEN Corruption
             ELSE Ok(<<record.v.meta>> \o rest.v)
        metas == metasFrom[Len(Magic)]
    IN IF ~ IsPrefix(Magic, bytes) THEN Corruption
       ELSE IF ~ metas.ok THEN Corruption
       ELSE IF ~ Ascending(metas.v) THEN Corruption
       ELSE Ok([l \in {metas.v[i].level : i \in DOMAIN metas.v} |->
                  SelectSeq(metas.v, LAMBDA t : t.level = l)])

-----------------------------------------------------------------------------
(* Files.  A file is its bytes and how many of them an fsync covers.       *)

File(bytes, synced) == [bytes |-> bytes, synced |-> synced]

With(name, f) == [n \in DOMAIN disk \cup {name} |-> IF n = name THEN f ELSE disk[n]]
Without(name) == [n \in DOMAIN disk \ {name} |-> disk[n]]

\* load: a missing MANIFEST is that of a fresh directory.
Load(d) ==
    IF "MANIFEST" \in DOMAIN d THEN Decode(d["MANIFEST"].bytes) ELSE Ok(Empty)

Init ==
    /\ manifest = Empty /\ disk = [n \in {} |-> File(<< >>, 0)]
    /\ pc = "idle"
    /\ begun = <<Empty>> /\ returned = 1 /\ edits = 0

\* The owner changes the list.  It never lists two tables of one level under
\* the same seq.
Edit ==
    /\ pc = "idle" /\ edits < MaxEdits
    /\ \/ \E meta \in Metas :
            /\ \A i \in DOMAIN SstsAt(manifest, meta.level) :
                 SstsAt(manifest, meta.level)[i].seq # meta.seq
            /\ manifest' = AddSst(manifest, meta)
       \/ \E meta \in Metas : manifest' = RemoveSst(manifest, meta.level, meta.seq)
    /\ edits' = edits + 1
    /\ UNCHANGED <<disk, pc, begun, returned>>

\* write_atomic: File::create of the temporary file, which truncates an old one.
Create ==
    /\ pc = "idle" /\ manifest # Last(begun)
    /\ disk' = With("MANIFEST.tmp", File(<< >>, 0))
    /\ pc' = "write"
    /\ begun' = Append(begun, manifest)
    /\ UNCHANGED <<manifest, returned, edits>>

\* write_all and flush.
WriteTmp ==
    /\ pc = "write"
    /\ disk' = With("MANIFEST.tmp", File(Encode(manifest), 0))
    /\ pc' = "sync"
    /\ UNCHANGED <<manifest, begun, returned, edits>>

\* Seeded defect: the temporary file is not fsynced.
SyncSkipped ==
    /\ pc = "sync"
    /\ pc' = "rename"
    /\ UNCHANGED <<manifest, disk, begun, returned, edits>>

\* sync_all.
SyncTmp ==
    /\ pc = "sync"
    /\ disk' = With("MANIFEST.tmp",
                    File(disk["MANIFEST.tmp"].bytes, Len(disk["MANIFEST.tmp"].bytes)))
    /\ pc' = "rename"
    /\ UNCHANGED <<manifest, begun, returned, edits>>

\* rename, and write_atomic returns Ok.
Rename ==
    /\ pc = "rename"
    /\ disk' = [n \in {"MANIFEST"} |-> disk["MANIFEST.tmp"]]
    /\ pc' = "idle"
    /\ returned' = Len(begun)
    /\ UNCHANGED <<manifest, begun, edits>>

\* A call fails, a write after taking some of the bytes.  write_atomic removes
\* the temporary file, which may fail too, and returns the error.
Fails ==
    /\ pc \in FaultyCalls
    /\ \/ disk' = Without("MANIFEST.tmp")
       \/ /\ "remove" \in FaultyCalls
          /\ \E n \in 0 .. Len(Encode(manifest)) :
               /\ pc # "write" => n = Len(Encode(manifest))
               /\ disk' = With("MANIFEST.tmp", File(SubSeq(Encode(manifest), 1, n), 0))
    /\ pc' = "idle"
    /\ UNCHANGED <<manifest, begun, returned, edits>>

\* The process ends at any point.  A power failure cuts what no fsync covers.
Stop ==
    /\ pc \notin {"stopped", "cut"}
    /\ \/ disk' = disk
       \/ /\ "power" \in Harm
          /\ \E name \in DOMAIN disk :
               \E n \in disk[name].synced .. Len(disk[name].bytes) :
                 disk' = With(name, File(SubSeq(disk[name].bytes, 1, n), n))
    /\ pc' = "stopped"
    /\ UNCHANGED <<manifest, begun, returned, edits>>

\* The MANIFEST at rest loses its end.
Cut ==
    /\ pc = "stopped" /\ "cut" \in Harm /\ "MANIFEST" \in DOMAIN disk
    /\ \E n \in 0 .. Len(disk["MANIFEST"].bytes) :
         disk' = With("MANIFEST", File(SubSeq(disk["MANIFEST"].bytes, 1, n), n))
    /\ pc' = "cut"
    /\ UNCHANGED <<manifest, begun, returned, edits>>

\* A new process loads what it finds.
Reopen ==
    /\ pc = "stopped" /\ Load(disk).ok
    /\ manifest' = Load(disk).v
    /\ begun' = <<Load(disk).v>>
    /\ returned' = 1
    /\ pc' = "idle"
    /\ UNCHANGED <<disk, edits>>

Next ==
    \/ Edit
    \/ Create \/ WriteTmp \/ SyncTmp \/ Rename \/ Fails
    \/ Stop \/ Cut \/ Reopen

Spec == Init /\ [][Next]_vars

-----------------------------------------------------------------------------
(* Properties.                                                             *)

\* Whenever the process stops, load finds a whole manifest: one that
\* write_atomic was given, no older than the last one it returned Ok for, never a
\* mixture, a part, or what is left in the temporary file (write_atomic, load).
LoadIsACommit ==
    pc = "stopped" =>
      /\ Load(disk).ok
      /\ \E i \in returned .. Len(begun) : Load(disk).v = begun[i]

\* Whatever tables are added and removed, in whatever order of their seqs, decode
\* gives back what encode was given (add, remove, encode, decode).
RoundTrip ==
    LET d == Decode(Encode(manifest)) IN d.ok /\ d.v = manifest

\* A MANIFEST that lost its end is rejected, unless the cut falls between two
\* records: then the tables before it are loaded unchanged.  No table is ever
\* loaded with a shortened name or key (decode, read_payload).
CutIsAPrefix ==
    pc = "cut" =>
      LET d == Decode(disk["MANIFEST"].bytes)
      IN d.ok => \E i \in 1 .. Len(begun) :
                   \A l \in DOMAIN d.v : IsPrefix(d.v[l], SstsAt(begun[i], l))
=============================================================================
