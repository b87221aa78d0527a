------------------------------ MODULE ReadFile ------------------------------
(***************************************************************************)
(* directory_entry::read_file (apfs.cpp): the extent at or below the       *)
(* offset, then every extent behind it, each in chunks.  A byte is named   *)
(* by the block it is in and its place there.  The size of the file comes  *)
(* from the extended fields of its inode.                                  *)
(***************************************************************************)
EXTENDS FsRecords, XFields

CONSTANTS BlockSize,   \* reader.BLOCK_SIZE
          MaxChunk,    \* blocks of a chunk: buffer_size / BLOCK_SIZE, at least 1
          Garbage,     \* what an index entry's value may look like, read as an extent's
          Unset,       \* what inode_t::size may be where nothing sets it
          Volumes,     \* the volumes to read from
          Requests     \* the calls to make: an inode, an offset and a size

ASSUME ReadAssumption ==
    /\ BlockSize \in Nat \ {0} /\ MaxChunk \in Nat \ {0}
    /\ Unset \subseteq Nat
    /\ Requests \subseteq [inode : Nat, offset : Int, size : Int]

ExtentsOf(v, id) == {k \in v.keys : k.oid = id /\ k.type = FileExtent}
Streams(fields) == {n \in DOMAIN fields : fields[n].type = "dstream"}

\* What the records of a volume are to read_file: extents of whole blocks that do
\* not overlap; a file has one stream, and extents for all of its bytes, or none;
\* before its extents there is its inode or the record of its stream.
WellFormed(v) ==
    /\ IsFiniteSet(v.keys) /\ v.keys \subseteq [oid : Nat, type : Nat, sub : Nat]
    /\ \A k \in v.keys : k.type = FileExtent =>
          /\ v.extent[k].phys \in Nat /\ v.extent[k].len \in Nat \ {0}
          /\ v.extent[k].len % BlockSize = 0
          /\ \A l \in ExtentsOf(v, k.oid) : k.sub < l.sub => k.sub + v.extent[k].len <= l.sub
    /\ \A i \in DOMAIN v.inode :
          LET file == v.inode[i]
              streams == Streams(file.fields)
              before == {k \in v.keys : k.oid = file.private /\ k.type < FileExtent}
          IN  /\ file.private \in Nat /\ before # {}
              /\ file.fields \in Seq([type : STRING, data : Seq(Nat)])
              /\ streams = {} => ExtentsOf(v, file.private) = {}
              /\ \A m, n \in streams : m = n
              /\ \A n \in streams :
                    /\ file.fields[n].data # <<>>
                    /\ \A addr \in 0 .. file.fields[n].data[1] - 1 :
                          \E k \in ExtentsOf(v, file.private) :
                              k.sub <= addr /\ addr < k.sub + v.extent[k].len

ASSUME VolumeAssumption == \A v \in Volumes : WellFormed(v)

VARIABLES vol,       \* keys of the records and those index ranges start with, inode ->
                     \* kind, fields and private_id, extent key -> value
          request,
          size,      \* inode_val.size
          phase,     \* "check", "find", "back", "extent", "chunk", "done" or "error"
          kv,        \* the answer in hand
          first,     \* is the next extent the first one?
          skip,      \* skip_bytes
          left,      \* size_remaining
          block,     \* current_block
          blocks,    \* blocks_remaining
          out        \* the bytes written

vars == <<vol, request, size, phase, kv, first, skip, left, block, blocks, out>>

File == vol.inode[request.inode]
Readable == File.kind \in {"file", "link"}

\* How many bytes are wanted of a file of the size that has been loaded.
Wanted(loaded) ==
    IF request.size = -1 THEN loaded - request.offset ELSE Min({request.size, loaded - request.offset})

Init ==
    /\ vol \in Volumes
    /\ request \in Requests
    /\ request.inode \in DOMAIN vol.inode
    /\ size = 0 /\ phase = "check" /\ kv = Answer(Sentinel, TRUE) /\ first = TRUE
    /\ skip = 0 /\ left = 0 /\ block = 0 /\ blocks = 0 /\ out = <<>>

\* Is the call answered with an error, given the size that has been loaded?
Refused(loaded) ==
    ~Readable \/ request.size < -1 \/ request.offset < 0 \/ request.offset > loaded

\* load_inode and the checks.
Check ==
    /\ phase = "check"
    /\ size' \in SizesOf(parse_xfields(Written(File.fields)), Unset)
    /\ IF Refused(size') THEN phase' = "error" /\ UNCHANGED left
       ELSE IF request.offset = size' THEN phase' = "done" /\ UNCHANGED left
       ELSE phase' = "find" /\ left' = Wanted(size')
    /\ UNCHANGED <<vol, request, kv, first, skip, block, blocks, out>>

OffsetKey == Key(File.private, FileExtent, request.offset)

\* kv = upper_bound(key)
Find ==
    /\ phase = "find"
    /\ kv' = UpperBound(vol.keys, vol.starts, OffsetKey)
    /\ phase' = "back"
    /\ UNCHANGED <<vol, request, size, first, skip, left, block, blocks, out>>

\* kv = prev(kv.key)
StepBack ==
    /\ phase = "back"
    /\ kv' = Prev(vol.keys, kv.key)
    /\ phase' = "extent"
    /\ UNCHANGED <<vol, request, size, first, skip, left, block, blocks, out>>

\* The record in hand is an extent, of whatever file, and bytes are still wanted.
MoreExtents == left # 0 /\ kv.key # Sentinel /\ kv.key.type = FileExtent

\* Mutant: every extent is entered at the offset.
Skipped_Always == request.offset - kv.key.sub

\* The first extent may begin before the offset.
Skipped == IF first THEN request.offset - kv.key.sub ELSE skip

\* The value of the answer; that of an index entry, the object id of a child, is
\* shorter than an extent's and anything is read behind it.
ValueInHand == IF kv.isRecord THEN {vol.extent[kv.key]} ELSE Garbage

EnterExtent ==
    /\ phase = "extent" /\ MoreExtents
    /\ first' = FALSE
    /\ skip' = Skipped
    /\ \E val \in ValueInHand :
          block' = val.phys /\ blocks' = val.len \div BlockSize
    /\ phase' = "chunk"
    /\ UNCHANGED <<vol, request, size, kv, left, out>>

Done ==
    /\ phase = "extent" /\ ~MoreExtents
    /\ phase' = "done"
    /\ UNCHANGED <<vol, request, size, kv, first, skip, left, block, blocks, out>>

ChunkBlocks == IF blocks < MaxChunk THEN blocks ELSE MaxChunk

\* The bytes of the chunk that are written, after skip.
ChunkTake(bytes) == IF bytes - skip < left THEN bytes - skip ELSE left

ByteOf(n) == [block |-> block + n \div BlockSize, at |-> n % BlockSize]

ReadChunk ==
    /\ phase = "chunk" /\ blocks > 0 /\ left > 0
    /\ LET bytes == ChunkBlocks * BlockSize
       IN  IF skip >= bytes
           THEN skip' = skip - bytes /\ UNCHANGED <<out, left>>
           ELSE /\ out' = out \o [n \in 1 .. ChunkTake(bytes) |-> ByteOf(skip + n - 1)]
                /\ left' = left - ChunkTake(bytes)
                /\ skip' = 0
    /\ block' = block + ChunkBlocks
    /\ blocks' = blocks - ChunkBlocks
    /\ UNCHANGED <<vol, request, size, phase, kv, first>>

NextExtent == UpperBound(vol.keys, vol.starts, kv.key)

LeaveExtent ==
    /\ phase = "chunk" /\ (blocks = 0 \/ left = 0)
    /\ kv' = NextExtent
    /\ phase' = "extent"
    /\ UNCHANGED <<vol, request, size, first, skip, left, block, blocks, out>>

Next == Check \/ Find \/ StepBack \/ EnterExtent \/ Done \/ ReadChunk \/ LeaveExtent

Spec == Init /\ [][Next]_vars

-----------------------------------------------------------------------------
(* Properties *)

\* The byte of the file at a logical address, by the extent that covers it.
ByteAt(addr) ==
    LET key == CHOOSE k \in vol.keys :
                   /\ k.oid = File.private /\ k.type = FileExtent
                   /\ k.sub <= addr /\ addr < k.sub + vol.extent[k].len
    IN  [block |-> vol.extent[key].phys + (addr - key.sub) \div BlockSize,
         at |-> (addr - key.sub) % BlockSize]

\* The size that was written: a file without a stream has no bytes.
FileSize ==
    LET sizes == {File.fields[n].data[1] : n \in {m \in DOMAIN File.fields :
                                                     File.fields[m].type = "dstream"}}
    IN  IF sizes = {} THEN 0 ELSE Min(sizes)

\* How many bytes the call asks for.
Asked == IF request.size < -1 \/ request.offset \notin 0 .. FileSize THEN 0
         ELSE IF request.size = -1 THEN FileSize - request.offset
         ELSE Min({request.size, FileSize - request.offset})

\* Is out the first bytes of what the call asks for, and all of it?
PartOfAsked ==
    /\ Len(out) <= Asked
    /\ \A n \in DOMAIN out : out[n] = ByteAt(request.offset + n - 1)
AllOfAsked == PartOfAsked /\ Len(out) = Asked

\* A range of index nodes starts with an extent of the file, behind the offset.
Crosses ==
    \E k \in vol.starts :
        k.oid = File.private /\ k.type = FileExtent /\ k.sub > request.offset

\* What is written is always a part of what was asked for, from its beginning:
\* never a byte of another file or of another place, however the offset and the
\* size lie against extents and chunks, and nothing at all of a file whose size
\* was never set.
OnlyWhatWasAsked == phase # "check" /\ ~Crosses => PartOfAsked

\* The record behind the extent that holds the offset is SENTINEL, whose key is
\* the least of all.
ExtentIsLast == UpperBound(vol.keys, vol.starts, OffsetKey).key = Sentinel

\* A call that is not refused answers all it was asked for, wherever the size lies
\* among the extended fields, unless the extent that holds the offset is the last
\* record of the volume.
AllThatWasAsked == phase = "done" /\ ~ExtentIsLast /\ ~Crosses => AllOfAsked

\* tests/Read.cpp:47 expects every byte of the file; here at least on the volumes
\* whose tree has no index range that starts inside of the file.
WholeRange == phase = "done" /\ ~Crosses => AllOfAsked
=============================================================================
