------------------------------ MODULE XFields ------------------------------
(***************************************************************************)
(* The extended fields of an inode (BlockReader::parse_xfields, inode_t):  *)
(* a count, a table of types and sizes, and the data of each field, which  *)
(* begins at a multiple of eight bytes behind the count.  A field is its   *)
(* type and its data; flags are left out.                                  *)
(***************************************************************************)
EXTENDS Integers, SequencesExt

Alignment == 8
EntrySize == 4   \* sizeof(x_field_t)

\* The bytes from there to the next multiple of eight.
Padding(at) == (-at) % Alignment

\* Mutant: the data of a field follows that of the one before.
Advance_Unpadded(at, count) == at + count

\* advance: past so many bytes, and on to the next multiple of eight.
Advance(at, count) == at + count + Padding(at + count)

\* Where the data of the n-th field ends, and the padding behind it.
EndOf(table) ==
    LET end[n \in 0 .. Len(table)] ==
            IF n = 0 THEN Advance(EntrySize * Len(table), 0)
            ELSE Advance(end[n - 1], table[n].size)
    IN  end

parse_xfields(blob) ==
    [n \in DOMAIN blob.table |->
        LET begin == EndOf(blob.table)[n - 1]
        IN  [type |-> blob.table[n].type,
             data |-> SubSeq(blob.bytes, begin + 1, begin + blob.table[n].size)]]

\* inode_t::size is that of the first data stream, whose size fits in its first
\* byte here, and is never set without one.
SizesOf(fields, unset) ==
    LET streams == {n \in DOMAIN fields : fields[n].type = "dstream"}
    IN  IF streams = {} THEN unset ELSE {fields[Min(streams)].data[1]}

\* The blob as it is written.
Written(fields) ==
    LET padded(bytes) == bytes \o [n \in 1 .. Padding(Len(bytes)) |-> 0]
        table == [n \in DOMAIN fields |-> [type |-> fields[n].type, size |-> Len(fields[n].data)]]
    IN  [table |-> table,
         bytes |-> padded([n \in 1 .. EntrySize * Len(fields) |-> 0])
                   \o FlattenSeq([n \in DOMAIN fields |-> padded(fields[n].data)])]
=============================================================================
