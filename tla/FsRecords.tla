------------------------------ MODULE FsRecords ------------------------------
(***************************************************************************)
(* The records of a file system tree as its clients see them: the keys     *)
(* compare_j_key_t orders, and the answers of BTree::upper_bound,          *)
(* lower_bound and prev over them, each in one step.  What they answer is  *)
(* what BTree checks and ObjectMapProofs proves: prev finds a record; the  *)
(* bounds find the key, but at the start of a range of index nodes they    *)
(* answer with the index entry, which has the key and not the value.       *)
(***************************************************************************)
EXTENDS Integers

\* The types of j_key_t that the readers tell apart.
Inode == 3       \* APFS_TYPE_INODE
Xattr == 4       \* APFS_TYPE_XATTR
DstreamId == 6   \* APFS_TYPE_DSTREAM_ID
FileExtent == 8  \* APFS_TYPE_FILE_EXTENT
DirRec == 9      \* APFS_TYPE_DIR_REC

\* sub is what a key of its type has behind oid and type: the rank of its name,
\* or of the hash and name, or the logical address.
Key(oid, type, sub) == [oid |-> oid, type |-> type, sub |-> sub]

Less(l, r) ==
    \/ l.oid < r.oid
    \/ l.oid = r.oid /\ l.type < r.type
    \/ /\ l.oid = r.oid /\ l.type = r.type
       /\ l.type \in {Xattr, FileExtent, DirRec}
       /\ l.sub < r.sub

\* numeric_limits<j_key_t>::max() is not specialised: the key of SENTINEL is zero.
Sentinel == Key(0, 0, 0)

LeastOf(keys) ==
    IF keys = {} THEN Sentinel ELSE CHOOSE k \in keys : \A q \in keys : ~Less(q, k)
GreatestOf(keys) ==
    IF keys = {} THEN Sentinel ELSE CHOOSE k \in keys : \A q \in keys : ~Less(k, q)

\* An answer: its key, and whether its value is that of the record.
Answer(key, isRecord) == [key |-> key, isRecord |-> isRecord]

\* keys: the keys of the records; starts: those a range of index nodes starts with.
UpperBound(keys, starts, key) ==
    LET k == LeastOf({r \in keys : Less(key, r)}) IN Answer(k, k \notin starts)
LowerBound(keys, starts, key) ==
    LET k == LeastOf({r \in keys : ~Less(r, key)}) IN Answer(k, k \notin starts)
Prev(keys, key) == Answer(GreatestOf({r \in keys : Less(r, key)}), TRUE)
=============================================================================
