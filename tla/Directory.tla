----------------------------- MODULE Directory -----------------------------
(***************************************************************************)
(* What a client of a volume gets for a path, for a directory's children,  *)
(* for an inode and for a part of a file (apfs.cpp: list_children,         *)
(* load_inode, read_file and, for one component after the other, resolve). *)
(*                                                                         *)
(* A volume is a record: keys, the keys of its records; starts, those a    *)
(* range of index nodes that can be read starts with; bad, those in leaves *)
(* that cannot be read; entry, the inode and type a directory record names; *)
(* target, where a link leads, which PathResolve is about; bytes, the file *)
(* of an inode, and private, the id of its extents: ReadFile is about how  *)
(* they are read.                                                          *)
(*                                                                         *)
(* A call ends in one of three ways: with its result, with an apfs::Error, *)
(* which the callers catch, or with the program: by std::length_error,     *)
(* which nobody catches (b_cast subtracts the size of a struct from that   *)
(* of a value, and the value of an index entry is shorter than an inode's  *)
(* or a directory record's), or because a cycle of links exhausts the      *)
(* stack, which PathResolve shows.                                         *)
(***************************************************************************)
EXTENDS FsRecords, SequencesExt

Root == 2   \* ROOT_DIR_INO_NUM

Failed(how) == [id |-> 0, type |-> how]
Failures == {Failed("error"), Failed("abort")}

\* The file extents of an inode.
Extents(vol, id) == {k \in vol.keys : k.oid = vol.private[id] /\ k.type = FileExtent}

\* A volume as it should have been written: every directory, and every entry a
\* record or a link names, has its inode, and a file with bytes an extent for the
\* first; a link may lead nowhere, or round in a cycle; and no name is below the
\* key the search for the children starts from.
HasInode(vol, entry) ==
    /\ entry.id \in Nat /\ entry.id >= Root /\ Key(entry.id, Inode, 0) \in vol.keys
    /\ entry.id \in DOMAIN vol.bytes
WellFormed(vol) ==
    /\ IsFiniteSet(vol.keys)
    /\ vol.keys \subseteq [oid : Nat, type : Nat, sub : Nat]
    /\ HasInode(vol, [id |-> Root])
    /\ \A id \in DOMAIN vol.bytes :
          /\ vol.bytes[id] \in Seq(Range(vol.bytes[id])) /\ vol.private[id] \in Nat
          /\ vol.bytes[id] # <<>> => Key(vol.private[id], FileExtent, 0) \in vol.keys
    /\ \A k \in {r \in vol.keys : r.type = DirRec} :
          /\ k.sub # 0 /\ (k.oid > Root => Key(k.oid, Inode, 0) \in vol.keys)
          /\ HasInode(vol, vol.entry[k])
          /\ vol.entry[k].type = "link" =>
                LET to == vol.target[vol.entry[k].id]
                IN  HasInode(vol, to) \/ to \in Failures

\* The leaves a search for key reads, by a key in each: the leaf of the last key
\* that is not above, and that of the answer.  An index entry is answered without
\* its leaf.
LeavesRead(vol, key, answer) ==
    LET last == GreatestOf({k \in vol.keys : ~Less(key, k)})
    IN  IF answer.isRecord THEN {last, answer.key} ELSE {last} \ {answer.key}

\* How a search for key ends whose answer is read as a record.
Outcome(vol, key, answer) ==
    IF LeavesRead(vol, key, answer) \cap vol.bad # {} THEN "error"
    ELSE IF answer.isRecord THEN "ok" ELSE "abort"

-----------------------------------------------------------------------------
(* Paths: sequences of names *)

\* The type is that of the entry's dirent; a link is followed.
Follow(vol, entry) == IF entry.type = "link" THEN vol.target[entry.id] ELSE entry

\* One component, looked up in the entry at.
Step(vol, at, name) ==
    IF at \in Failures THEN at
    ELSE IF at.type # "dir" THEN Failed("error")
    ELSE LET key == Key(at.id, DirRec, name)
             answer == LowerBound(vol.keys, vol.starts, key)
             how == Outcome(vol, key, answer)
         IN  IF how = "error" \/ answer.key # key THEN Failed("error")
             ELSE IF how = "abort" THEN Failed("abort")
             ELSE Follow(vol, vol.entry[key])

\* at[n] is where the first n names lead.
Walk(vol, path) ==
    LET at[n \in 0 .. Len(path)] ==
            IF n = 0 THEN [id |-> Root, type |-> "dir"] ELSE Step(vol, at[n - 1], path[n])
    IN  at

NavigateTo(vol, path) == Walk(vol, path)[Len(path)]

-----------------------------------------------------------------------------
(* The children of a directory *)

\* The loop's condition compares the type, not the directory.
IsChild(key) == key.type = DirRec

\* The search for the first child starts below all names, the next one at a child.
NextAnswer(vol, start, key) ==
    IF key = start THEN LowerBound(vol.keys, vol.starts, start)
    ELSE UpperBound(vol.keys, vol.starts, key)

\* From each key on: the keys of the children behind it, and how the call ends.
Children(vol, start) ==
    LET from[key \in vol.keys \cup {start}] ==
            LET answer == NextAnswer(vol, start, key)
                how == Outcome(vol, key, answer)
            IN  IF how = "error" THEN [keys |-> <<>>, how |-> "error"]
                ELSE IF ~IsChild(answer.key) THEN [keys |-> <<>>, how |-> "ok"]
                ELSE IF how = "abort" THEN [keys |-> <<>>, how |-> "abort"]
                ELSE LET rest == from[answer.key]
                     IN  [keys |-> <<answer.key>> \o rest.keys, how |-> rest.how]
    IN  from

ListChildren(vol, dir) == Children(vol, Key(dir, DirRec, 0))[Key(dir, DirRec, 0)]

\* load_inode: what the answer is read as, it is not compared with the key.
LoadInode(vol, id) ==
    LET key == Key(id, Inode, 0)
        answer == LowerBound(vol.keys, vol.starts, key)
        how == Outcome(vol, key, answer)
    IN  IF how = "ok" THEN [id |-> answer.key.oid, type |-> "inode"] ELSE Failed(how)

-----------------------------------------------------------------------------
(* The bytes of a file *)

NextExtent(vol, key) == UpperBound(vol.keys, vol.starts, key)

\* No record lies behind the extent that holds the offset: the search for it gives
\* SENTINEL, and the step back from there SENTINEL again.
ExtentIsLast(vol, id, off) ==
    \A k \in vol.keys : ~Less(Key(vol.private[id], FileExtent, off), k)

\* The extents behind an offset that are answered with an index entry.
Torn(vol, id, off) == {k \in Extents(vol, id) \cap vol.starts : off < k.sub}

\* What may be written by read_file of the bytes behind the first off up to the
\* first upto.  It looks for the extent at off, then from each extent for the next.
\* An extent that is answered with an index entry has anything for its value: from
\* there on the bytes are those of some other blocks, or too few, or an error.
ReadFile(vol, id, off, upto) ==
    LET torn == {k.sub : k \in Torn(vol, id, off)} \cap off .. upto - 1
        sure == IF torn = {} THEN upto ELSE Min(torn)
        searched == {Key(vol.private[id], FileExtent, off)}
                    \cup {k \in Extents(vol, id) : off < k.sub /\ k.sub < sure}
        bytes == SubSeq(vol.bytes[id], off + 1, sure)
    IN  IF off = upto THEN {[how |-> "ok", bytes |-> <<>>]}
        ELSE IF \E key \in searched : Outcome(vol, key, NextExtent(vol, key)) = "error"
        THEN {[how |-> "error", bytes |-> <<>>]}
        ELSE IF ExtentIsLast(vol, id, off) THEN {[how |-> "ok", bytes |-> <<>>]}
        ELSE {[how |-> "ok", bytes |-> bytes \o [i \in 1 .. n |-> "other"]] : n \in 0 .. upto - sure}
             \cup (IF torn = {} THEN {} ELSE {[how |-> "error", bytes |-> <<>>]})
=============================================================================
