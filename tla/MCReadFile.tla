----------------------------- MODULE MCReadFile -----------------------------
(***************************************************************************)
(* Blocks of two bytes and chunks of two blocks.  File 3 has an extent of  *)
(* three blocks and one of one, and ends inside the second; file 4 is a    *)
(* clone whose extents are those of another id; 5 is a directory, 6 a file *)
(* without a stream.  The field of a stream is the only one, or others of  *)
(* three and of eight bytes lie around it.  With the directory of id 8 an  *)
(* inode record is the last of the volume, without it an extent is.  A     *)
(* range of index nodes may start with any of three extents.               *)
(***************************************************************************)
EXTENDS ReadFile, TLC

Extents ==
    Key(3, FileExtent, 0) :> [phys |-> 20, len |-> 6]
    @@ Key(3, FileExtent, 6) :> [phys |-> 30, len |-> 2]
    @@ Key(7, FileExtent, 0) :> [phys |-> 40, len |-> 2]
    @@ Key(7, FileExtent, 2) :> [phys |-> 50, len |-> 4]

Stream(n) == [type |-> "dstream", data |-> <<n>> \o [k \in 1 .. 7 |-> 0]]
Name == [type |-> "name", data |-> <<1, 2, 3>>]
Sparse == [type |-> "sparse bytes", data |-> [k \in 1 .. 8 |-> 4]]

Fields(n) == {<<Stream(n)>>, <<Name, Stream(n)>>, <<Name, Sparse, Stream(n)>>,
              <<Sparse, Stream(n), Name>>}

Volume(dirs, starts, fields) ==
    [starts |-> starts,
     keys |-> DOMAIN Extents
              \cup {Key(i, Inode, 0) : i \in {3, 4, 6} \cup dirs}
              \cup {Key(i, DstreamId, 0) : i \in {3, 7}},
     extent |-> Extents,
     inode |-> [i \in {3, 4, 6} \cup dirs |->
                  IF i \in {3, 4}
                  THEN [kind |-> "file", fields |-> fields[i], private |-> IF i = 3 THEN 3 ELSE 7]
                  ELSE [kind |-> IF i = 6 THEN "file" ELSE "dir", fields |-> <<Name>>,
                        private |-> i]]]

MCVolumes == {Volume(dirs, starts, 3 :> three @@ 4 :> four) :
                 dirs \in {{5}, {5, 8}},
                 starts \in {{}, {Key(3, FileExtent, 0)}, {Key(3, FileExtent, 6)},
                            {Key(7, FileExtent, 2)}},
                 three \in Fields(7), four \in {<<Name, Stream(6)>>}}
MCGarbage == {[phys |-> 0, len |-> 0], [phys |-> 90, len |-> 4]}
MCRequests == [inode : {3, 4, 5, 6}, offset : -1 .. 8, size : -2 .. 8]
=============================================================================
