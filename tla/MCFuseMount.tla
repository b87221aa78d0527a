---------------------------- MODULE MCFuseMount ----------------------------
EXTENDS FuseMount, TLC

DirRecords == <<
    <<Key(1, DirRec, 1), 2, "dir">>,
    <<Key(2, DirRec, 1), 3, "dir">>,
    <<Key(2, DirRec, 2), 6, "link">>,
    <<Key(3, DirRec, 1), 4, "file">>,
    <<Key(3, DirRec, 2), 6, "link">>,
    <<Key(3, DirRec, 3), 5, "dir">> >>

Entries == [k \in {DirRecords[n][1] : n \in DOMAIN DirRecords} |->
              LET n == CHOOSE m \in DOMAIN DirRecords : DirRecords[m][1] = k
              IN  [id |-> DirRecords[n][2], type |-> DirRecords[n][3]]]

File4 == [id |-> 4, type |-> "file"]

\* The file of inode 4 has two extents with the id private, and the link target.
Volume(starts, bad, private, target) ==
    [keys |-> DOMAIN Entries \cup {Key(i, Inode, 0) : i \in 2 .. 6} \cup {Key(4, DstreamId, 0)}
              \cup {Key(private, FileExtent, a) : a \in {0, 2}},
     starts |-> {Key(1, DirRec, 1)} \cup starts,
     bad |-> bad,
     entry |-> Entries,
     target |-> [i \in {6} |-> target],
     bytes |-> [i \in 0 .. 6 |-> IF i = 4 THEN <<"a", "b", "c">> ELSE <<>>],
     private |-> [i \in 0 .. 6 |-> IF i = 4 THEN private ELSE i]]

\* Index entries at a name, an extent and an inode, nodes that cannot be read, an
\* extent that is the last record, an index entry between two extents, a cycle.
MCVolumes ==
    {Volume({}, {}, 4, File4),
     Volume({Key(3, DirRec, 2)}, {}, 4, File4),
     Volume({Key(4, FileExtent, 0)}, {Key(5, Inode, 0), Key(6, Inode, 0)}, 4, File4),
     Volume({Key(5, Inode, 0)}, {}, 4, File4),
     Volume({}, {}, 7, Failed("error")),
     Volume({Key(4, FileExtent, 2)}, {}, 4, Failed("abort"))}

MCPaths == {<<1>>, <<1, 1>>, <<2>>}
ProcessSymmetry == Permutations(Processes)
=============================================================================
