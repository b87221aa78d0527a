----------------------------- MODULE Checkpoint -----------------------------
(***************************************************************************)
(* Opening a container (Partition.cpp): the scan of the checkpoint         *)
(* descriptor area for the newest checkpoint that is complete.             *)
(*                                                                         *)
(* The area is a ring.  A checkpoint is a run of checkpoint-map blocks     *)
(* followed by a superblock, all with the checkpoint's transaction id; the *)
(* maps name the blocks of the data area that hold its ephemeral objects.  *)
(* The writer of the container is not part of libapfs: it is modelled as   *)
(* far as the scan relies on it.  It writes the blocks of one checkpoint   *)
(* at a time, in any order, may die between any two writes or in the       *)
(* middle of one, and never overwrites its last committed checkpoint.      *)
(***************************************************************************)
EXTENDS Integers, Sequences, FiniteSets, FiniteSetsExt

CONSTANTS DescBlocks,   \* nx_xp_desc_blocks
          DataBlocks,   \* blocks of the checkpoint data area
          MaxMaps,      \* bound: checkpoint-map blocks of a checkpoint
          MaxXid        \* bound: transactions the writer starts

ASSUME SizeAssumption ==
    /\ DescBlocks \in Nat /\ DataBlocks \in Nat /\ MaxMaps \in Nat \ {0}
    /\ MaxXid \in Nat \ {0}
    /\ 2 * (MaxMaps + 1) <= DescBlocks
    /\ 2 * MaxMaps <= DataBlocks

VARIABLES desc,         \* the descriptor area, a ring of blocks
          data,         \* the data area: the transaction of each object, see Object
          made,         \* made[x]: where the writer puts checkpoint x
          xid,          \* the last transaction started
          pending,      \* its blocks that are not written yet
          committed,    \* the last checkpoint the writer finished
          phase,        \* "writing", "scanning", "picking", "loaded", "threw", "undefined"
          i,            \* the slot the scan has reached
          containers,   \* the checkpoints the scan has accepted
          container     \* the transaction of the container that was picked

disk == <<desc, data>>
writer == <<made, xid, pending, committed>>
reader == <<i, containers, container>>
checkpoint == <<disk, writer, phase, reader>>

Slots == 0 .. DescBlocks - 1
Places == 0 .. DataBlocks - 1
Xids == 1 .. MaxXid

\* Blocks as the scan sees them.  A torn or blank block fails its checksum.
Blank == [type |-> "blank", xid |-> 0, len |-> 0, place |-> 0, ok |-> FALSE]
Super(x, n) == [type |-> "super", xid |-> x, len |-> n, place |-> 0, ok |-> TRUE]
Map(x, p) == [type |-> "map", xid |-> x, len |-> 0, place |-> p, ok |-> TRUE]
Torn(b) == [b EXCEPT !.ok = FALSE]
Object(x) == [xid |-> x, ok |-> TRUE]

-----------------------------------------------------------------------------
(* The writer *)

\* Checkpoint x takes n map blocks from slot s on, and n objects from place p on.
At(s, p, n) == [slot |-> s, place |-> p, maps |-> n]
SuperSlot(c) == (c.slot + c.maps) % DescBlocks

\* The blocks of checkpoint x made at c: its maps and superblock, and its objects.
BlocksAt(x, c) ==
    {[area |-> "desc", at |-> (c.slot + m) % DescBlocks,
      block |-> IF m = c.maps THEN Super(x, c.maps + 1)
                ELSE Map(x, (c.place + m) % DataBlocks)] : m \in 0 .. c.maps}
    \cup {[area |-> "data", at |-> (c.place + m) % DataBlocks,
           block |-> Object(x)] : m \in 0 .. c.maps - 1}

Blocks(x) == BlocksAt(x, made[x])

Holds(w) == IF w.area = "desc" THEN desc[w.at] = w.block ELSE data[w.at] = w.block

Put(w, b) ==
    IF w.area = "desc" THEN desc' = [desc EXCEPT ![w.at] = b] /\ UNCHANGED data
    ELSE data' = [data EXCEPT ![w.at] = b] /\ UNCHANGED desc

\* The container as it was made: checkpoint 1 is on disk.
CheckpointInit ==
    /\ \E n \in 1 .. MaxMaps :
          /\ made = [x \in Xids |-> At(0, 0, n)]
          /\ desc = [s \in Slots |-> IF s < n THEN Map(1, s)
                                     ELSE IF s = n THEN Super(1, n + 1) ELSE Blank]
          /\ data = [p \in Places |-> IF p < n THEN Object(1) ELSE Torn(Object(0))]
    /\ xid = 1
    /\ pending = {}
    /\ committed = 1
    /\ phase = "writing"
    /\ i = 0
    /\ containers = {}
    /\ container = 0

\* The next checkpoint goes behind the last committed one, in both rings.
StartCheckpoint ==
    /\ phase = "writing"
    /\ pending = {}
    /\ xid < MaxXid
    /\ xid' = xid + 1
    /\ \E n \in 1 .. MaxMaps :
          LET last == made[committed]
              next == At((SuperSlot(last) + 1) % DescBlocks,
                         (last.place + last.maps) % DataBlocks, n)
          IN  /\ made' = [made EXCEPT ![xid + 1] = next]
              /\ pending' = BlocksAt(xid + 1, next)
    /\ UNCHANGED <<disk, committed, phase, reader>>

WriteBlock ==
    /\ phase = "writing"
    /\ \E w \in pending :
          /\ Put(w, w.block)
          /\ pending' = pending \ {w}
    /\ committed' = IF pending' = {} THEN xid ELSE committed
    /\ UNCHANGED <<made, xid, phase, reader>>

\* The writer dies, between two writes or in the middle of one.
Crash ==
    /\ phase = "writing"
    /\ \/ UNCHANGED disk
       \/ \E w \in pending : Put(w, Torn(w.block))
    /\ phase' = "scanning"
    /\ pending' = {}
    /\ i' = 0
    /\ containers' = {}
    /\ container' = 0
    /\ UNCHANGED <<made, xid, committed>>

\* The container is mounted read-write again, by a writer that goes on from the
\* last checkpoint it finished with a transaction id of its own.
Resume ==
    /\ phase \in {"loaded", "threw"}
    /\ xid < MaxXid
    /\ phase' = "writing"
    /\ i' = 0
    /\ containers' = {}
    /\ container' = 0
    /\ UNCHANGED <<disk, writer>>

-----------------------------------------------------------------------------
(* The scan *)

\* The slots that the loop of a superblock at slot s walks back over.
Back(s, j) == (s - j + DescBlocks) % DescBlocks

\* Mutant: the loop counts the superblock as a map block.
MapsRead_OneMore(s) ==
    LET len == desc[s].len
        stops == {j \in 1 .. len : ~desc[Back(s, j)].ok \/ desc[Back(s, j)].xid # desc[s].xid}
    IN  IF stops = {} THEN len ELSE Min(stops)

\* The number of map blocks the loop reads: it stops at the first one of another
\* transaction, and a block with a bad checksum throws.
MapsRead(s) ==
    LET len == desc[s].len - 1
        stops == {j \in 1 .. len : ~desc[Back(s, j)].ok \/ desc[Back(s, j)].xid # desc[s].xid}
    IN  IF stops = {} THEN len ELSE Min(stops)

MapThrows(s) == MapsRead(s) > 0 /\ ~desc[Back(s, MapsRead(s))].ok

\* Every map block is of the superblock's transaction.
MapsMatch(s) ==
    \A j \in 1 .. desc[s].len - 1 : desc[Back(s, j)].xid = desc[s].xid

Objects(s) == {desc[Back(s, j)].place : j \in 1 .. desc[s].len - 1}

IsCandidate(s) == desc[s].type = "super" /\ desc[s].ok

\* Mutant: the ephemeral objects are read but not compared.
Accepts_AnyObject(s) == MapsMatch(s)

Accepts(s) == MapsMatch(s) /\ \A p \in Objects(s) : data[p].xid = desc[s].xid

\* read_object of a map or of an ephemeral object fails its checksum: the whole
\* constructor throws.  The objects are read only if all maps matched.
Throws(s) ==
    \/ MapThrows(s)
    \/ MapsMatch(s) /\ \E p \in Objects(s) : ~data[p].ok

ScanSlot ==
    /\ phase = "scanning"
    /\ i < DescBlocks
    /\ IF IsCandidate(i) /\ Throws(i)
       THEN phase' = "threw" /\ UNCHANGED <<i, containers>>
       ELSE /\ i' = i + 1
            /\ containers' = IF IsCandidate(i) /\ Accepts(i)
                             THEN containers \cup {desc[i].xid} ELSE containers
            /\ phase' = IF i' = DescBlocks THEN "picking" ELSE phase
    /\ UNCHANGED <<disk, writer, container>>

\* Mutant: the first checkpoint of the area is taken instead of the newest one.
Pick_Oldest ==
    /\ phase = "picking"
    /\ IF containers = {} THEN phase' = "undefined" /\ UNCHANGED container
       ELSE phase' = "loaded" /\ container' = Min(containers)
    /\ UNCHANGED <<disk, writer, i, containers>>

\* *max_element of an empty vector is undefined.
Pick ==
    /\ phase = "picking"
    /\ IF containers = {} THEN phase' = "undefined" /\ UNCHANGED container
       ELSE phase' = "loaded" /\ container' = Max(containers)
    /\ UNCHANGED <<disk, writer, i, containers>>

Scan == ScanSlot \/ Pick

CheckpointNext == StartCheckpoint \/ WriteBlock \/ Crash \/ Resume \/ Scan

CheckpointSpec == CheckpointInit /\ [][CheckpointNext]_checkpoint /\ WF_checkpoint(Scan)

-----------------------------------------------------------------------------
(* Properties *)

\* Every block of checkpoint x, its objects included, is on disk as it was written.
Intact(x) == \A w \in Blocks(x) : Holds(w)

\* A container that loads is a complete checkpoint: every map block and every
\* ephemeral object of it is the one its own transaction wrote, whatever the
\* writer left of later checkpoints and of older ones.
LoadedIsIntact == phase = "loaded" => Intact(container)

\* The newest complete checkpoint is loaded, so never one before the last one
\* the writer committed.
LoadedIsNewest ==
    phase = "loaded" => /\ committed <= container
                        /\ \A x \in 1 .. xid : Intact(x) => x <= container

\* The scan gives up only over a block whose checksum is bad, next to a
\* superblock of a checkpoint that is not complete: a disk on which no write was
\* cut short or left out always loads.  It never ends without a container to pick:
\* max_element is taken of at least one.
ThrowsOverIncomplete ==
    /\ phase = "threw" => /\ IsCandidate(i)
                          /\ \A x \in 1 .. xid : desc[i].xid = x => ~Intact(x)
    /\ phase # "undefined"
=============================================================================
