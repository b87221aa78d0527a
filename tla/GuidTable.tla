----------------------------- MODULE GuidTable -----------------------------
(***************************************************************************)
(* Reading the partition table (GuidTable.cpp): the loop over the blocks   *)
(* of the GPT entry array.  An entry is used or not; a listed partition is *)
(* known by the position of its entry on disk, counted from the first      *)
(* entry of the array.  The loop may leave the array: the blocks behind it *)
(* hold anything, and what is not zero there is taken for an entry.        *)
(***************************************************************************)
EXTENDS Integers, Sequences, FiniteSets

CONSTANTS PerBlock,     \* entries of a block: BLOCK_SIZE / sizeof(EFI_PARTITION_ENTRY)
          Entries,      \* the values NumberOfPartitionEntries may have
          DiskBlocks    \* bound: blocks of the disk from PartitionEntryLBA on

ASSUME TableAssumption ==
    /\ PerBlock \in Nat \ {0}
    /\ Entries \subseteq Nat
    /\ DiskBlocks \in Nat

VARIABLES count,        \* header.NumberOfPartitionEntries
          used,         \* the positions whose type GUID is not zero
          num_left,     \* entries the loop still has to account for
          partitions,   \* the partitions listed so far, by position
          loop          \* "reading" or "done"

vars == <<count, used, num_left, partitions, loop>>

Positions == 0 .. DiskBlocks * PerBlock - 1
InTable == 0 .. count - 1

Init ==
    /\ count \in Entries
    /\ used \in SUBSET Positions
    /\ num_left = count
    /\ partitions = <<>>
    /\ loop = "reading"

\* The block the loop reads next, counted from PartitionEntryLBA.
BlockToRead == Len(partitions)

\* Mutant: the last entry of a whole block is left out.
ToTake_OneLess == IF num_left < PerBlock THEN num_left ELSE PerBlock - 1

\* min(num_left, entries of a block)
ToTake == IF num_left < PerBlock THEN num_left ELSE PerBlock

\* A set of positions in the order they have on disk.
InDiskOrder(S) ==
    CHOOSE s \in [1 .. Cardinality(S) -> S] :
        /\ \A p \in S : \E m \in DOMAIN s : s[m] = p
        /\ \A m, n \in DOMAIN s : m < n => s[m] < s[n]

\* The used entries among the first ToTake of block b.
UsedOf(b) == used \cap (b * PerBlock .. b * PerBlock + ToTake - 1)
Found(b) == InDiskOrder(UsedOf(b))

\* Mutant: only the entries that were used are accounted for.
ReadBlock_CountsUsed ==
    /\ num_left > 0
    /\ BlockToRead < DiskBlocks
    /\ partitions' = partitions \o Found(BlockToRead)
    /\ num_left' = num_left - Len(Found(BlockToRead))
    /\ UNCHANGED <<count, used, loop>>

ReadBlock ==
    /\ num_left > 0
    /\ BlockToRead < DiskBlocks
    /\ partitions' = partitions \o Found(BlockToRead)
    /\ num_left' = num_left - ToTake
    /\ UNCHANGED <<count, used, loop>>

Finish ==
    /\ loop = "reading"
    /\ num_left <= 0
    /\ loop' = "done"
    /\ UNCHANGED <<count, used, num_left, partitions>>

Next == ReadBlock \/ Finish

Spec == Init /\ [][Next]_vars /\ WF_vars(Next)

-----------------------------------------------------------------------------
(* Properties *)

\* No entry is listed twice or out of order, whatever blocks the loop repeats
\* or skips: the list names used entries in the order they have on disk.
InOrder ==
    /\ \A m \in DOMAIN partitions : partitions[m] \in used
    /\ \A m, n \in DOMAIN partitions : m < n => partitions[m] < partitions[n]

\* A table whose used entries are all in its first block is listed in full, and
\* nothing behind the table is taken for an entry: the loop then reads one block
\* of the table again and again, and that block is either the first, which has no
\* used entry, or a later one that is whole.  The code never compares the block
\* it reads with the end of the table; it is the length of the table, more whole
\* blocks than a block has entries, that keeps it inside.
FirstBlockListed ==
    loop = "done" /\ used \cap InTable \subseteq 0 .. PerBlock - 1
                  /\ count >= (PerBlock + 1) * PerBlock =>
        {partitions[m] : m \in DOMAIN partitions} = used \cap InTable

\* The list of partitions: in order, and complete if the first block of the table
\* holds all that is used.
TableListed == InOrder /\ FirstBlockListed
=============================================================================
