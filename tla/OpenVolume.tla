----------------------------- MODULE OpenVolume -----------------------------
(***************************************************************************)
(* A verb of the command line from the disk's file to a volume             *)
(* (PartitionVerb, VolumeVerb, apfs.cpp: disk and partition): the partition *)
(* table is read (GuidTable), a partition and a volume are chosen, every   *)
(* reader on the way shares one FILE (BlockReader), and whatever throws    *)
(* unwinds what has been built.                                            *)
(*                                                                         *)
(* The options, the types of the partitions and the damage of a block are  *)
(* chosen when they are looked at.                                         *)
(***************************************************************************)
EXTENDS GuidTable, Fletcher

CONSTANTS ObjectWords,  \* bound: words of an object behind its checksum
          MaxAPFS,      \* bound: APFS partitions on the disk
          MaxVolumes    \* bound: volumes of a container

ASSUME OpenAssumption == ObjectWords \in Nat /\ MaxAPFS \in Nat /\ MaxVolumes \in Nat

\* The sums of an object's words do not overflow: for a block of 4096 bytes they
\* stay below 2^51.
ASSUME SumsAssumption == ObjectWords * ((ObjectWords + 1) * Modulus) < 2 * 4^Width

VARIABLES pc,
          readers,      \* the readers that are alive, in the order of their construction
          file,         \* the FILE they share: "none", "open" or "closed"
          apfs,         \* the positions of the APFS partitions
          part,         \* --part: the position of the GUID, <<>> without the option
          partition,    \* the position of the partition that is loaded
          superblock,   \* what has become of its superblock, once it is accepted
          volumes,      \* how many volumes have been loaded, of how many
          volume        \* --volume, <<>> without the option

verb == <<pc, readers, file, apfs, part, partition, superblock, volumes, volume>>

NoVolumes == [loaded |-> 0, of |-> 0]

VerbInit ==
    /\ Init
    /\ pc = "start" /\ readers = <<>> /\ file = "none"
    /\ apfs = {} /\ part = <<>> /\ partition = -1
    /\ superblock = "not read" /\ volumes = NoVolumes /\ volume = <<>>

-----------------------------------------------------------------------------
(* Readers and their FILE *)

\* Mutant: a reader closes the FILE that another one still has.
LastReader_OneEarly(rest) == Len(rest) <= 1

\* ~BlockReader closes when use_count() is 1, which counts itself.
LastReader(rest) == rest = <<>>

Destroy(rest) ==
    /\ readers' = rest
    /\ file' = IF LastReader(rest) THEN "closed" ELSE file

\* The scopes are left for main(), which prints an error or returns.
Leave == pc' = "leaving"

\* By an exception or a return, what was built last is destroyed first.
Unwind ==
    /\ pc = "leaving"
    /\ IF readers = <<>> THEN pc' = "ended" /\ UNCHANGED <<readers, file>>
       ELSE Destroy(Front(readers)) /\ UNCHANGED pc
    /\ UNCHANGED <<vars, apfs, part, partition, superblock, volumes, volume>>

-----------------------------------------------------------------------------
(* The verb and its disk *)

\* An option twice or without a value, a second word or none for the disk: these
\* throw while there is nothing to destroy.
StartVerb ==
    /\ pc = "start"
    /\ pc' = "open" \/ Leave
    /\ UNCHANGED <<vars, readers, file, apfs, part, partition, superblock, volumes, volume>>

\* GuidTable's constructor copies the reader and checks the signatures of the MBR
\* and the GPT.
StartTable == pc' = "table" \/ Leave

\* BlockReader(filename, false), where fopen may fail, its copy in the disk and
\* the one in the table.
OpenDisk ==
    /\ pc = "open"
    /\ \/ Leave /\ UNCHANGED <<readers, file>>
       \/ readers' = <<"opened", "disk", "table">> /\ file' = "open" /\ StartTable
    /\ UNCHANGED <<vars, apfs, part, partition, superblock, volumes, volume>>

ReadTable == pc = "table" /\ Next /\ UNCHANGED verb

\* Only the disk's copy outlives its constructor.
TableRead ==
    /\ pc = "table" /\ loop = "done"
    /\ pc' = "choose" /\ Destroy(<<"disk">>)
    /\ \/ /\ part' = <<>>
          /\ apfs' \in {types \in SUBSET used : Cardinality(types) <= MaxAPFS}
       \/ /\ part' \in {<<p>> : p \in (used \cap InTable) \cup {DiskBlocks * PerBlock}}
          /\ UNCHANGED apfs
    /\ UNCHANGED <<vars, partition, superblock, volumes, volume>>

-----------------------------------------------------------------------------
(* get_partition and load_partition *)

Listed == {partitions[m] : m \in DOMAIN partitions}

\* Mutant: without --part the last APFS partition is taken.
Candidates_Last ==
    IF part # <<>> THEN Listed \cap {part[1]}
    ELSE IF apfs \cap Listed = {} THEN {} ELSE {Max(apfs \cap Listed)}

\* The partitions that fit: with a GUID that names one, without it all of type APFS.
Candidates == IF part # <<>> THEN Listed \cap {part[1]} ELSE Listed \cap apfs

GetPartition ==
    /\ pc = "choose"
    /\ IF Cardinality(Candidates) = 1
       THEN partition' \in Candidates /\ pc' = "load"
       ELSE Leave /\ UNCHANGED partition
    /\ UNCHANGED <<vars, readers, file, apfs, part, superblock, volumes, volume>>

\* An object as it was written, and what may have become of it: one word is
\* another, two neighbours are exchanged, or nothing was ever written.
Written == {Checksum(words) \o words : words \in [1 .. ObjectWords -> Words]}
Changed(object) ==
    {[object EXCEPT ![i] = word] : i \in DOMAIN object, word \in Words}
    \cup {[object EXCEPT ![i] = object[i + 1], ![i + 1] = object[i]] : i \in 3 .. Len(object) - 1}
    \cup {[i \in DOMAIN object |-> 0]}

\* Words that are all zeros and words that are all ones weigh the same.
Same(object, other) ==
    \A i \in DOMAIN object : object[i] % Modulus = other[i] % Modulus
Change(object, read) == IF Same(object, read) THEN "as written" ELSE "changed"

Accepted == UNION {{Change(object, read) : read \in {r \in Changed(object) : Verifies(r)}} :
                     object \in Written}
Refused == \E object \in Written : \E read \in Changed(object) : ~Verifies(read)

\* The Partition of the library: the checkpoint, the object map and the superblock
\* of every volume, where it may throw.
ReadVolumeList ==
    /\ \E n \in 0 .. MaxVolumes : volumes' = [loaded |-> 0, of |-> n]
    /\ pc' = "volumes" \/ Leave

\* The partition's reader, whose constructor checks the superblock: a reader whose
\* constructor throws was never there.  The reader of its Partition reads the same
\* block again.
LoadPartition ==
    /\ pc = "load"
    /\ \/ Refused /\ Leave /\ UNCHANGED <<readers, superblock, volumes>>
       \/ /\ superblock' \in Accepted
          /\ readers' = readers \o <<"reader", "part">>
          /\ ReadVolumeList
    /\ UNCHANGED <<vars, file, apfs, part, partition, volume>>

\* _init: a volume whose object map or root cannot be read ends it all.
LoadVolume ==
    /\ pc = "volumes" /\ volumes.loaded < volumes.of
    /\ \/ /\ volumes' = [volumes EXCEPT !.loaded = @ + 1]
          /\ readers' = Append(readers, "volume") /\ UNCHANGED pc
       \/ Leave /\ UNCHANGED <<volumes, readers>>
    /\ UNCHANGED <<vars, file, apfs, part, partition, superblock, volume>>

\* The disk of get_partition goes when the partition has been returned.
DiskGoes == Destroy(Tail(readers))

ReturnPartition ==
    /\ pc = "volumes" /\ volumes.loaded = volumes.of
    /\ pc' = "get volume" /\ DiskGoes
    /\ volume' \in {<<>>} \cup {<<v>> : v \in 1 .. volumes.of + 1}
    /\ UNCHANGED <<vars, apfs, part, partition, superblock, volumes>>

-----------------------------------------------------------------------------
(* get_volume and the verb *)

Ambiguous == volumes.of > 1

\* Without the option volumes[0] is taken, also when there is none.
GetVolume ==
    /\ pc = "get volume"
    /\ IF IF volume = <<>> THEN Ambiguous ELSE volume[1] > volumes.of
       THEN Leave /\ UNCHANGED readers
       ELSE IF volume = <<>> /\ volumes.of = 0
       THEN pc' = "undefined" /\ UNCHANGED readers
       ELSE pc' = "serving" /\ readers' = Append(readers, "chosen")
    /\ UNCHANGED <<vars, file, apfs, part, partition, superblock, volumes, volume>>

\* volume_handler returns or throws; the entries it works with have readers too.
Handle ==
    /\ pc = "serving"
    /\ Leave
    /\ UNCHANGED <<vars, readers, file, apfs, part, partition, superblock, volumes, volume>>

VerbNext ==
    \/ StartVerb \/ OpenDisk \/ ReadTable \/ TableRead \/ GetPartition \/ LoadPartition
    \/ LoadVolume \/ ReturnPartition \/ GetVolume \/ Handle \/ Unwind

\* A process runs until it ends.
VerbSpec == VerbInit /\ [][VerbNext]_<<vars, verb>> /\ WF_<<vars, verb>>(VerbNext)

-----------------------------------------------------------------------------
(* Properties *)

\* The verb works on the partition and the volume its options mean: those they
\* name, or the only ones there are.  Of a disk with more used entries than the
\* first block of the table holds, only what the table listed is compared.
ServesWhatIsMeant ==
    pc = "serving" =>
        /\ IF part # <<>> THEN partition = part[1]
           ELSE apfs \cap (IF used \subseteq 0 .. PerBlock - 1 THEN InTable ELSE Listed)
                = {partition}
        /\ IF volume # <<>> THEN volume[1] <= volumes.of ELSE volumes.of = 1

\* The FILE is open as long as a reader has it and closed when none is left,
\* wherever the construction stops and in whatever order the readers go.
FileIsShared ==
    /\ readers # <<>> => file = "open"
    /\ readers = <<>> => file # "open"

\* Nothing is built on a superblock of which one word has changed, two have been
\* exchanged or none was written, but for a word of zeros that is now all ones or
\* the reverse, which a sum modulo 2^Width - 1 cannot tell.
DamageIsRefused ==
    superblock \in {"not read", "as written"}

\* The verb ends, whatever it has opened or met.  A container without a
\* volume is the exception: the code reads an element that is not there.
VerbEnds == <>(pc = "ended" \/ (pc = "undefined" /\ volumes.of = 0))
=============================================================================
