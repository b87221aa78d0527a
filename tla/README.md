# libapfs: a verification development

TLA+ modules, TLC configurations and TLAPS proofs kept beside the code of
libapfs, a read-only APFS reader: a C++ library (`src/src/lib`,
`src/include/libapfs`), a FUSE/WinFsp mount on top of it (`src/src/mount`), a
command line (`src/src/cli`) and a Windows desktop program (`src/src/wingui`).
Paths below are relative to the directory that holds `src/` and `tla/`.

## 1. The system: an inventory

### The library

| Part | State | Operations | What makes it correct |
|---|---|---|---|
| `BlockReader` (BlockReader.hpp/.cpp) | shared `FILE*`, partition offset, block size | `read_block(s)`, `read_object` (checks the Fletcher-64 checksum), `read_btree` | a block is returned only if its checksum is right; the file is closed once, by the last user |
| `checksum.cpp` | none | `calculate_fletcher64_checksum`, `verify_object_checksum` | no object with a changed word, or with two exchanged, is accepted |
| `GuidTable` | partition list | constructor: reads the GPT header and its entries | every entry with a type is listed once |
| extended fields (`parse_xfields`, `inode_t`) | none | the table of fields and their padded data | the size of a file is that of its stream, whatever fields lie around it |
| `Partition` | newest checkpoint, volumes' superblocks | constructor: scan of the checkpoint ring, object map, volumes | the newest complete checkpoint is used, whatever the last writer left behind |
| `BTree` | one parsed node per activation | `lower_bound`, `upper_bound`, `prev` | ordered-map answers on every well-formed tree |
| object maps (`volume::get_paddr`, `convert_v_oid`) | a B-tree of (oid, xid) | virtual object id to block address | the newest version the reader's transaction may see |
| `directory_entry` (apfs.cpp) | volume pointer, inode number, name, type | `list_children`, `resolve`, `follow_symlink`, `read_file`, `read_symlink`, `load_inode` | POSIX path resolution; a directory's children; a file's bytes |

The library is sequential. Its hard parts are searches that recurse over an
on-disk tree whose blocks may be unreadable, tree iteration with the key of the
last answer, a checkpoint ring that an earlier writer may have left in any
state, and symbolic links.

### The mount (`src/src/mount`, `cli/mount.cpp`)

`common.cpp` keeps `open_files`, a map from file handle to `directory_entry`,
and `fd`, the next handle. FUSE calls `open`, `getattr`, `read`, `readdir`,
`release`; libfuse runs with `-s`, one request at a time, so the interleaving is
that of whole handlers of several processes. `readdir` is resumed at an offset
by the kernel. Every write-like operation answers `-EROFS`.

### The Windows program (`src/src/wingui`)

| Part | State | Operations |
|---|---|---|
| `mount_manager` | none: it reads the process table and the drive letters | `enumerate_running_mounts`, `pick_free_drive_letter`, `launch_mount` (waits 800 ms for the helper), `terminate_mount` |
| `callbacks` | none | `apply_existing_mounts`, `populate_disk`, `list_disks`, `mount_volume`, `unmount_volume` |
| `AppWindow` | `disks_`, selection, scrolling, the places of the last paint (`hits_`) | clicks: select, expand, `toggle_mount`, `remove_disk`, `add_disk_from_dmg`; the wheel; `refresh_physical_disks` on a device change; painting |
| disk helper (client, server, protocol) | one elevated process, a named pipe, one thread per client | `list_disks`, `open_disk` with handle duplication; `watch_parent` |
| mount daemon | one process per mounted volume | opens the disk through the helper, mounts, serves until it is killed |

Several processes run at once: the program, the elevated helper with a thread
per connection, and a daemon per mount. The window's message loop re-enters
handlers from a modal message box. These are the parts with races, timeouts and
stale state.

### The command line (`src/src/cli`)

Option parsing and the choice of partition and volume: `main.cpp`,
`PartitionVerb.cpp`, `VolumeVerb.hpp`, then one verb per command.

### How the parts interact

`disk` -> `GuidTable` -> `partition` -> `Partition` (checkpoint, container object
map) -> `volume` (object map, file system tree) -> `directory_entry`. Every
access goes through `BlockReader`; every child of a file system tree node goes
through `get_paddr`, that is through two searches in another B-tree. The mount
keeps `directory_entry` values in its handle table. The Windows program starts
`apfs.exe` daemons, finds them again through the process table after a restart,
and opens physical disks through the elevated helper.

`PROJECT.json` lists every part under `components`, the ones that are not
modelled too, and every hazard at its line under `hazards`.

## 2. The modules

| Module | Models | Composed with |
|---|---|---|
| `BTree` | the three searches, one step per call and return | extended by `FloorSearch` |
| `FloorSearch` | `upper_bound`, then `prev`: the lookup of the last record at or below a key | implements `OrderedMap`, extended by `ObjectMap` |
| `OrderedMap` | abstract: that lookup in one atomic step, or an error | |
| `ObjectMap` | `volume::get_paddr` and `convert_v_oid` | |
| `BTreeInstances` | every small tree, for TLC | extended by the MC modules |
| `ObjectMapProofs` | theorems about these three | |
| `Checkpoint` | the constructor of `Partition`, against a writer that may die | `OpenVolumeProofs` |
| `GuidTable` | the loop over the partition entries | extended by `OpenVolume` |
| `Fletcher` | the checksum of an object, with its width | extended by `OpenVolume` |
| `OpenVolume` | a verb of the command line from the disk's file to a volume: the table, the choice of partition and volume, the shared `FILE`, unwinding | `OpenVolumeProofs` |
| `PathResolve` | `resolve` and `follow_symlink`, a stack of activations | compared with `PosixPath`, `PathResolveProofs` |
| `PosixPath` | reference: a walk that keeps the components still to go in one list | |
| `FsRecords` | the order of the keys and the answers of the searches, in one step each | extended by `ReadFile` and `Directory` |
| `XFields` | `parse_xfields` and the size that `inode_t` takes from it | extended by `ReadFile` |
| `ReadFile` | `read_file` | `ReadFileProofs` |
| `Directory` | `list_children`, `load_inode`, `navigate_to`, `read_file`, with their three ways to end | extended by `FuseMount` |
| `FuseMount` | the handlers of the mount, its table of handles, the kernel and the processes that use it | `FuseMountProofs` |
| `DiskHelper` | the elevated helper with a thread per connection, and its clients | `DiskHelperProofs` |
| `AppWindow` | the window's list of disks, its mounts and the mount helpers | `AppWindowProofs` |
| `Sidebar` | painting, the places on the screen, clicks, scrolling and scans | `SidebarProofs` |

`MC*` modules give the constants of a module their values for TLC. Definitions
marked "Mutant" are plausible mistakes in the definition below them; replacing
that definition by the mutant breaks the property named with it in
`PROJECT.json`, which shows that the property depends on it.

### 2.1 B-tree searches: `BTree`, `FloorSearch`, `ObjectMap`

*State and actions.* A search is a recursion, so the state is its call stack:
`node` is the node of the running activation, `frame[l]` the suspended
activation on level `l` (which range it chose and whether it has already turned
to the neighbouring one), `phase` says whether a call or a return is next and
`ret` is the `key_value_t` on its way up. One step is one call or one return,
so every block read is a step, and a block with a bad checksum ends the whole
search as the exception does. A value is abstracted to its place `[node, pos]`,
which is what tells a record from a child pointer.

*The trees.* `WellFormed` says what the code relies on: ascending keys, levels
that decrease by one, index keys that bound the records below from below (a
*stale* index key, smaller than the first record, is allowed), no empty node.
`under` is a ghost, the keys below a node.

*Runs.* `btree`: every search with every argument on every tree of one to three
levels over six keys, with stale index keys and at most one unreadable block.
Three levels are where a fallback unwinds through a level that has none of its
own; two children per node are enough because a node looks at one range and one
neighbour only. `object_map`: `get_paddr` on the same trees read as two objects
in three transactions, so that an older version, another object's version and
nothing at all lie below a key; it also checks that the two searches together
implement `OrderedMap`.  The comment of `lower_bound` promises a key-value pair
of the tree; on an index node the code may return the index entry, so the runs
state its key only (`LowerBoundKey`), and section 2.6 shows what follows.

*Fairness.* Weak fairness of the running search's next step: the code is
sequential and goes on once it is called. Nothing is assumed of the caller.

*Assumed.* `SentinelIsLast` (the key of `SENTINEL` is above every record) and
`AnswerAssumption` (error values differ from entries) for the object maps. For
the file system tree the first does not hold in the code, see `ReadFile`.

### 2.2 Opening a container: `Checkpoint`

The descriptor area and the data area are rings. The writer is not part of
libapfs; it is modelled as far as the scan relies on it: it writes the blocks of
one checkpoint in any order, each write may be cut short, it may die at any
point, it resumes with a transaction id of its own and never overwrites its last
finished checkpoint. `ScanSlot` is one turn of the loop in Partition.cpp, with
the walk back over the map blocks and the reads that may throw; `Pick` is
`max_element`. `xid` and the sizes are bounded; six slots and maps of one or two
blocks make the ring wrap around in every phase of a checkpoint, and four
transactions are needed for a third checkpoint to overwrite the first behind a
torn second one. What the run shows: what is loaded is complete and the newest;
an incomplete checkpoint may make the scan throw (not load an older one), and
only that. Deadlock is not checked: when the transactions are used up, the
loaded container simply stays.

### 2.3 From the disk's file to a volume: `GuidTable`, `Fletcher`, `OpenVolume`

`OpenVolume` is one verb of the command line: `StartVerb` (the options),
`OpenDisk`, `ReadTable` (one block of the entry array per step, `GuidTable`),
`TableRead`, `GetPartition`, `LoadPartition` and `LoadVolume`, `ReturnPartition`,
`GetVolume`, `Handle`. `readers` are the `BlockReader` values that are alive, in
the order they were built; the destructor of each closes the `FILE` if no other
is left. Whatever throws leads to `Unwind`, which destroys them one by one.

`GuidTable` takes the number of *partitions found* for the number of *blocks
read*; the blocks behind the array hold anything. `TableListed` states what still
holds: used entries in the order of the disk, once each, and all of them when the
first block of the table has them all and the table is long enough. That the
entries of later blocks may be missed is in section 4. `ServesWhatIsMeant` says
for the same reason that the only APFS partition is meant among all used entries
if these are in the first block, else among those listed.

`Fletcher` keeps the width of the words as a constant: the sums are those of the
code with `Width` for 32. `DamageIsRefused` runs over every object of three
words, every word changed to every other and every exchange of two neighbours;
what the sums cannot tell, zero from all ones, is part of the statement (`Same`).

*Run.* `open_volume`: two entries to a block, tables of three and six entries on
five blocks (each way of skipping and of reading behind), three words of three
bits, at most two APFS partitions and two volumes: one too many of each.
*Fairness.* A process runs until it ends. `VerbEnds` leaves out the container
without a volume, of which the code reads `volumes[0]`. Deadlock is not checked,
a verb ends.

### 2.4 Path resolution: `PathResolve` and `PosixPath`

The state is the stack of activations of `resolve` and `follow_symlink`, which
call each other. A path is a sequence of components with a slash in front or
behind. A search of the file system tree is one step with the answer
`lower_bound` gives on a tree of at most two levels in which the record exists
or not; on higher trees an index entry may be answered (2.1), which is not
modelled here.

`PosixPath` is a different algorithm for the same thing: one list of components,
the target of a link put in front of it. `FindsWhatIsMeant` and
`FindsOnlyWhatIsMeant` compare the two on every path of the run except those
with a shape on which the code differs from its documentation; each shape is a
named condition: `RelativeTargets` (a target that starts with a slash is looked
up in the link's directory, apfs.hpp:105), `LinkKept` (`follow_last` is dropped
for a path from the root, apfs.hpp:86), `Unlimited` (`level` counts outermost
links only, apfs.hpp:99), `Plain` and `DotsFirst` (a link or a missing name
before `..`, and a `.` at the end). The run has every path of up to two components
from a directory, the root and a file, and every one of three from the root and the
file. `path_cycle` shows that a cycle of links
exhausts the stack instead of throwing. `StackIsEnough` says that nothing but a
cycle does. `StackBound` and `Fuel` are above what
two links can need unless they form a cycle. Fairness: the call goes on. Deadlock
is not checked, a call ends.

### 2.5 Reading a file: `ReadFile`, `FsRecords` and `XFields`

`Check` loads the inode and makes the checks; its size comes from
`parse_xfields`, over a blob that `Written` lays out, and is any of `Unset` when
no field gives it. `Find`, `StepBack` are the two searches, `EnterExtent`,
`ReadChunk`, `LeaveExtent` the two loops. A byte is named by its block and its
place in it, so the comparison with what was asked for does not depend on
contents. `FsRecords` defines the key order of `compare_j_key_t` and the answers
of `upper_bound` and `prev` on the file system tree, including two that surprise:
the key of `SENTINEL` is the *least* key, because `numeric_limits<j_key_t>` is
not specialised, and the first key of a range of index nodes is answered with a
child pointer for its value (`Garbage` says what that may look like).
`read_file_last` shows the consequence of the first: a file whose last extent is
the last record of the volume reads as empty. `Crosses` names the second.
Offsets and sizes run over every value in and around the file, blocks and chunks
of two, so each boundary falls inside, at and across the others; the size lies in
front of, behind and between fields of odd and of even length. A file whose size
was never set has no extents, and `OnlyWhatWasAsked` shows that nothing is read
of it, whatever its size happens to be.

### 2.6 The mount: `Directory` and `FuseMount`

`Directory` has the calls the handlers make, each one step that ends with its
result, with an `apfs::Error`, which the handlers turn into an error code, or
with the program: by `std::length_error`, which nobody catches, when `b_cast`
meets a value shorter than its struct, that of an index entry; or because a cycle
of links exhausts the stack, as `path_cycle` shows. Where a link leads is part of
the volume (`target`: an entry, an error, or the end of the program), since
`PathResolve` is about how it is found; `ReadFile` of `Directory` is what a whole
call of `read_file` may write, as the module `ReadFile` derives it step by step:
nothing in an extent that is the volume's last record, and anything behind an
extent that is answered with an index entry. `FuseMount` has one action per handler
that has or changes state (`Open`, `Getattr`, `Read`, `Readdir`, `Release`,
`Destroy`), with `open_files` and `fd`. The kernel keeps to its protocol: it uses
the handles it holds, sends the release of a closed one some time later, and
reads a directory window by window from the offset where the last ended; a
process may seek back. Directories get handles on Windows only.

*Run.* `fuse_mount`: two processes, three paths (a directory, a file in it, a
link), windows of two, so that a directory of three names and a file of three
bytes in two extents take two calls; six volumes, with index entries at a name,
the first extent, an inode and the second extent, with inodes that cannot be
read, with an extent that is the last record, with a link that leads nowhere and
one that leads round in a cycle; both platforms; handles are symmetric in the
processes. `GotIsMeant` holds up to an error: a child whose inode cannot be read
ends the listing with `ENOENT`, and the rest is not promised. It says nothing of
the bytes of a file with an index entry behind its first byte (`Torn`), and lets
the end come early in an extent that is the last record (`ExtentIsLast`).
`AbortHasCause` names what may end the mount for all: an index entry of an inode
or a directory record (`ShortEntry`), or a path that passes a link whose target is
never reached (`PassesEndlessLink`); `readdir` of the directory that holds such a
link does no harm, `getattr` of the link does, since it follows it. Each of these
four exceptions is needed: without it TLC finds a violation. No liveness: a process need not call again. Deadlock is not checked
because a mount ends.

### 2.7 The disk helper: `DiskHelper`

*State.* `client` (the window and the daemons: what each asks for and what it
has), `conn` (the instances of the pipe), `thread` (where the thread of each
connection is and the handle *values* it holds), `table` (what a value names),
`owned` (what each client's process has). Handle values are given out again, the
smallest first: a value closed twice closes what another thread was given.

*Actions.* `Allow` and `Decline` (the prompt of `start`), `Scan` and `Launch`,
`Connect`, `GiveUp`, `Receive`, `Broken` (the client's side), `CreateInstance`,
`Accept`, `Refuse`, `HandleList`, `OpenDevice`, `OpenClient`, `Duplicate`,
`CloseAgain`, `Reply`, `EndThread` (the server's, a step per system call),
`WatchParent`, and the ends of every process at any moment. A frame is written
and read in one step.

*Run.* `disk_helper`: the window, one daemon, one drive, two connections, seven
handle values (two threads hold three each at most). `HandedOver` and
`NoHandleLeft` hold until a thread closes a value that is another's;
`OnlyDeathMiscloses` says that this takes a client that dies while its drive is
handed over.

*Fairness.* The threads run, a client's deadline passes and it reads what is
there, the helper is woken by the end of the window. The user, the window and
the creation of instances are not fair.

### 2.8 The window: its mounts, `AppWindow`

*State.* `helpers` is the process table's part that matters, `disks` is
`disks_` (an entry's mounted flags are the pids, 0 for not mounted), `sel` the
three selection indices, `asked` the question of `remove_disk` with `stale` once
`disks_` was replaced under it, `plugged` the attached drives, `changed` a
WM_DEVICECHANGE that has not been handled.

*Actions.* One per handler: `SelectPartition`, `SelectVolume`, `Launch` and
`Launched` (the two sides of the 800 ms wait, in which the message loop stands
still and helpers go on), `UnmountSelected`, `AddDiskFromDmg`, `RemoveDisk` with
`Dismiss`, `Confirm`, `ConfirmStale` (the two sides of the modal question, whose
message loop handles a device change), `RefreshPhysicalDisks`, `Paint` (the
clamps), `WindowOpens` (the constructor's scan) and `WindowCloses` (also a
crash). Helpers serve and exit, drives come and go on their own. A scan may miss
an attached drive or a partition. After a rescan during the question the code
uses a freed entry: `ConfirmStale` and a crash are the outcomes.

*Runs.* `app_window`: a drive with two partitions at positions that differ from
their index in the partition table, an image that can be mounted and one
without an APFS partition, either of which may be added twice, two helpers, two
letters. Two helpers are what doubling a mount takes; two image entries behind
the drive are what shifting the selection takes. The same checks hold with two
drives and one image, and with two images that can be mounted.

*Fairness.* A pending WM_DEVICECHANGE is handled when the message loop runs, and
the wait ends. Helpers, drives and the user are not fair.

### 2.9 The window: what a click does, `Sidebar`

A click is looked up in `hits_`, the places the last paint recorded, and acts on
`disks_` and the selection as they are now. *State.* `disks`, `sel`, `scroll`,
`hits`, and `screen`, a ghost: what the user sees. *Actions.* `Paint` (the
clamps of `draw_content`, `draw_volume_section` and of the scrolling, then
`SidebarLayout` and `VolumeLayout`), `PaintLost` (`EndDraw` lost its target:
`hits_` stays and nothing asks for another paint), `Click` with the handlers in
the order `on_lbutton_down` tries them, `Wheel`, `Rescan`. A place is a line and
a column, and heights are lines, so that every row has a first and a last one.
The mounts and the question before a disk is removed are in `AppWindow`.

`ClickMeansShown` compares the lookup with a picture of the window put together
line by line; rows of volumes that are scrolled out of their viewport can be hit
above it, which the statement names. `MountsWhatIsShown` allows the button to do
nothing after a scan, or to serve a volume that was clicked in between, and no
other volume. `ChangeIsShown` also says that no row of an older list leads
outside of the new one, since such a click ends the program.

*Run.* `sidebar`: a drive with partitions of two volumes and of one, an image
with one volume and one that cannot be read, four lines of window, rows of two
lines, so that the list and the volumes must be scrolled; two messages
(`MaxMessages`) before a paint, so that a scan can come before or after a click.
*Fairness.* WM_PAINT comes when no other message waits (`Painting`).

## 3. What is proved

The theorems hold for every value of the constants that the assumptions allow:
trees, rings, tables, volumes, processes, drives and lists of any size. The runs
check the same properties on small instances.

| Module | Theorem | Establishes |
|---|---|---|
| `ObjectMapProofs` | `BTreeTypeCorrect`, `BTreeInvariant` | `BTreeSpec => []BTreeTypeOK`, `[]BTreeIInv` |
| | `UpperBoundCorrect`, `LowerBoundCorrect`, `PrevCorrect` | what each search promises of its answer |
| | `SiblingCorrect` | a search that turns to the neighbouring range finds its answer there |
| | `FloorCorrect`, `FloorImplementsMap` | the two searches together find the last record at or below a key: `FloorSpec => Map!MapSpec` |
| | `GetPaddrCorrect`, `GetPaddrComplete` | `get_paddr` answers with the newest version its transaction may see; it throws only if there is none or a block is bad |
| `OpenVolumeProofs` | `CheckpointInvariant` | `CheckpointSpec => []CheckpointIInv` |
| | `LoadedIntact`, `LoadedNewest`, `ThrowsIncomplete` | what is loaded is complete and the newest; a throw means an incomplete checkpoint |
| | `TableInvariant`, `PartitionsListed` | what the loop of `GuidTable` lists, in which order |
| | `FileShared` | the `FILE` lives as long as its last reader, and is closed once |
| | `ServesMeant` | the partition and the volume are those that the options mean |
| | `DamageRefused` | no object with a changed word, with two neighbours exchanged or of zeros is accepted |
| `PathResolveProofs` | `PathInvariant` | `Spec => []PathIInv` |
| | `FindsMeant` | what a path means, `resolve` finds, unless the stack is exhausted |
| | `FoundMeant`, `FindsOnlyMeant` | what `resolve` finds, the path means |
| `ReadFileProofs` | `ReadInvariant` | `Spec => []ReadIInv` |
| | `AskedOnly`, `AskedAll` | a read writes what was asked for and nothing else, and all of it |
| `FuseMountProofs` | `AnswersInvariant` | `Spec => [](FuseIInv /\ AnswerInv)` |
| | `HandlesHeld`, `StatIsRight` | handles and inodes are those of the path that was opened |
| | `GotMeant` | names and bytes are those of the path that was opened, but for files with an index entry among their extents; and all of them at the end, unless it comes in an extent that is the last record |
| | `AbortsHaveCulprit` | nothing ends the mount but an index entry of an inode or a directory record, or a path that passes a link whose target is never reached |
| `DiskHelperProofs` | `HelperInvariant` | `Spec => []HelperIInv` |
| | `DriveHandedOver`, `HandlesFreed`, `DeathMiscloses` | the hand-over of handles |
| `AppWindowProofs` | `AppInvariant` | `Spec => []AppIInv` |
| | `OneHelper`, `MountsShown` | no second helper for a drive's volume, none that is not shown |
| | `EndsForAReason`, `SelectionStays` | the action properties `EndedForAReason` and `SelectionKept` |
| `SidebarProofs` | `SidebarInvariant` | `Spec => []SidebarIInv` |
| | `ClicksMeanWhatIsShown` | a click finds what the user sees under it |
| | `MountsTheShownVolume` | the button mounts the volume it was painted for |

### The arguments

*Searches.* The answer of a search is right for its root only if every return was
right for its own node, so the invariant has to speak of the whole stack.
`BTreeIInv` says: the tree is well formed; while a search runs, the suspended
activations are a path of calls from the root to the running node (`CallPath`);
an activation that has turned to the neighbouring range has had `SENTINEL` from
its own; and a return keeps the promise `Post` of its own call. The return is the
heart of the proof, where the promise of a child is lifted to its parent by the
facts of `WellFormed` on what lies under neighbouring ranges. `FloorIInv` adds
that the argument of the second search separates the records at or below the key
from those above; with it the promise of `prev` is the answer of `OrderedMap`,
whose steps the lookup takes at its beginning and its end and stutters on in
between. That `get_paddr` finds the newest version, and throws only without one,
is then the order of the pairs (oid, xid).

*The checkpoint.* `CheckpointIInv` has four parts: types; each slot of the
descriptor ring is blank or holds, whole or torn, the block that a checkpoint puts
there (`DescOwned`); the last committed checkpoint is intact, the one being written
touches none of its blocks, and what is no longer pending is on disk (`WriterInv`);
and the scan has accepted the intact checkpoints of the slots it has passed and
nothing else (`ReaderInv`). Only the arithmetic of the ring is hard: the walk back
from a superblock meets the maps that were written before it, each in a slot of
its own, and lemmas on `%` carry that.

*The partition table and its readers.* `TableIInv` says that what is listed is in
the order of the disk, lies before the block that is read next, and, once the
entries of the first block are all that are used and are listed, is not added to.
The order comes from `InDiskOrder`, whose existence for every finite set of numbers
is proved by induction over subsets. `ReadersInv` says which readers live at each
step of the verb, and that the `FILE` is open just as long as one does, at every
place an exception can leave from too. `ChoiceInv` follows the chain of choices
from the table to the volume: nothing that is not used counts as an APFS partition,
and after the choice one candidate is left, the one the options mean.

*The checksum.* `DamageRefused` holds for objects of every length and words of
every width. The running sums do not wrap while they stay below `4^Width`
(`SumsAssumption`), so they are sums of natural numbers: a changed word
changes the first sum, an exchange of neighbours leaves it and changes the second by
their difference. What the code then compares are residues modulo `2^Width - 1`, and
two words have the same one only if they are equal or zero and all ones. The sums of
a prefix are a recursive function of its length; what damage does to them is
followed by induction from the damaged word on.

*Path resolution.* Two walks that look nothing alike are compared: the code resolves
".." on the text, follows the target of a link with "../" in front of it by a call of
its own, and comes back; `PosixPath` keeps one list of components. The proof
describes the second as a relation between places, a place being a node and the
components that are left (`Goes` is one component, `Leads` the whole walk; with a flag
that says whether what a component leads to is tested to be a directory).
`PathIInv` says that the activations on the stack carry on that walk: each of the
suspended ones has components left (`rests`), and if the running one stands at a node,
the walk of the request leads where it leads from this node with all of them.
`Serves` carries the hard step, that the components which are left after ".." has been
resolved on the text lead where the path as it was written leads; there the
conditions of 2.4 are needed, `Plain` for one direction and `DotsFirst` for the other.
The walk is unique (`LeadsUnique`), so where both arrive they arrive at the same
inode. `FoundMeant` says that what `resolve` finds some walk of the path arrives
at, however long; for `FindsOnlyWhatIsMeant`, whose walk has `Fuel` components,
`FindsOnlyMeant` has the premise `FuelIsEnough`, that a walk which arrives does so
within `Fuel`. `FindsMeant` leaves out the calls that exhaust the stack: a
sequence of links longer than any `StackBound` is a legal volume.

*Reading a file.* Outside of an extent, `ReadIInv` says that what is written and
what is left make up what was asked for, and that the next extent is the one in
which the bytes left begin; inside of one, the same with the blocks of the extent
that are still to be read. It rests on three parts: the inode and its stream are
found wherever they lie among the extended fields (the offset of a field's data is a
recursive function over the table); the first search stands at the record before the
offset and the others, each from the key of the last, meet the extents in the order
of their keys, and those leave no gap; and a chunk that starts and ends anywhere in
its blocks gives just the bytes in between. `AllThatWasAsked` then says that nothing
is left at the end. Both leave out the calls that `Crosses` names and the last
record of a volume (2.5).

*The mount.* `FuseIInv`: handles that processes hold, handles whose release is on
its way and the table are related one to one, and `fd` is above them all, so no
handle is given out twice. `AnswerInv`: what each process has got is the
beginning of what its entry means, which for a file needs that a reply of
`ReadFile` is the next of its bytes, or none: at the end, or in the volume's last
extent (`ReadFileIs`). Names need that `list_children`, as one search
after another, gives the directory's records in order, each once: `Children` is a
recursive function over the keys behind the first, and its values are shown right
by taking the greatest key at which they are not. That the loop compares types
only is harmless because in a well-formed volume every directory has an inode,
whose record ends the loop. `AbortHasCause` follows because every step of a path
is an entry with an inode, an error, or one of the two ends it names.

*The disk helper.* The longest of the proofs: `HelperIInv` ties together where
each thread is, what is on its pipe, what its client waits for, and what each
handle value names in the helper's table (`TableInv`) and in the clients' own
(`OwnedInv`). All of it holds *until* a value is closed that is another thread's
(`Sane`); the proof shows that only the path through `DUPLICATE_CLOSE_SOURCE` to
a process that has ended leads there, which is `OnlyDeathMiscloses`.

*The window.* That no volume of a drive has two helpers is not inductive: `Launch`
looks at the list, not at the processes. `AppIInv` therefore says that the list
shows every helper of a drive's volume it lists (`ListShows`, but for a launch
that waits), that each process it shows serves that volume and no other
(`PartOk`), that each drive is listed once, and that a launch is for the selected
volume, which is shown as not mounted. A scan establishes this from the process
table (`Populated`); everything else keeps it. With it a rescan ends the helpers
of drives only that are in no entry any more, and the selection is found again by
its path and its partition's index, with as many volumes as before.

*The places on the screen.* The invariant says that `hits_` is what
`SidebarLayout` and `VolumeLayout` compute from the list that was painted last, or
nothing (`HitsInv`), and that while the button is there the selected volume is the
one it was painted for, or one clicked since (`ButtonInv`; what a scan does to the
selection is what makes this hard). The rest is geometry: `Lines`, the
picture of the sidebar line by line, is compared with the rectangles, for lists and
heights of any size. The lines above an entry are as many as its rectangle's top
(by recursion over the list), the rows, the partitions and the "add" row cover
disjoint lines and leave none out, and the partition of a line is the one that
division finds, as the code's `(y - top) / height` is.

### Assumptions

Named in the modules, and evaluated by TLC on the runs' constants:

- `BTree`: the constants' types, well-formed trees, `SentinelIsLast`;
  `AnswerAssumption`, `ErrorAssumption`: an error is no entry. `ObjectMap`: the
  keys of the pairs (oid, xid) are ordered lexicographically.
- `Checkpoint.SizeAssumption`: checkpoints have maps, and each ring has room for two
  checkpoints, so that one being written need not touch the one before.
- `GuidTable.TableAssumption`, `OpenVolume.OpenAssumption`: a block holds an entry at
  least; counts are natural numbers.
- `Fletcher.WidthAssumption` names what is used of the powers of two, whose
  definition the provers do not know; `OpenVolume.SumsAssumption`: the sums of an object
  do not overflow, which for 1024 words of 32 bits leaves thirteen bits to spare.
- `ReadFile.ReadAssumption`, `ReadFile.VolumeAssumption`: sizes of blocks and chunks
  are positive; the volumes are `WellFormed`: extents of whole blocks that do not
  overlap, for all bytes of a file with a stream, behind the record of its stream.
- `PathResolve.PathAssumption`: "." and ".." are names, outcomes that are no inodes
  differ; the volumes are `WellFormed`: a tree of directories without hard links, in
  which "." and ".." are not recorded and every link has a target; the calls are made
  for an inode of the volume, `follow_symlink` for a link.
- `Sidebar.SidebarAssumption`: images are no drives, rows have a height.
- `FuseMount.MountAssumption`: the volumes are `WellFormed`, that is every
  directory and every entry that a record or a link names has its inode; names do
  not have the key 0, which the search for the children starts below; a file with
  bytes has an extent for the first. A link may lead nowhere or round in a cycle.
  Nothing is assumed of index entries, unreadable nodes and what lies behind the
  last extent.
- `DiskHelper.HelperAssumption`: the names of things differ; handle values and
  pipe instances are not 0.
- `AppWindow.LayoutAssumption`: the drives are listed once each, partitions in the
  order of their indices, drives are no images.

### Only model-checked

- Termination and every other liveness property (`SearchEnds`, `ResolutionEnds`,
  `VerbEnds`, `RequestEnds`, `HelperEnds`, `VanishedDriveUnmounted`,
  `ChangeIsShown` and so on): reasoning under fairness is beyond the provers
  installed.
- `StackIsEnough` of `PathResolve`: how deep the calls go depends on the links of the
  volume, and the bound `StackBound` that is enough for two of them is not for more.

## 4. Disagreements between the code and what is said of it

`PROJECT.json` lists two under `findings`, each with the run that shows it: a
cycle of links exhausts the stack (`path_cycle`), and the last extent of a volume
reads as empty (`read_file_last`). The others are part of the models and named
in the properties that leave them out:

- GuidTable.cpp:24 says "Read each partition entry". The loop of line 28 reads
  block `PartitionEntryLBA + partitions.size()`: with four used entries in the
  first block the next one read is the fifth. `TableListed` is restricted to
  tables whose used entries are in the first block.
- `lower_bound` answers with an index entry at the first key of an index node
  (BTree.hpp:211). `Outcome` of `Directory` follows it: the mount ends for all
  (`AbortHasCause`).
- A scan during the question of `remove_disk` leaves `disk` and `index` stale
  (AppWindow.cpp:608): `ConfirmStale` removes another entry.
- The named conditions of 2.4 are disagreements with apfs.hpp.
- A listing ends with `ENOENT` at a child whose inode cannot be read
  (common.cpp:126), and an error of a paint is not followed by another paint
  (AppWindow.cpp:142).

## 5. What is not modelled, and the plan

Not modelled because nothing about them is a matter of states: drawing beyond
the places of things, text conversion, SetupDi enumeration, printing, the
installer, the build. Hovering changes colours only. The FUSE operations that
have no state (`-EROFS`, 0, the size of the container) are no actions.

Abstracted: `parse_node`, `read_j_key` and `read_j_val` to the keys and entries
they produce; seeking and short reads of `BlockReader`; the quoting of command
lines and the error text of `mount_manager`.

Assumed by `AppWindow`: process ids are not used again, the process table can be
read, one window, and a helper that lives can be terminated: in the code
`terminate_mount` answers false when `OpenProcess` or `TerminateProcess` fails
(mount_manager.cpp:319-327) and `unmount_volume` clears the mounted flag all the
same (callbacks.cpp:257-265), which would leave a helper that no list shows. By `Sidebar`: an image is in the list at most once. Assumed by
`PathResolve`: no hard links.

Every invariant and action property that a run checks is proved, but for the three of
`PathResolve`. What would extend the development next is a model of the searches of
2.4 on trees of three levels, where an index entry may be answered for a name, and
hard links.
