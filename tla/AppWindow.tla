------------------------------ MODULE AppWindow ------------------------------
(***************************************************************************)
(* The Windows program: the list of disks in the window                    *)
(* (wingui/AppWindow.cpp), the callbacks behind it (callbacks.cpp) and the *)
(* mount helpers, one process per mounted volume (mount_manager.cpp,       *)
(* mount_daemon.cpp).                                                      *)
(*                                                                         *)
(* Nothing is stored: which volume is mounted is read from the process     *)
(* table whenever a disk is scanned.  Three kinds of actors step: the user *)
(* and the window's message loop, the helper processes, and the drives     *)
(* that are plugged and unplugged.  A WM_DEVICECHANGE may be handled at    *)
(* any time, also by the message loop of the question remove_disk asks.    *)
(*                                                                         *)
(* Indices count from one, 0 stands for the code's -1 (and for no pid).    *)
(* Left out: names and sizes, expanded rows, painting but for what it      *)
(* changes in the selection.  A click acts on any row, so a click on rows  *)
(* painted before a rescan is among them.  Assumed: one window, process    *)
(* ids are not used again, the process table can be read, and a raw drive  *)
(* is opened through the disk helper only (the window runs unelevated).    *)
(***************************************************************************)
EXTENDS Integers, Sequences, FiniteSets

CONSTANTS
    DriveOrder,   \* the physical drives, in the order the scan lists them
    Images,       \* the .dmg files the user may add
    Layout,       \* source -> sequence of its APFS partitions [raw, vols]
    Letters,      \* the drive letters no one else uses, as numbers
    MaxLaunches,  \* bound: helper processes started
    MaxImages     \* bound: image entries in the list when one is added

Drives == {DriveOrder[i] : i \in DOMAIN DriveOrder}
Sources == Drives \cup Images
RawsOf(src) == {Layout[src][i].raw : i \in DOMAIN Layout[src]}
Raws == UNION {RawsOf(s) : s \in Sources}
VolumeCounts == UNION {{Layout[s][i].vols : i \in DOMAIN Layout[s]} : s \in Sources}
MaxVols == CHOOSE n \in VolumeCounts : \A m \in VolumeCounts : m <= n

ASSUME LayoutAssumption ==
    /\ DriveOrder \in Seq(Drives) /\ Drives \cap Images = {}
    /\ \A i, j \in DOMAIN DriveOrder : DriveOrder[i] = DriveOrder[j] => i = j
    /\ \A s \in Sources : Layout[s] \in Seq([raw : Nat, vols : Nat])
    /\ \A s \in Sources : \A i, j \in DOMAIN Layout[s] :
          i < j => Layout[s][i].raw < Layout[s][j].raw

VARIABLES
    plugged,    \* the drives that are attached
    helpers,    \* the running helpers: [pid, src, raw, vol, letter, serving]
    launched,   \* how many were started; the last one has this pid
    window,     \* "closed", "idle", "launching" or "asking"
    disks,      \* disks_: entries [src, parts], a part [raw, pids]
    sel,        \* selected_disk_, selected_partition_, selected_volume_
    asked,      \* the removal the question is about: [index, src, stale]
    changed     \* a WM_DEVICECHANGE is on its way, for a drive or a letter

vars == <<plugged, helpers, launched, window, disks, sel, asked, changed>>

NoQuestion == [index |-> 0, src |-> "none", stale |-> FALSE]
FirstSelection == [disk |-> 1, part |-> 1, vol |-> 0]

Init ==
    /\ plugged \in SUBSET Drives
    /\ helpers = {}
    /\ launched = 0
    /\ window = "closed"
    /\ disks = <<>>
    /\ sel = FirstSelection
    /\ asked = NoQuestion
    /\ changed = FALSE

-----------------------------------------------------------------------------
(* Scanning a disk. *)

\* The numbers of a set in their order, and a list's entries at these places.
InOrder(S) ==
    CHOOSE s \in [1 .. Cardinality(S) -> S] :
        /\ \A i \in S : \E n \in DOMAIN s : s[n] = i
        /\ \A m, n \in DOMAIN s : m < n => s[m] < s[n]
Kept(list, S) == LET order == InOrder(S) IN [n \in 1 .. Cardinality(S) |-> list[order[n]]]

At(h, src, raw, vol) == h.src = src /\ h.raw = raw /\ h.vol = vol

\* Mutant: the partition is not compared.
MountPidAnyPartition(src, raw, v) ==
    LET here == {h.pid : h \in {g \in helpers : g.src = src /\ g.vol = v}}
    IN  IF here = {} THEN 0 ELSE CHOOSE p \in here : \A q \in here : p <= q

\* The process that serves a volume; the process table is in pid order.
MountPid(src, raw, vol) ==
    LET here == {h.pid : h \in {g \in helpers : At(g, src, raw, vol)}}
    IN  IF here = {} THEN 0 ELSE CHOOSE p \in here : \A q \in here : p <= q

\* Mutant: the scan does not look for running helpers.
PopulateDiskUnmounted(src, readable) ==
    LET parts == Kept(Layout[src], {i \in DOMAIN Layout[src] : Layout[src][i].raw \in readable})
    IN  [src |-> src,
         parts |-> [i \in DOMAIN parts |->
                      [raw  |-> parts[i].raw,
                       pids |-> [v \in 1..parts[i].vols |-> 0]]]]

\* populate_disk: the partitions that can be read, each with the mounts
\* apply_existing_mounts finds.
PopulateDisk(src, readable) ==
    LET parts == Kept(Layout[src], {i \in DOMAIN Layout[src] : Layout[src][i].raw \in readable})
        Part(l) == [raw  |-> l.raw,
                    pids |-> [v \in 1..l.vols |-> MountPid(src, l.raw, v)]]
    IN  [src |-> src, parts |-> [i \in DOMAIN parts |-> Part(parts[i])]]

\* What a scan may read of each drive: nothing of a drive that is gone, of one
\* the disk helper cannot list or open, or of one without an APFS partition.
Scans == {seen \in [Drives -> SUBSET Raws] :
             \A d \in Drives : /\ seen[d] \subseteq RawsOf(d)
                               /\ d \notin plugged => seen[d] = {}}

PhysicalDisks(seen) ==
    LET listed == Kept(DriveOrder, {i \in DOMAIN DriveOrder : seen[DriveOrder[i]] # {}})
    IN  [i \in DOMAIN listed |-> PopulateDisk(listed[i], seen[listed[i]])]

\* The images list_disks finds again from the running helpers, in pid order:
\* each once, if its file can still be read.
RediscoveredImages(readable) ==
    LET served == [p \in 1..launched |->
                     {h.src : h \in {g \in helpers : g.pid = p}} \cap readable]
        first == InOrder({p \in 1..launched :
                     /\ served[p] # {}
                     /\ \A q \in 1..(p - 1) : served[q] # served[p]})
        src(p) == CHOOSE s \in served[p] : TRUE
    IN  [i \in DOMAIN first |->
            PopulateDisk(src(first[i]), RawsOf(src(first[i])))]

\* The entries of images.
ImageEntries == {i \in DOMAIN disks : disks[i].src \in Images}

\* The volumes of an entry, and the helpers it shows as mounted.
ShownPids(disk) ==
    UNION {{disk.parts[p].pids[v] : v \in DOMAIN disk.parts[p].pids} :
              p \in DOMAIN disk.parts} \ {0}

-----------------------------------------------------------------------------
(* The selection. *)

\* The selection is on a disk, on a partition, on a volume of the list.
DiskSelected == sel.disk \in DOMAIN disks
PartSelected == DiskSelected /\ sel.part \in DOMAIN disks[sel.disk].parts
VolumeSelected ==
    PartSelected /\ sel.vol \in DOMAIN disks[sel.disk].parts[sel.part].pids

\* Mutant: the position in the list is kept.
RestorePosition(new) == IF sel.disk \in DOMAIN new THEN sel ELSE FirstSelection

\* The end of refresh_physical_disks: the selected disk is looked for by its
\* path, its partition by the index in the partition table.
RestoreSelection(new) ==
    LET same == {i \in DOMAIN new : new[i].src = disks[sel.disk].src}
        i == CHOOSE k \in same : \A m \in same : k <= m
        raw == disks[sel.disk].parts[sel.part].raw
        parts == {p \in DOMAIN new[i].parts : new[i].parts[p].raw = raw}
        p == CHOOSE k \in parts : TRUE
    IN  IF ~DiskSelected \/ same = {} THEN FirstSelection
        ELSE IF ~PartSelected \/ parts = {}
             THEN [disk |-> i, part |-> 1, vol |-> 0]
             ELSE [disk |-> i, part |-> p,
                   vol |-> IF sel.vol \in DOMAIN new[i].parts[p].pids
                           THEN sel.vol ELSE 0]

\* The end of remove_disk, after disks_.erase(disks_.begin() + index).
SelectionAfterErase(index) ==
    IF Len(disks) = 1 \/ sel.disk = index THEN FirstSelection
    ELSE [disk |-> IF sel.disk > index THEN sel.disk - 1 ELSE sel.disk,
          part |-> sel.part, vol |-> 0]

Erased(index) == [i \in 1..(Len(disks) - 1) |->
                     IF i < index THEN disks[i] ELSE disks[i + 1]]

\* The painting of the window clamps what is out of range.
Clamped ==
    LET d == IF disks # <<>> /\ ~DiskSelected THEN 1 ELSE sel.disk
        parts == IF disks = <<>> THEN <<>> ELSE disks[d].parts
        p == IF sel.part \in DOMAIN parts THEN sel.part ELSE 1
    IN  IF parts = <<>> THEN [sel EXCEPT !.disk = d]
        ELSE [disk |-> d, part |-> p,
              vol |-> IF sel.vol \in DOMAIN parts[p].pids THEN sel.vol ELSE 0]

Paint ==
    /\ window \in {"idle", "asking"}
    /\ sel' = Clamped
    /\ UNCHANGED <<plugged, helpers, launched, window, disks, asked, changed>>

SelectPartition(i, p) ==
    /\ window = "idle"
    /\ sel' = [disk |-> i, part |-> p, vol |-> 0]
    /\ UNCHANGED <<plugged, helpers, launched, window, disks, asked, changed>>

SelectVolume(v) ==
    /\ window = "idle"
    /\ sel' = [sel EXCEPT !.vol = v]
    /\ UNCHANGED <<plugged, helpers, launched, window, disks, asked, changed>>

-----------------------------------------------------------------------------
(* Mounting and unmounting. *)

\* TerminateProcess on each pid; a pid that is gone is not an error.
Terminate(pids) ==
    /\ helpers' = {h \in helpers : h.pid \notin pids}
    /\ changed' = (changed \/ \E h \in helpers : h.pid \in pids /\ h.serving)

SetPid(pid) ==
    disks' = [disks EXCEPT ![sel.disk].parts[sel.part].pids[sel.vol] = pid]

UnmountSelected ==
    /\ window = "idle"
    /\ VolumeSelected
    /\ LET pid == disks[sel.disk].parts[sel.part].pids[sel.vol]
       IN  pid # 0 /\ Terminate({pid})
    /\ SetPid(0)
    /\ UNCHANGED <<plugged, launched, window, sel, asked>>

FreeLetters == Letters \ {h.letter : h \in {g \in helpers : g.serving}}

\* launch_mount up to the wait: the highest letter no volume uses yet, and a
\* process; a launch that fails before the wait changes nothing.  The message
\* loop stands still during the wait.
Launch ==
    /\ window = "idle"
    /\ VolumeSelected
    /\ disks[sel.disk].parts[sel.part].pids[sel.vol] = 0
    /\ launched < MaxLaunches
    /\ \E letter \in FreeLetters :
          /\ \A l \in FreeLetters : l <= letter
          /\ helpers' = helpers \cup
                {[pid |-> launched + 1, src |-> disks[sel.disk].src,
                  raw |-> disks[sel.disk].parts[sel.part].raw,
                  vol |-> sel.vol, letter |-> letter, serving |-> FALSE]}
    /\ launched' = launched + 1
    /\ window' = "launching"
    /\ UNCHANGED <<plugged, disks, sel, asked, changed>>

\* ... and after it: a process that is still there counts as a mount.
Launched ==
    /\ window = "launching"
    /\ IF \E h \in helpers : h.pid = launched
       THEN SetPid(launched) ELSE UNCHANGED disks
    /\ window' = "idle"
    /\ UNCHANGED <<plugged, helpers, launched, sel, asked, changed>>

\* The helper has opened its disk and WinFsp gives it its letter.
HelperServes(h) ==
    /\ ~h.serving
    /\ h.src \in Drives => h.src \in plugged
    /\ h.letter \in FreeLetters
    /\ helpers' = (helpers \ {h}) \cup {[h EXCEPT !.serving = TRUE]}
    /\ changed' = (window # "closed")
    /\ UNCHANGED <<plugged, launched, window, disks, sel, asked>>

\* The helper ends: it could not open the disk or take the letter, or it was
\* ended from outside.
HelperExits(h) ==
    /\ helpers' = helpers \ {h}
    /\ changed' = (changed \/ (h.serving /\ window # "closed"))
    /\ UNCHANGED <<plugged, launched, window, disks, sel, asked>>

-----------------------------------------------------------------------------
(* The list of disks. *)

\* load_dmg_disk: an image that cannot be read gives an entry without
\* partitions, and then the partition and the volume stay as they are.
AddDiskFromDmg(img, readable) ==
    /\ window = "idle"
    /\ Cardinality(ImageEntries) < MaxImages
    /\ disks' = Append(disks, PopulateDisk(img, readable))
    /\ sel' = IF readable = {} THEN [sel EXCEPT !.disk = Len(disks) + 1]
              ELSE [disk |-> Len(disks) + 1, part |-> 1, vol |-> 0]
    /\ UNCHANGED <<plugged, helpers, launched, window, asked, changed>>

RemoveDisk(i) ==
    /\ window = "idle"
    /\ disks[i].src \in Images
    /\ \/ /\ ShownPids(disks[i]) = {}
          /\ disks' = Erased(i)
          /\ sel' = SelectionAfterErase(i)
          /\ UNCHANGED <<window, asked>>
       \/ /\ ShownPids(disks[i]) # {}
          /\ window' = "asking"
          /\ asked' = [index |-> i, src |-> disks[i].src, stale |-> FALSE]
          /\ UNCHANGED <<disks, sel>>
    /\ UNCHANGED <<plugged, helpers, launched, changed>>

Dismiss ==
    /\ window = "asking"
    /\ window' = "idle"
    /\ asked' = NoQuestion
    /\ UNCHANGED <<plugged, helpers, launched, disks, sel, changed>>

Confirm ==
    /\ window = "asking"
    /\ ~asked.stale
    /\ Terminate(ShownPids(disks[asked.index]))
    /\ disks' = Erased(asked.index)
    /\ sel' = SelectionAfterErase(asked.index)
    /\ window' = "idle"
    /\ asked' = NoQuestion
    /\ UNCHANGED <<plugged, launched>>

\* A rescan during the question has replaced disks_: `disk` refers to an entry
\* that was moved from and freed, and `index` counts in the new list.  The loop
\* over the entry finds no partition, or the program crashes (WindowCloses).
ConfirmStale ==
    /\ window = "asking"
    /\ asked.stale
    /\ asked.index \in DOMAIN disks
    /\ disks' = Erased(asked.index)
    /\ sel' = SelectionAfterErase(asked.index)
    /\ window' = "idle"
    /\ asked' = NoQuestion
    /\ UNCHANGED <<plugged, helpers, launched, changed>>

\* Mutant: the kind of an entry is not looked at.
DroppedPidsOfAll(fresh) ==
    UNION {ShownPids(disks[i]) : i \in {k \in DOMAIN disks :
              \A m \in DOMAIN fresh : fresh[m].src # disks[k].src}}

\* Mutant: nothing is unmounted.
NothingDropped(fresh) == {}

\* refresh_physical_disks: what the drives that dropped out of the scan had
\* mounted is unmounted, the images are carried over as they are.
DroppedPids(fresh) ==
    UNION {ShownPids(disks[i]) : i \in {k \in DOMAIN disks :
              /\ disks[k].src \in Drives
              /\ \A m \in DOMAIN fresh : fresh[m].src # disks[k].src}}

\* It may run at any time, so the notices its own unmounts cause need no record.
RefreshPhysicalDisks ==
    /\ window \in {"idle", "asking"}
    /\ changed' = FALSE
    /\ asked' = [asked EXCEPT !.stale = (window = "asking")]
    /\ UNCHANGED <<plugged, launched, window>>
    /\ \E fresh \in {PhysicalDisks(seen) : seen \in Scans} :
          LET merged == fresh \o Kept(disks, ImageEntries)
          IN  /\ helpers' = {h \in helpers : h.pid \notin DroppedPids(fresh)}
              /\ disks' = merged
              /\ sel' = RestoreSelection(merged)

\* The constructor's list_disks.
WindowOpens ==
    /\ window = "closed"
    /\ window' = "idle"
    /\ \E fresh \in {PhysicalDisks(seen) : seen \in Scans},
          images \in {RediscoveredImages(readable) : readable \in SUBSET Images} :
          disks' = fresh \o images
    /\ sel' = FirstSelection
    /\ UNCHANGED <<plugged, helpers, launched, asked, changed>>

\* The window is closed, or the program ends at any point; the helpers go on.
WindowCloses ==
    /\ window # "closed"
    /\ window' = "closed"
    /\ disks' = <<>>
    /\ sel' = FirstSelection
    /\ asked' = NoQuestion
    /\ changed' = FALSE
    /\ UNCHANGED <<plugged, helpers, launched>>

\* A drive is attached or pulled out.
PlugOrUnplug(d) ==
    /\ plugged' = IF d \in plugged THEN plugged \ {d} ELSE plugged \cup {d}
    /\ changed' = (window # "closed")
    /\ UNCHANGED <<helpers, launched, window, disks, sel, asked>>

-----------------------------------------------------------------------------
Next ==
    \/ Paint
    \/ \E i \in DOMAIN disks : \E p \in DOMAIN disks[i].parts : SelectPartition(i, p)
    \/ \E v \in 1..MaxVols : SelectVolume(v)
    \/ UnmountSelected
    \/ Launch
    \/ Launched
    \/ \E h \in helpers : HelperServes(h) \/ HelperExits(h)
    \/ \E img \in Images, readable \in {TRUE, FALSE} :
          AddDiskFromDmg(img, IF readable THEN RawsOf(img) ELSE {})
    \/ \E i \in DOMAIN disks : RemoveDisk(i)
    \/ Dismiss
    \/ Confirm
    \/ ConfirmStale
    \/ RefreshPhysicalDisks
    \/ WindowOpens
    \/ WindowCloses
    \/ \E d \in Drives : PlugOrUnplug(d)

\* The message loop goes on dispatching (also the one of the question), and
\* the wait of a launch ends after 800 ms.  The first line is
\* WF_vars(changed /\ RefreshPhysicalDisks), written for TLC: that action is
\* enabled just then, and it or the end of the window clears `changed`.
Fairness ==
    /\ []<>(~changed \/ window \notin {"idle", "asking"})
    /\ WF_vars(Launched)

Spec == Init /\ [][Next]_vars /\ Fairness

-----------------------------------------------------------------------------
(* Properties. *)

\* No volume of a drive is served by two helpers, across rescans, restarts of
\* the window and launches that fail: the mounts are recovered from the process
\* table before the user can ask for a second one (callbacks.cpp:16-20).
OneHelperPerDriveVolume ==
    \A h, g \in helpers :
        h.src \in Drives /\ At(g, h.src, h.raw, h.vol) => h = g

\* While a drive's volume is in the list, a helper that serves it is shown with
\* it, so it can be unmounted (Model.hpp:28-33); a launch is shown at its end.
DriveMountsShown ==
    \A i \in DOMAIN disks : disks[i].src \in Drives =>
        \A p \in DOMAIN disks[i].parts : \A h \in helpers :
            h.src = disks[i].src /\ h.raw = disks[i].parts[p].raw
            => \/ disks[i].parts[p].pids[h.vol] = h.pid
               \/ window = "launching" /\ h.pid = launched

Entries(list, src) == Cardinality({i \in DOMAIN list : list[i].src = src})

UserSelects ==
    \/ \E i \in DOMAIN disks : \E p \in DOMAIN disks[i].parts : SelectPartition(i, p)
    \/ \E v \in 1..MaxVols : SelectVolume(v)
    \/ Len(disks') > Len(disks) /\ disks = SubSeq(disks', 1, Len(disks))

\* While the window is open, the selection stays on the disk the user selected
\* until the user selects another or adds one, or until an entry of that disk
\* goes; on a drive it stays on the same volume as well, but for the removal of
\* an image (AppWindow.cpp:705-709: otherwise mounting a volume would un-select
\* it, also a stale one) and a partition that can no longer be read.
SelectionKept ==
    [][/\ window # "closed" /\ window' # "closed"
       /\ DiskSelected /\ ~UserSelects
       => LET src == disks[sel.disk].src
              raw == disks[sel.disk].parts[sel.part].raw
              parts == disks'[sel'.disk].parts
          IN  \/ Entries(disks', src) < Entries(disks, src)
              \/ /\ DiskSelected'
                 /\ disks'[sel'.disk].src = src
                 /\ src \in Drives /\ VolumeSelected
                    => \/ parts[sel'.part].raw = raw /\ sel'.vol = sel.vol
                       \/ \A p \in DOMAIN parts : parts[p].raw # raw
                       \/ \E i \in Images : Entries(disks', i) < Entries(disks, i)
                       \/ asked.stale /\ window' = "idle"]_vars

\* A helper ends by itself, by the user's word, or in a rescan that lost its
\* drive: a rescan never ends the helper of an image or of a drive that is
\* still listed.
EndedForAReason ==
    [][\A h \in {g \in helpers : \A f \in helpers' : f.pid # g.pid} :
          \/ HelperExits(h)
          \/ UnmountSelected \/ Confirm
          \/ h.src \in Drives /\ Entries(disks', h.src) = 0]_vars

Shown(pid) == \E i \in DOMAIN disks : pid \in ShownPids(disks[i])
Vanished(pid) ==
    \E h \in helpers : h.pid = pid /\ h.src \in Drives \ plugged

\* The helper of a drive that was pulled out is ended in the end, if it is shown
\* and the window stays open and the drive out (AppWindow.cpp:734-737). Excused
\* is a rescan while remove_disk asks, after which any entry may be erased.
VanishedDriveUnmounted ==
    \A pid \in 1..MaxLaunches :
        (Vanished(pid) /\ Shown(pid))
            ~> (~Vanished(pid) \/ window = "closed" \/ asked.stale)

=============================================================================
