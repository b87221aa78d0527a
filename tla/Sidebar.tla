------------------------------ MODULE Sidebar ------------------------------
(***************************************************************************)
(* What a click in the window does (wingui/AppWindow.cpp): painting lays   *)
(* the rows out and records where they are (hits_), a click looks up what  *)
(* is under it.  Between the two the list of disks may have been scanned   *)
(* again, a row clicked, or the wheel turned: a paint waits until no other *)
(* message does, and it may fail.                                          *)
(*                                                                         *)
(* A point is a column and a line; the close button of a row is on its     *)
(* first line.  Which process serves a mount, and the question before a    *)
(* disk with mounts is removed, are in AppWindow.                          *)
(***************************************************************************)
EXTENDS Integers, SequencesExt

CONSTANTS DriveOrder,   \* the drives in the order of a scan
          Images,       \* disk images; each is in the list at most once
          VolumeCounts, \* of each source: the volumes of each partition
          Height,       \* lines of the window
          ListTop,      \* the line at which the list of volumes begins
          RowHeight, PartHeight,  \* lines of a disk's row, of a partition's
          MaxScroll,    \* bound: how far the wheel is turned
          MaxMessages   \* bound: the messages that come before a paint

Sources == Images \cup Range(DriveOrder)

ASSUME SidebarAssumption ==
    /\ DriveOrder \in Seq(Range(DriveOrder))
    /\ Images \cap Range(DriveOrder) = {}
    /\ VolumeCounts \in [Sources -> Seq(Nat)]
    /\ Height \in Nat /\ ListTop \in Nat
    /\ RowHeight \in Nat \ {0} /\ PartHeight \in Nat \ {0}

VARIABLES disks,     \* disks_: the source of each, and is it expanded?
          sel,       \* the selection, 0 for no volume
          scroll,    \* sidebar_scroll_ and volume_scroll_
          hits,      \* hits_: in the sidebar and in the list of volumes
          screen,    \* what the last paint showed: disks, sel and scroll
          invalid,   \* is a paint asked for?
          lost,      \* has the last paint failed?
          picked,    \* has a volume been clicked since the last paint?
          waited,    \* the messages since the last paint
          crashed

vars == <<disks, sel, scroll, hits, screen, invalid, lost, picked, waited, crashed>>

FirstSelection == [disk |-> 1, part |-> 1, vol |-> 0]
NoScroll == [side |-> 0, list |-> 0]
NoHits == [side |-> [rows |-> <<>>, close |-> {}, parts |-> <<>>, add |-> Height],
           list |-> [volumes |-> <<>>, button |-> FALSE]]

\* What stands at some places of a list, in its order.
Kept(list, places) ==
    LET order == CHOOSE s \in [1 .. Cardinality(places) -> places] :
                    \A m, n \in DOMAIN s : m < n => s[m] < s[n]
    IN  [n \in 1 .. Cardinality(places) |-> list[order[n]]]

\* list_disks: what a scan finds.
Listed(seen) == Kept(DriveOrder, {n \in DOMAIN DriveOrder : DriveOrder[n] \in seen})

Init ==
    /\ \E seen \in SUBSET Range(DriveOrder) :
          disks = [n \in DOMAIN Listed(seen) |-> [id |-> Listed(seen)[n], expanded |-> TRUE]]
    /\ sel = FirstSelection /\ scroll = NoScroll
    /\ hits = NoHits /\ screen = [disks |-> <<>>, sel |-> FirstSelection, scroll |-> NoScroll]
    /\ invalid = TRUE /\ lost = TRUE /\ picked = FALSE
    /\ waited = 0 /\ crashed = FALSE

Parts(disk) == VolumeCounts[disk.id]

PartSelected == sel.disk \in DOMAIN disks /\ sel.part \in DOMAIN Parts(disks[sel.disk])
VolumeSelected == PartSelected /\ sel.vol \in 1 .. Parts(disks[sel.disk])[sel.part]
Selected == <<disks[sel.disk].id, sel.part, sel.vol>>

-----------------------------------------------------------------------------
(* Painting *)

\* The rows of partitions: a disk and a place in it.
Rows(list) == UNION {{d} \X DOMAIN Parts(list[d]) : d \in {e \in DOMAIN list : list[e].expanded}}

\* Mutant: the partitions of the expanded disks above are left out.
Top_Rows(list, d) == RowHeight * (d - 1)

\* The line of the d-th row before scrolling: cursor_y.
Top(list, d) == RowHeight * (d - 1) + PartHeight * Cardinality({t \in Rows(list) : t[1] < d})

Clamp(x, most) == IF x < 0 \/ most < 0 THEN 0 ELSE IF x > most THEN most ELSE x

\* draw_content and draw_volume_section take what is out of range back.
ClampedSel ==
    LET d == IF disks # <<>> /\ sel.disk \notin DOMAIN disks THEN 1 ELSE sel.disk
        parts == IF disks = <<>> THEN <<>> ELSE Parts(disks[d])
        p == IF sel.part \in DOMAIN parts THEN sel.part ELSE 1
    IN  IF parts = <<>> THEN [sel EXCEPT !.disk = d]
        ELSE [disk |-> d, part |-> p, vol |-> IF sel.vol > parts[p] THEN 0 ELSE sel.vol]

\* The volumes of the partition that is shown.
ListLength(list, s) ==
    IF s.disk \in DOMAIN list /\ s.part \in DOMAIN Parts(list[s.disk])
    THEN Parts(list[s.disk])[s.part] ELSE 0

\* The volumes' scroll is clamped only where there is a list.
ClampedScroll(s) ==
    [side |-> Clamp(scroll.side, Top(disks, Len(disks) + 1) + RowHeight - Height),
     list |-> IF s.disk \in DOMAIN disks /\ Parts(disks[s.disk]) # <<>>
              THEN Clamp(scroll.list, ListLength(disks, s) - (Height - ListTop)) ELSE scroll.list]

\* Where draw_sidebar puts the rows.
SidebarLayout(list, at) ==
    [rows |-> [d \in DOMAIN list |-> Top(list, d) - at.side],
     close |-> {d \in DOMAIN list : list[d].id \in Images},
     parts |-> [t \in Rows(list) |->
                   Top(list, t[1]) + RowHeight + PartHeight * (t[2] - 1) - at.side],
     add |-> Top(list, Len(list) + 1) - at.side]

\* Where draw_volume_section puts the volumes, those outside of the list's viewport
\* too, and the button of the selected one.
VolumeLayout(list, s, at) ==
    [volumes |-> [v \in 1 .. ListLength(list, s) |-> ListTop + v - 1 - at.list],
     button |-> ListLength(list, s) > 0 /\ s.vol > 0]

\* WM_PAINT, which is also sent when a part of the window is uncovered.
Paint ==
    LET at == ClampedScroll(ClampedSel)
    IN  /\ sel' = ClampedSel /\ scroll' = at
        /\ hits' = [side |-> SidebarLayout(disks, at), list |-> VolumeLayout(disks, ClampedSel, at)]
        /\ screen' = [disks |-> disks, sel |-> ClampedSel, scroll |-> at]
        /\ invalid' = FALSE /\ lost' = FALSE
        /\ picked' = FALSE /\ waited' = 0
        /\ UNCHANGED <<disks, crashed>>

\* EndDraw asks for a new target: hits_ stays, and no other paint is asked for.
PaintLost ==
    /\ invalid
    /\ sel' = ClampedSel /\ scroll' = ClampedScroll(ClampedSel)
    /\ invalid' = FALSE /\ lost' = TRUE
    /\ UNCHANGED <<disks, hits, screen, picked, waited, crashed>>

-----------------------------------------------------------------------------
(* Clicks *)

Covers(top, height, y) == top <= y /\ y < top + height
InSidebar(p) == p.col \in {"row", "close"}

\* Mutant: every row that was painted is looked at.
Tested_Painted == DOMAIN hits.side.rows

\* The smaller of the two lists bounds the loops over the rows.
Tested == DOMAIN hits.side.rows \cap DOMAIN disks

\* What on_lbutton_down finds, in the order it looks.
Under(p) ==
    LET closing == {i \in Tested : /\ disks[i].id \in Images /\ i \in hits.side.close
                                   /\ p.col = "close" /\ Covers(hits.side.rows[i], 1, p.y)}
        rows == {i \in Tested : Covers(hits.side.rows[i], RowHeight, p.y)}
        parts == {t \in DOMAIN hits.side.parts : Covers(hits.side.parts[t], PartHeight, p.y)}
        volumes == {v \in DOMAIN hits.list.volumes : Covers(hits.list.volumes[v], 1, p.y)}
        The(S) == CHOOSE x \in S : TRUE
    IN  IF InSidebar(p) /\ Covers(hits.side.add, RowHeight, p.y) THEN <<"add">>
        ELSE IF Tested \ DOMAIN disks # {} THEN <<"crash">>
        ELSE IF closing # {} THEN <<"close", The(closing)>>
        ELSE IF InSidebar(p) /\ rows # {} THEN <<"row", The(rows)>>
        ELSE IF InSidebar(p) /\ parts # {} THEN <<"part", The(parts)>>
        ELSE IF p.col = "list" /\ volumes # {} THEN <<"volume", The(volumes)>>
        ELSE IF p.col = "button" /\ hits.list.button THEN <<"button">>
        ELSE <<"none">>

\* add_disk_from_dmg; an image that cannot be read has no partitions.
AddDisk(img) ==
    /\ img \notin {disks[i].id : i \in DOMAIN disks}
    /\ disks' = Append(disks, [id |-> img, expanded |-> TRUE])
    /\ sel' = IF VolumeCounts[img] = <<>> THEN [sel EXCEPT !.disk = Len(disks) + 1]
              ELSE [disk |-> Len(disks) + 1, part |-> 1, vol |-> 0]
    /\ UNCHANGED picked

\* remove_disk, after the user's Yes if it has mounts.
RemoveDisk(i) ==
    /\ disks' = RemoveAt(disks, i)
    /\ sel' = IF Len(disks) = 1 \/ sel.disk = i THEN FirstSelection
              ELSE [sel EXCEPT !.disk = IF sel.disk > i THEN @ - 1 ELSE @, !.vol = 0]
    /\ UNCHANGED picked

ToggleExpanded(i) ==
    /\ disks' = [disks EXCEPT ![i].expanded = ~@]
    /\ UNCHANGED <<sel, picked>>

\* select_partition: a place that is not in the list any more is passed over.
SelectPartition(d, p) ==
    /\ sel' = IF d \in DOMAIN disks /\ p \in DOMAIN Parts(disks[d])
              THEN [disk |-> d, part |-> p, vol |-> 0] ELSE sel
    /\ UNCHANGED <<disks, picked>>

SelectVolume(v) ==
    /\ sel' = [sel EXCEPT !.vol = v]
    /\ picked' = TRUE
    /\ UNCHANGED disks

\* toggle_mount takes the selection, not what the button was painted for.
ToMount == IF VolumeSelected THEN Selected ELSE <<>>
ToggleMount == UNCHANGED <<disks, sel, picked>>

Act(target) ==
    CASE target[1] = "add" -> \E img \in Images : AddDisk(img)
      [] target[1] = "close" -> RemoveDisk(target[2])
      [] target[1] = "row" -> ToggleExpanded(target[2])
      [] target[1] = "part" -> SelectPartition(target[2][1], target[2][2])
      [] target[1] = "volume" -> SelectVolume(target[2])
      [] target[1] = "button" -> ToggleMount

Points == [col : {"row", "close", "list"}, y : 0 .. Height - 1]
          \cup {[col |-> "button", y |-> 0]}

Click(target) ==
    /\ IF target = <<"crash">>
       THEN crashed' = TRUE /\ UNCHANGED <<disks, sel, picked, invalid>>
       ELSE Act(target) /\ invalid' = TRUE /\ UNCHANGED crashed
    /\ UNCHANGED <<scroll, hits, screen, lost>>

\* on_mouse_wheel over the sidebar or the list, one line; the next paint clamps.
Wheel(where, by) ==
    /\ scroll[where] = screen.scroll[where] /\ scroll[where] + by \in -1 .. MaxScroll
    /\ scroll' = [scroll EXCEPT ![where] = @ + by]
    /\ invalid' = TRUE
    /\ UNCHANGED <<disks, sel, hits, screen, lost, picked, crashed>>

-----------------------------------------------------------------------------
(* A rescan *)

\* Mutant: the position in the list is kept.
Restored_Position(new) == IF sel.disk \in DOMAIN new THEN sel ELSE FirstSelection

\* The selected disk is looked for by its path; a volume it does not have is
\* not selected any more.
Restored(new) ==
    LET same == {i \in DOMAIN new : sel.disk \in DOMAIN disks /\ new[i].id = disks[sel.disk].id}
        i == CHOOSE k \in same : TRUE
    IN  IF same = {} THEN FirstSelection
        ELSE IF ~PartSelected THEN [disk |-> i, part |-> 1, vol |-> 0]
        ELSE [disk |-> i, part |-> sel.part, vol |-> IF VolumeSelected THEN sel.vol ELSE 0]

\* refresh_physical_disks, with the drives a scan has seen.
Rescan(seen) ==
    LET old(id) == {i \in DOMAIN disks : disks[i].id = id}
        fresh == [n \in DOMAIN Listed(seen) |->
                     [id |-> Listed(seen)[n],
                      expanded |-> \A i \in old(Listed(seen)[n]) : disks[i].expanded]]
        new == fresh \o Kept(disks, {i \in DOMAIN disks : disks[i].id \in Images})
    IN  /\ disks' = new /\ sel' = Restored(new)
        /\ invalid' = TRUE
        /\ UNCHANGED <<scroll, hits, screen, lost, picked, crashed>>

Message ==
    \/ \E target \in {Under(p) : p \in Points} \ {<<"none">>} : Click(target)
    \/ \E where \in {"side", "list"}, by \in {-1, 1} : Wheel(where, by)
    \/ \E seen \in SUBSET Range(DriveOrder) : Rescan(seen)

Next ==
    /\ ~crashed
    /\ \/ Paint \/ PaintLost
       \/ waited < MaxMessages /\ Message /\ waited' = waited + 1

\* A paint, or a failed one: no other step takes the request back.
Painting == ~crashed /\ invalid /\ invalid' = FALSE

\* A paint that is asked for comes, once the other messages let it.
Spec == Init /\ [][Next]_vars /\ WF_invalid(Painting)

-----------------------------------------------------------------------------
(* Properties *)

\* The lines of a disk's row, and of its partitions, as they look.
Times(n, x) == [k \in 1 .. n |-> x]
RowLines(d) ==
    <<<<IF screen.disks[d].id \in Images THEN "closable" ELSE "row", d>>>>
    \o Times(RowHeight - 1, <<"row", d>>)
PartLines(d) ==
    [k \in 1 .. IF screen.disks[d].expanded THEN PartHeight * Len(Parts(screen.disks[d])) ELSE 0
        |-> <<"part", <<d, (k - 1) \div PartHeight + 1>>>>]

\* The lines down to each disk.
LinesTo ==
    LET upTo[d \in 0 .. Len(screen.disks)] ==
            IF d = 0 THEN <<>> ELSE upTo[d - 1] \o (RowLines(d) \o PartLines(d))
    IN  upTo

\* The sidebar as it looks, line by line.
Lines == LinesTo[Len(screen.disks)] \o Times(RowHeight, <<"add">>)

\* How many volumes the list shows.
ShownLength ==
    LET s == screen.sel
        shown == s.disk \in DOMAIN screen.disks /\ s.part \in DOMAIN Parts(screen.disks[s.disk])
    IN  IF shown THEN Parts(screen.disks[s.disk])[s.part] ELSE 0

\* The list of volumes as it looks, cut at its top.
ListLines ==
    LET length == ShownLength
    IN  [y \in ListTop .. Height - 1 |->
            LET v == y - ListTop + screen.scroll.list + 1
            IN  IF v \in 1 .. length THEN <<"volume", v>> ELSE <<"none">>]

\* What the user sees at a point, given these.
ShownAt(p, lines, list) ==
    LET n == p.y + screen.scroll.side + 1
        here == IF n \in DOMAIN lines THEN lines[n] ELSE <<"none">>
    IN  CASE p.col = "list" -> IF p.y \in DOMAIN list THEN list[p.y] ELSE <<"none">>
          [] p.col = "button" -> IF screen.sel.vol \in 1 .. ShownLength THEN <<"button">> ELSE <<"none">>
          [] OTHER -> IF here[1] = "closable"
                      THEN <<IF p.col = "close" THEN "close" ELSE "row", here[2]>> ELSE here

\* Has nothing but the wheel and the mounts changed since the last paint?
Fresh == ~lost /\ screen.disks = disks /\ screen.sel = sel

\* While the list and the selection are the painted ones, a click does what the
\* user sees under it, wherever the wheel has been turned to; only above the list
\* of volumes may it find a row that is scrolled out of sight.
ClickMeansShown ==
    Fresh => LET lines == Lines
                 list == ListLines
             IN  \A p \in Points : \/ Under(p) = ShownAt(p, lines, list)
                                   \/ p.col = "list" /\ p.y < ListTop

\* The button mounts and unmounts the volume it was painted for or nothing, even
\* if the disks were scanned again since, unless a volume was clicked meanwhile.
MountsWhatIsShown ==
    LET s == screen.sel
    IN  hits.list.button /\ ToMount # <<>> /\ ~picked =>
            ToMount = <<screen.disks[s.disk].id, s.part, s.vol>>

\* Every change is shown in the end, if painting does not fail: no row of an older
\* list leads outside of the new one.
ChangeIsShown == ~Fresh ~> Fresh \/ lost
=============================================================================
