--------------------------- MODULE AppWindowProofs ---------------------------
(***************************************************************************)
(* Theorems about the window's list of disks and their proofs, for any     *)
(* drives, images, partitions and volumes and any number of helper         *)
(* processes.                                                              *)
(*                                                                         *)
(* That no volume of a drive has two helpers is not inductive: the window  *)
(* does not start a second one because the list shows the first, so what   *)
(* the list shows must be right, also across the wait of a launch, and     *)
(* that rests on what a scan makes of the process table.  What is said of  *)
(* lists and processes is said of any list, set of processes and last pid, *)
(* so that it can be said of the ones before and after a step.             *)
(***************************************************************************)
EXTENDS AppWindow, FiniteSetTheorems, SequenceTheorems, WellFoundedInduction, TLAPS

HelperRecords == [pid : Nat, src : Sources, raw : Nat, vol : Nat, letter : Letters,
                  serving : BOOLEAN]
Parts == [raw : Nat, pids : Seq(Nat)]
Records == [src : Sources, parts : Seq(Parts)]

\* A helper serves a volume of its source's layout.
HelperOk(h, last) ==
    /\ h \in HelperRecords /\ h.pid \in 1 .. last
    /\ \E l \in DOMAIN Layout[h.src] :
          h.raw = Layout[h.src][l].raw /\ h.vol \in 1 .. Layout[h.src][l].vols
HelpersOk(hs, last) ==
    /\ last \in Nat
    /\ \A h \in hs : HelperOk(h, last)
    /\ \A h, g \in hs : h.pid = g.pid => h = g
OneEach(hs) == \A h, g \in hs : h.src \in Drives /\ At(h, g.src, g.raw, g.vol) => h = g

\* A partition in the list is one of the layout, and a process it shows as the mount
\* of a volume serves no other.
PartOk(src, part, hs, last) ==
    /\ \E l \in DOMAIN Layout[src] :
          part.raw = Layout[src][l].raw /\ DOMAIN part.pids = 1 .. Layout[src][l].vols
    /\ \A v \in DOMAIN part.pids :
          /\ part.pids[v] \in 0 .. last
          /\ \A h \in hs : part.pids[v] = h.pid => At(h, src, part.raw, v)
EntryOk(entry, hs, last) ==
    /\ \A p \in DOMAIN entry.parts : PartOk(entry.src, entry.parts[p], hs, last)
    /\ \A p, q \in DOMAIN entry.parts : entry.parts[p].raw = entry.parts[q].raw => p = q
\* Each drive is in the list once.
DrivesOnce(list) ==
    \A i, j \in DOMAIN list : list[i].src \in Drives /\ list[i].src = list[j].src => i = j
ListOk(list, hs, last) ==
    /\ list \in Seq(Records)
    /\ \A i \in DOMAIN list : EntryOk(list[i], hs, last)
    /\ DrivesOnce(list)

\* A helper of a drive's volume in the list is shown with it, but for one.
EntryShows(entry, hs, butOne) ==
    entry.src \in Drives =>
        \A p \in DOMAIN entry.parts : \A h \in hs :
            h.src = entry.src /\ h.raw = entry.parts[p].raw
            => entry.parts[p].pids[h.vol] = h.pid \/ h.pid = butOne
ListShows(list, hs, butOne) == \A i \in DOMAIN list : EntryShows(list[i], hs, butOne)
BeingLaunched == IF window = "launching" THEN launched ELSE 0

Questions == [index : Nat, src : Sources \cup {"none"}, stale : BOOLEAN]

\* A launch is about the volume that is selected, which nobody serves yet; a question
\* is about an image in the list.
WindowInv ==
    /\ window = "launching" =>
          /\ VolumeSelected
          /\ disks[sel.disk].parts[sel.part].pids[sel.vol] = 0
          /\ \A h \in helpers : h.pid = launched =>
                At(h, disks[sel.disk].src, disks[sel.disk].parts[sel.part].raw, sel.vol)
    /\ asked \in Questions
    /\ window = "asking" /\ ~asked.stale =>
          asked.index \in DOMAIN disks /\ disks[asked.index].src \in Images

AppIInv ==
    /\ HelpersOk(helpers, launched) /\ OneEach(helpers)
    /\ ListOk(disks, helpers, launched) /\ ListShows(disks, helpers, BeingLaunched)
    /\ WindowInv

-----------------------------------------------------------------------------
(* Finite sets of numbers *)

HasSmallest(F) == \E S \in F : \A T \in F : T \subseteq S => T = S

\* Induction over finite sets: a family of subsets of B that is not empty has a
\* member of which no other member is a subset.
LEMMA SmallestSubset ==
    ASSUME NEW B, IsFiniteSet(B), NEW F, F \subseteq SUBSET B, F # {}
    PROVE  HasSmallest(F)
  <1> DEFINE R == StrictSubsetOrdering(B)
  <1>1. IsWellFoundedOn(R, SUBSET B)
    BY FS_StrictSubsetOrderingWellFounded, FS_FiniteSubsetsOfFinite, Zenon
  <1>2. \A S, T \in SUBSET B : T \subseteq S /\ T # S => <<T, S>> \in R
    BY DEF StrictSubsetOrdering
  <1> HIDE DEF R
  <1>3. PICK S \in F : \A T \in F : ~(<<T, S>> \in R) BY <1>1, WFMin, Zenon
  <1>4. ASSUME NEW T \in F, T \subseteq S PROVE T = S
    BY <1>2, <1>3, <1>4, Zenon
  <1> QED BY <1>4, Zenon DEF HasSmallest

LEMMA FiniteSetHasMax ==
    ASSUME NEW B \in SUBSET Int, IsFiniteSet(B), B # {}
    PROVE  \E m \in B : \A p \in B : p <= m
  <1> SUFFICES ASSUME ~(\E m \in B : \A p \in B : p <= m) PROVE FALSE OBVIOUS
  <1> DEFINE F == {S \in SUBSET B : S # {} /\ ~(\E m \in S : \A p \in S : p <= m)}
  <1>1. F \subseteq SUBSET B /\ F # {}
    <2>1. B \in F OBVIOUS
    <2> QED BY <2>1
  <1>2. HasSmallest(F)
    <2> HIDE DEF F
    <2> QED BY <1>1, SmallestSubset, Zenon
  <1>3. PICK S \in F : \A T \in F : T \subseteq S => T = S BY <1>2 DEF HasSmallest
  <1>4. PICK x \in S : TRUE OBVIOUS
  <1>5. S \ {x} \notin F BY <1>3, <1>4
  <1>6. CASE S \ {x} = {}
    <2>1. \A p \in S : p = x BY <1>6
    <2> QED BY <1>4, <2>1
  <1>7. CASE S \ {x} # {}
    <2>1. PICK m \in S \ {x} : \A p \in S \ {x} : p <= m BY <1>5, <1>7
    <2>2. m \in Int /\ x \in Int /\ S \subseteq Int BY <1>4
    <2>3. CASE x <= m
      <3>1. \A p \in S : p <= m BY <2>1, <2>3
      <3> QED BY <3>1
    <2>4. CASE m <= x
      <3>1. \A p \in S : p <= x BY <2>1, <2>2, <2>4
      <3> QED BY <1>4, <3>1
    <2> QED BY <2>2, <2>3, <2>4
  <1> QED BY <1>6, <1>7

IsInOrder(s, S) ==
    /\ s \in [1 .. Cardinality(S) -> S]
    /\ \A p \in S : \E m \in DOMAIN s : s[m] = p
    /\ \A m, n \in DOMAIN s : m < n => s[m] < s[n]

\* Every finite set of numbers has an order.
LEMMA OrderExists ==
    ASSUME NEW B \in SUBSET Int, IsFiniteSet(B)
    PROVE  \E s : IsInOrder(s, B)
  <1> SUFFICES ASSUME ~(\E s : IsInOrder(s, B)) PROVE FALSE OBVIOUS
  <1> DEFINE F == {S \in SUBSET B : ~(\E s : IsInOrder(s, S))}
  <1>1. F \subseteq SUBSET B /\ F # {}
    <2>1. B \in F OBVIOUS
    <2> QED BY <2>1
  <1>2. HasSmallest(F)
    <2> HIDE DEF F
    <2> QED BY <1>1, SmallestSubset, Zenon
  <1>3. PICK S \in F : \A T \in F : T \subseteq S => T = S BY <1>2 DEF HasSmallest
  <1>4. IsFiniteSet(S) /\ S \subseteq Int BY FS_Subset
  <1>5. CASE S = {}
    <2>1. Cardinality(S) = 0 BY <1>5, FS_EmptySet
    <2>2. IsInOrder(<<>>, S) BY <1>5, <2>1 DEF IsInOrder
    <2> QED BY <2>2
  <1>6. CASE S # {}
    <2>1. PICK x \in S : \A p \in S : p <= x BY <1>4, <1>6, FiniteSetHasMax
    <2> DEFINE T == S \ {x}
               n == Cardinality(T)
    <2>2. PICK t : IsInOrder(t, T) BY <1>3, <2>1
    <2>3. IsFiniteSet(T) /\ n \in Nat /\ Cardinality(S) = n + 1
      <3>1. IsFiniteSet(T) /\ n = Cardinality(S) - 1 BY <1>4, <2>1, FS_RemoveElement
      <3>2. n \in Nat /\ Cardinality(S) \in Nat BY <1>4, <3>1, FS_CardinalityType
      <3> QED BY <3>1, <3>2
    <2> DEFINE s == [m \in 1 .. n + 1 |-> IF m = n + 1 THEN x ELSE t[m]]
    <2>4. t \in [1 .. n -> T] BY <2>2 DEF IsInOrder
    <2> HIDE DEF n, T
    <2>5. T \subseteq S /\ S \subseteq T \cup {x} /\ \A p \in T : p < x
      BY <1>4, <2>1 DEF T
    <2>6. s \in [1 .. n + 1 -> S]
      <3>1. ASSUME NEW m \in 1 .. n + 1, m # n + 1 PROVE t[m] \in S
        <4>1. m \in 1 .. n BY <2>3, <3>1
        <4> QED BY <2>4, <2>5, <4>1
      <3> QED BY <2>1, <3>1
    <2>7. \A p \in S : \E m \in 1 .. n + 1 : s[m] = p
      <3> SUFFICES ASSUME NEW p \in S PROVE \E m \in 1 .. n + 1 : s[m] = p OBVIOUS
      <3>1. CASE p = x BY <2>3, <3>1
      <3>2. CASE p \in T
        <4>1. PICK m \in 1 .. n : t[m] = p BY <2>2, <2>4, <3>2 DEF IsInOrder
        <4>2. m \in 1 .. n + 1 /\ m # n + 1 BY <2>3
        <4> QED BY <4>1, <4>2
      <3> QED BY <2>5, <3>1, <3>2
    <2>8. ASSUME NEW l \in 1 .. n + 1, NEW m \in 1 .. n + 1, l < m PROVE s[l] < s[m]
      <3>1. l \in 1 .. n /\ s[l] = t[l] /\ t[l] \in T BY <2>3, <2>4, <2>8
      <3>2. CASE m = n + 1 BY <2>5, <3>1, <3>2
      <3>3. CASE m # n + 1
        <4>1. m \in 1 .. n /\ s[m] = t[m] BY <2>3, <3>3
        <4> QED BY <2>2, <2>4, <2>8, <3>1, <4>1 DEF IsInOrder
      <3> QED BY <3>2, <3>3
    <2>9. DOMAIN s = 1 .. n + 1 OBVIOUS
    <2> HIDE DEF s
    <2>10. IsInOrder(s, S) BY <2>3, <2>6, <2>7, <2>8, <2>9 DEF IsInOrder
    <2> QED BY <2>10
  <1> QED BY <1>5, <1>6

LEMMA InOrderIs ==
    ASSUME NEW S \in SUBSET Int, IsFiniteSet(S)
    PROVE  IsInOrder(InOrder(S), S)
  <1> DEFINE P(s) == /\ \A p \in S : \E n \in DOMAIN s : s[n] = p
                     /\ \A m, n \in DOMAIN s : m < n => s[m] < s[n]
  <1>1. \E s \in [1 .. Cardinality(S) -> S] : P(s) BY OrderExists DEF IsInOrder
  <1>2. InOrder(S) = CHOOSE s \in [1 .. Cardinality(S) -> S] : P(s)
    BY DEF InOrder
  <1> HIDE DEF P
  <1>3. InOrder(S) \in [1 .. Cardinality(S) -> S] /\ P(InOrder(S))
    BY <1>1, <1>2, Zenon
  <1> QED BY <1>3 DEF P, IsInOrder

HasLeast(S) == \E n \in S : \A m \in S : n <= m

LEMMA NumbersHaveLeast ==
    ASSUME NEW S \in SUBSET Nat, S # {}
    PROVE  HasLeast(S)
  <1> DEFINE R == OpToRel(<, Nat)
  <1>1. IsWellFoundedOn(R, Nat) BY NatLessThanWellFounded
  <1>2. \A x, y \in Nat : y < x => <<y, x>> \in R BY DEF OpToRel
  <1> HIDE DEF R
  <1>3. PICK x \in S : \A y \in S : ~(<<y, x>> \in R) BY <1>1, WFMin, Zenon
  <1>4. ASSUME NEW y \in S PROVE x <= y
    <2>1. ~(<<y, x>> \in R) BY <1>3, Zenon
    <2>2. x \in Nat /\ y \in Nat BY Zenon
    <2>3. ~(y < x) BY <2>1, <2>2, <1>2, Zenon
    <2> QED BY <2>2, <2>3, SMT
  <1> QED BY <1>4 DEF HasLeast

-----------------------------------------------------------------------------
(* Lists *)

LEMMA FunctionIsSeq ==
    ASSUME NEW n \in Nat, NEW S, NEW f \in [1 .. n -> S]
    PROVE  f \in Seq(S) /\ Len(f) = n /\ DOMAIN f = 1 .. n
  BY SeqDef, LenProperties

\* What is kept of a list: each entry comes from a place of its own.
LEMMA KeptIs ==
    ASSUME NEW S, NEW list \in Seq(S), NEW P \in SUBSET DOMAIN list
    PROVE  /\ Kept(list, P) \in Seq(S)
           /\ \A m \in DOMAIN Kept(list, P) : InOrder(P)[m] \in P /\ Kept(list, P)[m] = list[InOrder(P)[m]]
           /\ \A m, n \in DOMAIN Kept(list, P) : InOrder(P)[m] = InOrder(P)[n] => m = n
           /\ \A p \in P : \E m \in DOMAIN Kept(list, P) : Kept(list, P)[m] = list[p]
           /\ \A m, n \in DOMAIN Kept(list, P) : m < n => InOrder(P)[m] < InOrder(P)[n]
  <1> DEFINE n == Cardinality(P)
             o == InOrder(P)
             k == [m \in 1 .. n |-> list[o[m]]]
  <1>1. Len(list) \in Nat /\ DOMAIN list = 1 .. Len(list) /\ list \in [1 .. Len(list) -> S]
    BY LenProperties
  <1>2. IsFiniteSet(P) /\ P \in SUBSET Int
    <2>1. IsFiniteSet(1 .. Len(list)) BY <1>1, FS_Interval
    <2>2. IsFiniteSet(P) BY <1>1, <2>1, FS_Subset
    <2> QED BY <1>1, <2>2
  <1>3. n \in Nat BY <1>2, FS_CardinalityType
  <1>4. IsInOrder(o, P) BY <1>2, InOrderIs
  <1>5. Kept(list, P) = k BY DEF Kept
  <1> HIDE DEF o
  <1>6. o \in [1 .. n -> P] /\ DOMAIN o = 1 .. n BY <1>4 DEF IsInOrder
  <1>7. (\A p \in P : \E m \in 1 .. n : o[m] = p) /\ \A l, m \in 1 .. n : l < m => o[l] < o[m]
    BY <1>4, <1>6 DEF IsInOrder
  <1> HIDE DEF n
  <1>8. k \in [1 .. n -> S] BY <1>1, <1>6
  <1>9. k \in Seq(S) /\ DOMAIN k = 1 .. n BY <1>3, <1>8, FunctionIsSeq
  <1>10. ASSUME NEW l \in 1 .. n, NEW m \in 1 .. n, o[l] = o[m] PROVE l = m
    <2>1. o[l] \in Int BY <1>2, <1>6
    <2>2. ~(o[l] < o[m]) /\ ~(o[m] < o[l]) BY <1>10, <2>1
    <2>3. l \in Int /\ m \in Int BY <1>3
    <2> QED BY <1>7, <2>2, <2>3
  <1>11. \A p \in P : \E m \in 1 .. n : k[m] = list[p] BY <1>7
  <1>12. \A m \in 1 .. n : o[m] \in P /\ k[m] = list[o[m]] BY <1>6
  <1> HIDE DEF k
  <1> QED BY <1>5, <1>7, <1>9, <1>10, <1>11, <1>12 DEF o

-----------------------------------------------------------------------------
(* What changes of the helpers and of the list leave right *)

SameMount(f, g) == f.pid = g.pid /\ At(f, g.src, g.raw, g.vol)

\* A list stays right when helpers go, change their letter's state or are new.
LEMMA ListCarried ==
    ASSUME NEW list, NEW old, NEW new, NEW last \in Nat, NEW last2 \in Nat, last <= last2,
           \A f \in new : f.pid \notin 0 .. last \/ \E g \in old : SameMount(f, g),
           ListOk(list, old, last)
    PROVE  ListOk(list, new, last2)
  <1>1. ASSUME NEW i \in DOMAIN list PROVE EntryOk(list[i], new, last2)
    <2> DEFINE e == list[i]
    <2>1. EntryOk(e, old, last) BY DEF ListOk
    <2> HIDE DEF e
    <2>2. ASSUME NEW p \in DOMAIN e.parts PROVE PartOk(e.src, e.parts[p], new, last2)
      <3> DEFINE part == e.parts[p]
      <3>1. PartOk(e.src, part, old, last) BY <2>1 DEF EntryOk
      <3> HIDE DEF part
      <3>2. ASSUME NEW v \in DOMAIN part.pids
            PROVE  /\ part.pids[v] \in 0 .. last2
                   /\ \A h \in new : part.pids[v] = h.pid => At(h, e.src, part.raw, v)
        <4>1. part.pids[v] \in 0 .. last /\ \A h \in old : part.pids[v] = h.pid => At(h, e.src, part.raw, v)
          BY <3>1 DEF PartOk
        <4>2. part.pids[v] \in 0 .. last2 BY <4>1
        <4>3. ASSUME NEW h \in new, part.pids[v] = h.pid PROVE At(h, e.src, part.raw, v)
          <5>1. PICK g \in old : SameMount(h, g) BY <4>1, <4>3
          <5> QED BY <4>1, <4>3, <5>1 DEF SameMount, At
        <4> QED BY <4>2, <4>3
      <3> QED BY <3>1, <3>2 DEF PartOk, part
    <2> QED BY <2>1, <2>2 DEF EntryOk, e
  <1> QED BY <1>1 DEF ListOk

LEMMA ShowsCarried ==
    ASSUME NEW list, NEW old, NEW new, NEW but, NEW but2,
           \A f \in new : f.pid = but2 \/ \E g \in old : SameMount(f, g) /\ g.pid # but,
           ListShows(list, old, but)
    PROVE  ListShows(list, new, but2)
  <1> SUFFICES ASSUME NEW i \in DOMAIN list, list[i].src \in Drives,
                      NEW p \in DOMAIN list[i].parts, NEW h \in new,
                      h.src = list[i].src, h.raw = list[i].parts[p].raw, h.pid # but2
               PROVE  list[i].parts[p].pids[h.vol] = h.pid
    BY DEF ListShows, EntryShows
  <1>1. PICK g \in old : SameMount(h, g) /\ g.pid # but OBVIOUS
  <1>2. EntryShows(list[i], old, but) BY DEF ListShows
  <1> QED BY <1>1, <1>2 DEF EntryShows, SameMount, At

\* A list of entries of another list, each from a place of its own.
LEMMA ListFromPlaces ==
    ASSUME NEW old, NEW new \in Seq(Records), NEW hs, NEW last,
           NEW place \in [DOMAIN new -> DOMAIN old],
           \A i \in DOMAIN new : new[i] = old[place[i]],
           \A i, j \in DOMAIN new : place[i] = place[j] => i = j,
           ListOk(old, hs, last)
    PROVE  ListOk(new, hs, last) /\ \A but : ListShows(old, hs, but) => ListShows(new, hs, but)
  <1>1. \A i \in DOMAIN new : EntryOk(new[i], hs, last) BY DEF ListOk
  <1>2. DrivesOnce(new) BY DEF ListOk, DrivesOnce
  <1>3. ASSUME NEW but, ListShows(old, hs, but) PROVE ListShows(new, hs, but)
    BY <1>3 DEF ListShows
  <1> QED BY <1>1, <1>2, <1>3 DEF ListOk

\* A list and one of images after it.
LEMMA ListWithImages ==
    ASSUME NEW a, NEW b, NEW hs, NEW last, ListOk(a, hs, last), ListOk(b, hs, last),
           \A i \in DOMAIN b : b[i].src \in Images
    PROVE  /\ ListOk(a \o b, hs, last)
           /\ \A but : ListShows(a, hs, but) /\ ListShows(b, hs, but) => ListShows(a \o b, hs, but)
  <1> DEFINE c == a \o b
  <1>1. a \in Seq(Records) /\ b \in Seq(Records) BY DEF ListOk
  <1>2. c \in Seq(Records) /\ Len(a) \in Nat /\ Len(b) \in Nat /\ Len(c) = Len(a) + Len(b)
        /\ DOMAIN a = 1 .. Len(a) /\ DOMAIN b = 1 .. Len(b) /\ DOMAIN c = 1 .. Len(c)
        /\ \A i \in 1 .. Len(c) : c[i] = IF i <= Len(a) THEN a[i] ELSE b[i - Len(a)]
    BY <1>1, ConcatProperties, LenProperties
  <1> HIDE DEF c
  <1>3. ASSUME NEW i \in DOMAIN c
        PROVE  \/ i \in DOMAIN a /\ c[i] = a[i]
               \/ i - Len(a) \in DOMAIN b /\ c[i] = b[i - Len(a)]
    BY <1>2
  <1>4. \A i \in DOMAIN c : EntryOk(c[i], hs, last) BY <1>3 DEF ListOk
  <1>5. Drives \cap Images = {} BY LayoutAssumption
  <1>6. \A i \in DOMAIN c : c[i].src \in Drives => i \in DOMAIN a /\ c[i] = a[i] BY <1>3, <1>5
  <1>7. DrivesOnce(a) BY DEF ListOk
  <1>8. DrivesOnce(c) BY <1>6, <1>7 DEF DrivesOnce
  <1>9. ASSUME NEW but, ListShows(a, hs, but), ListShows(b, hs, but) PROVE ListShows(c, hs, but)
    BY <1>3, <1>9 DEF ListShows
  <1> QED BY <1>2, <1>4, <1>8, <1>9 DEF ListOk, c

LEMMA NoEntriesOfDrive ==
    ASSUME NEW list, NEW d, \A i \in DOMAIN list : list[i].src # d
    PROVE  Entries(list, d) = 0
  <1>1. {i \in DOMAIN list : list[i].src = d} = {} OBVIOUS
  <1> QED BY <1>1, FS_EmptySet DEF Entries

-----------------------------------------------------------------------------
(* What a scan finds *)

LEMMA LayoutIs ==
    ASSUME NEW src \in Sources
    PROVE  /\ Layout[src] \in Seq([raw : Nat, vols : Nat])
           /\ \A l \in DOMAIN Layout[src] : Layout[src][l].raw \in Nat /\ Layout[src][l].vols \in Nat
           /\ \A l, m \in DOMAIN Layout[src] : Layout[src][l].raw = Layout[src][m].raw => l = m
  <1>1. Layout[src] \in Seq([raw : Nat, vols : Nat]) BY LayoutAssumption
  <1>2. \A l \in DOMAIN Layout[src] : Layout[src][l] \in [raw : Nat, vols : Nat] /\ l \in Int
    <2> DEFINE list == Layout[src]
    <2>1. list \in Seq([raw : Nat, vols : Nat]) BY <1>1
    <2> HIDE DEF list
    <2>2. list \in [1 .. Len(list) -> [raw : Nat, vols : Nat]] /\ Len(list) \in Nat
      BY <2>1, LenProperties
    <2>3. \A l \in DOMAIN list : list[l] \in [raw : Nat, vols : Nat] /\ l \in Int BY <2>2
    <2> QED BY <2>3 DEF list
  <1>3. \A l \in DOMAIN Layout[src] : Layout[src][l].raw \in Nat /\ Layout[src][l].vols \in Nat
    BY <1>2
  <1>4. ASSUME NEW l \in DOMAIN Layout[src], NEW m \in DOMAIN Layout[src],
               Layout[src][l].raw = Layout[src][m].raw
        PROVE  l = m
    <2>1. ~(l < m) /\ ~(m < l) BY <1>3, <1>4, LayoutAssumption
    <2> QED BY <1>2, <2>1
  <1> QED BY <1>1, <1>3, <1>4

\* What the scan takes for a volume's mount: a helper that serves that volume, and on a
\* drive the one that does.
LEMMA MountPidIs ==
    ASSUME HelpersOk(helpers, launched), NEW src, NEW raw, NEW vol
    PROVE  /\ MountPid(src, raw, vol) \in 0 .. launched
           /\ \A h \in helpers : MountPid(src, raw, vol) = h.pid => At(h, src, raw, vol)
           /\ OneEach(helpers) /\ src \in Drives =>
                 \A h \in helpers : At(h, src, raw, vol) => MountPid(src, raw, vol) = h.pid
  <1> DEFINE here == {h.pid : h \in {g \in helpers : At(g, src, raw, vol)}}
             pid == MountPid(src, raw, vol)
  <1>1. \A h \in helpers : h.pid \in 1 .. launched BY DEF HelpersOk, HelperOk
  <1>2. launched \in Nat BY DEF HelpersOk
  <1>3. here \subseteq 1 .. launched BY <1>1
  <1>4. pid = IF here = {} THEN 0 ELSE CHOOSE p \in here : \A q \in here : p <= q
    BY DEF MountPid
  <1>5. \A h \in helpers : h.pid \in here => At(h, src, raw, vol) BY DEF HelpersOk
  <1>6. ASSUME OneEach(helpers), src \in Drives, NEW h \in helpers, At(h, src, raw, vol)
        PROVE  here = {h.pid}
    BY <1>6 DEF OneEach, At
  <1>7. \A h \in helpers : At(h, src, raw, vol) => h.pid \in here OBVIOUS
  <1> HIDE DEF here, pid
  <1>8. CASE here = {}
    <2>1. pid = 0 BY <1>4, <1>8
    <2>2. \A h \in helpers : pid # h.pid /\ ~At(h, src, raw, vol) BY <1>1, <1>2, <1>7, <1>8, <2>1
    <2> QED BY <1>2, <2>1, <2>2 DEF pid
  <1>9. CASE here # {}
    <2>1. HasLeast(here) BY <1>2, <1>3, <1>9, NumbersHaveLeast
    <2>2. pid \in here BY <1>4, <1>9, <2>1 DEF HasLeast
    <2>3. pid \in 0 .. launched BY <1>2, <1>3, <2>2
    <2>4. \A h \in helpers : pid = h.pid => At(h, src, raw, vol) BY <1>5, <2>2
    <2> QED BY <1>6, <2>2, <2>3, <2>4 DEF pid
  <1> QED BY <1>8, <1>9

\* An entry that shows what the process table says.
LEMMA Populated ==
    ASSUME HelpersOk(helpers, launched), NEW src \in Sources, NEW readable
    PROVE  /\ PopulateDisk(src, readable) \in Records
           /\ PopulateDisk(src, readable).src = src
           /\ EntryOk(PopulateDisk(src, readable), helpers, launched)
           /\ OneEach(helpers) => EntryShows(PopulateDisk(src, readable), helpers, 0)
  <1> DEFINE P == {i \in DOMAIN Layout[src] : Layout[src][i].raw \in readable}
             kept == Kept(Layout[src], P)
             Pids(l) == [v \in 1 .. l.vols |-> MountPid(src, l.raw, v)]
             ps == [i \in DOMAIN kept |-> [raw |-> kept[i].raw, pids |-> Pids(kept[i])]]
             o == InOrder(P)
  <1>1. PopulateDisk(src, readable) = [src |-> src, parts |-> ps] BY DEF PopulateDisk
  <1>2. /\ kept \in Seq([raw : Nat, vols : Nat])
        /\ \A m \in DOMAIN kept : o[m] \in P /\ kept[m] = Layout[src][o[m]]
        /\ \A m, n \in DOMAIN kept : o[m] = o[n] => m = n
    <2>1. P \subseteq DOMAIN Layout[src] OBVIOUS
    <2> HIDE DEF P
    <2> QED BY <2>1, LayoutIs, KeptIs
  <1>3. P \subseteq DOMAIN Layout[src] OBVIOUS
  <1> HIDE DEF P, kept, o
  <1>4. Len(kept) \in Nat /\ DOMAIN kept = 1 .. Len(kept) BY <1>2, LenProperties
  <1>5. ASSUME NEW m \in DOMAIN kept
        PROVE  /\ kept[m].raw \in Nat /\ kept[m].vols \in Nat
               /\ Pids(kept[m]) \in Seq(Nat) /\ DOMAIN Pids(kept[m]) = 1 .. kept[m].vols
    <2>1. kept[m].raw \in Nat /\ kept[m].vols \in Nat BY <1>2, <1>3, LayoutIs
    <2>2. launched \in Nat BY DEF HelpersOk
    <2>3. \A v \in 1 .. kept[m].vols : MountPid(src, kept[m].raw, v) \in Nat
      BY <2>2, MountPidIs
    <2>4. Pids(kept[m]) \in [1 .. kept[m].vols -> Nat] BY <2>3
    <2> QED BY <2>1, <2>4, FunctionIsSeq
  <1>6. \A m \in DOMAIN kept : \A v \in 1 .. kept[m].vols : Pids(kept[m])[v] = MountPid(src, kept[m].raw, v)
    OBVIOUS
  <1> HIDE DEF Pids
  <1>7. ps \in Seq(Parts) /\ DOMAIN ps = DOMAIN kept
    <2>1. ps \in [1 .. Len(kept) -> Parts] BY <1>4, <1>5 DEF Parts
    <2> QED BY <1>4, <2>1, FunctionIsSeq
  <1>8. \A m \in DOMAIN kept : ps[m].raw = kept[m].raw /\ ps[m].pids = Pids(kept[m]) OBVIOUS
  <1> HIDE DEF ps
  <1>9. ASSUME NEW m \in DOMAIN ps PROVE PartOk(src, ps[m], helpers, launched)
    <2>1. /\ o[m] \in DOMAIN Layout[src] /\ ps[m].raw = Layout[src][o[m]].raw
          /\ DOMAIN ps[m].pids = 1 .. Layout[src][o[m]].vols
      BY <1>2, <1>3, <1>5, <1>7, <1>8
    <2>2. ASSUME NEW v \in DOMAIN ps[m].pids
          PROVE  /\ ps[m].pids[v] \in 0 .. launched
                 /\ \A h \in helpers : ps[m].pids[v] = h.pid => At(h, src, ps[m].raw, v)
      <3>1. ps[m].pids[v] = MountPid(src, ps[m].raw, v) BY <1>5, <1>6, <1>7, <1>8
      <3> QED BY <3>1, MountPidIs
    <2> QED BY <2>1, <2>2 DEF PartOk
  <1>10. \A m, n \in DOMAIN ps : ps[m].raw = ps[n].raw => m = n
    <2>1. \A m \in DOMAIN ps : o[m] \in DOMAIN Layout[src] /\ ps[m].raw = Layout[src][o[m]].raw
      BY <1>2, <1>3, <1>7, <1>8
    <2>2. \A m, n \in DOMAIN ps : ps[m].raw = ps[n].raw => o[m] = o[n] BY <2>1, LayoutIs
    <2> QED BY <1>2, <1>7, <2>2
  <1>11. ASSUME OneEach(helpers), src \in Drives, NEW m \in DOMAIN ps, NEW h \in helpers,
                h.src = src, h.raw = ps[m].raw
         PROVE  ps[m].pids[h.vol] = h.pid
    <2>1. PICK l \in DOMAIN Layout[src] : h.raw = Layout[src][l].raw /\ h.vol \in 1 .. Layout[src][l].vols
      BY <1>11 DEF HelpersOk, HelperOk
    <2>2. o[m] \in DOMAIN Layout[src] /\ ps[m].raw = Layout[src][o[m]].raw
          /\ kept[m].vols = Layout[src][o[m]].vols /\ kept[m].raw = h.raw
      BY <1>2, <1>3, <1>7, <1>8, <1>11
    <2>3. l = o[m] BY <1>11, <2>1, <2>2, LayoutIs, ZenonT(30)
    <2>4. h.vol \in 1 .. kept[m].vols BY <2>1, <2>2, <2>3
    <2>5. ps[m].pids[h.vol] = MountPid(src, h.raw, h.vol)
      BY <1>6, <1>7, <1>8, <2>2, <2>4
    <2>6. At(h, src, h.raw, h.vol) BY <1>11 DEF At
    <2> QED BY <1>11, <2>5, <2>6, MountPidIs
  <1> DEFINE d == [src |-> src, parts |-> ps]
  <1>12. d \in Records /\ d.src = src /\ d.parts = ps BY <1>7 DEF Records
  <1> HIDE DEF d
  <1>13. EntryOk(d, helpers, launched) BY <1>9, <1>10, <1>12 DEF EntryOk
  <1>14. OneEach(helpers) => EntryShows(d, helpers, 0) BY <1>11, <1>12 DEF EntryShows
  <1> QED BY <1>1, <1>12, <1>13, <1>14 DEF d

\* The scan of the drives: each drive at most once, as the process table has it.
LEMMA ScannedDrives ==
    ASSUME HelpersOk(helpers, launched), OneEach(helpers), NEW seen
    PROVE  /\ ListOk(PhysicalDisks(seen), helpers, launched)
           /\ ListShows(PhysicalDisks(seen), helpers, 0)
           /\ \A i \in DOMAIN PhysicalDisks(seen) : PhysicalDisks(seen)[i].src \in Drives
  <1> DEFINE P == {i \in DOMAIN DriveOrder : seen[DriveOrder[i]] # {}}
             listed == Kept(DriveOrder, P)
             o == InOrder(P)
             ds == [i \in DOMAIN listed |-> PopulateDisk(listed[i], seen[listed[i]])]
  <1>1. PhysicalDisks(seen) = ds BY DEF PhysicalDisks
  <1>2. DriveOrder \in Seq(Drives) /\ P \subseteq DOMAIN DriveOrder BY LayoutAssumption
  <1> HIDE DEF P
  <1>3. /\ listed \in Seq(Drives)
        /\ \A m \in DOMAIN listed : o[m] \in P /\ listed[m] = DriveOrder[o[m]]
        /\ \A m, n \in DOMAIN listed : o[m] = o[n] => m = n
    BY <1>2, KeptIs
  <1> HIDE DEF listed, o
  <1>4. Len(listed) \in Nat /\ listed \in [1 .. Len(listed) -> Drives]
        /\ DOMAIN listed = 1 .. Len(listed)
    BY <1>3, LenProperties
  <1>5. \A m \in DOMAIN listed : listed[m] \in Drives /\ listed[m] \in Sources BY <1>4 DEF Sources
  <1>6. ASSUME NEW m \in DOMAIN listed
        PROVE  /\ ds[m] \in Records /\ ds[m].src = listed[m]
               /\ EntryOk(ds[m], helpers, launched) /\ EntryShows(ds[m], helpers, 0)
    BY <1>5, Populated
  <1>7. ds \in [1 .. Len(listed) -> Records] BY <1>4, <1>6
  <1> HIDE DEF ds
  <1>8. ds \in Seq(Records) /\ DOMAIN ds = DOMAIN listed BY <1>4, <1>7, FunctionIsSeq
  <1>9. \A m, n \in DOMAIN listed : listed[m] = listed[n] => m = n
    <2>1. \A m \in DOMAIN listed : o[m] \in DOMAIN DriveOrder /\ listed[m] = DriveOrder[o[m]]
      BY <1>2, <1>3
    <2>2. \A m, n \in DOMAIN listed : listed[m] = listed[n] => o[m] = o[n]
      BY <2>1, LayoutAssumption
    <2> QED BY <1>3, <2>2
  <1>10. DrivesOnce(ds) BY <1>6, <1>8, <1>9 DEF DrivesOnce
  <1>11. ListOk(ds, helpers, launched) /\ ListShows(ds, helpers, 0)
    BY <1>6, <1>8, <1>10 DEF ListOk, ListShows
  <1> QED BY <1>1, <1>5, <1>6, <1>8, <1>11

\* The images that are found again from the helpers.
LEMMA FoundImages ==
    ASSUME HelpersOk(helpers, launched), NEW readable \in SUBSET Images
    PROVE  /\ ListOk(RediscoveredImages(readable), helpers, launched)
           /\ \A i \in DOMAIN RediscoveredImages(readable) :
                 RediscoveredImages(readable)[i].src \in Images
  <1> DEFINE served == [p \in 1 .. launched |->
                           {h.src : h \in {g \in helpers : g.pid = p}} \cap readable]
             P == {p \in 1 .. launched : /\ served[p] # {}
                                         /\ \A q \in 1 .. (p - 1) : served[q] # served[p]}
             first == InOrder(P)
             src(p) == CHOOSE s \in served[p] : TRUE
             ds == [i \in DOMAIN first |-> PopulateDisk(src(first[i]), RawsOf(src(first[i])))]
  <1>1. RediscoveredImages(readable) = ds BY DEF RediscoveredImages
  <1>2. P \subseteq 1 .. launched /\ \A p \in P : src(p) \in Images OBVIOUS
  <1>3. launched \in Nat BY DEF HelpersOk
  <1> HIDE DEF P, src
  <1>4. IsFiniteSet(P) /\ P \in SUBSET Int
    <2>1. IsFiniteSet(1 .. launched) BY <1>3, FS_Interval
    <2>2. IsFiniteSet(P) BY <1>2, <2>1, FS_Subset
    <2> QED BY <1>2, <1>3, <2>2
  <1> DEFINE n == Cardinality(P)
  <1>5. n \in Nat BY <1>4, FS_CardinalityType
  <1>6. first \in [1 .. n -> P] BY <1>4, InOrderIs DEF IsInOrder
  <1> HIDE DEF first, n
  <1>7. DOMAIN first = 1 .. n BY <1>6
  <1>8. \A i \in 1 .. n : src(first[i]) \in Images /\ src(first[i]) \in Sources
    BY <1>2, <1>6 DEF Sources
  <1>9. ASSUME NEW i \in 1 .. n
        PROVE  /\ ds[i] \in Records /\ ds[i].src = src(first[i])
               /\ EntryOk(ds[i], helpers, launched)
    BY <1>7, <1>8, Populated
  <1>10. ds \in [1 .. n -> Records] BY <1>7, <1>9
  <1> HIDE DEF ds
  <1>11. ds \in Seq(Records) /\ DOMAIN ds = 1 .. n BY <1>5, <1>10, FunctionIsSeq
  <1>12. \A i \in DOMAIN ds : ds[i].src \in Images BY <1>8, <1>9, <1>11
  <1>13. Drives \cap Images = {} BY LayoutAssumption
  <1>14. ListOk(ds, helpers, launched) BY <1>9, <1>11, <1>12, <1>13 DEF ListOk, DrivesOnce
  <1> QED BY <1>1, <1>12, <1>14

\* Images show nothing that a drive's helper must be shown by.
LEMMA ImagesShow ==
    ASSUME NEW list, NEW hs, NEW but, \A i \in DOMAIN list : list[i].src \in Images
    PROVE  ListShows(list, hs, but)
  BY LayoutAssumption DEF ListShows, EntryShows

-----------------------------------------------------------------------------
(* Changes to the list *)

\* The entries of images, in their order.
LEMMA KeptImages ==
    ASSUME ListOk(disks, helpers, launched)
    PROVE  /\ ListOk(Kept(disks, ImageEntries), helpers, launched)
           /\ \A i \in DOMAIN Kept(disks, ImageEntries) :
                 Kept(disks, ImageEntries)[i].src \in Images
  <1> DEFINE o == InOrder(ImageEntries)
             kept == Kept(disks, ImageEntries)
             place == [m \in DOMAIN kept |-> o[m]]
  <1>1. disks \in Seq(Records) BY DEF ListOk
  <1>2. ImageEntries \subseteq DOMAIN disks /\ \A i \in ImageEntries : disks[i].src \in Images
    BY DEF ImageEntries
  <1>3. /\ kept \in Seq(Records)
        /\ \A m \in DOMAIN kept : o[m] \in ImageEntries /\ kept[m] = disks[o[m]]
        /\ \A m, n \in DOMAIN kept : o[m] = o[n] => m = n
    BY <1>1, <1>2, KeptIs
  <1> HIDE DEF kept, o
  <1>4. place \in [DOMAIN kept -> DOMAIN disks] BY <1>2, <1>3
  <1>5. /\ \A m \in DOMAIN kept : kept[m] = disks[place[m]]
        /\ \A m, n \in DOMAIN kept : place[m] = place[n] => m = n
    BY <1>3
  <1> HIDE DEF place
  <1>6. ListOk(kept, helpers, launched) BY <1>3, <1>4, <1>5, ListFromPlaces, Zenon
  <1>7. \A m \in DOMAIN kept : kept[m].src \in Images BY <1>2, <1>3
  <1> QED BY <1>6, <1>7 DEF kept

LEMMA ErasedIs ==
    ASSUME NEW i \in DOMAIN disks, ListOk(disks, helpers, launched)
    PROVE  /\ ListOk(Erased(i), helpers, launched)
           /\ \A but : ListShows(disks, helpers, but) => ListShows(Erased(i), helpers, but)
  <1> DEFINE n == Len(disks)
             new == Erased(i)
             place == [m \in 1 .. n - 1 |-> IF m < i THEN m ELSE m + 1]
  <1>1. disks \in Seq(Records) BY DEF ListOk
  <1>2. n \in Nat /\ DOMAIN disks = 1 .. n /\ disks \in [1 .. n -> Records] BY <1>1, LenProperties
  <1>3. new = [m \in 1 .. n - 1 |-> IF m < i THEN disks[m] ELSE disks[m + 1]] BY DEF Erased
  <1>4. i \in Int /\ n - 1 \in Nat BY <1>2
  <1> HIDE DEF n, new
  <1>5. \A m \in 1 .. n - 1 : m \in 1 .. n /\ m + 1 \in 1 .. n BY <1>2
  <1>6. new \in [1 .. n - 1 -> Records] BY <1>2, <1>3, <1>5
  <1>7. new \in Seq(Records) /\ DOMAIN new = 1 .. n - 1 BY <1>4, <1>6, FunctionIsSeq
  <1>8. place \in [DOMAIN new -> DOMAIN disks] BY <1>2, <1>5, <1>7
  <1>9. \A m \in DOMAIN new : new[m] = disks[place[m]] BY <1>3, <1>7
  <1>10. \A l, m \in DOMAIN new : place[l] = place[m] => l = m BY <1>4, <1>7
  <1> HIDE DEF place
  <1>11. /\ ListOk(new, helpers, launched)
         /\ \A but : ListShows(disks, helpers, but) => ListShows(new, helpers, but)
    BY <1>7, <1>8, <1>9, <1>10, ListFromPlaces, Zenon
  <1> QED BY <1>11 DEF new

LEMMA AppendedIs ==
    ASSUME NEW entry \in Records, EntryOk(entry, helpers, launched), entry.src \in Images,
           ListOk(disks, helpers, launched)
    PROVE  /\ ListOk(Append(disks, entry), helpers, launched)
           /\ \A but : ListShows(disks, helpers, but)
                       => ListShows(Append(disks, entry), helpers, but)
  <1>1. disks \in Seq(Records) BY DEF ListOk
  <1>2. Append(disks, entry) = disks \o <<entry>> BY <1>1, AppendIsConcat
  <1> DEFINE one == <<entry>>
  <1>3. one \in Seq(Records) /\ DOMAIN one = {1} /\ one[1] = entry OBVIOUS
  <1> HIDE DEF one
  <1>4. ListOk(one, helpers, launched) BY <1>3 DEF ListOk, DrivesOnce
  <1>5. \A i \in DOMAIN one : one[i].src \in Images BY <1>3
  <1>6. \A but : ListShows(one, helpers, but) BY <1>5, ImagesShow
  <1>7. /\ ListOk(disks \o one, helpers, launched)
        /\ \A but : ListShows(disks, helpers, but) /\ ListShows(one, helpers, but)
                    => ListShows(disks \o one, helpers, but)
    BY <1>4, <1>5, ListWithImages
  <1> QED BY <1>2, <1>6, <1>7 DEF one

\* new is old but for the process one volume shows.
ChangedAt(old, new, d, q, w, pid) ==
    /\ new \in Seq(Records) /\ DOMAIN new = DOMAIN old
    /\ \A i \in DOMAIN old :
          /\ new[i].src = old[i].src /\ DOMAIN new[i].parts = DOMAIN old[i].parts
          /\ \A p \in DOMAIN old[i].parts :
                /\ new[i].parts[p].raw = old[i].parts[p].raw
                /\ DOMAIN new[i].parts[p].pids = DOMAIN old[i].parts[p].pids
                /\ \A v \in DOMAIN old[i].parts[p].pids :
                      new[i].parts[p].pids[v] =
                          IF i = d /\ p = q /\ v = w THEN pid ELSE old[i].parts[p].pids[v]

\* ExceptSeq, in terms of the domain.
LEMMA SetOneOf ==
    ASSUME NEW S, NEW s \in Seq(S), NEW i \in DOMAIN s, NEW x \in S
    PROVE  /\ [s EXCEPT ![i] = x] \in Seq(S)
           /\ DOMAIN [s EXCEPT ![i] = x] = DOMAIN s
           /\ \A j \in DOMAIN s : [s EXCEPT ![i] = x][j] = IF j = i THEN x ELSE s[j]
  <1>1. DOMAIN s = 1 .. Len(s) BY LenProperties
  <1>2. [s EXCEPT ![i] = x] \in Seq(S) BY <1>1, ExceptSeq
  <1> QED BY <1>1, <1>2

LEMMA SetPidIs ==
    ASSUME disks \in Seq(Records), VolumeSelected, NEW pid \in Nat, SetPid(pid)
    PROVE  ChangedAt(disks, disks', sel.disk, sel.part, sel.vol, pid)
  <1> DEFINE d == sel.disk
             q == sel.part
             w == sel.vol
             e == disks[d]
             ps == disks[d].parts
             part == disks[d].parts[q]
             pids == disks[d].parts[q].pids
             newPids == [pids EXCEPT ![w] = pid]
             newPart == [part EXCEPT !.pids = newPids]
             newParts == [ps EXCEPT ![q] = newPart]
             newEntry == [e EXCEPT !.parts = newParts]
  <1>1. disks' = [disks EXCEPT ![d] = newEntry] BY DEF SetPid
  <1>2. d \in DOMAIN disks /\ q \in DOMAIN ps /\ w \in DOMAIN pids
    BY DEF VolumeSelected, PartSelected, DiskSelected
  <1>3. e \in Records
    <2>1. disks \in [1 .. Len(disks) -> Records] BY LenProperties
    <2> QED BY <1>2, <2>1
  <1>4. ps \in Seq(Parts) BY <1>3 DEF Records
  <1>5. part \in Parts
    <2> HIDE DEF ps
    <2>1. ps \in [1 .. Len(ps) -> Parts] BY <1>4, LenProperties
    <2>2. ps[q] \in Parts BY <1>2, <2>1
    <2> QED BY <2>2 DEF ps
  <1>6. pids \in Seq(Nat) BY <1>5 DEF Parts
  <1>7. /\ newPids \in Seq(Nat) /\ DOMAIN newPids = DOMAIN pids
        /\ \A v \in DOMAIN pids : newPids[v] = IF v = w THEN pid ELSE pids[v]
    BY <1>2, <1>6, SetOneOf
  <1>8. newPart \in Parts /\ newPart.raw = part.raw /\ newPart.pids = newPids
    <2> HIDE DEF part, newPids
    <2> QED BY <1>5, <1>7 DEF Parts
  <1>9. /\ newParts \in Seq(Parts) /\ DOMAIN newParts = DOMAIN ps
        /\ \A p \in DOMAIN ps : newParts[p] = IF p = q THEN newPart ELSE ps[p]
    <2> HIDE DEF newPart, ps
    <2> QED BY <1>2, <1>4, <1>8, SetOneOf
  <1>10. newEntry \in Records /\ newEntry.src = e.src /\ newEntry.parts = newParts
    <2> HIDE DEF e, newParts
    <2> QED BY <1>3, <1>9 DEF Records
  <1>11. /\ disks' \in Seq(Records) /\ DOMAIN disks' = DOMAIN disks
         /\ \A i \in DOMAIN disks : disks'[i] = IF i = d THEN newEntry ELSE disks[i]
    <2> HIDE DEF newEntry
    <2> QED BY <1>1, <1>2, <1>10, SetOneOf
  <1> HIDE DEF newEntry, newParts, newPart, newPids
  <1>12. ASSUME NEW i \in DOMAIN disks
         PROVE  /\ disks'[i].src = disks[i].src
                /\ DOMAIN disks'[i].parts = DOMAIN disks[i].parts
                /\ \A p \in DOMAIN disks[i].parts :
                      /\ disks'[i].parts[p].raw = disks[i].parts[p].raw
                      /\ DOMAIN disks'[i].parts[p].pids = DOMAIN disks[i].parts[p].pids
                      /\ \A v \in DOMAIN disks[i].parts[p].pids :
                            disks'[i].parts[p].pids[v] =
                                IF i = d /\ p = q /\ v = w THEN pid
                                ELSE disks[i].parts[p].pids[v]
    <2>1. CASE i # d BY <1>11, <2>1
    <2>2. CASE i = d
      <3>1. disks'[i].src = disks[i].src /\ disks'[i].parts = newParts BY <1>10, <1>11, <2>2
      <3>2. ASSUME NEW p \in DOMAIN ps
            PROVE  /\ newParts[p].raw = ps[p].raw
                   /\ DOMAIN newParts[p].pids = DOMAIN ps[p].pids
                   /\ \A v \in DOMAIN ps[p].pids :
                         newParts[p].pids[v] = IF p = q /\ v = w THEN pid ELSE ps[p].pids[v]
        <4>1. CASE p = q BY <1>7, <1>8, <1>9, <4>1
        <4>2. CASE p # q BY <1>9, <4>2
        <4> QED BY <4>1, <4>2
      <3> QED BY <1>9, <2>2, <3>1, <3>2
    <2> QED BY <2>1, <2>2
  <1> QED BY <1>11, <1>12 DEF ChangedAt

\* A helper's volume is one of the partition that it is of.
LEMMA VolumeIn ==
    ASSUME NEW list, NEW hs, NEW last, HelpersOk(hs, last), ListOk(list, hs, last),
           NEW i \in DOMAIN list, NEW p \in DOMAIN list[i].parts, NEW h \in hs,
           h.src = list[i].src, h.raw = list[i].parts[p].raw
    PROVE  h.vol \in DOMAIN list[i].parts[p].pids
  <1> DEFINE src == list[i].src
             part == list[i].parts[p]
  <1>1. PartOk(src, part, hs, last) BY DEF ListOk, EntryOk
  <1>2. h.src = src /\ h.raw = part.raw OBVIOUS
  <1> HIDE DEF src, part
  <1>3. PICK l \in DOMAIN Layout[src] : h.raw = Layout[src][l].raw /\ h.vol \in 1 .. Layout[src][l].vols
    BY <1>2 DEF HelpersOk, HelperOk
  <1>4. PICK m \in DOMAIN Layout[src] :
           part.raw = Layout[src][m].raw /\ DOMAIN part.pids = 1 .. Layout[src][m].vols
    BY <1>1 DEF PartOk
  <1>5. src \in Sources BY <1>2 DEF HelpersOk, HelperOk, HelperRecords
  <1>6. l = m BY <1>2, <1>3, <1>4, <1>5, LayoutIs
  <1> QED BY <1>3, <1>4, <1>6 DEF part

LEMMA ChangedOk ==
    ASSUME NEW old, NEW new, NEW hs, NEW last, NEW d, NEW q, NEW w, NEW pid \in 0 .. last,
           ListOk(old, hs, last), ChangedAt(old, new, d, q, w, pid),
           \A h \in hs : h.pid = pid => At(h, old[d].src, old[d].parts[q].raw, w)
    PROVE  ListOk(new, hs, last)
  <1>1. ASSUME NEW i \in DOMAIN old, NEW p \in DOMAIN old[i].parts
        PROVE  PartOk(new[i].src, new[i].parts[p], hs, last)
    <2> DEFINE src == old[i].src
               was == old[i].parts[p]
               part == new[i].parts[p]
    <2>1. PartOk(src, was, hs, last) BY DEF ListOk, EntryOk
    <2>2. /\ new[i].src = src /\ part.raw = was.raw /\ DOMAIN part.pids = DOMAIN was.pids
          /\ \A v \in DOMAIN was.pids :
                part.pids[v] = IF i = d /\ p = q /\ v = w THEN pid ELSE was.pids[v]
      BY DEF ChangedAt
    <2>3. i = d /\ p = q => \A h \in hs : h.pid = pid => At(h, src, was.raw, w) OBVIOUS
    <2> HIDE DEF src, was, part
    <2>4. ASSUME NEW v \in DOMAIN part.pids
          PROVE  /\ part.pids[v] \in 0 .. last
                 /\ \A h \in hs : part.pids[v] = h.pid => At(h, src, part.raw, v)
      <3>1. CASE i = d /\ p = q /\ v = w BY <2>2, <2>3, <3>1
      <3>2. CASE ~(i = d /\ p = q /\ v = w) BY <2>1, <2>2, <3>2 DEF PartOk
      <3> QED BY <3>1, <3>2
    <2>5. PartOk(src, part, hs, last) BY <2>1, <2>2, <2>4 DEF PartOk
    <2> QED BY <2>2, <2>5 DEF part
  <1>2. \A i \in DOMAIN new : EntryOk(new[i], hs, last)
    BY <1>1 DEF ChangedAt, ListOk, EntryOk
  <1> QED BY <1>2 DEF ChangedAt, ListOk, DrivesOnce

\* The list shows all helpers once the changed volume shows its own.
LEMMA ChangedShows ==
    ASSUME NEW old, NEW new, NEW hs, NEW last, NEW d \in DOMAIN old,
           NEW q \in DOMAIN old[d].parts, NEW w, NEW pid, NEW but,
           HelpersOk(hs, last), ListOk(old, hs, last), ChangedAt(old, new, d, q, w, pid),
           ListShows(old, hs, but),
           \A h \in hs : h.pid = but => At(h, old[d].src, old[d].parts[q].raw, w),
           old[d].src \in Drives =>
               \A h \in hs : At(h, old[d].src, old[d].parts[q].raw, w) => h.pid = pid
    PROVE  ListShows(new, hs, 0)
  <1> SUFFICES ASSUME NEW i \in DOMAIN new, new[i].src \in Drives,
                      NEW p \in DOMAIN new[i].parts, NEW h \in hs,
                      h.src = new[i].src, h.raw = new[i].parts[p].raw
               PROVE  new[i].parts[p].pids[h.vol] = h.pid
    BY DEF ListShows, EntryShows
  <1>1. /\ i \in DOMAIN old /\ p \in DOMAIN old[i].parts
        /\ h.src = old[i].src /\ h.raw = old[i].parts[p].raw /\ old[i].src \in Drives
    BY DEF ChangedAt
  <1>2. h.vol \in DOMAIN old[i].parts[p].pids BY <1>1, VolumeIn
  <1>3. new[i].parts[p].pids[h.vol] =
           IF i = d /\ p = q /\ h.vol = w THEN pid ELSE old[i].parts[p].pids[h.vol]
    BY <1>1, <1>2 DEF ChangedAt
  <1>4. CASE i = d /\ p = q /\ h.vol = w
    <2>1. At(h, old[d].src, old[d].parts[q].raw, w) BY <1>1, <1>4 DEF At
    <2> QED BY <1>1, <1>3, <1>4, <2>1
  <1>5. CASE ~(i = d /\ p = q /\ h.vol = w)
    <2>1. old[i].parts[p].pids[h.vol] = h.pid \/ h.pid = but
      BY <1>1 DEF ListShows, EntryShows
    <2>2. ASSUME h.pid = but PROVE FALSE
      <3>1. h.src = old[d].src /\ h.raw = old[d].parts[q].raw /\ h.vol = w BY <2>2 DEF At
      <3>2. i = d BY <1>1, <3>1 DEF ListOk, DrivesOnce
      <3>3. p = q BY <1>1, <3>1, <3>2 DEF ListOk, EntryOk
      <3> QED BY <1>5, <3>1, <3>2, <3>3
    <2> QED BY <1>3, <1>5, <2>1, <2>2
  <1> QED BY <1>4, <1>5

\* When helpers go, all that is said of them stays true.
LEMMA FewerHelpers ==
    ASSUME NEW hs, NEW new \in SUBSET hs, NEW last, HelpersOk(hs, last), OneEach(hs)
    PROVE  /\ HelpersOk(new, last) /\ OneEach(new)
           /\ \A list : ListOk(list, hs, last) => ListOk(list, new, last)
           /\ \A list, but : ListShows(list, hs, but) => ListShows(list, new, but)
  <1>1. last \in Nat BY DEF HelpersOk
  <1>2. \A f \in new : f \in hs /\ SameMount(f, f) BY DEF SameMount, At
  <1>3. HelpersOk(new, last) /\ OneEach(new) BY DEF HelpersOk, OneEach
  <1>4. ASSUME NEW list, ListOk(list, hs, last) PROVE ListOk(list, new, last)
    BY <1>1, <1>2, <1>4, ListCarried
  <1>5. ASSUME NEW list, NEW but, ListShows(list, hs, but) PROVE ListShows(list, new, but)
    <2>1. \A f \in new : f.pid = but \/ (SameMount(f, f) /\ f.pid # but) BY <1>2
    <2> QED BY <1>2, <1>5, <2>1, ShowsCarried
  <1> QED BY <1>3, <1>4, <1>5

-----------------------------------------------------------------------------
(* The steps *)

\* What a step leaves when the helpers and the list stay as they are.
LEMMA SameListSteps ==
    ASSUME AppIInv, UNCHANGED <<helpers, launched, disks>>, WindowInv',
           BeingLaunched' = BeingLaunched
    PROVE  AppIInv'
  <1>1. HelpersOk(helpers', launched') /\ OneEach(helpers')
        /\ ListOk(disks', helpers', launched') /\ ListShows(disks', helpers', BeingLaunched')
    BY DEF AppIInv
  <1> QED BY <1>1 DEF AppIInv

LEMMA SelectionSteps ==
    ASSUME AppIInv, window \in {"idle", "asking"},
           UNCHANGED <<plugged, helpers, launched, window, disks, asked, changed>>
    PROVE  AppIInv'
  <1>1. WindowInv' BY DEF AppIInv, WindowInv
  <1>2. BeingLaunched' = BeingLaunched BY DEF BeingLaunched
  <1> QED BY <1>1, <1>2, SameListSteps

LEMMA PlugStep ==
    ASSUME AppIInv, NEW d, PlugOrUnplug(d)
    PROVE  AppIInv'
  <1>1. UNCHANGED <<helpers, launched, window, disks, sel, asked>> BY DEF PlugOrUnplug
  <1>2. WindowInv'
    BY <1>1 DEF AppIInv, WindowInv, VolumeSelected, PartSelected, DiskSelected
  <1>3. BeingLaunched' = BeingLaunched BY <1>1 DEF BeingLaunched
  <1> QED BY <1>1, <1>2, <1>3, SameListSteps

LEMMA UnmountStep ==
    ASSUME AppIInv, UnmountSelected
    PROVE  AppIInv'
  <1> DEFINE d == sel.disk
             q == sel.part
             w == sel.vol
             pid == disks[sel.disk].parts[sel.part].pids[sel.vol]
  <1>1. /\ window = "idle" /\ window' = "idle" /\ launched' = launched /\ asked' = asked
        /\ VolumeSelected /\ pid # 0
        /\ helpers' = {h \in helpers : h.pid \notin {pid}}
        /\ SetPid(0)
    BY DEF UnmountSelected, Terminate
  <1>2. /\ HelpersOk(helpers, launched) /\ OneEach(helpers)
        /\ ListOk(disks, helpers, launched) /\ ListShows(disks, helpers, 0)
    BY <1>1 DEF AppIInv, BeingLaunched
  <1>3. helpers' \subseteq helpers /\ \A h \in helpers' : h.pid # pid BY <1>1
  <1>4. /\ HelpersOk(helpers', launched) /\ OneEach(helpers')
        /\ ListOk(disks, helpers', launched) /\ ListShows(disks, helpers', 0)
    BY <1>2, <1>3, FewerHelpers
  <1>5. disks \in Seq(Records) BY <1>2 DEF ListOk
  <1>6. ChangedAt(disks, disks', d, q, w, 0) BY <1>1, <1>5, SetPidIs
  <1>7. d \in DOMAIN disks /\ q \in DOMAIN disks[d].parts
    BY <1>1 DEF VolumeSelected, PartSelected, DiskSelected
  <1>8. launched \in Nat /\ \A h \in helpers' : h.pid \in 1 .. launched
    BY <1>4 DEF HelpersOk, HelperOk
  <1>9. 0 \in 0 .. launched /\ \A h \in helpers' : h.pid # 0 BY <1>8
  <1>10. ASSUME NEW h \in helpers', At(h, disks[d].src, disks[d].parts[q].raw, w),
                disks[d].src \in Drives
         PROVE  FALSE
    <2>1. disks[d].parts[q].pids[h.vol] = h.pid \/ h.pid = 0
      BY <1>4, <1>7, <1>10 DEF ListShows, EntryShows, At
    <2>2. h.vol = w BY <1>10 DEF At
    <2> QED BY <1>3, <1>9, <2>1, <2>2
  <1> HIDE DEF d, q, w
  <1>11. ListOk(disks', helpers', launched) BY <1>4, <1>6, <1>9, ChangedOk
  <1>12. ListShows(disks', helpers', 0)
    <2>1. \A h \in helpers' : h.pid = 0 => At(h, disks[d].src, disks[d].parts[q].raw, w)
      BY <1>9
    <2>2. disks[d].src \in Drives =>
             \A h \in helpers' : At(h, disks[d].src, disks[d].parts[q].raw, w) => h.pid = 0
      BY <1>10
    <2> QED BY <1>4, <1>6, <1>7, <2>1, <2>2, ChangedShows
  <1>13. WindowInv' BY <1>1 DEF AppIInv, WindowInv
  <1>14. BeingLaunched' = 0 BY <1>1 DEF BeingLaunched
  <1> QED BY <1>1, <1>4, <1>11, <1>12, <1>13, <1>14 DEF AppIInv

LEMMA LaunchStep ==
    ASSUME AppIInv, Launch
    PROVE  AppIInv'
  <1> DEFINE d == sel.disk
             q == sel.part
             w == sel.vol
             src == disks[d].src
             part == disks[d].parts[q]
             raw == part.raw
             last == launched + 1
  <1>1. PICK letter \in Letters :
           helpers' = helpers \cup
               {[pid |-> last, src |-> src, raw |-> raw, vol |-> w, letter |-> letter,
                 serving |-> FALSE]}
    BY DEF Launch, FreeLetters
  <1> DEFINE new == [pid |-> last, src |-> src, raw |-> raw, vol |-> w, letter |-> letter,
                     serving |-> FALSE]
  <1>2. /\ window = "idle" /\ window' = "launching" /\ launched' = last
        /\ disks' = disks /\ sel' = sel /\ asked' = asked
        /\ VolumeSelected /\ part.pids[w] = 0
    BY DEF Launch
  <1>3. /\ HelpersOk(helpers, launched) /\ OneEach(helpers)
        /\ ListOk(disks, helpers, launched) /\ ListShows(disks, helpers, 0)
    BY <1>2 DEF AppIInv, BeingLaunched
  <1>4. d \in DOMAIN disks /\ q \in DOMAIN disks[d].parts /\ w \in DOMAIN part.pids
    BY <1>2 DEF VolumeSelected, PartSelected, DiskSelected
  <1>5. launched \in Nat /\ last \in Nat /\ launched <= last /\ last \in 1 .. last
        /\ last \notin 0 .. launched /\ last # 0 /\ 1 .. launched \subseteq 1 .. last
    BY <1>3 DEF HelpersOk
  <1>6. \A h \in helpers : h.pid \in 1 .. launched /\ h.pid # 0
    BY <1>3, <1>5 DEF HelpersOk, HelperOk
  <1>7. disks[d] \in Records
    <2>1. disks \in [1 .. Len(disks) -> Records] BY <1>3, LenProperties DEF ListOk
    <2> QED BY <1>4, <2>1
  <1>8. src \in Sources BY <1>7 DEF Records
  <1>9. PartOk(src, part, helpers, launched) BY <1>3, <1>4 DEF ListOk, EntryOk
  <1>10. new.pid = last /\ new.src = src /\ new.raw = raw /\ new.vol = w OBVIOUS
  <1>11. helpers' = helpers \cup {new} BY <1>1
  <1>12. EntryShows(disks[d], helpers, 0) BY <1>3, <1>4 DEF ListShows
  <1>13. PICK l \in DOMAIN Layout[src] : raw = Layout[src][l].raw /\ w \in 1 .. Layout[src][l].vols
    BY <1>4, <1>9 DEF PartOk
  <1>14. raw \in Nat /\ w \in Nat
    <2>1. Layout[src][l].raw \in Nat /\ Layout[src][l].vols \in Nat BY <1>8, LayoutIs
    <2> QED BY <1>13, <2>1
  <1>15. new \in HelperRecords BY <1>5, <1>8, <1>14 DEF HelperRecords
  <1> HIDE DEF new
  <1>16. HelperOk(new, last) BY <1>5, <1>10, <1>13, <1>15 DEF HelperOk
  <1>17. \A h \in helpers : HelperOk(h, last)
    BY <1>3, <1>5 DEF HelpersOk, HelperOk
  <1>18. \A h \in helpers : h.pid # last BY <1>5, <1>6
  <1>19. \A h, g \in helpers : h.pid = g.pid => h = g BY <1>3 DEF HelpersOk
  <1>20. HelpersOk(helpers', last)
    BY <1>5, <1>10, <1>11, <1>16, <1>17, <1>18, <1>19 DEF HelpersOk
  <1>21. ASSUME NEW h \in helpers, src \in Drives, At(h, src, raw, w) PROVE FALSE
    <2>1. disks[d].parts[q].pids[h.vol] = h.pid \/ h.pid = 0
      BY <1>4, <1>12, <1>21 DEF EntryShows, At
    <2> QED BY <1>2, <1>6, <1>21, <2>1 DEF At
  <1>22. OneEach(helpers')
    <2> SUFFICES ASSUME NEW h \in helpers', NEW g \in helpers', h.src \in Drives,
                        At(h, g.src, g.raw, g.vol)
                 PROVE  h = g
      BY DEF OneEach
    <2>1. CASE h = new /\ g \in helpers BY <1>10, <1>21, <2>1 DEF At
    <2>2. CASE g = new /\ h \in helpers BY <1>10, <1>21, <2>2 DEF At
    <2>3. CASE h \in helpers /\ g \in helpers BY <1>3, <2>3 DEF OneEach
    <2> QED BY <1>11, <2>1, <2>2, <2>3
  <1>23. \A f \in helpers : SameMount(f, f) BY DEF SameMount, At
  <1>24. ListOk(disks, helpers', last)
    <2>1. \A f \in helpers' : f.pid \notin 0 .. launched \/ \E g \in helpers : SameMount(f, g)
      BY <1>5, <1>10, <1>11, <1>23
    <2> QED BY <1>3, <1>5, <2>1, ListCarried
  <1>25. ListShows(disks, helpers', last)
    <2>1. \A f \in helpers' : f.pid = last \/ \E g \in helpers : SameMount(f, g) /\ g.pid # 0
      BY <1>6, <1>10, <1>11, <1>23
    <2> QED BY <1>3, <2>1, ShowsCarried
  <1>26. WindowInv'
    <2>1. VolumeSelected' BY <1>2 DEF VolumeSelected, PartSelected, DiskSelected
    <2>2. \A h \in helpers' : h.pid = last => At(h, src, raw, w)
      BY <1>10, <1>11, <1>18 DEF At
    <2>3. asked \in Questions BY DEF AppIInv, WindowInv
    <2> QED BY <1>2, <2>1, <2>2, <2>3 DEF WindowInv
  <1>27. BeingLaunched' = last BY <1>2 DEF BeingLaunched
  <1> QED BY <1>2, <1>20, <1>22, <1>24, <1>25, <1>26, <1>27 DEF AppIInv

LEMMA LaunchedStep ==
    ASSUME AppIInv, Launched
    PROVE  AppIInv'
  <1> DEFINE d == sel.disk
             q == sel.part
             w == sel.vol
             There == \E h \in helpers : h.pid = launched
  <1>1. /\ window = "launching" /\ window' = "idle" /\ UNCHANGED <<helpers, launched, asked>>
        /\ IF There THEN SetPid(launched) ELSE UNCHANGED disks
    BY DEF Launched
  <1>2. /\ HelpersOk(helpers, launched) /\ OneEach(helpers)
        /\ ListOk(disks, helpers, launched) /\ ListShows(disks, helpers, launched)
    BY <1>1 DEF AppIInv, BeingLaunched
  <1>3. /\ VolumeSelected /\ disks[d].parts[q].pids[w] = 0
        /\ \A h \in helpers : h.pid = launched => At(h, disks[d].src, disks[d].parts[q].raw, w)
    BY <1>1 DEF AppIInv, WindowInv
  <1>4. d \in DOMAIN disks /\ q \in DOMAIN disks[d].parts
    BY <1>3 DEF VolumeSelected, PartSelected, DiskSelected
  <1>5. launched \in Nat /\ launched \in 0 .. launched
        /\ \A h \in helpers : h.pid \in 1 .. launched /\ h.pid # 0
    BY <1>2 DEF HelpersOk, HelperOk
  <1>6. WindowInv' BY <1>1 DEF AppIInv, WindowInv
  <1>7. BeingLaunched' = 0 BY <1>1 DEF BeingLaunched
  <1>8. ListOk(disks', helpers, launched) /\ ListShows(disks', helpers, 0)
    <2>1. CASE There
      <3>1. SetPid(launched) BY <1>1, <2>1
      <3>2. disks \in Seq(Records) BY <1>2 DEF ListOk
      <3>3. ChangedAt(disks, disks', d, q, w, launched) BY <1>3, <1>5, <3>1, <3>2, SetPidIs
      <3>4. ASSUME disks[d].src \in Drives, NEW h \in helpers,
                   At(h, disks[d].src, disks[d].parts[q].raw, w)
            PROVE  h.pid = launched
        <4>1. disks[d].parts[q].pids[h.vol] = h.pid \/ h.pid = launched
          BY <1>2, <1>4, <3>4 DEF ListShows, EntryShows, At
        <4> QED BY <1>3, <1>5, <3>4, <4>1 DEF At
      <3> HIDE DEF d, q, w
      <3>5. ListOk(disks', helpers, launched) BY <1>2, <1>3, <1>5, <3>3, ChangedOk
      <3>6. ListShows(disks', helpers, 0)
        BY <1>2, <1>3, <1>4, <3>3, <3>4, ChangedShows
      <3> QED BY <3>5, <3>6
    <2>2. CASE ~There
      <3>1. disks' = disks /\ \A f \in helpers : f.pid # launched /\ SameMount(f, f)
        BY <1>1, <2>2 DEF SameMount, At
      <3>2. ListShows(disks, helpers, 0) BY <1>2, <3>1, ShowsCarried
      <3> QED BY <1>2, <3>1, <3>2
    <2> QED BY <2>1, <2>2
  <1> QED BY <1>1, <1>2, <1>6, <1>7, <1>8 DEF AppIInv

LEMMA ServesStep ==
    ASSUME AppIInv, NEW h \in helpers, HelperServes(h)
    PROVE  AppIInv'
  <1> DEFINE new == [h EXCEPT !.serving = TRUE]
  <1>1. /\ helpers' = (helpers \ {h}) \cup {new}
        /\ UNCHANGED <<launched, window, disks, sel, asked>>
    BY DEF HelperServes
  <1>2. /\ HelpersOk(helpers, launched) /\ OneEach(helpers)
        /\ ListOk(disks, helpers, launched) /\ ListShows(disks, helpers, BeingLaunched)
    BY DEF AppIInv
  <1>3. h \in HelperRecords /\ HelperOk(h, launched) BY <1>2 DEF HelpersOk, HelperOk
  <1>4. new \in HelperRecords /\ SameMount(new, h)
    BY <1>3 DEF HelperRecords, SameMount, At
  <1> HIDE DEF new
  <1>5. HelperOk(new, launched) BY <1>3, <1>4 DEF HelperOk, SameMount, At
  <1>6. \A f \in helpers' : \E g \in helpers : SameMount(f, g) /\ (f = g \/ (f = new /\ g = h))
    BY <1>1, <1>4 DEF SameMount, At
  <1>7. HelpersOk(helpers', launched)
    <2>1. \A f \in helpers' : HelperOk(f, launched) BY <1>1, <1>2, <1>5 DEF HelpersOk
    <2>2. \A f, g \in helpers' : f.pid = g.pid => f = g
      BY <1>1, <1>2, <1>4 DEF HelpersOk, SameMount
    <2> QED BY <1>2, <2>1, <2>2 DEF HelpersOk
  <1>8. OneEach(helpers')
    BY <1>1, <1>2, <1>4 DEF OneEach, SameMount, At
  <1>9. launched \in Nat BY <1>2 DEF HelpersOk
  <1>10. ListOk(disks, helpers', launched) BY <1>2, <1>6, <1>9, ListCarried
  <1>11. ListShows(disks, helpers', BeingLaunched)
    <2>1. \A f \in helpers' : f.pid = BeingLaunched
                              \/ \E g \in helpers : SameMount(f, g) /\ g.pid # BeingLaunched
      BY <1>6 DEF SameMount
    <2> QED BY <1>2, <2>1, ShowsCarried
  <1>12. BeingLaunched' = BeingLaunched BY <1>1 DEF BeingLaunched
  <1>13. WindowInv'
    <2>1. VolumeSelected' = VolumeSelected
      BY <1>1 DEF VolumeSelected, PartSelected, DiskSelected
    <2>2. WindowInv BY DEF AppIInv
    <2>3. window = "launching" =>
             \A f \in helpers' : f.pid = launched =>
                 At(f, disks[sel.disk].src, disks[sel.disk].parts[sel.part].raw, sel.vol)
      BY <1>6, <2>2 DEF WindowInv, SameMount, At
    <2> QED BY <1>1, <2>1, <2>2, <2>3 DEF WindowInv
  <1> QED BY <1>1, <1>7, <1>8, <1>10, <1>11, <1>12, <1>13 DEF AppIInv

LEMMA ExitsStep ==
    ASSUME AppIInv, NEW h \in helpers, HelperExits(h)
    PROVE  AppIInv'
  <1>1. /\ helpers' = helpers \ {h} /\ UNCHANGED <<launched, window, disks, sel, asked>>
    BY DEF HelperExits
  <1>2. helpers' \subseteq helpers BY <1>1
  <1>3. /\ HelpersOk(helpers', launched) /\ OneEach(helpers')
        /\ ListOk(disks, helpers', launched) /\ ListShows(disks, helpers', BeingLaunched)
    BY <1>2, FewerHelpers DEF AppIInv
  <1>4. BeingLaunched' = BeingLaunched BY <1>1 DEF BeingLaunched
  <1>5. WindowInv'
    BY <1>1, <1>2 DEF AppIInv, WindowInv, VolumeSelected, PartSelected, DiskSelected
  <1> QED BY <1>1, <1>3, <1>4, <1>5 DEF AppIInv

\* While no launch is under way, the list shows all helpers.
LEMMA AtRest ==
    ASSUME AppIInv, window # "launching"
    PROVE  /\ HelpersOk(helpers, launched) /\ OneEach(helpers)
           /\ ListOk(disks, helpers, launched) /\ ListShows(disks, helpers, 0)
  BY DEF AppIInv, BeingLaunched

LEMMA AddStep ==
    ASSUME AppIInv, NEW img \in Images, NEW readable, AddDiskFromDmg(img, readable)
    PROVE  AppIInv'
  <1> DEFINE entry == PopulateDisk(img, readable)
  <1>1. /\ window = "idle" /\ UNCHANGED <<helpers, launched, window, asked>>
        /\ disks' = Append(disks, entry)
    BY DEF AddDiskFromDmg
  <1>2. /\ HelpersOk(helpers, launched) /\ OneEach(helpers)
        /\ ListOk(disks, helpers, launched) /\ ListShows(disks, helpers, 0)
    BY <1>1, AtRest
  <1>3. entry \in Records /\ entry.src = img /\ EntryOk(entry, helpers, launched)
    BY <1>2, Populated DEF Sources
  <1> HIDE DEF entry
  <1>4. ListOk(disks', helpers, launched) /\ ListShows(disks', helpers, 0)
    BY <1>1, <1>2, <1>3, AppendedIs
  <1>5. BeingLaunched' = 0 /\ WindowInv' BY <1>1 DEF BeingLaunched, AppIInv, WindowInv
  <1> QED BY <1>1, <1>2, <1>4, <1>5 DEF AppIInv

\* An entry is erased, and the helpers that it shows are ended or not.
LEMMA EraseStep ==
    ASSUME AppIInv, window # "launching", window' = "idle", asked' \in Questions,
           NEW i \in DOMAIN disks, disks' = Erased(i), launched' = launched,
           helpers' \subseteq helpers
    PROVE  AppIInv'
  <1>1. /\ HelpersOk(helpers, launched) /\ OneEach(helpers)
        /\ ListOk(disks, helpers, launched) /\ ListShows(disks, helpers, 0)
    BY AtRest
  <1>2. ListOk(disks', helpers, launched) /\ ListShows(disks', helpers, 0)
    BY <1>1, ErasedIs
  <1>3. /\ HelpersOk(helpers', launched) /\ OneEach(helpers')
        /\ ListOk(disks', helpers', launched) /\ ListShows(disks', helpers', 0)
    BY <1>1, <1>2, FewerHelpers
  <1>4. BeingLaunched' = 0 /\ WindowInv' BY DEF BeingLaunched, WindowInv
  <1> QED BY <1>3, <1>4 DEF AppIInv

LEMMA NoQuestionIs == NoQuestion \in Questions
  BY DEF NoQuestion, Questions

LEMMA RemoveStep ==
    ASSUME AppIInv, NEW i \in DOMAIN disks, RemoveDisk(i)
    PROVE  AppIInv'
  <1>1. window = "idle" /\ disks[i].src \in Images /\ UNCHANGED <<helpers, launched>>
    BY DEF RemoveDisk
  <1>2. asked \in Questions BY DEF AppIInv, WindowInv
  <1>3. CASE disks' = Erased(i) /\ UNCHANGED <<window, asked>>
    BY <1>1, <1>2, <1>3, EraseStep
  <1>4. CASE /\ window' = "asking" /\ UNCHANGED disks
             /\ asked' = [index |-> i, src |-> disks[i].src, stale |-> FALSE]
    <2>1. disks \in Seq(Records) BY DEF AppIInv, ListOk
    <2>2. disks \in [1 .. Len(disks) -> Records] /\ Len(disks) \in Nat BY <2>1, LenProperties
    <2>3. i \in Nat /\ disks[i] \in Records BY <2>2
    <2>4. disks[i].src \in Sources BY <2>3 DEF Records
    <2>5. asked' \in Questions /\ asked'.index = i BY <1>4, <2>3, <2>4 DEF Questions
    <2>6. WindowInv' BY <1>1, <1>4, <2>5 DEF WindowInv
    <2>7. BeingLaunched' = BeingLaunched BY <1>1, <1>4 DEF BeingLaunched
    <2> QED BY <1>1, <1>4, <2>6, <2>7, SameListSteps
  <1> QED BY <1>3, <1>4 DEF RemoveDisk

LEMMA DismissStep ==
    ASSUME AppIInv, Dismiss
    PROVE  AppIInv'
  <1>1. /\ window = "asking" /\ window' = "idle" /\ asked' = NoQuestion
        /\ UNCHANGED <<helpers, launched, disks>>
    BY DEF Dismiss
  <1>2. WindowInv' BY <1>1, NoQuestionIs DEF WindowInv
  <1>3. BeingLaunched' = BeingLaunched BY <1>1 DEF BeingLaunched
  <1> QED BY <1>1, <1>2, <1>3, SameListSteps

LEMMA ConfirmSteps ==
    ASSUME AppIInv, Confirm \/ ConfirmStale
    PROVE  AppIInv'
  <1>1. /\ window = "asking" /\ window' = "idle" /\ launched' = launched
        /\ asked' \in Questions /\ disks' = Erased(asked.index)
    BY NoQuestionIs DEF Confirm, ConfirmStale
  <1>2. asked.index \in DOMAIN disks BY DEF Confirm, ConfirmStale, AppIInv, WindowInv
  <1>3. helpers' \subseteq helpers BY DEF Confirm, ConfirmStale, Terminate
  <1> QED BY <1>1, <1>2, <1>3, EraseStep

LEMMA RefreshStep ==
    ASSUME AppIInv, RefreshPhysicalDisks
    PROVE  AppIInv'
  <1> DEFINE images == Kept(disks, ImageEntries)
  <1>1. PICK seen : /\ helpers' = {h \in helpers : h.pid \notin DroppedPids(PhysicalDisks(seen))}
                    /\ disks' = PhysicalDisks(seen) \o images
    BY DEF RefreshPhysicalDisks
  <1> DEFINE fresh == PhysicalDisks(seen)
  <1>2. /\ window \in {"idle", "asking"} /\ UNCHANGED <<launched, window>>
        /\ asked' = [asked EXCEPT !.stale = (window = "asking")]
    BY DEF RefreshPhysicalDisks
  <1>3. /\ HelpersOk(helpers, launched) /\ OneEach(helpers)
        /\ ListOk(disks, helpers, launched)
    BY <1>2, AtRest
  <1>4. ListOk(fresh, helpers, launched) /\ ListShows(fresh, helpers, 0)
    BY <1>3, ScannedDrives
  <1>5. ListOk(images, helpers, launched) /\ \A i \in DOMAIN images : images[i].src \in Images
    BY <1>3, KeptImages
  <1>6. ListShows(images, helpers, 0) BY <1>5, ImagesShow
  <1>7. helpers' \subseteq helpers BY <1>1
  <1> HIDE DEF images, fresh
  <1>8. ListOk(disks', helpers, launched) /\ ListShows(disks', helpers, 0)
    BY <1>1, <1>4, <1>5, <1>6, ListWithImages DEF fresh
  <1>9. /\ HelpersOk(helpers', launched) /\ OneEach(helpers')
        /\ ListOk(disks', helpers', launched) /\ ListShows(disks', helpers', 0)
    BY <1>3, <1>7, <1>8, FewerHelpers
  <1>10. asked' \in Questions /\ asked'.stale = (window = "asking")
    <2>1. asked \in Questions BY DEF AppIInv, WindowInv
    <2> QED BY <1>2, <2>1 DEF Questions
  <1>11. BeingLaunched' = 0 /\ WindowInv' BY <1>2, <1>10 DEF BeingLaunched, WindowInv
  <1> QED BY <1>2, <1>9, <1>11 DEF AppIInv

LEMMA OpensStep ==
    ASSUME AppIInv, WindowOpens
    PROVE  AppIInv'
  <1>1. PICK seen : \E readable \in SUBSET Images :
           disks' = PhysicalDisks(seen) \o RediscoveredImages(readable)
    BY DEF WindowOpens
  <1>0. PICK readable \in SUBSET Images :
           disks' = PhysicalDisks(seen) \o RediscoveredImages(readable)
    BY <1>1
  <1> DEFINE fresh == PhysicalDisks(seen)
             images == RediscoveredImages(readable)
  <1>2. window = "closed" /\ window' = "idle" /\ UNCHANGED <<helpers, launched, asked>>
    BY DEF WindowOpens
  <1>3. HelpersOk(helpers, launched) /\ OneEach(helpers) BY <1>2, AtRest
  <1>4. ListOk(fresh, helpers, launched) /\ ListShows(fresh, helpers, 0)
    BY <1>3, ScannedDrives
  <1>5. ListOk(images, helpers, launched) /\ \A i \in DOMAIN images : images[i].src \in Images
    BY <1>3, FoundImages
  <1>6. ListShows(images, helpers, 0) BY <1>5, ImagesShow
  <1> HIDE DEF images, fresh
  <1>7. ListOk(disks', helpers, launched) /\ ListShows(disks', helpers, 0)
    BY <1>0, <1>4, <1>5, <1>6, ListWithImages DEF fresh, images
  <1>8. BeingLaunched' = 0 /\ WindowInv' BY <1>2 DEF BeingLaunched, AppIInv, WindowInv
  <1> QED BY <1>2, <1>3, <1>7, <1>8 DEF AppIInv

LEMMA EmptyListIs ==
    ASSUME NEW hs, NEW last, NEW but
    PROVE  ListOk(<<>>, hs, last) /\ ListShows(<<>>, hs, but)
  BY DEF ListOk, DrivesOnce, ListShows

LEMMA ClosesStep ==
    ASSUME AppIInv, WindowCloses
    PROVE  AppIInv'
  <1>1. window' = "closed" /\ disks' = <<>> /\ asked' = NoQuestion /\ UNCHANGED <<helpers, launched>>
    BY DEF WindowCloses
  <1>2. ListOk(disks', helpers, launched) /\ ListShows(disks', helpers, 0) BY <1>1, EmptyListIs
  <1>3. BeingLaunched' = 0 /\ WindowInv' BY <1>1, NoQuestionIs DEF BeingLaunched, WindowInv
  <1>4. HelpersOk(helpers, launched) /\ OneEach(helpers) BY DEF AppIInv
  <1> QED BY <1>1, <1>2, <1>3, <1>4 DEF AppIInv

-----------------------------------------------------------------------------
(* The theorems *)

LEMMA AppInit == Init => AppIInv
  <1> SUFFICES ASSUME Init PROVE AppIInv OBVIOUS
  <1>1. HelpersOk(helpers, launched) /\ OneEach(helpers) BY DEF Init, HelpersOk, OneEach
  <1>2. ListOk(disks, helpers, launched) /\ ListShows(disks, helpers, BeingLaunched)
    BY EmptyListIs DEF Init
  <1>3. WindowInv BY NoQuestionIs DEF Init, WindowInv
  <1> QED BY <1>1, <1>2, <1>3 DEF AppIInv

LEMMA AppStep == AppIInv /\ [Next]_vars => AppIInv'
  <1> SUFFICES ASSUME AppIInv, [Next]_vars PROVE AppIInv' OBVIOUS
  <1>1. CASE Paint BY <1>1, SelectionSteps DEF Paint
  <1>2. ASSUME NEW i \in DOMAIN disks, NEW p \in DOMAIN disks[i].parts, SelectPartition(i, p)
        PROVE  AppIInv'
    BY <1>2, SelectionSteps DEF SelectPartition
  <1>3. ASSUME NEW v \in 1 .. MaxVols, SelectVolume(v) PROVE AppIInv'
    BY <1>3, SelectionSteps DEF SelectVolume
  <1>4. CASE UnmountSelected BY <1>4, UnmountStep
  <1>5. CASE Launch BY <1>5, LaunchStep
  <1>6. CASE Launched BY <1>6, LaunchedStep
  <1>7. ASSUME NEW h \in helpers, HelperServes(h) \/ HelperExits(h) PROVE AppIInv'
    BY <1>7, ServesStep, ExitsStep
  <1>8. ASSUME NEW img \in Images, NEW readable, AddDiskFromDmg(img, readable) PROVE AppIInv'
    BY <1>8, AddStep
  <1>9. ASSUME NEW i \in DOMAIN disks, RemoveDisk(i) PROVE AppIInv' BY <1>9, RemoveStep
  <1>10. CASE Dismiss BY <1>10, DismissStep
  <1>11. CASE Confirm \/ ConfirmStale BY <1>11, ConfirmSteps
  <1>12. CASE RefreshPhysicalDisks BY <1>12, RefreshStep
  <1>13. CASE WindowOpens BY <1>13, OpensStep
  <1>14. CASE WindowCloses BY <1>14, ClosesStep
  <1>15. ASSUME NEW d \in Drives, PlugOrUnplug(d) PROVE AppIInv' BY <1>15, PlugStep
  <1>16. CASE UNCHANGED vars
    <2>1. UNCHANGED <<helpers, launched, window, disks, sel, asked>> BY <1>16 DEF vars
    <2>2. WindowInv'
      BY <2>1 DEF AppIInv, WindowInv, VolumeSelected, PartSelected, DiskSelected
    <2>3. BeingLaunched' = BeingLaunched BY <2>1 DEF BeingLaunched
    <2> QED BY <2>1, <2>2, <2>3, SameListSteps
  <1> QED
    BY <1>1, <1>2, <1>3, <1>4, <1>5, <1>6, <1>7, <1>8, <1>9, <1>10, <1>11, <1>12, <1>13,
       <1>14, <1>15, <1>16 DEF Next

\* The list, the helpers and what the window is about agree, in every reachable state.
THEOREM AppInvariant == Spec => []AppIInv
  <1>1. Init => AppIInv BY AppInit
  <1>2. AppIInv /\ [Next]_vars => AppIInv' BY AppStep
  <1> QED BY <1>1, <1>2, PTL DEF Spec

\* No volume of a drive is served by two helpers, however rescans, launches and restarts of
\* the window fall (callbacks.cpp:16-20).
THEOREM OneHelper == Spec => []OneHelperPerDriveVolume
  <1>1. AppIInv => OneHelperPerDriveVolume
    BY DEF AppIInv, OneEach, OneHelperPerDriveVolume, At
  <1> QED BY <1>1, AppInvariant, PTL

\* A helper that serves a drive's volume in the list is shown with it (Model.hpp:28-33).
THEOREM MountsShown == Spec => []DriveMountsShown
  <1>1. ASSUME AppIInv PROVE DriveMountsShown
    <2> SUFFICES ASSUME NEW i \in DOMAIN disks, disks[i].src \in Drives,
                        NEW p \in DOMAIN disks[i].parts, NEW h \in helpers,
                        h.src = disks[i].src, h.raw = disks[i].parts[p].raw
                 PROVE  \/ disks[i].parts[p].pids[h.vol] = h.pid
                        \/ window = "launching" /\ h.pid = launched
      BY DEF DriveMountsShown
    <2>1. disks[i].parts[p].pids[h.vol] = h.pid \/ h.pid = BeingLaunched
      BY <1>1 DEF AppIInv, ListShows, EntryShows
    <2>2. h.pid # 0 BY <1>1 DEF AppIInv, HelpersOk, HelperOk
    <2> QED BY <2>1, <2>2 DEF BeingLaunched
  <1> QED BY <1>1, AppInvariant, PTL

EndedNow ==
    \A h \in {g \in helpers : \A f \in helpers' : f.pid # g.pid} :
        \/ HelperExits(h)
        \/ UnmountSelected \/ Confirm
        \/ h.src \in Drives /\ Entries(disks', h.src) = 0

\* A rescan ends the helpers of drives only that are in no entry any more.
LEMMA RefreshEnds ==
    ASSUME AppIInv, RefreshPhysicalDisks, NEW g \in helpers, \A f \in helpers' : f.pid # g.pid
    PROVE  g.src \in Drives /\ Entries(disks', g.src) = 0
  <1> DEFINE images == Kept(disks, ImageEntries)
  <1>1. PICK seen : /\ helpers' = {h \in helpers : h.pid \notin DroppedPids(PhysicalDisks(seen))}
                    /\ disks' = PhysicalDisks(seen) \o images
    BY DEF RefreshPhysicalDisks
  <1> DEFINE fresh == PhysicalDisks(seen)
  <1>2. HelpersOk(helpers, launched) /\ OneEach(helpers) /\ ListOk(disks, helpers, launched)
    BY DEF AppIInv
  <1>3. ListOk(fresh, helpers, launched) BY <1>2, ScannedDrives
  <1>4. ListOk(images, helpers, launched) /\ \A i \in DOMAIN images : images[i].src \in Images
    BY <1>2, KeptImages
  <1>5. g.pid \in DroppedPids(fresh) BY <1>1
  <1>6. PICK i \in DOMAIN disks :
           /\ disks[i].src \in Drives /\ \A m \in DOMAIN fresh : fresh[m].src # disks[i].src
           /\ g.pid \in ShownPids(disks[i])
    BY <1>5 DEF DroppedPids
  <1>7. PICK p \in DOMAIN disks[i].parts :
           \E v \in DOMAIN disks[i].parts[p].pids : g.pid = disks[i].parts[p].pids[v]
    BY <1>6 DEF ShownPids
  <1>8. PartOk(disks[i].src, disks[i].parts[p], helpers, launched) BY <1>2 DEF ListOk, EntryOk
  <1>9. g.src = disks[i].src BY <1>7, <1>8 DEF PartOk, At
  <1>10. Drives \cap Images = {} BY LayoutAssumption
  <1> HIDE DEF images, fresh
  <1>11. /\ \A m \in DOMAIN fresh : fresh[m].src # g.src
         /\ \A m \in DOMAIN images : images[m].src # g.src
    BY <1>4, <1>6, <1>9, <1>10
  <1>12. disks' = fresh \o images BY <1>1 DEF fresh
  <1>13. \A m \in DOMAIN disks' : disks'[m].src # g.src
    <2> DEFINE c == fresh \o images
    <2>1. fresh \in Seq(Records) /\ images \in Seq(Records) BY <1>3, <1>4 DEF ListOk
    <2>2. c \in Seq(Records) /\ Len(fresh) \in Nat /\ Len(images) \in Nat
          /\ Len(c) = Len(fresh) + Len(images)
          /\ DOMAIN fresh = 1 .. Len(fresh) /\ DOMAIN images = 1 .. Len(images)
          /\ DOMAIN c = 1 .. Len(c)
          /\ \A m \in 1 .. Len(c) : c[m] = IF m <= Len(fresh) THEN fresh[m]
                                           ELSE images[m - Len(fresh)]
      BY <2>1, ConcatProperties, LenProperties
    <2> HIDE DEF c
    <2>3. ASSUME NEW m \in DOMAIN c PROVE c[m].src # g.src
      <3>1. \/ m \in DOMAIN fresh /\ c[m] = fresh[m]
            \/ m - Len(fresh) \in DOMAIN images /\ c[m] = images[m - Len(fresh)]
        BY <2>2
      <3> QED BY <1>11, <3>1
    <2> QED BY <1>12, <2>3 DEF c
  <1> QED BY <1>6, <1>9, <1>13, NoEntriesOfDrive

\* A step that ends no helper, or for one of the reasons the code has.
LEMMA StepEnds == AppIInv /\ [Next]_vars => EndedNow
  <1> SUFFICES ASSUME AppIInv, [Next]_vars, NEW g \in helpers, \A f \in helpers' : f.pid # g.pid
               PROVE  \/ HelperExits(g)
                      \/ UnmountSelected \/ Confirm
                      \/ g.src \in Drives /\ Entries(disks', g.src) = 0
    BY DEF EndedNow
  <1>1. ~(helpers' = helpers) OBVIOUS
  <1>2. ASSUME NEW h \in helpers, HelperServes(h) PROVE FALSE
    <2> DEFINE new == [h EXCEPT !.serving = TRUE]
    <2>1. helpers' = (helpers \ {h}) \cup {new} BY <1>2 DEF HelperServes
    <2>2. h \in HelperRecords BY DEF AppIInv, HelpersOk, HelperOk
    <2>3. new.pid = h.pid BY <2>2 DEF HelperRecords
    <2> HIDE DEF new
    <2> QED BY <2>1, <2>3
  <1>3. ASSUME NEW h \in helpers, HelperExits(h) PROVE h = g
    BY <1>3 DEF HelperExits
  <1>4. ~Launch BY DEF Launch
  <1>5. CASE RefreshPhysicalDisks BY <1>5, RefreshEnds
  <1>6. \/ helpers' = helpers \/ UnmountSelected \/ Confirm \/ Launch \/ RefreshPhysicalDisks
        \/ \E h \in helpers : HelperServes(h) \/ HelperExits(h)
    BY DEF Next, vars, Paint, SelectPartition, SelectVolume, Launched, AddDiskFromDmg, RemoveDisk,
           Dismiss, ConfirmStale, WindowOpens, WindowCloses, PlugOrUnplug
  <1> QED BY <1>1, <1>2, <1>3, <1>4, <1>5, <1>6

\* A helper ends by itself, by the user's word, or in a rescan that lost its drive.
THEOREM EndsForAReason == Spec => EndedForAReason
  <1>1. AppIInv /\ [Next]_vars =>
           [\A h \in {g \in helpers : \A f \in helpers' : f.pid # g.pid} :
               \/ HelperExits(h)
               \/ UnmountSelected \/ Confirm
               \/ h.src \in Drives /\ Entries(disks', h.src) = 0]_vars
    BY StepEnds DEF EndedNow
  <1> QED BY <1>1, AppInvariant, PTL DEF Spec, EndedForAReason

-----------------------------------------------------------------------------
(* The selection *)

IsSelection(s) == \E d, p, v : s = [disk |-> d, part |-> p, vol |-> v]

LEMMA ExceptSelection ==
    ASSUME NEW s, IsSelection(s), NEW x, NEW y
    PROVE  /\ [s EXCEPT !.vol = y] = [disk |-> s.disk, part |-> s.part, vol |-> y]
           /\ [s EXCEPT !.disk = x] = [disk |-> x, part |-> s.part, vol |-> s.vol]
  <1>1. PICK d, p, v : s = [disk |-> d, part |-> p, vol |-> v] BY DEF IsSelection
  <1> DEFINE r == [disk |-> d, part |-> p, vol |-> v]
  <1>2. [r EXCEPT !.vol = y] = [disk |-> d, part |-> p, vol |-> y] OBVIOUS
  <1>3. [r EXCEPT !.disk = x] = [disk |-> x, part |-> p, vol |-> v] OBVIOUS
  <1>4. r.disk = d /\ r.part = p /\ r.vol = v OBVIOUS
  <1> HIDE DEF r
  <1>5. s = r BY <1>1 DEF r
  <1> QED BY <1>2, <1>3, <1>4, <1>5, Zenon

LEMMA SelectionShape ==
    ASSUME IsSelection(sel), [Next]_vars
    PROVE  IsSelection(sel')
  <1>1. IsSelection(FirstSelection) BY DEF IsSelection, FirstSelection
  <1>2. ASSUME NEW d, NEW p, NEW v PROVE IsSelection([disk |-> d, part |-> p, vol |-> v])
    BY DEF IsSelection
  <1>3. IsSelection(Clamped)
    <2>1. ASSUME NEW d PROVE IsSelection([sel EXCEPT !.disk = d])
      <3>1. [sel EXCEPT !.disk = d] = [disk |-> d, part |-> sel.part, vol |-> sel.vol]
        BY ExceptSelection, Zenon
      <3> QED BY <3>1 DEF IsSelection
    <2> QED BY <1>2, <2>1 DEF Clamped
  <1>4. \A new : IsSelection(RestoreSelection(new)) BY <1>1, <1>2 DEF RestoreSelection
  <1>5. \A i : IsSelection(SelectionAfterErase(i)) BY <1>1, <1>2 DEF SelectionAfterErase
  <1>6. ASSUME NEW img, NEW readable, AddDiskFromDmg(img, readable) PROVE IsSelection(sel')
    <2> DEFINE d == Len(disks) + 1
    <2> HIDE DEF d
    <2>0. [sel EXCEPT !.disk = d] = [disk |-> d, part |-> sel.part, vol |-> sel.vol]
      BY ExceptSelection, Zenon
    <2>1. IsSelection([sel EXCEPT !.disk = d]) BY <2>0 DEF IsSelection
    <2> QED BY <1>2, <1>6, <2>1 DEF AddDiskFromDmg, d
  <1>7. ASSUME NEW v, SelectVolume(v) PROVE IsSelection(sel')
    <2>1. sel' = [sel EXCEPT !.vol = v] BY <1>7 DEF SelectVolume
    <2>2. [sel EXCEPT !.vol = v] = [disk |-> sel.disk, part |-> sel.part, vol |-> v]
      BY ExceptSelection, Zenon
    <2> QED BY <1>2, <2>1, <2>2, Zenon
  <1>8. ASSUME NEW i, NEW p, SelectPartition(i, p) PROVE IsSelection(sel')
    BY <1>2, <1>8 DEF SelectPartition
  <1>9. ASSUME NEW i, RemoveDisk(i) PROVE IsSelection(sel') BY <1>5, <1>9 DEF RemoveDisk
  <1>10. CASE Confirm \/ ConfirmStale BY <1>5, <1>10 DEF Confirm, ConfirmStale
  <1>11. CASE RefreshPhysicalDisks BY <1>4, <1>11 DEF RefreshPhysicalDisks
  <1>12. CASE Paint BY <1>3, <1>12 DEF Paint
  <1>13. CASE WindowOpens \/ WindowCloses BY <1>1, <1>13 DEF WindowOpens, WindowCloses
  <1>14. CASE UNCHANGED sel BY <1>14
  <1> QED
    BY <1>6, <1>7, <1>8, <1>9, <1>10, <1>11, <1>12, <1>13, <1>14
       DEF Next, vars, UnmountSelected, Launch, Launched, HelperServes, HelperExits, Dismiss,
           PlugOrUnplug

\* A list with an entry of a disk has one of it, and one fewer when it is erased.
LEMMA EntriesCounted ==
    ASSUME disks \in Seq(Records), NEW i \in DOMAIN disks
    PROVE  /\ Entries(disks, disks[i].src) \in Nat \ {0}
           /\ Entries(Erased(i), disks[i].src) < Entries(disks, disks[i].src)
  <1> DEFINE n == Len(disks)
             new == Erased(i)
             src == disks[i].src
             A == {k \in DOMAIN new : new[k].src = src}
             B == {k \in DOMAIN disks : disks[k].src = src}
             place == [m \in A |-> IF m < i THEN m ELSE m + 1]
  <1>1. n \in Nat /\ DOMAIN disks = 1 .. n BY LenProperties
  <1>2. new = [m \in 1 .. n - 1 |-> IF m < i THEN disks[m] ELSE disks[m + 1]] BY DEF Erased
  <1>3. i \in B /\ i \in 1 .. n BY <1>1
  <1>4. IsFiniteSet(B)
    <2>1. IsFiniteSet(1 .. n) BY <1>1, FS_Interval
    <2> QED BY <1>1, <2>1, FS_Subset
  <1>5. IsFiniteSet(B \ {i}) /\ Cardinality(B \ {i}) = Cardinality(B) - 1
    BY <1>3, <1>4, FS_RemoveElement
  <1>6. Cardinality(B) \in Nat /\ Cardinality(B) # 0 BY <1>3, <1>4, FS_CardinalityType, FS_EmptySet
  <1>7. place \in Injection(A, B \ {i})
    <2>1. ASSUME NEW m \in A PROVE place[m] \in B \ {i}
      <3>1. m \in 1 .. n - 1 /\ new[m] = IF m < i THEN disks[m] ELSE disks[m + 1] BY <1>2
      <3>2. place[m] \in 1 .. n /\ place[m] # i /\ new[m] = disks[place[m]] BY <1>1, <1>3, <3>1
      <3> QED BY <1>1, <3>2
    <2>2. ASSUME NEW l \in A, NEW m \in A, place[l] = place[m] PROVE l = m
      <3>1. l \in 1 .. n - 1 /\ m \in 1 .. n - 1 BY <1>2
      <3> QED BY <1>1, <1>3, <2>2, <3>1
    <2> HIDE DEF A, B
    <2> QED BY <2>1, <2>2 DEF Injection, IsInjective
  <1> HIDE DEF A, B, place
  <1>8. IsFiniteSet(A) /\ Cardinality(A) <= Cardinality(B \ {i}) BY <1>5, <1>7, FS_Injection
  <1>9. Cardinality(A) \in Nat BY <1>8, FS_CardinalityType
  <1>10. Entries(disks, src) = Cardinality(B) /\ Entries(new, src) = Cardinality(A)
    BY DEF Entries, A, B
  <1> QED BY <1>5, <1>6, <1>8, <1>9, <1>10

\* The conclusion of SelectionKept, of one step.
KeptNow ==
    LET src == disks[sel.disk].src
        raw == disks[sel.disk].parts[sel.part].raw
        parts == disks'[sel'.disk].parts
    IN  \/ Entries(disks', src) < Entries(disks, src)
        \/ /\ DiskSelected'
           /\ disks'[sel'.disk].src = src
           /\ src \in Drives /\ VolumeSelected
              => \/ parts[sel'.part].raw = raw /\ sel'.vol = sel.vol
                 \/ \A p \in DOMAIN parts : parts[p].raw # raw
                 \/ \E i \in Images : Entries(disks', i) < Entries(disks, i)
                 \/ asked.stale /\ window' = "idle"

LEMMA KeptByPaint ==
    ASSUME DiskSelected, UNCHANGED disks, sel' = Clamped, IsSelection(sel)
    PROVE  KeptNow
  <1>1. sel.disk \in DOMAIN disks BY DEF DiskSelected
  <1>2. disks # <<>> BY <1>1
  <1>3. [sel EXCEPT !.disk = sel.disk] = [disk |-> sel.disk, part |-> sel.part, vol |-> sel.vol]
    BY ExceptSelection, Zenon
  <1> DEFINE parts == disks[sel.disk].parts
  <1>4. Clamped = IF parts = <<>> THEN [sel EXCEPT !.disk = sel.disk]
                  ELSE [disk |-> sel.disk,
                        part |-> IF sel.part \in DOMAIN parts THEN sel.part ELSE 1,
                        vol |-> IF sel.vol \in DOMAIN parts[IF sel.part \in DOMAIN parts
                                                            THEN sel.part ELSE 1].pids
                                THEN sel.vol ELSE 0]
    BY <1>2 DEF Clamped, DiskSelected
  <1>5. sel'.disk = sel.disk BY <1>3, <1>4
  <1>6. VolumeSelected => sel'.part = sel.part /\ sel'.vol = sel.vol
    BY <1>3, <1>4 DEF VolumeSelected, PartSelected
  <1> QED BY <1>1, <1>5, <1>6 DEF KeptNow, DiskSelected

LEMMA KeptByRest ==
    ASSUME DiskSelected, UNCHANGED <<disks, sel>>
    PROVE  KeptNow
  BY DEF KeptNow, DiskSelected

LEMMA KeptBySetPid ==
    ASSUME disks \in Seq(Records), VolumeSelected, NEW pid \in Nat, SetPid(pid), UNCHANGED sel
    PROVE  KeptNow
  <1>1. ChangedAt(disks, disks', sel.disk, sel.part, sel.vol, pid) BY SetPidIs
  <1>2. sel.disk \in DOMAIN disks /\ sel.part \in DOMAIN disks[sel.disk].parts
    BY DEF VolumeSelected, PartSelected, DiskSelected
  <1> QED BY <1>1, <1>2 DEF KeptNow, ChangedAt, DiskSelected

LEMMA KeptByErase ==
    ASSUME disks \in Seq(Records), DiskSelected, NEW i \in DOMAIN disks,
           disks' = Erased(i), sel' = SelectionAfterErase(i),
           disks[i].src \in Images \/ (asked.stale /\ window' = "idle")
    PROVE  KeptNow
  <1>1. Entries(disks', disks[i].src) < Entries(disks, disks[i].src) BY EntriesCounted
  <1>2. CASE sel.disk = i BY <1>1, <1>2 DEF KeptNow
  <1>3. CASE sel.disk # i
    <2> DEFINE n == Len(disks)
    <2>1. n \in Nat /\ DOMAIN disks = 1 .. n BY LenProperties
    <2>2. disks' = [m \in 1 .. n - 1 |-> IF m < i THEN disks[m] ELSE disks[m + 1]] BY DEF Erased
    <2>3. sel.disk \in 1 .. n /\ i \in 1 .. n BY <2>1 DEF DiskSelected
    <2> HIDE DEF n
    <2>4. n # 1 BY <1>3, <2>3
    <2>5. sel' = [disk |-> IF sel.disk > i THEN sel.disk - 1 ELSE sel.disk,
                  part |-> sel.part, vol |-> 0]
      BY <1>3, <2>4 DEF SelectionAfterErase, n
    <2>6. sel'.disk = IF sel.disk > i THEN sel.disk - 1 ELSE sel.disk BY <2>5
    <2>7. sel'.disk \in 1 .. n - 1 BY <1>3, <2>1, <2>3, <2>6
    <2>8. disks'[sel'.disk] = disks[sel.disk] BY <1>3, <2>2, <2>3, <2>6, <2>7
    <2>9. DiskSelected' BY <2>2, <2>7 DEF DiskSelected
    <2> QED BY <1>1, <2>8, <2>9 DEF KeptNow
  <1> QED BY <1>2, <1>3

\* A partition has as many volumes in every list that shows it.
LEMMA SameVolumes ==
    ASSUME NEW src \in Sources, NEW a, NEW b, NEW hs, NEW last,
           PartOk(src, a, hs, last), PartOk(src, b, hs, last), a.raw = b.raw
    PROVE  DOMAIN a.pids = DOMAIN b.pids
  BY LayoutIs DEF PartOk

LEMMA KeptByRescan ==
    ASSUME ListOk(disks, helpers, launched), ListOk(disks', helpers, launched), DiskSelected,
           sel' = RestoreSelection(disks')
    PROVE  KeptNow
  <1> DEFINE d == sel.disk
             src == disks[d].src
             raw == disks[d].parts[sel.part].raw
             same == {k \in DOMAIN disks' : disks'[k].src = src}
             i == CHOOSE k \in same : \A m \in same : k <= m
             parts == {p \in DOMAIN disks'[i].parts : disks'[i].parts[p].raw = raw}
             p == CHOOSE k \in parts : TRUE
             vol == IF sel.vol \in DOMAIN disks'[i].parts[p].pids THEN sel.vol ELSE 0
  <1>1. d \in DOMAIN disks BY DEF DiskSelected
  <1>2. disks \in Seq(Records) /\ disks' \in Seq(Records) BY DEF ListOk
  <1>3. CASE same = {}
    <2>1. Entries(disks', src) = 0 BY <1>3, NoEntriesOfDrive
    <2>2. Entries(disks, src) \in Nat \ {0} BY <1>1, <1>2, EntriesCounted
    <2> QED BY <2>1, <2>2 DEF KeptNow
  <1>4. CASE same # {}
    <2>1. sel' = IF ~PartSelected \/ parts = {} THEN [disk |-> i, part |-> 1, vol |-> 0]
                 ELSE [disk |-> i, part |-> p, vol |-> vol]
      BY <1>4 DEF RestoreSelection
    <2>2. i \in DOMAIN disks' /\ disks'[i].src = src
      <3>1. Len(disks') \in Nat /\ DOMAIN disks' = 1 .. Len(disks') BY <1>2, LenProperties
      <3>2. same \subseteq Nat BY <3>1
      <3>3. \A k \in same : k \in DOMAIN disks' /\ disks'[k].src = src OBVIOUS
      <3> HIDE DEF same
      <3>4. HasLeast(same) BY <1>4, <3>2, NumbersHaveLeast
      <3>5. i \in same BY <3>4 DEF HasLeast
      <3> QED BY <3>3, <3>5
    <2> HIDE DEF i, same
    <2>3. parts # {} => p \in DOMAIN disks'[i].parts /\ disks'[i].parts[p].raw = raw OBVIOUS
    <2>4. parts = {} => \A q \in DOMAIN disks'[i].parts : disks'[i].parts[q].raw # raw OBVIOUS
    <2> HIDE DEF parts, p
    <2>5. sel'.disk = i BY <2>1
    <2>6. ASSUME VolumeSelected, parts # {}
          PROVE  disks'[i].parts[sel'.part].raw = raw /\ sel'.vol = sel.vol
      <3>1. PartSelected /\ sel.part \in DOMAIN disks[d].parts
            /\ sel.vol \in DOMAIN disks[d].parts[sel.part].pids
        BY <2>6 DEF VolumeSelected, PartSelected
      <3>2. PartOk(src, disks[d].parts[sel.part], helpers, launched)
        BY <1>1, <3>1 DEF ListOk, EntryOk
      <3>3. PartOk(src, disks'[i].parts[p], helpers, launched)
        BY <2>2, <2>3, <2>6 DEF ListOk, EntryOk
      <3>4. src \in Sources
        <4>1. disks \in [1 .. Len(disks) -> Records] BY <1>2, LenProperties
        <4>2. disks[d] \in Records BY <1>1, <4>1
        <4> QED BY <4>2 DEF Records
      <3>5. DOMAIN disks'[i].parts[p].pids = DOMAIN disks[d].parts[sel.part].pids
        BY <2>3, <2>6, <3>2, <3>3, <3>4, SameVolumes
      <3>6. sel'.part = p /\ sel'.vol = vol BY <2>1, <2>6, <3>1
      <3>7. vol = sel.vol BY <3>1, <3>5
      <3> QED BY <2>3, <2>6, <3>6, <3>7
    <2>7. DiskSelected' BY <2>2, <2>5 DEF DiskSelected
    <2> QED BY <2>2, <2>4, <2>5, <2>6, <2>7 DEF KeptNow
  <1> QED BY <1>3, <1>4

\* A step in the window that does not select keeps the selection.
LEMMA StepKeeps ==
    ASSUME AppIInv, IsSelection(sel), Next, window # "closed", window' # "closed",
           DiskSelected, ~UserSelects
    PROVE  KeptNow
  <1>1. /\ HelpersOk(helpers, launched) /\ ListOk(disks, helpers, launched) /\ WindowInv
        /\ disks \in Seq(Records) /\ launched \in Nat
    BY DEF AppIInv, ListOk, HelpersOk
  <1>2. CASE Paint BY <1>2, KeptByPaint DEF Paint
  <1>3. ASSUME NEW i \in DOMAIN disks, NEW p \in DOMAIN disks[i].parts, SelectPartition(i, p)
        PROVE  KeptNow
    BY <1>3 DEF UserSelects
  <1>4. ASSUME NEW v \in 1 .. MaxVols, SelectVolume(v) PROVE KeptNow BY <1>4 DEF UserSelects
  <1>5. CASE UnmountSelected BY <1>1, <1>5, KeptBySetPid DEF UnmountSelected
  <1>6. CASE Launched
    <2>1. window = "launching" /\ UNCHANGED sel /\ (SetPid(launched) \/ UNCHANGED disks)
      BY <1>6 DEF Launched
    <2>2. VolumeSelected BY <1>1, <2>1 DEF WindowInv
    <2> QED BY <1>1, <2>1, <2>2, KeptBySetPid, KeptByRest
  <1>7. ASSUME NEW img \in Images, NEW readable, AddDiskFromDmg(img, readable) PROVE KeptNow
    <2> DEFINE entry == PopulateDisk(img, readable)
    <2>1. disks' = Append(disks, entry) BY <1>7 DEF AddDiskFromDmg
    <2>2. entry \in Records BY <1>1, Populated DEF Sources
    <2> HIDE DEF entry
    <2>3. Len(disks') = Len(disks) + 1 /\ Len(disks) \in Nat
      BY <1>1, <2>1, <2>2, AppendProperties, LenProperties
    <2>4. SubSeq(disks', 1, Len(disks)) = disks
      BY <1>1, <2>1, <2>2, AppendProperties
    <2> QED BY <2>3, <2>4 DEF UserSelects
  <1>8. ASSUME NEW i \in DOMAIN disks, RemoveDisk(i) PROVE KeptNow
    <2>1. disks[i].src \in Images BY <1>8 DEF RemoveDisk
    <2>2. CASE UNCHANGED <<disks, sel>> BY <2>2, KeptByRest
    <2>3. CASE disks' = Erased(i) /\ sel' = SelectionAfterErase(i)
      BY <1>1, <2>1, <2>3, KeptByErase
    <2> QED BY <1>8, <2>2, <2>3 DEF RemoveDisk
  <1>9. CASE Confirm \/ ConfirmStale
    <2>1. /\ disks' = Erased(asked.index) /\ sel' = SelectionAfterErase(asked.index)
          /\ window = "asking" /\ window' = "idle"
      BY <1>9 DEF Confirm, ConfirmStale
    <2>2. asked.index \in DOMAIN disks
      BY <1>1, <1>9, <2>1 DEF Confirm, ConfirmStale, WindowInv
    <2>3. disks[asked.index].src \in Images \/ asked.stale
      BY <1>1, <1>9, <2>1 DEF Confirm, ConfirmStale, WindowInv
    <2> QED BY <1>1, <2>1, <2>2, <2>3, KeptByErase
  <1>10. CASE RefreshPhysicalDisks
    <2> DEFINE images == Kept(disks, ImageEntries)
    <2>1. PICK seen : /\ disks' = PhysicalDisks(seen) \o images
                      /\ sel' = RestoreSelection(PhysicalDisks(seen) \o images)
      BY <1>10 DEF RefreshPhysicalDisks
    <2>2. OneEach(helpers) BY DEF AppIInv
    <2>3. ListOk(PhysicalDisks(seen), helpers, launched) BY <1>1, <2>2, ScannedDrives
    <2>4. ListOk(images, helpers, launched) /\ \A i \in DOMAIN images : images[i].src \in Images
      BY <1>1, KeptImages
    <2> HIDE DEF images
    <2>5. ListOk(disks', helpers, launched) BY <2>1, <2>3, <2>4, ListWithImages
    <2>6. sel' = RestoreSelection(disks') BY <2>1
    <2> QED BY <1>1, <2>5, <2>6, KeptByRescan
  <1>11. CASE UNCHANGED <<disks, sel>> BY <1>11, KeptByRest
  <1>12. ~WindowOpens /\ ~WindowCloses BY DEF WindowOpens, WindowCloses
  <1> QED
    BY <1>2, <1>3, <1>4, <1>5, <1>6, <1>7, <1>8, <1>9, <1>10, <1>11, <1>12
       DEF Next, Launch, HelperServes, HelperExits, Dismiss, PlugOrUnplug

\* The selection stays on the disk that the user selected, and on a drive on the volume
\* (AppWindow.cpp:705-709).
THEOREM SelectionStays == Spec => SelectionKept
  <1>1. Init => IsSelection(sel) BY DEF Init, FirstSelection, IsSelection
  <1>2. IsSelection(sel) /\ [Next]_vars => IsSelection(sel)' BY SelectionShape DEF IsSelection
  <1>3. AppIInv /\ IsSelection(sel) /\ [Next]_vars =>
           [/\ window # "closed" /\ window' # "closed"
            /\ DiskSelected /\ ~UserSelects
            => LET src == disks[sel.disk].src
                   raw == disks[sel.disk].parts[sel.part].raw
                   parts == disks'[sel'.disk].parts
               IN  \/ Entries(disks', src) < Entries(disks, src)
                   \/ /\ DiskSelected'
                      /\ disks'[sel'.disk].src = src
                      /\ src \in Drives /\ VolumeSelected
                         => \/ parts[sel'.part].raw = raw /\ sel'.vol = sel.vol
                            \/ \A p \in DOMAIN parts : parts[p].raw # raw
                            \/ \E i \in Images : Entries(disks', i) < Entries(disks, i)
                            \/ asked.stale /\ window' = "idle"]_vars
    BY StepKeeps DEF KeptNow
  <1> QED BY <1>1, <1>2, <1>3, AppInvariant, PTL DEF Spec, SelectionKept
=============================================================================
