--------------------------- MODULE SidebarProofs ---------------------------
(***************************************************************************)
(* What a click in the window does, for every list of disks, every size of *)
(* the window and of its rows, and every order of messages and paints.     *)
(***************************************************************************)
EXTENDS Sidebar, NaturalsInduction, FiniteSetTheorems, SequenceTheorems, TLAPS

-----------------------------------------------------------------------------
(* Numbers, recursive functions and orders *)

HasLeast(S) == \E n \in S : \A m \in S : n <= m

LEMMA NumbersHaveLeast ==
    ASSUME NEW S \in SUBSET Nat, S # {}
    PROVE  HasLeast(S)
  <1> DEFINE R == OpToRel(<, Nat)
  <1>1. IsWellFoundedOn(R, Nat) BY NatLessThanWellFounded
  <1>2. \A x, y \in Nat : y < x => <<y, x>> \in R BY DEF OpToRel
  <1> HIDE DEF R
  <1>3. PICK x \in S : \A y \in S : ~(<<y, x>> \in R) BY <1>1, WFMin, Zenon
  <1>4. ASSUME NEW y \in S PROVE x <= y
    <2>1. ~(<<y, x>> \in R) BY <1>3, Zenon
    <2>2. x \in Nat /\ y \in Nat BY Zenon
    <2> QED BY <1>2, <2>1, <2>2
  <1> QED BY <1>4 DEF HasLeast

\* What holds of lo, and of every number behind one it holds of, holds up to hi.
LEMMA UpTo ==
    ASSUME NEW lo \in Nat, NEW hi \in Nat, NEW G, lo \in G,
           \A n \in lo .. hi - 1 : n \in G => n + 1 \in G
    PROVE  \A n \in lo .. hi : n \in G
  <1> DEFINE Bad == {n \in lo .. hi : n \notin G}
  <1> SUFFICES ASSUME Bad # {} PROVE FALSE OBVIOUS
  <1>1. PICK n \in Bad : \A m \in Bad : n <= m
    <2>1. Bad \in SUBSET Nat OBVIOUS
    <2> QED BY <2>1, NumbersHaveLeast DEF HasLeast
  <1>2. n - 1 \in lo .. hi - 1 /\ ~(n <= n - 1) BY <1>1
  <1>3. n - 1 \in G BY <1>1, <1>2
  <1> QED BY <1>1, <1>2, <1>3

\* A function that is defined from lo on by its value before.
Recurs(f, lo, hi, start, step) ==
    f = [n \in lo .. hi |-> IF n = lo THEN start ELSE step[<<f[n - 1], n>>]]
HasRecursion(lo, hi, S, start, step) ==
    \E f \in [lo .. hi -> S] : Recurs(f, lo, hi, start, step)

LEMMA Recursion ==
    ASSUME NEW lo \in Nat, NEW hi \in Nat, lo <= hi, NEW S, NEW start \in S,
           NEW step \in [S \X (lo .. hi) -> S]
    PROVE  HasRecursion(lo, hi, S, start, step)
  <1> DEFINE G == {n \in lo .. hi : HasRecursion(lo, n, S, start, step)}
  <1>1. lo \in G
    <2> DEFINE f == [n \in lo .. lo |-> start]
    <2>1. f \in [lo .. lo -> S] /\ Recurs(f, lo, lo, start, step) BY DEF Recurs
    <2> QED BY <2>1, SMTT(30) DEF HasRecursion
  <1>2. ASSUME NEW n \in lo .. hi - 1, n \in G PROVE n + 1 \in G
    <2>1. PICK f \in [lo .. n -> S] : Recurs(f, lo, n, start, step)
      BY <1>2 DEF HasRecursion
    <2> DEFINE new == step[<<f[n], n + 1>>]
               g == [m \in lo .. n + 1 |-> IF m = n + 1 THEN new ELSE f[m]]
    <2>2. <<f[n], n + 1>> \in S \X (lo .. hi) OBVIOUS
    <2>3. new \in S BY <2>2
    <2>4. g \in [lo .. n + 1 -> S] BY <2>3
    <2>5. g[n] = f[n] OBVIOUS
    <2>6. ASSUME NEW m \in lo .. n + 1
          PROVE  g[m] = IF m = lo THEN start ELSE step[<<g[m - 1], m>>]
      <3>1. CASE m = n + 1 BY <2>5, <3>1
      <3>2. CASE m # n + 1
        <4>1. m \in lo .. n /\ g[m] = f[m] /\ (m # lo => g[m - 1] = f[m - 1]) BY <3>2
        <4>2. f[m] = IF m = lo THEN start ELSE step[<<f[m - 1], m>>]
          BY <2>1, <4>1 DEF Recurs
        <4> HIDE DEF g
        <4> QED BY <4>1, <4>2
      <3> QED BY <3>1, <3>2
    <2> HIDE DEF g
    <2>7. Recurs(g, lo, n + 1, start, step)
      <3>1. g = [m \in lo .. n + 1 |-> g[m]] BY <2>4
      <3> QED BY <2>6, <3>1 DEF Recurs
    <2>8. HasRecursion(lo, n + 1, S, start, step) BY <2>4, <2>7 DEF HasRecursion
    <2> QED BY <2>8
  <1> HIDE DEF G
  <1>3. \A n \in lo .. hi : n \in G BY <1>1, <1>2, UpTo
  <1>4. hi \in G BY <1>3
  <1> QED BY <1>4 DEF G

IsInOrder(s, S) ==
    /\ s \in [1 .. Cardinality(S) -> S]
    /\ \A m, n \in DOMAIN s : m < n => s[m] < s[n]

\* Every set of places has an order.
LEMMA OrderExists ==
    ASSUME NEW n \in Nat, NEW B \in SUBSET (1 .. n)
    PROVE  \E s : IsInOrder(s, B)
  <1> DEFINE Ordered(k) == \A P \in SUBSET (1 .. k) : IsFiniteSet(P) /\ \E s : IsInOrder(s, P)
             G == {k \in 0 .. n : Ordered(k)}
  <1>1. 0 \in G
    <2>1. \A P \in SUBSET (1 .. 0) : P = {} OBVIOUS
    <2>2. IsFiniteSet({}) /\ Cardinality({}) = 0 BY FS_EmptySet
    <2>3. IsInOrder(<<>>, {}) BY <2>2 DEF IsInOrder
    <2>4. Ordered(0) BY <2>1, <2>2, <2>3
    <2> QED BY <2>4
  <1>2. ASSUME NEW k \in 0 .. n - 1, k \in G PROVE k + 1 \in G
    <2>1. k \in Nat /\ k + 1 \in 0 .. n /\ Ordered(k) BY <1>2
    <2>2. ASSUME NEW P \in SUBSET (1 .. k + 1)
          PROVE  IsFiniteSet(P) /\ \E s : IsInOrder(s, P)
      <3> DEFINE T == P \ {k + 1}
                 c == Cardinality(T)
      <3>1. T \in SUBSET (1 .. k) BY <2>1
      <3>2. IsFiniteSet(T) /\ \E s : IsInOrder(s, T)
        <4> HIDE DEF T
        <4> QED BY <2>1, <3>1
      <3>3. CASE k + 1 \notin P
        <4>1. T = P BY <3>3
        <4> QED BY <3>2, <4>1
      <3>4. CASE k + 1 \in P
        <4>1. P = T \cup {k + 1} /\ k + 1 \notin T BY <3>4
        <4>2. IsFiniteSet(P) /\ Cardinality(P) = c + 1 /\ c \in Nat
          <5> HIDE DEF T
          <5> QED BY <3>2, <4>1, FS_AddElement, FS_CardinalityType
        <4>3. PICK t : IsInOrder(t, T) BY <3>2
        <4>0. T \subseteq 1 .. k BY <3>1
        <4> HIDE DEF T, c
        <4>4. t \in [1 .. c -> T] /\ \A l, m \in 1 .. c : l < m => t[l] < t[m]
          BY <4>3 DEF IsInOrder, c
        <4> DEFINE s == [m \in 1 .. c + 1 |-> IF m = c + 1 THEN k + 1 ELSE t[m]]
        <4>5. \A m \in 1 .. c : t[m] \in T /\ t[m] < k + 1 /\ m \in 1 .. c + 1 /\ m # c + 1
          <5> SUFFICES ASSUME NEW m \in 1 .. c
                       PROVE  t[m] \in T /\ t[m] < k + 1 /\ m \in 1 .. c + 1 /\ m # c + 1
            OBVIOUS
          <5>1. t[m] \in T BY <4>4
          <5>2. t[m] \in 1 .. k BY <4>0, <5>1
          <5> QED BY <2>1, <4>2, <5>1, <5>2
        <4>6. \A m \in 1 .. c + 1 : m = c + 1 \/ m \in 1 .. c BY <4>2
        <4>7. s \in [1 .. c + 1 -> P] BY <4>1, <4>5, <4>6
        <4>8. ASSUME NEW l \in 1 .. c + 1, NEW m \in 1 .. c + 1, l < m PROVE s[l] < s[m]
          <5>1. l \in 1 .. c /\ s[l] = t[l] BY <4>2, <4>8
          <5>2. CASE m = c + 1 BY <4>5, <5>1, <5>2
          <5>3. CASE m \in 1 .. c BY <4>4, <4>5, <4>8, <5>1, <5>3
          <5> QED BY <4>6, <5>2, <5>3
        <4>9. DOMAIN s = 1 .. c + 1 OBVIOUS
        <4> HIDE DEF s
        <4>10. IsInOrder(s, P) BY <4>2, <4>7, <4>8, <4>9 DEF IsInOrder
        <4> QED BY <4>2, <4>10
      <3> QED BY <3>3, <3>4
    <2> QED BY <2>1, <2>2
  <1> HIDE DEF G
  <1>3. \A k \in 0 .. n : k \in G BY <1>1, <1>2, UpTo
  <1>4. n \in G BY <1>3
  <1> QED BY <1>4 DEF G

LEMMA KeptIs ==
    ASSUME NEW S, NEW list \in Seq(S), NEW P \in SUBSET DOMAIN list
    PROVE  Kept(list, P) \in Seq(S)
  <1> DEFINE n == Cardinality(P)
             Ok(s) == \A k, m \in DOMAIN s : k < m => s[k] < s[m]
             order == CHOOSE s \in [1 .. n -> P] : Ok(s)
  <1>1. Len(list) \in Nat /\ DOMAIN list = 1 .. Len(list) BY LenProperties
  <1>2. P \in SUBSET (1 .. Len(list)) BY <1>1
  <1>3. IsFiniteSet(P)
    <2>1. IsFiniteSet(1 .. Len(list)) BY <1>1, FS_Interval
    <2> QED BY <1>2, <2>1, FS_Subset
  <1>4. n \in Nat BY <1>3, FS_CardinalityType
  <1>5. \E s \in [1 .. n -> P] : Ok(s) BY <1>1, <1>2, OrderExists DEF IsInOrder
  <1>6. Kept(list, P) = [m \in 1 .. n |-> list[order[m]]] BY Zenon DEF Kept
  <1> HIDE DEF Ok, n
  <1>7. order \in [1 .. n -> P] BY <1>5, Zenon
  <1> HIDE DEF order
  <1>8. \A m \in 1 .. n : order[m] \in 1 .. Len(list) BY <1>2, <1>7
  <1>9. [m \in 1 .. n |-> list[order[m]]] \in [1 .. n -> S] BY <1>1, <1>8
  <1> QED BY <1>4, <1>6, <1>9

-----------------------------------------------------------------------------
(* The inductive invariant *)

Entries == [id : Sources, expanded : BOOLEAN]
Selections == [disk : Int, part : Int, vol : Nat]
Scrolls == [side : Int, list : Int]

LayoutOf(s) ==
    [side |-> SidebarLayout(s.disks, s.scroll),
     list |-> VolumeLayout(s.disks, s.sel, s.scroll)]

TypesInv ==
    /\ disks \in Seq(Entries)
    /\ sel \in Selections
    /\ scroll \in Scrolls
    /\ screen \in [disks : Seq(Entries), sel : Selections, scroll : Scrolls]

\* What a click finds is what was painted last, or the window has never been painted.
HitsInv ==
    /\ hits = LayoutOf(screen) \/ (hits = NoHits /\ lost)
    /\ ListLength(screen.disks, screen.sel) > 0 =>
          screen.sel.vol <= ListLength(screen.disks, screen.sel)

\* The volume the button was painted for.
Painted == <<screen.disks[screen.sel.disk].id, screen.sel.part, screen.sel.vol>>

\* While the button is there and no volume has been clicked, a selected volume is
\* the painted one, or its disk is an image that cannot be read.
ButtonInv ==
    hits.list.button /\ ~picked /\ sel.vol # 0 =>
        /\ sel.disk \in DOMAIN disks
        /\ Parts(disks[sel.disk]) = <<>> \/ (VolumeSelected /\ Selected = Painted)

SidebarIInv == TypesInv /\ HitsInv /\ ButtonInv

-----------------------------------------------------------------------------
(* The layout *)

LEMMA SizesAre ==
    /\ RowHeight \in Nat \ {0} /\ PartHeight \in Nat \ {0} /\ Height \in Nat /\ ListTop \in Nat
    /\ \A e \in Entries : Parts(e) \in Seq(Nat)
    /\ Images \subseteq Sources /\ Range(DriveOrder) \subseteq Sources
    /\ DriveOrder \in Seq(Sources)
  <1>1. \A e \in Entries : Parts(e) \in Seq(Nat)
    BY SidebarAssumption DEF Entries, Parts
  <1>2. DriveOrder \in Seq(Sources)
    <2>1. DriveOrder \in Seq(Range(DriveOrder)) BY SidebarAssumption
    <2> DEFINE R == Range(DriveOrder)
    <2>2. R \subseteq Sources BY DEF Sources
    <2> HIDE DEF R
    <2>3. DriveOrder \in Seq(R) BY <2>1 DEF R
    <2> QED BY <2>2, <2>3
  <1> QED BY <1>1, <1>2, SidebarAssumption DEF Sources

LEMMA EntryOf ==
    ASSUME NEW list \in Seq(Entries), NEW d \in DOMAIN list
    PROVE  /\ d \in 1 .. Len(list) /\ list[d] \in Entries
           /\ Parts(list[d]) \in Seq(Nat) /\ Len(Parts(list[d])) \in Nat
           /\ DOMAIN Parts(list[d]) = 1 .. Len(Parts(list[d]))
           /\ list[d].expanded \in BOOLEAN /\ list[d].id \in Sources
  <1>1. d \in 1 .. Len(list) /\ list[d] \in Entries OBVIOUS
  <1>2. Parts(list[d]) \in Seq(Nat) BY <1>1, SizesAre
  <1>3. list[d].expanded \in BOOLEAN /\ list[d].id \in Sources BY <1>1 DEF Entries
  <1> HIDE DEF Entries
  <1> QED BY <1>1, <1>2, <1>3

\* The rows of partitions that a disk has in the sidebar, and those above a disk.
Shown(list, d) == IF list[d].expanded THEN Len(Parts(list[d])) ELSE 0
Above(list, d) == {t \in Rows(list) : t[1] < d}

LEMMA RowsAre ==
    ASSUME NEW list \in Seq(Entries)
    PROVE  /\ \A t \in Rows(list) : /\ t = <<t[1], t[2]>> /\ t[1] \in 1 .. Len(list)
                                    /\ t[2] \in 1 .. Shown(list, t[1])
                                    /\ list[t[1]].expanded
                                    /\ t[2] \in DOMAIN Parts(list[t[1]])
           /\ \A d \in 1 .. Len(list) :
                 /\ Shown(list, d) \in Nat
                 /\ \A m \in 1 .. Shown(list, d) : <<d, m>> \in Rows(list)
  <1>1. DOMAIN list = 1 .. Len(list) OBVIOUS
  <1>2. \A d \in 1 .. Len(list) : /\ Len(Parts(list[d])) \in Nat
                                  /\ DOMAIN Parts(list[d]) = 1 .. Len(Parts(list[d]))
    BY <1>1, EntryOf
  <1>3. ASSUME NEW d \in 1 .. Len(list), NEW m \in 1 .. Shown(list, d)
        PROVE  <<d, m>> \in Rows(list)
    <2>1. list[d].expanded BY <1>2, <1>3 DEF Shown
    <2>2. m \in DOMAIN Parts(list[d]) BY <1>2, <2>1 DEF Shown
    <2> QED BY <1>1, <2>1, <2>2 DEF Rows
  <1>4. ASSUME NEW t \in Rows(list)
        PROVE  /\ t = <<t[1], t[2]>> /\ t[1] \in 1 .. Len(list)
               /\ t[2] \in 1 .. Shown(list, t[1])
               /\ list[t[1]].expanded
               /\ t[2] \in DOMAIN Parts(list[t[1]])
    <2>1. PICK d \in 1 .. Len(list) : list[d].expanded /\ t \in {d} \X DOMAIN Parts(list[d])
      BY <1>1 DEF Rows
    <2>2. t = <<t[1], t[2]>> /\ t[1] = d /\ t[2] \in DOMAIN Parts(list[d]) BY <2>1
    <2>3. t[2] \in 1 .. Shown(list, d) BY <1>2, <2>1, <2>2 DEF Shown
    <2> QED BY <2>1, <2>2, <2>3
  <1>5. ASSUME NEW d \in 1 .. Len(list) PROVE Shown(list, d) \in Nat BY <1>2 DEF Shown
  <1> QED BY <1>3, <1>4, <1>5

\* A row and its partitions stand between two rows.
LEMMA AboveIs ==
    ASSUME NEW list \in Seq(Entries)
    PROVE  /\ \A d \in 1 .. Len(list) + 1 :
                 IsFiniteSet(Above(list, d)) /\ Cardinality(Above(list, d)) \in Nat
           /\ Cardinality(Above(list, 1)) = 0
           /\ \A d \in 1 .. Len(list) :
                 Cardinality(Above(list, d + 1)) = Cardinality(Above(list, d)) + Shown(list, d)
  <1> DEFINE n == Len(list)
             G == {d \in 1 .. n + 1 : IsFiniteSet(Above(list, d))}
  <1>1. n \in Nat OBVIOUS
  <1>2. \A t \in Rows(list) : /\ t = <<t[1], t[2]>> /\ t[1] \in 1 .. n
                              /\ t[2] \in 1 .. Shown(list, t[1])
    BY RowsAre
  <1>3. \A d \in 1 .. n : /\ Shown(list, d) \in Nat
                          /\ \A m \in 1 .. Shown(list, d) : <<d, m>> \in Rows(list)
    BY RowsAre
  <1> HIDE DEF n
  <1>4. Above(list, 1) = {}
    <2>1. \A t \in Rows(list) : ~(t[1] < 1) BY <1>1, <1>2
    <2> QED BY <2>1 DEF Above
  <1>5. ASSUME NEW d \in 1 .. n, IsFiniteSet(Above(list, d))
        PROVE  /\ IsFiniteSet(Above(list, d + 1))
               /\ Cardinality(Above(list, d + 1)) = Cardinality(Above(list, d)) + Shown(list, d)
    <2> DEFINE k == Shown(list, d)
               A == Above(list, d)
               B == {d} \X (1 .. k)
    <2>1. k \in Nat BY <1>3
    <2>2. IsFiniteSet(B) /\ Cardinality(B) = k
      <3>1. IsFiniteSet({d}) /\ Cardinality({d}) = 1 BY FS_Singleton
      <3>2. IsFiniteSet(1 .. k) /\ Cardinality(1 .. k) = k BY <2>1, FS_Interval
      <3> DEFINE I == 1 .. k
                 D == {d}
      <3>3. Cardinality(D \X I) = Cardinality(D) * Cardinality(I) /\ IsFiniteSet(D \X I)
        <4>1. IsFiniteSet(D) /\ IsFiniteSet(I) BY <3>1, <3>2
        <4> HIDE DEF D, I
        <4> QED BY <4>1, FS_Product
      <3> QED BY <2>1, <3>1, <3>2, <3>3
    <2>3. Above(list, d + 1) = A \cup B
      <3>1. A \subseteq Above(list, d + 1)
        <4>1. \A t \in Rows(list) : t[1] < d => t[1] < d + 1 BY <1>1, <1>2
        <4> QED BY <4>1 DEF Above
      <3>2. B \subseteq Above(list, d + 1)
        <4> SUFFICES ASSUME NEW m \in 1 .. k PROVE <<d, m>> \in Above(list, d + 1) OBVIOUS
        <4>1. <<d, m>> \in Rows(list) /\ <<d, m>>[1] = d /\ d < d + 1 BY <1>3
        <4> QED BY <4>1 DEF Above
      <3>3. ASSUME NEW t \in Above(list, d + 1) PROVE t \in A \cup B
        <4>1. t \in Rows(list) /\ t[1] < d + 1 BY DEF Above
        <4>2. t = <<t[1], t[2]>> /\ t[1] \in 1 .. n /\ t[2] \in 1 .. Shown(list, t[1])
          BY <1>2, <4>1
        <4>3. CASE t[1] < d BY <4>1, <4>3 DEF Above
        <4>4. CASE t[1] = d BY <4>2, <4>4
        <4> QED BY <1>1, <4>1, <4>2, <4>3, <4>4
      <3> QED BY <3>1, <3>2, <3>3
    <2>4. A \cap B = {}
      <3>1. \A t \in A : t[1] < d BY DEF Above
      <3>2. \A t \in B : t[1] = d OBVIOUS
      <3>3. d \in Int OBVIOUS
      <3> HIDE DEF A, B
      <3> QED BY <3>1, <3>2, <3>3
    <2> HIDE DEF A, B, k
    <2>5. /\ IsFiniteSet(A \cup B)
          /\ Cardinality(A \cup B) = Cardinality(A) + Cardinality(B) - Cardinality(A \cap B)
      <3>1. IsFiniteSet(A) BY <1>5 DEF A
      <3> QED BY <2>2, <3>1, FS_Union
    <2>6. Cardinality(A \cap B) = 0 BY <2>4, FS_EmptySet
    <2>7. Cardinality(A) \in Nat BY <1>5, FS_CardinalityType DEF A
    <2>8. IsFiniteSet(A \cup B) /\ Cardinality(A \cup B) = Cardinality(A) + k
      BY <2>1, <2>2, <2>5, <2>6, <2>7
    <2> QED BY <2>3, <2>8, Zenon DEF A, k
  <1>6. \A d \in 1 .. n + 1 : d \in G
    <2>1. 1 \in G BY <1>1, <1>4, FS_EmptySet
    <2>2. \A d \in 1 .. (n + 1) - 1 : d \in G => d + 1 \in G
      <3> SUFFICES ASSUME NEW d \in 1 .. n, d \in G PROVE d + 1 \in G BY <1>1
      <3>1. d + 1 \in 1 .. n + 1 BY <1>1
      <3> QED BY <1>5, <3>1
    <2> HIDE DEF G
    <2>3. 1 \in Nat /\ n + 1 \in Nat BY <1>1
    <2> QED BY <2>1, <2>2, <2>3, UpTo
  <1>7. \A d \in 1 .. n + 1 : IsFiniteSet(Above(list, d)) /\ Cardinality(Above(list, d)) \in Nat
    BY <1>6, FS_CardinalityType
  <1>8. Cardinality(Above(list, 1)) = 0 BY <1>4, FS_EmptySet
  <1>9. \A d \in 1 .. n :
           Cardinality(Above(list, d + 1)) = Cardinality(Above(list, d)) + Shown(list, d)
    <2> SUFFICES ASSUME NEW d \in 1 .. n
                 PROVE  Cardinality(Above(list, d + 1)) = Cardinality(Above(list, d)) + Shown(list, d)
      OBVIOUS
    <2>1. d \in 1 .. n + 1 BY <1>1
    <2> QED BY <1>5, <1>7, <2>1
  <1> QED BY <1>7, <1>8, <1>9 DEF n

\* The lines of the rows.
LEMMA TopIs ==
    ASSUME NEW list \in Seq(Entries)
    PROVE  /\ \A d \in 1 .. Len(list) + 1 : Top(list, d) \in Nat
           /\ Top(list, 1) = 0
           /\ \A d \in 1 .. Len(list) :
                 /\ PartHeight * Shown(list, d) \in Nat
                 /\ Top(list, d + 1) = Top(list, d) + RowHeight + PartHeight * Shown(list, d)
  <1> DEFINE n == Len(list)
             c(d) == Cardinality(Above(list, d))
  <1>1. n \in Nat /\ RowHeight \in Nat /\ PartHeight \in Nat BY SizesAre
  <1>2. \A d \in 1 .. n + 1 : c(d) \in Nat BY AboveIs
  <1>3. \A d \in 1 .. n : c(d + 1) = c(d) + Shown(list, d) BY AboveIs
  <1>4. c(1) = 0 BY AboveIs
  <1>5. \A d : Top(list, d) = RowHeight * (d - 1) + PartHeight * c(d) BY DEF Top, Above
  <1> HIDE DEF n, c
  <1>6. ASSUME NEW d \in 1 .. n + 1 PROVE Top(list, d) \in Nat
    <2>1. d - 1 \in Nat /\ c(d) \in Nat BY <1>1, <1>2
    <2>2. RowHeight * (d - 1) \in Nat /\ PartHeight * c(d) \in Nat BY <1>1, <2>1
    <2> QED BY <1>5, <2>2
  <1>7. Top(list, 1) = 0
    <2>1. Top(list, 1) = RowHeight * (1 - 1) + PartHeight * c(1) BY <1>5
    <2> QED BY <1>1, <1>4, <2>1
  <1>8. ASSUME NEW d \in 1 .. n
        PROVE  /\ PartHeight * Shown(list, d) \in Nat
               /\ Top(list, d + 1) = Top(list, d) + RowHeight + PartHeight * Shown(list, d)
    <2> DEFINE s == Shown(list, d)
               k == c(d)
               x == d - 1
    <2>1. s \in Nat BY RowsAre DEF n
    <2>2. k \in Nat /\ c(d + 1) = k + s /\ x \in Nat /\ (d + 1) - 1 = x + 1 BY <1>1, <1>2, <1>3
    <2>3. /\ Top(list, d) = RowHeight * x + PartHeight * k
          /\ Top(list, d + 1) = RowHeight * (x + 1) + PartHeight * (k + s)
      BY <1>5, <2>2
    <2> HIDE DEF s, k, x
    <2>4. /\ RowHeight * (x + 1) = RowHeight * x + RowHeight
          /\ PartHeight * (k + s) = PartHeight * k + PartHeight * s
      BY <1>1, <2>1, <2>2
    <2>5. RowHeight * x \in Nat /\ PartHeight * k \in Nat /\ PartHeight * s \in Nat
      BY <1>1, <2>1, <2>2
    <2> QED BY <1>1, <2>3, <2>4, <2>5 DEF s
  <1> QED BY <1>6, <1>7, <1>8 DEF n

\* The list of volumes.
LEMMA LengthIs ==
    ASSUME NEW list \in Seq(Entries), NEW s
    PROVE  /\ ListLength(list, s) \in Nat
           /\ ListLength(list, s) > 0 =>
                 /\ s.disk \in DOMAIN list /\ s.part \in DOMAIN Parts(list[s.disk])
                 /\ ListLength(list, s) = Parts(list[s.disk])[s.part]
  <1> DEFINE k == ListLength(list, s)
  <1>1. CASE s.disk \in DOMAIN list /\ s.part \in DOMAIN Parts(list[s.disk])
    <2>1. k = Parts(list[s.disk])[s.part] BY <1>1 DEF ListLength
    <2>2. Parts(list[s.disk]) \in Seq(Nat) BY <1>1, EntryOf
    <2>3. k \in Nat
      <3> DEFINE ps == Parts(list[s.disk])
      <3>1. ps \in Seq(Nat) /\ s.part \in DOMAIN ps /\ k = ps[s.part] BY <1>1, <2>1, <2>2
      <3> HIDE DEF ps, k
      <3> QED BY <3>1
    <2> QED BY <1>1, <2>1, <2>3
  <1>2. CASE ~(s.disk \in DOMAIN list /\ s.part \in DOMAIN Parts(list[s.disk]))
    <2>1. k = 0 BY <1>2 DEF ListLength
    <2> QED BY <2>1
  <1> QED BY <1>1, <1>2

LEMMA VolumeSelectedIs ==
    ASSUME TypesInv, VolumeSelected
    PROVE  /\ sel.disk \in DOMAIN disks /\ sel.part \in DOMAIN Parts(disks[sel.disk])
           /\ Parts(disks[sel.disk]) # <<>> /\ disks # <<>>
           /\ sel.vol \in Nat /\ sel.vol # 0 /\ Parts(disks[sel.disk])[sel.part] \in Nat
           /\ sel.vol <= Parts(disks[sel.disk])[sel.part]
  <1> DEFINE ps == Parts(disks[sel.disk])
  <1>1. sel.disk \in DOMAIN disks /\ sel.part \in DOMAIN ps /\ sel.vol \in 1 .. ps[sel.part]
    BY DEF VolumeSelected, PartSelected
  <1>2. disks \in Seq(Entries) BY DEF TypesInv
  <1>3. ps \in Seq(Nat) BY <1>1, <1>2, EntryOf
  <1>4. disks # <<>> BY <1>1
  <1> HIDE DEF ps
  <1>5. ps[sel.part] \in Nat /\ ps # <<>> BY <1>1, <1>3
  <1>6. sel.vol \in Nat /\ sel.vol # 0 /\ sel.vol <= ps[sel.part] BY <1>1, <1>5
  <1> QED BY <1>1, <1>4, <1>5, <1>6 DEF ps

\* What is left of the selection after a paint, failed or not.
LEMMA ClampedSelIs ==
    ASSUME TypesInv
    PROVE  /\ ClampedSel \in Selections
           /\ ListLength(disks, ClampedSel) > 0 => ClampedSel.vol <= ListLength(disks, ClampedSel)
           /\ ClampedSel.vol # 0 => sel.vol # 0
           /\ sel.disk \in DOMAIN disks /\ Parts(disks[sel.disk]) = <<>> => ClampedSel = sel
           /\ VolumeSelected => ClampedSel = sel
  <1> DEFINE d == IF disks # <<>> /\ sel.disk \notin DOMAIN disks THEN 1 ELSE sel.disk
             parts == IF disks = <<>> THEN <<>> ELSE Parts(disks[d])
             p == IF sel.part \in DOMAIN parts THEN sel.part ELSE 1
             v == IF sel.vol > parts[p] THEN 0 ELSE sel.vol
             new == IF parts = <<>> THEN [sel EXCEPT !.disk = d]
                    ELSE [disk |-> d, part |-> p, vol |-> v]
  <1>1. ClampedSel = new BY DEF ClampedSel
  <1>2. disks \in Seq(Entries) /\ sel \in Selections BY DEF TypesInv
  <1>3. /\ sel.disk \in Int /\ sel.part \in Int /\ sel.vol \in Nat
        /\ sel = [disk |-> sel.disk, part |-> sel.part, vol |-> sel.vol]
    BY <1>2 DEF Selections
  <1>4. d \in Int /\ (disks # <<>> => d \in DOMAIN disks)
    <2>1. disks # <<>> => 1 \in DOMAIN disks BY <1>2
    <2> QED BY <1>3, <2>1
  <1>5. parts \in Seq(Nat)
    <2>1. CASE disks = <<>> BY <2>1
    <2>2. CASE disks # <<>> BY <1>2, <1>4, <2>2, EntryOf
    <2> QED BY <2>1, <2>2
  <1>6. p \in Int /\ (parts # <<>> => p \in DOMAIN parts /\ parts[p] \in Nat)
    <2> HIDE DEF parts
    <2>1. parts # <<>> => 1 \in DOMAIN parts BY <1>5
    <2>2. parts # <<>> => p \in DOMAIN parts BY <2>1
    <2> HIDE DEF p
    <2>3. parts # <<>> => parts[p] \in Nat BY <1>5, <2>2
    <2>4. p \in Int BY <1>3 DEF p
    <2> QED BY <2>2, <2>3, <2>4
  <1>7. ASSUME parts = <<>>
        PROVE  /\ new = [disk |-> d, part |-> sel.part, vol |-> sel.vol]
    <2> HIDE DEF parts, d
    <2> QED BY <1>3, <1>7
  <1>8. ASSUME parts # <<>>
        PROVE  /\ new = [disk |-> d, part |-> p, vol |-> v] /\ v \in Nat
               /\ v <= parts[p] /\ (v # 0 => v = sel.vol)
               /\ d \in DOMAIN disks /\ parts = Parts(disks[d])
    <2>1. disks # <<>> BY <1>8
    <2>2. d \in DOMAIN disks /\ parts = Parts(disks[d]) BY <1>4, <2>1
    <2> HIDE DEF parts, d, p
    <2> QED BY <1>3, <1>6, <1>8, <2>2
  <1>9. VolumeSelected => disks # <<>> /\ d = sel.disk /\ parts = Parts(disks[sel.disk])
                          /\ parts # <<>> /\ p = sel.part /\ v = sel.vol
    <2> SUFFICES ASSUME VolumeSelected
                 PROVE  disks # <<>> /\ d = sel.disk /\ parts = Parts(disks[sel.disk])
                        /\ parts # <<>> /\ p = sel.part /\ v = sel.vol
      OBVIOUS
    <2> DEFINE ps == Parts(disks[sel.disk])
    <2>1. /\ sel.disk \in DOMAIN disks /\ sel.part \in DOMAIN ps
          /\ ps # <<>> /\ disks # <<>>
          /\ ps[sel.part] \in Nat /\ sel.vol <= ps[sel.part]
      BY VolumeSelectedIs
    <2>2. d = sel.disk /\ parts = ps BY <2>1
    <2> HIDE DEF ps, parts, d
    <2>3. p = sel.part BY <2>1, <2>2
    <2>4. v = sel.vol BY <1>3, <2>1, <2>2, <2>3
    <2> QED BY <2>1, <2>2, <2>3, <2>4 DEF ps
  <1>10. sel.disk \in DOMAIN disks /\ Parts(disks[sel.disk]) = <<>> => d = sel.disk /\ parts = <<>>
    BY <1>2
  <1>11. parts # <<>> => ListLength(disks, [disk |-> d, part |-> p, vol |-> v]) = parts[p]
    BY <1>6, <1>8 DEF ListLength
  <1>12. parts = <<>> => ListLength(disks, [disk |-> d, part |-> sel.part, vol |-> sel.vol]) = 0
    <2> SUFFICES ASSUME parts = <<>>
                 PROVE  ListLength(disks, [disk |-> d, part |-> sel.part, vol |-> sel.vol]) = 0
      OBVIOUS
    <2> DEFINE s == [disk |-> d, part |-> sel.part, vol |-> sel.vol]
    <2>1. s.disk = d /\ s.part = sel.part OBVIOUS
    <2>2. ~(s.disk \in DOMAIN disks /\ s.part \in DOMAIN Parts(disks[s.disk]))
      <3>1. CASE disks = <<>> BY <3>1
      <3>2. CASE disks # <<>>
        <4>1. Parts(disks[d]) = <<>> BY <3>2
        <4>2. DOMAIN Parts(disks[d]) = {} BY <4>1
        <4> QED BY <2>1, <4>2
      <3> QED BY <3>1, <3>2
    <2> HIDE DEF s
    <2>3. ListLength(disks, s) = 0 BY <2>2, Zenon DEF ListLength
    <2> QED BY <2>3 DEF s
  <1> HIDE DEF d, parts, p, v
  <1>13. CASE parts = <<>>
    <2> DEFINE s == [disk |-> d, part |-> sel.part, vol |-> sel.vol]
    <2>1. ClampedSel = s /\ ListLength(disks, s) = 0 BY <1>1, <1>7, <1>12, <1>13
    <2>2. s \in Selections /\ s.vol = sel.vol BY <1>3, <1>4 DEF Selections
    <2>3. d = sel.disk => s = sel BY <1>3
    <2>4. ~VolumeSelected BY <1>9, <1>13
    <2> HIDE DEF s
    <2> QED BY <1>10, <2>1, <2>2, <2>3, <2>4
  <1>14. CASE parts # <<>>
    <2> DEFINE s == [disk |-> d, part |-> p, vol |-> v]
    <2>1. ClampedSel = s /\ ListLength(disks, s) = parts[p] BY <1>1, <1>8, <1>11, <1>14
    <2>2. s \in Selections /\ s.vol = v BY <1>4, <1>6, <1>8, <1>14 DEF Selections
    <2>3. d = sel.disk /\ p = sel.part /\ v = sel.vol => s = sel BY <1>3
    <2>4. s.vol <= parts[p] /\ (s.vol # 0 => sel.vol # 0) BY <1>8, <1>14, <2>2
    <2> HIDE DEF s
    <2> QED BY <1>9, <1>10, <1>14, <2>1, <2>2, <2>3, <2>4
  <1> QED BY <1>13, <1>14

LEMMA ClampedScrollIs ==
    ASSUME TypesInv, NEW s
    PROVE  ClampedScroll(s) \in Scrolls
  <1> DEFINE a == Top(disks, Len(disks) + 1) + RowHeight - Height
             b == ListLength(disks, s) - (Height - ListTop)
  <1>1. disks \in Seq(Entries) /\ scroll.side \in Int /\ scroll.list \in Int
    BY DEF TypesInv, Scrolls
  <1>2. RowHeight \in Int /\ Height \in Int /\ ListTop \in Int BY SizesAre
  <1>3. a \in Int
    <2>1. Len(disks) + 1 \in 1 .. Len(disks) + 1 BY <1>1
    <2>2. Top(disks, Len(disks) + 1) \in Nat BY <1>1, <2>1, TopIs
    <2> QED BY <1>2, <2>2
  <1>4. b \in Int
    <2>1. ListLength(disks, s) \in Nat BY <1>1, LengthIs
    <2> QED BY <1>2, <2>1
  <1> HIDE DEF a, b
  <1>5. Clamp(scroll.side, a) \in Int /\ Clamp(scroll.list, b) \in Int
    BY <1>1, <1>3, <1>4 DEF Clamp
  <1> QED BY <1>1, <1>5, Zenon DEF ClampedScroll, Scrolls, a, b

\* What the last paint recorded.
LEMMA HitsAre ==
    ASSUME TypesInv, HitsInv
    PROVE  /\ \A t \in DOMAIN hits.side.parts : t[1] \in Int /\ t[2] \in Int
           /\ \A v \in DOMAIN hits.list.volumes : v \in Nat
  <1>1. screen.disks \in Seq(Entries) BY DEF TypesInv
  <1>2. CASE hits = NoHits
    <2>1. hits.side.parts = <<>> /\ hits.list.volumes = <<>> BY <1>2 DEF NoHits
    <2>2. DOMAIN hits.side.parts = {} /\ DOMAIN hits.list.volumes = {} BY <2>1
    <2> QED BY <2>2
  <1>3. CASE hits = LayoutOf(screen)
    <2>1. DOMAIN hits.side.parts = Rows(screen.disks)
      BY <1>3, Zenon DEF LayoutOf, SidebarLayout
    <2>2. DOMAIN hits.list.volumes = 1 .. ListLength(screen.disks, screen.sel)
      BY <1>3, Zenon DEF LayoutOf, VolumeLayout
    <2>3. ASSUME NEW t \in Rows(screen.disks) PROVE t[1] \in Int /\ t[2] \in Int
      <3>1. t[1] \in 1 .. Len(screen.disks) /\ t[2] \in 1 .. Shown(screen.disks, t[1])
        BY <1>1, RowsAre
      <3> QED BY <3>1
    <2>4. ListLength(screen.disks, screen.sel) \in Nat BY <1>1, LengthIs
    <2>5. ASSUME NEW v \in 1 .. ListLength(screen.disks, screen.sel) PROVE v \in Nat
      BY <2>4
    <2> QED BY <2>1, <2>2, <2>3, <2>5
  <1> QED BY <1>2, <1>3 DEF HitsInv

\* What a click may change.
Clicked ==
    \/ UNCHANGED <<disks, sel, picked>>
    \/ \E img \in Images : AddDisk(img)
    \/ \E i \in DOMAIN disks : RemoveDisk(i)
    \/ \E i \in DOMAIN disks : ToggleExpanded(i)
    \/ \E d, p \in Int : SelectPartition(d, p)
    \/ \E v \in Nat : SelectVolume(v)

LEMMA ClickIs ==
    ASSUME TypesInv, HitsInv, NEW p \in Points, Under(p) # <<"none">>, Click(Under(p))
    PROVE  Clicked /\ UNCHANGED <<scroll, hits, screen, lost>>
  <1> DEFINE The(S) == CHOOSE x \in S : TRUE
             closing == {i \in Tested : /\ disks[i].id \in Images /\ i \in hits.side.close
                                        /\ p.col = "close" /\ Covers(hits.side.rows[i], 1, p.y)}
             rows == {i \in Tested : Covers(hits.side.rows[i], RowHeight, p.y)}
             parts == {t \in DOMAIN hits.side.parts : Covers(hits.side.parts[t], PartHeight, p.y)}
             volumes == {v \in DOMAIN hits.list.volumes : Covers(hits.list.volumes[v], 1, p.y)}
             u == Under(p)
  <1>1. UNCHANGED <<scroll, hits, screen, lost>> BY DEF Click
  <1>2. u = <<"crash">> => UNCHANGED <<disks, sel, picked>> BY DEF Click
  <1>3. u # <<"crash">> => Act(u) BY DEF Click
  <1>4. \/ u = <<"add">> \/ u = <<"crash">>
        \/ closing # {} /\ u = <<"close", The(closing)>>
        \/ rows # {} /\ u = <<"row", The(rows)>>
        \/ parts # {} /\ u = <<"part", The(parts)>>
        \/ volumes # {} /\ u = <<"volume", The(volumes)>>
        \/ u = <<"button">> \/ u = <<"none">>
    <2> DEFINE a == InSidebar(p) /\ Covers(hits.side.add, RowHeight, p.y)
               b == Tested \ DOMAIN disks # {}
               c == InSidebar(p)
               d == p.col = "list"
               e == p.col = "button" /\ hits.list.button
    <2>1. u = IF a THEN <<"add">>
              ELSE IF b THEN <<"crash">>
              ELSE IF closing # {} THEN <<"close", The(closing)>>
              ELSE IF c /\ rows # {} THEN <<"row", The(rows)>>
              ELSE IF c /\ parts # {} THEN <<"part", The(parts)>>
              ELSE IF d /\ volumes # {} THEN <<"volume", The(volumes)>>
              ELSE IF e THEN <<"button">>
              ELSE <<"none">>
      BY Zenon DEF Under
    <2> HIDE DEF a, b, c, d, e, u, closing, rows, parts, volumes, The
    <2> QED BY <2>1
  <1>5. \A S : S # {} => The(S) \in S OBVIOUS
  <1>6. closing \subseteq DOMAIN disks /\ rows \subseteq DOMAIN disks BY DEF Tested
  <1>7. parts \subseteq DOMAIN hits.side.parts /\ volumes \subseteq DOMAIN hits.list.volumes
    OBVIOUS
  <1> HIDE DEF closing, rows, parts, volumes, The, u
  <1>8. CASE u = <<"add">>
    <2>1. u[1] = "add" BY <1>8
    <2>2. \E img \in Images : AddDisk(img) BY <1>3, <1>8, <2>1 DEF Act
    <2> QED BY <1>1, <2>2 DEF Clicked
  <1>9. CASE u = <<"crash">> BY <1>1, <1>2, <1>9 DEF Clicked
  <1>10. CASE closing # {} /\ u = <<"close", The(closing)>>
    <2>1. The(closing) \in DOMAIN disks BY <1>5, <1>6, <1>10
    <2>2. u[1] = "close" /\ u[2] = The(closing) BY <1>10
    <2>3. RemoveDisk(The(closing)) BY <1>3, <1>10, <2>2 DEF Act
    <2> QED BY <1>1, <2>1, <2>3 DEF Clicked
  <1>11. CASE rows # {} /\ u = <<"row", The(rows)>>
    <2>1. The(rows) \in DOMAIN disks BY <1>5, <1>6, <1>11
    <2>2. u[1] = "row" /\ u[2] = The(rows) BY <1>11
    <2>3. ToggleExpanded(The(rows)) BY <1>3, <1>11, <2>2 DEF Act
    <2> QED BY <1>1, <2>1, <2>3 DEF Clicked
  <1>12. CASE parts # {} /\ u = <<"part", The(parts)>>
    <2> DEFINE t == The(parts)
    <2>1. t \in DOMAIN hits.side.parts BY <1>5, <1>7, <1>12
    <2>2. t[1] \in Int /\ t[2] \in Int BY <2>1, HitsAre
    <2>3. u[1] = "part" /\ u[2] = t BY <1>12
    <2> HIDE DEF t
    <2>4. SelectPartition(t[1], t[2]) BY <1>3, <1>12, <2>3 DEF Act
    <2> QED BY <1>1, <2>2, <2>4 DEF Clicked
  <1>13. CASE volumes # {} /\ u = <<"volume", The(volumes)>>
    <2> DEFINE v == The(volumes)
    <2>1. v \in Nat BY <1>5, <1>7, <1>13, HitsAre
    <2>2. u[1] = "volume" /\ u[2] = v BY <1>13
    <2> HIDE DEF v
    <2>3. SelectVolume(v) BY <1>3, <1>13, <2>2 DEF Act
    <2> QED BY <1>1, <2>1, <2>3 DEF Clicked
  <1>14. CASE u = <<"button">>
    <2>1. u[1] = "button" BY <1>14
    <2>2. ToggleMount BY <1>3, <1>14, <2>1 DEF Act
    <2> QED BY <1>1, <2>2 DEF Clicked, ToggleMount
  <1> QED BY <1>4, <1>8, <1>9, <1>10, <1>11, <1>12, <1>13, <1>14 DEF u

-----------------------------------------------------------------------------
(* The steps *)

SameHits == UNCHANGED <<hits, screen>> /\ (lost => lost')

LEMMA HitsFrame == HitsInv /\ SameHits => HitsInv'
  BY DEF HitsInv, SameHits, LayoutOf

\* Steps after which no volume is selected, or one has been clicked.
LEMMA NothingSelected ==
    ASSUME UNCHANGED hits, sel'.vol = 0 \/ picked'
    PROVE  ButtonInv'
  BY DEF ButtonInv

LEMMA PaintStep ==
    ASSUME TypesInv, Paint
    PROVE  TypesInv' /\ HitsInv' /\ ButtonInv'
  <1> DEFINE s == ClampedSel
             at == ClampedScroll(ClampedSel)
             side == SidebarLayout(disks, at)
             list == VolumeLayout(disks, s, at)
  <1>1. /\ sel' = s /\ scroll' = at /\ UNCHANGED disks
        /\ hits' = [side |-> side, list |-> list]
        /\ screen' = [disks |-> disks, sel |-> s, scroll |-> at]
    BY DEF Paint
  <1>2. /\ s \in Selections
        /\ ListLength(disks, s) > 0 => s.vol <= ListLength(disks, s)
    BY ClampedSelIs
  <1>3. at \in Scrolls BY ClampedScrollIs
  <1>4. disks \in Seq(Entries) BY DEF TypesInv
  <1>5. list.button <=> ListLength(disks, s) > 0 /\ s.vol > 0 BY DEF VolumeLayout
  <1>6. \* the layout of the screen
        LayoutOf(screen') = [side |-> side, list |-> list]
    <2>1. screen'.disks = disks /\ screen'.sel = s /\ screen'.scroll = at BY <1>1
    <2> HIDE DEF s, at, side, list
    <2>2. LayoutOf(screen') = [side |-> SidebarLayout(disks, at), list |-> VolumeLayout(disks, s, at)]
      BY <2>1 DEF LayoutOf
    <2> QED BY <2>2 DEF side, list
  <1> HIDE DEF s, at, side, list
  <1>7. screen'.disks = disks /\ screen'.sel = s /\ screen'.scroll = at BY <1>1
  <1>8. hits'.list.button <=> ListLength(disks, s) > 0 /\ s.vol > 0 BY <1>1, <1>5
  <1>9. TypesInv'
    <2>1. screen' \in [disks : Seq(Entries), sel : Selections, scroll : Scrolls]
      <3> DEFINE T == Seq(Entries)
      <3>1. disks \in T BY <1>4
      <3> HIDE DEF T
      <3>2. screen' \in [disks : T, sel : Selections, scroll : Scrolls]
        BY <1>1, <1>2, <1>3, <3>1
      <3> QED BY <3>2 DEF T
    <2> QED BY <1>1, <1>2, <1>3, <1>4, <2>1, Zenon DEF TypesInv
  <1>10. HitsInv'
    <2>1. hits' = LayoutOf(screen') BY <1>1, <1>6
    <2>2. ListLength(disks, s) > 0 => s.vol <= ListLength(disks, s) BY <1>2
    <2> QED BY <1>7, <2>1, <2>2, Zenon DEF HitsInv
  <1>11. ButtonInv'
    <2> SUFFICES ASSUME hits'.list.button
                 PROVE  /\ s.disk \in DOMAIN disks
                        /\ VolumeSelected' /\ Selected' = Painted'
      BY <1>1, Zenon DEF ButtonInv
    <2>1. ListLength(disks, s) > 0 /\ s.vol > 0 /\ s.vol <= ListLength(disks, s) BY <1>2, <1>8
    <2>2. /\ s.disk \in DOMAIN disks /\ s.part \in DOMAIN Parts(disks[s.disk])
          /\ ListLength(disks, s) = Parts(disks[s.disk])[s.part]
          /\ ListLength(disks, s) \in Nat
      BY <1>4, <2>1, LengthIs
    <2>3. s.vol \in 1 .. ListLength(disks, s) BY <1>2, <2>1, <2>2 DEF Selections
    <2>4. VolumeSelected' BY <1>1, <2>2, <2>3, Zenon DEF VolumeSelected, PartSelected, Parts
    <2>5. Selected' = Painted' BY <1>1, <1>7, Zenon DEF Selected, Painted
    <2> QED BY <2>2, <2>4, <2>5
  <1> QED BY <1>9, <1>10, <1>11

\* A paint that fails takes only back what the button is not for.
LEMMA PaintLostStep ==
    ASSUME TypesInv, HitsInv, ButtonInv, PaintLost
    PROVE  TypesInv' /\ HitsInv' /\ ButtonInv'
  <1>1. /\ sel' = ClampedSel /\ scroll' = ClampedScroll(ClampedSel)
        /\ UNCHANGED <<disks, hits, screen, picked>> /\ lost'
    BY DEF PaintLost
  <1>2. TypesInv'
    BY <1>1, ClampedSelIs, ClampedScrollIs DEF TypesInv
  <1>3. HitsInv' BY <1>1, HitsFrame DEF SameHits
  <1>4. ButtonInv'
    <2> SUFFICES ASSUME hits.list.button, ~picked, ClampedSel.vol # 0 PROVE ButtonInv'
      BY <1>1 DEF ButtonInv
    <2>1. sel.vol # 0 BY ClampedSelIs
    <2>2. /\ sel.disk \in DOMAIN disks
          /\ Parts(disks[sel.disk]) = <<>> \/ (VolumeSelected /\ Selected = Painted)
      BY <2>1 DEF ButtonInv
    <2>3. sel' = sel BY <1>1, <2>2, ClampedSelIs
    <2> QED BY <1>1, <2>3
         DEF ButtonInv, Parts, VolumeSelected, PartSelected, Selected, Painted
  <1> QED BY <1>2, <1>3, <1>4

LEMMA AddStep ==
    ASSUME TypesInv, NEW img \in Images, AddDisk(img), UNCHANGED <<hits, screen>>
    PROVE  disks' \in Seq(Entries) /\ sel' \in Selections /\ ButtonInv'
  <1> DEFINE entry == [id |-> img, expanded |-> TRUE]
             n == Len(disks)
  <1>1. disks \in Seq(Entries) /\ sel \in Selections BY DEF TypesInv
  <1>2. entry \in Entries /\ entry.id = img BY SizesAre DEF Entries
  <1>3. disks' = Append(disks, entry) BY DEF AddDisk
  <1> HIDE DEF entry
  <1>4. /\ disks' \in Seq(Entries) /\ n + 1 \in DOMAIN disks' /\ n + 1 \in Int
        /\ disks'[n + 1] = entry
    BY <1>1, <1>2, <1>3
  <1>5. CASE VolumeCounts[img] = <<>>
    <2>1. sel' = [sel EXCEPT !.disk = n + 1] BY <1>5 DEF AddDisk
    <2>2. sel' \in Selections /\ sel'.disk = n + 1 BY <1>1, <1>4, <2>1 DEF Selections
    <2>3. Parts(disks'[sel'.disk]) = <<>> BY <1>2, <1>4, <1>5, <2>2 DEF Parts
    <2> QED BY <1>4, <2>2, <2>3 DEF ButtonInv, Parts
  <1>6. CASE VolumeCounts[img] # <<>>
    <2>1. sel' = [disk |-> n + 1, part |-> 1, vol |-> 0] BY <1>6 DEF AddDisk
    <2>2. sel' \in Selections /\ sel'.vol = 0 BY <1>4, <2>1 DEF Selections
    <2> QED BY <1>4, <2>2, NothingSelected
  <1> QED BY <1>5, <1>6

LEMMA RemoveStep ==
    ASSUME TypesInv, NEW i \in DOMAIN disks, RemoveDisk(i), UNCHANGED <<hits, screen>>
    PROVE  disks' \in Seq(Entries) /\ sel' \in Selections /\ ButtonInv'
  <1> DEFINE n == Len(disks)
             d == IF sel.disk > i THEN sel.disk - 1 ELSE sel.disk
  <1>1. disks \in Seq(Entries) /\ sel \in Selections /\ n \in Nat /\ i \in 1 .. n
    BY DEF TypesInv
  <1>2. disks' = SubSeq(disks, 1, i - 1) \o SubSeq(disks, i + 1, n)
    BY DEF RemoveDisk, RemoveAt
  <1>3. SubSeq(disks, 1, i - 1) \in Seq(Entries)
    <2> DEFINE k == i - 1
    <2>1. k \in Int /\ 1 \in Int /\ \A m \in 1 .. k : disks[m] \in Entries BY <1>1
    <2> HIDE DEF k
    <2>2. SubSeq(disks, 1, k) \in Seq(Entries) BY <2>1, SubSeqProperties
    <2> QED BY <2>2 DEF k
  <1>4. SubSeq(disks, i + 1, n) \in Seq(Entries)
    <2> DEFINE k == i + 1
    <2>1. k \in Int /\ n \in Int /\ \A m \in k .. n : disks[m] \in Entries BY <1>1
    <2> HIDE DEF k, n
    <2>2. SubSeq(disks, k, n) \in Seq(Entries) BY <2>1, SubSeqProperties
    <2> QED BY <2>2 DEF k, n
  <1>5. disks' \in Seq(Entries) BY <1>2, <1>3, <1>4, ConcatProperties
  <1>6. \/ sel' = FirstSelection
        \/ sel' = [sel EXCEPT !.disk = d, !.vol = 0]
    BY DEF RemoveDisk
  <1>7. sel' \in Selections /\ sel'.vol = 0
    <2>1. d \in Int /\ sel.part \in Int BY <1>1 DEF Selections
    <2> HIDE DEF d
    <2>2. CASE sel' = FirstSelection BY <2>2 DEF FirstSelection, Selections
    <2>3. CASE sel' = [sel EXCEPT !.disk = d, !.vol = 0] BY <1>1, <2>1, <2>3 DEF Selections
    <2> QED BY <1>6, <2>2, <2>3
  <1> QED BY <1>5, <1>7, NothingSelected

LEMMA ToggleStep ==
    ASSUME TypesInv, ButtonInv, NEW i \in DOMAIN disks, ToggleExpanded(i),
           UNCHANGED <<hits, screen>>
    PROVE  disks' \in Seq(Entries) /\ sel' \in Selections /\ ButtonInv'
  <1>1. /\ disks' = [disks EXCEPT ![i].expanded = ~@] /\ UNCHANGED <<sel, picked>>
    BY DEF ToggleExpanded
  <1>2. disks \in Seq(Entries) /\ sel \in Selections BY DEF TypesInv
  <1> DEFINE e == [disks[i] EXCEPT !.expanded = ~disks[i].expanded]
  <1>3. e \in Entries /\ e.id = disks[i].id
    <2>1. disks[i] \in Entries BY <1>2
    <2> QED BY <2>1 DEF Entries
  <1>4. disks' = [disks EXCEPT ![i] = e] BY <1>1
  <1> HIDE DEF e
  <1>5. /\ disks' \in Seq(Entries) /\ DOMAIN disks' = DOMAIN disks
        /\ \A m \in DOMAIN disks : disks'[m].id = disks[m].id
    BY <1>2, <1>3, <1>4
  <1>6. ButtonInv'
    <2> SUFFICES ASSUME hits.list.button, ~picked, sel.vol # 0 PROVE ButtonInv'
      BY <1>1 DEF ButtonInv
    <2>1. /\ sel.disk \in DOMAIN disks
          /\ Parts(disks[sel.disk]) = <<>> \/ (VolumeSelected /\ Selected = Painted)
      BY DEF ButtonInv
    <2>2. disks'[sel.disk].id = disks[sel.disk].id BY <1>5, <2>1
    <2>3. Parts(disks[sel.disk]) = <<>> => Parts(disks'[sel.disk]) = <<>>
      BY <2>2 DEF Parts
    <2>4. VolumeSelected => VolumeSelected'
      BY <1>1, <1>5, <2>1, <2>2 DEF VolumeSelected, PartSelected, Parts
    <2>5. Selected' = Selected BY <1>1, <2>2 DEF Selected
    <2>6. Painted' = Painted BY DEF Painted
    <2> QED BY <1>1, <1>5, <2>1, <2>3, <2>4, <2>5, <2>6 DEF ButtonInv, Parts
  <1> QED BY <1>1, <1>2, <1>5, <1>6

LEMMA SelectPartitionStep ==
    ASSUME TypesInv, ButtonInv, NEW d \in Int, NEW p \in Int, SelectPartition(d, p),
           UNCHANGED <<hits, screen>>
    PROVE  disks' \in Seq(Entries) /\ sel' \in Selections /\ ButtonInv'
  <1>1. UNCHANGED <<disks, picked>>
        /\ sel' = IF d \in DOMAIN disks /\ p \in DOMAIN Parts(disks[d])
                  THEN [disk |-> d, part |-> p, vol |-> 0] ELSE sel
    BY DEF SelectPartition
  <1>2. disks \in Seq(Entries) /\ sel \in Selections BY DEF TypesInv
  <1>3. CASE sel' = [disk |-> d, part |-> p, vol |-> 0]
    <2>1. sel' \in Selections /\ sel'.vol = 0 BY <1>3 DEF Selections
    <2> QED BY <1>1, <1>2, <2>1, NothingSelected
  <1>4. CASE sel' = sel
    BY <1>1, <1>2, <1>4
       DEF ButtonInv, Parts, VolumeSelected, PartSelected, Selected, Painted
  <1> QED BY <1>1, <1>3, <1>4

LEMMA SelectVolumeStep ==
    ASSUME TypesInv, NEW v \in Nat, SelectVolume(v), UNCHANGED <<hits, screen>>
    PROVE  disks' \in Seq(Entries) /\ sel' \in Selections /\ ButtonInv'
  <1>1. UNCHANGED disks /\ picked' /\ sel' = [sel EXCEPT !.vol = v] BY DEF SelectVolume
  <1>2. disks \in Seq(Entries) /\ sel \in Selections BY DEF TypesInv
  <1>3. sel' \in Selections BY <1>1, <1>2 DEF Selections
  <1> QED BY <1>1, <1>2, <1>3, NothingSelected

\* The list a scan leaves.
LEMMA RescanList ==
    ASSUME TypesInv, NEW seen \in SUBSET Range(DriveOrder), Rescan(seen)
    PROVE  disks' \in Seq(Entries)
  <1> DEFINE L == Listed(seen)
             old(id) == {i \in DOMAIN disks : disks[i].id = id}
             fresh == [n \in DOMAIN L |->
                          [id |-> L[n], expanded |-> \A i \in old(L[n]) : disks[i].expanded]]
             P == {i \in DOMAIN disks : disks[i].id \in Images}
             kept == Kept(disks, P)
  <1>1. disks \in Seq(Entries) BY DEF TypesInv
  <1>2. disks' = fresh \o kept BY Zenon DEF Rescan
  <1>3. kept \in Seq(Entries)
    <2>1. P \in SUBSET DOMAIN disks OBVIOUS
    <2> HIDE DEF P
    <2> QED BY <1>1, <2>1, KeptIs
  <1>4. L \in Seq(Sources)
    <2> DEFINE Q == {n \in DOMAIN DriveOrder : DriveOrder[n] \in seen}
    <2>1. Q \in SUBSET DOMAIN DriveOrder /\ DriveOrder \in Seq(Sources) BY SizesAre
    <2>2. L = Kept(DriveOrder, Q) BY Zenon DEF Listed
    <2> HIDE DEF Q, L
    <2> QED BY <2>1, <2>2, KeptIs
  <1> HIDE DEF L, kept
  <1>5. fresh \in Seq(Entries)
    <2>1. DOMAIN L = 1 .. Len(L) /\ Len(L) \in Nat BY <1>4
    <2>2. ASSUME NEW n \in 1 .. Len(L)
          PROVE  [id |-> L[n], expanded |-> \A i \in old(L[n]) : disks[i].expanded] \in Entries
      <3> DEFINE b == \A i \in old(L[n]) : disks[i].expanded
      <3>1. b \in BOOLEAN OBVIOUS
      <3>2. L[n] \in Sources BY <1>4, <2>2
      <3> HIDE DEF b
      <3>3. [id |-> L[n], expanded |-> b] \in Entries BY <3>1, <3>2 DEF Entries
      <3> QED BY <3>3 DEF b
    <2>3. fresh \in [1 .. Len(L) -> Entries] BY <2>1, <2>2, Zenon
    <2> HIDE DEF fresh
    <2> QED BY <2>1, <2>3
  <1> HIDE DEF fresh
  <1> QED BY <1>2, <1>3, <1>5, ConcatProperties

\* The selection goes with its disk.
LEMMA RescanStep ==
    ASSUME TypesInv, ButtonInv, NEW seen \in SUBSET Range(DriveOrder), Rescan(seen)
    PROVE  TypesInv' /\ ButtonInv'
  <1>1. disks' \in Seq(Entries) BY RescanList
  <1>2. /\ sel' = Restored(disks') /\ UNCHANGED <<scroll, hits, screen, picked>>
    BY Zenon DEF Rescan
  <1> DEFINE same == {k \in DOMAIN disks' : sel.disk \in DOMAIN disks /\ disks'[k].id = disks[sel.disk].id}
             i == CHOOSE k \in same : TRUE
             v == IF VolumeSelected THEN sel.vol ELSE 0
  <1>3. sel' = IF same = {} THEN FirstSelection
               ELSE IF ~PartSelected THEN [disk |-> i, part |-> 1, vol |-> 0]
               ELSE [disk |-> i, part |-> sel.part, vol |-> v]
    BY <1>2, Zenon DEF Restored
  <1>4. sel \in Selections /\ disks \in Seq(Entries) /\ scroll \in Scrolls
        /\ sel.part \in Int /\ sel.vol \in Nat /\ v \in Nat
    BY DEF TypesInv, Selections
  <1>5. same # {} => /\ i \in DOMAIN disks' /\ disks'[i].id = disks[sel.disk].id
                     /\ sel.disk \in DOMAIN disks /\ i \in Int
    <2>1. same # {} => i \in same OBVIOUS
    <2>2. DOMAIN disks' \subseteq Int BY <1>1
    <2> QED BY <2>1, <2>2
  <1> HIDE DEF same, i, v
  <1>6. CASE same = {} \/ ~PartSelected
    <2>1. sel' \in Selections /\ sel'.vol = 0
      BY <1>3, <1>5, <1>6 DEF FirstSelection, Selections
    <2>2. ButtonInv' BY <1>2, <2>1, NothingSelected
    <2> QED BY <1>1, <1>2, <2>1, <2>2 DEF TypesInv
  <1>7. CASE same # {} /\ PartSelected
    <2>1. sel' = [disk |-> i, part |-> sel.part, vol |-> v] BY <1>3, <1>7
    <2>2. /\ sel' \in Selections
          /\ sel'.disk = i /\ sel'.part = sel.part /\ sel'.vol = v
      BY <1>4, <1>5, <1>7, <2>1 DEF Selections
    <2>3. TypesInv' BY <1>1, <1>2, <2>2 DEF TypesInv
    <2>4. ButtonInv'
      <3>1. CASE ~VolumeSelected
        <4>1. sel'.vol = 0 BY <2>2, <3>1 DEF v
        <4> QED BY <1>2, <4>1, NothingSelected
      <3>2. CASE VolumeSelected
        <4> SUFFICES ASSUME hits.list.button, ~picked PROVE ButtonInv'
          BY <1>2 DEF ButtonInv
        <4>1. sel.vol # 0 /\ Parts(disks[sel.disk]) # <<>> BY <3>2, VolumeSelectedIs
        <4>2. Selected = Painted BY <4>1 DEF ButtonInv
        <4>3. i \in DOMAIN disks' /\ disks'[i].id = disks[sel.disk].id /\ v = sel.vol
          BY <1>5, <1>7, <3>2 DEF v
        <4>4. VolumeSelected' BY <2>2, <3>2, <4>3 DEF VolumeSelected, PartSelected, Parts
        <4>5. Selected' = Painted' BY <1>2, <2>2, <4>2, <4>3 DEF Selected, Painted
        <4> QED BY <2>2, <4>3, <4>4, <4>5 DEF ButtonInv
      <3> QED BY <3>1, <3>2
    <2> QED BY <2>3, <2>4
  <1> QED BY <1>6, <1>7

LEMMA WheelStep ==
    ASSUME TypesInv, NEW where \in {"side", "list"}, NEW by \in {-1, 1}, Wheel(where, by)
    PROVE  TypesInv'
  <1>1. scroll \in Scrolls BY DEF TypesInv
  <1>2. scroll' = [scroll EXCEPT ![where] = @ + by] /\ UNCHANGED <<disks, sel, screen>>
    BY DEF Wheel
  <1>3. scroll' \in Scrolls
    <2>1. scroll = [side |-> scroll.side, list |-> scroll.list]
          /\ scroll.side \in Int /\ scroll.list \in Int
      BY <1>1 DEF Scrolls
    <2>2. CASE where = "side" BY <1>2, <2>1, <2>2 DEF Scrolls
    <2>3. CASE where = "list" BY <1>2, <2>1, <2>3 DEF Scrolls
    <2> QED BY <2>2, <2>3
  <1> QED BY <1>2, <1>3 DEF TypesInv

LEMMA SidebarInit == Init => SidebarIInv
  <1> SUFFICES ASSUME Init PROVE SidebarIInv OBVIOUS
  <1>1. PICK seen \in SUBSET Range(DriveOrder) :
           disks = [n \in DOMAIN Listed(seen) |-> [id |-> Listed(seen)[n], expanded |-> TRUE]]
    BY DEF Init
  <1>2. /\ sel = FirstSelection /\ scroll = NoScroll /\ hits = NoHits /\ lost
        /\ screen = [disks |-> <<>>, sel |-> FirstSelection, scroll |-> NoScroll]
    BY DEF Init
  <1>3. disks \in Seq(Entries)
    <2> DEFINE L == Listed(seen)
               Q == {n \in DOMAIN DriveOrder : DriveOrder[n] \in seen}
    <2>1. Q \in SUBSET DOMAIN DriveOrder /\ DriveOrder \in Seq(Sources) BY SizesAre
    <2>2. L = Kept(DriveOrder, Q) BY Zenon DEF Listed
    <2> HIDE DEF Q, L
    <2>3. L \in Seq(Sources) BY <2>1, <2>2, KeptIs
    <2>4. \A n \in DOMAIN L : [id |-> L[n], expanded |-> TRUE] \in Entries
      BY <2>3 DEF Entries
    <2>5. disks = [n \in DOMAIN L |-> [id |-> L[n], expanded |-> TRUE]] BY <1>1 DEF L
    <2>6. disks \in [1 .. Len(L) -> Entries]
      <3>1. DOMAIN L = 1 .. Len(L) BY <2>3
      <3> QED BY <2>4, <2>5, <3>1, Zenon
    <2>7. Len(L) \in Nat BY <2>3
    <2> QED BY <2>6, <2>7
  <1>4. FirstSelection \in Selections /\ NoScroll \in Scrolls
    BY DEF FirstSelection, Selections, NoScroll, Scrolls
  <1>5. screen \in [disks : Seq(Entries), sel : Selections, scroll : Scrolls]
    <2> DEFINE T == Seq(Entries)
    <2>1. <<>> \in T OBVIOUS
    <2> HIDE DEF T
    <2>2. screen \in [disks : T, sel : Selections, scroll : Scrolls] BY <1>2, <1>4, <2>1
    <2> QED BY <2>2 DEF T
  <1>6. TypesInv BY <1>2, <1>3, <1>4, <1>5 DEF TypesInv
  <1>7. HitsInv
    <2>1. screen.disks = <<>> BY <1>2
    <2>2. ListLength(screen.disks, screen.sel) = 0 BY <2>1 DEF ListLength
    <2> QED BY <1>2, <2>2 DEF HitsInv
  <1>8. ButtonInv
    <2>1. sel.vol = 0 BY <1>2 DEF FirstSelection
    <2> QED BY <2>1 DEF ButtonInv
  <1> QED BY <1>6, <1>7, <1>8 DEF SidebarIInv

LEMMA SidebarStep == SidebarIInv /\ [Next]_vars => SidebarIInv'
  <1> SUFFICES ASSUME SidebarIInv, [Next]_vars PROVE SidebarIInv' OBVIOUS
  <1> USE DEF SidebarIInv
  <1>1. CASE Paint BY <1>1, PaintStep
  <1>2. CASE PaintLost BY <1>2, PaintLostStep
  <1>3. ASSUME NEW target \in {Under(p) : p \in Points} \ {<<"none">>}, Click(target)
        PROVE  SidebarIInv'
    <2>1. PICK p \in Points : target = Under(p) BY <1>3
    <2>2. Clicked /\ UNCHANGED <<scroll, hits, screen, lost>> BY <1>3, <2>1, ClickIs
    <2>3. disks' \in Seq(Entries) /\ sel' \in Selections /\ ButtonInv'
      <3>1. CASE UNCHANGED <<disks, sel, picked>>
        BY <2>2, <3>1
           DEF TypesInv, ButtonInv, Parts, VolumeSelected, PartSelected, Selected, Painted
      <3>2. CASE \E img \in Images : AddDisk(img) BY <2>2, <3>2, AddStep
      <3>3. CASE \E i \in DOMAIN disks : RemoveDisk(i) BY <2>2, <3>3, RemoveStep
      <3>4. CASE \E i \in DOMAIN disks : ToggleExpanded(i) BY <2>2, <3>4, ToggleStep
      <3>5. CASE \E d, q \in Int : SelectPartition(d, q)
        BY <2>2, <3>5, SelectPartitionStep
      <3>6. CASE \E v \in Nat : SelectVolume(v) BY <2>2, <3>6, SelectVolumeStep
      <3> QED BY <2>2, <3>1, <3>2, <3>3, <3>4, <3>5, <3>6 DEF Clicked
    <2>4. TypesInv' BY <2>2, <2>3 DEF TypesInv
    <2>5. HitsInv' BY <2>2, HitsFrame DEF SameHits
    <2> QED BY <2>3, <2>4, <2>5
  <1>4. ASSUME NEW where \in {"side", "list"}, NEW by \in {-1, 1}, Wheel(where, by)
        PROVE  SidebarIInv'
    <2>1. UNCHANGED <<disks, sel, hits, screen, lost, picked>> BY <1>4 DEF Wheel
    <2>2. TypesInv' BY <1>4, WheelStep
    <2>3. HitsInv' BY <2>1, HitsFrame DEF SameHits
    <2>4. ButtonInv'
      BY <2>1 DEF ButtonInv, Parts, VolumeSelected, PartSelected, Selected, Painted
    <2> QED BY <2>2, <2>3, <2>4
  <1>5. ASSUME NEW seen \in SUBSET Range(DriveOrder), Rescan(seen) PROVE SidebarIInv'
    <2>1. UNCHANGED <<hits, screen, lost>> BY <1>5, Zenon DEF Rescan
    <2>2. HitsInv' BY <2>1, HitsFrame DEF SameHits
    <2> QED BY <1>5, <2>2, RescanStep
  <1>6. CASE UNCHANGED vars
    <2>1. UNCHANGED <<disks, sel, scroll, hits, screen, lost, picked>> BY <1>6 DEF vars
    <2> QED BY <2>1
         DEF TypesInv, HitsInv, LayoutOf, ButtonInv, Parts, VolumeSelected, PartSelected,
             Selected, Painted
  <1> QED BY <1>1, <1>2, <1>3, <1>4, <1>5, <1>6, Zenon DEF Next, Message

-----------------------------------------------------------------------------
(* The lines of the sidebar *)

\* Where the rows end.
LEMMA TopGrows ==
    ASSUME NEW list \in Seq(Entries), NEW d \in 1 .. Len(list), NEW e \in d + 1 .. Len(list) + 1
    PROVE  Top(list, d + 1) <= Top(list, e)
  <1> DEFINE n == Len(list)
             G == {m \in d + 1 .. n + 1 : Top(list, d + 1) <= Top(list, m)}
  <1>1. n \in Nat /\ d \in Nat /\ d + 1 \in Nat /\ n + 1 \in Nat OBVIOUS
  <1>2. /\ \A m \in 1 .. n + 1 : Top(list, m) \in Nat
        /\ \A m \in 1 .. n :
              /\ PartHeight * Shown(list, m) \in Nat
              /\ Top(list, m + 1) = Top(list, m) + RowHeight + PartHeight * Shown(list, m)
    BY TopIs
  <1>3. RowHeight \in Nat BY SizesAre
  <1>0. d \in 1 .. n /\ d + 1 \in 1 .. n + 1 /\ d + 1 \in d + 1 .. n + 1 BY <1>1
  <1> HIDE DEF n
  <1>4. d + 1 \in G
    <2>1. Top(list, d + 1) \in Nat BY <1>0, <1>2
    <2> QED BY <1>0, <2>1
  <1>5. \A m \in d + 1 .. (n + 1) - 1 : m \in G => m + 1 \in G
    <2> SUFFICES ASSUME NEW m \in d + 1 .. (n + 1) - 1, m \in G PROVE m + 1 \in G OBVIOUS
    <2>1. m \in 1 .. n /\ m \in 1 .. n + 1 /\ m + 1 \in d + 1 .. n + 1 BY <1>1
    <2> DEFINE x == PartHeight * Shown(list, m)
    <2>2. /\ x \in Nat /\ Top(list, m) \in Nat /\ Top(list, d + 1) \in Nat
          /\ Top(list, m + 1) = Top(list, m) + RowHeight + x
      BY <1>0, <1>2, <2>1
    <2>3. Top(list, d + 1) <= Top(list, m) OBVIOUS
    <2> HIDE DEF x
    <2>4. Top(list, d + 1) <= Top(list, m + 1) BY <1>3, <2>2, <2>3
    <2> QED BY <2>1, <2>4
  <1>6. \A m \in d + 1 .. n + 1 : m \in G
    <2> HIDE DEF G
    <2> QED BY <1>1, <1>4, <1>5, UpTo
  <1> QED BY <1>6 DEF n

\* Whose line it is, of the lines that are counted from 1.
InRow(list, d, line) == Top(list, d) < line /\ line <= Top(list, d) + RowHeight
InParts(list, d, line) == Top(list, d) + RowHeight < line /\ line <= Top(list, d + 1)
InAdd(list, line) ==
    Top(list, Len(list) + 1) < line /\ line <= Top(list, Len(list) + 1) + RowHeight

\* A line is of one disk.
LEMMA LinesApart ==
    ASSUME NEW list \in Seq(Entries), NEW d \in 1 .. Len(list), NEW line \in Int
    PROVE  /\ \A e \in 1 .. Len(list) : InRow(list, d, line) /\ InRow(list, e, line) => d = e
           /\ \A e \in 1 .. Len(list) : ~(InRow(list, d, line) /\ InParts(list, e, line))
           /\ \A e \in 1 .. Len(list) : InParts(list, d, line) /\ InParts(list, e, line) => d = e
           /\ ~(InRow(list, d, line) /\ InAdd(list, line))
           /\ ~(InParts(list, d, line) /\ InAdd(list, line))
  <1> DEFINE n == Len(list)
             T(m) == Top(list, m)
  <1>1. n \in Nat /\ RowHeight \in Nat BY SizesAre
  <1>2. /\ \A m \in 1 .. n + 1 : T(m) \in Nat
        /\ \A m \in 1 .. n : T(m) + RowHeight <= T(m + 1)
    <2>1. \A m \in 1 .. n + 1 : T(m) \in Nat BY TopIs
    <2>2. ASSUME NEW m \in 1 .. n PROVE T(m) + RowHeight <= T(m + 1)
      <3> DEFINE x == PartHeight * Shown(list, m)
      <3>1. x \in Nat /\ T(m + 1) = T(m) + RowHeight + x BY TopIs
      <3>2. T(m) \in Nat
        <4>1. m \in 1 .. n + 1 BY <1>1
        <4> QED BY <2>1, <4>1
      <3> HIDE DEF x, T
      <3> QED BY <1>1, <3>1, <3>2
    <2> QED BY <2>1, <2>2
  <1>3. \A l \in 1 .. n, m \in 1 .. n + 1 : l < m => T(l + 1) <= T(m)
    <2> SUFFICES ASSUME NEW l \in 1 .. n, NEW m \in 1 .. n + 1, l < m PROVE T(l + 1) <= T(m)
      OBVIOUS
    <2>1. m \in l + 1 .. n + 1 BY <1>1
    <2> QED BY <2>1, TopGrows
  <1> HIDE DEF n, T
  <1>4. /\ \A m : InRow(list, m, line) <=> T(m) < line /\ line <= T(m) + RowHeight
        /\ \A m : InParts(list, m, line) <=> T(m) + RowHeight < line /\ line <= T(m + 1)
        /\ InAdd(list, line) <=> T(n + 1) < line /\ line <= T(n + 1) + RowHeight
    BY DEF InRow, InParts, InAdd, n, T
  <1>5. d \in 1 .. n BY DEF n
  <1>6. d \in 1 .. n + 1 /\ d + 1 \in 1 .. n + 1 /\ n + 1 \in 1 .. n + 1 /\ d < n + 1
    BY <1>1, <1>5 DEF n
  <1>7. /\ T(d) \in Nat /\ T(d + 1) \in Nat /\ T(n + 1) \in Nat
        /\ T(d) + RowHeight <= T(d + 1) /\ T(d + 1) <= T(n + 1)
    BY <1>2, <1>3, <1>5, <1>6
  <1>8. /\ ~(InRow(list, d, line) /\ InAdd(list, line))
        /\ ~(InParts(list, d, line) /\ InAdd(list, line))
    BY <1>1, <1>4, <1>7
  <1>9. ASSUME NEW e \in 1 .. n
        PROVE  /\ InRow(list, d, line) /\ InRow(list, e, line) => d = e
               /\ ~(InRow(list, d, line) /\ InParts(list, e, line))
               /\ InParts(list, d, line) /\ InParts(list, e, line) => d = e
    <2>1. e \in 1 .. n + 1 /\ e + 1 \in 1 .. n + 1 BY <1>1, <1>9 DEF n
    <2>2. T(e) \in Nat /\ T(e + 1) \in Nat /\ T(e) + RowHeight <= T(e + 1)
      BY <1>2, <1>9, <2>1
    <2>3. d < e => T(d + 1) <= T(e) BY <1>3, <1>5, <2>1
    <2>4. e < d => T(e + 1) <= T(d) BY <1>3, <1>6, <1>9
    <2>5. d < e \/ e < d \/ d = e BY <1>5, <1>9
    <2>6. CASE d < e BY <1>1, <1>4, <1>7, <2>2, <2>3, <2>6
    <2>7. CASE e < d BY <1>1, <1>4, <1>7, <2>2, <2>4, <2>7
    <2>8. CASE d = e BY <1>1, <1>4, <1>7, <2>8
    <2> QED BY <2>5, <2>6, <2>7, <2>8
  <1> QED BY <1>8, <1>9 DEF n

\* Every line is of a disk or of the button below, or outside.
LEMMA LinesCovered ==
    ASSUME NEW list \in Seq(Entries), NEW line \in Int, line > 0,
           line <= Top(list, Len(list) + 1) + RowHeight
    PROVE  \/ \E d \in 1 .. Len(list) : InRow(list, d, line) \/ InParts(list, d, line)
           \/ InAdd(list, line)
  <1> DEFINE n == Len(list)
             Found(m) == line <= Top(list, m) =>
                            \E d \in 1 .. n : InRow(list, d, line) \/ InParts(list, d, line)
             G == {m \in 1 .. n + 1 : Found(m)}
  <1>1. n \in Nat /\ RowHeight \in Nat BY SizesAre
  <1>2. (\A m \in 1 .. n + 1 : Top(list, m) \in Nat) /\ Top(list, 1) = 0 BY TopIs
  <1> HIDE DEF n
  <1>3. 1 \in G
    <2>1. ~(line <= Top(list, 1)) BY <1>2
    <2> QED BY <1>1, <2>1
  <1>4. \A m \in 1 .. (n + 1) - 1 : m \in G => m + 1 \in G
    <2> SUFFICES ASSUME NEW m \in 1 .. (n + 1) - 1, m \in G PROVE m + 1 \in G OBVIOUS
    <2>1. m \in 1 .. n /\ m \in 1 .. n + 1 /\ m + 1 \in 1 .. n + 1 BY <1>1
    <2>2. Top(list, m) \in Nat /\ Top(list, m + 1) \in Nat BY <1>2, <2>1
    <2>3. CASE line <= Top(list, m)
      <3>1. Found(m) OBVIOUS
      <3>2. \E d \in 1 .. n : InRow(list, d, line) \/ InParts(list, d, line) BY <2>3, <3>1
      <3> QED BY <2>1, <3>2
    <2>4. CASE line > Top(list, m)
      <3>1. Found(m + 1)
        <4> SUFFICES ASSUME line <= Top(list, m + 1)
                     PROVE  InRow(list, m, line) \/ InParts(list, m, line)
          BY <2>1
        <4>1. line <= Top(list, m) + RowHeight \/ Top(list, m) + RowHeight < line
          BY <1>1, <2>2
        <4> QED BY <2>4, <4>1 DEF InRow, InParts
      <3> QED BY <2>1, <3>1
    <2> QED BY <2>2, <2>3, <2>4
  <1>5. \A m \in 1 .. n + 1 : m \in G
    <2> HIDE DEF G
    <2>1. 1 \in Nat /\ n + 1 \in Nat BY <1>1
    <2> QED BY <1>3, <1>4, <2>1, UpTo
  <1>6. n + 1 \in 1 .. n + 1 BY <1>1
  <1>7. Found(n + 1) BY <1>5, <1>6
  <1>8. Top(list, n + 1) \in Nat BY <1>2, <1>6
  <1>9. line <= Top(list, n + 1) \/ (Top(list, n + 1) < line /\ line <= Top(list, n + 1) + RowHeight)
    BY <1>8 DEF n
  <1> QED BY <1>7, <1>9 DEF InAdd, n

-----------------------------------------------------------------------------
(* The sidebar as it looks *)

Targets == ({"closable", "row"} \X Int) \cup ({"part"} \X (Int \X Int)) \cup {<<"add">>}
DiskLines(d) == RowLines(d) \o PartLines(d)
RowsShown(d) == PartHeight * Shown(screen.disks, d)

\* A function on the numbers up to n is a sequence.
LEMMA FunctionsAreSequences ==
    ASSUME NEW n \in Nat, NEW S, NEW f \in [1 .. n -> S]
    PROVE  f \in Seq(S) /\ Len(f) = n /\ DOMAIN f = 1 .. n
  OBVIOUS

\* Two sequences in a row.
LEMMA InARow ==
    ASSUME NEW S, NEW s \in Seq(S), NEW t \in Seq(S)
    PROVE  /\ s \o t \in Seq(S) /\ Len(s \o t) = Len(s) + Len(t)
           /\ \A k \in 1 .. Len(s) : (s \o t)[k] = s[k]
           /\ \A k \in 1 .. Len(t) : (s \o t)[Len(s) + k] = t[k]
  OBVIOUS

LEMMA DiskLinesAre ==
    ASSUME TypesInv, NEW d \in 1 .. Len(screen.disks)
    PROVE  /\ DiskLines(d) \in Seq(Targets) /\ RowsShown(d) \in Nat
           /\ Len(DiskLines(d)) = RowHeight + RowsShown(d)
           /\ DiskLines(d)[1] = <<IF screen.disks[d].id \in Images THEN "closable" ELSE "row", d>>
           /\ \A k \in 2 .. RowHeight : DiskLines(d)[k] = <<"row", d>>
           /\ \A k \in 1 .. RowsShown(d) :
                 DiskLines(d)[RowHeight + k] = <<"part", <<d, (k - 1) \div PartHeight + 1>>>>
  <1> DEFINE list == screen.disks
             first == <<IF list[d].id \in Images THEN "closable" ELSE "row", d>>
             more == Times(RowHeight - 1, <<"row", d>>)
             parts == PartLines(d)
             m == RowsShown(d)
  <1>1. list \in Seq(Entries) BY DEF TypesInv
  <1>2. RowHeight \in Nat /\ RowHeight - 1 \in Nat /\ PartHeight \in Nat /\ PartHeight > 0
    BY SizesAre
  <1>3. d \in Int /\ first \in Targets /\ <<"row", d>> \in Targets BY DEF Targets
  <1>4. m \in Nat
    <2>1. PartHeight * Shown(list, d) \in Nat BY <1>1, TopIs
    <2> QED BY <2>1 DEF RowsShown
  <1>5. /\ parts \in Seq(Targets) /\ Len(parts) = m
        /\ \A k \in 1 .. m : parts[k] = <<"part", <<d, (k - 1) \div PartHeight + 1>>>>
    <2>1. m = IF list[d].expanded THEN PartHeight * Len(Parts(list[d])) ELSE 0
      <3>1. PartHeight * 0 = 0 BY <1>2
      <3> QED BY <3>1 DEF RowsShown, Shown
    <2>2. parts = [k \in 1 .. m |-> <<"part", <<d, (k - 1) \div PartHeight + 1>>>>]
      BY <2>1, Zenon DEF PartLines
    <2>3. ASSUME NEW k \in 1 .. m PROVE <<"part", <<d, (k - 1) \div PartHeight + 1>>>> \in Targets
      <3>1. k - 1 \in Int BY <1>4
      <3>2. (k - 1) \div PartHeight + 1 \in Int
        <4> DEFINE x == k - 1
        <4>1. x \in Int BY <3>1
        <4> HIDE DEF x
        <4>2. x \div PartHeight \in Int BY <1>2, <4>1
        <4> QED BY <4>2 DEF x
      <3> DEFINE y == (k - 1) \div PartHeight + 1
      <3> HIDE DEF y
      <3> QED BY <1>3, <3>2 DEF Targets, y
    <2> HIDE DEF m
    <2>4. parts \in [1 .. m -> Targets] BY <2>2, <2>3
    <2>5. parts \in Seq(Targets) /\ Len(parts) = m BY <1>4, <2>4, FunctionsAreSequences
    <2> QED BY <2>2, <2>5
  <1>6. /\ more \in Seq(Targets) /\ Len(more) = RowHeight - 1
        /\ \A k \in 1 .. RowHeight - 1 : more[k] = <<"row", d>>
    <2> DEFINE r == <<"row", d>>
               n == RowHeight - 1
    <2>0. more = [k \in 1 .. n |-> r] BY DEF Times
    <2>1. r \in Targets /\ n \in Nat BY <1>2, <1>3
    <2> HIDE DEF r, n, more
    <2>2. more \in [1 .. n -> Targets] BY <2>0, <2>1
    <2>3. more \in Seq(Targets) /\ Len(more) = n BY <2>1, <2>2, FunctionsAreSequences
    <2>4. \A k \in 1 .. n : more[k] = r BY <2>0
    <2> QED BY <2>3, <2>4 DEF r, n
  <1>7. DiskLines(d) = (<<first>> \o more) \o parts BY DEF DiskLines, RowLines
  <1> HIDE DEF first, more, parts, m
  <1> DEFINE row == <<first>> \o more
  <1>8. /\ row \in Seq(Targets) /\ Len(row) = RowHeight /\ row[1] = first
        /\ \A k \in 2 .. RowHeight : row[k] = <<"row", d>>
    <2>1. <<first>> \in Seq(Targets) /\ Len(<<first>>) = 1 /\ <<first>>[1] = first BY <1>3
    <2>2. /\ row \in Seq(Targets) /\ Len(row) = Len(<<first>>) + Len(more)
          /\ \A k \in 1 .. Len(<<first>>) : row[k] = <<first>>[k]
          /\ \A k \in 1 .. Len(more) : row[Len(<<first>>) + k] = more[k]
      BY <1>6, <2>1, InARow
    <2> HIDE DEF row
    <2>3. \A k \in 1 .. RowHeight - 1 : row[1 + k] = more[k] BY <1>6, <2>1, <2>2
    <2>4. ASSUME NEW k \in 2 .. RowHeight PROVE row[k] = <<"row", d>>
      <3>1. k - 1 \in 1 .. RowHeight - 1 /\ 1 + (k - 1) = k BY <1>2
      <3> QED BY <1>6, <2>3, <3>1
    <2>5. row[1] = first BY <2>1, <2>2
    <2>6. Len(row) = RowHeight BY <1>2, <1>6, <2>1, <2>2
    <2> QED BY <2>2, <2>4, <2>5, <2>6
  <1> HIDE DEF row
  <1>9. /\ row \o parts \in Seq(Targets) /\ Len(row \o parts) = Len(row) + Len(parts)
        /\ \A k \in 1 .. Len(row) : (row \o parts)[k] = row[k]
        /\ \A k \in 1 .. Len(parts) : (row \o parts)[Len(row) + k] = parts[k]
    <2>1. row \in Seq(Targets) /\ parts \in Seq(Targets) BY <1>5, <1>8
    <2> QED BY <2>1, InARow
  <1>10. DiskLines(d) = row \o parts BY <1>7 DEF row
  <1>11. 1 \in 1 .. RowHeight /\ \A k \in 2 .. RowHeight : k \in 1 .. RowHeight BY <1>2
  <1>12. /\ DiskLines(d)[1] = first
         /\ \A k \in 2 .. RowHeight : DiskLines(d)[k] = <<"row", d>>
    BY <1>8, <1>9, <1>10, <1>11
  <1>13. /\ DiskLines(d) \in Seq(Targets) /\ Len(DiskLines(d)) = RowHeight + m
         /\ \A k \in 1 .. m :
               DiskLines(d)[RowHeight + k] = <<"part", <<d, (k - 1) \div PartHeight + 1>>>>
    BY <1>5, <1>8, <1>9, <1>10
  <1> QED BY <1>4, <1>12, <1>13 DEF first, m

LEMMA LinesToRecur ==
    ASSUME TypesInv
    PROVE  /\ \A d \in 0 .. Len(screen.disks) : LinesTo[d] \in Seq(Targets)
           /\ LinesTo[0] = <<>>
           /\ \A d \in 1 .. Len(screen.disks) : LinesTo[d] = LinesTo[d - 1] \o DiskLines(d)
  <1> DEFINE n == Len(screen.disks)
             S == Seq(Targets)
             step == [p \in S \X (0 .. n) |-> IF p[2] \in 1 .. n THEN p[1] \o DiskLines(p[2]) ELSE <<>>]
             to == LinesTo
  <1>1. n \in Nat BY DEF TypesInv
  <1>2. \A d \in 1 .. n : DiskLines(d) \in S BY DiskLinesAre
  <1>3. <<>> \in S OBVIOUS
  <1>4. \A s, t \in S : s \o t \in S OBVIOUS
  <1> HIDE DEF n, S
  <1>6. step \in [S \X (0 .. n) -> S]
    <2>1. ASSUME NEW p \in S \X (0 .. n)
          PROVE  (IF p[2] \in 1 .. n THEN p[1] \o DiskLines(p[2]) ELSE <<>>) \in S
      <3>1. p[1] \in S OBVIOUS
      <3>2. CASE p[2] \in 1 .. n BY <1>2, <1>4, <3>1, <3>2
      <3>3. CASE p[2] \notin 1 .. n BY <1>3, <3>3
      <3> QED BY <3>2, <3>3
    <2> QED BY <2>1
  <1>7. \A s \in S, d \in 1 .. n : step[<<s, d>>] = s \o DiskLines(d)
    <2> SUFFICES ASSUME NEW s \in S, NEW d \in 1 .. n PROVE step[<<s, d>>] = s \o DiskLines(d)
      OBVIOUS
    <2>1. <<s, d>> \in S \X (0 .. n) /\ <<s, d>>[1] = s /\ <<s, d>>[2] = d BY <1>1
    <2> QED BY <2>1
  <1> HIDE DEF step
  <1>8. PICK f \in [0 .. n -> S] : Recurs(f, 0, n, <<>>, step)
    <2>1. 0 \in Nat /\ 0 <= n BY <1>1
    <2>2. HasRecursion(0, n, S, <<>>, step) BY <1>1, <1>3, <1>6, <2>1, Recursion
    <2> QED BY <2>2 DEF HasRecursion
  <1>9. f = [d \in 0 .. n |-> IF d = 0 THEN <<>> ELSE f[d - 1] \o DiskLines(d)]
    <2>1. ASSUME NEW d \in 0 .. n PROVE f[d] = IF d = 0 THEN <<>> ELSE f[d - 1] \o DiskLines(d)
      <3>1. f[d] = IF d = 0 THEN <<>> ELSE step[<<f[d - 1], d>>] BY <1>8 DEF Recurs
      <3>2. d # 0 => d \in 1 .. n /\ f[d - 1] \in S BY <1>1, <1>8
      <3> QED BY <1>7, <3>1, <3>2
    <2> QED BY <1>8, <2>1
  <1>10. to = [d \in 0 .. n |-> IF d = 0 THEN <<>> ELSE to[d - 1] \o DiskLines(d)]
    BY <1>9, Zenon DEF LinesTo, DiskLines, n
  <1> HIDE DEF to
  <1>11. /\ to[0] = <<>>
         /\ \A d \in 1 .. n : to[d] = to[d - 1] \o DiskLines(d) /\ d - 1 \in 0 .. n
    <2>1. 0 \in 0 .. n BY <1>1
    <2>2. \A d \in 1 .. n : d \in 0 .. n /\ d # 0 /\ d - 1 \in 0 .. n BY <1>1
    <2>3. to[0] = <<>> BY <1>10, <2>1
    <2>4. ASSUME NEW d \in 1 .. n PROVE to[d] = to[d - 1] \o DiskLines(d)
      <3>1. d \in 0 .. n /\ d # 0 BY <2>2
      <3> QED BY <1>10, <3>1, Zenon
    <2> QED BY <2>2, <2>3, <2>4
  <1> DEFINE G == {d \in 0 .. n : to[d] \in S}
  <1>12. 0 \in G BY <1>1, <1>3, <1>11
  <1>13. \A d \in 0 .. n - 1 : d \in G => d + 1 \in G
    <2> SUFFICES ASSUME NEW d \in 0 .. n - 1, d \in G PROVE d + 1 \in G OBVIOUS
    <2>1. d + 1 \in 1 .. n /\ d + 1 \in 0 .. n /\ (d + 1) - 1 = d BY <1>1
    <2>2. to[d + 1] = to[d] \o DiskLines(d + 1) BY <1>11, <2>1
    <2> QED BY <1>2, <1>4, <2>1, <2>2
  <1>14. \A d \in 0 .. n : d \in G
    <2> HIDE DEF G
    <2> QED BY <1>1, <1>12, <1>13, UpTo
  <1> QED BY <1>11, <1>14 DEF n, S, to

\* The lines down to a disk end where the next one begins, and stay.
LEMMA LinesToAre ==
    ASSUME TypesInv
    PROVE  /\ \A d \in 0 .. Len(screen.disks) : Len(LinesTo[d]) = Top(screen.disks, d + 1)
           /\ \A d \in 0 .. Len(screen.disks) : \A l \in 1 .. Top(screen.disks, d + 1) :
                 LinesTo[Len(screen.disks)][l] = LinesTo[d][l]
  <1> DEFINE list == screen.disks
             n == Len(list)
             to == LinesTo
             end(d) == Top(list, d + 1)
  <1>1. list \in Seq(Entries) /\ n \in Nat BY DEF TypesInv
  <1>2. /\ \A d \in 0 .. n : to[d] \in Seq(Targets)
        /\ to[0] = <<>>
        /\ \A d \in 1 .. n : to[d] = to[d - 1] \o DiskLines(d)
    BY LinesToRecur
  <1>3. \A d \in 1 .. n : /\ DiskLines(d) \in Seq(Targets) /\ RowsShown(d) \in Nat
                          /\ Len(DiskLines(d)) = RowHeight + RowsShown(d)
    BY DiskLinesAre
  <1>4. /\ \A d \in 0 .. n : end(d) \in Nat
        /\ end(0) = 0
        /\ \A d \in 1 .. n : end(d) = end(d - 1) + RowHeight + RowsShown(d)
    <2>1. /\ \A d \in 1 .. n + 1 : Top(list, d) \in Nat
          /\ Top(list, 1) = 0
          /\ \A d \in 1 .. n : Top(list, d + 1) = Top(list, d) + RowHeight + RowsShown(d)
      BY <1>1, TopIs DEF RowsShown
    <2>2. \A d \in 0 .. n : d + 1 \in 1 .. n + 1 BY <1>1
    <2>3. \A d \in 1 .. n : (d - 1) + 1 = d BY <1>1
    <2>4. 0 + 1 = 1 OBVIOUS
    <2> QED BY <2>1, <2>2, <2>3, <2>4
  <1>5. RowHeight \in Nat BY SizesAre
  <1> HIDE DEF n, to, end, list
  <1> DEFINE G == {d \in 0 .. n : Len(to[d]) = end(d)}
  <1>6. 0 \in G BY <1>1, <1>2, <1>4
  <1>7. \A d \in 0 .. n - 1 : d \in G => d + 1 \in G
    <2> SUFFICES ASSUME NEW d \in 0 .. n - 1, d \in G PROVE d + 1 \in G OBVIOUS
    <2>1. d \in 0 .. n /\ d + 1 \in 1 .. n /\ d + 1 \in 0 .. n /\ (d + 1) - 1 = d BY <1>1
    <2>2. /\ to[d + 1] = to[d] \o DiskLines(d + 1) /\ to[d] \in Seq(Targets)
          /\ end(d + 1) = end(d) + RowHeight + RowsShown(d + 1)
          /\ DiskLines(d + 1) \in Seq(Targets) /\ RowsShown(d + 1) \in Nat
          /\ Len(DiskLines(d + 1)) = RowHeight + RowsShown(d + 1)
          /\ end(d) \in Nat
      BY <1>2, <1>3, <1>4, <2>1
    <2>3. Len(to[d + 1]) = Len(to[d]) + Len(DiskLines(d + 1)) BY <2>2, InARow
    <2>4. Len(to[d]) = end(d) OBVIOUS
    <2>5. Len(to[d + 1]) = end(d + 1)
      <3> DEFINE r == RowsShown(d + 1)
                 e == end(d)
      <3>1. /\ r \in Nat /\ e \in Nat /\ end(d + 1) = (e + RowHeight) + r
            /\ Len(to[d + 1]) = e + (RowHeight + r)
        BY <2>2, <2>3, <2>4
      <3> HIDE DEF r, e
      <3> QED BY <1>5, <3>1
    <2> QED BY <2>1, <2>5
  <1>8. \A d \in 0 .. n : d \in G
    <2> HIDE DEF G
    <2> QED BY <1>1, <1>6, <1>7, UpTo
  <1>9. ASSUME NEW d \in 0 .. n, NEW l \in 1 .. end(d) PROVE to[n][l] = to[d][l]
    <2> DEFINE H == {m \in d .. n : end(d) <= end(m) /\ to[m][l] = to[d][l]}
    <2>1. d \in Nat /\ d \in d .. n /\ end(d) \in Nat /\ n \in d .. n BY <1>1, <1>4
    <2>2. d \in H BY <2>1
    <2>3. \A m \in d .. n - 1 : m \in H => m + 1 \in H
      <3> SUFFICES ASSUME NEW m \in d .. n - 1, m \in H PROVE m + 1 \in H OBVIOUS
      <3>1. m \in 0 .. n /\ m + 1 \in 1 .. n /\ m + 1 \in d .. n /\ (m + 1) - 1 = m
        BY <1>1, <2>1
      <3>2. /\ to[m + 1] = to[m] \o DiskLines(m + 1) /\ to[m] \in Seq(Targets)
            /\ end(m + 1) = end(m) + RowHeight + RowsShown(m + 1)
            /\ DiskLines(m + 1) \in Seq(Targets) /\ RowsShown(m + 1) \in Nat
            /\ end(m) \in Nat
        BY <1>2, <1>3, <1>4, <3>1
      <3>3. Len(to[m]) = end(m) /\ end(d) <= end(m) /\ to[m][l] = to[d][l] BY <1>8, <3>1
      <3>4. \A k \in 1 .. Len(to[m]) : to[m + 1][k] = to[m][k]
        <4> DEFINE s == to[m]
                   t == DiskLines(m + 1)
        <4>1. to[m + 1] = s \o t /\ s \in Seq(Targets) /\ t \in Seq(Targets) BY <3>2
        <4> HIDE DEF s, t
        <4>2. \A k \in 1 .. Len(s) : (s \o t)[k] = s[k] BY <4>1, InARow
        <4> QED BY <4>1, <4>2 DEF s
      <3>5. l \in 1 .. Len(to[m]) BY <2>1, <3>2, <3>3
      <3>6. to[m + 1][l] = to[d][l] BY <3>3, <3>4, <3>5
      <3>7. end(d) <= end(m + 1) BY <1>5, <2>1, <3>2, <3>3
      <3> QED BY <3>1, <3>6, <3>7
    <2>4. \A m \in d .. n : m \in H
      <3> HIDE DEF H
      <3> QED BY <1>1, <2>1, <2>2, <2>3, UpTo
    <2>5. n \in H BY <2>1, <2>4
    <2> QED BY <2>5
  <1> QED BY <1>8, <1>9 DEF n, to, end, list

\* The lines are those of the disks in a row, and of the button below.
LEMMA LinesAre ==
    ASSUME TypesInv
    PROVE  /\ Lines \in Seq(Targets)
           /\ Len(Lines) = Top(screen.disks, Len(screen.disks) + 1) + RowHeight
           /\ \A d \in 1 .. Len(screen.disks) : \A k \in 1 .. RowHeight + RowsShown(d) :
                 Lines[Top(screen.disks, d) + k] = DiskLines(d)[k]
           /\ \A k \in 1 .. RowHeight :
                 Lines[Top(screen.disks, Len(screen.disks) + 1) + k] = <<"add">>
  <1> DEFINE list == screen.disks
             n == Len(list)
             to == LinesTo
             end(d) == Top(list, d + 1)
             add == Times(RowHeight, <<"add">>)
  <1>1. list \in Seq(Entries) /\ n \in Nat BY DEF TypesInv
  <1>2. /\ \A d \in 0 .. n : to[d] \in Seq(Targets)
        /\ \A d \in 1 .. n : to[d] = to[d - 1] \o DiskLines(d)
    BY LinesToRecur
  <1>3. /\ \A d \in 0 .. n : Len(to[d]) = end(d)
        /\ \A d \in 0 .. n : \A l \in 1 .. end(d) : to[n][l] = to[d][l]
    BY LinesToAre
  <1>4. \A d \in 1 .. n : /\ DiskLines(d) \in Seq(Targets) /\ RowsShown(d) \in Nat
                          /\ Len(DiskLines(d)) = RowHeight + RowsShown(d)
    BY DiskLinesAre
  <1>5. /\ \A d \in 0 .. n : end(d) \in Nat
        /\ \A d \in 1 .. n : /\ Top(list, d) = end(d - 1)
                             /\ end(d) = end(d - 1) + RowHeight + RowsShown(d)
    <2>1. /\ \A d \in 1 .. n + 1 : Top(list, d) \in Nat
          /\ \A d \in 1 .. n : Top(list, d + 1) = Top(list, d) + RowHeight + RowsShown(d)
      BY <1>1, TopIs DEF RowsShown
    <2>2. \A d \in 0 .. n : d + 1 \in 1 .. n + 1 BY <1>1
    <2>3. \A d \in 1 .. n : (d - 1) + 1 = d BY <1>1
    <2> QED BY <2>1, <2>2, <2>3
  <1>6. RowHeight \in Nat BY SizesAre
  <1>7. /\ add \in Seq(Targets) /\ Len(add) = RowHeight
        /\ \A k \in 1 .. RowHeight : add[k] = <<"add">>
    <2> DEFINE r == <<"add">>
    <2>0. add = [k \in 1 .. RowHeight |-> r] BY DEF Times
    <2>1. r \in Targets BY DEF Targets
    <2> HIDE DEF r, add
    <2>2. add \in [1 .. RowHeight -> Targets] BY <2>0, <2>1
    <2>3. add \in Seq(Targets) /\ Len(add) = RowHeight BY <1>6, <2>2, FunctionsAreSequences
    <2> QED BY <2>0, <2>3 DEF r
  <1>8. Lines = to[n] \o add BY DEF Lines
  <1>9. \A d \in 1 .. n : Top(list, d) = end(d - 1) BY <1>5
  <1>10. Top(list, n + 1) = end(n) OBVIOUS
  <1> HIDE DEF n, to, end, add, list
  <1>11. n \in 0 .. n /\ to[n] \in Seq(Targets) /\ Len(to[n]) = end(n) BY <1>1, <1>2, <1>3
  <1>12. /\ Lines \in Seq(Targets) /\ Len(Lines) = end(n) + RowHeight
         /\ \A k \in 1 .. end(n) : Lines[k] = to[n][k]
         /\ \A k \in 1 .. RowHeight : Lines[end(n) + k] = add[k]
    <2>1. to[n] \in Seq(Targets) /\ add \in Seq(Targets) BY <1>7, <1>11
    <2>2. /\ to[n] \o add \in Seq(Targets) /\ Len(to[n] \o add) = Len(to[n]) + Len(add)
          /\ \A k \in 1 .. Len(to[n]) : (to[n] \o add)[k] = to[n][k]
          /\ \A k \in 1 .. Len(add) : (to[n] \o add)[Len(to[n]) + k] = add[k]
      BY <2>1, InARow
    <2> QED BY <1>7, <1>8, <1>11, <2>2
  <1>13. ASSUME NEW d \in 1 .. n, NEW k \in 1 .. RowHeight + RowsShown(d)
         PROVE  Lines[Top(list, d) + k] = DiskLines(d)[k]
    <2> DEFINE l == end(d - 1) + k
    <2>1. d - 1 \in 0 .. n /\ d \in 0 .. n BY <1>1
    <2>2. /\ to[d] = to[d - 1] \o DiskLines(d) /\ to[d - 1] \in Seq(Targets)
          /\ DiskLines(d) \in Seq(Targets) /\ RowsShown(d) \in Nat
          /\ Len(DiskLines(d)) = RowHeight + RowsShown(d)
          /\ Len(to[d - 1]) = end(d - 1)
          /\ end(d - 1) \in Nat /\ end(d) \in Nat
          /\ end(d) = end(d - 1) + RowHeight + RowsShown(d)
          /\ to[d] \in Seq(Targets) /\ Len(to[d]) = end(d)
      BY <1>2, <1>3, <1>4, <1>5, <2>1
    <2>3. \A m \in 1 .. Len(DiskLines(d)) : to[d][Len(to[d - 1]) + m] = DiskLines(d)[m]
      <3> DEFINE s == to[d - 1]
                 t == DiskLines(d)
      <3>1. to[d] = s \o t /\ s \in Seq(Targets) /\ t \in Seq(Targets) BY <2>2
      <3> HIDE DEF s, t
      <3>2. \A m \in 1 .. Len(t) : (s \o t)[Len(s) + m] = t[m] BY <3>1, InARow
      <3> QED BY <3>1, <3>2 DEF s, t
    <2>4. to[d][l] = DiskLines(d)[k] BY <2>2, <2>3
    <2>5. l \in 1 .. end(d)
      <3> DEFINE e == end(d - 1)
                 r == RowsShown(d)
      <3>1. e \in Nat /\ r \in Nat /\ end(d) = e + RowHeight + r /\ k \in 1 .. RowHeight + r
        BY <2>2
      <3> HIDE DEF e, r
      <3>2. e + k \in 1 .. e + RowHeight + r BY <1>6, <3>1
      <3> QED BY <3>1, <3>2 DEF e
    <2>6. to[n][l] = to[d][l] BY <1>3, <2>1, <2>5
    <2>7. end(d) \in Nat /\ end(n) \in Nat /\ end(d) <= end(n)
      <3>1. d + 1 \in 1 .. n + 1 /\ n \in 1 .. n /\ n + 1 \in d + 1 .. n + 1 BY <1>1
      <3>2. Top(list, d + 1) <= Top(list, n + 1)
        <4>1. d < n \/ d = n BY <1>1
        <4>2. d = n => Top(list, d + 1) <= Top(list, n + 1) BY <2>2 DEF end
        <4>3. n + 1 \in d + 1 .. Len(list) + 1 /\ d \in 1 .. Len(list) BY <3>1 DEF n
        <4>4. Top(list, d + 1) <= Top(list, n + 1) BY <1>1, <4>3, TopGrows
        <4> QED BY <4>4
      <3> QED BY <1>5, <1>11, <2>2, <3>2 DEF end
    <2>8. l \in 1 .. end(n) BY <2>5, <2>7
    <2>9. Lines[l] = DiskLines(d)[k] BY <1>12, <2>4, <2>6, <2>8
    <2> QED BY <1>9, <2>9
  <1> QED BY <1>7, <1>10, <1>12, <1>13 DEF n, list

-----------------------------------------------------------------------------
(* A click and what it means *)

LEMMA Divided ==
    ASSUME NEW h \in Nat \ {0}, NEW x \in Nat
    PROVE  x = (x \div h) * h + (x % h) /\ x % h \in 0 .. h - 1 /\ x \div h \in Nat
  OBVIOUS

LEMMA OneRest ==
    ASSUME NEW h \in Nat \ {0}, NEW q \in Int, NEW r \in 0 .. h - 1,
           NEW p \in Int, NEW s \in 0 .. h - 1, q * h + r = p * h + s
    PROVE  q = p /\ r = s
  OBVIOUS

LEMMA AtMostTimes ==
    ASSUME NEW h \in Nat \ {0}, NEW q \in Nat, NEW s \in Nat, s <= q
    PROVE  h * s <= q * h
  <1>1. q - s \in Nat OBVIOUS
  <1> DEFINE e == q - s
  <1>2. e \in Nat /\ q = s + e BY <1>1
  <1> HIDE DEF e
  <1>3. e * h \in Nat /\ s * h \in Nat /\ h * s = s * h BY <1>2
  <1>4. q * h = s * h + e * h BY <1>2
  <1> QED BY <1>3, <1>4

\* A line of the partitions of a disk is of one of them.
LEMMA PartOfLine ==
    ASSUME NEW h \in Nat \ {0}, NEW s \in Nat, NEW k \in 1 .. h * s
    PROVE  /\ (k - 1) \div h + 1 \in 1 .. s
           /\ \A j \in 1 .. s :
                 h * (j - 1) < k /\ k <= h * (j - 1) + h <=> j = (k - 1) \div h + 1
  <1> DEFINE x == k - 1
             q == x \div h
             r == x % h
  <1>0. h * s \in Nat OBVIOUS
  <1>1. k \in Nat /\ x \in Nat /\ x < h * s /\ k = x + 1 BY <1>0
  <1>2. x = q * h + r /\ r \in 0 .. h - 1 /\ q \in Nat
    <2> HIDE DEF x
    <2> QED BY <1>1, Divided
  <1> HIDE DEF x, q, r
  <1>3. q < s
    <2> SUFFICES ASSUME ~(q < s) PROVE FALSE OBVIOUS
    <2>1. s <= q BY <1>2
    <2>2. h * s <= q * h BY <1>2, <2>1, AtMostTimes
    <2>3. q * h \in Nat BY <1>2
    <2> QED BY <1>0, <1>1, <1>2, <2>2, <2>3
  <1>4. q + 1 \in 1 .. s BY <1>2, <1>3
  <1>5. ASSUME NEW j \in 1 .. s
        PROVE  h * (j - 1) < k /\ k <= h * (j - 1) + h <=> j = q + 1
    <2> DEFINE i == j - 1
               y == i * h
    <2>1. i \in Nat /\ j = i + 1 OBVIOUS
    <2> HIDE DEF i
    <2>2. y \in Nat /\ h * i = y BY <2>1
    <2>3. i = q => y = x - r
      <3>1. q * h \in Nat BY <1>2
      <3> QED BY <1>1, <1>2, <3>1
    <2> HIDE DEF y
    <2>4. i = q => y < k /\ k <= y + h BY <1>1, <1>2, <2>2, <2>3
    <2>5. ASSUME y < k, k <= y + h PROVE i = q
      <3>1. x - y \in 0 .. h - 1 /\ x = y + (x - y) BY <1>1, <2>2, <2>5
      <3> DEFINE t == x - y
      <3>2. t \in 0 .. h - 1 /\ i * h + t = q * h + r BY <1>2, <3>1 DEF y
      <3> HIDE DEF t
      <3> QED BY <1>2, <2>1, <3>2, OneRest
    <2>6. y < k /\ k <= y + h <=> j = q + 1 BY <1>2, <2>1, <2>4, <2>5
    <2> QED BY <2>2, <2>6 DEF i
  <1> QED BY <1>4, <1>5 DEF q, x

\* The line of the sidebar that is under a point.
LineOf(p) == p.y + screen.scroll.side + 1

\* What a click on a painted window looks at.
LEMMA WhatIsLookedAt ==
    ASSUME TypesInv, HitsInv, Fresh, NEW p \in Points
    PROVE  /\ Tested = 1 .. Len(disks) /\ Tested \ DOMAIN disks = {} /\ disks = screen.disks
           /\ DOMAIN hits.side.parts = Rows(disks)
           /\ LineOf(p) \in Int
           /\ Covers(hits.side.add, RowHeight, p.y) <=> InAdd(disks, LineOf(p))
           /\ \A d \in 1 .. Len(disks) :
                 /\ d \in hits.side.close <=> disks[d].id \in Images
                 /\ Covers(hits.side.rows[d], RowHeight, p.y) <=> InRow(disks, d, LineOf(p))
                 /\ Covers(hits.side.rows[d], 1, p.y) <=> LineOf(p) = Top(disks, d) + 1
           /\ \A t \in Rows(disks) :
                 Covers(hits.side.parts[t], PartHeight, p.y) <=>
                     LET k == LineOf(p) - Top(disks, t[1]) - RowHeight
                     IN  PartHeight * (t[2] - 1) < k /\ k <= PartHeight * (t[2] - 1) + PartHeight
  <1> DEFINE n == Len(disks)
             T(d) == Top(disks, d)
             at == screen.scroll.side
             y == p.y
             line == LineOf(p)
  <1>1. /\ hits = LayoutOf(screen) /\ screen.disks = disks
        /\ disks \in Seq(Entries) /\ n \in Nat /\ at \in Int
    BY DEF Fresh, HitsInv, TypesInv, Scrolls
  <1>2. hits.side = SidebarLayout(disks, screen.scroll) BY <1>1 DEF LayoutOf
  <1>3. RowHeight \in Nat /\ PartHeight \in Nat /\ Height \in Nat BY SizesAre
  <1>4. y \in Int BY <1>3 DEF Points
  <1>5. line = y + at + 1 /\ line \in Int BY <1>1, <1>4 DEF LineOf
  <1>6. /\ \A d \in 1 .. n + 1 : T(d) \in Nat
        /\ n + 1 \in 1 .. n + 1 /\ \A d \in 1 .. n : d \in 1 .. n + 1
    BY <1>1, TopIs
  <1>7. /\ hits.side.rows = [d \in DOMAIN disks |-> T(d) - at]
        /\ hits.side.close = {d \in DOMAIN disks : disks[d].id \in Images}
        /\ hits.side.parts = [t \in Rows(disks) |->
                                 T(t[1]) + RowHeight + PartHeight * (t[2] - 1) - at]
        /\ hits.side.add = T(n + 1) - at
    <2> DEFINE a == [d \in DOMAIN disks |-> T(d) - at]
               b == {d \in DOMAIN disks : disks[d].id \in Images}
               c == [t \in Rows(disks) |-> T(t[1]) + RowHeight + PartHeight * (t[2] - 1) - at]
               e == T(n + 1) - at
    <2>1. SidebarLayout(disks, screen.scroll) = [rows |-> a, close |-> b, parts |-> c, add |-> e]
      BY Zenon DEF SidebarLayout
    <2> HIDE DEF a, b, c, e
    <2>2. hits.side.rows = a /\ hits.side.close = b /\ hits.side.parts = c /\ hits.side.add = e
      BY <1>2, <2>1
    <2> QED BY <2>2 DEF a, b, c, e
  <1>8. DOMAIN disks = 1 .. n BY <1>1
  <1>9. Tested = 1 .. n BY <1>7, <1>8 DEF Tested
  <1>10. DOMAIN hits.side.parts = Rows(disks) BY <1>7
  <1>11. /\ \A d : InRow(disks, d, line) <=> T(d) < line /\ line <= T(d) + RowHeight
         /\ InAdd(disks, line) <=> T(n + 1) < line /\ line <= T(n + 1) + RowHeight
    BY DEF InRow, InAdd
  <1>12. \A t \in Rows(disks) : t[1] \in 1 .. n /\ t[2] \in Int
    <2>1. \A t \in Rows(disks) : t[1] \in 1 .. n /\ t[2] \in 1 .. Shown(disks, t[1])
      BY <1>1, RowsAre
    <2> QED BY <2>1
  <1> HIDE DEF n, T, at, y, line
  <1>13. Covers(hits.side.add, RowHeight, y) <=> InAdd(disks, line)
    <2> DEFINE x == T(n + 1)
    <2>1. x \in Nat /\ hits.side.add = x - at BY <1>6, <1>7
    <2> HIDE DEF x
    <2>2. Covers(hits.side.add, RowHeight, y) <=> x < line /\ line <= x + RowHeight
      BY <1>1, <1>3, <1>4, <1>5, <2>1 DEF Covers
    <2> QED BY <1>11, <2>2 DEF x
  <1>14. ASSUME NEW d \in 1 .. n
         PROVE  /\ d \in hits.side.close <=> disks[d].id \in Images
                /\ Covers(hits.side.rows[d], RowHeight, y) <=> InRow(disks, d, line)
                /\ Covers(hits.side.rows[d], 1, y) <=> line = T(d) + 1
    <2> DEFINE x == T(d)
    <2>1. x \in Nat /\ hits.side.rows[d] = x - at BY <1>6, <1>7, <1>8
    <2>2. d \in hits.side.close <=> disks[d].id \in Images BY <1>7, <1>8
    <2> HIDE DEF x
    <2>3. /\ Covers(hits.side.rows[d], RowHeight, y) <=> x < line /\ line <= x + RowHeight
          /\ Covers(hits.side.rows[d], 1, y) <=> line = x + 1
      BY <1>1, <1>3, <1>4, <1>5, <2>1 DEF Covers
    <2> QED BY <1>11, <2>2, <2>3 DEF x
  <1>15. ASSUME NEW t \in Rows(disks)
         PROVE  Covers(hits.side.parts[t], PartHeight, y) <=>
                   /\ PartHeight * (t[2] - 1) < line - T(t[1]) - RowHeight
                   /\ line - T(t[1]) - RowHeight <= PartHeight * (t[2] - 1) + PartHeight
    <2> DEFINE x == T(t[1])
               z == PartHeight * (t[2] - 1)
    <2>1. t[1] \in 1 .. n /\ t[2] - 1 \in Int BY <1>12
    <2>2. x \in Nat /\ hits.side.parts[t] = x + RowHeight + z - at BY <1>6, <1>7, <2>1
    <2>3. z \in Int
      <3> DEFINE i == t[2] - 1
      <3>1. i \in Int BY <2>1
      <3> HIDE DEF i
      <3>2. PartHeight * i \in Int BY <1>3, <3>1
      <3> QED BY <3>2 DEF i
    <2> HIDE DEF x, z
    <2>4. Covers(hits.side.parts[t], PartHeight, y) <=>
             z < line - x - RowHeight /\ line - x - RowHeight <= z + PartHeight
      BY <1>1, <1>3, <1>4, <1>5, <2>2, <2>3 DEF Covers
    <2> QED BY <2>4 DEF x, z
  <1>16. disks = screen.disks /\ Tested \ DOMAIN disks = {} /\ line \in Int
    BY <1>1, <1>5, <1>8, <1>9
  <1> QED BY <1>9, <1>10, <1>13, <1>14, <1>15, <1>16 DEF n, T, y, line

\* What is under a point, over the whole window.
Closing(p) == {i \in Tested : /\ disks[i].id \in Images /\ i \in hits.side.close
                              /\ p.col = "close" /\ Covers(hits.side.rows[i], 1, p.y)}
RowsAt(p) == {i \in Tested : Covers(hits.side.rows[i], RowHeight, p.y)}
PartsAt(p) == {t \in DOMAIN hits.side.parts : Covers(hits.side.parts[t], PartHeight, p.y)}
VolumesAt(p) == {v \in DOMAIN hits.list.volumes : Covers(hits.list.volumes[v], 1, p.y)}

LEMMA UnderIs ==
    ASSUME NEW p, Tested \ DOMAIN disks = {}
    PROVE  /\ InSidebar(p) =>
                 /\ Covers(hits.side.add, RowHeight, p.y) => Under(p) = <<"add">>
                 /\ ~Covers(hits.side.add, RowHeight, p.y) =>
                       /\ Closing(p) # {} => Under(p) = <<"close", CHOOSE x \in Closing(p) : TRUE>>
                       /\ Closing(p) = {} /\ RowsAt(p) # {} =>
                             Under(p) = <<"row", CHOOSE x \in RowsAt(p) : TRUE>>
                       /\ Closing(p) = {} /\ RowsAt(p) = {} /\ PartsAt(p) # {} =>
                             Under(p) = <<"part", CHOOSE x \in PartsAt(p) : TRUE>>
                       /\ Closing(p) = {} /\ RowsAt(p) = {} /\ PartsAt(p) = {} =>
                             Under(p) = <<"none">>
           /\ p.col = "list" =>
                 /\ VolumesAt(p) # {} => Under(p) = <<"volume", CHOOSE x \in VolumesAt(p) : TRUE>>
                 /\ VolumesAt(p) = {} => Under(p) = <<"none">>
           /\ p.col = "button" =>
                 Under(p) = IF hits.list.button THEN <<"button">> ELSE <<"none">>
  <1> DEFINE The(S) == CHOOSE x \in S : TRUE
             cs == Closing(p)
             rs == RowsAt(p)
             ps == PartsAt(p)
             vs == VolumesAt(p)
             add == Covers(hits.side.add, RowHeight, p.y)
  <1>1. Under(p) =
           IF InSidebar(p) /\ add THEN <<"add">>
           ELSE IF Tested \ DOMAIN disks # {} THEN <<"crash">>
           ELSE IF cs # {} THEN <<"close", The(cs)>>
           ELSE IF InSidebar(p) /\ rs # {} THEN <<"row", The(rs)>>
           ELSE IF InSidebar(p) /\ ps # {} THEN <<"part", The(ps)>>
           ELSE IF p.col = "list" /\ vs # {} THEN <<"volume", The(vs)>>
           ELSE IF p.col = "button" /\ hits.list.button THEN <<"button">>
           ELSE <<"none">>
    BY Zenon DEF Under, Closing, RowsAt, PartsAt, VolumesAt
  <1>2. InSidebar(p) => p.col # "list" /\ p.col # "button" BY DEF InSidebar
  <1>3. p.col = "list" => ~InSidebar(p) /\ cs = {} /\ p.col # "button"
    BY DEF InSidebar, Closing
  <1>4. p.col = "button" => ~InSidebar(p) /\ cs = {} /\ p.col # "list"
    BY DEF InSidebar, Closing
  <1> HIDE DEF cs, rs, ps, vs, add
  <1> DEFINE a == The(cs)
             b == The(rs)
             c == The(ps)
             d == The(vs)
             u == Under(p)
  <1>5. u = IF InSidebar(p) /\ add THEN <<"add">>
            ELSE IF cs # {} THEN <<"close", a>>
            ELSE IF InSidebar(p) /\ rs # {} THEN <<"row", b>>
            ELSE IF InSidebar(p) /\ ps # {} THEN <<"part", c>>
            ELSE IF p.col = "list" /\ vs # {} THEN <<"volume", d>>
            ELSE IF p.col = "button" /\ hits.list.button THEN <<"button">>
            ELSE <<"none">>
    BY <1>1, Zenon
  <1> HIDE DEF The, a, b, c, d, u
  <1>6. /\ InSidebar(p) =>
              /\ add => u = <<"add">>
              /\ ~add => /\ cs # {} => u = <<"close", a>>
                         /\ cs = {} /\ rs # {} => u = <<"row", b>>
                         /\ cs = {} /\ rs = {} /\ ps # {} => u = <<"part", c>>
                         /\ cs = {} /\ rs = {} /\ ps = {} => u = <<"none">>
    BY <1>2, <1>5
  <1>7. p.col = "list" => /\ vs # {} => u = <<"volume", d>>
                          /\ vs = {} => u = <<"none">>
    BY <1>3, <1>5
  <1>8. p.col = "button" => u = IF hits.list.button THEN <<"button">> ELSE <<"none">>
    BY <1>4, <1>5
  <1> QED BY <1>6, <1>7, <1>8, Zenon DEF The, a, b, c, d, u, cs, rs, ps, vs, add

\* The list of volumes and its button.
LEMMA ListMeansShown ==
    ASSUME TypesInv, HitsInv, Fresh, NEW p \in Points,
           p.col = "button" \/ (p.col = "list" /\ ~(p.y < ListTop))
    PROVE  Under(p) = ShownAt(p, Lines, ListLines)
  <1> DEFINE list == disks
             L == ListLength(disks, sel)
             at == screen.scroll.list
             v == p.y - ListTop + at + 1
  <1>1. /\ hits = LayoutOf(screen) /\ screen.disks = disks /\ screen.sel = sel
        /\ disks \in Seq(Entries) /\ at \in Int /\ sel.vol \in Nat
    BY DEF Fresh, HitsInv, TypesInv, Scrolls, Selections
  <1>2. hits.list = VolumeLayout(disks, sel, screen.scroll) BY <1>1 DEF LayoutOf
  <1>3. /\ hits.list.volumes = [w \in 1 .. L |-> ListTop + w - 1 - at]
        /\ hits.list.button <=> L > 0 /\ sel.vol > 0
    <2> DEFINE a == [w \in 1 .. L |-> ListTop + w - 1 - at]
               b == L > 0 /\ sel.vol > 0
    <2>1. VolumeLayout(disks, sel, screen.scroll) = [volumes |-> a, button |-> b]
      BY Zenon DEF VolumeLayout
    <2>2. b \in BOOLEAN OBVIOUS
    <2> HIDE DEF a, b
    <2>3. hits.list.volumes = a /\ hits.list.button = b BY <1>2, <2>1
    <2> QED BY <2>3 DEF a, b
  <1>4. ShownLength = L BY <1>1 DEF ShownLength, ListLength
  <1>5. L \in Nat /\ (L > 0 => sel.vol <= L) BY <1>1, LengthIs DEF HitsInv
  <1>6. Height \in Nat /\ ListTop \in Nat BY SizesAre
  <1>7. Tested \ DOMAIN disks = {} BY WhatIsLookedAt
  <1>8. ListLines = [y \in ListTop .. Height - 1 |->
                        IF y - ListTop + at + 1 \in 1 .. L
                        THEN <<"volume", y - ListTop + at + 1>> ELSE <<"none">>]
    BY <1>4, Zenon DEF ListLines
  <1> HIDE DEF L, at
  <1>9. CASE p.col = "button"
    <2>1. Under(p) = IF hits.list.button THEN <<"button">> ELSE <<"none">>
      BY <1>7, <1>9, UnderIs
    <2>2. sel.vol \in 1 .. L <=> hits.list.button BY <1>1, <1>3, <1>5
    <2>3. ShownAt(p, Lines, ListLines) =
             IF screen.sel.vol \in 1 .. ShownLength THEN <<"button">> ELSE <<"none">>
      BY <1>9 DEF ShownAt
    <2> QED BY <1>1, <1>4, <2>1, <2>2, <2>3
  <1>10. CASE p.col = "list" /\ ~(p.y < ListTop)
    <2>1. p.y \in 0 .. Height - 1 BY <1>10 DEF Points
    <2>2. p.y \in ListTop .. Height - 1 BY <1>6, <1>10, <2>1
    <2>3. ListLines[p.y] = IF v \in 1 .. L THEN <<"volume", v>> ELSE <<"none">>
      BY <1>8, <2>2
    <2>4. p.y \in DOMAIN ListLines BY <1>8, <2>2
    <2>5. ShownAt(p, Lines, ListLines) = ListLines[p.y]
      BY <1>10, <2>4 DEF ShownAt
    <2>6. v \in Int BY <1>1, <1>6, <2>1 DEF at
    <2>7. \A w \in 1 .. L : Covers(hits.list.volumes[w], 1, p.y) <=> w = v
      <3> SUFFICES ASSUME NEW w \in 1 .. L
                   PROVE  Covers(hits.list.volumes[w], 1, p.y) <=> w = v
        OBVIOUS
      <3>1. hits.list.volumes[w] = ListTop + w - 1 - at BY <1>3
      <3>2. at \in Int /\ w \in Int BY <1>1, <1>5 DEF at
      <3> DEFINE y == p.y
                 z == hits.list.volumes[w]
      <3>3. y \in Int /\ v = y - ListTop + at + 1 /\ z = ListTop + w - 1 - at
        BY <1>6, <2>1, <3>1
      <3>4. z \in Int BY <1>6, <3>2, <3>3
      <3> HIDE DEF y, z, v
      <3>5. z <= y /\ y < z + 1 <=> w = v BY <1>6, <3>2, <3>3, <3>4
      <3> QED BY <3>5 DEF Covers, y, z
    <2>8. DOMAIN hits.list.volumes = 1 .. L BY <1>3
    <2> HIDE DEF v
    <2>9. v \in 1 .. L => VolumesAt(p) = {v} BY <2>7, <2>8 DEF VolumesAt
    <2>10. v \notin 1 .. L => VolumesAt(p) = {} BY <2>7, <2>8 DEF VolumesAt
    <2>11. (CHOOSE x \in {v} : TRUE) = v OBVIOUS
    <2>12. Under(p) = IF v \in 1 .. L THEN <<"volume", v>> ELSE <<"none">>
      <3>1. CASE v \in 1 .. L
        <4>1. VolumesAt(p) = {v} BY <2>9, <3>1
        <4>2. Under(p) = <<"volume", CHOOSE x \in VolumesAt(p) : TRUE>>
          <5>1. VolumesAt(p) # {} BY <4>1
          <5> QED BY <1>7, <1>10, <5>1, UnderIs
        <4> QED BY <2>11, <3>1, <4>1, <4>2
      <3>2. CASE v \notin 1 .. L
        <4>1. VolumesAt(p) = {} BY <2>10, <3>2
        <4> QED BY <1>7, <1>10, <3>2, <4>1, UnderIs
      <3> QED BY <3>1, <3>2
    <2> QED BY <2>3, <2>5, <2>12
  <1> QED BY <1>9, <1>10

\* The sidebar, where a row or the button below is.
LEMMA SidebarMeansShown ==
    ASSUME TypesInv, HitsInv, Fresh, NEW p \in Points, InSidebar(p)
    PROVE  Under(p) = ShownAt(p, Lines, ListLines)
  <1> DEFINE n == Len(disks)
             T(d) == Top(disks, d)
             line == LineOf(p)
             u == Under(p)
             s == ShownAt(p, Lines, ListLines)
             add == Covers(hits.side.add, RowHeight, p.y)
             here == IF line \in DOMAIN Lines THEN Lines[line] ELSE <<"none">>
  <1>1. /\ Tested = 1 .. n /\ Tested \ DOMAIN disks = {} /\ disks = screen.disks
        /\ DOMAIN hits.side.parts = Rows(disks) /\ line \in Int
        /\ add <=> InAdd(disks, line)
        /\ \A d \in 1 .. n :
              /\ d \in hits.side.close <=> disks[d].id \in Images
              /\ Covers(hits.side.rows[d], RowHeight, p.y) <=> InRow(disks, d, line)
              /\ Covers(hits.side.rows[d], 1, p.y) <=> line = T(d) + 1
        /\ \A t \in Rows(disks) :
              Covers(hits.side.parts[t], PartHeight, p.y) <=>
                  LET k == line - T(t[1]) - RowHeight
                  IN  PartHeight * (t[2] - 1) < k /\ k <= PartHeight * (t[2] - 1) + PartHeight
    BY WhatIsLookedAt
  <1>2. disks \in Seq(Entries) /\ n \in Nat BY DEF TypesInv
  <1>3. RowHeight \in Nat \ {0} /\ PartHeight \in Nat \ {0} BY SizesAre
  <1>4. /\ \A d \in 1 .. n + 1 : T(d) \in Nat
        /\ \A d \in 1 .. n : RowsShown(d) \in Nat /\ T(d + 1) = T(d) + RowHeight + RowsShown(d)
        /\ T(1) = 0
    BY <1>1, <1>2, TopIs DEF RowsShown
  <1>5. /\ Lines \in Seq(Targets) /\ Len(Lines) = T(n + 1) + RowHeight
        /\ \A d \in 1 .. n : \A k \in 1 .. RowHeight + RowsShown(d) :
              Lines[T(d) + k] = DiskLines(d)[k]
        /\ \A k \in 1 .. RowHeight : Lines[T(n + 1) + k] = <<"add">>
    BY <1>1, LinesAre
  <1>6. \A d \in 1 .. n :
           /\ DiskLines(d)[1] = <<IF disks[d].id \in Images THEN "closable" ELSE "row", d>>
           /\ \A k \in 2 .. RowHeight : DiskLines(d)[k] = <<"row", d>>
           /\ \A k \in 1 .. RowsShown(d) :
                 DiskLines(d)[RowHeight + k] = <<"part", <<d, (k - 1) \div PartHeight + 1>>>>
    BY <1>1, DiskLinesAre
  <1>7. p.col = "row" \/ p.col = "close" BY DEF InSidebar
  <1>8. s = IF here[1] = "closable" THEN <<IF p.col = "close" THEN "close" ELSE "row", here[2]>> ELSE here
    <2>1. p.col # "list" /\ p.col # "button" BY <1>7
    <2>2. here = IF p.y + screen.scroll.side + 1 \in DOMAIN Lines
                 THEN Lines[p.y + screen.scroll.side + 1] ELSE <<"none">>
      BY DEF LineOf
    <2> HIDE DEF here
    <2> QED BY <2>1, <2>2, Zenon DEF ShownAt
  <1>9. /\ add => u = <<"add">>
        /\ ~add => /\ Closing(p) # {} => u = <<"close", CHOOSE x \in Closing(p) : TRUE>>
                   /\ Closing(p) = {} /\ RowsAt(p) # {} => u = <<"row", CHOOSE x \in RowsAt(p) : TRUE>>
                   /\ Closing(p) = {} /\ RowsAt(p) = {} /\ PartsAt(p) # {} =>
                         u = <<"part", CHOOSE x \in PartsAt(p) : TRUE>>
                   /\ Closing(p) = {} /\ RowsAt(p) = {} /\ PartsAt(p) = {} => u = <<"none">>
    BY <1>1, UnderIs
  <1>10. \A d \in 1 .. n :
            /\ \A e \in 1 .. n : InRow(disks, d, line) /\ InRow(disks, e, line) => d = e
            /\ \A e \in 1 .. n : ~(InRow(disks, d, line) /\ InParts(disks, e, line))
            /\ \A e \in 1 .. n : InParts(disks, d, line) /\ InParts(disks, e, line) => d = e
            /\ ~(InRow(disks, d, line) /\ InAdd(disks, line))
            /\ ~(InParts(disks, d, line) /\ InAdd(disks, line))
    BY <1>1, <1>2, LinesApart
  <1>11. \A d : /\ InRow(disks, d, line) <=> T(d) < line /\ line <= T(d) + RowHeight
                /\ InParts(disks, d, line) <=> T(d) + RowHeight < line /\ line <= T(d + 1)
    BY DEF InRow, InParts
  <1>12. InAdd(disks, line) <=> T(n + 1) < line /\ line <= T(n + 1) + RowHeight BY DEF InAdd
  <1>13. DOMAIN Lines = 1 .. Len(Lines) BY <1>5
  <1>14. ASSUME line > 0, line <= T(n + 1) + RowHeight
         PROVE  \/ \E d \in 1 .. n : InRow(disks, d, line) \/ InParts(disks, d, line)
                \/ InAdd(disks, line)
    BY <1>1, <1>2, <1>14, LinesCovered
  <1>15. \A d \in 1 .. n : T(d + 1) <= T(n + 1) /\ T(d) <= T(d + 1)
    <2> SUFFICES ASSUME NEW d \in 1 .. n PROVE T(d + 1) <= T(n + 1) /\ T(d) <= T(d + 1) OBVIOUS
    <2>1. n + 1 \in d + 1 .. n + 1 /\ d \in 1 .. n + 1 BY <1>2
    <2>2. T(d + 1) <= T(n + 1) BY <1>2, <2>1, TopGrows
    <2> DEFINE x == T(d)
               y == RowsShown(d)
    <2>3. x \in Nat /\ y \in Nat /\ T(d + 1) = x + RowHeight + y BY <1>4, <2>1
    <2> HIDE DEF x, y
    <2>4. x <= T(d + 1) BY <1>3, <2>3
    <2> QED BY <2>2, <2>4 DEF x
  <1>16. \A t \in Rows(disks) : /\ t = <<t[1], t[2]>> /\ t[1] \in 1 .. n
                                /\ t[2] \in 1 .. Shown(disks, t[1])
    BY <1>2, RowsAre
  <1>17. \A d \in 1 .. n : /\ Shown(disks, d) \in Nat /\ RowsShown(d) = PartHeight * Shown(disks, d)
                           /\ \A m \in 1 .. Shown(disks, d) : <<d, m>> \in Rows(disks)
    BY <1>1, <1>2, RowsAre DEF RowsShown
  <1> HIDE DEF n, T, line, u, s, add, here
  \* A partition's row is below its disk's.
  <1>18. ASSUME NEW t \in Rows(disks), Covers(hits.side.parts[t], PartHeight, p.y)
         PROVE  InParts(disks, t[1], line)
    <2> DEFINE d == t[1]
               m == t[2] - 1
               c == Shown(disks, d)
    <2>1. d \in 1 .. n /\ c \in Nat /\ m \in Nat /\ m + 1 <= c BY <1>16, <1>17
    <2> DEFINE x == T(d)
               y == RowsShown(d)
    <2>2. d \in 1 .. n + 1 BY <1>2, <2>1
    <2>3. x \in Nat /\ y \in Nat /\ T(d + 1) = x + RowHeight + y /\ y = PartHeight * c
      BY <1>4, <1>17, <2>1, <2>2
    <2>4. PartHeight * m < line - x - RowHeight /\ line - x - RowHeight <= PartHeight * m + PartHeight
      BY <1>1, <1>18
    <2> HIDE DEF d, m, c, x, y
    <2>5. PartHeight * m \in Nat /\ PartHeight * m + PartHeight = PartHeight * (m + 1)
      BY <1>3, <2>1
    <2>6. PartHeight * (m + 1) <= y
      <3>1. PartHeight * (m + 1) <= c * PartHeight BY <1>3, <2>1, AtMostTimes
      <3>2. c * PartHeight = PartHeight * c BY <1>3, <2>1
      <3> QED BY <2>3, <3>1, <3>2
    <2>7. x + RowHeight < line /\ line <= x + RowHeight + y
      <3> DEFINE z == PartHeight * m
      <3>1. z \in Nat /\ z < line - x - RowHeight /\ line - x - RowHeight <= z + PartHeight
            /\ z + PartHeight <= y
        BY <2>4, <2>5, <2>6
      <3> HIDE DEF z
      <3> QED BY <1>1, <1>3, <2>3, <3>1
    <2> QED BY <1>11, <2>3, <2>7 DEF d, x
  <1>19. /\ \A d \in RowsAt(p) : d \in 1 .. n /\ InRow(disks, d, line)
         /\ \A d \in 1 .. n : InRow(disks, d, line) => d \in RowsAt(p)
         /\ \A t \in PartsAt(p) : t \in Rows(disks) /\ t[1] \in 1 .. n /\ InParts(disks, t[1], line)
         /\ \A d \in Closing(p) : /\ d \in 1 .. n /\ InRow(disks, d, line) /\ line = T(d) + 1
                                  /\ disks[d].id \in Images /\ p.col = "close"
         /\ \A d \in 1 .. n : disks[d].id \in Images /\ p.col = "close" /\ line = T(d) + 1 =>
                                 d \in Closing(p)
    <2>1. /\ \A d \in RowsAt(p) : d \in 1 .. n /\ InRow(disks, d, line)
          /\ \A d \in 1 .. n : InRow(disks, d, line) => d \in RowsAt(p)
      BY <1>1 DEF RowsAt
    <2>2. \A t \in PartsAt(p) : t \in Rows(disks) /\ t[1] \in 1 .. n /\ InParts(disks, t[1], line)
      BY <1>1, <1>16, <1>18 DEF PartsAt
    <2>3. /\ \A d \in Closing(p) : /\ d \in 1 .. n /\ line = T(d) + 1
                                   /\ disks[d].id \in Images /\ p.col = "close"
          /\ \A d \in 1 .. n : disks[d].id \in Images /\ p.col = "close" /\ line = T(d) + 1 =>
                                  d \in Closing(p)
      BY <1>1 DEF Closing
    <2>4. \A d \in Closing(p) : InRow(disks, d, line)
      <3> SUFFICES ASSUME NEW d \in Closing(p) PROVE InRow(disks, d, line) OBVIOUS
      <3>1. d \in 1 .. n + 1 /\ line = T(d) + 1 BY <1>2, <2>3
      <3>2. T(d) \in Nat BY <1>4, <3>1
      <3>3. T(d) < line /\ line <= T(d) + RowHeight BY <1>3, <3>1, <3>2
      <3> QED BY <1>11, <3>3
    <2> QED BY <2>1, <2>2, <2>3, <2>4
  <1>20. CASE InAdd(disks, line)
    <2> DEFINE x == T(n + 1)
               k == line - x
    <2>1. x \in Nat
      <3>1. n + 1 \in 1 .. n + 1 BY <1>2
      <3> QED BY <1>4, <3>1
    <2>2. x < line /\ line <= x + RowHeight /\ Len(Lines) = x + RowHeight
      BY <1>5, <1>12, <1>20
    <2>3. \A m \in 1 .. RowHeight : Lines[x + m] = <<"add">> BY <1>5
    <2> HIDE DEF x
    <2>4. k \in 1 .. RowHeight /\ x + k = line /\ line \in 1 .. Len(Lines)
      BY <1>1, <1>3, <2>1, <2>2
    <2>5. Lines[line] = <<"add">> BY <2>3, <2>4
    <2>6. here = <<"add">> BY <1>13, <2>4, <2>5 DEF here
    <2>7. s = <<"add">> BY <1>8, <2>6
    <2> QED BY <1>1, <1>9, <1>20, <2>7 DEF u, s
  <1>21. ASSUME NEW d \in 1 .. n, InRow(disks, d, line) PROVE u = s
    <2> DEFINE x == T(d)
               k == line - x
               e == T(n + 1)
    <2>1. x \in Nat /\ e \in Nat /\ T(d + 1) \in Nat
      <3>1. d \in 1 .. n + 1 /\ d + 1 \in 1 .. n + 1 /\ n + 1 \in 1 .. n + 1 BY <1>2
      <3> QED BY <1>4, <3>1
    <2>2. x < line /\ line <= x + RowHeight BY <1>11, <1>21
    <2>3. x <= e /\ Len(Lines) = e + RowHeight BY <1>5, <1>15, <2>1
    <2>4. RowsShown(d) \in Nat BY <1>4
    <2>5. \A m \in 1 .. RowHeight + RowsShown(d) : Lines[x + m] = DiskLines(d)[m] BY <1>5
    <2> HIDE DEF x, e
    <2>6. /\ k \in 1 .. RowHeight /\ k \in 1 .. RowHeight + RowsShown(d) /\ x + k = line
          /\ line \in 1 .. Len(Lines) /\ (k = 1 <=> line = x + 1) /\ (k # 1 => k \in 2 .. RowHeight)
      BY <1>1, <1>3, <2>1, <2>2, <2>3, <2>4
    <2> HIDE DEF k
    <2>7. here = DiskLines(d)[k] BY <1>13, <2>5, <2>6 DEF here
    <2>8. ~add BY <1>1, <1>10, <1>21
    <2>9. RowsAt(p) = {d} BY <1>10, <1>19, <1>21
    <2>10. \A c \in Closing(p) : c = d BY <1>10, <1>19, <1>21
    <2>11. (CHOOSE c \in {d} : TRUE) = d OBVIOUS
    <2>12. CASE k = 1 /\ disks[d].id \in Images
      <3>1. here = <<"closable", d>> BY <1>6, <2>7, <2>12
      <3>2. s = <<IF p.col = "close" THEN "close" ELSE "row", d>> BY <1>8, <3>1
      <3>3. CASE p.col = "close"
        <4>1. d \in Closing(p) BY <1>19, <2>6, <2>12, <3>3 DEF x
        <4>2. Closing(p) = {d} BY <2>10, <4>1
        <4>3. u = <<"close", CHOOSE c \in Closing(p) : TRUE>>
          <5>1. Closing(p) # {} BY <4>1
          <5> QED BY <1>9, <2>8, <5>1
        <4> QED BY <2>11, <3>2, <3>3, <4>2, <4>3
      <3>4. CASE p.col # "close"
        <4>1. Closing(p) = {} BY <1>19, <3>4
        <4>2. u = <<"row", CHOOSE c \in RowsAt(p) : TRUE>>
          <5>1. RowsAt(p) # {} BY <2>9
          <5> QED BY <1>9, <2>8, <4>1, <5>1
        <4> QED BY <2>9, <2>11, <3>2, <3>4, <4>2
      <3> QED BY <3>3, <3>4
    <2>13. CASE ~(k = 1 /\ disks[d].id \in Images)
      <3>1. here = <<"row", d>> BY <1>6, <2>6, <2>7, <2>13
      <3>2. s = <<"row", d>> BY <1>8, <3>1
      <3>3. Closing(p) = {}
        <4> SUFFICES ASSUME NEW c \in Closing(p) PROVE FALSE OBVIOUS
        <4>1. c = d BY <2>10
        <4>2. line = T(d) + 1 /\ disks[d].id \in Images BY <1>19, <4>1
        <4>3. k = 1 BY <2>6, <4>2 DEF x
        <4> QED BY <2>13, <4>2, <4>3
      <3>4. u = <<"row", CHOOSE c \in RowsAt(p) : TRUE>>
        <4>1. RowsAt(p) # {} BY <2>9
        <4> QED BY <1>9, <2>8, <3>3, <4>1
      <3> QED BY <2>9, <2>11, <3>2, <3>4
    <2> QED BY <2>12, <2>13
  <1>22. ASSUME NEW d \in 1 .. n, InParts(disks, d, line) PROVE u = s
    <2> DEFINE x == T(d)
               y == RowsShown(d)
               k == line - x - RowHeight
               e == T(n + 1)
               c == Shown(disks, d)
               m == (k - 1) \div PartHeight + 1
               t == <<d, m>>
    <2>1. /\ x \in Nat /\ e \in Nat /\ y \in Nat /\ T(d + 1) = x + RowHeight + y
          /\ c \in Nat /\ y = PartHeight * c /\ T(d + 1) <= e
      <3>1. d \in 1 .. n + 1 /\ n + 1 \in 1 .. n + 1 BY <1>2
      <3> QED BY <1>4, <1>15, <1>17, <3>1
    <2>2. x + RowHeight < line /\ line <= x + RowHeight + y BY <1>11, <1>22, <2>1
    <2>3. Len(Lines) = e + RowHeight BY <1>5
    <2>4. \A l \in 1 .. RowHeight + y : Lines[x + l] = DiskLines(d)[l] BY <1>5
    <2>5. \A l \in 1 .. y : DiskLines(d)[RowHeight + l] = <<"part", <<d, (l - 1) \div PartHeight + 1>>>>
      BY <1>6
    <2>6. \A l \in 1 .. c : <<d, l>> \in Rows(disks) BY <1>17
    <2>7. \A r \in Rows(disks) : r[1] = d =>
             (Covers(hits.side.parts[r], PartHeight, p.y) <=>
                 PartHeight * (r[2] - 1) < k /\ k <= PartHeight * (r[2] - 1) + PartHeight)
      BY <1>1
    <2> HIDE DEF x, y, e, c
    <2>8. /\ k \in 1 .. y /\ RowHeight + k \in 1 .. RowHeight + y /\ x + (RowHeight + k) = line
          /\ line \in 1 .. Len(Lines)
      BY <1>1, <1>3, <2>1, <2>2, <2>3
    <2> HIDE DEF k
    <2>9. here = <<"part", t>>
      <3>1. Lines[line] = DiskLines(d)[RowHeight + k] BY <2>4, <2>8
      <3>2. DiskLines(d)[RowHeight + k] = <<"part", t>> BY <2>5, <2>8
      <3> QED BY <1>13, <2>8, <3>1, <3>2 DEF here
    <2>10. s = <<"part", t>>
      <3> HIDE DEF t
      <3> QED BY <1>8, <2>9
    <2>11. /\ m \in 1 .. c
           /\ \A j \in 1 .. c :
                 PartHeight * (j - 1) < k /\ k <= PartHeight * (j - 1) + PartHeight <=> j = m
      <3>1. k \in 1 .. PartHeight * c BY <2>1, <2>8
      <3> QED BY <1>3, <2>1, <3>1, PartOfLine
    <2> HIDE DEF m
    <2>12. t \in Rows(disks) /\ t[1] = d /\ t[2] = m BY <2>6, <2>11
    <2> HIDE DEF t
    <2>13. t \in PartsAt(p)
      <3>1. PartHeight * (m - 1) < k /\ k <= PartHeight * (m - 1) + PartHeight BY <2>11
      <3>2. Covers(hits.side.parts[t], PartHeight, p.y) BY <2>7, <2>12, <3>1
      <3> QED BY <1>1, <2>12, <3>2 DEF PartsAt
    <2>14. \A r \in PartsAt(p) : r = t
      <3> SUFFICES ASSUME NEW r \in PartsAt(p) PROVE r = t OBVIOUS
      <3>1. r \in Rows(disks) /\ r[1] \in 1 .. n /\ InParts(disks, r[1], line) BY <1>19
      <3>2. r[1] = d BY <1>10, <1>22, <3>1
      <3>3. r = <<r[1], r[2]>> /\ r[2] \in 1 .. c BY <1>16, <3>1, <3>2 DEF c
      <3>4. Covers(hits.side.parts[r], PartHeight, p.y) BY DEF PartsAt
      <3>5. PartHeight * (r[2] - 1) < k /\ k <= PartHeight * (r[2] - 1) + PartHeight
        BY <2>7, <3>1, <3>2, <3>4
      <3>6. r[2] = m BY <2>11, <3>3, <3>5
      <3>7. t = <<d, m>> BY DEF t
      <3> QED BY <3>2, <3>3, <3>6, <3>7
    <2>15. PartsAt(p) = {t} BY <2>13, <2>14
    <2>16. RowsAt(p) = {} /\ Closing(p) = {} BY <1>10, <1>19, <1>22
    <2>17. ~add BY <1>1, <1>10, <1>22
    <2>18. u = <<"part", CHOOSE r \in PartsAt(p) : TRUE>>
      <3>1. PartsAt(p) # {} BY <2>13
      <3> QED BY <1>9, <2>16, <2>17, <3>1
    <2>19. (CHOOSE r \in {t} : TRUE) = t OBVIOUS
    <2> QED BY <2>10, <2>15, <2>18, <2>19
  <1>23. CASE ~(line > 0 /\ line <= T(n + 1) + RowHeight)
    <2> DEFINE e == T(n + 1)
    <2>1. e \in Nat
      <3>1. n + 1 \in 1 .. n + 1 BY <1>2
      <3> QED BY <1>4, <3>1
    <2>2. Len(Lines) = e + RowHeight BY <1>5
    <2>3. ~(line > 0 /\ line <= e + RowHeight) BY <1>23
    <2>4. ~add
      <3>1. ~(e < line /\ line <= e + RowHeight)
        <4> HIDE DEF e
        <4> QED BY <1>1, <1>3, <2>1, <2>3
      <3> QED BY <1>1, <1>12, <3>1
    <2>5. \A d \in 1 .. n : ~InRow(disks, d, line) /\ ~InParts(disks, d, line)
      <3> SUFFICES ASSUME NEW d \in 1 .. n
                   PROVE  ~InRow(disks, d, line) /\ ~InParts(disks, d, line)
        OBVIOUS
      <3> DEFINE x == T(d)
                 y == T(d + 1)
      <3>1. x \in Nat /\ y \in Nat /\ x <= y /\ y <= e
        <4>1. d \in 1 .. n + 1 /\ d + 1 \in 1 .. n + 1 BY <1>2
        <4> QED BY <1>4, <1>15, <4>1
      <3> HIDE DEF e, x, y
      <3>2. ~(x < line /\ line <= x + RowHeight) BY <1>1, <1>3, <2>1, <2>3, <3>1
      <3>3. ~(x + RowHeight < line /\ line <= y) BY <1>1, <1>3, <2>1, <2>3, <3>1
      <3> QED BY <1>11, <3>2, <3>3 DEF x, y
    <2>6. RowsAt(p) = {} /\ Closing(p) = {} /\ PartsAt(p) = {} BY <1>19, <2>5
    <2>7. u = <<"none">> BY <1>9, <2>4, <2>6
    <2>8. line \notin 1 .. Len(Lines)
      <3> HIDE DEF e
      <3> QED BY <1>1, <1>3, <2>1, <2>2, <2>3
    <2>9. here = <<"none">> BY <1>13, <2>8 DEF here
    <2>10. s = <<"none">> BY <1>8, <2>9
    <2> QED BY <2>7, <2>10 DEF u, s
  <1> QED BY <1>14, <1>20, <1>21, <1>22, <1>23 DEF u, s

-----------------------------------------------------------------------------
(* The theorems *)

\* Whatever was scanned, clicked, scrolled and painted, or not painted, a click finds
\* what was painted last, and the volume that is selected while the button is there
\* is the one it was painted for, unless one was clicked since.
THEOREM SidebarInvariant == Spec => []SidebarIInv
  BY SidebarInit, SidebarStep, PTL DEF Spec

\* On a window of any size, with any number of disks, partitions and volumes: while
\* the list and the selection are the painted ones, on_lbutton_down finds what the
\* user sees under the point.
THEOREM ClicksMeanWhatIsShown == Spec => []ClickMeansShown
  <1>1. SidebarIInv => ClickMeansShown
    <2> SUFFICES ASSUME SidebarIInv, Fresh, NEW p \in Points
                 PROVE  \/ Under(p) = ShownAt(p, Lines, ListLines)
                        \/ p.col = "list" /\ p.y < ListTop
      BY Zenon DEF ClickMeansShown
    <2>1. TypesInv /\ HitsInv BY DEF SidebarIInv
    <2>2. p.col \in {"row", "close", "list", "button"} BY DEF Points
    <2>3. CASE InSidebar(p) BY <2>1, <2>3, SidebarMeansShown
    <2>4. CASE ~InSidebar(p) /\ ~(p.col = "list" /\ p.y < ListTop)
      <3>1. p.col = "button" \/ (p.col = "list" /\ ~(p.y < ListTop))
        BY <2>2, <2>4 DEF InSidebar
      <3> QED BY <2>1, <3>1, ListMeansShown
    <2> QED BY <2>3, <2>4
  <1> QED BY <1>1, SidebarInvariant, PTL

\* toggle_mount takes the selection, not what the button was painted for: they are the
\* same volume, or nothing is mounted.
THEOREM MountsTheShownVolume == Spec => []MountsWhatIsShown
  <1>1. SidebarIInv => MountsWhatIsShown
    <2> SUFFICES ASSUME SidebarIInv, hits.list.button, ToMount # <<>>, ~picked
                 PROVE  ToMount = Painted
      BY DEF MountsWhatIsShown, Painted
    <2>1. VolumeSelected /\ ToMount = Selected BY DEF ToMount
    <2>2. sel.vol # 0 /\ Parts(disks[sel.disk]) # <<>>
      BY <2>1, VolumeSelectedIs DEF SidebarIInv
    <2> QED BY <2>1, <2>2 DEF SidebarIInv, ButtonInv
  <1> QED BY <1>1, SidebarInvariant, PTL
=============================================================================
