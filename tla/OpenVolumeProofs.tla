-------------------------- MODULE OpenVolumeProofs --------------------------
(***************************************************************************)
(* Opening a container and a volume of it.                                 *)
(*                                                                         *)
(* First the list of partitions, the choice of the partition and the       *)
(* volume, the FILE the readers share and the checksum, for every table,   *)
(* every block size, every width of words and every number of partitions   *)
(* and volumes.  Then the scan of the descriptor area, which finds the     *)
(* newest complete checkpoint, for every size of the two rings, every      *)
(* number of map blocks, and every sequence of writes, crashes and mounts. *)
(***************************************************************************)
EXTENDS OpenVolume, Checkpoint, NaturalsInduction, FiniteSetTheorems, SequenceTheorems,
        WellFoundedInduction, TLAPS

-----------------------------------------------------------------------------
(* Finite sets of numbers *)

HasSmallest(F) == \E S \in F : \A T \in F : T \subseteq S => T = S

\* Induction over finite sets: a family of subsets of B that is not empty has a
\* member of which no other member is a subset.
LEMMA SmallestSubset ==
    ASSUME NEW B, IsFiniteSet(B), NEW F, F \subseteq SUBSET B, F # {}
    PROVE  HasSmallest(F)
  <1> DEFINE R == StrictSubsetOrdering(B)
  <1>1. IsWellFoundedOn(R, SUBSET B)
    BY FS_StrictSubsetOrderingWellFounded, FS_FiniteSubsetsOfFinite, Zenon
  <1>2. \A S, T \in SUBSET B : T \subseteq S /\ T # S => <<T, S>> \in R
    BY DEF StrictSubsetOrdering
  <1> HIDE DEF R
  <1>3. PICK S \in F : \A T \in F : ~(<<T, S>> \in R) BY <1>1, WFMin, Zenon
  <1>4. ASSUME NEW T \in F, T \subseteq S PROVE T = S
    BY <1>2, <1>3, <1>4, Zenon
  <1> QED BY <1>4, Zenon DEF HasSmallest

LEMMA FiniteSetHasMax ==
    ASSUME NEW B \in SUBSET Int, IsFiniteSet(B), B # {}
    PROVE  \E m \in B : \A p \in B : p <= m
  <1> SUFFICES ASSUME ~(\E m \in B : \A p \in B : p <= m) PROVE FALSE OBVIOUS
  <1> DEFINE F == {S \in SUBSET B : S # {} /\ ~(\E m \in S : \A p \in S : p <= m)}
  <1>1. F \subseteq SUBSET B /\ F # {}
    <2>1. B \in F OBVIOUS
    <2> QED BY <2>1
  <1>2. HasSmallest(F)
    <2> HIDE DEF F
    <2> QED BY <1>1, SmallestSubset, Zenon
  <1>3. PICK S \in F : \A T \in F : T \subseteq S => T = S BY <1>2 DEF HasSmallest
  <1>4. PICK x \in S : TRUE OBVIOUS
  <1>5. S \ {x} \notin F BY <1>3, <1>4
  <1>6. CASE S \ {x} = {}
    <2>1. \A p \in S : p = x BY <1>6
    <2> QED BY <1>4, <2>1
  <1>7. CASE S \ {x} # {}
    <2>1. PICK m \in S \ {x} : \A p \in S \ {x} : p <= m BY <1>5, <1>7
    <2>2. m \in Int /\ x \in Int /\ S \subseteq Int BY <1>4
    <2>3. CASE x <= m
      <3>1. \A p \in S : p <= m BY <2>1, <2>3
      <3> QED BY <3>1
    <2>4. CASE m <= x
      <3>1. \A p \in S : p <= x BY <2>1, <2>2, <2>4
      <3> QED BY <1>4, <3>1
    <2> QED BY <2>2, <2>3, <2>4
  <1> QED BY <1>6, <1>7

IsInOrder(s, S) ==
    /\ s \in [1 .. Cardinality(S) -> S]
    /\ \A p \in S : \E m \in DOMAIN s : s[m] = p
    /\ \A m, n \in DOMAIN s : m < n => s[m] < s[n]

\* Every finite set of positions has an order on disk.
LEMMA OrderExists ==
    ASSUME NEW B \in SUBSET Int, IsFiniteSet(B)
    PROVE  \E s : IsInOrder(s, B)
  <1> SUFFICES ASSUME ~(\E s : IsInOrder(s, B)) PROVE FALSE OBVIOUS
  <1> DEFINE F == {S \in SUBSET B : ~(\E s : IsInOrder(s, S))}
  <1>1. F \subseteq SUBSET B /\ F # {}
    <2>1. B \in F OBVIOUS
    <2> QED BY <2>1
  <1>2. HasSmallest(F)
    <2> HIDE DEF F
    <2> QED BY <1>1, SmallestSubset, Zenon
  <1>3. PICK S \in F : \A T \in F : T \subseteq S => T = S BY <1>2 DEF HasSmallest
  <1>4. IsFiniteSet(S) /\ S \subseteq Int BY FS_Subset
  <1>5. CASE S = {}
    <2>1. Cardinality(S) = 0 BY <1>5, FS_EmptySet
    <2>2. IsInOrder(<<>>, S) BY <1>5, <2>1 DEF IsInOrder
    <2> QED BY <2>2
  <1>6. CASE S # {}
    <2>1. PICK x \in S : \A p \in S : p <= x BY <1>4, <1>6, FiniteSetHasMax
    <2> DEFINE T == S \ {x}
               n == Cardinality(T)
    <2>2. PICK t : IsInOrder(t, T) BY <1>3, <2>1
    <2>3. IsFiniteSet(T) /\ n \in Nat /\ Cardinality(S) = n + 1
      <3>1. IsFiniteSet(T) /\ n = Cardinality(S) - 1 BY <1>4, <2>1, FS_RemoveElement
      <3>2. n \in Nat /\ Cardinality(S) \in Nat BY <1>4, <3>1, FS_CardinalityType
      <3> QED BY <3>1, <3>2
    <2> DEFINE s == [m \in 1 .. n + 1 |-> IF m = n + 1 THEN x ELSE t[m]]
    <2>4. t \in [1 .. n -> T] BY <2>2 DEF IsInOrder
    <2> HIDE DEF n, T
    <2>5. T \subseteq S /\ S \subseteq T \cup {x} /\ \A p \in T : p < x
      BY <1>4, <2>1 DEF T
    <2>6. s \in [1 .. n + 1 -> S]
      <3>1. ASSUME NEW m \in 1 .. n + 1, m # n + 1 PROVE t[m] \in S
        <4>1. m \in 1 .. n BY <2>3, <3>1
        <4> QED BY <2>4, <2>5, <4>1
      <3> QED BY <2>1, <3>1
    <2>7. \A p \in S : \E m \in 1 .. n + 1 : s[m] = p
      <3> SUFFICES ASSUME NEW p \in S PROVE \E m \in 1 .. n + 1 : s[m] = p OBVIOUS
      <3>1. CASE p = x BY <2>3, <3>1
      <3>2. CASE p \in T
        <4>1. PICK m \in 1 .. n : t[m] = p BY <2>2, <2>4, <3>2 DEF IsInOrder
        <4>2. m \in 1 .. n + 1 /\ m # n + 1 BY <2>3
        <4> QED BY <4>1, <4>2
      <3> QED BY <2>5, <3>1, <3>2
    <2>8. ASSUME NEW l \in 1 .. n + 1, NEW m \in 1 .. n + 1, l < m PROVE s[l] < s[m]
      <3>1. l \in 1 .. n /\ s[l] = t[l] /\ t[l] \in T BY <2>3, <2>4, <2>8
      <3>2. CASE m = n + 1 BY <2>5, <3>1, <3>2
      <3>3. CASE m # n + 1
        <4>1. m \in 1 .. n /\ s[m] = t[m] BY <2>3, <3>3
        <4> QED BY <2>2, <2>4, <2>8, <3>1, <4>1 DEF IsInOrder
      <3> QED BY <3>2, <3>3
    <2>9. DOMAIN s = 1 .. n + 1 OBVIOUS
    <2> HIDE DEF s
    <2>10. IsInOrder(s, S) BY <2>3, <2>6, <2>7, <2>8, <2>9 DEF IsInOrder
    <2> QED BY <2>10
  <1> QED BY <1>5, <1>6

LEMMA InDiskOrderIs ==
    ASSUME NEW S \in SUBSET Int, IsFiniteSet(S)
    PROVE  IsInOrder(InDiskOrder(S), S)
  <1> DEFINE P(s) == /\ \A p \in S : \E m \in DOMAIN s : s[m] = p
                     /\ \A m, n \in DOMAIN s : m < n => s[m] < s[n]
  <1>1. \E s \in [1 .. Cardinality(S) -> S] : P(s) BY OrderExists DEF IsInOrder
  <1>2. InDiskOrder(S) = CHOOSE s \in [1 .. Cardinality(S) -> S] : P(s)
    BY DEF InDiskOrder
  <1> HIDE DEF P
  <1>3. InDiskOrder(S) \in [1 .. Cardinality(S) -> S] /\ P(InDiskOrder(S))
    BY <1>1, <1>2, Zenon
  <1> QED BY <1>3 DEF P, IsInOrder
-----------------------------------------------------------------------------
(* The partition table *)

\* A table of which the first block holds all the used entries, and of which what
\* lies behind it is either out of the loop's reach or unused.
FirstBlockHoldsAll ==
    /\ used \cap InTable \subseteq 0 .. PerBlock - 1
    /\ count >= (PerBlock + 1) * PerBlock \/ used \subseteq 0 .. PerBlock - 1

\* The inductive invariant of the loop: what is listed lies before the block that
\* is read next, and nothing is added once all the used entries are listed.
TableIInv ==
    /\ count \in Entries
    /\ used \subseteq Positions
    /\ num_left \in Int /\ num_left <= count
    /\ partitions \in Seq(Int)
    /\ loop = "done" => num_left <= 0
    /\ InOrder
    /\ \A m \in DOMAIN partitions : partitions[m] < Len(partitions) * PerBlock
    /\ FirstBlockHoldsAll =>
          \/ num_left = count /\ partitions = <<>>
          \/ /\ Listed = used \cap InTable
             /\ count >= (PerBlock + 1) * PerBlock => Len(partitions) <= PerBlock

LEMMA TimesMonotone ==
    ASSUME NEW n \in Nat, NEW a \in Nat, NEW b \in Nat, a <= b
    PROVE  a * n <= b * n /\ (a + 1) * n = a * n + n /\ a * n \in Nat /\ b * n \in Nat
  <1>1. (a + 1) * n = a * n + n OBVIOUS
  <1>2. PICK d \in Nat : b = a + d BY b - a \in Nat
  <1>3. b * n = a * n + d * n BY <1>2
  <1>4. d * n \in Nat /\ a * n \in Nat OBVIOUS
  <1> QED BY <1>1, <1>3, <1>4

\* What a block contributes: all of its used entries, in order.
LEMMA FoundIs ==
    ASSUME NEW b \in Nat, used \subseteq Positions, num_left \in Int, num_left > 0
    PROVE  /\ ToTake \in 1 .. PerBlock /\ ToTake <= num_left
           /\ UsedOf(b) = used \cap (b * PerBlock .. b * PerBlock + ToTake - 1)
           /\ b * PerBlock \in Nat
           /\ Found(b) \in Seq(Int)
           /\ Len(Found(b)) <= PerBlock
           /\ {Found(b)[m] : m \in DOMAIN Found(b)} = UsedOf(b)
           /\ \A m \in 1 .. Len(Found(b)) : Found(b)[m] \in UsedOf(b)
           /\ \A l, m \in 1 .. Len(Found(b)) : l < m => Found(b)[l] < Found(b)[m]
           /\ UsedOf(b) = {} => Found(b) = <<>>
  <1>1. PerBlock \in Nat \ {0} BY TableAssumption
  <1>2. ToTake \in 1 .. PerBlock /\ ToTake <= num_left BY <1>1 DEF ToTake
  <1>3. b * PerBlock \in Nat BY <1>1, TimesMonotone
  <1> DEFINE S == UsedOf(b)
             lo == b * PerBlock
             hi == lo + ToTake - 1
             I == lo .. hi
             s == Found(b)
  <1>4. S \subseteq I /\ S \subseteq Int BY <1>2, <1>3 DEF UsedOf
  <1>5. IsFiniteSet(I) /\ Cardinality(I) = ToTake
    <2>1. lo \in Int /\ hi \in Int /\ ~(lo > hi) /\ hi - lo + 1 = ToTake BY <1>2, <1>3
    <2> HIDE DEF lo, hi
    <2>2. IsFiniteSet(I) /\ Cardinality(I) = IF lo > hi THEN 0 ELSE hi - lo + 1
      BY <2>1, FS_Interval, Zenon
    <2> QED BY <2>1, <2>2, Zenon
  <1> HIDE DEF I
  <1>6. IsFiniteSet(S) /\ Cardinality(S) <= ToTake /\ Cardinality(S) \in Nat
    BY <1>4, <1>5, FS_Subset, FS_CardinalityType
  <1>7. IsInOrder(s, S) BY <1>4, <1>6, InDiskOrderIs DEF Found
  <1> DEFINE n == Cardinality(S)
  <1> HIDE DEF S, s, n
  <1>8. s \in [1 .. n -> S] /\ n \in Nat /\ n <= PerBlock
    BY <1>1, <1>2, <1>6, <1>7 DEF IsInOrder, n
  <1>9. s \in Seq(Int) /\ Len(s) = n /\ DOMAIN s = 1 .. n
    <2>1. S \subseteq Int BY <1>4 DEF S
    <2>2. s \in [1 .. n -> Int] BY <1>8, <2>1
    <2> QED BY <1>8, <2>2
  <1>10. {s[m] : m \in DOMAIN s} = S BY <1>7, <1>8 DEF IsInOrder
  <1>11. \A l, m \in 1 .. n : l < m => s[l] < s[m] BY <1>7, <1>8 DEF IsInOrder
  <1>12. S = {} => s = <<>>
    <2> SUFFICES ASSUME S = {} PROVE s = <<>> OBVIOUS
    <2>1. 1 .. n = {} BY <1>8
    <2>2. n = 0 BY <1>8, <2>1
    <2> QED BY <1>9, <2>2
  <1>13. \A m \in 1 .. n : s[m] \in S BY <1>8
  <1> QED BY <1>1, <1>2, <1>3, <1>8, <1>9, <1>10, <1>11, <1>12, <1>13 DEF S, s, UsedOf

LEMMA TableInit == Init => TableIInv
  <1> SUFFICES ASSUME Init PROVE TableIInv OBVIOUS
  <1>1. count \in Nat BY TableAssumption DEF Init
  <1>2. DOMAIN partitions = {} BY DEF Init
  <1> QED BY <1>1, <1>2 DEF Init, TableIInv, InOrder

LEMMA ReadBlockIInv == TableIInv /\ ReadBlock => TableIInv'
  <1> SUFFICES ASSUME TableIInv, ReadBlock PROVE TableIInv' OBVIOUS
  <1> DEFINE b == Len(partitions)
             f == Found(b)
  <1>1. /\ num_left > 0 /\ partitions' = partitions \o f /\ num_left' = num_left - ToTake
        /\ UNCHANGED <<count, used, loop>>
    BY DEF ReadBlock, BlockToRead
  <1>2. /\ used \subseteq Positions /\ num_left \in Int /\ num_left <= count
        /\ partitions \in Seq(Int) /\ count \in Nat /\ b \in Nat /\ PerBlock \in Nat \ {0}
        /\ DOMAIN partitions = 1 .. b
    BY TableAssumption DEF TableIInv
  <1>3. /\ ToTake \in 1 .. PerBlock /\ ToTake <= num_left
        /\ UsedOf(b) = used \cap (b * PerBlock .. b * PerBlock + ToTake - 1)
        /\ b * PerBlock \in Nat
        /\ f \in Seq(Int)
        /\ Len(f) <= PerBlock
        /\ {f[m] : m \in DOMAIN f} = UsedOf(b)
        /\ \A m \in 1 .. Len(f) : f[m] \in UsedOf(b)
        /\ \A l, m \in 1 .. Len(f) : l < m => f[l] < f[m]
        /\ UsedOf(b) = {} => f = <<>>
    BY <1>1, <1>2, FoundIs
  <1> HIDE DEF f
  <1>4. /\ partitions' \in Seq(Int) /\ Len(partitions') = b + Len(f)
        /\ DOMAIN partitions' = 1 .. b + Len(f) /\ Len(f) \in Nat
        /\ \A m \in 1 .. b : partitions'[m] = partitions[m]
        /\ \A m \in b + 1 .. b + Len(f) : m - b \in 1 .. Len(f) /\ partitions'[m] = f[m - b]
    BY <1>1, <1>2, <1>3
  <1>5. \A m \in 1 .. b : partitions[m] < b * PerBlock /\ partitions[m] \in used
    BY <1>2 DEF TableIInv, InOrder
  <1>6. \A m \in 1 .. Len(f) : /\ f[m] \in used /\ f[m] \in Int
                               /\ b * PerBlock <= f[m]
                               /\ f[m] < b * PerBlock + PerBlock
    <2> SUFFICES ASSUME NEW m \in 1 .. Len(f)
                 PROVE  /\ f[m] \in used /\ f[m] \in Int
                        /\ b * PerBlock <= f[m]
                        /\ f[m] < b * PerBlock + PerBlock
      OBVIOUS
    <2>1. f[m] \in used /\ f[m] \in b * PerBlock .. b * PerBlock + ToTake - 1 BY <1>3
    <2> QED BY <1>2, <1>3, <2>1
  <1>7. InOrder'
    <2>1. ASSUME NEW m \in 1 .. b + Len(f) PROVE partitions'[m] \in used
      <3>1. CASE m \in 1 .. b BY <1>4, <1>5, <3>1
      <3>2. CASE m \in b + 1 .. b + Len(f) BY <1>4, <1>6, <3>2
      <3> QED BY <1>2, <1>4, <3>1, <3>2
    <2>2. ASSUME NEW l \in 1 .. b + Len(f), NEW m \in 1 .. b + Len(f), l < m
          PROVE  partitions'[l] < partitions'[m]
      <3>1. CASE m \in 1 .. b
        <4>1. l \in 1 .. b BY <2>2, <3>1
        <4>2. partitions[l] < partitions[m] BY <1>2, <2>2, <3>1, <4>1 DEF TableIInv, InOrder
        <4> QED BY <1>4, <3>1, <4>1, <4>2
      <3>2. CASE l \in 1 .. b /\ m \in b + 1 .. b + Len(f)
        <4>1. /\ partitions'[l] = partitions[l] /\ partitions[l] < b * PerBlock
              /\ m - b \in 1 .. Len(f) /\ partitions'[m] = f[m - b]
          BY <1>4, <1>5, <3>2
        <4>2. b * PerBlock <= f[m - b] /\ f[m - b] \in Int /\ partitions[l] \in Int
          BY <1>2, <1>6, <3>2, <4>1
        <4>3. PICK c \in Int : c = b * PerBlock BY <1>3
        <4>4. partitions[l] < f[m - b] BY <4>1, <4>2, <4>3
        <4> QED BY <4>1, <4>4
      <3>3. CASE l \in b + 1 .. b + Len(f) /\ m \in b + 1 .. b + Len(f)
        <4>1. /\ l - b \in 1 .. Len(f) /\ m - b \in 1 .. Len(f) /\ l - b < m - b
              /\ partitions'[l] = f[l - b] /\ partitions'[m] = f[m - b]
          BY <1>2, <1>4, <2>2, <3>3, SMTT(30)
        <4> QED BY <1>3, <4>1
      <3> QED BY <1>2, <1>4, <2>2, <3>1, <3>2, <3>3, SMTT(30)
    <2> QED BY <1>1, <1>4, <2>1, <2>2 DEF InOrder
  <1>8. \A m \in 1 .. b + Len(f) : partitions'[m] < (b + Len(f)) * PerBlock
    <2> SUFFICES ASSUME NEW m \in 1 .. b + Len(f)
                 PROVE  partitions'[m] < (b + Len(f)) * PerBlock
      OBVIOUS
    <2>1. b * PerBlock <= (b + Len(f)) * PerBlock /\ (b + Len(f)) * PerBlock \in Nat
      BY <1>2, <1>4, TimesMonotone
    <2>2. CASE m \in 1 .. b
      <3>1. partitions'[m] = partitions[m] /\ partitions[m] < b * PerBlock
            /\ partitions[m] \in Int
        BY <1>2, <1>4, <1>5, <2>2
      <3> QED BY <1>3, <2>1, <3>1
    <2>3. CASE m \in b + 1 .. b + Len(f)
      <3>1. m - b \in 1 .. Len(f) /\ partitions'[m] = f[m - b] /\ b + 1 <= b + Len(f)
        BY <1>2, <1>4, <2>3, SMTT(30)
      <3>2. /\ (b + 1) * PerBlock <= (b + Len(f)) * PerBlock
            /\ (b + 1) * PerBlock = b * PerBlock + PerBlock
        <4>1. b + 1 \in Nat /\ b + Len(f) \in Nat /\ PerBlock \in Nat BY <1>2, <1>4
        <4>2. (b + 1) * PerBlock <= (b + Len(f)) * PerBlock
          BY <3>1, <4>1, TimesMonotone, Zenon
        <4>3. b <= b BY <1>2
        <4>4. (b + 1) * PerBlock = b * PerBlock + PerBlock
          BY <1>2, <4>1, <4>3, TimesMonotone, Zenon
        <4> QED BY <4>2, <4>4, Zenon
      <3>3. f[m - b] < b * PerBlock + PerBlock /\ f[m - b] \in Int BY <1>6, <3>1
      <3> QED BY <1>2, <1>3, <2>1, <3>1, <3>2, <3>3, SMTT(30)
    <2> QED BY <1>2, <1>4, <2>2, <2>3
  <1>9. FirstBlockHoldsAll' =>
          /\ Listed' = (used \cap InTable)'
          /\ count' >= (PerBlock + 1) * PerBlock => Len(partitions') <= PerBlock
    <2> SUFFICES ASSUME FirstBlockHoldsAll
                 PROVE  /\ Listed' = used \cap InTable
                        /\ count >= (PerBlock + 1) * PerBlock => Len(partitions') <= PerBlock
      BY <1>1 DEF FirstBlockHoldsAll, InTable
    <2>1. /\ used \cap InTable \subseteq 0 .. PerBlock - 1
          /\ count >= (PerBlock + 1) * PerBlock \/ used \subseteq 0 .. PerBlock - 1
      BY DEF FirstBlockHoldsAll
    <2>2. 0 * PerBlock = 0 /\ used \subseteq Int BY <1>2 DEF Positions
    <2>3. CASE num_left = count /\ partitions = <<>>
      <3>1. b = 0 BY <2>3
      <3>2. UsedOf(b) = used \cap (0 .. ToTake - 1) BY <1>2, <1>3, <2>2, <3>1
      <3>3. ToTake = IF count < PerBlock THEN count ELSE PerBlock BY <2>3 DEF ToTake
      <3>4. UsedOf(b) = used \cap InTable BY <1>2, <2>1, <3>2, <3>3 DEF InTable
      <3>5. \A m \in 1 .. Len(f) : partitions'[m] = f[m]
        <4> SUFFICES ASSUME NEW m \in 1 .. Len(f) PROVE partitions'[m] = f[m] OBVIOUS
        <4>1. m \in b + 1 .. b + Len(f) /\ m - b = m BY <1>4, <3>1
        <4> QED BY <1>4, <4>1
      <3>6. DOMAIN partitions' = 1 .. Len(f) /\ Len(partitions') = Len(f)
            /\ DOMAIN f = 1 .. Len(f)
        BY <1>3, <1>4, <3>1
      <3>7. Listed' = {f[m] : m \in DOMAIN f} BY <3>5, <3>6 DEF Listed
      <3> QED BY <1>3, <3>4, <3>6, <3>7
    <2>4. CASE /\ Listed = used \cap InTable
               /\ count >= (PerBlock + 1) * PerBlock => Len(partitions) <= PerBlock
      <3>1. UsedOf(b) = {}
        <4> SUFFICES ASSUME NEW p \in UsedOf(b) PROVE FALSE OBVIOUS
        <4>1. /\ p \in used /\ p \in Int /\ b * PerBlock <= p
              /\ p <= b * PerBlock + ToTake - 1
          BY <1>2, <1>3
        <4>2. CASE b = 0
          <5>1. p \in InTable BY <1>2, <1>3, <2>2, <4>1, <4>2 DEF InTable
          <5>2. Listed = {}
            <6>1. DOMAIN partitions = {} BY <1>2, <4>2
            <6> QED BY <6>1 DEF Listed
          <5> QED BY <2>4, <4>1, <5>1, <5>2
        <4>3. CASE b # 0
          <5>1. 1 <= b /\ 1 * PerBlock = PerBlock BY <1>2, <4>3
          <5>2. PerBlock <= b * PerBlock BY <1>2, <5>1, TimesMonotone
          <5>3. p \notin 0 .. PerBlock - 1 BY <1>2, <1>3, <4>1, <5>2
          <5>4. count >= (PerBlock + 1) * PerBlock /\ b <= PerBlock
            BY <2>1, <2>4, <4>1, <5>3
          <5>5. /\ b * PerBlock <= PerBlock * PerBlock
                /\ (PerBlock + 1) * PerBlock = PerBlock * PerBlock + PerBlock
                /\ PerBlock * PerBlock \in Nat
            BY <1>2, <5>4, TimesMonotone
          <5>6. PICK c \in Nat, q \in Nat : c = b * PerBlock /\ q = PerBlock * PerBlock
            BY <1>3, <5>5
          <5>7. count >= q + PerBlock /\ c <= q /\ c <= p /\ p <= c + ToTake - 1
            BY <4>1, <5>4, <5>5, <5>6
          <5>8. p < count /\ 0 <= p BY <1>2, <1>3, <4>1, <5>7
          <5> QED BY <1>2, <2>1, <4>1, <5>3, <5>8 DEF InTable
        <4> QED BY <4>2, <4>3
      <3>2. partitions' = partitions
        <4>1. f = <<>> BY <1>3, <3>1
        <4>2. partitions' = partitions \o <<>> BY <1>1, <4>1
        <4> QED BY <1>2, <4>2
      <3> QED BY <2>4, <3>2 DEF Listed
    <2> QED BY <2>3, <2>4 DEF TableIInv
  <1>10. num_left' \in Int /\ num_left' <= count /\ num_left' < num_left BY <1>1, <1>2, <1>3
  <1>11. loop' # "done" BY <1>1, <1>2 DEF TableIInv
  <1>12. count \in Entries BY DEF TableIInv
  <1> HIDE DEF b
  <1> QED BY <1>1, <1>2, <1>4, <1>7, <1>8, <1>9, <1>10, <1>11, <1>12 DEF TableIInv, b

\* What the loop leaves unchanged when it is over or does not run.
LEMMA TableFrame == TableIInv /\ UNCHANGED vars => TableIInv'
  BY DEF vars, TableIInv, InOrder, FirstBlockHoldsAll, Listed, InTable

LEMMA NextTable == TableIInv /\ Next => TableIInv'
  <1>1. TableIInv /\ Finish => TableIInv'
    BY DEF Finish, TableIInv, InOrder, FirstBlockHoldsAll, Listed, InTable
  <1> QED BY <1>1, ReadBlockIInv DEF Next

\* All of a table whose first block has all its used entries.
LEMMA TableIsListed ==
    ASSUME TableIInv, loop = "done"
    PROVE  TableListed /\ (FirstBlockHoldsAll => Listed = used \cap InTable)
  <1>1. FirstBlockHoldsAll => Listed = used \cap InTable
    <2>1. num_left <= 0 /\ count \in Nat BY TableAssumption DEF TableIInv
    <2>2. CASE num_left = count /\ partitions = <<>>
      <3>1. InTable = {} BY <2>1, <2>2 DEF InTable
      <3>2. Listed = {} BY <2>2 DEF Listed
      <3> QED BY <3>1, <3>2
    <2> QED BY <2>2 DEF TableIInv
  <1>2. FirstBlockListed BY <1>1 DEF FirstBlockListed, FirstBlockHoldsAll, Listed
  <1> QED BY <1>1, <1>2 DEF TableListed, TableIInv
-----------------------------------------------------------------------------
(* The readers and their FILE *)

Steps == {"start", "open", "table", "choose", "load", "volumes", "get volume", "serving",
          "undefined", "leaving", "ended"}

Readers == {"opened", "disk", "table", "reader", "part", "volume", "chosen"}

\* Which readers there are at each step of the verb.
ReadersInv ==
    /\ pc \in Steps
    /\ readers \in Seq(Readers)
    /\ pc \in {"start", "open"} => readers = <<>>
    /\ pc = "table" => readers = <<"opened", "disk", "table">>
    /\ pc \in {"choose", "load"} => readers = <<"disk">>
    /\ pc = "volumes" => Len(readers) >= 2
    /\ pc \in {"get volume", "serving"} => readers # <<>>
    /\ FileIsShared

LEMMA DestroyShares ==
    ASSUME FileIsShared, readers # <<>>, NEW rest, Destroy(rest)
    PROVE  FileIsShared' /\ readers' = rest
  BY DEF FileIsShared, Destroy, LastReader

\* The sequences of readers the verb builds.
LEMMA BuiltReaders ==
    /\ <<>> \in Seq(Readers)
    /\ <<"opened", "disk", "table">> \in Seq(Readers) /\ <<"opened", "disk", "table">> # <<>>
    /\ <<"disk">> \in Seq(Readers) /\ <<"disk">> # <<>> /\ Len(<<"disk">>) = 1
    /\ <<"reader", "part">> \in Seq(Readers) /\ Len(<<"reader", "part">>) = 2
  BY DEF Readers

LEMMA SomeReader ==
    ASSUME NEW some \in Seq(Readers), Len(some) # 0
    PROVE  some # <<>>
  OBVIOUS

LEMMA OneMoreReader ==
    ASSUME NEW name \in Readers, NEW some \in Seq(Readers)
    PROVE  Append(some, name) \in Seq(Readers) /\ Len(Append(some, name)) = Len(some) + 1
  OBVIOUS

LEMMA OneReaderLess ==
    ASSUME NEW some \in Seq(Readers), some # <<>>
    PROVE  /\ Tail(some) \in Seq(Readers) /\ Len(Tail(some)) = Len(some) - 1
           /\ Front(some) \in Seq(Readers)
  BY DEF Front

LEMMA ReadersInit == VerbInit => ReadersInv
  BY BuiltReaders DEF VerbInit, ReadersInv, Steps, FileIsShared

LEMMA ReadersStep == ReadersInv /\ VerbNext => ReadersInv'
  <1> SUFFICES ASSUME ReadersInv, VerbNext PROVE ReadersInv' OBVIOUS
  <1>1. CASE StartVerb
    BY <1>1 DEF StartVerb, Leave, ReadersInv, Steps, FileIsShared
  <1>2. CASE OpenDisk
    <2>1. CASE Leave /\ UNCHANGED <<readers, file>>
      BY <2>1, <1>2 DEF Leave, ReadersInv, Steps, FileIsShared
    <2>2. CASE readers' = <<"opened", "disk", "table">> /\ file' = "open" /\ StartTable
      BY <2>2, BuiltReaders DEF StartTable, Leave, ReadersInv, Steps, FileIsShared
    <2> QED BY <1>2, <2>1, <2>2 DEF OpenDisk
  <1>3. CASE ReadTable
    <2>1. UNCHANGED <<pc, readers, file>> BY <1>3 DEF ReadTable, verb
    <2> QED BY <2>1 DEF ReadersInv, FileIsShared
  <1>4. CASE TableRead
    <2>1. pc' = "choose" /\ Destroy(<<"disk">>) /\ readers # <<>>
      BY <1>4 DEF TableRead, ReadersInv
    <2>2. FileIsShared' /\ readers' = <<"disk">> BY <2>1, DestroyShares DEF ReadersInv
    <2> QED BY <2>1, <2>2, BuiltReaders DEF ReadersInv, Steps
  <1>5. CASE GetPartition
    <2>1. (pc' = "load" \/ Leave) /\ pc = "choose" /\ UNCHANGED <<readers, file>>
      BY <1>5 DEF GetPartition
    <2> QED BY <2>1 DEF Leave, ReadersInv, Steps, FileIsShared
  <1>6. CASE LoadPartition
    <2>1. UNCHANGED file /\ readers = <<"disk">> /\ pc = "load"
      BY <1>6 DEF LoadPartition, ReadersInv
    <2>2. CASE Leave /\ UNCHANGED readers
      BY <2>1, <2>2 DEF Leave, ReadersInv, Steps, FileIsShared
    <2>3. CASE readers' = readers \o <<"reader", "part">> /\ ReadVolumeList
      <3>1. readers' \in Seq(Readers) /\ Len(readers') = 3
        BY <2>1, <2>3, BuiltReaders, ConcatProperties
      <3>2. pc' \in {"volumes", "leaving"} BY <2>3 DEF ReadVolumeList, Leave
      <3>3. readers # <<>> /\ readers' # <<>> BY <2>1, <3>1, BuiltReaders, SomeReader
      <3>4. FileIsShared' BY <2>1, <3>3 DEF ReadersInv, FileIsShared
      <3>5. Len(readers') >= 2 BY <3>1
      <3>6. readers' \in Seq(Readers) BY <3>1
      <3> QED BY <3>2, <3>4, <3>5, <3>6 DEF ReadersInv, Steps
    <2> QED BY <1>6, <2>2, <2>3 DEF LoadPartition
  <1>7. CASE LoadVolume
    <2>1. UNCHANGED file /\ pc = "volumes" /\ Len(readers) >= 2 /\ readers \in Seq(Readers)
      BY <1>7 DEF LoadVolume, ReadersInv
    <2>2. CASE Leave /\ UNCHANGED readers
      BY <2>1, <2>2 DEF Leave, ReadersInv, Steps, FileIsShared
    <2>3. CASE readers' = Append(readers, "volume") /\ UNCHANGED pc
      <3>1. /\ readers' \in Seq(Readers) /\ Len(readers') >= 2
            /\ readers' # <<>> /\ readers # <<>>
        BY <2>1, <2>3, OneMoreReader DEF Readers
      <3> QED BY <2>1, <2>3, <3>1 DEF ReadersInv, Steps, FileIsShared
    <2> QED BY <1>7, <2>2, <2>3 DEF LoadVolume
  <1>8. CASE ReturnPartition
    <2>1. /\ pc' = "get volume" /\ Destroy(Tail(readers)) /\ Len(readers) >= 2
          /\ readers \in Seq(Readers)
      BY <1>8 DEF ReturnPartition, DiskGoes, ReadersInv
    <2>2. Len(readers) \in Nat BY <2>1, LenProperties
    <2>3. Len(readers) # 0 /\ Len(readers) - 1 # 0
      <3>1. Len(readers) >= 2 BY <2>1
      <3> QED BY <3>1, <2>2
    <2>4. readers # <<>> BY <2>1, <2>3, SomeReader, Zenon
    <2>5. Tail(readers) \in Seq(Readers) /\ Len(Tail(readers)) = Len(readers) - 1
      BY <2>1, <2>4, OneReaderLess
    <2>6. Len(Tail(readers)) # 0 BY <2>5, <2>3
    <2>7. Tail(readers) # <<>> BY <2>5, <2>6, SomeReader, Zenon
    <2>8. FileIsShared' /\ readers' = Tail(readers)
      BY <2>1, <2>4, DestroyShares DEF ReadersInv
    <2> QED BY <2>1, <2>8, <2>5, <2>7 DEF ReadersInv, Steps
  <1>9. CASE GetVolume
    <2>1. UNCHANGED file /\ pc = "get volume" /\ readers # <<>> /\ readers \in Seq(Readers)
      BY <1>9 DEF GetVolume, ReadersInv
    <2>2. CASE pc' \in {"leaving", "undefined"} /\ UNCHANGED readers
      BY <2>1, <2>2 DEF ReadersInv, Steps, FileIsShared
    <2>3. CASE pc' = "serving" /\ readers' = Append(readers, "chosen")
      <3>1. readers' \in Seq(Readers) /\ Len(readers') = Len(readers) + 1
        BY <2>1, <2>3, OneMoreReader DEF Readers
      <3>2. Len(readers) \in Nat BY <2>1, LenProperties
      <3>3. Len(readers') # 0 BY <3>1, <3>2
      <3>4. readers' # <<>> BY <3>1, <3>3, SomeReader, Zenon
      <3> QED BY <2>1, <2>3, <3>1, <3>4 DEF ReadersInv, Steps, FileIsShared
    <2> QED BY <1>9, <2>2, <2>3 DEF GetVolume, Leave
  <1>10. CASE Handle
    BY <1>10 DEF Handle, Leave, ReadersInv, Steps, FileIsShared
  <1>11. CASE Unwind
    <2>1. CASE readers = <<>>
      BY <1>11, <2>1 DEF Unwind, ReadersInv, Steps, FileIsShared
    <2>2. CASE readers # <<>>
      <3>1. Destroy(Front(readers)) /\ UNCHANGED pc /\ pc = "leaving" BY <1>11, <2>2 DEF Unwind
      <3>2. FileIsShared' /\ readers' = Front(readers)
        BY <2>2, <3>1, DestroyShares DEF ReadersInv
      <3>3. Front(readers) \in Seq(Readers) BY <2>2, OneReaderLess DEF ReadersInv
      <3> QED BY <3>1, <3>2, <3>3 DEF ReadersInv
    <2> QED BY <2>1, <2>2
  <1> QED
    BY <1>1, <1>2, <1>3, <1>4, <1>5, <1>6, <1>7, <1>8, <1>9, <1>10, <1>11 DEF VerbNext

LEMMA ReadersStutter == ReadersInv /\ UNCHANGED verb => ReadersInv'
  BY DEF verb, ReadersInv, FileIsShared

-----------------------------------------------------------------------------
(* The partition and the volume *)

AfterTable == {"choose", "load", "volumes", "get volume", "serving"}

\* What has been chosen: nothing is taken for an APFS partition that is not used,
\* the partition is the only one that fits, and the list it is taken from is whole.
ChoiceInv ==
    /\ apfs \subseteq used
    /\ pc \in AfterTable => loop = "done"
    /\ pc \in AfterTable \ {"choose"} => Candidates = {partition}
    /\ volumes \in [loaded : Nat, of : Nat]
    /\ volume = <<>> \/ volume[1] \in Nat
    /\ pc = "serving" => IF volume # <<>> THEN volume[1] <= volumes.of ELSE volumes.of = 1

LEMMA ChoiceInit == VerbInit => ChoiceInv
  <1> SUFFICES ASSUME VerbInit PROVE ChoiceInv OBVIOUS
  <1>1. pc \notin AfterTable BY DEF VerbInit, AfterTable
  <1>2. volumes \in [loaded : Nat, of : Nat] BY DEF VerbInit, NoVolumes
  <1>3. apfs \subseteq used /\ volume = <<>> BY DEF VerbInit
  <1>4. pc # "serving" BY DEF VerbInit
  <1> QED BY <1>1, <1>2, <1>3, <1>4 DEF ChoiceInv

LEMMA CandidatesFinite == TableIInv => IsFiniteSet(Candidates)
  <1> SUFFICES ASSUME TableIInv PROVE IsFiniteSet(Candidates) OBVIOUS
  <1>1. Listed \subseteq Positions BY DEF TableIInv, InOrder, Listed
  <1>2. Candidates \subseteq Positions BY <1>1 DEF Candidates
  <1>3. 0 \in Int /\ DiskBlocks * PerBlock - 1 \in Int BY TableAssumption
  <1>4. IsFiniteSet(Positions) BY <1>3, FS_Interval, Zenon DEF Positions
  <1> QED BY <1>2, <1>4, FS_Subset

LEMMA ChoiceFrame ==
    ASSUME ChoiceInv, UNCHANGED <<vars, apfs, part, partition, volumes, volume>>,
           pc' \in {pc, "leaving", "ended", "undefined", "open", "table"}
    PROVE  ChoiceInv'
  BY ZenonT(30) DEF vars, ChoiceInv, AfterTable, Candidates, Listed

LEMMA ChoiceStep == TableIInv /\ ChoiceInv /\ VerbNext => ChoiceInv'
  <1> SUFFICES ASSUME TableIInv, ChoiceInv, VerbNext PROVE ChoiceInv' OBVIOUS
  <1>1. CASE StartVerb \/ OpenDisk \/ Handle \/ Unwind
    BY <1>1, ChoiceFrame DEF StartVerb, OpenDisk, StartTable, Handle, Unwind, Leave
  <1>2. CASE ReadTable
    <2>1. pc = "table" /\ UNCHANGED <<pc, apfs, volumes, volume>> BY <1>2 DEF ReadTable, verb
    <2>2. UNCHANGED used BY <1>2 DEF ReadTable, Next, ReadBlock, Finish
    <2> QED BY <2>1, <2>2 DEF ChoiceInv, AfterTable
  <1>3. CASE TableRead
    <2>1. pc' = "choose" /\ loop = "done" /\ UNCHANGED <<vars, volumes, volume>>
          /\ apfs' \subseteq used
      BY <1>3 DEF TableRead, ChoiceInv
    <2> QED BY <2>1 DEF ChoiceInv, AfterTable, vars
  <1>4. CASE GetPartition
    <2>1. pc = "choose" /\ UNCHANGED <<vars, apfs, part, volumes, volume>>
      BY <1>4 DEF GetPartition
    <2>2. UNCHANGED <<used, loop>> /\ Candidates' = Candidates
      BY <2>1 DEF vars, Candidates, Listed
    <2>3. CASE Cardinality(Candidates) = 1
      <3>1. partition' \in Candidates /\ pc' = "load" BY <1>4, <2>3 DEF GetPartition
      <3>2. \E p : Candidates = {p} BY <2>3, CandidatesFinite, FS_Singleton
      <3>3. Candidates = {partition'} BY <3>1, <3>2
      <3> QED BY <2>1, <2>2, <3>1, <3>3 DEF ChoiceInv, AfterTable
    <2>4. CASE Cardinality(Candidates) # 1
      BY <1>4, <2>1, <2>4, ChoiceFrame DEF GetPartition, Leave
    <2> QED BY <2>3, <2>4
  <1>5. CASE LoadPartition
    <2>1. pc = "load" /\ UNCHANGED <<vars, apfs, part, partition, volume>>
      BY <1>5 DEF LoadPartition
    <2>2. CASE Leave /\ UNCHANGED volumes BY <2>1, <2>2, ChoiceFrame DEF Leave
    <2>3. CASE ReadVolumeList
      <3>1. volumes' \in [loaded : Nat, of : Nat] /\ pc' \in {"volumes", "leaving"}
        BY <2>3, OpenAssumption DEF ReadVolumeList, Leave
      <3>2. UNCHANGED <<used, loop>> /\ Candidates' = Candidates
        BY <2>1 DEF vars, Candidates, Listed
      <3> QED BY <2>1, <3>1, <3>2 DEF ChoiceInv, AfterTable
    <2> QED BY <1>5, <2>2, <2>3 DEF LoadPartition
  <1>6. CASE LoadVolume
    <2>1. pc = "volumes" /\ UNCHANGED <<vars, apfs, part, partition, volume>>
          /\ pc' \in {"volumes", "leaving"}
      BY <1>6 DEF LoadVolume, Leave
    <2>2. volumes' \in [loaded : Nat, of : Nat] BY <1>6 DEF LoadVolume, ChoiceInv
    <2>3. UNCHANGED <<used, loop>> /\ Candidates' = Candidates
      BY <2>1 DEF vars, Candidates, Listed
    <2> QED BY <2>1, <2>2, <2>3 DEF ChoiceInv, AfterTable
  <1>7. CASE ReturnPartition
    <2>1. pc = "volumes" /\ UNCHANGED <<vars, apfs, part, partition, volumes>>
          /\ pc' = "get volume"
      BY <1>7 DEF ReturnPartition
    <2>2. volume' = <<>> \/ volume'[1] \in Nat
      <3>1. CASE volume' = <<>> BY <3>1
      <3>2. CASE volume' \in {<<v>> : v \in 1 .. volumes.of + 1}
        <4>1. PICK v \in 1 .. volumes.of + 1 : volume' = <<v>> BY <3>2
        <4>2. v \in Nat BY DEF ChoiceInv
        <4> QED BY <4>1, <4>2
      <3> QED BY <1>7, <3>1, <3>2 DEF ReturnPartition
    <2>3. UNCHANGED <<used, loop>> /\ Candidates' = Candidates
      BY <2>1 DEF vars, Candidates, Listed
    <2> QED BY <2>1, <2>2, <2>3 DEF ChoiceInv, AfterTable
  <1>8. CASE GetVolume
    <2>1. pc = "get volume" /\ UNCHANGED <<vars, apfs, part, partition, volumes, volume>>
      BY <1>8 DEF GetVolume
    <2>2. CASE pc' \in {"leaving", "undefined"} BY <2>1, <2>2, ChoiceFrame
    <2>3. CASE pc' = "serving"
      <3>1. IF volume = <<>> THEN ~(volumes.of > 1) /\ volumes.of # 0
            ELSE ~(volume[1] > volumes.of)
        BY <1>8, <2>3 DEF GetVolume, Ambiguous, Leave
      <3>2. volumes.of \in Nat /\ (volume = <<>> \/ volume[1] \in Nat) BY DEF ChoiceInv
      <3>3. IF volume # <<>> THEN volume[1] <= volumes.of ELSE volumes.of = 1
        BY <3>1, <3>2
      <3>4. UNCHANGED <<used, loop>> /\ Candidates' = Candidates
        BY <2>1 DEF vars, Candidates, Listed
      <3> QED BY <2>1, <2>3, <3>3, <3>4 DEF ChoiceInv, AfterTable
    <2> QED BY <1>8, <2>2, <2>3 DEF GetVolume, Leave
  <1> QED BY <1>1, <1>2, <1>3, <1>4, <1>5, <1>6, <1>7, <1>8 DEF VerbNext

LEMMA ServingIsMeant == TableIInv /\ ChoiceInv => ServesWhatIsMeant
  <1> SUFFICES ASSUME TableIInv, ChoiceInv, pc = "serving" PROVE ServesWhatIsMeant
    BY DEF ServesWhatIsMeant
  <1>1. loop = "done" /\ Candidates = {partition} BY DEF ChoiceInv, AfterTable
  <1>2. ASSUME part # <<>> PROVE partition = part[1]
    BY <1>1, <1>2 DEF Candidates
  <1>3. ASSUME part = <<>> PROVE apfs \cap Listed = {partition}
    BY <1>1, <1>3 DEF Candidates
  <1>4. ASSUME used \subseteq 0 .. PerBlock - 1 PROVE apfs \cap InTable = apfs \cap Listed
    <2>1. FirstBlockHoldsAll BY <1>4 DEF FirstBlockHoldsAll
    <2>2. Listed = used \cap InTable BY <1>1, <2>1, TableIsListed
    <2> QED BY <2>2 DEF ChoiceInv
  <1> QED BY <1>2, <1>3, <1>4 DEF ServesWhatIsMeant, ChoiceInv

-----------------------------------------------------------------------------
(* Numbers and recursive functions *)

HasLeast(S) == \E n \in S : \A m \in S : n <= m

LEMMA NumbersHaveLeast ==
    ASSUME NEW S \in SUBSET Nat, S # {}
    PROVE  HasLeast(S)
  <1> DEFINE R == OpToRel(<, Nat)
  <1>1. IsWellFoundedOn(R, Nat) BY NatLessThanWellFounded
  <1>2. \A x, y \in Nat : y < x => <<y, x>> \in R BY DEF OpToRel
  <1> HIDE DEF R
  <1>3. PICK x \in S : \A y \in S : ~(<<y, x>> \in R) BY <1>1, WFMin, Zenon
  <1>4. ASSUME NEW y \in S PROVE x <= y
    <2>1. ~(<<y, x>> \in R) BY <1>3, Zenon
    <2>2. x \in Nat /\ y \in Nat BY Zenon
    <2> QED BY <1>2, <2>1, <2>2
  <1> QED BY <1>4 DEF HasLeast

\* What holds of lo, and of every number behind one it holds of, holds up to hi.
LEMMA UpTo ==
    ASSUME NEW lo \in Nat, NEW hi \in Nat, NEW G, lo \in G,
           \A n \in lo .. hi - 1 : n \in G => n + 1 \in G
    PROVE  \A n \in lo .. hi : n \in G
  <1> DEFINE Bad == {n \in lo .. hi : n \notin G}
  <1> SUFFICES ASSUME Bad # {} PROVE FALSE OBVIOUS
  <1>1. PICK n \in Bad : \A m \in Bad : n <= m
    <2>1. Bad \in SUBSET Nat OBVIOUS
    <2> QED BY <2>1, NumbersHaveLeast DEF HasLeast
  <1>2. n - 1 \in lo .. hi - 1 /\ ~(n <= n - 1) BY <1>1
  <1>3. n - 1 \in G BY <1>1, <1>2
  <1> QED BY <1>1, <1>2, <1>3

\* A function that is defined from lo on by its value before.
Recurs(f, lo, hi, start, step) ==
    f = [n \in lo .. hi |-> IF n = lo THEN start ELSE step[<<f[n - 1], n>>]]
HasRecursion(lo, hi, S, start, step) ==
    \E f \in [lo .. hi -> S] : Recurs(f, lo, hi, start, step)

LEMMA Recursion ==
    ASSUME NEW lo \in Nat, NEW hi \in Nat, lo <= hi, NEW S, NEW start \in S,
           NEW step \in [S \X (lo .. hi) -> S]
    PROVE  HasRecursion(lo, hi, S, start, step)
  <1> DEFINE G == {n \in lo .. hi : HasRecursion(lo, n, S, start, step)}
  <1>1. lo \in G
    <2> DEFINE f == [n \in lo .. lo |-> start]
    <2>1. f \in [lo .. lo -> S] /\ Recurs(f, lo, lo, start, step) BY DEF Recurs
    <2> QED BY <2>1, SMTT(30) DEF HasRecursion
  <1>2. ASSUME NEW n \in lo .. hi - 1, n \in G PROVE n + 1 \in G
    <2>1. PICK f \in [lo .. n -> S] : Recurs(f, lo, n, start, step)
      BY <1>2 DEF HasRecursion
    <2> DEFINE new == step[<<f[n], n + 1>>]
               g == [m \in lo .. n + 1 |-> IF m = n + 1 THEN new ELSE f[m]]
    <2>2. <<f[n], n + 1>> \in S \X (lo .. hi) OBVIOUS
    <2>3. new \in S BY <2>2
    <2>4. g \in [lo .. n + 1 -> S] BY <2>3
    <2>5. g[n] = f[n] OBVIOUS
    <2>6. ASSUME NEW m \in lo .. n + 1
          PROVE  g[m] = IF m = lo THEN start ELSE step[<<g[m - 1], m>>]
      <3>1. CASE m = n + 1 BY <2>5, <3>1
      <3>2. CASE m # n + 1
        <4>1. m \in lo .. n /\ g[m] = f[m] /\ (m # lo => g[m - 1] = f[m - 1]) BY <3>2
        <4>2. f[m] = IF m = lo THEN start ELSE step[<<f[m - 1], m>>]
          BY <2>1, <4>1 DEF Recurs
        <4> HIDE DEF g
        <4> QED BY <4>1, <4>2
      <3> QED BY <3>1, <3>2
    <2> HIDE DEF g
    <2>7. Recurs(g, lo, n + 1, start, step)
      <3>1. g = [m \in lo .. n + 1 |-> g[m]] BY <2>4
      <3> QED BY <2>6, <3>1 DEF Recurs
    <2>8. HasRecursion(lo, n + 1, S, start, step) BY <2>4, <2>7 DEF HasRecursion
    <2> QED BY <2>8
  <1> HIDE DEF G
  <1>3. \A n \in lo .. hi : n \in G BY <1>1, <1>2, UpTo
  <1>4. hi \in G BY <1>3
  <1> QED BY <1>4 DEF G

-----------------------------------------------------------------------------
(* The checksum *)

LEMMA ModulusIs == Modulus \in Nat \ {0} /\ 4^Width \in Nat \ {0} /\ Words = 0 .. Modulus
  <1> DEFINE p == 2^Width
             q == 4^Width
  <1>1. p \in Nat \ {0, 1} /\ q \in Nat \ {0} BY WidthAssumption, Zenon
  <1>2. Modulus = p - 1 /\ Words = 0 .. Modulus BY Zenon DEF Modulus, Words
  <1> HIDE DEF p, q
  <1>3. Modulus \in Nat \ {0} BY <1>1, <1>2
  <1> QED BY <1>1, <1>2, <1>3 DEF q

LEMMA Divided ==
    ASSUME NEW b \in Nat \ {0}, NEW x \in Nat
    PROVE  x = (x \div b) * b + (x % b) /\ x % b \in 0 .. b - 1 /\ x \div b \in Nat
  OBVIOUS

LEMMA OneRest ==
    ASSUME NEW b \in Nat \ {0}, NEW q \in Int, NEW r \in 0 .. b - 1,
           NEW p \in Int, NEW s \in 0 .. b - 1, q * b + r = p * b + s
    PROVE  q = p /\ r = s
  OBVIOUS

LEMMA NoWrap ==
    ASSUME NEW b \in Nat \ {0}, NEW x \in Nat, x < b
    PROVE  x % b = x
  <1>1. x = 0 * b + x /\ x \in 0 .. b - 1 OBVIOUS
  <1>2. x = (x \div b) * b + (x % b) /\ x % b \in 0 .. b - 1 /\ x \div b \in Nat BY Divided
  <1> QED BY <1>1, <1>2, OneRest

Alike(x, y, b) == x % b = y % b

\* Numbers that leave the same rest differ by a multiple, and the other way round.
LEMMA SameRest ==
    ASSUME NEW b \in Nat \ {0}, NEW x \in Nat, NEW y \in Nat,
           NEW v \in Nat, NEW w \in Nat, x - y = v - w, Alike(x, y, b)
    PROVE  Alike(v, w, b)
  <1>0. x % b = y % b BY DEF Alike
  <1>1. PICK p \in Nat : x = p * b + (x % b) /\ x % b \in 0 .. b - 1 BY Divided
  <1>2. PICK q \in Nat : y = q * b + (y % b) /\ y % b \in 0 .. b - 1 BY Divided
  <1>3. PICK k \in Nat : v = k * b + (v % b) /\ v % b \in 0 .. b - 1 BY Divided
  <1>4. PICK l \in Nat : w = l * b + (w % b) /\ w % b \in 0 .. b - 1 BY Divided
  <1> DEFINE r == v % b
             s == w % b
             t == x % b
  <1>5. x = p * b + t /\ y = q * b + t /\ v = k * b + r /\ w = l * b + s
        /\ r \in 0 .. b - 1 /\ s \in 0 .. b - 1 /\ t \in 0 .. b - 1
    BY <1>0, <1>1, <1>2, <1>3, <1>4
  <1> HIDE DEF r, s, t
  <1> DEFINE d == p - q + l
  <1>6. d \in Int /\ d * b = p * b - q * b + l * b OBVIOUS
  <1>7. k * b + r = d * b + s
    <2>1. p * b \in Int /\ q * b \in Int /\ k * b \in Int /\ l * b \in Int OBVIOUS
    <2> HIDE DEF d
    <2> QED BY <1>5, <1>6, <2>1
  <1> HIDE DEF d
  <1>8. r = s
    <2>1. k \in Int /\ d \in Int /\ r \in 0 .. b - 1 /\ s \in 0 .. b - 1 BY <1>5, <1>6
    <2> QED BY <1>7, <2>1, OneRest, Zenon
  <1> QED BY <1>8 DEF r, s, Alike

\* The two words tell both sums, up to multiples of the modulus.
LEMMA ChecksumTells ==
    ASSUME NEW M \in Nat \ {0}, NEW a \in 0 .. M - 1, NEW b \in 0 .. M - 1,
           NEW c \in 0 .. M - 1, NEW d \in 0 .. M - 1,
           NEW f, f = M - ((a + b) % M), f = M - ((c + d) % M),
           M - ((a + f) % M) = M - ((c + f) % M)
    PROVE  a = c /\ b = d
  <1>0. \A x, y, v, w \in Nat : x - y = v - w /\ Alike(x, y, M) => Alike(v, w, M)
    BY SameRest
  <1>1. a + b \in Nat /\ c + d \in Nat /\ a \in Nat /\ b \in Nat /\ c \in Nat /\ d \in Nat
    OBVIOUS
  <1>2. (a + b) % M \in 0 .. M - 1 /\ (c + d) % M \in 0 .. M - 1 BY <1>1, Divided
  <1>3. f \in Nat /\ (a + b) % M = (c + d) % M BY <1>2
  <1>4. a + f \in Nat /\ c + f \in Nat BY <1>1, <1>3
  <1>5. (a + f) % M \in 0 .. M - 1 /\ (c + f) % M \in 0 .. M - 1 BY <1>4, Divided
  <1>6. (a + f) % M = (c + f) % M BY <1>5
  <1>7. a % M = c % M
    <2> DEFINE x == a + f
               y == c + f
    <2>1. x - y = a - c /\ x \in Nat /\ y \in Nat /\ Alike(x, y, M) BY <1>1, <1>3, <1>6 DEF Alike
    <2> HIDE DEF x, y
    <2>2. Alike(a, c, M) BY <1>0, <1>1, <2>1, Zenon
    <2> QED BY <2>2 DEF Alike
  <1>8. a % M = a /\ c % M = c /\ b % M = b /\ d % M = d BY <1>1, NoWrap
  <1>9. b % M = d % M
    <2> DEFINE x == a + b
               y == c + d
    <2>1. x - y = b - d /\ x \in Nat /\ y \in Nat /\ Alike(x, y, M)
      BY <1>1, <1>3, <1>7, <1>8 DEF Alike
    <2> HIDE DEF x, y
    <2>2. Alike(b, d, M) BY <1>0, <1>1, <2>1, Zenon
    <2> QED BY <2>2 DEF Alike
  <1> QED BY <1>7, <1>8, <1>9

-----------------------------------------------------------------------------
(* The sums of an object's words *)

Pairs == Nat \X Nat

LEMMA AddWordIs ==
    ASSUME NEW sums \in Pairs, NEW word \in Nat
    PROVE  /\ AddWord(sums, word) \in Pairs
           /\ AddWord(sums, word)[1] = (sums[1] + word) % 4^Width
           /\ AddWord(sums, word)[2] = (sums[2] + AddWord(sums, word)[1]) % 4^Width
  <1> DEFINE p == 4^Width
             lower == (sums[1] + word) % p
             upper == (sums[2] + lower) % p
  <1>1. AddWord(sums, word) = <<lower, upper>> BY DEF AddWord
  <1>2. p \in Nat \ {0} BY ModulusIs
  <1> HIDE DEF p
  <1>3. sums[1] + word \in Nat /\ sums[2] \in Nat BY DEF Pairs
  <1>4. lower \in Nat
    <2>1. lower \in 0 .. p - 1 BY <1>2, <1>3, Divided
    <2> QED BY <1>2, <2>1
  <1> HIDE DEF lower
  <1>5. upper \in Nat
    <2>1. sums[2] + lower \in Nat BY <1>3, <1>4
    <2>2. upper \in 0 .. p - 1 BY <1>2, <2>1, Divided
    <2> QED BY <1>2, <2>2
  <1> HIDE DEF upper
  <1>6. <<lower, upper>> \in Pairs BY <1>4, <1>5 DEF Pairs
  <1>7. AddWord(sums, word)[1] = lower /\ AddWord(sums, word)[2] = upper BY <1>1
  <1> QED BY <1>1, <1>6, <1>7 DEF lower, upper, p

LEMMA SumsRecur ==
    ASSUME NEW words \in Seq(Words)
    PROVE  /\ \A k \in 0 .. Len(words) : Sums(words)[k] \in Pairs
           /\ Sums(words)[0] = <<0, 0>>
           /\ \A k \in 1 .. Len(words) :
                 Sums(words)[k] = AddWord(Sums(words)[k - 1], words[k])
  <1> DEFINE L == Len(words)
             start == <<0, 0>>
             step == [p \in Pairs \X (0 .. L) |->
                        IF p[2] \in 1 .. L THEN AddWord(p[1], words[p[2]]) ELSE <<0, 0>>]
             sums == Sums(words)
  <1>1. L \in Nat /\ \A k \in 1 .. L : words[k] \in Nat
    BY ModulusIs
  <1>2. start \in Pairs BY DEF Pairs
  <1>3. step \in [Pairs \X (0 .. L) -> Pairs]
    <2>1. ASSUME NEW p \in Pairs \X (0 .. L), p[2] \in 1 .. L
          PROVE  AddWord(p[1], words[p[2]]) \in Pairs
      <3>1. p[1] \in Pairs /\ words[p[2]] \in Nat BY <1>1, <2>1
      <3> QED BY <3>1, AddWordIs
    <2> QED BY <1>2, <2>1
  <1>4. PICK f \in [0 .. L -> Pairs] : Recurs(f, 0, L, start, step)
    <2> HIDE DEF start, step
    <2>1. 0 \in Nat /\ 0 <= L BY <1>1
    <2>2. HasRecursion(0, L, Pairs, start, step) BY <1>1, <1>2, <1>3, <2>1, Recursion
    <2> QED BY <2>2 DEF HasRecursion
  <1>5. \A k \in 0 .. L : f[k] = IF k = 0 THEN start ELSE AddWord(f[k - 1], words[k])
    <2> SUFFICES ASSUME NEW k \in 0 .. L
                 PROVE  f[k] = IF k = 0 THEN start ELSE AddWord(f[k - 1], words[k])
      OBVIOUS
    <2>1. CASE k = 0
      <3> HIDE DEF start, step
      <3> QED BY <1>4, <2>1 DEF Recurs
    <2>2. CASE k # 0
      <3>1. f[k - 1] \in Pairs /\ k \in 1 .. L
        <4>1. k - 1 \in 0 .. L /\ k \in 1 .. L BY <1>1, <2>2
        <4> HIDE DEF start, step
        <4> QED BY <1>4, <4>1
      <3>2. step[<<f[k - 1], k>>] = AddWord(f[k - 1], words[k])
        <4>1. <<f[k - 1], k>> \in Pairs \X (0 .. L) BY <3>1
        <4> QED BY <3>1, <4>1
      <3>3. f[k] = step[<<f[k - 1], k>>]
        <4> HIDE DEF start, step
        <4> QED BY <1>4, <2>2 DEF Recurs
      <3> QED BY <2>2, <3>2, <3>3
    <2> QED BY <2>1, <2>2
  <1>6. sums = [k \in 0 .. L |-> IF k = 0 THEN start ELSE AddWord(sums[k - 1], words[k])]
    <2>1. f = [k \in 0 .. L |-> IF k = 0 THEN start ELSE AddWord(f[k - 1], words[k])]
      BY <1>4, <1>5
    <2> QED BY <2>1 DEF Sums
  <1> HIDE DEF sums, start, step
  <1>7. \A k \in 0 .. L : sums[k] = IF k = 0 THEN start ELSE AddWord(sums[k - 1], words[k])
    BY <1>6
  <1> DEFINE G == {k \in 0 .. L : sums[k] \in Pairs}
  <1>8. 0 \in G BY <1>1, <1>2, <1>7
  <1>9. ASSUME NEW k \in 0 .. L - 1, k \in G PROVE k + 1 \in G
    <2>1. k + 1 \in 1 .. L /\ (k + 1) - 1 = k BY <1>1
    <2>2. sums[k + 1] = AddWord(sums[k], words[k + 1]) BY <1>7, <2>1
    <2>3. AddWord(sums[k], words[k + 1]) \in Pairs BY <1>1, <1>9, <2>1, AddWordIs
    <2> QED BY <2>1, <2>2, <2>3
  <1>10. \A k \in 0 .. L : k \in G
    <2> HIDE DEF G
    <2> QED BY <1>1, <1>8, <1>9, UpTo
  <1>11. sums[0] = <<0, 0>> BY <1>1, <1>7 DEF start
  <1>12. \A k \in 1 .. L : sums[k] = AddWord(sums[k - 1], words[k]) BY <1>1, <1>7
  <1> QED BY <1>10, <1>11, <1>12 DEF sums

\* Twice the largest second sum of n words.
Triangle(n) == n * ((n + 1) * Modulus)

LEMMA TriangleGrows ==
    ASSUME NEW n \in Nat
    PROVE  /\ Triangle(n) \in Nat /\ (n + 1) * Modulus \in Nat
           /\ (n + 1) * Modulus = n * Modulus + Modulus
           /\ Triangle(n + 1) = Triangle(n) + 2 * ((n + 1) * Modulus)
  <1> DEFINE M == Modulus
             x == (n + 1) * M
  <1>1. M \in Nat BY ModulusIs
  <1>2. x \in Nat /\ x = n * M + M BY <1>1
  <1>3. ((n + 1) + 1) * M = x + M BY <1>1
  <1> HIDE DEF x
  <1>4. n * x \in Nat BY <1>2
  <1>5. (n + 1) * (x + M) = n * x + x + x
    <2>1. (n + 1) * (x + M) = n * x + n * M + x + M BY <1>1, <1>2
    <2> QED BY <2>1, <1>1, <1>2, <1>4
  <1>6. Triangle(n) = n * x BY DEF Triangle, x
  <1>7. Triangle(n + 1) = (n + 1) * (x + M) BY <1>3 DEF Triangle, x
  <1> QED BY <1>2, <1>4, <1>5, <1>6, <1>7 DEF x

LEMMA TriangleUpTo ==
    ASSUME NEW n \in Nat, NEW k \in 0 .. n
    PROVE  Triangle(k) <= Triangle(n)
  <1> DEFINE G == {m \in k .. n : Triangle(k) <= Triangle(m)}
  <1>0. k \in Nat OBVIOUS
  <1>1. k \in G BY TriangleGrows
  <1>2. ASSUME NEW m \in k .. n - 1, m \in G PROVE m + 1 \in G
    <2>1. m \in Nat /\ m + 1 \in k .. n BY <1>0
    <2>2. Triangle(m) <= Triangle(m + 1) /\ Triangle(m + 1) \in Nat /\ Triangle(m) \in Nat
      <3> DEFINE x == (m + 1) * Modulus
      <3>1. /\ Triangle(m) \in Nat /\ x \in Nat
            /\ Triangle(m + 1) = Triangle(m) + 2 * x
        BY <2>1, TriangleGrows
      <3> HIDE DEF x
      <3> QED BY <3>1
    <2>3. Triangle(k) \in Nat BY <1>0, TriangleGrows
    <2> QED BY <1>2, <2>1, <2>2, <2>3
  <1>3. \A m \in k .. n : m \in G
    <2> HIDE DEF G
    <2> QED BY <1>0, <1>1, <1>2, UpTo
  <1> QED BY <1>0, <1>3

\* The words of an object, and their sums as numbers.
Bodies == [1 .. ObjectWords -> Words]
Sum(words, k) == Sums(words)[k][1]
SumOfSums(words, k) == Sums(words)[k][2]

\* No sum of an object's words overflows.
LEMMA SumsAre ==
    ASSUME NEW words \in Bodies
    PROVE  /\ \A k \in 0 .. ObjectWords : Sum(words, k) \in Nat /\ SumOfSums(words, k) \in Nat
           /\ Sum(words, 0) = 0 /\ SumOfSums(words, 0) = 0
           /\ \A k \in 1 .. ObjectWords :
                 /\ Sum(words, k) = Sum(words, k - 1) + words[k]
                 /\ SumOfSums(words, k) = SumOfSums(words, k - 1) + Sum(words, k)
           /\ Len(words) = ObjectWords /\ words \in Seq(Words)
  <1> DEFINE n == ObjectWords
             P == 4^Width
             M == Modulus
             sums == Sums(words)
  <1>1. n \in Nat /\ words \in Seq(Words) /\ Len(words) = n BY OpenAssumption DEF Bodies
  <1>2. /\ M \in Nat /\ P \in Nat \ {0} /\ Triangle(n) < 2 * P
        /\ \A k \in 1 .. n : words[k] \in 0 .. M
    BY ModulusIs, SumsAssumption DEF Triangle, Bodies
  <1>3. /\ \A k \in 0 .. n : sums[k] \in Pairs
        /\ sums[0] = <<0, 0>>
        /\ \A k \in 1 .. n : sums[k] = AddWord(sums[k - 1], words[k])
    BY <1>1, SumsRecur
  <1>4. \A k \in 0 .. n : sums[k][1] \in Nat /\ sums[k][2] \in Nat BY <1>3 DEF Pairs
  <1> HIDE DEF sums, P, M, n
  <1> DEFINE Bound(k) == /\ sums[k][1] <= k * M
                         /\ 2 * sums[k][2] <= Triangle(k)
             Steps1(k) == /\ sums[k + 1][1] = sums[k][1] + words[k + 1]
                          /\ sums[k + 1][2] = sums[k][2] + sums[k + 1][1]
  <1>5. ASSUME NEW k \in 0 .. n - 1, Bound(k) PROVE Bound(k + 1) /\ Steps1(k)
    <2>1. k \in Nat /\ k \in 0 .. n /\ k + 1 \in 1 .. n /\ k + 1 \in 0 .. n
          /\ (k + 1) - 1 = k
      BY <1>1 DEF n
    <2> DEFINE l == sums[k][1]
               u == sums[k][2]
               w == words[k + 1]
               x == (k + 1) * M
    <2>2. l \in Nat /\ u \in Nat /\ w \in 0 .. M BY <1>2, <1>4, <2>1
    <2>3. /\ Triangle(k) \in Nat /\ x \in Nat
          /\ x = k * M + M
          /\ Triangle(k + 1) = Triangle(k) + 2 * x
      BY <2>1, TriangleGrows DEF M
    <2>4. Triangle(k + 1) <= Triangle(n) /\ Triangle(n) \in Nat
      BY <1>1, <2>1, TriangleUpTo, TriangleGrows DEF n
    <2>5. sums[k + 1] = AddWord(sums[k], w) BY <1>3, <2>1
    <2>6. sums[k] \in Pairs /\ w \in Nat BY <1>2, <1>3, <2>1, <2>2
    <2>7. /\ sums[k + 1][1] = (l + w) % P
          /\ sums[k + 1][2] = (u + sums[k + 1][1]) % P
      <3> DEFINE s == AddWord(sums[k], w)
      <3>1. s[1] = (sums[k][1] + w) % 4^Width /\ s[2] = (sums[k][2] + s[1]) % 4^Width
        BY <2>6, AddWordIs, Zenon
      <3> HIDE DEF s
      <3>2. sums[k + 1] = s BY <2>5 DEF s
      <3> QED BY <3>1, <3>2, Zenon DEF P
    <2>8. l <= k * M /\ 2 * u <= Triangle(k) BY <1>5
    <2> HIDE DEF l, u, w, x
    <2>9. k * M \in Nat /\ l + w <= x
      <3>1. k * M \in Nat BY <1>2, <2>1
      <3> QED BY <1>2, <2>2, <2>3, <2>8, <3>1
    <2>10. l + w \in Nat /\ l + w < P BY <1>2, <2>2, <2>3, <2>4, <2>9
    <2>11. sums[k + 1][1] = l + w BY <1>2, <2>7, <2>10, NoWrap
    <2>12. u + (l + w) \in Nat /\ 2 * (u + (l + w)) <= Triangle(k + 1)
      BY <2>2, <2>3, <2>8, <2>9, <2>10
    <2>13. u + (l + w) < P BY <1>2, <2>3, <2>4, <2>12
    <2>14. sums[k + 1][2] = u + (l + w) BY <1>2, <2>7, <2>11, <2>12, <2>13, NoWrap
    <2>15. Bound(k + 1) BY <2>9, <2>11, <2>12, <2>14 DEF x
    <2> QED BY <2>11, <2>14, <2>15 DEF l, u, w
  <1> DEFINE G == {k \in 0 .. n : Bound(k)}
  <1>6. 0 \in G
    <2>1. Triangle(0) \in Nat /\ sums[0][1] = 0 /\ sums[0][2] = 0 BY <1>3, TriangleGrows
    <2>2. 0 * M = 0 BY <1>2
    <2> QED BY <1>1, <2>1, <2>2 DEF n
  <1>7. \A k \in 0 .. n - 1 : k \in G => k + 1 \in G
    <2> SUFFICES ASSUME NEW k \in 0 .. n - 1, k \in G PROVE k + 1 \in G OBVIOUS
    <2>1. Bound(k) OBVIOUS
    <2> HIDE DEF Bound
    <2>2. Bound(k + 1) BY <1>5, <2>1
    <2>3. k + 1 \in 0 .. n BY <1>1 DEF n
    <2> QED BY <2>2, <2>3
  <1>8. \A k \in 0 .. n : k \in G
    <2> HIDE DEF G
    <2>1. n \in Nat /\ 0 \in Nat BY <1>1 DEF n
    <2> QED BY <1>6, <1>7, <2>1, UpTo
  <1>9. \A k \in 0 .. n - 1 : Steps1(k)
    <2> SUFFICES ASSUME NEW k \in 0 .. n - 1 PROVE Steps1(k) OBVIOUS
    <2>1. k \in 0 .. n BY <1>1 DEF n
    <2>2. Bound(k) BY <1>8, <2>1
    <2> HIDE DEF Bound, Steps1
    <2> QED BY <1>5, <2>2
  <1>10. \A k \in 1 .. n : /\ sums[k][1] = sums[k - 1][1] + words[k]
                           /\ sums[k][2] = sums[k - 1][2] + sums[k][1]
    <2> SUFFICES ASSUME NEW k \in 1 .. n
                 PROVE  /\ sums[k][1] = sums[k - 1][1] + words[k]
                        /\ sums[k][2] = sums[k - 1][2] + sums[k][1]
      OBVIOUS
    <2>1. k - 1 \in 0 .. n - 1 /\ (k - 1) + 1 = k BY <1>1 DEF n
    <2>2. Steps1(k - 1) BY <1>9, <2>1
    <2> QED BY <2>1, <2>2
  <1>11. sums[0][1] = 0 /\ sums[0][2] = 0 BY <1>3
  <1> QED BY <1>1, <1>4, <1>10, <1>11 DEF n, sums, Sum, SumOfSums

LEMMA EqualChecksums ==
    ASSUME NEW words \in Bodies, NEW read \in Bodies, Checksum(words) = Checksum(read)
    PROVE  /\ Alike(Sum(words, ObjectWords), Sum(read, ObjectWords), Modulus)
           /\ Alike(SumOfSums(words, ObjectWords), SumOfSums(read, ObjectWords), Modulus)
  <1> DEFINE M == Modulus
             n == ObjectWords
             a == Sum(words, n) % M
             b == SumOfSums(words, n) % M
             c == Sum(read, n) % M
             d == SumOfSums(read, n) % M
             f == M - ((a + b) % M)
             g == M - ((c + d) % M)
  <1>1. M \in Nat \ {0} BY ModulusIs
  <1>2. n \in 0 .. n /\ Len(words) = n /\ Len(read) = n BY OpenAssumption, SumsAre
  <1>3. /\ Sum(words, n) \in Nat /\ SumOfSums(words, n) \in Nat
        /\ Sum(read, n) \in Nat /\ SumOfSums(read, n) \in Nat
    BY <1>2, SumsAre
  <1>4. a \in 0 .. M - 1 /\ b \in 0 .. M - 1 /\ c \in 0 .. M - 1 /\ d \in 0 .. M - 1
    BY <1>1, <1>3, Divided
  <1>5. Checksum(words) = <<f, M - ((a + f) % M)>>
    BY <1>2, Zenon DEF Checksum, Sum, SumOfSums
  <1>6. Checksum(read) = <<g, M - ((c + g) % M)>>
    BY <1>2, Zenon DEF Checksum, Sum, SumOfSums
  <1> HIDE DEF a, b, c, d, M
  <1>7. f = g /\ M - ((a + f) % M) = M - ((c + g) % M)
    <2> DEFINE p == M - ((a + f) % M)
               q == M - ((c + g) % M)
    <2>1. <<f, p>> = <<g, q>> BY <1>5, <1>6, Zenon
    <2> HIDE DEF f, g, p, q
    <2>2. f = g /\ p = q BY <2>1
    <2> QED BY <2>2 DEF p, q
  <1>8. f = M - ((c + d) % M) /\ M - ((a + f) % M) = M - ((c + f) % M) BY <1>7
  <1> HIDE DEF f
  <1>9. f = M - ((a + b) % M) BY DEF f
  <1>10. a = c /\ b = d BY <1>1, <1>4, <1>8, <1>9, ChecksumTells
  <1> QED BY <1>10 DEF Alike, a, b, c, d, M

\* One word that is another is found by the first sum.
LEMMA OneChanged ==
    ASSUME NEW words \in Bodies, NEW read \in Bodies, NEW h \in 1 .. ObjectWords,
           \A j \in 1 .. ObjectWords : j # h => read[j] = words[j],
           Checksum(words) = Checksum(read)
    PROVE  Alike(words[h], read[h], Modulus)
  <1> DEFINE n == ObjectWords
             v == words[h]
             w == read[h]
  <1>1. n \in Nat /\ v \in Nat /\ w \in Nat BY OpenAssumption, ModulusIs DEF Bodies
  <1>2. /\ \A k \in 0 .. n : Sum(words, k) \in Nat
        /\ Sum(words, 0) = 0
        /\ \A k \in 1 .. n : Sum(words, k) = Sum(words, k - 1) + words[k]
    BY SumsAre
  <1>3. /\ \A k \in 0 .. n : Sum(read, k) \in Nat
        /\ Sum(read, 0) = 0
        /\ \A k \in 1 .. n : Sum(read, k) = Sum(read, k - 1) + read[k]
    BY SumsAre
  <1> DEFINE Far(k) == Sum(words, k) - Sum(read, k) = IF k < h THEN 0 ELSE v - w
             G == {k \in 0 .. n : Far(k)}
  <1>4. 0 \in G BY <1>1, <1>2, <1>3
  <1>5. ASSUME NEW k \in 0 .. n - 1, k \in G PROVE k + 1 \in G
    <2>1. k \in 0 .. n /\ k + 1 \in 1 .. n /\ k + 1 \in 0 .. n /\ (k + 1) - 1 = k BY <1>1
    <2>2. /\ Sum(words, k + 1) = Sum(words, k) + words[k + 1]
          /\ Sum(read, k + 1) = Sum(read, k) + read[k + 1]
      BY <1>2, <1>3, <2>1
    <2>3. Sum(words, k) \in Nat /\ Sum(read, k) \in Nat BY <1>2, <1>3, <2>1
    <2>4. words[k + 1] \in Nat /\ read[k + 1] \in Nat BY <2>1, ModulusIs DEF Bodies
    <2>5. CASE k + 1 = h
      <3>1. Sum(words, k) - Sum(read, k) = 0 BY <1>5, <2>5
      <3>2. Sum(words, k + 1) - Sum(read, k + 1) = v - w
        <4> DEFINE l == Sum(words, k)
                   m == Sum(read, k)
        <4>1. Sum(words, k + 1) = l + v /\ Sum(read, k + 1) = m + w BY <2>2, <2>5
        <4>2. l \in Nat /\ m \in Nat /\ l - m = 0 BY <2>3, <3>1
        <4> HIDE DEF l, m, v, w
        <4> QED BY <1>1, <4>1, <4>2
      <3> QED BY <2>1, <2>5, <3>2
    <2>6. CASE k + 1 # h
      <3>1. words[k + 1] = read[k + 1] BY <2>1, <2>6
      <3>2. Sum(words, k + 1) - Sum(read, k + 1) = Sum(words, k) - Sum(read, k)
        BY <2>2, <2>3, <2>4, <3>1
      <3>3. (k < h) <=> (k + 1 < h) BY <2>1, <2>6
      <3> QED BY <1>5, <2>1, <3>2, <3>3
    <2> QED BY <2>5, <2>6
  <1>6. \A k \in 0 .. n : k \in G
    <2> HIDE DEF G
    <2> QED BY <1>1, <1>4, <1>5, UpTo
  <1>7. n \in 0 .. n /\ ~(n < h) BY <1>1
  <1>8. Sum(words, n) - Sum(read, n) = v - w BY <1>6, <1>7
  <1>9. Alike(Sum(words, n), Sum(read, n), Modulus) BY EqualChecksums
  <1>10. Sum(words, n) \in Nat /\ Sum(read, n) \in Nat /\ Modulus \in Nat \ {0}
    BY <1>2, <1>3, <1>7, ModulusIs
  <1> HIDE DEF v, w
  <1>11. Alike(v, w, Modulus) BY <1>1, <1>8, <1>9, <1>10, SameRest, Zenon
  <1> QED BY <1>11 DEF v, w

\* Two neighbours that are exchanged are found by the second.
LEMMA TwoExchanged ==
    ASSUME NEW words \in Bodies, NEW read \in Bodies, NEW h \in 1 .. ObjectWords - 1,
           read[h] = words[h + 1], read[h + 1] = words[h],
           \A j \in 1 .. ObjectWords : j # h /\ j # h + 1 => read[j] = words[j],
           Checksum(words) = Checksum(read)
    PROVE  Alike(words[h], words[h + 1], Modulus)
  <1> DEFINE n == ObjectWords
             v == words[h]
             w == words[h + 1]
  <1>1. n \in Nat /\ v \in Nat /\ w \in Nat
    <2>1. h \in 1 .. n /\ h + 1 \in 1 .. n BY OpenAssumption
    <2> QED BY <2>1, OpenAssumption, ModulusIs DEF Bodies
  <1>2. /\ \A k \in 0 .. n : Sum(words, k) \in Nat /\ SumOfSums(words, k) \in Nat
        /\ Sum(words, 0) = 0 /\ SumOfSums(words, 0) = 0
        /\ \A k \in 1 .. n : /\ Sum(words, k) = Sum(words, k - 1) + words[k]
                             /\ SumOfSums(words, k) = SumOfSums(words, k - 1) + Sum(words, k)
    BY SumsAre
  <1>3. /\ \A k \in 0 .. n : Sum(read, k) \in Nat /\ SumOfSums(read, k) \in Nat
        /\ Sum(read, 0) = 0 /\ SumOfSums(read, 0) = 0
        /\ \A k \in 1 .. n : /\ Sum(read, k) = Sum(read, k - 1) + read[k]
                             /\ SumOfSums(read, k) = SumOfSums(read, k - 1) + Sum(read, k)
    BY SumsAre
  <1> DEFINE Far(k) == /\ Sum(words, k) - Sum(read, k) = IF k = h THEN v - w ELSE 0
                       /\ SumOfSums(words, k) - SumOfSums(read, k) =
                             IF k < h THEN 0 ELSE v - w
             G == {k \in 0 .. n : Far(k)}
  <1>4. 0 \in G BY <1>1, <1>2, <1>3
  <1>5. ASSUME NEW k \in 0 .. n - 1, k \in G PROVE k + 1 \in G
    <2>1. k \in 0 .. n /\ k + 1 \in 1 .. n /\ k + 1 \in 0 .. n /\ (k + 1) - 1 = k BY <1>1
    <2> DEFINE l == Sum(words, k)
               m == Sum(read, k)
               s == SumOfSums(words, k)
               t == SumOfSums(read, k)
               x == words[k + 1]
               y == read[k + 1]
    <2>2. /\ Sum(words, k + 1) = l + x /\ SumOfSums(words, k + 1) = s + (l + x)
          /\ Sum(read, k + 1) = m + y /\ SumOfSums(read, k + 1) = t + (m + y)
      BY <1>2, <1>3, <2>1
    <2>3. l \in Nat /\ m \in Nat /\ s \in Nat /\ t \in Nat BY <1>2, <1>3, <2>1
    <2>4. x \in Nat /\ y \in Nat BY <2>1, ModulusIs DEF Bodies
    <2>5. l - m = (IF k = h THEN v - w ELSE 0) /\ s - t = IF k < h THEN 0 ELSE v - w BY <1>5
    <2>6. x - y = IF k + 1 = h THEN v - w ELSE IF k = h THEN w - v ELSE 0
      <3>1. CASE k + 1 = h BY <2>4, <3>1
      <3>2. CASE k = h BY <2>4, <3>2
      <3>3. CASE k + 1 # h /\ k # h
        <4>1. x = y BY <2>1, <3>3
        <4> QED BY <2>4, <3>3, <4>1
      <3> QED BY <2>1, <3>1, <3>2, <3>3
    <2> HIDE DEF l, m, s, t, x, y, v, w
    <2>7. (l + x) - (m + y) = IF k + 1 = h THEN v - w ELSE 0
      BY <1>1, <2>1, <2>3, <2>4, <2>5, <2>6
    <2>8. (s + (l + x)) - (t + (m + y)) = IF k + 1 < h THEN 0 ELSE v - w
      BY <1>1, <2>1, <2>3, <2>4, <2>5, <2>7
    <2>9. Far(k + 1) BY <2>2, <2>7, <2>8
    <2> QED BY <2>1, <2>9
  <1>6. \A k \in 0 .. n : k \in G
    <2> HIDE DEF G
    <2> QED BY <1>1, <1>4, <1>5, UpTo
  <1>7. n \in 0 .. n /\ ~(n < h) BY <1>1
  <1>8. SumOfSums(words, n) - SumOfSums(read, n) = v - w BY <1>6, <1>7
  <1>9. Alike(SumOfSums(words, n), SumOfSums(read, n), Modulus) BY EqualChecksums
  <1>10. /\ SumOfSums(words, n) \in Nat /\ SumOfSums(read, n) \in Nat
         /\ Modulus \in Nat \ {0}
    BY <1>2, <1>3, <1>7, ModulusIs
  <1> HIDE DEF v, w
  <1>11. Alike(v, w, Modulus) BY <1>1, <1>8, <1>9, <1>10, SameRest, Zenon
  <1> QED BY <1>11 DEF v, w

\* The checksum of zeros is not zero.
LEMMA ZerosAreRefused ==
    ASSUME NEW read \in Bodies, \A j \in 1 .. ObjectWords : read[j] = 0
    PROVE  Checksum(read)[1] # 0
  <1> DEFINE n == ObjectWords
             M == Modulus
  <1>1. n \in Nat /\ M \in Nat \ {0} BY OpenAssumption, ModulusIs
  <1>2. /\ Sum(read, 0) = 0 /\ SumOfSums(read, 0) = 0
        /\ \A k \in 1 .. n : /\ Sum(read, k) = Sum(read, k - 1) + read[k]
                             /\ SumOfSums(read, k) = SumOfSums(read, k - 1) + Sum(read, k)
        /\ Len(read) = n
    BY SumsAre
  <1> DEFINE G == {k \in 0 .. n : Sum(read, k) = 0 /\ SumOfSums(read, k) = 0}
  <1>3. 0 \in G BY <1>1, <1>2
  <1>4. ASSUME NEW k \in 0 .. n - 1, k \in G PROVE k + 1 \in G
    <2>1. k + 1 \in 1 .. n /\ k + 1 \in 0 .. n /\ (k + 1) - 1 = k BY <1>1
    <2>2. Sum(read, k + 1) = 0 + 0 BY <1>2, <1>4, <2>1
    <2>3. SumOfSums(read, k + 1) = 0 + Sum(read, k + 1) BY <1>2, <1>4, <2>1
    <2> QED BY <2>1, <2>2, <2>3
  <1>5. \A k \in 0 .. n : k \in G
    <2> HIDE DEF G
    <2> QED BY <1>1, <1>3, <1>4, UpTo
  <1>6. Sum(read, n) = 0 /\ SumOfSums(read, n) = 0 BY <1>1, <1>5
  <1> DEFINE a == Sum(read, n) % M
             b == SumOfSums(read, n) % M
  <1>7. Checksum(read)[1] = M - ((a + b) % M) BY <1>2 DEF Checksum, Sum, SumOfSums
  <1>8. 0 % M = 0 BY <1>1, NoWrap
  <1> QED BY <1>1, <1>6, <1>7, <1>8

\* What two words at the front of an object hold.
LEMMA ChecksumIs ==
    ASSUME NEW words \in Bodies
    PROVE  /\ Checksum(words) \in Seq(Words) /\ Len(Checksum(words)) = 2
           /\ Checksum(words) = <<Checksum(words)[1], Checksum(words)[2]>>
  <1> DEFINE M == Modulus
             n == ObjectWords
             a == Sum(words, n) % M
             b == SumOfSums(words, n) % M
             f == M - ((a + b) % M)
             g == M - ((a + f) % M)
  <1>1. M \in Nat \ {0} BY ModulusIs
  <1>2. n \in 0 .. n /\ Len(words) = n BY OpenAssumption, SumsAre
  <1>3. Sum(words, n) \in Nat /\ SumOfSums(words, n) \in Nat BY <1>2, SumsAre
  <1>4. a \in 0 .. M - 1 /\ b \in 0 .. M - 1 BY <1>1, <1>3, Divided
  <1>5. Checksum(words) = <<f, g>> BY <1>2, Zenon DEF Checksum, Sum, SumOfSums
  <1> HIDE DEF a, b
  <1>6. f \in 0 .. M
    <2>1. a + b \in Nat BY <1>4
    <2>2. (a + b) % M \in 0 .. M - 1 BY <1>1, <2>1, Divided
    <2> QED BY <1>1, <2>2
  <1> HIDE DEF f
  <1>7. g \in 0 .. M
    <2>1. a + f \in Nat BY <1>4, <1>6
    <2>2. (a + f) % M \in 0 .. M - 1 BY <1>1, <2>1, Divided
    <2> QED BY <1>1, <2>2
  <1> HIDE DEF g
  <1> QED BY <1>5, <1>6, <1>7, ModulusIs

\* What is verified: the two words at the front against the words behind them.
Body(read) == [j \in 1 .. ObjectWords |-> read[j + 2]]

LEMMA VerifiedIs ==
    ASSUME NEW read, read \in [1 .. ObjectWords + 2 -> Words]
    PROVE  /\ Body(read) \in Bodies
           /\ Verifies(read) => Checksum(Body(read)) = <<read[1], read[2]>>
  <1> DEFINE n == ObjectWords
             front == SubSeq(read, 1, 2)
             back == SubSeq(read, 3, Len(read))
  <1>1. n \in Nat /\ Len(read) = n + 2 /\ read \in Seq(Words) BY OpenAssumption
  <1>2. \A j \in 1 .. n : j + 2 \in 1 .. n + 2 BY <1>1
  <1>3. Body(read) \in Bodies BY <1>2 DEF Body, Bodies
  <1>4. front \in Seq(Words) /\ Len(front) = 2 /\ front[1] = read[1] /\ front[2] = read[2]
    <2>1. \A h \in 1 .. 2 : read[h] \in Words BY <1>1
    <2>2. /\ front \in Seq(Words) /\ Len(front) = IF 1 <= 2 THEN 2 - 1 + 1 ELSE 0
          /\ \A h \in 1 .. 2 - 1 + 1 : front[h] = read[1 + h - 1]
      BY <2>1, SubSeqProperties
    <2> HIDE DEF front
    <2> QED BY <2>2
  <1>5. front = <<read[1], read[2]>>
    <2> HIDE DEF front
    <2> QED BY <1>4
  <1>6. back = Body(read)
    <2>1. \A h \in 3 .. n + 2 : read[h] \in Words BY <1>1
    <2>2. /\ SubSeq(read, 3, n + 2) \in Seq(Words)
          /\ Len(SubSeq(read, 3, n + 2)) = IF 3 <= n + 2 THEN (n + 2) - 3 + 1 ELSE 0
          /\ \A h \in 1 .. (n + 2) - 3 + 1 : SubSeq(read, 3, n + 2)[h] = read[3 + h - 1]
      <3>1. n + 2 \in Int /\ 3 \in Int BY <1>1
      <3> DEFINE m == n + 2
      <3>2. m \in Int /\ \A h \in 3 .. m : read[h] \in Words BY <2>1, <3>1
      <3> HIDE DEF m
      <3>3. /\ SubSeq(read, 3, m) \in Seq(Words)
            /\ Len(SubSeq(read, 3, m)) = IF 3 <= m THEN m - 3 + 1 ELSE 0
            /\ \A h \in 1 .. m - 3 + 1 : SubSeq(read, 3, m)[h] = read[3 + h - 1]
        BY <3>1, <3>2, SubSeqProperties
      <3> QED BY <3>3 DEF m
    <2> DEFINE s == SubSeq(read, 3, n + 2)
    <2>3. back = s BY <1>1
    <2> HIDE DEF s, back
    <2>4. (IF 3 <= n + 2 THEN (n + 2) - 3 + 1 ELSE 0) = n /\ (n + 2) - 3 + 1 = n BY <1>1
    <2>5. s \in Seq(Words) /\ Len(s) = n /\ \A h \in 1 .. n : s[h] = read[h + 2]
      <3>1. \A h \in 1 .. n : 3 + h - 1 = h + 2 BY <1>1
      <3> QED BY <2>2, <2>4, <3>1 DEF s
    <2>6. s = [j \in 1 .. n |-> read[j + 2]] BY <1>1, <2>5
    <2> QED BY <2>3, <2>6 DEF Body
  <1> QED BY <1>3, <1>5, <1>6, Zenon DEF Verifies

\* A damaged object that verifies is the one that was written, but for words that
\* weigh the same.
LEMMA VerifiedIsWritten ==
    ASSUME NEW object \in Written, NEW read \in Changed(object), Verifies(read)
    PROVE  Same(object, read)
  <1> DEFINE n == ObjectWords
             M == Modulus
  <1>1. PICK words \in Bodies : object = Checksum(words) \o words BY DEF Written, Bodies
  <1> DEFINE c == Checksum(words)
  <1>2. /\ c \in Seq(Words) /\ Len(c) = 2 /\ c = <<c[1], c[2]>>
        /\ words \in Seq(Words) /\ Len(words) = n /\ n \in Nat
    BY ChecksumIs, SumsAre, OpenAssumption
  <1> HIDE DEF c
  <1>3. /\ object \in [1 .. n + 2 -> Words]
        /\ object[1] = c[1] /\ object[2] = c[2]
        /\ \A j \in 1 .. n : object[j + 2] = words[j]
    <2>1. object = c \o words BY <1>1 DEF c
    <2>2. object \in Seq(Words) /\ Len(object) = 2 + n BY <1>2, <2>1, ConcatProperties
    <2>3. object \in [1 .. n + 2 -> Words] BY <1>2, <2>2
    <2>4. ASSUME NEW j \in 1 .. 2 + n PROVE object[j] = IF j <= 2 THEN c[j] ELSE words[j - 2]
      <3>1. 1 .. Len(c) + Len(words) = 1 .. 2 + n BY <1>2
      <3>2. (c \o words)[j] = IF j <= Len(c) THEN c[j] ELSE words[j - Len(c)]
        BY <1>2, <3>1, ConcatProperties
      <3> QED BY <1>2, <2>1, <3>2
    <2>5. object[1] = c[1] /\ object[2] = c[2]
      <3>1. 1 \in 1 .. 2 + n /\ 2 \in 1 .. 2 + n BY <1>2
      <3> QED BY <2>4, <3>1
    <2>6. \A j \in 1 .. n : object[j + 2] = words[j]
      <3> SUFFICES ASSUME NEW j \in 1 .. n PROVE object[j + 2] = words[j] OBVIOUS
      <3>1. j + 2 \in 1 .. 2 + n /\ ~(j + 2 <= 2) /\ (j + 2) - 2 = j BY <1>2
      <3> QED BY <2>4, <3>1
    <2> QED BY <2>3, <2>5, <2>6
  <1>4. Len(object) = n + 2 /\ DOMAIN object = 1 .. n + 2 BY <1>2, <1>3
  <1>5. words = Body(object)
    <2>1. words = [j \in 1 .. n |-> words[j]] BY DEF Bodies
    <2> QED BY <1>3, <2>1 DEF Body
  <1>6. ASSUME NEW h \in 1 .. n + 2, NEW word \in Words, read = [object EXCEPT ![h] = word]
        PROVE  Same(object, read)
    <2>1. /\ read \in [1 .. n + 2 -> Words]
          /\ \A j \in 1 .. n + 2 : j # h => read[j] = object[j]
      BY <1>3, <1>6
    <2> DEFINE body == Body(read)
    <2>2. body \in Bodies /\ Checksum(body) = <<read[1], read[2]>> BY <2>1, VerifiedIs
    <2>3. \A j \in 1 .. n : body[j] = read[j + 2] /\ j + 2 \in 1 .. n + 2 BY <1>2 DEF Body
    <2>4. CASE h <= 2
      <3>1. \A j \in 1 .. n : j + 2 # h BY <2>4
      <3>2. body = words
        <4>1. \A j \in 1 .. n : read[j + 2] = object[j + 2] BY <2>1, <2>3, <3>1
        <4> QED BY <1>5, <4>1 DEF Body
      <3>3. <<read[1], read[2]>> = c BY <2>2, <3>2 DEF c
      <3>4. read[1] = object[1] /\ read[2] = object[2] BY <1>2, <1>3, <3>3
      <3>5. read[h] = object[h]
        <4>1. h = 1 \/ h = 2 BY <1>2, <2>4
        <4> QED BY <3>4, <4>1
      <3>6. \A j \in 1 .. n + 2 : read[j] = object[j] BY <2>1, <3>5
      <3> QED BY <1>4, <3>6 DEF Same
    <2>5. CASE h > 2
      <3>1. 1 \in 1 .. n + 2 /\ 2 \in 1 .. n + 2 /\ h # 1 /\ h # 2 BY <1>2, <2>5
      <3>2. read[1] = object[1] /\ read[2] = object[2] BY <2>1, <3>1
      <3>3. Checksum(words) = Checksum(body) BY <1>2, <1>3, <2>2, <3>2 DEF c
      <3>4. h - 2 \in 1 .. n /\ (h - 2) + 2 = h BY <1>2, <2>5
      <3>5. \A j \in 1 .. n : j # h - 2 => body[j] = words[j]
        <4> SUFFICES ASSUME NEW j \in 1 .. n, j # h - 2 PROVE body[j] = words[j] OBVIOUS
        <4>1. j + 2 # h /\ j + 2 \in 1 .. n + 2 BY <1>2
        <4> QED BY <1>3, <2>1, <2>3, <4>1
      <3> HIDE DEF body
      <3>6. Alike(words[h - 2], body[h - 2], M)
        <4> DEFINE k == h - 2
        <4>1. k \in 1 .. n /\ \A j \in 1 .. n : j # k => body[j] = words[j] BY <3>4, <3>5
        <4> HIDE DEF k
        <4>2. Alike(words[k], body[k], M) BY <2>2, <3>3, <4>1, OneChanged
        <4> QED BY <4>2 DEF k
      <3>7. words[h - 2] = object[h] /\ body[h - 2] = read[h] BY <1>3, <2>3, <3>4
      <3>8. object[h] % M = read[h] % M BY <3>6, <3>7 DEF Alike
      <3>9. \A j \in 1 .. n + 2 : object[j] % M = read[j] % M BY <2>1, <3>8
      <3> QED BY <1>4, <3>9 DEF Same
    <2> QED BY <1>2, <2>4, <2>5
  <1>7. ASSUME NEW h \in 3 .. n + 1,
               read = [object EXCEPT ![h] = object[h + 1], ![h + 1] = object[h]]
        PROVE  Same(object, read)
    <2>1. h \in 1 .. n + 2 /\ h + 1 \in 1 .. n + 2 /\ h # h + 1 /\ h # 1 /\ h # 2
          /\ h + 1 # 1 /\ h + 1 # 2 /\ 1 \in 1 .. n + 2 /\ 2 \in 1 .. n + 2
      BY <1>2
    <2>2. /\ read \in [1 .. n + 2 -> Words]
          /\ read[h] = object[h + 1] /\ read[h + 1] = object[h]
          /\ \A j \in 1 .. n + 2 : j # h /\ j # h + 1 => read[j] = object[j]
      BY <1>3, <1>7, <2>1
    <2> DEFINE body == Body(read)
    <2>3. body \in Bodies /\ Checksum(body) = <<read[1], read[2]>> BY <2>2, VerifiedIs
    <2>4. \A j \in 1 .. n : body[j] = read[j + 2] /\ j + 2 \in 1 .. n + 2 BY <1>2 DEF Body
    <2>5. read[1] = object[1] /\ read[2] = object[2] BY <2>1, <2>2
    <2>6. Checksum(words) = Checksum(body) BY <1>2, <1>3, <2>3, <2>5 DEF c
    <2> DEFINE k == h - 2
    <2>7. /\ k \in 1 .. n - 1 /\ k \in 1 .. n /\ k + 1 \in 1 .. n
          /\ k + 2 = h /\ (k + 1) + 2 = h + 1
      BY <1>2
    <2>8. body[k] = words[k + 1] /\ body[k + 1] = words[k] BY <1>3, <2>2, <2>4, <2>7
    <2>9. \A j \in 1 .. n : j # k /\ j # k + 1 => body[j] = words[j]
      <3> SUFFICES ASSUME NEW j \in 1 .. n, j # k, j # k + 1 PROVE body[j] = words[j]
        OBVIOUS
      <3>1. j + 2 # h /\ j + 2 # h + 1 /\ j + 2 \in 1 .. n + 2 BY <1>2
      <3> QED BY <1>3, <2>2, <2>4, <3>1
    <2> HIDE DEF body, k
    <2>10. Alike(words[k], words[k + 1], M) BY <2>3, <2>6, <2>7, <2>8, <2>9, TwoExchanged
    <2>11. words[k] = object[h] /\ words[k + 1] = object[h + 1] BY <1>3, <2>7
    <2>12. object[h] % M = object[h + 1] % M BY <2>10, <2>11 DEF Alike
    <2>13. \A j \in 1 .. n + 2 : object[j] % M = read[j] % M BY <2>2, <2>12
    <2> QED BY <1>4, <2>13 DEF Same
  <1>8. read # [h \in DOMAIN object |-> 0]
    <2> SUFFICES ASSUME read = [h \in DOMAIN object |-> 0] PROVE FALSE OBVIOUS
    <2>1. 0 \in Words BY ModulusIs
    <2>2. read \in [1 .. n + 2 -> Words] /\ \A j \in 1 .. n + 2 : read[j] = 0 BY <1>4, <2>1
    <2>3. Body(read) \in Bodies /\ Checksum(Body(read)) = <<read[1], read[2]>>
      BY <2>2, VerifiedIs
    <2>4. \A j \in 1 .. n : j + 2 \in 1 .. n + 2 BY <1>2
    <2>5. \A j \in 1 .. n : Body(read)[j] = 0 BY <2>2, <2>4 DEF Body
    <2>6. 1 \in 1 .. n + 2 BY <1>2
    <2>7. Checksum(Body(read))[1] = 0 BY <2>2, <2>3, <2>6
    <2> QED BY <2>3, <2>5, <2>7, ZerosAreRefused
  <1>9. Len(object) - 1 = n + 1 BY <1>2, <1>4
  <1> QED BY <1>4, <1>6, <1>7, <1>8, <1>9 DEF Changed

\* The superblock is accepted in one place.
LEMMA AcceptedIs == Accepted \subseteq {"as written"}
  BY VerifiedIsWritten, Zenon DEF Accepted, Change

-----------------------------------------------------------------------------
(* The theorems *)

LEMMA TableStep == TableIInv /\ [VerbNext]_<<vars, verb>> => TableIInv'
  <1>1. VerbNext => Next \/ UNCHANGED vars
    BY DEF VerbNext, StartVerb, OpenDisk, ReadTable, TableRead, GetPartition, LoadPartition,
           LoadVolume, ReturnPartition, GetVolume, Handle, Unwind
  <1> QED BY <1>1, NextTable, TableFrame

\* What the loop has listed, in every state of a verb.
THEOREM TableInvariant == VerbSpec => []TableIInv
  <1>1. VerbInit => TableIInv BY TableInit DEF VerbInit
  <1> QED BY <1>1, TableStep, PTL DEF VerbSpec

\* The partitions are listed in the order of the disk, each once, and completely if
\* the first block of the table holds all that are used.
THEOREM PartitionsListed == VerbSpec => []TableListed
  <1>1. TableIInv => TableListed
    BY TableIsListed DEF TableListed, FirstBlockListed, TableIInv
  <1> QED BY <1>1, TableInvariant, PTL

\* The FILE is closed with its last reader and not before, wherever an exception
\* ends the construction.
THEOREM FileShared == VerbSpec => []FileIsShared
  <1>1. ReadersInv /\ [VerbNext]_<<vars, verb>> => ReadersInv'
    BY ReadersStep, ReadersStutter
  <1>2. ReadersInv => FileIsShared BY DEF ReadersInv
  <1> QED BY ReadersInit, <1>1, <1>2, PTL DEF VerbSpec

\* A verb works on the partition and the volume that its options mean.
THEOREM ServesMeant == VerbSpec => []ServesWhatIsMeant
  <1>1. TableIInv /\ ChoiceInv /\ [VerbNext]_<<vars, verb>> => ChoiceInv'
    <2>1. ChoiceInv /\ UNCHANGED <<vars, verb>> => ChoiceInv' BY ChoiceFrame DEF verb
    <2> QED BY <2>1, ChoiceStep
  <1> QED BY ChoiceInit, <1>1, TableInvariant, ServingIsMeant, PTL DEF VerbSpec

\* A superblock of which one word has changed, two neighbours have been exchanged or
\* nothing was ever written is refused, whatever its length and the width of its
\* words, unless only words of zeros and words of ones have taken each other's place.
THEOREM DamageRefused == VerbSpec => []DamageIsRefused
  <1>1. VerbInit => DamageIsRefused BY DEF VerbInit, DamageIsRefused
  <1>2. DamageIsRefused /\ [VerbNext]_<<vars, verb>> => DamageIsRefused'
    <2> SUFFICES ASSUME DamageIsRefused, [VerbNext]_<<vars, verb>> PROVE DamageIsRefused'
      OBVIOUS
    <2>1. CASE superblock' \in Accepted BY <2>1, AcceptedIs DEF DamageIsRefused
    <2>2. CASE UNCHANGED superblock BY <2>2 DEF DamageIsRefused
    <2>3. superblock' \in Accepted \/ UNCHANGED superblock
      BY Zenon DEF VerbNext, StartVerb, OpenDisk, ReadTable, TableRead, GetPartition,
         LoadPartition, LoadVolume, ReturnPartition, GetVolume, Handle, Unwind, verb
    <2> QED BY <2>1, <2>2, <2>3
  <1> QED BY <1>1, <1>2, PTL DEF VerbSpec

-----------------------------------------------------------------------------
(* The scan of the checkpoints: its inductive invariant *)

\* Block m of checkpoint x: its place in the ring and what the writer puts there.
DescAt(x, m) == (made[x].slot + m) % DescBlocks
DescBlock(x, m) ==
    IF m = made[x].maps THEN Super(x, made[x].maps + 1)
    ELSE Map(x, (made[x].place + m) % DataBlocks)
DataAt(x, m) == (made[x].place + m) % DataBlocks

DescWrite(x, m) == [area |-> "desc", at |-> DescAt(x, m), block |-> DescBlock(x, m)]
DataWrite(x, m) == [area |-> "data", at |-> DataAt(x, m), block |-> Object(x)]

BlockTypes == {"blank", "super", "map"}
DescBlockSet ==
    [type : BlockTypes, xid : 0 .. MaxXid, len : 0 .. MaxMaps + 1, place : Places \cup {0},
     ok : BOOLEAN]
Phases == {"writing", "scanning", "picking", "loaded", "threw", "undefined"}

TypeInv ==
    /\ desc \in [Slots -> DescBlockSet]
    /\ data \in [Places -> [xid : 0 .. MaxXid, ok : BOOLEAN]]
    /\ made \in [Xids -> [slot : Slots, place : Places, maps : 1 .. MaxMaps]]
    /\ xid \in Xids
    /\ committed \in 1 .. xid
    /\ pending \subseteq Blocks(xid)
    /\ phase \in Phases
    /\ i \in 0 .. DescBlocks
    /\ containers \subseteq 1 .. xid

\* A slot is blank or holds a block of a checkpoint that puts that block there,
\* whole or torn.
DescOwned ==
    \A s \in Slots :
        \/ desc[s] = Blank
        \/ \E x \in 1 .. xid : \E m \in 0 .. made[x].maps :
              s = DescAt(x, m) /\ desc[s] \in {DescBlock(x, m), Torn(DescBlock(x, m))}

\* The checkpoint that is being written leaves the last committed one alone, and
\* what is no longer pending of it is on disk.
WriterInv ==
    /\ Intact(committed)
    /\ pending # {} =>
          /\ committed < xid
          /\ \A v \in Blocks(xid), w \in Blocks(committed) : v.area # w.area \/ v.at # w.at
          /\ \A w \in Blocks(xid) \ pending : Holds(w)

\* The scan has accepted the complete checkpoints among the slots it has passed,
\* and nothing else.
ReaderInv ==
    /\ phase \in {"scanning", "picking"} => \A x \in containers : Intact(x)
    /\ phase = "scanning" =>
          \A x \in 1 .. xid : Intact(x) /\ SuperSlot(made[x]) < i => x \in containers
    /\ phase = "picking" => \A x \in 1 .. xid : Intact(x) => x \in containers
    /\ phase = "loaded" => /\ container \in 1 .. xid
                           /\ Intact(container)
                           /\ \A x \in 1 .. xid : Intact(x) => x <= container
    /\ ThrowsOverIncomplete

CheckpointIInv == TypeInv /\ DescOwned /\ WriterInv /\ ReaderInv

-----------------------------------------------------------------------------
(* Rings and finite sets of numbers *)

\* j steps back from a slot m steps on is the slot m - j steps on.
LEMMA RingBack ==
    ASSUME NEW n \in Nat \ {0}, NEW a \in 0 .. n - 1, NEW m \in 0 .. n - 1, NEW j \in 0 .. m
    PROVE  ((((a + m) % n) - j) + n) % n = (a + (m - j)) % n
  <1>1. a + m \in Nat /\ a + m < 2 * n /\ a + (m - j) \in Nat /\ a + (m - j) < 2 * n
    OBVIOUS
  <1>2. (a + m) % n = IF a + m < n THEN a + m ELSE a + m - n BY <1>1
  <1>3. (a + (m - j)) % n = IF a + (m - j) < n THEN a + (m - j) ELSE a + (m - j) - n
    BY <1>1
  <1> DEFINE b == (((a + m) % n) - j) + n
  <1>4. b \in Nat /\ b < 2 * n BY <1>2
  <1>5. b % n = IF b < n THEN b ELSE b - n BY <1>4
  <1> QED BY <1>2, <1>3, <1>4, <1>5

\* Fewer steps than the ring is long lead to different slots.
LEMMA RingDistinct ==
    ASSUME NEW n \in Nat \ {0}, NEW a \in 0 .. n - 1, NEW l \in 0 .. n - 1,
           NEW m \in 0 .. n - 1, (a + m) % n = (a + l) % n
    PROVE  m = l
  <1>1. a + m \in Nat /\ a + m < 2 * n /\ a + l \in Nat /\ a + l < 2 * n OBVIOUS
  <1>2. (a + m) % n = IF a + m < n THEN a + m ELSE a + m - n BY <1>1
  <1>3. (a + l) % n = IF a + l < n THEN a + l ELSE a + l - n BY <1>1
  <1> QED BY <1>2, <1>3

\* Two runs of l and m slots, one behind the other, that fit into the ring do
\* not overlap.
LEMMA RingBehind ==
    ASSUME NEW n \in Nat \ {0}, NEW a \in 0 .. n - 1, NEW l \in 0 .. n, NEW m \in 0 .. n,
           NEW x \in 0 .. l - 1, NEW y \in 0 .. m - 1, l + m <= n
    PROVE  (((a + l) % n) + y) % n # (a + x) % n
  <1>1. a + l \in Nat /\ a + l < 2 * n /\ a + x \in Nat /\ a + x < 2 * n OBVIOUS
  <1>2. (a + l) % n = IF a + l < n THEN a + l ELSE a + l - n BY <1>1
  <1>3. (a + x) % n = IF a + x < n THEN a + x ELSE a + x - n BY <1>1
  <1> DEFINE b == ((a + l) % n) + y
  <1>4. b \in Nat /\ b < 2 * n BY <1>2
  <1>5. b % n = IF b < n THEN b ELSE b - n BY <1>4
  <1> QED BY <1>2, <1>3, <1>4, <1>5

\* A step on from the slot l steps on.
LEMMA RingNext ==
    ASSUME NEW n \in Nat \ {0}, NEW a \in 0 .. n - 1, NEW l \in 0 .. n - 1
    PROVE  (((a + l) % n) + 1) % n = (a + (l + 1)) % n
  <1>1. a + l \in Nat /\ a + l < 2 * n /\ a + (l + 1) \in Nat /\ a + (l + 1) <= 2 * n - 1
    OBVIOUS
  <1>2. (a + l) % n = IF a + l < n THEN a + l ELSE a + l - n BY <1>1
  <1>3. (a + (l + 1)) % n = IF a + (l + 1) < n THEN a + (l + 1) ELSE a + (l + 1) - n
    BY <1>1
  <1> DEFINE b == ((a + l) % n) + 1
  <1>4. b \in Nat /\ b < 2 * n BY <1>2
  <1>5. b % n = IF b < n THEN b ELSE b - n BY <1>4
  <1> QED BY <1>2, <1>3, <1>4, <1>5

LEMMA NatSetHasMin ==
    ASSUME NEW S \in SUBSET Nat, S # {}
    PROVE  Min(S) \in S /\ \A k \in S : Min(S) <= k
  <1> DEFINE R == OpToRel(<, Nat)
  <1>1. IsWellFoundedOn(R, Nat) BY NatLessThanWellFounded
  <1>2. \A x, y \in Nat : y < x => <<y, x>> \in R BY DEF OpToRel
  <1> HIDE DEF R
  <1>3. PICK x \in S : \A y \in S : ~(<<y, x>> \in R) BY <1>1, WFMin, Zenon
  <1>4. ASSUME NEW y \in S PROVE x <= y
    <2>1. ~(<<y, x>> \in R) BY <1>3, Zenon
    <2>2. x \in Nat /\ y \in Nat BY Zenon
    <2>3. ~(y < x) BY <2>1, <2>2, <1>2, Zenon
    <2> QED BY <2>2, <2>3, SMT
  <1> QED BY <1>4, Zenon DEF Min

LEMMA BoundedSetHasMax ==
    ASSUME NEW n \in Nat, NEW S \in SUBSET (1 .. n), S # {}
    PROVE  Max(S) \in S /\ \A k \in S : k <= Max(S)
  <1> DEFINE D == {n - k : k \in S}
  <1>1. D \in SUBSET Nat /\ D # {}
    <2>1. \A k \in S : k \in 1 .. n OBVIOUS
    <2>2. \A k \in S : n - k \in Nat BY <2>1
    <2>3. D \in SUBSET Nat BY <2>2
    <2>4. PICK k \in S : TRUE OBVIOUS
    <2>5. n - k \in D BY <2>4
    <2> QED BY <2>3, <2>5
  <1>2. PICK d \in D : \A k \in D : d <= k
    <2>1. Min(D) \in D /\ \A k \in D : Min(D) <= k BY <1>1, NatSetHasMin
    <2> QED BY <2>1
  <1>3. PICK x \in S : d = n - x BY <1>2
  <1>4. \A k \in S : n - x <= n - k BY <1>2, <1>3
  <1>5. \A k \in S : x >= k BY <1>4
  <1>6. Max(S) \in S /\ \A k \in S : Max(S) >= k BY <1>5, Zenon DEF Max
  <1> QED BY <1>6
-----------------------------------------------------------------------------
(* The blocks of a checkpoint *)

LEMMA Sizes ==
    /\ DescBlocks \in Nat \ {0} /\ DataBlocks \in Nat \ {0}
    /\ MaxMaps \in Nat \ {0} /\ MaxXid \in Nat \ {0}
    /\ MaxMaps + 1 < DescBlocks /\ MaxMaps < DataBlocks
  BY SizeAssumption

LEMMA BlocksAre ==
    ASSUME NEW x
    PROVE  Blocks(x) = {DescWrite(x, m) : m \in 0 .. made[x].maps}
                       \cup {DataWrite(x, m) : m \in 0 .. made[x].maps - 1}
  BY DEF Blocks, BlocksAt, DescWrite, DataWrite, DescAt, DescBlock, DataAt

LEMMA IntactIs ==
    ASSUME NEW x
    PROVE  Intact(x) <=>
              /\ \A m \in 0 .. made[x].maps : desc[DescAt(x, m)] = DescBlock(x, m)
              /\ \A m \in 0 .. made[x].maps - 1 : data[DataAt(x, m)] = Object(x)
  <1>1. \A m : Holds(DescWrite(x, m)) <=> desc[DescAt(x, m)] = DescBlock(x, m)
    BY DEF Holds, DescWrite
  <1>2. \A m : Holds(DataWrite(x, m)) <=> data[DataAt(x, m)] = Object(x)
    BY DEF Holds, DataWrite
  <1>3. Intact(x) <=> /\ \A m \in 0 .. made[x].maps : Holds(DescWrite(x, m))
                      /\ \A m \in 0 .. made[x].maps - 1 : Holds(DataWrite(x, m))
    BY BlocksAre DEF Intact
  <1> QED BY <1>1, <1>2, <1>3

\* The places of a checkpoint are in their rings.
LEMMA CheckpointTypes ==
    ASSUME TypeInv, NEW x \in Xids
    PROVE  /\ made[x].slot \in Slots /\ made[x].place \in Places
           /\ made[x].maps \in 1 .. MaxMaps
           /\ SuperSlot(made[x]) = DescAt(x, made[x].maps)
           /\ \A m \in Nat : DescAt(x, m) \in Slots /\ DataAt(x, m) \in Places
  <1>1. made[x].slot \in Slots /\ made[x].place \in Places /\ made[x].maps \in 1 .. MaxMaps
    BY DEF TypeInv
  <1>2. SuperSlot(made[x]) = DescAt(x, made[x].maps) BY DEF SuperSlot, DescAt
  <1>3. ASSUME NEW m \in Nat PROVE DescAt(x, m) \in Slots /\ DataAt(x, m) \in Places
    <2>1. made[x].slot + m \in Nat /\ made[x].place + m \in Nat
      BY <1>1, Sizes DEF Slots, Places
    <2>2. \A n \in Nat \ {0}, a \in Nat : a % n \in 0 .. n - 1 OBVIOUS
    <2> QED BY <2>1, <2>2, Sizes DEF DescAt, DataAt, Slots, Places
  <1> QED BY <1>1, <1>2, <1>3

LEMMA StartedXids == ASSUME TypeInv, NEW x \in 1 .. xid PROVE x \in Xids
  <1>1. xid \in Xids BY DEF TypeInv
  <1> QED BY <1>1, Sizes DEF Xids

\* No two blocks of a checkpoint have one place.
LEMMA OwnPlaces ==
    ASSUME TypeInv, NEW x \in Xids
    PROVE  /\ \A l, m \in 0 .. made[x].maps : DescAt(x, l) = DescAt(x, m) => l = m
           /\ \A l, m \in 0 .. made[x].maps - 1 : DataAt(x, l) = DataAt(x, m) => l = m
  <1>1. made[x].slot \in 0 .. DescBlocks - 1 /\ made[x].place \in 0 .. DataBlocks - 1
        /\ made[x].maps \in 1 .. MaxMaps
    BY CheckpointTypes DEF Slots, Places
  <1>2. ASSUME NEW l \in 0 .. made[x].maps, NEW m \in 0 .. made[x].maps,
               DescAt(x, l) = DescAt(x, m)
        PROVE  l = m
    <2>1. l \in 0 .. DescBlocks - 1 /\ m \in 0 .. DescBlocks - 1 BY <1>1, Sizes
    <2> QED BY <1>1, <1>2, <2>1, Sizes, RingDistinct DEF DescAt
  <1>3. ASSUME NEW l \in 0 .. made[x].maps - 1, NEW m \in 0 .. made[x].maps - 1,
               DataAt(x, l) = DataAt(x, m)
        PROVE  l = m
    <2>1. l \in 0 .. DataBlocks - 1 /\ m \in 0 .. DataBlocks - 1 BY <1>1, Sizes
    <2> QED BY <1>1, <1>3, <2>1, Sizes, RingDistinct DEF DataAt
  <1> QED BY <1>2, <1>3

\* The scan of a superblock walks back over the maps of its checkpoint.
LEMMA BackIs ==
    ASSUME TypeInv, NEW x \in Xids, NEW j \in Nat, NEW m \in Nat, j + m = made[x].maps
    PROVE  Back(SuperSlot(made[x]), j) = DescAt(x, m)
  <1>1. made[x].slot \in 0 .. DescBlocks - 1 /\ made[x].maps \in 0 .. DescBlocks - 1
        /\ j \in 0 .. made[x].maps /\ m = made[x].maps - j
    BY CheckpointTypes, Sizes DEF Slots
  <1> QED BY <1>1, Sizes, RingBack DEF Back, SuperSlot, DescAt

-----------------------------------------------------------------------------
(* What the scan sees of a slot *)

LEMMA BlockFields ==
    /\ \A x, p : LET b == Map(x, p) IN
          b.type = "map" /\ b.xid = x /\ b.len = 0 /\ b.place = p /\ b.ok
    /\ \A x, n : LET b == Super(x, n) IN
          b.type = "super" /\ b.xid = x /\ b.len = n /\ b.place = 0 /\ b.ok
    /\ \A x, m : LET b == DescBlock(x, m) IN
          /\ b.xid = x /\ b.ok /\ ~Torn(b).ok /\ Torn(b).xid = x
          /\ m = made[x].maps => b = Super(x, made[x].maps + 1)
          /\ m # made[x].maps => b = Map(x, DataAt(x, m))
  BY DEF DescBlock, Super, Map, Torn, DataAt

\* A block that names a transaction was put there by the checkpoint of it.
LEMMA OwnerOf ==
    ASSUME TypeInv, DescOwned, NEW s \in Slots, desc[s].xid # 0
    PROVE  /\ desc[s].xid \in 1 .. xid
           /\ \E m \in 0 .. made[desc[s].xid].maps :
                 /\ s = DescAt(desc[s].xid, m)
                 /\ desc[s] \in {DescBlock(desc[s].xid, m), Torn(DescBlock(desc[s].xid, m))}
  <1>1. desc[s] # Blank BY DEF Blank
  <1>2. PICK x \in 1 .. xid : \E m \in 0 .. made[x].maps :
           s = DescAt(x, m) /\ desc[s] \in {DescBlock(x, m), Torn(DescBlock(x, m))}
    BY <1>1 DEF DescOwned
  <1> PICK m \in 0 .. made[x].maps :
           s = DescAt(x, m) /\ desc[s] \in {DescBlock(x, m), Torn(DescBlock(x, m))}
    BY <1>2
  <1>3. DescBlock(x, m).xid = x /\ Torn(DescBlock(x, m)).xid = x
    BY DEF DescBlock, Super, Map, Torn
  <1>4. desc[s].xid = x BY <1>2, <1>3
  <1> QED BY <1>2, <1>4

\* A superblock that is not torn is where its checkpoint has it.
LEMMA CandidateIsSuper ==
    ASSUME TypeInv, DescOwned, NEW s \in Slots, IsCandidate(s)
    PROVE  /\ desc[s].xid \in 1 .. xid
           /\ s = SuperSlot(made[desc[s].xid])
           /\ desc[s] = Super(desc[s].xid, made[desc[s].xid].maps + 1)
  <1>1. desc[s].type = "super" /\ desc[s].ok BY DEF IsCandidate
  <1>2. desc[s] # Blank BY <1>1 DEF Blank
  <1> PICK x \in 1 .. xid : \E m \in 0 .. made[x].maps :
           s = DescAt(x, m) /\ desc[s] \in {DescBlock(x, m), Torn(DescBlock(x, m))}
    BY <1>2 DEF DescOwned
  <1>3. PICK m \in 0 .. made[x].maps :
           s = DescAt(x, m) /\ desc[s] \in {DescBlock(x, m), Torn(DescBlock(x, m))}
    OBVIOUS
  <1>4. ~Torn(DescBlock(x, m)).ok BY DEF DescBlock, Super, Map, Torn
  <1>5. desc[s] = DescBlock(x, m) BY <1>1, <1>3, <1>4
  <1>6. m = made[x].maps BY <1>1, <1>5 DEF DescBlock, Map
  <1>7. desc[s] = Super(x, made[x].maps + 1) BY <1>5, <1>6 DEF DescBlock
  <1>8. x = desc[s].xid BY <1>7 DEF Super
  <1>9. x \in Xids BY StartedXids
  <1> QED BY <1>3, <1>6, <1>7, <1>8, <1>9, CheckpointTypes

\* If every map matches and the scan does not throw, no map is torn.
LEMMA MapsAreWhole ==
    ASSUME NEW s, desc[s].len \in Nat, MapsMatch(s), ~MapThrows(s),
           NEW j \in 1 .. desc[s].len - 1
    PROVE  desc[Back(s, j)].ok
  <1> SUFFICES ASSUME ~desc[Back(s, j)].ok PROVE FALSE OBVIOUS
  <1> DEFINE len == desc[s].len - 1
             stops == {l \in 1 .. len : ~desc[Back(s, l)].ok
                                        \/ desc[Back(s, l)].xid # desc[s].xid}
  <1>1. stops \in SUBSET Nat /\ j \in stops OBVIOUS
  <1>2. Min(stops) \in stops BY <1>1, NatSetHasMin
  <1>3. MapsRead(s) = Min(stops) BY <1>1 DEF MapsRead
  <1>4. MapsRead(s) \in 1 .. len BY <1>2, <1>3
  <1>5. ~desc[Back(s, MapsRead(s))].ok BY <1>2, <1>3, <1>4 DEF MapsMatch
  <1> QED BY <1>4, <1>5 DEF MapThrows

\* The scan accepts only complete checkpoints.
LEMMA AcceptedIsIntact ==
    ASSUME TypeInv, DescOwned, NEW s \in Slots, IsCandidate(s), ~Throws(s), Accepts(s)
    PROVE  Intact(desc[s].xid)
  <1> DEFINE x == desc[s].xid
             n == made[x].maps
  <1>1. x \in 1 .. xid /\ s = SuperSlot(made[x]) /\ desc[s] = Super(x, n + 1)
    BY CandidateIsSuper
  <1>2. x \in Xids BY <1>1, StartedXids
  <1> HIDE DEF x
  <1>3. n \in Nat \ {0} BY <1>2, CheckpointTypes, Sizes
  <1>4. desc[s].len = n + 1 BY <1>1 DEF Super
  <1>5. MapsMatch(s) /\ ~MapThrows(s) BY DEF Throws, Accepts
  <1>6. ASSUME NEW m \in 0 .. n - 1
        PROVE  desc[DescAt(x, m)] = DescBlock(x, m) /\ data[DataAt(x, m)] = Object(x)
    <2>1. PICK j \in Nat : j + m = n /\ j \in 1 .. n BY <1>3, n - m \in Nat
    <2>2. m \in Nat /\ m \in 0 .. n /\ m # n /\ j \in 1 .. desc[s].len - 1 BY <1>3, <1>4, <2>1
    <2>3. Back(s, j) = DescAt(x, m) BY <1>1, <1>2, <2>1, <2>2, BackIs
    <2>4. desc[Back(s, j)].ok BY <1>3, <1>4, <1>5, <2>2, MapsAreWhole
    <2>5. desc[Back(s, j)].xid = x BY <1>5, <2>2 DEF MapsMatch, x
    <2>6. DescAt(x, m) \in Slots /\ DataAt(x, m) \in Places /\ x # 0
      BY <1>1, <1>2, <2>2, CheckpointTypes
    <2>7. PICK l \in 0 .. n :
             /\ DescAt(x, m) = DescAt(x, l)
             /\ desc[DescAt(x, m)] \in {DescBlock(x, l), Torn(DescBlock(x, l))}
      BY <2>3, <2>5, <2>6, OwnerOf
    <2>8. l = m BY <1>2, <2>2, <2>7, OwnPlaces
    <2>9. desc[DescAt(x, m)] = DescBlock(x, m)
      BY <2>3, <2>4, <2>7, <2>8, BlockFields
    <2>10. desc[Back(s, j)].place = DataAt(x, m) BY <2>2, <2>3, <2>9, BlockFields
    <2>11. DataAt(x, m) \in Objects(s) BY <2>2, <2>10 DEF Objects
    <2>12. data[DataAt(x, m)].xid = x /\ data[DataAt(x, m)].ok
      BY <1>5, <2>11 DEF Accepts, Throws, x
    <2>13. data[DataAt(x, m)] \in [xid : 0 .. MaxXid, ok : BOOLEAN] BY <2>6 DEF TypeInv
    <2>14. data[DataAt(x, m)] = Object(x) BY <2>12, <2>13 DEF Object
    <2> QED BY <2>9, <2>14
  <1>7. desc[DescAt(x, n)] = DescBlock(x, n) BY <1>1, <1>2, CheckpointTypes, BlockFields
  <1>8. \A m \in 0 .. n : m = n \/ m \in 0 .. n - 1 BY <1>3
  <1> QED BY <1>6, <1>7, <1>8, IntactIs DEF x

\* A complete checkpoint is accepted at the slot of its superblock.
LEMMA IntactIsAccepted ==
    ASSUME TypeInv, NEW x \in 1 .. xid, Intact(x)
    PROVE  LET s == SuperSlot(made[x]) IN
           s \in Slots /\ IsCandidate(s) /\ desc[s].xid = x /\ ~Throws(s) /\ Accepts(s)
  <1> DEFINE s == SuperSlot(made[x])
             n == made[x].maps
  <1>1. x \in Xids BY StartedXids
  <1>2. n \in Nat \ {0} BY <1>1, CheckpointTypes, Sizes
  <1>3. s = DescAt(x, n) /\ s \in Slots BY <1>1, <1>2, CheckpointTypes
  <1>4. desc[s] = Super(x, n + 1) BY <1>2, <1>3, IntactIs, BlockFields
  <1>5. IsCandidate(s) /\ desc[s].xid = x /\ desc[s].len = n + 1
    BY <1>4, BlockFields DEF IsCandidate
  <1>6. ASSUME NEW j \in 1 .. n
        PROVE  \E m \in 0 .. n - 1 : desc[Back(s, j)] = Map(x, DataAt(x, m))
    <2>1. PICK m \in Nat : j + m = n /\ m \in 0 .. n - 1 BY <1>2, n - j \in Nat
    <2>2. Back(s, j) = DescAt(x, m)
      <3>1. j \in Nat /\ m \in Nat /\ j + m = made[x].maps BY <2>1
      <3> QED BY <1>1, <3>1, BackIs, Zenon
    <2>3. m \in 0 .. n /\ m # n BY <1>2, <2>1
    <2>4. desc[DescAt(x, m)] = DescBlock(x, m) BY <2>3, IntactIs
    <2> QED BY <2>1, <2>2, <2>3, <2>4, BlockFields
  <1> HIDE DEF s
  <1>7. desc[s].len - 1 = n BY <1>2, <1>5
  <1> HIDE DEF n
  <1>8. \A j \in 1 .. n : desc[Back(s, j)].ok /\ desc[Back(s, j)].xid = x
    BY <1>6, BlockFields
  <1>9. MapsMatch(s) BY <1>5, <1>7, <1>8 DEF MapsMatch
  <1>10. ~MapThrows(s)
    <2> DEFINE stops == {j \in 1 .. n : ~desc[Back(s, j)].ok
                                        \/ desc[Back(s, j)].xid # desc[s].xid}
    <2>1. stops = {} BY <1>5, <1>8
    <2>2. MapsRead(s) = n BY <1>7, <2>1 DEF MapsRead
    <2>3. n \in 1 .. n BY <1>2
    <2> QED BY <1>8, <2>2, <2>3 DEF MapThrows
  <1>11. ASSUME NEW p \in Objects(s) PROVE data[p].xid = x /\ data[p].ok
    <2>1. PICK j \in 1 .. n : p = desc[Back(s, j)].place BY <1>7 DEF Objects
    <2>2. PICK m \in 0 .. n - 1 : p = DataAt(x, m) BY <1>6, <2>1, BlockFields
    <2>3. data[p] = Object(x) BY <2>2, IntactIs DEF n
    <2> QED BY <2>3 DEF Object
  <1> QED BY <1>3, <1>5, <1>9, <1>10, <1>11 DEF Throws, Accepts, s
-----------------------------------------------------------------------------
(* Steps of the writer *)

\* The blocks of a checkpoint depend on where it was made, and on nothing else.
LEMMA BlocksFrame ==
    ASSUME NEW x, made'[x] = made[x]
    PROVE  /\ Blocks(x)' = Blocks(x)
           /\ SuperSlot(made[x])' = SuperSlot(made[x])
           /\ \A m : /\ DescAt(x, m)' = DescAt(x, m)
                     /\ DescBlock(x, m)' = DescBlock(x, m)
                     /\ DataAt(x, m)' = DataAt(x, m)
  BY DEF Blocks, BlocksAt, SuperSlot, DescAt, DescBlock, DataAt

LEMMA IntactFrame ==
    ASSUME NEW x, made'[x] = made[x], UNCHANGED disk
    PROVE  Intact(x)' <=> Intact(x)
  <1>1. Blocks(x)' = Blocks(x) BY BlocksFrame
  <1>2. \A w : Holds(w)' <=> Holds(w) BY DEF Holds, disk
  <1> QED BY <1>1, <1>2 DEF Intact

LEMMA BlockTyped ==
    ASSUME TypeInv, NEW x \in Xids, NEW m \in 0 .. made[x].maps
    PROVE  /\ DescAt(x, m) \in Slots /\ DataAt(x, m) \in Places
           /\ DescBlock(x, m) \in DescBlockSet /\ Torn(DescBlock(x, m)) \in DescBlockSet
  <1>1. m \in Nat /\ made[x].maps + 1 \in 0 .. MaxMaps + 1 /\ x \in 0 .. MaxXid
    BY CheckpointTypes, Sizes DEF Xids
  <1>2. DescAt(x, m) \in Slots /\ DataAt(x, m) \in Places BY <1>1, CheckpointTypes
  <1>3. \A b \in DescBlockSet : Torn(b) \in DescBlockSet BY DEF DescBlockSet, Torn
  <1>4. Super(x, made[x].maps + 1) \in DescBlockSet
    BY <1>1 DEF Super, DescBlockSet, BlockTypes
  <1>5. \A p \in Places : Map(x, p) \in DescBlockSet
    BY <1>1, Sizes DEF Map, DescBlockSet, BlockTypes
  <1> QED BY <1>2, <1>3, <1>4, <1>5, BlockFields

\* A block of the checkpoint that is written, whole or torn, changes its place only.
LEMMA PutKeeps ==
    ASSUME TypeInv, DescOwned, UNCHANGED <<made, xid>>, NEW w \in Blocks(xid),
           NEW b \in {w.block, Torn(w.block)}, Put(w, b)
    PROVE  /\ desc' \in [Slots -> DescBlockSet]
           /\ data' \in [Places -> [xid : 0 .. MaxXid, ok : BOOLEAN]]
           /\ DescOwned'
           /\ b = w.block => Holds(w)'
           /\ \A x \in Xids : \A v \in Blocks(x) :
                 Holds(v) /\ (v.area # w.area \/ v.at # w.at) => Holds(v)'
  <1>1. xid \in Xids /\ xid \in 1 .. xid /\ made[xid].maps \in Nat
    BY CheckpointTypes, Sizes DEF TypeInv, Xids
  <1>2. CASE w \in {DescWrite(xid, m) : m \in 0 .. made[xid].maps}
    <2>1. PICK m \in 0 .. made[xid].maps : w = DescWrite(xid, m) BY <1>2
    <2>2. w.area = "desc" /\ w.at = DescAt(xid, m) /\ w.block = DescBlock(xid, m)
      BY <2>1 DEF DescWrite
    <2>3. desc' = [desc EXCEPT ![DescAt(xid, m)] = b] /\ data' = data
      BY <2>2 DEF Put
    <2>4. DescAt(xid, m) \in Slots /\ b \in DescBlockSet BY <1>1, <2>2, BlockTyped
    <2>5. desc \in [Slots -> DescBlockSet] BY DEF TypeInv
    <2>6. DescOwned'
      <3>0. \A x, l : DescAt(x, l)' = DescAt(x, l) /\ DescBlock(x, l)' = DescBlock(x, l)
        BY DEF DescAt, DescBlock
      <3> SUFFICES ASSUME NEW s \in Slots
                   PROVE  \/ desc'[s] = Blank
                          \/ \E x \in 1 .. xid : \E l \in 0 .. made[x].maps :
                                /\ s = DescAt(x, l)
                                /\ desc'[s] \in {DescBlock(x, l), Torn(DescBlock(x, l))}
        BY <3>0 DEF DescOwned
      <3>1. CASE s = DescAt(xid, m) BY <1>1, <2>2, <2>3, <2>4, <2>5, <3>1
      <3>2. CASE s # DescAt(xid, m) BY <2>3, <2>5, <3>2 DEF DescOwned
      <3> QED BY <3>1, <3>2
    <2>7. b = w.block => Holds(w)' BY <2>2, <2>3, <2>4, <2>5 DEF Holds
    <2>8. ASSUME NEW x \in Xids, NEW v \in Blocks(x), Holds(v),
                 v.area # w.area \/ v.at # w.at
          PROVE  Holds(v)'
      BY <2>2, <2>3, <2>4, <2>5, <2>8 DEF Holds
    <2> QED BY <2>3, <2>4, <2>5, <2>6, <2>7, <2>8 DEF TypeInv
  <1>3. CASE w \in {DataWrite(xid, m) : m \in 0 .. made[xid].maps - 1}
    <2>1. PICK m \in 0 .. made[xid].maps - 1 : w = DataWrite(xid, m) BY <1>3
    <2>2. w.area = "data" /\ w.at = DataAt(xid, m) /\ w.block = Object(xid)
      BY <2>1 DEF DataWrite
    <2>3. data' = [data EXCEPT ![DataAt(xid, m)] = b] /\ desc' = desc
      BY <2>2 DEF Put
    <2>4. DataAt(xid, m) \in Places BY <1>1, <2>1, BlockTyped
    <2>5. b \in [xid : 0 .. MaxXid, ok : BOOLEAN]
      <3>1. xid \in 0 .. MaxXid BY <1>1, Sizes DEF Xids
      <3>2. Object(xid) \in [xid : 0 .. MaxXid, ok : BOOLEAN] BY <3>1 DEF Object
      <3>3. Torn(Object(xid)) \in [xid : 0 .. MaxXid, ok : BOOLEAN] BY <3>1 DEF Object, Torn
      <3> QED BY <2>2, <3>2, <3>3
    <2>6. data \in [Places -> [xid : 0 .. MaxXid, ok : BOOLEAN]] BY DEF TypeInv
    <2>7. DescOwned' BY <2>3, BlocksFrame DEF DescOwned
    <2>8. b = w.block => Holds(w)' BY <2>2, <2>3, <2>4, <2>6 DEF Holds
    <2>9. ASSUME NEW x \in Xids, NEW v \in Blocks(x), Holds(v),
                 v.area # w.area \/ v.at # w.at
          PROVE  Holds(v)'
      <3>1. CASE v.area = "desc" BY <2>3, <2>9, <3>1 DEF Holds
      <3>2. CASE v.area # "desc"
        <4>1. v.area = "data" BY <3>2, BlocksAre DEF DescWrite, DataWrite
        <4> QED BY <2>2, <2>3, <2>4, <2>6, <2>9, <4>1 DEF Holds
      <3> QED BY <3>1, <3>2
    <2> QED BY <2>3, <2>4, <2>5, <2>6, <2>7, <2>8, <2>9 DEF TypeInv
  <1> QED BY <1>2, <1>3, BlocksAre

\* No two writes of a checkpoint go to one place.
LEMMA OwnWrites ==
    ASSUME TypeInv, NEW x \in Xids, NEW v \in Blocks(x), NEW w \in Blocks(x),
           v.area = w.area, v.at = w.at
    PROVE  v = w
  <1>1. CASE v.area = "desc"
    <2>1. PICK l \in 0 .. made[x].maps : v = DescWrite(x, l)
      BY <1>1, BlocksAre DEF DescWrite, DataWrite
    <2> w.area = "desc" BY <1>1
    <2>2. PICK m \in 0 .. made[x].maps : w = DescWrite(x, m)
      BY BlocksAre DEF DescWrite, DataWrite
    <2>3. DescAt(x, l) = DescAt(x, m) BY <2>1, <2>2 DEF DescWrite
    <2> QED BY <2>1, <2>2, <2>3, OwnPlaces
  <1>2. CASE v.area # "desc"
    <2>1. PICK l \in 0 .. made[x].maps - 1 : v = DataWrite(x, l)
      BY <1>2, BlocksAre DEF DescWrite, DataWrite
    <2> w.area # "desc" BY <1>2
    <2>2. PICK m \in 0 .. made[x].maps - 1 : w = DataWrite(x, m)
      BY BlocksAre DEF DescWrite, DataWrite
    <2>3. DataAt(x, l) = DataAt(x, m) BY <2>1, <2>2 DEF DataWrite
    <2> QED BY <2>1, <2>2, <2>3, OwnPlaces
  <1> QED BY <1>1, <1>2
LEMMA InitialCheckpoint == CheckpointInit => CheckpointIInv
  <1> SUFFICES ASSUME CheckpointInit PROVE CheckpointIInv OBVIOUS
  <1>1. PICK n \in 1 .. MaxMaps :
           /\ made = [x \in Xids |-> At(0, 0, n)]
           /\ desc = [s \in Slots |-> IF s < n THEN Map(1, s)
                                      ELSE IF s = n THEN Super(1, n + 1) ELSE Blank]
           /\ data = [p \in Places |-> IF p < n THEN Object(1) ELSE Torn(Object(0))]
    BY DEF CheckpointInit
  <1>2. /\ xid = 1 /\ pending = {} /\ committed = 1 /\ phase = "writing" /\ i = 0
        /\ containers = {}
    BY DEF CheckpointInit
  <1>3. 1 \in Xids /\ \A x \in Xids : made[x] = At(0, 0, n) BY <1>1, Sizes DEF Xids
  <1>4. \A x \in Xids : made[x].slot = 0 /\ made[x].place = 0 /\ made[x].maps = n
    BY <1>3 DEF At
  <1>5. n \in Nat /\ n < DescBlocks /\ n < DataBlocks /\ n + 1 \in 0 .. MaxMaps + 1
    BY Sizes
  <1>6. /\ \A m \in 0 .. n : m \in Slots /\ DescAt(1, m) = m
        /\ \A m \in 0 .. n - 1 : m \in Places /\ DataAt(1, m) = m
    BY <1>3, <1>4, <1>5, Sizes DEF DescAt, DataAt, Slots, Places
  <1>7. \A s \in Slots : s < n => s \in Places BY <1>5, Sizes DEF Slots, Places
  <1>8. TypeInv
    <2>1. desc \in [Slots -> DescBlockSet]
      <3>1. \A p \in Places : Map(1, p) \in DescBlockSet
        BY Sizes DEF Map, DescBlockSet, BlockTypes
      <3>2. Super(1, n + 1) \in DescBlockSet /\ Blank \in DescBlockSet
        BY <1>5, Sizes DEF Super, Blank, DescBlockSet, BlockTypes
      <3> QED BY <1>1, <1>7, <3>1, <3>2
    <2>2. data \in [Places -> [xid : 0 .. MaxXid, ok : BOOLEAN]]
      <3>1. Object(1) \in [xid : 0 .. MaxXid, ok : BOOLEAN] BY Sizes DEF Object
      <3>2. \A x : x \in 0 .. MaxXid => Torn(Object(x)) \in [xid : 0 .. MaxXid, ok : BOOLEAN]
        BY DEF Object, Torn
      <3>3. 0 \in 0 .. MaxXid BY Sizes
      <3> QED BY <1>1, <3>1, <3>2, <3>3
    <2>3. made \in [Xids -> [slot : Slots, place : Places, maps : 1 .. MaxMaps]]
      BY <1>1, Sizes DEF At, Slots, Places
    <2> QED BY <1>2, <1>3, <2>1, <2>2, <2>3, Sizes DEF TypeInv, Phases
  <1>9. \A m \in 0 .. n : DescBlock(1, m) = desc[m]
    BY <1>1, <1>3, <1>4, <1>5, <1>6 DEF DescBlock, DataAt
  <1>10. DescOwned
    <2> SUFFICES ASSUME NEW s \in Slots, desc[s] # Blank
                 PROVE  \E m \in 0 .. made[1].maps : s = DescAt(1, m) /\ desc[s] = DescBlock(1, m)
      BY <1>2 DEF DescOwned
    <2>1. s \in 0 .. n BY <1>1, <1>5 DEF Slots
    <2> QED BY <1>3, <1>4, <1>6, <1>9, <2>1
  <1>11. Intact(1)
    <2>1. \A m \in 0 .. n - 1 : data[DataAt(1, m)] = Object(1) BY <1>1, <1>5, <1>6
    <2> QED BY <1>3, <1>4, <1>6, <1>9, <2>1, IntactIs
  <1> QED BY <1>2, <1>8, <1>10, <1>11
      DEF CheckpointIInv, WriterInv, ReaderInv, ThrowsOverIncomplete

\* Behind the committed checkpoint there is room for another one in both rings.
LEMMA RoomBehind ==
    ASSUME TypeInv, NEW c \in Xids, NEW n \in 1 .. MaxMaps, NEW x,
           NEW v \in BlocksAt(x, At((SuperSlot(made[c]) + 1) % DescBlocks,
                                    (made[c].place + made[c].maps) % DataBlocks, n)),
           NEW w \in Blocks(c)
    PROVE  v.area # w.area \/ v.at # w.at
  <1> DEFINE l == made[c].maps
             slot == (SuperSlot(made[c]) + 1) % DescBlocks
             place == (made[c].place + l) % DataBlocks
  <1>1. /\ made[c].slot \in 0 .. DescBlocks - 1 /\ made[c].place \in 0 .. DataBlocks - 1
        /\ l \in 1 .. MaxMaps
    BY CheckpointTypes DEF Slots, Places
  <1>2. slot = (made[c].slot + (l + 1)) % DescBlocks
    <2>1. l \in 0 .. DescBlocks - 1 BY <1>1, Sizes
    <2> QED BY <1>1, <2>1, Sizes, RingNext DEF SuperSlot
  <1>3. \/ v.area = "desc" /\ \E m \in 0 .. n : v.at = (slot + m) % DescBlocks
        \/ v.area = "data" /\ \E m \in 0 .. n - 1 : v.at = (place + m) % DataBlocks
    BY DEF BlocksAt, At
  <1>4. \/ w.area = "desc" /\ \E m \in 0 .. l : w.at = (made[c].slot + m) % DescBlocks
        \/ w.area = "data" /\ \E m \in 0 .. l - 1 : w.at = (made[c].place + m) % DataBlocks
    BY BlocksAre DEF DescWrite, DataWrite, DescAt, DataAt
  <1> HIDE DEF slot
  <1>5. ASSUME NEW y \in 0 .. n, NEW m \in 0 .. l
        PROVE  (slot + y) % DescBlocks # (made[c].slot + m) % DescBlocks
    <2>1. /\ l + 1 \in 0 .. DescBlocks /\ n + 1 \in 0 .. DescBlocks
          /\ (l + 1) + (n + 1) <= DescBlocks
          /\ m \in 0 .. (l + 1) - 1 /\ y \in 0 .. (n + 1) - 1
      BY <1>1, SizeAssumption
    <2> QED BY <1>1, <1>2, <2>1, Sizes, RingBehind
  <1>6. ASSUME NEW y \in 0 .. n - 1, NEW m \in 0 .. l - 1
        PROVE  (place + y) % DataBlocks # (made[c].place + m) % DataBlocks
    <2>1. l \in 0 .. DataBlocks /\ n \in 0 .. DataBlocks /\ l + n <= DataBlocks
      BY <1>1, SizeAssumption
    <2> QED BY <1>1, <2>1, Sizes, RingBehind
  <1> HIDE DEF place, l
  <1> QED BY <1>3, <1>4, <1>5, <1>6
LEMMA StartCheckpointIInv == CheckpointIInv /\ StartCheckpoint => CheckpointIInv'
  <1> SUFFICES ASSUME CheckpointIInv, StartCheckpoint PROVE CheckpointIInv' OBVIOUS
  <1> USE DEF CheckpointIInv
  <1> DEFINE last == made[committed]
             Made(n) == At((SuperSlot(last) + 1) % DescBlocks,
                            (last.place + last.maps) % DataBlocks, n)
  <1>1. PICK n \in 1 .. MaxMaps :
           /\ made' = [made EXCEPT ![xid + 1] = Made(n)]
           /\ pending' = BlocksAt(xid + 1, Made(n))
    BY DEF StartCheckpoint
  <1>2. /\ phase = "writing" /\ xid < MaxXid /\ xid' = xid + 1
        /\ UNCHANGED <<desc, data, committed, phase, i, containers, container>>
    BY DEF StartCheckpoint, disk, reader
  <1>3. /\ xid \in Xids /\ committed \in 1 .. xid
        /\ made \in [Xids -> [slot : Slots, place : Places, maps : 1 .. MaxMaps]]
    BY DEF TypeInv
  <1>4. xid + 1 \in Xids /\ \A x \in 1 .. xid : x \in Xids /\ x # xid + 1
    BY <1>2, <1>3, Sizes DEF Xids
  <1>5. \A x \in 1 .. xid : made'[x] = made[x] BY <1>1, <1>3, <1>4
  <1>6. made'[xid + 1] = Made(n) BY <1>1, <1>3, <1>4
  <1>7. Made(n) \in [slot : Slots, place : Places, maps : 1 .. MaxMaps]
    <2>1. last.slot \in Slots /\ last.place \in Places /\ last.maps \in 1 .. MaxMaps
      BY <1>3, <1>4, CheckpointTypes
    <2>2. \A a \in Int : a % DescBlocks \in Slots /\ a % DataBlocks \in Places
      BY Sizes DEF Slots, Places
    <2>3. SuperSlot(last) \in Slots
      <3>1. last.slot + last.maps \in Int BY <2>1, Sizes DEF Slots
      <3> QED BY <2>2, <3>1 DEF SuperSlot
    <2>4. SuperSlot(last) + 1 \in Int /\ last.place + last.maps \in Int
      BY <2>1, <2>3, Sizes DEF Slots, Places
    <2> QED BY <2>2, <2>4 DEF At
  <1>8. Blocks(xid)' = pending' BY <1>1, <1>2, <1>6 DEF Blocks
  <1>9. TypeInv'
    <2>1. made' \in [Xids -> [slot : Slots, place : Places, maps : 1 .. MaxMaps]]
      BY <1>1, <1>3, <1>7
    <2>2. committed' \in 1 .. xid' /\ containers' \subseteq 1 .. xid'
      BY <1>2, <1>3, Sizes DEF TypeInv, Xids
    <2> QED BY <1>2, <1>4, <1>8, <2>1, <2>2 DEF TypeInv
  <1>10. DescOwned'
    <2> SUFFICES ASSUME NEW s \in Slots
                 PROVE  (\/ desc[s] = Blank
                         \/ \E x \in 1 .. xid : \E m \in 0 .. made[x].maps :
                               /\ s = DescAt(x, m)
                               /\ desc[s] \in {DescBlock(x, m), Torn(DescBlock(x, m))})'
      BY DEF DescOwned
    <2>1. CASE desc[s] = Blank BY <1>2, <2>1
    <2>2. CASE desc[s] # Blank
      <3>1. PICK x \in 1 .. xid : \E m \in 0 .. made[x].maps :
               s = DescAt(x, m) /\ desc[s] \in {DescBlock(x, m), Torn(DescBlock(x, m))}
        BY <2>2 DEF DescOwned
      <3>2. x \in 1 .. xid' BY <1>2, <1>3, Sizes DEF Xids
      <3>3. made'[x] = made[x] BY <1>5
      <3> QED BY <1>2, <3>1, <3>2, <3>3, BlocksFrame
    <2> QED BY <2>1, <2>2
  <1>11. WriterInv'
    <2>1. made'[committed] = made[committed] /\ committed' = committed BY <1>2, <1>3, <1>5
    <2>2. Intact(committed)' BY <1>2, <2>1, IntactFrame DEF WriterInv, disk, Intact, Blocks, Holds
    <2>3. committed' < xid' BY <1>2, <1>3, Sizes DEF Xids
    <2>4. Blocks(committed)' = Blocks(committed) BY <2>1 DEF Blocks
    <2>5. committed \in Xids BY <1>3, <1>4
    <2>6. \A v \in BlocksAt(xid + 1, Made(n)), w \in Blocks(committed) :
             v.area # w.area \/ v.at # w.at
      BY <2>5, RoomBehind
    <2>7. \A v \in Blocks(xid)', w \in Blocks(committed)' : v.area # w.area \/ v.at # w.at
      BY <1>1, <1>8, <2>4, <2>6
    <2> QED BY <1>8, <2>2, <2>3, <2>7 DEF WriterInv
  <1>12. ReaderInv' BY <1>2 DEF ReaderInv, ThrowsOverIncomplete
  <1> QED BY <1>9, <1>10, <1>11, <1>12

LEMMA WriteBlockIInv == CheckpointIInv /\ WriteBlock => CheckpointIInv'
  <1> SUFFICES ASSUME CheckpointIInv, WriteBlock PROVE CheckpointIInv' OBVIOUS
  <1>0. TypeInv /\ DescOwned /\ WriterInv BY DEF CheckpointIInv
  <1>1. PICK w \in pending : Put(w, w.block) /\ pending' = pending \ {w}
    BY DEF WriteBlock
  <1>2. /\ phase = "writing" /\ UNCHANGED <<made, xid, phase, i, containers, container>>
        /\ committed' = IF pending' = {} THEN xid ELSE committed
    BY DEF WriteBlock, reader
  <1>3. w \in Blocks(xid) /\ Blocks(xid)' = Blocks(xid)
    BY <1>0, <1>2, BlocksFrame DEF TypeInv, Blocks
  <1>4. xid \in Xids /\ committed \in Xids /\ xid \in 1 .. xid
    BY <1>0, StartedXids, Sizes DEF TypeInv, Xids
  <1>5. /\ desc' \in [Slots -> DescBlockSet]
        /\ data' \in [Places -> [xid : 0 .. MaxXid, ok : BOOLEAN]]
        /\ DescOwned'
        /\ Holds(w)'
        /\ \A x \in Xids : \A v \in Blocks(x) :
              Holds(v) /\ (v.area # w.area \/ v.at # w.at) => Holds(v)'
    BY <1>0, <1>1, <1>2, <1>3, PutKeeps
  <1>6. TypeInv' BY <1>0, <1>1, <1>2, <1>3, <1>4, <1>5 DEF TypeInv
  <1>7. \A v \in Blocks(xid) \ pending' : Holds(v)'
    <2> SUFFICES ASSUME NEW v \in Blocks(xid), v \notin pending' PROVE Holds(v)' OBVIOUS
    <2>1. CASE v = w BY <1>5, <2>1
    <2>2. CASE v # w
      <3>1. Holds(v) BY <1>0, <1>1, <2>2 DEF WriterInv
      <3>2. v.area # w.area \/ v.at # w.at BY <1>0, <1>3, <1>4, <2>2, OwnWrites
      <3> QED BY <1>4, <1>5, <3>1, <3>2
    <2> QED BY <2>1, <2>2
  <1>8. WriterInv'
    <2>1. CASE pending' = {}
      <3>1. committed' = xid BY <1>2, <2>1
      <3>2. Blocks(committed)' = Blocks(xid) BY <1>2, <3>1 DEF Blocks
      <3>3. \A v \in Blocks(xid) : Holds(v)' BY <1>7, <2>1
      <3>4. Intact(committed)' BY <3>2, <3>3 DEF Intact
      <3> QED BY <2>1, <3>4 DEF WriterInv
    <2>2. CASE pending' # {}
      <3>1. committed' = committed /\ Blocks(committed)' = Blocks(committed)
        BY <1>2, <2>2 DEF Blocks
      <3>2. \A v \in Blocks(committed) : Holds(v) BY <1>0 DEF WriterInv, Intact
      <3>3. \A v \in Blocks(committed) : w.area # v.area \/ w.at # v.at
        BY <1>0, <1>1, <1>3 DEF WriterInv
      <3>4. \A v \in Blocks(committed) : Holds(v)' BY <1>4, <1>5, <3>2, <3>3
      <3>5. Intact(committed)' BY <3>1, <3>4 DEF Intact
      <3> QED BY <1>0, <1>1, <1>2, <1>3, <1>7, <3>1, <3>5 DEF WriterInv
    <2> QED BY <2>1, <2>2
  <1>9. ReaderInv' BY <1>2 DEF CheckpointIInv, ReaderInv, ThrowsOverIncomplete
  <1> QED BY <1>5, <1>6, <1>8, <1>9 DEF CheckpointIInv
\* What a step that changes no block and no checkpoint leaves of the invariant.
LEMMA DiskFrame ==
    ASSUME UNCHANGED <<disk, made, xid, committed>>, CheckpointIInv, pending' \subseteq pending,
           pending' \in {{}, pending}
    PROVE  /\ DescOwned' /\ WriterInv'
           /\ (Blocks(xid))' = Blocks(xid)
           /\ \A x : Intact(x)' <=> Intact(x)
           /\ \A x : SuperSlot(made[x])' = SuperSlot(made[x])
           /\ \A s : /\ IsCandidate(s)' <=> IsCandidate(s)
                     /\ Throws(s)' <=> Throws(s)
                     /\ Accepts(s)' <=> Accepts(s)
  <1>1. UNCHANGED <<desc, data, made, xid, committed>> BY DEF disk
  <1>2. \A x : Blocks(x)' = Blocks(x) BY <1>1 DEF Blocks
  <1>3. \A w : Holds(w)' <=> Holds(w) BY <1>1 DEF Holds
  <1>4. \A x : Intact(x)' <=> Intact(x) BY <1>2, <1>3 DEF Intact
  <1>5. Blocks(xid)' = Blocks(xid) /\ Blocks(committed)' = Blocks(committed)
    BY <1>1 DEF Blocks
  <1>6. Intact(committed)' <=> Intact(committed) BY <1>3, <1>5 DEF Intact
  <1>7. WriterInv' BY <1>1, <1>3, <1>5, <1>6 DEF CheckpointIInv, WriterInv
  <1>8. DescOwned'
    BY <1>1 DEF CheckpointIInv, DescOwned, DescAt, DescBlock
  <1>9. \A s : /\ IsCandidate(s)' <=> IsCandidate(s)
               /\ Throws(s)' <=> Throws(s)
               /\ Accepts(s)' <=> Accepts(s)
    BY <1>1 DEF IsCandidate, Throws, Accepts, MapThrows, MapsMatch, MapsRead, Objects
  <1>10. \A x : SuperSlot(made[x])' = SuperSlot(made[x]) BY <1>1
  <1> QED BY <1>4, <1>5, <1>7, <1>8, <1>9, <1>10

LEMMA CrashIInv == CheckpointIInv /\ Crash => CheckpointIInv'
  <1> SUFFICES ASSUME CheckpointIInv, Crash PROVE CheckpointIInv' OBVIOUS
  <1>0. TypeInv /\ DescOwned /\ WriterInv BY DEF CheckpointIInv
  <1>1. /\ phase = "writing" /\ phase' = "scanning" /\ pending' = {} /\ i' = 0
        /\ containers' = {} /\ UNCHANGED <<made, xid, committed>>
    BY DEF Crash
  <1>2. xid \in Xids /\ committed \in Xids /\ xid \in 1 .. xid
    BY <1>0, StartedXids, Sizes DEF TypeInv, Xids
  <1>3. Blocks(committed)' = Blocks(committed) BY <1>1 DEF Blocks
  <1>4. /\ desc' \in [Slots -> DescBlockSet]
        /\ data' \in [Places -> [xid : 0 .. MaxXid, ok : BOOLEAN]]
        /\ DescOwned' /\ Intact(committed)'
    <2>1. CASE UNCHANGED disk
      <3>1. DescOwned' /\ WriterInv' BY <1>1, <2>1, DiskFrame
      <3> QED BY <1>0, <2>1, <3>1 DEF TypeInv, disk, WriterInv
    <2>2. CASE \E w \in pending : Put(w, Torn(w.block))
      <3>1. PICK w \in pending : Put(w, Torn(w.block)) BY <2>2
      <3>2. w \in Blocks(xid) BY <1>0 DEF TypeInv
      <3>3. /\ desc' \in [Slots -> DescBlockSet]
            /\ data' \in [Places -> [xid : 0 .. MaxXid, ok : BOOLEAN]]
            /\ DescOwned'
            /\ \A x \in Xids : \A v \in Blocks(x) :
                  Holds(v) /\ (v.area # w.area \/ v.at # w.at) => Holds(v)'
        BY <1>0, <1>1, <3>1, <3>2, PutKeeps
      <3>4. \A v \in Blocks(committed) : Holds(v) /\ (v.area # w.area \/ v.at # w.at)
        BY <1>0, <3>2 DEF WriterInv, Intact
      <3>5. \A v \in Blocks(committed) : Holds(v)' BY <1>2, <3>3, <3>4
      <3> QED BY <1>3, <3>3, <3>5 DEF Intact
    <2> QED BY <2>1, <2>2 DEF Crash
  <1>5. TypeInv' BY <1>0, <1>1, <1>4, Sizes DEF TypeInv, Phases
  <1>6. WriterInv' BY <1>1, <1>4 DEF WriterInv
  <1>7. ReaderInv'
    <2>1. ASSUME NEW x \in 1 .. xid PROVE ~(SuperSlot(made[x])' < 0)
      <3>1. SuperSlot(made[x]) \in Slots BY <1>0, StartedXids, CheckpointTypes, Sizes
      <3>2. SuperSlot(made[x])' = SuperSlot(made[x]) BY <1>1 DEF SuperSlot
      <3> QED BY <3>1, <3>2, Sizes DEF Slots
    <2> QED BY <1>1, <2>1 DEF ReaderInv, ThrowsOverIncomplete
  <1> QED BY <1>4, <1>5, <1>6, <1>7 DEF CheckpointIInv

LEMMA ResumeIInv == CheckpointIInv /\ Resume => CheckpointIInv'
  <1> SUFFICES ASSUME CheckpointIInv, Resume PROVE CheckpointIInv' OBVIOUS
  <1>1. /\ phase' = "writing" /\ i' = 0 /\ containers' = {} /\ UNCHANGED <<disk, writer>>
    BY DEF Resume
  <1>2. UNCHANGED <<desc, data, made, xid, pending, committed>> BY <1>1 DEF disk, writer
  <1>3. DescOwned' /\ WriterInv' /\ Blocks(xid)' = Blocks(xid) BY <1>1, <1>2, DiskFrame
  <1>4. TypeInv' BY <1>1, <1>2, <1>3, Sizes DEF CheckpointIInv, TypeInv, Phases
  <1>5. ReaderInv' BY <1>1 DEF ReaderInv, ThrowsOverIncomplete
  <1> QED BY <1>3, <1>4, <1>5 DEF CheckpointIInv
-----------------------------------------------------------------------------
(* Steps of the scan *)

LEMMA ScanSlotIInv == CheckpointIInv /\ ScanSlot => CheckpointIInv'
  <1> SUFFICES ASSUME CheckpointIInv, ScanSlot PROVE CheckpointIInv' OBVIOUS
  <1>1. TypeInv /\ DescOwned /\ WriterInv /\ ReaderInv BY DEF CheckpointIInv
  <1>2. phase = "scanning" /\ i < DescBlocks /\ UNCHANGED <<disk, writer, container>>
    BY DEF ScanSlot
  <1>3. UNCHANGED <<desc, data, made, xid, pending, committed>> BY <1>2 DEF disk, writer
  <1>4. i \in Slots /\ i + 1 \in 0 .. DescBlocks BY <1>1, <1>2, Sizes DEF TypeInv, Slots
  <1>5. /\ DescOwned' /\ WriterInv' /\ Blocks(xid)' = Blocks(xid)
        /\ \A x : Intact(x)' <=> Intact(x)
        /\ \A x : SuperSlot(made[x])' = SuperSlot(made[x])
        /\ \A s : IsCandidate(s)' <=> IsCandidate(s)
    BY <1>2, <1>3, DiskFrame
  <1>6. \A x \in containers : Intact(x) BY <1>1, <1>2 DEF ReaderInv
  <1>7. \A x \in 1 .. xid : Intact(x) /\ SuperSlot(made[x]) < i => x \in containers
    BY <1>1, <1>2 DEF ReaderInv
  <1>8. CASE IsCandidate(i) /\ Throws(i)
    <2>1. phase' = "threw" /\ UNCHANGED <<i, containers>> BY <1>8 DEF ScanSlot
    <2>2. TypeInv' BY <1>1, <1>3, <1>5, <2>1 DEF TypeInv, Phases
    <2>3. ASSUME NEW x \in 1 .. xid, desc[i].xid = x PROVE ~Intact(x)
      <3>1. i = SuperSlot(made[x]) BY <1>1, <1>4, <1>8, <2>3, CandidateIsSuper
      <3>2. Intact(x) => ~Throws(SuperSlot(made[x])) BY <1>1, IntactIsAccepted
      <3> QED BY <1>8, <3>1, <3>2
    <2>4. IsCandidate(i)' BY <1>5, <1>8, <2>1 DEF IsCandidate
    <2>5. \A x \in 1 .. xid' : desc'[i'].xid = x => ~Intact(x)'
      BY <1>3, <1>5, <2>1, <2>3
    <2>6. ReaderInv' BY <2>1, <2>4, <2>5 DEF ReaderInv, ThrowsOverIncomplete
    <2> QED BY <1>5, <2>2, <2>6 DEF CheckpointIInv
  <1>9. CASE ~(IsCandidate(i) /\ Throws(i))
    <2>1. /\ i' = i + 1
          /\ containers' = IF IsCandidate(i) /\ Accepts(i)
                           THEN containers \cup {desc[i].xid} ELSE containers
          /\ phase' = IF i' = DescBlocks THEN "picking" ELSE phase
      BY <1>9 DEF ScanSlot
    <2>2. IsCandidate(i) /\ Accepts(i) => desc[i].xid \in 1 .. xid /\ Intact(desc[i].xid)
      BY <1>1, <1>4, <1>9, CandidateIsSuper, AcceptedIsIntact
    <2>3. containers' \subseteq 1 .. xid /\ \A x \in containers' : Intact(x)
      BY <1>1, <1>6, <2>1, <2>2 DEF TypeInv
    <2>4. phase' \in {"scanning", "picking"} BY <1>2, <2>1
    <2>5. TypeInv' BY <1>1, <1>3, <1>4, <1>5, <2>1, <2>3, <2>4 DEF TypeInv, Phases
    <2>6. ASSUME NEW x \in 1 .. xid, Intact(x), SuperSlot(made[x]) < i'
          PROVE  x \in containers'
      <3>1. /\ SuperSlot(made[x]) \in Slots
            /\ LET s == SuperSlot(made[x]) IN IsCandidate(s) /\ desc[s].xid = x /\ Accepts(s)
        BY <1>1, <2>6, IntactIsAccepted
      <3>2. CASE SuperSlot(made[x]) = i BY <2>1, <3>1, <3>2
      <3>3. CASE SuperSlot(made[x]) < i BY <1>7, <2>1, <2>6, <3>3
      <3> QED BY <1>4, <2>1, <2>6, <3>1, <3>2, <3>3, Sizes DEF Slots
    <2>7. phase' = "picking" => \A x \in 1 .. xid : Intact(x) => x \in containers'
      <3> SUFFICES ASSUME phase' = "picking", NEW x \in 1 .. xid, Intact(x)
                   PROVE  x \in containers'
        OBVIOUS
      <3>1. i' = DescBlocks BY <1>2, <2>1
      <3>2. SuperSlot(made[x]) \in Slots BY <1>1, IntactIsAccepted
      <3> QED BY <2>6, <3>1, <3>2, Sizes DEF Slots
    <2>8. ReaderInv'
      BY <1>3, <1>5, <2>3, <2>4, <2>6, <2>7 DEF ReaderInv, ThrowsOverIncomplete
    <2> QED BY <1>5, <2>5, <2>8 DEF CheckpointIInv
  <1> QED BY <1>8, <1>9

LEMMA PickIInv == CheckpointIInv /\ Pick => CheckpointIInv'
  <1> SUFFICES ASSUME CheckpointIInv, Pick PROVE CheckpointIInv' OBVIOUS
  <1>1. TypeInv /\ DescOwned /\ WriterInv /\ ReaderInv BY DEF CheckpointIInv
  <1>2. phase = "picking" /\ UNCHANGED <<disk, writer, i, containers>> BY DEF Pick
  <1>3. UNCHANGED <<desc, data, made, xid, pending, committed>> BY <1>2 DEF disk, writer
  <1>4. /\ DescOwned' /\ WriterInv' /\ Blocks(xid)' = Blocks(xid)
        /\ \A x : Intact(x)' <=> Intact(x)
    BY <1>2, <1>3, DiskFrame
  <1>5. /\ \A x \in containers : Intact(x)
        /\ \A x \in 1 .. xid : Intact(x) => x \in containers
    BY <1>1, <1>2 DEF ReaderInv
  <1>6. committed \in containers BY <1>1, <1>5 DEF TypeInv, WriterInv
  <1>7. phase' = "loaded" /\ container' = Max(containers) BY <1>6 DEF Pick
  <1>8. container' \in containers /\ \A x \in containers : x <= container'
    <2>1. xid \in Nat /\ containers \in SUBSET (1 .. xid)
      BY <1>1, Sizes DEF TypeInv, Xids
    <2> QED BY <1>6, <1>7, <2>1, BoundedSetHasMax
  <1>9. TypeInv' BY <1>1, <1>2, <1>3, <1>4, <1>7 DEF TypeInv, Phases
  <1>10. /\ container' \in 1 .. xid' /\ Intact(container')
         /\ \A x \in 1 .. xid' : Intact(x)' => x <= container'
    BY <1>1, <1>3, <1>4, <1>5, <1>8 DEF TypeInv
  <1>11. Intact(container)'
    BY <1>3, <1>10 DEF Intact, Blocks, Holds
  <1>12. ReaderInv' BY <1>7, <1>10, <1>11 DEF ReaderInv, ThrowsOverIncomplete
  <1> QED BY <1>4, <1>9, <1>12 DEF CheckpointIInv

LEMMA CheckpointStutter == CheckpointIInv /\ UNCHANGED checkpoint => CheckpointIInv'
  <1> SUFFICES ASSUME CheckpointIInv, UNCHANGED checkpoint PROVE CheckpointIInv' OBVIOUS
  <1>1. /\ UNCHANGED <<disk, made, xid, committed>>
        /\ UNCHANGED <<desc, data, made, xid, pending, committed>>
        /\ UNCHANGED <<phase, i, containers, container>>
    BY DEF checkpoint, disk, writer, reader
  <1>2. /\ DescOwned' /\ WriterInv' /\ Blocks(xid)' = Blocks(xid)
        /\ \A x : Intact(x)' <=> Intact(x)
        /\ \A x : SuperSlot(made[x])' = SuperSlot(made[x])
        /\ \A s : IsCandidate(s)' <=> IsCandidate(s)
    BY <1>1, DiskFrame
  <1>3. TypeInv' BY <1>1, <1>2 DEF CheckpointIInv, TypeInv
  <1>4. (Intact(container))' <=> Intact(container) BY <1>1 DEF Intact, Blocks, Holds
  <1>5. (IsCandidate(i))' <=> IsCandidate(i) BY <1>1 DEF IsCandidate
  <1>6. ReaderInv'
    BY <1>1, <1>2, <1>4, <1>5 DEF CheckpointIInv, ReaderInv, ThrowsOverIncomplete
  <1> QED BY <1>2, <1>3, <1>6 DEF CheckpointIInv

-----------------------------------------------------------------------------
(* The theorems *)

\* What the writer puts where, and what the scan has made of it, in every state.
THEOREM CheckpointInvariant == CheckpointSpec => []CheckpointIInv
  <1>1. CheckpointInit => CheckpointIInv BY InitialCheckpoint
  <1>2. CheckpointIInv /\ [CheckpointNext]_checkpoint => CheckpointIInv'
    BY StartCheckpointIInv, WriteBlockIInv, CrashIInv, ResumeIInv, ScanSlotIInv, PickIInv,
       CheckpointStutter DEF CheckpointNext, Scan
  <1> QED BY <1>1, <1>2, PTL DEF CheckpointSpec

\* A container that loads is complete: whatever the writer left of newer and of
\* older checkpoints, every block of the one that is picked is its own.
THEOREM LoadedIntact == CheckpointSpec => []LoadedIsIntact
  <1>1. CheckpointIInv => LoadedIsIntact BY DEF CheckpointIInv, ReaderInv, LoadedIsIntact
  <1> QED BY <1>1, CheckpointInvariant, PTL

\* No complete checkpoint is newer than the one that is loaded: nothing that the
\* writer committed is lost by mounting the container.
THEOREM LoadedNewest == CheckpointSpec => []LoadedIsNewest
  <1>1. CheckpointIInv => LoadedIsNewest
    BY DEF CheckpointIInv, ReaderInv, WriterInv, TypeInv, LoadedIsNewest
  <1> QED BY <1>1, CheckpointInvariant, PTL

\* The constructor throws only over a superblock whose checkpoint is not complete,
\* and there is always a container to pick.
THEOREM ThrowsIncomplete == CheckpointSpec => []ThrowsOverIncomplete
  <1>1. CheckpointIInv => ThrowsOverIncomplete BY DEF CheckpointIInv, ReaderInv
  <1> QED BY <1>1, CheckpointInvariant, PTL
=============================================================================
