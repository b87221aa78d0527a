--------------------------- MODULE ReadFileProofs ---------------------------
(***************************************************************************)
(* read_file answers what it is asked for, for every volume, every size of *)
(* blocks and chunks and every call.                                       *)
(***************************************************************************)
EXTENDS ReadFile, NaturalsInduction, FiniteSetTheorems, SequenceTheorems, TLAPS

-----------------------------------------------------------------------------
(* Numbers and recursive functions *)

HasLeast(S) == \E n \in S : \A m \in S : n <= m

LEMMA NumbersHaveLeast ==
    ASSUME NEW S \in SUBSET Nat, S # {}
    PROVE  HasLeast(S)
  <1> DEFINE R == OpToRel(<, Nat)
  <1>1. IsWellFoundedOn(R, Nat) BY NatLessThanWellFounded
  <1>2. \A x, y \in Nat : y < x => <<y, x>> \in R BY DEF OpToRel
  <1> HIDE DEF R
  <1>3. PICK x \in S : \A y \in S : ~(<<y, x>> \in R) BY <1>1, WFMin, Zenon
  <1>4. ASSUME NEW y \in S PROVE x <= y
    <2>1. ~(<<y, x>> \in R) BY <1>3, Zenon
    <2>2. x \in Nat /\ y \in Nat BY Zenon
    <2> QED BY <1>2, <2>1, <2>2
  <1> QED BY <1>4 DEF HasLeast

\* What holds of lo, and of every number behind one it holds of, holds up to hi.
LEMMA UpTo ==
    ASSUME NEW lo \in Nat, NEW hi \in Nat, NEW G, lo \in G,
           \A n \in lo .. hi - 1 : n \in G => n + 1 \in G
    PROVE  \A n \in lo .. hi : n \in G
  <1> DEFINE Bad == {n \in lo .. hi : n \notin G}
  <1> SUFFICES ASSUME Bad # {} PROVE FALSE OBVIOUS
  <1>1. PICK n \in Bad : \A m \in Bad : n <= m
    <2>1. Bad \in SUBSET Nat OBVIOUS
    <2> QED BY <2>1, NumbersHaveLeast DEF HasLeast
  <1>2. n - 1 \in lo .. hi - 1 /\ ~(n <= n - 1) BY <1>1
  <1>3. n - 1 \in G BY <1>1, <1>2
  <1> QED BY <1>1, <1>2, <1>3

\* A function that is defined from lo on by its value before.
Recurs(f, lo, hi, start, step) ==
    f = [n \in lo .. hi |-> IF n = lo THEN start ELSE step[<<f[n - 1], n>>]]
HasRecursion(lo, hi, S, start, step) ==
    \E f \in [lo .. hi -> S] : Recurs(f, lo, hi, start, step)

LEMMA Recursion ==
    ASSUME NEW lo \in Nat, NEW hi \in Nat, lo <= hi, NEW S, NEW start \in S,
           NEW step \in [S \X (lo .. hi) -> S]
    PROVE  HasRecursion(lo, hi, S, start, step)
  <1> DEFINE G == {n \in lo .. hi : HasRecursion(lo, n, S, start, step)}
  <1>1. lo \in G
    <2> DEFINE f == [n \in lo .. lo |-> start]
    <2>1. f \in [lo .. lo -> S] /\ Recurs(f, lo, lo, start, step) BY DEF Recurs
    <2> QED BY <2>1, SMTT(30) DEF HasRecursion
  <1>2. ASSUME NEW n \in lo .. hi - 1, n \in G PROVE n + 1 \in G
    <2>1. PICK f \in [lo .. n -> S] : Recurs(f, lo, n, start, step)
      BY <1>2 DEF HasRecursion
    <2> DEFINE new == step[<<f[n], n + 1>>]
               g == [m \in lo .. n + 1 |-> IF m = n + 1 THEN new ELSE f[m]]
    <2>2. <<f[n], n + 1>> \in S \X (lo .. hi) OBVIOUS
    <2>3. new \in S BY <2>2
    <2>4. g \in [lo .. n + 1 -> S] BY <2>3
    <2>5. g[n] = f[n] OBVIOUS
    <2>6. ASSUME NEW m \in lo .. n + 1
          PROVE  g[m] = IF m = lo THEN start ELSE step[<<g[m - 1], m>>]
      <3>1. CASE m = n + 1 BY <2>5, <3>1
      <3>2. CASE m # n + 1
        <4>1. m \in lo .. n /\ g[m] = f[m] /\ (m # lo => g[m - 1] = f[m - 1]) BY <3>2
        <4>2. f[m] = IF m = lo THEN start ELSE step[<<f[m - 1], m>>]
          BY <2>1, <4>1 DEF Recurs
        <4> HIDE DEF g
        <4> QED BY <4>1, <4>2
      <3> QED BY <3>1, <3>2
    <2> HIDE DEF g
    <2>7. Recurs(g, lo, n + 1, start, step)
      <3>1. g = [m \in lo .. n + 1 |-> g[m]] BY <2>4
      <3> QED BY <2>6, <3>1 DEF Recurs
    <2>8. HasRecursion(lo, n + 1, S, start, step) BY <2>4, <2>7 DEF HasRecursion
    <2> QED BY <2>8
  <1> HIDE DEF G
  <1>3. \A n \in lo .. hi : n \in G BY <1>1, <1>2, UpTo
  <1>4. hi \in G BY <1>3
  <1> QED BY <1>4 DEF G

-----------------------------------------------------------------------------
(* The extended fields *)

LEMMA PaddingIs ==
    ASSUME NEW at \in Nat
    PROVE  Padding(at) \in 0 .. 7 /\ (at + Padding(at)) % 8 = 0
  BY DEF Padding, Alignment

LEMMA AdvanceFrom ==
    ASSUME NEW at \in Nat, at % 8 = 0, NEW count \in Nat
    PROVE  /\ Advance(at, count) = at + (count + Padding(count))
           /\ Advance(at, count) \in Nat /\ Advance(at, count) % 8 = 0
  <1>1. (-(at + count)) % 8 = (-count) % 8 OBVIOUS
  <1>2. Padding(at + count) = Padding(count) BY <1>1 DEF Padding, Alignment
  <1>3. Padding(count) \in 0 .. 7 /\ (at + count + Padding(at + count)) % 8 = 0
    BY PaddingIs
  <1> QED BY <1>2, <1>3 DEF Advance

LEMMA AdvanceIsNumber ==
    ASSUME NEW at \in Nat, NEW count \in Nat
    PROVE  Advance(at, count) \in Nat
  <1>1. at + count \in Nat OBVIOUS
  <1>2. Padding(at + count) \in Nat BY <1>1, PaddingIs
  <1> QED BY <1>1, <1>2 DEF Advance

Sized(table) == Len(table) \in Nat /\ \A n \in 1 .. Len(table) : table[n].size \in Nat

\* Where the fields end, and that these are multiples of eight.
LEMMA EndsAre ==
    ASSUME NEW table, Sized(table)
    PROVE  /\ EndOf(table)[0] = EntrySize * Len(table) + Padding(EntrySize * Len(table))
           /\ \A n \in 1 .. Len(table) :
                 EndOf(table)[n] = EndOf(table)[n - 1] + (table[n].size + Padding(table[n].size))
           /\ \A n \in 0 .. Len(table) : EndOf(table)[n] \in Nat
  <1> DEFINE L == Len(table)
             start == Advance(EntrySize * L, 0)
             step == [p \in Nat \X (0 .. L) |->
                        IF p[2] \in 1 .. L THEN Advance(p[1], table[p[2]].size) ELSE 0]
             end == EndOf(table)
  <1>1. L \in Nat /\ \A n \in 1 .. L : table[n].size \in Nat BY DEF Sized
  <1>2. start = EntrySize * L + Padding(EntrySize * L) /\ start \in Nat /\ start % 8 = 0
    <2>1. EntrySize * L \in Nat BY <1>1 DEF EntrySize
    <2> DEFINE x == EntrySize * L
    <2> HIDE DEF x
    <2>2. x + 0 = x /\ Advance(x, 0) = x + 0 + Padding(x + 0) BY <2>1 DEF Advance, x
    <2>6. x \in Nat BY <2>1 DEF x
    <2>7. Padding(x) \in 0 .. 7 /\ (x + Padding(x)) % 8 = 0 BY <2>6, PaddingIs
    <2>3. Padding(x) \in Nat /\ (x + Padding(x)) % 8 = 0 BY <2>7
    <2>4. Advance(x, 0) = x + Padding(x) BY <2>2
    <2>5. x + Padding(x) \in Nat BY <2>1, <2>3 DEF x
    <2> QED BY <2>3, <2>4, <2>5 DEF x
  <1>3. step \in [Nat \X (0 .. L) -> Nat]
    <2>1. ASSUME NEW p \in Nat \X (0 .. L), p[2] \in 1 .. L
          PROVE  Advance(p[1], table[p[2]].size) \in Nat
      <3>1. p[1] \in Nat /\ table[p[2]].size \in Nat BY <1>1, <2>1
      <3> QED BY <3>1, AdvanceIsNumber
    <2> QED BY <2>1
  <1>4. PICK f \in [0 .. L -> Nat] : Recurs(f, 0, L, start, step)
    <2> HIDE DEF start, step
    <2>1. 0 \in Nat /\ 0 <= L /\ start \in Nat BY <1>1, <1>2
    <2>2. HasRecursion(0, L, Nat, start, step) BY <1>1, <1>3, <2>1, Recursion
    <2> QED BY <2>2 DEF HasRecursion
  <1>5. \A n \in 0 .. L : f[n] = IF n = 0 THEN start ELSE Advance(f[n - 1], table[n].size)
    <2> SUFFICES ASSUME NEW n \in 0 .. L
                 PROVE  f[n] = IF n = 0 THEN start ELSE Advance(f[n - 1], table[n].size)
      OBVIOUS
    <2>1. CASE n = 0
      <3> HIDE DEF start, step
      <3> QED BY <1>4, <2>1 DEF Recurs
    <2>2. CASE n # 0
      <3>1. f[n - 1] \in Nat /\ n \in 1 .. L BY <1>1, <1>4, <2>2, SMTT(30)
      <3>2. step[<<f[n - 1], n>>] = Advance(f[n - 1], table[n].size) BY <3>1
      <3>3. f[n] = step[<<f[n - 1], n>>]
        <4> HIDE DEF start, step
        <4> QED BY <1>4, <2>2 DEF Recurs
      <3> QED BY <2>2, <3>2, <3>3
    <2> QED BY <2>1, <2>2
  <1>6. end = [n \in 0 .. L |-> IF n = 0 THEN start ELSE Advance(end[n - 1], table[n].size)]
    <2>1. f = [n \in 0 .. L |-> IF n = 0 THEN start ELSE Advance(f[n - 1], table[n].size)]
      BY <1>4, <1>5
    <2> QED BY <2>1 DEF EndOf
  <1> HIDE DEF end, start, step
  <1>7. \A n \in 0 .. L : end[n] = IF n = 0 THEN start ELSE Advance(end[n - 1], table[n].size)
    BY <1>6
  <1> DEFINE G == {n \in 0 .. L : end[n] \in Nat /\ end[n] % 8 = 0}
  <1>8. 0 \in G BY <1>1, <1>2, <1>7
  <1>9. ASSUME NEW n \in 0 .. L - 1, n \in G PROVE n + 1 \in G
    <2>1. n + 1 \in 1 .. L /\ (n + 1) - 1 = n BY <1>1
    <2>2. end[n + 1] = Advance(end[n], table[n + 1].size) BY <1>7, <2>1
    <2>3. end[n + 1] \in Nat /\ end[n + 1] % 8 = 0
      <3>1. end[n] \in Nat /\ end[n] % 8 = 0 /\ table[n + 1].size \in Nat BY <1>1, <1>9, <2>1
      <3>2. /\ Advance(end[n], table[n + 1].size) \in Nat
            /\ Advance(end[n], table[n + 1].size) % 8 = 0
        BY <3>1, AdvanceFrom, Zenon
      <3> QED BY <2>2, <3>2, Zenon
    <2> QED BY <2>1, <2>3
  <1>10. \A n \in 0 .. L : n \in G
    <2> HIDE DEF G
    <2> QED BY <1>1, <1>8, <1>9, UpTo
  <1>11. ASSUME NEW n \in 1 .. L
         PROVE  end[n] = end[n - 1] + (table[n].size + Padding(table[n].size))
    <2>1. n - 1 \in 0 .. L /\ n \in 0 .. L /\ n # 0 BY <1>1
    <2> QED BY <1>1, <1>7, <1>10, <2>1, AdvanceFrom
  <1> QED BY <1>1, <1>2, <1>7, <1>10, <1>11 DEF end

\* The data of a field, and what is written behind it.
Padded(bytes) == bytes \o [n \in 1 .. Padding(Len(bytes)) |-> 0]

LEMMA PaddedIs ==
    ASSUME NEW bytes \in Seq(Nat)
    PROVE  /\ Padded(bytes) \in Seq(Nat)
           /\ Len(Padded(bytes)) = Len(bytes) + Padding(Len(bytes))
           /\ \A j \in 1 .. Len(bytes) : Padded(bytes)[j] = bytes[j]
  <1> DEFINE k == Padding(Len(bytes))
             zeros == [n \in 1 .. k |-> 0]
  <1>1. Len(bytes) \in Nat BY LenProperties
  <1>2. k \in Nat
    <2>1. Padding(Len(bytes)) \in 0 .. 7 BY <1>1, PaddingIs, Zenon
    <2> QED BY <2>1
  <1> HIDE DEF k
  <1>3. zeros \in Seq(Nat) /\ Len(zeros) = k BY <1>2
  <1> HIDE DEF zeros
  <1>4. Padded(bytes) = bytes \o zeros BY DEF Padded, k, zeros
  <1>5. /\ bytes \o zeros \in Seq(Nat)
        /\ Len(bytes \o zeros) = Len(bytes) + Len(zeros)
        /\ \A j \in 1 .. Len(bytes) + Len(zeros) :
              (bytes \o zeros)[j] = IF j <= Len(bytes) THEN bytes[j] ELSE zeros[j - Len(bytes)]
    BY <1>3, ConcatProperties, Zenon
  <1>6. \A j \in 1 .. Len(bytes) : (bytes \o zeros)[j] = bytes[j]
    <2> SUFFICES ASSUME NEW j \in 1 .. Len(bytes) PROVE (bytes \o zeros)[j] = bytes[j]
      OBVIOUS
    <2>1. j \in 1 .. Len(bytes) + Len(zeros) /\ j <= Len(bytes) BY <1>1, <1>2, <1>3
    <2> QED BY <1>5, <2>1, Zenon
  <1> QED BY <1>3, <1>4, <1>5, <1>6, Zenon DEF k

\* f[n] is the concatenation of the first n of s.
Flattened(f, s) ==
    /\ f \in [DOMAIN s -> Seq(Nat)]
    /\ f[1] = s[1]
    /\ \A n \in 2 .. Len(s) : f[n] = f[n - 1] \o s[n]
    /\ FlattenSeq(s) = f[Len(s)]
HasFlattened(s) == \E f : Flattened(f, s)

LEMMA FlattenIs ==
    ASSUME NEW s \in Seq(Seq(Nat)), s # <<>>
    PROVE  HasFlattened(s)
  <1> DEFINE L == Len(s)
             step == [p \in Seq(Nat) \X (1 .. L) |-> p[1] \o s[p[2]]]
             flat == CHOOSE f : f = [i \in 1 .. L |-> IF i = 1 THEN s[i] ELSE f[i - 1] \o s[i]]
  <1>1. L \in Nat /\ L >= 1 /\ DOMAIN s = 1 .. L /\ \A n \in 1 .. L : s[n] \in Seq(Nat)
    BY EmptySeq, LenProperties, ElementOfSeq
  <1>2. step \in [Seq(Nat) \X (1 .. L) -> Seq(Nat)]
    <2>1. ASSUME NEW p \in Seq(Nat) \X (1 .. L) PROVE p[1] \o s[p[2]] \in Seq(Nat)
      <3>1. p[1] \in Seq(Nat) /\ s[p[2]] \in Seq(Nat) BY <1>1
      <3> QED BY <3>1, ConcatProperties
    <2> QED BY <2>1
  <1>3. PICK f \in [1 .. L -> Seq(Nat)] : Recurs(f, 1, L, s[1], step)
    <2>1. 1 \in Nat /\ 1 <= L /\ s[1] \in Seq(Nat) BY <1>1
    <2> HIDE DEF step
    <2>2. HasRecursion(1, L, Seq(Nat), s[1], step) BY <1>1, <1>2, <2>1, Recursion
    <2> QED BY <2>2 DEF HasRecursion
  <1>4. f = [i \in 1 .. L |-> IF i = 1 THEN s[i] ELSE f[i - 1] \o s[i]]
    <2> SUFFICES ASSUME NEW i \in 1 .. L
                 PROVE  f[i] = IF i = 1 THEN s[i] ELSE f[i - 1] \o s[i]
      BY <1>3
    <2>1. CASE i = 1
      <3> HIDE DEF step
      <3> QED BY <1>3, <2>1 DEF Recurs
    <2>2. CASE i # 1
      <3>1. f[i - 1] \in Seq(Nat)
        <4> HIDE DEF step
        <4>1. i - 1 \in 1 .. L BY <1>1, <2>2
        <4> QED BY <1>3, <4>1
      <3>2. step[<<f[i - 1], i>>] = f[i - 1] \o s[i] BY <3>1
      <3>3. f[i] = step[<<f[i - 1], i>>]
        <4> HIDE DEF step
        <4> QED BY <1>3, <2>2 DEF Recurs
      <3> QED BY <2>2, <3>2, <3>3
    <2> QED BY <2>1, <2>2
  <1>5. flat = [i \in 1 .. L |-> IF i = 1 THEN s[i] ELSE flat[i - 1] \o s[i]] BY <1>4
  <1>6. FlattenSeq(s) = flat[L] BY <1>1 DEF FlattenSeq
  <1> HIDE DEF flat, step
  <1>7. \A i \in 1 .. L : flat[i] = IF i = 1 THEN s[i] ELSE flat[i - 1] \o s[i] BY <1>5
  <1> DEFINE G == {n \in 1 .. L : flat[n] \in Seq(Nat)}
  <1>8. \A n \in 1 .. L : n \in G
    <2>1. 1 \in G BY <1>1, <1>7
    <2>2. ASSUME NEW n \in 1 .. L - 1, n \in G PROVE n + 1 \in G
      <3>1. n + 1 \in 1 .. L /\ n + 1 # 1 /\ (n + 1) - 1 = n BY <1>1
      <3>2. flat[n + 1] = flat[n] \o s[n + 1] BY <1>7, <3>1
      <3>3. flat[n] \in Seq(Nat) /\ s[n + 1] \in Seq(Nat) BY <1>1, <2>2, <3>1
      <3>4. flat[n] \o s[n + 1] \in Seq(Nat) BY <3>3, ConcatProperties, Zenon
      <3> QED BY <3>1, <3>2, <3>4
    <2> HIDE DEF G
    <2> QED BY <1>1, <2>1, <2>2, UpTo
  <1>9. flat \in [1 .. L -> Seq(Nat)] BY <1>5, <1>8
  <1>10. \A n \in 2 .. L : flat[n] = flat[n - 1] \o s[n]
    <2> SUFFICES ASSUME NEW n \in 2 .. L PROVE flat[n] = flat[n - 1] \o s[n] OBVIOUS
    <2>1. n \in 1 .. L /\ n # 1 BY <1>1
    <2> QED BY <1>7, <2>1, Zenon
  <1>11. flat[1] = s[1] BY <1>1, <1>7
  <1> QED BY <1>1, <1>6, <1>9, <1>10, <1>11 DEF Flattened, HasFlattened

FieldRecords == [type : STRING, data : Seq(Nat)]

TableOf(fields) ==
    [n \in DOMAIN fields |-> [type |-> fields[n].type, size |-> Len(fields[n].data)]]
PaddedOf(fields) == [n \in DOMAIN fields |-> Padded(fields[n].data)]
HeadOf(fields) == Padded([n \in 1 .. EntrySize * Len(fields) |-> 0])

\* What is written, and how long its parts are.
LEMMA PartsAre ==
    ASSUME NEW fields \in Seq(FieldRecords)
    PROVE  /\ Written(fields).table = TableOf(fields)
           /\ Written(fields).bytes = HeadOf(fields) \o FlattenSeq(PaddedOf(fields))
           /\ DOMAIN fields = 1 .. Len(fields) /\ Len(fields) \in Nat
           /\ Len(TableOf(fields)) = Len(fields) /\ DOMAIN TableOf(fields) = 1 .. Len(fields)
           /\ Sized(TableOf(fields))
           /\ HeadOf(fields) \in Seq(Nat)
           /\ Len(HeadOf(fields)) = EndOf(TableOf(fields))[0]
           /\ PaddedOf(fields) \in Seq(Seq(Nat)) /\ Len(PaddedOf(fields)) = Len(fields)
           /\ \A n \in 1 .. Len(fields) :
                 /\ fields[n].data \in Seq(Nat) /\ Len(fields[n].data) \in Nat
                 /\ TableOf(fields)[n].size = Len(fields[n].data)
                 /\ Len(PaddedOf(fields)[n]) =
                       EndOf(TableOf(fields))[n] - EndOf(TableOf(fields))[n - 1]
                 /\ \A j \in 1 .. Len(fields[n].data) : PaddedOf(fields)[n][j] = fields[n].data[j]
  <1> DEFINE L == Len(fields)
             table == TableOf(fields)
             parts == PaddedOf(fields)
  <1>1. L \in Nat /\ DOMAIN fields = 1 .. L /\ \A n \in 1 .. L : fields[n] \in FieldRecords
    BY LenProperties, ElementOfSeq
  <1>2. \A n \in 1 .. L : fields[n].data \in Seq(Nat) /\ Len(fields[n].data) \in Nat
    <2>1. \A n \in 1 .. L : fields[n].data \in Seq(Nat) BY <1>1 DEF FieldRecords
    <2> QED BY <2>1, LenProperties
  <1>3. Written(fields).table = table
    BY DEF Written, TableOf
  <1>4. Written(fields).bytes = HeadOf(fields) \o FlattenSeq(parts)
    BY DEF Written, HeadOf, PaddedOf, Padded
  <1>5. /\ Len(table) = L /\ DOMAIN table = 1 .. L /\ Sized(table)
        /\ \A n \in 1 .. L : table[n].size = Len(fields[n].data)
    <2>1. table = [n \in 1 .. L |-> [type |-> fields[n].type, size |-> Len(fields[n].data)]]
      BY <1>1 DEF TableOf
    <2> HIDE DEF table
    <2>2. Len(table) = L /\ DOMAIN table = 1 .. L BY <1>1, <2>1
    <2>3. \A n \in 1 .. L : table[n].size = Len(fields[n].data) BY <2>1
    <2> QED BY <1>2, <2>2, <2>3, <1>1 DEF Sized
  <1>6. HeadOf(fields) \in Seq(Nat) /\ Len(HeadOf(fields)) = EndOf(table)[0]
    <2> DEFINE k == EntrySize * L
               zeros == [n \in 1 .. k |-> 0]
    <2>1. k \in Nat BY <1>1 DEF EntrySize
    <2>2. zeros \in Seq(Nat) /\ Len(zeros) = k
      <3> HIDE DEF k
      <3> QED BY <2>1
    <2>3. HeadOf(fields) = Padded(zeros) BY DEF HeadOf
    <2>4. EndOf(table)[0] = EntrySize * Len(table) + Padding(EntrySize * Len(table))
      BY <1>5, EndsAre, Zenon
    <2>5. EndOf(table)[0] = k + Padding(k) BY <1>5, <2>4
    <2> HIDE DEF zeros, k
    <2>6. Padded(zeros) \in Seq(Nat) /\ Len(Padded(zeros)) = Len(zeros) + Padding(Len(zeros))
      BY <2>2, PaddedIs
    <2> QED BY <2>2, <2>3, <2>5, <2>6
  <1>7. ASSUME NEW n \in 1 .. L
        PROVE  /\ Padded(fields[n].data) \in Seq(Nat)
               /\ Len(Padded(fields[n].data)) = EndOf(table)[n] - EndOf(table)[n - 1]
               /\ \A j \in 1 .. Len(fields[n].data) :
                     Padded(fields[n].data)[j] = fields[n].data[j]
    <2>1. /\ Padded(fields[n].data) \in Seq(Nat)
          /\ Len(Padded(fields[n].data)) = Len(fields[n].data) + Padding(Len(fields[n].data))
          /\ \A j \in 1 .. Len(fields[n].data) :
                     Padded(fields[n].data)[j] = fields[n].data[j]
      BY <1>2, PaddedIs
    <2>2. n \in 1 .. Len(table) BY <1>5
    <2>3. /\ EndOf(table)[n] = EndOf(table)[n - 1] + (table[n].size + Padding(table[n].size))
      BY <1>5, <2>2, EndsAre, Zenon
    <2>4. n - 1 \in 0 .. Len(table) BY <1>1, <2>2
    <2>5. EndOf(table)[n - 1] \in Nat BY <1>5, <2>4, EndsAre, Zenon
    <2>6. Len(fields[n].data) \in Nat /\ table[n].size = Len(fields[n].data) BY <1>2, <1>5
    <2>7. Padding(Len(fields[n].data)) \in Nat BY <2>6, PaddingIs
    <2> QED BY <2>1, <2>3, <2>5, <2>6, <2>7
  <1>8. /\ parts \in Seq(Seq(Nat)) /\ Len(parts) = L
        /\ \A n \in 1 .. L : parts[n] = Padded(fields[n].data)
    <2>1. parts = [n \in 1 .. L |-> Padded(fields[n].data)] BY <1>1 DEF PaddedOf
    <2>2. \A n \in 1 .. L : Padded(fields[n].data) \in Seq(Nat) BY <1>7
    <2> HIDE DEF parts
    <2> QED BY <1>1, <2>1, <2>2
  <1> HIDE DEF table, parts, L
  <1> QED BY <1>1, <1>2, <1>3, <1>4, <1>5, <1>6, <1>7, <1>8 DEF table, parts, L

\* A field is read as it was written, wherever it lies.
LEMMA FieldIsRead ==
    ASSUME NEW fields \in Seq(FieldRecords), NEW n \in 1 .. Len(fields)
    PROVE  LET begin == EndOf(TableOf(fields))[n - 1]
           IN  SubSeq(Written(fields).bytes, begin + 1, begin + Len(fields[n].data))
                  = fields[n].data
  <1> DEFINE L == Len(fields)
             head == HeadOf(fields)
             parts == PaddedOf(fields)
             end == EndOf(TableOf(fields))
             data == fields[n].data
             count == Len(data)
  <1>1. L \in Nat /\ count \in Nat BY PartsAre
  <1>2. Len(head) = end[0] /\ head \in Seq(Nat) BY PartsAre
  <1>3. Written(fields).bytes = head \o FlattenSeq(parts) BY PartsAre
  <1>4. parts \in Seq(Seq(Nat)) /\ Len(parts) = L BY PartsAre
  <1>5. \A m \in 1 .. L : Len(parts[m]) = end[m] - end[m - 1] BY PartsAre
  <1>6. data \in Seq(Nat) /\ \A j \in 1 .. count : parts[n][j] = data[j] BY PartsAre
  <1>7. /\ \A m \in 0 .. L : end[m] \in Nat
        /\ end[n] >= end[n - 1] + count
        /\ \A m \in 1 .. L : end[m - 1] <= end[m]
    <2>1. Sized(TableOf(fields)) /\ Len(TableOf(fields)) = L BY PartsAre
    <2>2. \A m \in 0 .. L : end[m] \in Nat BY <2>1, EndsAre, Zenon
    <2>3. ASSUME NEW m \in 1 .. L
          PROVE  end[m] >= end[m - 1] + Len(fields[m].data) /\ end[m - 1] <= end[m]
      <3>1. end[m] = end[m - 1] + (TableOf(fields)[m].size + Padding(TableOf(fields)[m].size))
        BY <2>1, EndsAre, Zenon
      <3>2. TableOf(fields)[m].size = Len(fields[m].data) /\ Len(fields[m].data) \in Nat
        BY PartsAre
      <3>3. Padding(Len(fields[m].data)) \in Nat
        <4>1. Padding(Len(fields[m].data)) \in 0 .. 7 BY <3>2, PaddingIs, Zenon
        <4> QED BY <4>1
      <3>4. m - 1 \in 0 .. L BY <1>1
      <3>5. end[m - 1] \in Nat BY <2>2, <3>4
      <3> HIDE DEF end, L
      <3> QED BY <3>1, <3>2, <3>3, <3>5, SMTT(30)
    <2> QED BY <2>2, <2>3
  <1> HIDE DEF head, parts, end, L
  <1>8. n \in 1 .. L BY DEF L
  <1> HIDE DEF count, data
  <1>9. PICK f : Flattened(f, parts)
    <2>1. parts # <<>> BY <1>1, <1>8, <1>4
    <2> QED BY <1>4, <2>1, FlattenIs DEF HasFlattened
  <1>10. /\ \A m \in 1 .. L : f[m] \in Seq(Nat) /\ Len(f[m]) \in Nat /\ parts[m] \in Seq(Nat)
         /\ f[1] = parts[1] /\ \A m \in 2 .. L : f[m] = f[m - 1] \o parts[m]
         /\ FlattenSeq(parts) = f[L]
    <2>1. DOMAIN parts = 1 .. L BY <1>4, LenProperties
    <2>2. \A m \in 1 .. L : f[m] \in Seq(Nat) /\ parts[m] \in Seq(Nat)
      BY <1>4, <1>9, <2>1, ElementOfSeq DEF Flattened
    <2>3. \A m \in 1 .. L : Len(f[m]) \in Nat BY <2>2, LenProperties
    <2> QED BY <1>4, <1>9, <2>2, <2>3 DEF Flattened
  <1>11. ASSUME NEW m \in 2 .. L
        PROVE  /\ Len(f[m]) = Len(f[m - 1]) + Len(parts[m])
               /\ \A j \in 1 .. Len(f[m - 1]) + Len(parts[m]) :
                     f[m][j] = IF j <= Len(f[m - 1]) THEN f[m - 1][j]
                               ELSE parts[m][j - Len(f[m - 1])]
    <2>1. m \in 1 .. L /\ m - 1 \in 1 .. L BY <1>1
    <2>2. f[m - 1] \in Seq(Nat) /\ parts[m] \in Seq(Nat) /\ f[m] = f[m - 1] \o parts[m]
      BY <1>10, <2>1
    <2> DEFINE r == f[m - 1]
               t == parts[m]
    <2>3. r \in Seq(Nat) /\ t \in Seq(Nat) /\ f[m] = r \o t BY <2>2
    <2> HIDE DEF r, t
    <2>4. /\ Len(r \o t) = Len(r) + Len(t)
          /\ \A j \in 1 .. Len(r) + Len(t) :
                (r \o t)[j] = IF j <= Len(r) THEN r[j] ELSE t[j - Len(r)]
      BY <2>3, ConcatProperties, Zenon
    <2> QED BY <2>3, <2>4, Zenon DEF r, t
  <1> DEFINE G == {m \in 1 .. L : Len(f[m]) = end[m] - end[0]}
  <1>12. \A m \in 1 .. L : m \in G
    <2>1. 1 \in G BY <1>1, <1>8, <1>10, <1>5
    <2>2. ASSUME NEW m \in 1 .. L - 1, m \in G PROVE m + 1 \in G
      <3>1. m + 1 \in 2 .. L /\ (m + 1) - 1 = m /\ m + 1 \in 1 .. L /\ m \in 0 .. L /\ m + 1 \in 0 .. L
            /\ 0 \in 0 .. L
        BY <1>1
      <3>2. Len(f[m + 1]) = Len(f[m]) + Len(parts[m + 1]) BY <1>11, <3>1
      <3>3. Len(parts[m + 1]) = end[m + 1] - end[m] BY <1>5, <3>1
      <3>4. end[m] \in Nat /\ end[m + 1] \in Nat /\ end[0] \in Nat BY <1>7, <3>1
      <3> QED BY <2>2, <3>1, <3>2, <3>3, <3>4
    <2> HIDE DEF G
    <2> QED BY <1>1, <1>8, <2>1, <2>2, UpTo
  <1> DEFINE at == end[n - 1] - end[0]
             K == {m \in n .. L : /\ end[m] >= end[n - 1] + count
                                  /\ \A j \in 1 .. count : f[m][at + j] = data[j]}
  <1>13. at \in Nat /\ end[0] \in Nat /\ end[n - 1] \in Nat
    <2>1. 0 \in 0 .. L /\ n - 1 \in 0 .. L BY <1>1, <1>8
    <2>2. CASE n = 1 BY <1>7, <2>1, <2>2
    <2>3. CASE n # 1
      <3>1. n - 1 \in 1 .. L BY <1>1, <1>8, <2>3
      <3>2. Len(f[n - 1]) = end[n - 1] - end[0] /\ Len(f[n - 1]) \in Nat BY <1>10, <1>12, <3>1
      <3> QED BY <1>7, <2>1, <3>2
    <2> QED BY <2>2, <2>3
  <1>14. \A m \in n .. L : m \in K
    <2>1. n \in K
      <3>1. CASE n = 1
        <4>1. \A j \in 1 .. count : at + j = j BY <1>13, <3>1
        <4>2. f[n] = parts[n] BY <1>10, <3>1
        <4> HIDE DEF at
        <4>3. \A j \in 1 .. count : f[n][at + j] = data[j] BY <1>6, <4>1, <4>2
        <4>4. n \in n .. L BY <1>1, <1>8
        <4> QED BY <1>7, <4>3, <4>4
      <3>2. CASE n # 1
        <4>1. n \in 2 .. L /\ n - 1 \in 1 .. L BY <1>1, <1>8, <3>2
        <4>2. Len(f[n - 1]) = at BY <1>12, <4>1
        <4>3. Len(parts[n]) >= count
          <5>1. n \in 0 .. L BY <1>1, <1>8
          <5>2. end[n] \in Nat /\ end[n] >= end[n - 1] + count BY <1>7, <5>1
          <5>3. Len(parts[n]) = end[n] - end[n - 1] BY <1>8, <1>5
          <5> QED BY <1>1, <1>13, <5>2, <5>3
        <4> HIDE DEF at
        <4>4. ASSUME NEW j \in 1 .. count PROVE f[n][at + j] = data[j]
          <5>1. Len(parts[n]) \in Nat BY <1>8, <1>10, LenProperties
          <5>2. at + j \in 1 .. Len(f[n - 1]) + Len(parts[n]) /\ ~(at + j <= at) /\ (at + j) - at = j
            BY <1>1, <1>13, <4>2, <4>3, <5>1
          <5>3. f[n][at + j] = parts[n][j] BY <1>11, <4>1, <4>2, <5>2
          <5> QED BY <1>6, <5>3
        <4>5. n \in n .. L BY <1>1, <1>8
        <4> QED BY <1>7, <4>4, <4>5
      <3> QED BY <3>1, <3>2
    <2>2. ASSUME NEW m \in n .. L - 1, m \in K PROVE m + 1 \in K
      <3>1. m + 1 \in 2 .. L /\ (m + 1) - 1 = m /\ m + 1 \in 1 .. L /\ m \in 1 .. L /\ m + 1 \in n .. L
            /\ m \in 0 .. L /\ m + 1 \in 0 .. L
        BY <1>1, <1>8
      <3>2. end[m] \in Nat /\ end[m + 1] \in Nat /\ end[m] <= end[m + 1] BY <1>7, <3>1
      <3>5. end[m] >= end[n - 1] + count BY <2>2
      <3>3. end[m + 1] >= end[n - 1] + count BY <1>1, <1>13, <3>5, <3>2
      <3>4. at + count <= Len(f[m]) /\ Len(f[m]) \in Nat
        <4> DEFINE len == Len(f[m])
                   here == end[n - 1]
                   there == end[m]
                   base == end[0]
        <4>1. len = there - base /\ len \in Nat BY <1>10, <1>12, <3>1
        <4>2. at = here - base OBVIOUS
        <4>3. at \in Nat /\ count \in Nat /\ base \in Nat /\ here \in Nat BY <1>1, <1>13
        <4>4. there >= here + count /\ there \in Nat BY <3>2, <3>5
        <4> HIDE DEF len, here, there, base, at
        <4>5. at + count <= len BY <4>1, <4>2, <4>3, <4>4
        <4> QED BY <4>1, <4>5 DEF len
      <3> HIDE DEF at
      <3>6. ASSUME NEW j \in 1 .. count PROVE f[m + 1][at + j] = data[j]
        <4>1. Len(parts[m + 1]) \in Nat BY <1>10, <3>1, LenProperties
        <4>2. at + j \in 1 .. Len(f[m]) + Len(parts[m + 1]) /\ at + j <= Len(f[m])
          <5> DEFINE len == Len(f[m])
                     more == Len(parts[m + 1])
          <5>1. len \in Nat /\ more \in Nat /\ at \in Nat /\ count \in Nat /\ at + count <= len
            BY <1>1, <1>13, <3>4, <4>1
          <5> HIDE DEF len, more
          <5>2. at + j \in 1 .. len + more /\ at + j <= len BY <5>1
          <5> QED BY <5>2 DEF len, more
        <4>3. f[m + 1][at + j] = f[m][at + j] BY <1>11, <3>1, <4>2
        <4> QED BY <2>2, <4>3
      <3> QED BY <3>1, <3>3, <3>6
    <2> HIDE DEF K
    <2>3. n \in Nat /\ L \in Nat BY <1>1, <1>8
    <2> QED BY <2>1, <2>2, <2>3, UpTo
  <1>15. /\ f[L] \in Seq(Nat) /\ at + count <= Len(f[L]) /\ Len(f[L]) \in Nat
         /\ \A j \in 1 .. count : f[L][at + j] = data[j]
    <2>1. L \in n .. L /\ L \in 1 .. L /\ L \in 0 .. L BY <1>1, <1>8
    <2>2. L \in K BY <1>14, <2>1
    <2>3. end[L] >= end[n - 1] + count /\ end[L] \in Nat BY <1>7, <2>1, <2>2
    <2>4. f[L] \in Seq(Nat) /\ Len(f[L]) = end[L] - end[0] /\ Len(f[L]) \in Nat
      BY <1>10, <1>12, <2>1
    <2>5. at + count <= Len(f[L]) BY <1>1, <1>13, <2>3, <2>4, SMTT(30)
    <2> QED BY <2>2, <2>4, <2>5
  <1> DEFINE bytes == head \o f[L]
             begin == end[n - 1]
             read == SubSeq(bytes, begin + 1, begin + count)
  <1>16. ASSUME NEW j \in 1 .. count PROVE bytes[begin + j] = data[j]
    <2>1. /\ begin + j \in 1 .. Len(head) + Len(f[L]) /\ ~(begin + j <= Len(head))
          /\ (begin + j) - Len(head) = at + j
      <3> DEFINE len == Len(f[L])
                 front == Len(head)
                 base == end[0]
      <3>1. at + count <= len /\ len \in Nat BY <1>15
      <3>2. begin \in Nat /\ at \in Nat /\ at = begin - base BY <1>13
      <3>3. count \in Nat /\ front = base /\ base \in Nat BY <1>1, <1>13, <1>2
      <3>4. j \in Nat /\ 1 <= j /\ j <= count BY <3>3
      <3> HIDE DEF len, front, base, at, begin
      <3>5. begin + j \in 1 .. front + len /\ ~(begin + j <= front) /\ (begin + j) - front = at + j
        BY <3>1, <3>2, <3>3, <3>4
      <3> QED BY <3>5 DEF len, front
    <2>2. bytes[begin + j] = f[L][(begin + j) - Len(head)]
      <3> DEFINE x == begin + j
      <3>1. x \in 1 .. Len(head) + Len(f[L]) /\ ~(x <= Len(head)) BY <2>1
      <3>2. f[L] \in Seq(Nat) BY <1>15
      <3> HIDE DEF x
      <3>3. (head \o f[L])[x] = f[L][x - Len(head)]
        BY <1>2, <3>1, <3>2, ConcatProperties, Zenon
      <3> QED BY <3>3 DEF x
    <2> QED BY <1>15, <2>1, <2>2
  <1> HIDE DEF bytes, at
  <1>17. \A i \in begin + 1 .. begin + count : bytes[i] \in Nat
    <2> SUFFICES ASSUME NEW i \in begin + 1 .. begin + count PROVE bytes[i] \in Nat OBVIOUS
    <2>1. i - begin \in 1 .. count /\ begin + (i - begin) = i BY <1>1, <1>13
    <2>2. data[i - begin] \in Nat BY <1>6, <2>1, ElementOfSeq DEF count
    <2> QED BY <1>16, <2>1, <2>2
  <1>18. /\ read \in Seq(Nat) /\ Len(read) = count
         /\ \A j \in 1 .. count : read[j] = bytes[begin + j]
    <2> DEFINE lo == begin + 1
               hi == begin + count
    <2>1. lo \in Int /\ hi \in Int BY <1>1, <1>13
    <2>2. /\ hi - lo + 1 = count /\ (IF lo <= hi THEN hi - lo + 1 ELSE 0) = count
          /\ \A j \in 1 .. count : lo + j - 1 = begin + j
      <3>1. begin \in Nat BY <1>13
      <3> HIDE DEF begin
      <3> QED BY <1>1, <3>1
    <2> HIDE DEF lo, hi
    <2>3. \A i \in lo .. hi : bytes[i] \in Nat BY <1>17 DEF lo, hi
    <2>4. /\ SubSeq(bytes, lo, hi) \in Seq(Nat)
          /\ Len(SubSeq(bytes, lo, hi)) = IF lo <= hi THEN hi - lo + 1 ELSE 0
          /\ \A j \in 1 .. hi - lo + 1 : SubSeq(bytes, lo, hi)[j] = bytes[lo + j - 1]
      BY <2>1, <2>3, SubSeqProperties, SMT
    <2> QED BY <2>2, <2>4 DEF lo, hi
  <1> HIDE DEF read
  <1>19. read = data
    <2>1. Len(read) = Len(data) BY <1>18 DEF count
    <2>2. \A j \in 1 .. Len(read) : read[j] = data[j] BY <1>16, <1>18
    <2> QED BY <1>18, <1>6, <2>1, <2>2, SeqEqual, Zenon
  <1>20. Written(fields).bytes = bytes BY <1>3, <1>10 DEF bytes
  <1> QED BY <1>19, <1>20 DEF read, bytes, end, data, count

\* A number is the least of the set of it.
LEMMA LeastOfOne ==
    ASSUME NEW x \in Nat
    PROVE  Min({x}) = x
  BY DEF Min

\* The size that is loaded is the one that was written, wherever its stream lies
\* among the fields; without one it is whatever it was.
LEMMA SizeIsLoaded ==
    ASSUME NEW fields \in Seq(FieldRecords), NEW unset,
           \A m, n \in Streams(fields) : m = n,
           \A n \in Streams(fields) : fields[n].data # <<>>
    PROVE  /\ Streams(fields) = {} => SizesOf(parse_xfields(Written(fields)), unset) = unset
           /\ \A n \in Streams(fields) :
                 /\ SizesOf(parse_xfields(Written(fields)), unset) = {fields[n].data[1]}
                 /\ fields[n].data[1] \in Nat
                 /\ {fields[m].data[1] : m \in Streams(fields)} = {fields[n].data[1]}
  <1> DEFINE table == TableOf(fields)
             read == parse_xfields(Written(fields))
             streams == {n \in DOMAIN read : read[n].type = "dstream"}
  <1>1. /\ DOMAIN fields = 1 .. Len(fields) /\ Len(fields) \in Nat
        /\ \A n \in DOMAIN fields : fields[n] \in FieldRecords
    BY LenProperties, ElementOfSeq
  <1>2. Written(fields).table = table /\ DOMAIN table = DOMAIN fields
        /\ \A n \in DOMAIN fields : /\ table[n].type = fields[n].type
                                    /\ table[n].size = Len(fields[n].data)
    BY PartsAre DEF TableOf
  <1> HIDE DEF table
  <1>3. read = [n \in DOMAIN fields |->
                   [type |-> fields[n].type,
                    data |-> SubSeq(Written(fields).bytes, EndOf(table)[n - 1] + 1,
                                    EndOf(table)[n - 1] + Len(fields[n].data))]]
    BY <1>2 DEF parse_xfields
  <1>4. \A n \in DOMAIN fields :
            SubSeq(Written(fields).bytes, EndOf(table)[n - 1] + 1,
                   EndOf(table)[n - 1] + Len(fields[n].data)) = fields[n].data
    BY <1>1, FieldIsRead DEF table
  <1> HIDE DEF read
  <1>5. /\ DOMAIN read = DOMAIN fields
        /\ \A n \in DOMAIN fields : read[n].type = fields[n].type /\ read[n].data = fields[n].data
    BY <1>3, <1>4
  <1>6. streams = Streams(fields) BY <1>5 DEF Streams
  <1>7. SizesOf(read, unset) = IF streams = {} THEN unset ELSE {read[Min(streams)].data[1]}
    BY DEF SizesOf
  <1> HIDE DEF streams
  <1>8. ASSUME NEW n \in Streams(fields)
        PROVE  /\ SizesOf(read, unset) = {fields[n].data[1]} /\ fields[n].data[1] \in Nat
               /\ {fields[m].data[1] : m \in Streams(fields)} = {fields[n].data[1]}
    <2>1. Streams(fields) = {n} OBVIOUS
    <2>2. n \in DOMAIN fields BY DEF Streams
    <2>3. n \in Nat BY <1>1, <2>2
    <2>4. Min(streams) = n BY <1>6, <2>1, <2>3, LeastOfOne
    <2>5. read[Min(streams)].data[1] = fields[n].data[1] BY <1>5, <2>2, <2>4
    <2>6. fields[n].data \in Seq(Nat) /\ fields[n].data # <<>> BY <1>1, <2>2 DEF FieldRecords
    <2>7. fields[n].data[1] \in Nat
      <3> DEFINE data == fields[n].data
      <3>1. data \in Seq(Nat) /\ data # <<>> BY <2>6
      <3> HIDE DEF data
      <3>2. data[1] \in Nat BY <3>1
      <3> QED BY <3>2 DEF data
    <2>8. {fields[m].data[1] : m \in Streams(fields)} = {fields[n].data[1]} BY <2>1
    <2> QED BY <1>6, <1>7, <2>1, <2>5, <2>7, <2>8
  <1> QED BY <1>6, <1>7, <1>8 DEF read

-----------------------------------------------------------------------------
(* Whole blocks *)

\* A number is so many blocks and a rest, and only those.
LEMMA BlocksAndRest ==
    ASSUME NEW b \in Nat \ {0}, NEW x \in Nat
    PROVE  x = (x \div b) * b + (x % b) /\ x % b \in 0 .. b - 1 /\ x \div b \in Nat
  OBVIOUS

LEMMA BlocksAreUnique ==
    ASSUME NEW b \in Nat \ {0}, NEW q \in Int, NEW r \in 0 .. b - 1,
           NEW p \in Int, NEW s \in 0 .. b - 1, q * b + r = p * b + s
    PROVE  q = p /\ r = s
  OBVIOUS

\* Where a byte lies does not depend on the whole blocks before it.
LEMMA BehindBlocks ==
    ASSUME NEW b \in Nat \ {0}, NEW q \in Nat, NEW r \in Nat
    PROVE  (q * b + r) \div b = q + r \div b /\ (q * b + r) % b = r % b
  <1> DEFINE x == q * b + r
  <1>1. r = (r \div b) * b + (r % b) /\ r % b \in 0 .. b - 1 /\ r \div b \in Nat BY BlocksAndRest
  <1>2. x \in Nat OBVIOUS
  <1>3. x = (x \div b) * b + (x % b) /\ x % b \in 0 .. b - 1 /\ x \div b \in Nat
    BY <1>2, BlocksAndRest
  <1>4. x = (q + r \div b) * b + (r % b) BY <1>1
  <1> HIDE DEF x
  <1>5. x \div b = q + r \div b /\ x % b = r % b BY <1>1, <1>3, <1>4, BlocksAreUnique, SMTT(30)
  <1> QED BY <1>5 DEF x

-----------------------------------------------------------------------------
(* The order of the keys *)

\* A finite set has an element that none of it comes before.
HasFirst(S, R) == \E x \in S : \A y \in S : <<y, x>> \notin R

LEMMA FirstExists ==
    ASSUME NEW S, IsFiniteSet(S), S # {}, NEW R,
           \A x \in S : <<x, x>> \notin R,
           \A x, y, z \in S : <<x, y>> \in R /\ <<y, z>> \in R => <<x, z>> \in R
    PROVE  HasFirst(S, R)
  <1> DEFINE before == [x \in S |-> {y \in S : <<y, x>> \in R}]
             count == [x \in S |-> Cardinality(before[x])]
             counts == {count[x] : x \in S}
  <1>1. ASSUME NEW x \in S PROVE IsFiniteSet(before[x]) /\ count[x] \in Nat
    <2>1. before[x] \in SUBSET S OBVIOUS
    <2> HIDE DEF before
    <2>2. IsFiniteSet(before[x]) BY <2>1, FS_Subset
    <2> QED BY <2>2, FS_CardinalityType
  <1>2. PICK x \in S : \A y \in S : count[x] <= count[y]
    <2> HIDE DEF count
    <2>1. counts \in SUBSET Nat /\ counts # {}
      <3>1. \A c \in counts : c \in Nat BY <1>1, ZenonT(30)
      <3>2. PICK x \in S : TRUE OBVIOUS
      <3>3. count[x] \in counts BY <3>2
      <3> HIDE DEF counts
      <3> QED BY <3>1, <3>3
    <2> HIDE DEF counts
    <2>2. HasLeast(counts) BY <2>1, NumbersHaveLeast
    <2> QED BY <2>2 DEF HasLeast, counts
  <1>3. ASSUME NEW y \in S, <<y, x>> \in R PROVE FALSE
    <2>1. before[y] \in SUBSET before[x] /\ y \in before[x] /\ y \notin before[y] BY <1>3
    <2>2. IsFiniteSet(before[x]) BY <1>1
    <2>3. count[x] <= count[y] /\ count[x] \in Nat /\ count[y] \in Nat BY <1>1, <1>2
    <2>4. count[x] = Cardinality(before[x]) /\ count[y] = Cardinality(before[y]) OBVIOUS
    <2> HIDE DEF before, count
    <2>5. /\ Cardinality(before[y]) <= Cardinality(before[x])
          /\ Cardinality(before[x]) = Cardinality(before[y]) => before[x] = before[y]
      BY <2>1, <2>2, FS_Subset
    <2> QED BY <2>1, <2>3, <2>4, <2>5
  <1> QED BY <1>3 DEF HasFirst

KeyRecords == [oid : Nat, type : Nat, sub : Nat]

LEMMA LessIsOrder ==
    ASSUME NEW x \in KeyRecords, NEW y \in KeyRecords, NEW z \in KeyRecords
    PROVE  ~Less(x, x) /\ (Less(x, y) /\ Less(y, z) => Less(x, z))
  BY DEF KeyRecords, Less

LEMMA LeastIs ==
    ASSUME NEW keys, IsFiniteSet(keys), keys \subseteq KeyRecords, keys # {}
    PROVE  LeastOf(keys) \in keys /\ \A q \in keys : ~Less(q, LeastOf(keys))
  <1> DEFINE R == {p \in keys \X keys : Less(p[1], p[2])}
  <1>1. \A x, y \in keys : <<x, y>> \in R <=> Less(x, y) OBVIOUS
  <1> HIDE DEF R
  <1>2. HasFirst(keys, R)
    <2>1. \A x \in keys : <<x, x>> \notin R BY <1>1, LessIsOrder
    <2>2. \A x, y, z \in keys : <<x, y>> \in R /\ <<y, z>> \in R => <<x, z>> \in R
      BY <1>1, LessIsOrder
    <2> QED BY <2>1, <2>2, FirstExists
  <1>3. \E k \in keys : \A q \in keys : ~Less(q, k) BY <1>1, <1>2 DEF HasFirst
  <1> QED BY <1>3 DEF LeastOf

LEMMA GreatestIs ==
    ASSUME NEW keys, IsFiniteSet(keys), keys \subseteq KeyRecords, keys # {}
    PROVE  GreatestOf(keys) \in keys /\ \A q \in keys : ~Less(GreatestOf(keys), q)
  <1> DEFINE R == {p \in keys \X keys : Less(p[2], p[1])}
  <1>1. \A x, y \in keys : <<x, y>> \in R <=> Less(y, x) OBVIOUS
  <1> HIDE DEF R
  <1>2. HasFirst(keys, R)
    <2>1. \A x \in keys : <<x, x>> \notin R BY <1>1, LessIsOrder
    <2>2. \A x, y, z \in keys : <<x, y>> \in R /\ <<y, z>> \in R => <<x, z>> \in R
      BY <1>1, LessIsOrder
    <2> QED BY <2>1, <2>2, FirstExists
  <1>3. \E k \in keys : \A q \in keys : ~Less(k, q) BY <1>1, <1>2 DEF HasFirst
  <1> QED BY <1>3 DEF GreatestOf

-----------------------------------------------------------------------------
(* The invariant *)

FileId == File.private
HasStream == Streams(File.fields) # {}
FileExtents == ExtentsOf(vol, FileId)
EndOfExtent(k) == k.sub + vol.extent[k].len
Covers(k, addr) == k \in FileExtents /\ k.sub <= addr /\ addr < EndOfExtent(k)

\* The answers to the first two searches.
FoundBehind == UpperBound(vol.keys, vol.starts, OffsetKey)
FoundFirst == Prev(vol.keys, FoundBehind.key)

\* The place of the file that is read next.
Reached == request.offset + Len(out)

\* The calls that read: none but of a file with bytes behind the offset.
Begun ==
    /\ request.size >= -1 /\ request.offset \in Nat
    /\ size \in Nat /\ request.offset < size
    /\ HasStream => size = FileSize

\* Before the first extent is entered.
Searching ==
    Begun /\ first = TRUE /\ out = <<>> /\ left = Wanted(size)

\* What is written is what was asked for, and the rest of it is still wanted.
Reading ==
    /\ Begun /\ HasStream /\ first = FALSE
    /\ left \in Nat /\ out \in Seq([block : Int, at : Nat])
    /\ left + Len(out) = Wanted(size)
    /\ \A n \in DOMAIN out : out[n] = ByteAt(request.offset + n - 1)

\* The next extent begins where the file has been read to.
AtExtent ==
    left > 0 => /\ kv.key \in FileExtents /\ kv.isRecord = TRUE
                /\ kv.key.sub = Reached /\ skip = 0

\* So many blocks of the extent are behind, and skip bytes of the others are left out.
InExtent ==
    /\ kv.key \in FileExtents /\ request.offset < EndOfExtent(kv.key)
    /\ left > 0 =>
          /\ skip \in Nat /\ blocks \in Nat /\ skip <= blocks * BlockSize
          /\ \E past \in Nat :
                /\ block = vol.extent[kv.key].phys + past
                /\ past + blocks = vol.extent[kv.key].len \div BlockSize
                /\ kv.key.sub + past * BlockSize + skip = Reached

\* Where a call may be in each phase, if no range starts inside of the file.
Progress ==
    CASE phase = "check" -> out = <<>> /\ first = TRUE
      [] phase = "error" -> out = <<>>
      [] phase = "find" -> Searching
      [] phase = "back" -> Searching /\ kv = FoundBehind
      [] phase = "extent" -> (Searching /\ kv = FoundFirst) \/ (Reading /\ AtExtent)
      [] phase = "chunk" -> Reading /\ InExtent
      [] phase = "done" -> PartOfAsked /\ (~ExtentIsLast => AllOfAsked)

Chosen == vol \in Volumes /\ request \in Requests /\ request.inode \in DOMAIN vol.inode

ReadIInv ==
    /\ Chosen
    /\ phase \in {"check", "error", "find", "back", "extent", "chunk", "done"}
    /\ ~Crosses => Progress

-----------------------------------------------------------------------------
(* The volume *)

LEMMA KeysAre ==
    ASSUME Chosen
    PROVE  IsFiniteSet(vol.keys) /\ vol.keys \subseteq KeyRecords
  BY VolumeAssumption DEF Chosen, WellFormed, KeyRecords

LEMMA ExtentIs ==
    ASSUME Chosen, NEW k \in FileExtents
    PROVE  /\ k \in vol.keys /\ k \in KeyRecords /\ k.oid = FileId /\ k.type = FileExtent
           /\ k.sub \in Nat
           /\ vol.extent[k].phys \in Nat /\ vol.extent[k].len \in Nat \ {0}
           /\ vol.extent[k].len \div BlockSize \in Nat
           /\ vol.extent[k].len = (vol.extent[k].len \div BlockSize) * BlockSize
           /\ EndOfExtent(k) \in Nat /\ k.sub < EndOfExtent(k)
           /\ \A l \in FileExtents : k.sub < l.sub => EndOfExtent(k) <= l.sub
  <1>1. k \in vol.keys /\ k.oid = FileId /\ k.type = FileExtent BY DEF FileExtents, ExtentsOf
  <1>2. k \in KeyRecords BY <1>1, KeysAre
  <1>3. /\ vol.extent[k].phys \in Nat /\ vol.extent[k].len \in Nat \ {0}
        /\ vol.extent[k].len % BlockSize = 0
        /\ \A l \in FileExtents : k.sub < l.sub => k.sub + vol.extent[k].len <= l.sub
    BY <1>1, VolumeAssumption DEF Chosen, WellFormed, FileExtents
  <1>4. k.sub \in Nat BY <1>2 DEF KeyRecords
  <1> DEFINE len == vol.extent[k].len
  <1>5. len \in Nat /\ len % BlockSize = 0 /\ BlockSize \in Nat \ {0} BY <1>3, ReadAssumption
  <1>6. len \div BlockSize \in Nat /\ len = (len \div BlockSize) * BlockSize
    <2> HIDE DEF len
    <2>1. /\ len = (len \div BlockSize) * BlockSize + (len % BlockSize)
          /\ len \div BlockSize \in Nat
      BY <1>5, BlocksAndRest
    <2>2. (len \div BlockSize) * BlockSize \in Nat BY <1>5, <2>1
    <2> QED BY <1>5, <2>1, <2>2
  <1>7. EndOfExtent(k) = k.sub + vol.extent[k].len BY DEF EndOfExtent
  <1>8. EndOfExtent(k) \in Nat /\ k.sub < EndOfExtent(k) BY <1>3, <1>4, <1>7
  <1> QED BY <1>1, <1>2, <1>3, <1>4, <1>6, <1>7, <1>8

\* Extents with the same place are the same, and a byte is in one of them.
LEMMA SamePlace ==
    ASSUME Chosen, NEW k \in FileExtents, NEW l \in FileExtents, k.sub = l.sub
    PROVE  k = l
  BY ExtentIs DEF KeyRecords

LEMMA OneCovers ==
    ASSUME Chosen, NEW addr \in Nat, NEW k, NEW l, Covers(k, addr), Covers(l, addr)
    PROVE  k = l
  <1>1. k \in FileExtents /\ l \in FileExtents BY DEF Covers
  <1>2. /\ k.sub \in Nat /\ l.sub \in Nat /\ EndOfExtent(k) \in Nat /\ EndOfExtent(l) \in Nat
        /\ k.sub < l.sub => EndOfExtent(k) <= l.sub
        /\ l.sub < k.sub => EndOfExtent(l) <= k.sub
    BY <1>1, ExtentIs
  <1>3. k.sub <= addr /\ addr < EndOfExtent(k) /\ l.sub <= addr /\ addr < EndOfExtent(l)
    BY DEF Covers
  <1>4. k.sub = l.sub BY <1>2, <1>3
  <1> QED BY <1>1, <1>4, SamePlace

FileFields == File.fields

LEMMA FileIs ==
    ASSUME Chosen
    PROVE  /\ FileId \in Nat /\ FileFields \in Seq(FieldRecords)
           /\ \E k \in vol.keys : k.oid = FileId /\ k.type < FileExtent
           /\ Streams(FileFields) = {} => FileExtents = {}
           /\ \A m, n \in Streams(FileFields) : m = n
           /\ \A n \in Streams(FileFields) :
                 /\ FileFields[n].data # <<>>
                 /\ \A addr \in 0 .. FileFields[n].data[1] - 1 : \E k : Covers(k, addr)
  BY VolumeAssumption, ZenonT(30)
  DEF Chosen, WellFormed, FileExtents, File, FileId, FieldRecords, Covers, EndOfExtent, FileFields

LEMMA SizeIs ==
    ASSUME Chosen
    PROVE  LET sizes == SizesOf(parse_xfields(Written(FileFields)), Unset)
           IN  /\ FileSize \in Nat /\ sizes \subseteq Nat
               /\ HasStream => /\ sizes = {FileSize}
                               /\ \A addr \in 0 .. FileSize - 1 : \E k : Covers(k, addr)
               /\ ~HasStream => FileSize = 0 /\ FileExtents = {}
  <1> DEFINE sizes == SizesOf(parse_xfields(Written(FileFields)), Unset)
             written == {FileFields[n].data[1] : n \in Streams(FileFields)}
  <1>1. FileSize = IF written = {} THEN 0 ELSE Min(written)
    BY DEF FileSize, FileFields, Streams
  <1>2. Unset \subseteq Nat BY ReadAssumption
  <1>3. HasStream <=> Streams(FileFields) # {} BY DEF HasStream, FileFields
  <1>4. CASE Streams(FileFields) = {}
    <2>1. sizes = Unset BY <1>4, FileIs, SizeIsLoaded
    <2>2. FileSize = 0 BY <1>1, <1>4
    <2> QED BY <1>2, <1>3, <1>4, <2>1, <2>2, FileIs
  <1>5. CASE Streams(FileFields) # {}
    <2>1. PICK n \in Streams(FileFields) : TRUE BY <1>5
    <2> DEFINE x == FileFields[n].data[1]
    <2>2. sizes = {x} /\ x \in Nat /\ written = {x} BY <2>1, FileIs, SizeIsLoaded
    <2>3. \A addr \in 0 .. x - 1 : \E k : Covers(k, addr) BY FileIs
    <2> HIDE DEF x, written, sizes
    <2>4. FileSize = x BY <1>1, <2>2, LeastOfOne
    <2> QED BY <1>3, <1>5, <2>2, <2>3, <2>4 DEF sizes
  <1> QED BY <1>4, <1>5

\* What the call asks for is what it wants of the size that was written.
LEMMA MinOfTwo ==
    ASSUME NEW a \in Int, NEW b \in Int
    PROVE  Min({a, b}) = IF a <= b THEN a ELSE b
  BY DEF Min

LEMMA AskedIs ==
    ASSUME Chosen
    PROVE  /\ Asked \in Nat
           /\ ~HasStream \/ request.offset = FileSize => Asked = 0
           /\ Begun => Wanted(size) \in Nat /\ Wanted(size) <= size - request.offset
           /\ Begun /\ HasStream => Asked = Wanted(size)
  <1> DEFINE there == FileSize
             at == request.offset
             count == request.size
  <1>1. at \in Int /\ count \in Int BY ReadAssumption DEF Chosen
  <1>2. there \in Nat /\ (~HasStream => there = 0) BY SizeIs
  <1>3. Asked = IF count < -1 \/ at \notin 0 .. there THEN 0
                ELSE IF count = -1 THEN there - at ELSE Min({count, there - at})
    BY DEF Asked
  <1>4. Wanted(size) = IF count = -1 THEN size - at ELSE Min({count, size - at})
    BY DEF Wanted
  <1>5. Begun => /\ count >= -1 /\ at \in Nat /\ size \in Nat /\ at < size
                 /\ HasStream => size = there
    BY DEF Begun
  <1> HIDE DEF there, at, count
  <1>6. Min({count, there - at}) = IF count <= there - at THEN count ELSE there - at
    BY <1>1, <1>2, MinOfTwo
  <1>7. Begun => Min({count, size - at}) = IF count <= size - at THEN count ELSE size - at
    BY <1>1, <1>5, MinOfTwo
  <1>8. Asked \in Nat /\ (~HasStream \/ at = there => Asked = 0) BY <1>1, <1>2, <1>3, <1>6
  <1>9. ASSUME Begun PROVE Wanted(size) \in Nat /\ Wanted(size) <= size - at
    BY <1>1, <1>4, <1>5, <1>7, <1>9
  <1>10. ASSUME Begun, HasStream PROVE Asked = Wanted(size)
    BY <1>1, <1>3, <1>4, <1>5, <1>10
  <1> QED BY <1>8, <1>9, <1>10 DEF at, there

-----------------------------------------------------------------------------
(* What the searches answer *)

LEMMA SentinelIs ==
    /\ Sentinel \in KeyRecords /\ Sentinel.type = 0
    /\ \A k \in KeyRecords : ~Less(k, Sentinel)
  BY DEF Sentinel, Key, KeyRecords, Less, Xattr, FileExtent, DirRec

LEMMA AnswersAre ==
    ASSUME Chosen, NEW k
    PROVE  /\ UpperBound(vol.keys, vol.starts, k).key = LeastOf({r \in vol.keys : Less(k, r)})
           /\ UpperBound(vol.keys, vol.starts, k).isRecord
                 = (LeastOf({r \in vol.keys : Less(k, r)}) \notin vol.starts)
           /\ Prev(vol.keys, k).key = GreatestOf({r \in vol.keys : Less(r, k)})
           /\ Prev(vol.keys, k).isRecord = TRUE
  BY DEF UpperBound, Prev, Answer

\* Behind nothing, nothing is before.
LEMMA NothingBehind ==
    ASSUME Chosen, FoundBehind.key = Sentinel
    PROVE  FoundFirst.key = Sentinel
  <1>1. {r \in vol.keys : Less(r, Sentinel)} = {} BY KeysAre, SentinelIs
  <1> QED BY <1>1, AnswersAre DEF FoundFirst, GreatestOf

\* What lies between a key that is not behind the offset and the record that is
\* found behind it: the answer is of the file, at or behind that key.
LEMMA FoundBetween ==
    ASSUME Chosen, request.offset \in Nat, FoundBehind.key # Sentinel,
           NEW e \in vol.keys, e.oid = FileId, e.type <= FileExtent,
           e.type = FileExtent => e.sub <= request.offset
    PROVE  LET g == FoundFirst.key
           IN  /\ g \in vol.keys /\ g \in KeyRecords /\ g.oid = FileId
               /\ e.type <= g.type /\ g.type <= FileExtent
               /\ g.type = FileExtent => /\ g.sub <= request.offset
                                         /\ e.type = FileExtent => e.sub <= g.sub
  <1> DEFINE behind == {r \in vol.keys : Less(OffsetKey, r)}
             u == FoundBehind.key
             before == {r \in vol.keys : Less(r, u)}
             g == FoundFirst.key
  <1>1. IsFiniteSet(behind) /\ behind \subseteq KeyRecords
        /\ IsFiniteSet(before) /\ before \subseteq KeyRecords
    BY KeysAre, FS_Subset
  <1>2. u = LeastOf(behind) BY AnswersAre DEF FoundBehind
  <1>3. g = GreatestOf(before) BY AnswersAre DEF FoundFirst
  <1>4. behind # {} BY <1>2 DEF LeastOf
  <1>5. u \in behind /\ \A q \in behind : ~Less(q, u)
    <2> HIDE DEF behind
    <2> QED BY <1>1, <1>2, <1>4, LeastIs
  <1>6. OffsetKey = [oid |-> FileId, type |-> FileExtent, sub |-> request.offset]
    BY DEF OffsetKey, Key, FileId
  <1>7. FileId \in Nat BY FileIs
  <1>8. e \in before
    <2>1. u \in KeyRecords /\ e \in KeyRecords /\ Less(OffsetKey, u) BY <1>1, <1>5, KeysAre
    <2> HIDE DEF u
    <2>2. Less(e, u)
      BY <1>6, <1>7, <2>1 DEF Less, KeyRecords, Xattr, FileExtent, DirRec
    <2> QED BY <2>2 DEF u
  <1>9. g \in before /\ ~Less(g, e)
    <2> HIDE DEF before, g
    <2>1. before # {} BY <1>8
    <2> QED BY <1>1, <1>3, <1>8, <2>1, GreatestIs
  <1>10. g \in KeyRecords /\ e \in KeyRecords /\ g \in vol.keys BY <1>1, <1>9, KeysAre
  <1>11. ~Less(OffsetKey, g) BY <1>5, <1>9, <1>10
  <1> HIDE DEF g
  <1> QED BY <1>6, <1>7, <1>9, <1>10, <1>11 DEF g, Less, KeyRecords, Xattr, FileExtent, DirRec

\* The extent that covers the offset is found, if there is any record behind it.
LEMMA CoveringIsFound ==
    ASSUME Chosen, request.offset \in Nat, FoundBehind.key # Sentinel,
           NEW e, Covers(e, request.offset)
    PROVE  FoundFirst.key = e
  <1> DEFINE g == FoundFirst.key
  <1>1. e \in FileExtents /\ e.sub <= request.offset BY DEF Covers
  <1>2. e \in vol.keys /\ e.oid = FileId /\ e.type = FileExtent BY <1>1, ExtentIs
  <1>3. FileExtent \in Nat BY DEF FileExtent
  <1>4. /\ g \in vol.keys /\ g \in KeyRecords /\ g.oid = FileId
        /\ e.type <= g.type /\ g.type <= FileExtent
        /\ g.type = FileExtent => /\ g.sub <= request.offset
                                  /\ e.type = FileExtent => e.sub <= g.sub
    BY <1>1, <1>2, <1>3, FoundBetween
  <1> HIDE DEF g
  <1>5. g.type = FileExtent /\ g.sub <= request.offset /\ e.sub <= g.sub
    BY <1>2, <1>3, <1>4 DEF KeyRecords
  <1>6. g \in FileExtents BY <1>4, <1>5 DEF FileExtents, ExtentsOf
  <1>7. e.sub < g.sub => EndOfExtent(e) <= g.sub BY <1>1, <1>6, ExtentIs
  <1>8. request.offset < EndOfExtent(e) /\ EndOfExtent(e) \in Nat /\ g.sub \in Nat /\ e.sub \in Nat
    BY <1>1, <1>6, ExtentIs DEF Covers
  <1>9. g.sub = e.sub BY <1>5, <1>7, <1>8
  <1> QED BY <1>1, <1>6, <1>9, SamePlace DEF g

\* Of a file without extents, none is found.
LEMMA NoExtentIsFound ==
    ASSUME Chosen, request.offset \in Nat, FileExtents = {}
    PROVE  FoundFirst.key.type # FileExtent
  <1> DEFINE g == FoundFirst.key
  <1>1. CASE FoundBehind.key = Sentinel
    BY <1>1, NothingBehind, SentinelIs DEF FileExtent
  <1>2. CASE FoundBehind.key # Sentinel
    <2>1. PICK e \in vol.keys : e.oid = FileId /\ e.type < FileExtent BY FileIs
    <2>2. e.type \in Nat /\ FileExtent \in Nat BY KeysAre DEF FileExtent, KeyRecords
    <2>3. e.type <= FileExtent /\ e.type # FileExtent BY <2>1, <2>2
    <2>4. g \in vol.keys /\ g.oid = FileId BY <1>2, <2>1, <2>3, FoundBetween
    <2> QED BY <2>4 DEF FileExtents, ExtentsOf
  <1> QED BY <1>1, <1>2

\* The extent that begins where one ends is found behind it.
LEMMA NextIsFound ==
    ASSUME Chosen, NEW k \in FileExtents, NEW l \in FileExtents,
           l.sub = EndOfExtent(k), l \notin vol.starts
    PROVE  LET next == UpperBound(vol.keys, vol.starts, k)
           IN  next.key = l /\ next.isRecord = TRUE
  <1> DEFINE behind == {r \in vol.keys : Less(k, r)}
             x == LeastOf(behind)
  <1>1. /\ k \in KeyRecords /\ k.oid = FileId /\ k.type = FileExtent
        /\ l \in KeyRecords /\ l.oid = FileId /\ l.type = FileExtent
        /\ l \in vol.keys /\ k.sub < l.sub
    BY ExtentIs
  <1>2. l \in behind BY <1>1 DEF Less, KeyRecords
  <1>3. IsFiniteSet(behind) /\ behind \subseteq KeyRecords BY KeysAre, FS_Subset
  <1>4. x \in behind /\ ~Less(l, x)
    <2> HIDE DEF behind
    <2> QED BY <1>2, <1>3, LeastIs
  <1>5. x \in KeyRecords /\ Less(k, x) /\ x \in vol.keys BY <1>3, <1>4
  <1> HIDE DEF x
  <1>6. x.oid = FileId /\ x.type = FileExtent /\ k.sub < x.sub /\ x.sub <= l.sub
    BY <1>1, <1>4, <1>5 DEF Less, KeyRecords, Xattr, FileExtent, DirRec
  <1>7. x \in FileExtents BY <1>5, <1>6 DEF FileExtents, ExtentsOf
  <1>8. EndOfExtent(k) <= x.sub BY <1>6, <1>7, ExtentIs
  <1>9. x.sub = l.sub BY <1>6, <1>8, <1>1, <1>5 DEF KeyRecords
  <1>10. x = l BY <1>7, <1>9, SamePlace
  <1> QED BY <1>10, AnswersAre DEF x

-----------------------------------------------------------------------------
(* The steps *)

\* What depends on the volume and the call alone stays as it is.
LEMMA StaysFixed ==
    ASSUME UNCHANGED <<vol, request>>
    PROVE  /\ Chosen' = Chosen /\ Crosses' = Crosses /\ HasStream' = HasStream
           /\ FileExtents' = FileExtents /\ FileSize' = FileSize /\ Asked' = Asked
           /\ FoundBehind' = FoundBehind /\ FoundFirst' = FoundFirst
           /\ ExtentIsLast' = ExtentIsLast
  <1>1. File' = File BY DEF File
  <1>2. FileId' = FileId BY <1>1 DEF FileId
  <1>3. OffsetKey' = OffsetKey BY <1>1 DEF OffsetKey
  <1>4. Chosen' = Chosen BY DEF Chosen
  <1>5. Crosses' = Crosses BY <1>1 DEF Crosses
  <1>6. HasStream' = HasStream BY <1>1 DEF HasStream
  <1>7. FileExtents' = FileExtents BY <1>2 DEF FileExtents
  <1>8. FileSize' = FileSize BY <1>1 DEF FileSize
  <1>9. Asked' = Asked BY <1>8 DEF Asked
  <1>10. FoundBehind' = FoundBehind BY <1>3 DEF FoundBehind
  <1>11. FoundFirst' = FoundFirst BY <1>10 DEF FoundFirst
  <1>12. ExtentIsLast' = ExtentIsLast BY <1>3 DEF ExtentIsLast
  <1> QED BY <1>4, <1>5, <1>6, <1>7, <1>8, <1>9, <1>10, <1>11, <1>12

LEMMA BytesStayFixed ==
    ASSUME UNCHANGED <<vol, request>>, NEW addr
    PROVE  ByteAt(addr)' = ByteAt(addr)
  BY DEF ByteAt, File

LEMMA ReadStarts == Init => ReadIInv
  BY DEF Init, ReadIInv, Chosen, Progress

\* Nothing is a part of what is asked for.
LEMMA NothingIsPart ==
    ASSUME Chosen, out = <<>>
    PROVE  PartOfAsked /\ (Asked = 0 => AllOfAsked)
  BY AskedIs DEF PartOfAsked, AllOfAsked

LEMMA CheckKeeps == ReadIInv /\ Check => ReadIInv'
  <1> SUFFICES ASSUME ReadIInv, Check PROVE ReadIInv' OBVIOUS
  <1>1. UNCHANGED <<vol, request, kv, first, skip, block, blocks, out>> /\ phase = "check"
    BY DEF Check
  <1>2. Chosen /\ Chosen' /\ Crosses' = Crosses BY <1>1, StaysFixed DEF ReadIInv
  <1>3. phase' \in {"error", "done", "find"} BY DEF Check
  <1>4. ASSUME ~Crosses PROVE Progress'
    <2>1. out = <<>> /\ first = TRUE /\ out' = <<>> /\ first' = TRUE
      BY <1>1, <1>4 DEF ReadIInv, Progress
    <2>2. size' \in SizesOf(parse_xfields(Written(FileFields)), Unset)
      BY DEF Check, FileFields
    <2>3. size' \in Nat /\ (HasStream => size' = FileSize) BY <1>2, <2>2, SizeIs
    <2>4. CASE phase' = "error" BY <2>1, <2>4 DEF Progress
    <2>5. CASE phase' = "done"
      <3>1. request.offset = size' BY <2>5 DEF Check
      <3>2. Asked' = 0
        <4>1. ~HasStream \/ request.offset = FileSize BY <2>3, <3>1
        <4>2. Asked = 0 BY <1>2, <4>1, AskedIs
        <4> QED BY <1>1, <4>2, StaysFixed
      <3>3. PartOfAsked' /\ AllOfAsked' BY <2>1, <3>2 DEF PartOfAsked, AllOfAsked
      <3> QED BY <2>5, <3>3 DEF Progress
    <2>6. CASE phase' = "find"
      <3>1. ~Refused(size') /\ request.offset # size' /\ left' = Wanted(size')
        BY <2>6 DEF Check
      <3>2. request \in Requests BY <1>2 DEF Chosen
      <3>3. request.offset \in Int /\ request.size \in Int BY <3>2, ReadAssumption
      <3>4. /\ request.size >= -1 /\ request.offset \in Nat /\ request.offset < size'
        BY <2>3, <3>1, <3>3 DEF Refused
      <3>5. HasStream' => size' = FileSize' BY <1>1, <2>3, StaysFixed
      <3>6. Begun' BY <1>1, <2>3, <3>4, <3>5 DEF Begun
      <3>7. left' = Wanted(size)' BY <1>1, <3>1 DEF Wanted
      <3>8. Searching' BY <2>1, <3>6, <3>7 DEF Searching
      <3> QED BY <2>6, <3>8 DEF Progress
    <2> QED BY <1>3, <2>4, <2>5, <2>6
  <1> QED BY <1>2, <1>3, <1>4 DEF ReadIInv

\* A call that searches, and reads nothing.
LEMMA SearchingStays ==
    ASSUME Searching, UNCHANGED <<vol, request, size, first, left, out>>
    PROVE  Searching'
  <1>1. HasStream' = HasStream /\ FileSize' = FileSize BY StaysFixed
  <1>2. Begun' BY <1>1 DEF Searching, Begun
  <1>3. Wanted(size)' = Wanted(size) BY DEF Wanted
  <1> QED BY <1>2, <1>3 DEF Searching

LEMMA FindKeeps == ReadIInv /\ Find => ReadIInv'
  <1> SUFFICES ASSUME ReadIInv, Find PROVE ReadIInv' OBVIOUS
  <1>1. /\ UNCHANGED <<vol, request, size, first, left, out>>
        /\ phase = "find" /\ phase' = "back" /\ kv' = FoundBehind
    BY DEF Find, FoundBehind
  <1>2. Chosen' /\ Crosses' = Crosses /\ FoundBehind' = FoundBehind
    BY <1>1, StaysFixed DEF ReadIInv
  <1>3. ASSUME ~Crosses PROVE Progress'
    <2>1. Searching BY <1>1, <1>3 DEF ReadIInv, Progress
    <2>2. Searching' BY <1>1, <2>1, SearchingStays
    <2> QED BY <1>1, <1>2, <2>2 DEF Progress
  <1> QED BY <1>1, <1>2, <1>3 DEF ReadIInv

LEMMA StepBackKeeps == ReadIInv /\ StepBack => ReadIInv'
  <1> SUFFICES ASSUME ReadIInv, StepBack PROVE ReadIInv' OBVIOUS
  <1>1. /\ UNCHANGED <<vol, request, size, first, left, out>>
        /\ phase = "back" /\ phase' = "extent" /\ kv' = Prev(vol.keys, kv.key)
    BY DEF StepBack
  <1>2. Chosen' /\ Crosses' = Crosses /\ FoundFirst' = FoundFirst
    BY <1>1, StaysFixed DEF ReadIInv
  <1>3. ASSUME ~Crosses PROVE Progress'
    <2>1. Searching /\ kv = FoundBehind BY <1>1, <1>3 DEF ReadIInv, Progress
    <2>2. Searching' BY <1>1, <2>1, SearchingStays
    <2>3. kv' = FoundFirst BY <1>1, <2>1 DEF FoundFirst
    <2> QED BY <1>1, <1>2, <2>2, <2>3 DEF Progress
  <1> QED BY <1>1, <1>2, <1>3 DEF ReadIInv

\* A call that reads, between two extents or chunks.
LEMMA ReadingStays ==
    ASSUME Reading, UNCHANGED <<vol, request, size, left, out>>, first' = FALSE
    PROVE  Reading'
  <1>1. HasStream' = HasStream /\ FileSize' = FileSize BY StaysFixed
  <1>2. Begun' BY <1>1 DEF Reading, Begun
  <1>3. Wanted(size)' = Wanted(size) BY DEF Wanted
  <1>4. (\A n \in DOMAIN out : out[n] = ByteAt(request.offset + n - 1))'
    <2>1. \A n \in DOMAIN out : ByteAt(request.offset + n - 1)' = ByteAt(request.offset + n - 1)
      BY BytesStayFixed
    <2> QED BY <2>1 DEF Reading
  <1> QED BY <1>1, <1>2, <1>3, <1>4 DEF Reading

\* What a call has written by then, and what is left of it.
LEMMA ReadingIs ==
    ASSUME Chosen, Reading
    PROVE  /\ request.offset \in Nat /\ size = FileSize /\ size \in Nat
           /\ left \in Nat /\ Len(out) \in Nat /\ Reached \in Nat
           /\ left > 0 => Reached < FileSize
           /\ left + Len(out) = Asked
           /\ PartOfAsked /\ (left = 0 => AllOfAsked)
  <1>1. Begun /\ HasStream /\ left \in Nat /\ left + Len(out) = Wanted(size) BY DEF Reading
  <1>2. Asked = Wanted(size) /\ Wanted(size) \in Nat /\ Wanted(size) <= size - request.offset
    BY <1>1, AskedIs
  <1>3. Len(out) \in Nat BY LenProperties DEF Reading
  <1>4. request.offset \in Nat /\ size = FileSize /\ size \in Nat BY <1>1 DEF Begun
  <1>5. Reached = request.offset + Len(out) BY DEF Reached
  <1>6. Len(out) <= Asked /\ (left = 0 => Len(out) = Asked) /\ left + Len(out) = Asked
    BY <1>1, <1>2, <1>3
  <1>7. left > 0 => Reached < FileSize BY <1>1, <1>2, <1>3, <1>4, <1>5
  <1>8. PartOfAsked /\ (left = 0 => AllOfAsked) BY <1>6 DEF PartOfAsked, AllOfAsked, Reading
  <1> QED BY <1>1, <1>3, <1>4, <1>5, <1>6, <1>7, <1>8

\* The first search finds the extent of the offset, if anything is to be read of it.
LEMMA FirstIsFound ==
    ASSUME Chosen, Searching, FoundBehind.key # Sentinel, HasStream
    PROVE  Covers(FoundFirst.key, request.offset)
  <1>1. request.offset \in Nat /\ FileSize \in Nat /\ request.offset < FileSize
    BY DEF Searching, Begun
  <1>2. \E e : Covers(e, request.offset) BY <1>1, SizeIs
  <1> QED BY <1>1, <1>2, CoveringIsFound

LEMMA FirstIsOfStream ==
    ASSUME Chosen, Searching, FoundFirst.key # Sentinel, FoundFirst.key.type = FileExtent
    PROVE  HasStream /\ FoundBehind.key # Sentinel
  <1>1. request.offset \in Nat BY DEF Searching, Begun
  <1>2. FileExtents # {} BY <1>1, NoExtentIsFound
  <1> QED BY <1>2, SizeIs, NothingBehind

LEMMA EnterExtentKeeps == ReadIInv /\ EnterExtent => ReadIInv'
  <1> SUFFICES ASSUME ReadIInv, EnterExtent PROVE ReadIInv' OBVIOUS
  <1>1. /\ UNCHANGED <<vol, request, size, kv, left, out>> /\ first' = FALSE
        /\ phase = "extent" /\ phase' = "chunk"
        /\ left # 0 /\ kv.key # Sentinel /\ kv.key.type = FileExtent
        /\ skip' = IF first THEN request.offset - kv.key.sub ELSE skip
    BY DEF EnterExtent, MoreExtents, Skipped
  <1>2. Chosen /\ Chosen' /\ Crosses' = Crosses BY <1>1, StaysFixed DEF ReadIInv
  <1>3. ASSUME ~Crosses PROVE Reading' /\ InExtent'
    <2>1. (Searching /\ kv = FoundFirst) \/ (Reading /\ AtExtent)
      BY <1>1, <1>3 DEF ReadIInv, Progress
    <2>2. /\ Reading' /\ kv.key \in FileExtents /\ kv.isRecord = TRUE
          /\ request.offset < EndOfExtent(kv.key)
          /\ skip' \in Nat /\ kv.key.sub + skip' = Reached /\ Reached < EndOfExtent(kv.key)
      <3>1. CASE Searching /\ kv = FoundFirst
        <4>1. HasStream /\ FoundBehind.key # Sentinel BY <1>1, <1>2, <3>1, FirstIsOfStream
        <4>2. Covers(kv.key, request.offset) BY <1>2, <3>1, <4>1, FirstIsFound
        <4>3. kv.isRecord = TRUE BY <1>2, <3>1, AnswersAre DEF FoundFirst
        <4>4. /\ kv.key \in FileExtents /\ kv.key.sub <= request.offset
              /\ request.offset < EndOfExtent(kv.key)
          BY <4>2 DEF Covers
        <4>5. kv.key.sub \in Nat /\ request.offset \in Nat /\ first = TRUE
          BY <1>2, <3>1, <4>4, ExtentIs DEF Searching, Begun
        <4>6. skip' \in Nat /\ kv.key.sub + skip' = request.offset BY <1>1, <4>4, <4>5
        <4>7. out = <<>> /\ Len(out) = 0 BY <3>1 DEF Searching
        <4>8. Reached = request.offset BY <4>5, <4>7 DEF Reached
        <4>9. Reading'
          <5>1. Begun /\ left = Wanted(size) BY <3>1 DEF Searching
          <5>2. left \in Nat BY <1>2, <5>1, AskedIs
          <5>3. Begun' /\ HasStream'
            <6>1. HasStream' = HasStream /\ FileSize' = FileSize BY <1>1, StaysFixed
            <6> QED BY <1>1, <4>1, <5>1, <6>1 DEF Begun
          <5>4. Wanted(size)' = Wanted(size) BY <1>1 DEF Wanted
          <5> QED BY <1>1, <4>7, <5>1, <5>2, <5>3, <5>4 DEF Reading
        <4> QED BY <4>3, <4>4, <4>6, <4>8, <4>9
      <3>2. CASE Reading /\ AtExtent
        <4>1. left > 0 /\ request.offset \in Nat /\ Len(out) \in Nat BY <1>1, <1>2, <3>2, ReadingIs
        <4>2. /\ kv.key \in FileExtents /\ kv.isRecord = TRUE
              /\ kv.key.sub = Reached /\ skip = 0 /\ first = FALSE
          BY <3>2, <4>1 DEF AtExtent, Reading
        <4>3. kv.key.sub \in Nat /\ kv.key.sub < EndOfExtent(kv.key) /\ EndOfExtent(kv.key) \in Nat
          BY <1>2, <4>2, ExtentIs
        <4>4. request.offset < EndOfExtent(kv.key) BY <4>1, <4>2, <4>3 DEF Reached
        <4>5. skip' = 0 BY <1>1, <4>2
        <4>6. Reading' BY <1>1, <3>2, ReadingStays
        <4> QED BY <4>2, <4>3, <4>4, <4>5, <4>6
      <3> QED BY <2>1, <3>1, <3>2
    <2> DEFINE val == vol.extent[kv.key]
               whole == val.len \div BlockSize
    <2>3. block' = val.phys /\ blocks' = whole BY <2>2 DEF EnterExtent, ValueInHand
    <2>4. val.phys \in Nat /\ whole \in Nat /\ val.len = whole * BlockSize
      BY <1>2, <2>2, ExtentIs
    <2>5. EndOfExtent(kv.key) = kv.key.sub + val.len BY DEF EndOfExtent
    <2>6. kv.key.sub \in Nat BY <1>2, <2>2, ExtentIs
    <2>7. skip' \in Nat /\ blocks' \in Nat /\ skip' <= blocks' * BlockSize
      <3> HIDE DEF val, whole
      <3>1. whole * BlockSize \in Nat BY <2>4, ReadAssumption
      <3> QED BY <2>2, <2>3, <2>4, <2>5, <2>6, <3>1
    <2>8. block' = val.phys + 0 /\ 0 + blocks' = whole /\ kv.key.sub + 0 * BlockSize + skip' = Reached
      <3> HIDE DEF val, whole
      <3> QED BY <2>2, <2>3, <2>4, <2>6, ReadAssumption
    <2>9. \E past \in Nat : /\ block' = val.phys + past /\ past + blocks' = whole
                            /\ kv.key.sub + past * BlockSize + skip' = Reached
      <3>1. 0 \in Nat OBVIOUS
      <3> HIDE DEF val, whole
      <3> QED BY <2>8, <3>1
    <2>10. InExtent'
      <3>1. FileExtents' = FileExtents BY <1>1, StaysFixed
      <3>2. Reached' = Reached BY <1>1 DEF Reached
      <3>3. kv' = kv /\ vol' = vol /\ request' = request BY <1>1
      <3>4. EndOfExtent(kv.key)' = EndOfExtent(kv.key) BY <1>1 DEF EndOfExtent
      <3> QED BY <2>2, <2>7, <2>9, <3>1, <3>2, <3>3, <3>4 DEF InExtent
    <2> QED BY <2>2, <2>10
  <1> QED BY <1>1, <1>2, <1>3 DEF ReadIInv, Progress

LEMMA DoneKeeps == ReadIInv /\ Done => ReadIInv'
  <1> SUFFICES ASSUME ReadIInv, Done PROVE ReadIInv' OBVIOUS
  <1>1. /\ UNCHANGED <<vol, request, size, kv, first, skip, left, block, blocks, out>>
        /\ phase = "extent" /\ phase' = "done"
        /\ left # 0 => kv.key = Sentinel \/ kv.key.type # FileExtent
    BY DEF Done, MoreExtents
  <1>2. Chosen /\ Chosen' /\ Crosses' = Crosses /\ ExtentIsLast' = ExtentIsLast /\ Asked' = Asked
    BY <1>1, StaysFixed DEF ReadIInv
  <1>3. ASSUME ~Crosses PROVE PartOfAsked /\ (~ExtentIsLast => AllOfAsked)
    <2>1. (Searching /\ kv = FoundFirst) \/ (Reading /\ AtExtent)
      BY <1>1, <1>3 DEF ReadIInv, Progress
    <2>2. CASE Searching /\ kv = FoundFirst
      <3>1. out = <<>> /\ Begun /\ left = Wanted(size) BY <2>2 DEF Searching
      <3>2. ASSUME ~ExtentIsLast PROVE Asked = 0
        <4>1. FoundBehind.key # Sentinel BY <3>2 DEF ExtentIsLast, FoundBehind
        <4>2. CASE ~HasStream BY <1>2, <4>2, AskedIs
        <4>3. CASE HasStream
          <5>1. FoundFirst.key \in FileExtents
            BY <1>2, <2>2, <4>1, <4>3, FirstIsFound DEF Covers
          <5>2. kv.key.type = FileExtent BY <1>2, <2>2, <5>1, ExtentIs
          <5>3. kv.key # Sentinel BY <5>2, SentinelIs DEF FileExtent
          <5>4. left = 0 BY <1>1, <5>2, <5>3
          <5> QED BY <1>2, <3>1, <4>3, <5>4, AskedIs
        <4> QED BY <4>2, <4>3
      <3> QED BY <1>2, <3>1, <3>2, NothingIsPart
    <2>3. CASE Reading /\ AtExtent
      <3>1. PartOfAsked /\ (left = 0 => AllOfAsked) /\ left \in Nat BY <1>2, <2>3, ReadingIs
      <3>2. left = 0
        <4> SUFFICES ASSUME left # 0 PROVE FALSE OBVIOUS
        <4>1. left > 0 BY <3>1
        <4>2. kv.key \in FileExtents BY <2>3, <4>1 DEF AtExtent
        <4>3. kv.key.type = FileExtent BY <1>2, <4>2, ExtentIs
        <4>4. kv.key # Sentinel BY <4>3, SentinelIs DEF FileExtent
        <4> QED BY <1>1, <4>3, <4>4
      <3> QED BY <3>1, <3>2
    <2> QED BY <2>1, <2>2, <2>3
  <1>4. PartOfAsked' = PartOfAsked
    <2>1. \A n \in DOMAIN out : ByteAt(request.offset + n - 1)' = ByteAt(request.offset + n - 1)
      BY <1>1, BytesStayFixed
    <2> QED BY <1>1, <1>2, <2>1 DEF PartOfAsked
  <1>5. AllOfAsked' = AllOfAsked BY <1>1, <1>2, <1>4 DEF AllOfAsked
  <1> QED BY <1>1, <1>2, <1>3, <1>4, <1>5 DEF ReadIInv, Progress

\* A byte of the file, by the extent that covers it.
LEMMA ByteIs ==
    ASSUME Chosen, NEW addr \in Nat, NEW k, Covers(k, addr)
    PROVE  ByteAt(addr) = [block |-> vol.extent[k].phys + (addr - k.sub) \div BlockSize,
                           at |-> (addr - k.sub) % BlockSize]
  <1> DEFINE InFile(l) == /\ l.oid = File.private /\ l.type = FileExtent
                          /\ l.sub <= addr /\ addr < l.sub + vol.extent[l].len
             key == CHOOSE l \in vol.keys : InFile(l)
  <1>1. \A l : l \in vol.keys /\ InFile(l) <=> Covers(l, addr)
    BY DEF Covers, FileExtents, ExtentsOf, EndOfExtent, FileId
  <1>2. key \in vol.keys /\ InFile(key)
    <2>1. \E l \in vol.keys : InFile(l) BY <1>1
    <2> HIDE DEF InFile
    <2> QED BY <2>1
  <1>3. Covers(key, addr) BY <1>1, <1>2
  <1>4. ByteAt(addr) = [block |-> vol.extent[key].phys + (addr - key.sub) \div BlockSize,
                        at |-> (addr - key.sub) % BlockSize]
    BY DEF ByteAt
  <1> HIDE DEF key
  <1>5. key = k BY <1>3, OneCovers
  <1> QED BY <1>4, <1>5

\* Some of the blocks that follow, in bytes.
LEMMA ChunkIs ==
    ASSUME NEW b \in Nat \ {0}, NEW past \in Nat, NEW n \in Nat, NEW c \in 0 .. n
    PROVE  /\ past * b \in Nat /\ n * b \in Nat /\ c * b \in Nat
           /\ (past + c) * b = past * b + c * b
           /\ (past + n) * b = past * b + n * b
           /\ (n - c) * b = n * b - c * b /\ c * b <= n * b
           /\ c # 0 => c * b > 0
  <1>1. past * b \in Nat /\ n * b \in Nat /\ c * b \in Nat OBVIOUS
  <1>2. (past + c) * b = past * b + c * b /\ (past + n) * b = past * b + n * b OBVIOUS
  <1>3. (n - c) * b = n * b - c * b OBVIOUS
  <1>4. n - c \in Nat /\ (n - c) * b \in Nat OBVIOUS
  <1>5. c * b <= n * b BY <1>1, <1>3, <1>4
  <1>6. c # 0 => c * b > 0 OBVIOUS
  <1> QED BY <1>1, <1>2, <1>3, <1>5, <1>6

\* The call after a chunk: so many bytes of it are new.
ChunkBytes == ChunkBlocks * BlockSize
NewBytes == [n \in 1 .. ChunkTake(ChunkBytes) |-> ByteOf(skip + n - 1)]

\* The blocks of a chunk are some of those that follow, at least one.
LEMMA ChunkBlocksAre ==
    ASSUME blocks \in Nat, blocks > 0
    PROVE  ChunkBlocks \in 1 .. blocks /\ ChunkBlocks \in Nat /\ ChunkBlocks # 0
           /\ ChunkBlocks \in 0 .. blocks
  BY ReadAssumption DEF ChunkBlocks

\* The bytes of a chunk are those of the file from where it has been read to.
LEMMA ChunkIsOfFile ==
    ASSUME Chosen, kv.key \in FileExtents, skip \in Nat, blocks \in Nat, blocks > 0,
           NEW past \in Nat, block = vol.extent[kv.key].phys + past,
           past + blocks = vol.extent[kv.key].len \div BlockSize,
           kv.key.sub + past * BlockSize + skip = Reached,
           NEW n \in Nat, skip + n < ChunkBytes
    PROVE  ByteOf(skip + n) = ByteAt(Reached + n) /\ ByteOf(skip + n) \in [block : Int, at : Nat]
  <1> DEFINE e == kv.key
             val == vol.extent[e]
             whole == val.len \div BlockSize
             before == past * BlockSize
             rest == blocks * BlockSize
             x == skip + n
             addr == Reached + n
  <1>1. /\ e.sub \in Nat /\ val.phys \in Nat /\ val.len = whole * BlockSize
        /\ EndOfExtent(e) = e.sub + val.len
    BY ExtentIs DEF EndOfExtent
  <1>2. /\ before \in Nat /\ rest \in Nat /\ whole * BlockSize = before + rest
        /\ ChunkBytes <= rest /\ ChunkBytes \in Nat
    BY ChunkBlocksAre, ChunkIs, ReadAssumption DEF ChunkBytes
  <1>3. x \in Nat /\ x < ChunkBytes /\ e.sub + before + skip = Reached OBVIOUS
  <1>4. /\ addr \in Nat /\ e.sub <= addr /\ addr < EndOfExtent(e)
        /\ addr - e.sub = before + x
    <2> HIDE DEF val, before, rest, e, whole
    <2> QED BY <1>1, <1>2, <1>3
  <1>5. Covers(e, addr) BY <1>4 DEF Covers
  <1>6. ByteAt(addr) = [block |-> val.phys + (before + x) \div BlockSize,
                        at |-> (before + x) % BlockSize]
    <2>1. ByteAt(addr) = [block |-> val.phys + (addr - e.sub) \div BlockSize,
                          at |-> (addr - e.sub) % BlockSize]
      BY <1>4, <1>5, ByteIs
    <2> HIDE DEF val, before, x, addr, e
    <2> QED BY <1>4, <2>1
  <1>7. /\ (before + x) \div BlockSize = past + x \div BlockSize
        /\ (before + x) % BlockSize = x % BlockSize
        /\ x \div BlockSize \in Nat /\ x % BlockSize \in Nat
    <2> HIDE DEF x
    <2>1. /\ (past * BlockSize + x) \div BlockSize = past + x \div BlockSize
          /\ (past * BlockSize + x) % BlockSize = x % BlockSize
      BY <1>3, BehindBlocks, ReadAssumption
    <2>2. x % BlockSize \in 0 .. BlockSize - 1 /\ x \div BlockSize \in Nat
      BY <1>3, BlocksAndRest, ReadAssumption
    <2>3. x % BlockSize \in Nat BY <2>2, ReadAssumption
    <2> QED BY <2>1, <2>2, <2>3
  <1>8. block = val.phys + past OBVIOUS
  <1>9. ByteOf(x) = [block |-> block + x \div BlockSize, at |-> x % BlockSize] BY DEF ByteOf
  <1> HIDE DEF val, before, x, addr
  <1>10. val.phys + (past + x \div BlockSize) = block + x \div BlockSize BY <1>1, <1>7, <1>8
  <1>11. ByteOf(x) = ByteAt(addr) BY <1>6, <1>7, <1>9, <1>10
  <1>12. ByteOf(x) \in [block : Int, at : Nat] BY <1>1, <1>7, <1>8, <1>9
  <1> QED BY <1>11, <1>12 DEF x, addr

\* Bytes of the file behind those that have been read are a longer part of it.
LEMMA ReadingGrows ==
    ASSUME Chosen, Reading, UNCHANGED <<vol, request, size, first>>,
           NEW t \in Nat, t <= left, left' = left - t,
           NEW new, out' = out \o new, new \in Seq([block : Int, at : Nat]), Len(new) = t,
           \A n \in 1 .. t : new[n] = ByteAt(Reached + n - 1)
    PROVE  Reading' /\ Reached' = Reached + t
  <1> DEFINE Bytes == [block : Int, at : Nat]
             len == Len(out)
  <1>1. out \in Seq(Bytes) /\ new \in Seq(Bytes) /\ len \in Nat /\ left \in Nat
        /\ left + len = Wanted(size) /\ request.offset \in Nat /\ first = FALSE
        /\ Reached = request.offset + len
    BY ReadingIs DEF Reading, Reached
  <1> HIDE DEF Bytes
  <1>2. /\ out \o new \in Seq(Bytes) /\ Len(out \o new) = Len(out) + Len(new)
        /\ \A n \in 1 .. Len(out) + Len(new) :
              (out \o new)[n] = IF n <= Len(out) THEN out[n] ELSE new[n - Len(out)]
    BY <1>1, ConcatProperties, Zenon
  <1>3. out' \in Seq(Bytes) /\ Len(out') = len + t /\ DOMAIN out' = 1 .. len + t
    <2>1. out' \in Seq(Bytes) /\ Len(out') = len + t BY <1>2
    <2> QED BY <2>1, LenProperties
  <1>4. ASSUME NEW n \in 1 .. len + t PROVE out'[n] = ByteAt(request.offset + n - 1)
    <2>1. out'[n] = IF n <= len THEN out[n] ELSE new[n - len] BY <1>2
    <2>2. CASE n <= len
      <3>1. n \in DOMAIN out BY <1>1, <2>2, LenProperties
      <3> QED BY <2>1, <2>2, <3>1 DEF Reading
    <2>3. CASE ~(n <= len)
      <3>1. n - len \in 1 .. t /\ Reached + (n - len) - 1 = request.offset + n - 1
        <4> HIDE DEF len
        <4> QED BY <1>1, <2>3
      <3>2. new[n - len] = ByteAt(Reached + (n - len) - 1) BY <3>1
      <3> QED BY <2>1, <2>3, <3>1, <3>2
    <2> QED BY <2>2, <2>3
  <1>5. left' \in Nat /\ left' + Len(out') = Wanted(size)'
    <2>1. Wanted(size)' = Wanted(size) BY DEF Wanted
    <2> HIDE DEF len
    <2> QED BY <1>1, <1>3, <2>1
  <1>6. Begun' /\ HasStream'
    <2>1. HasStream' = HasStream /\ FileSize' = FileSize BY StaysFixed
    <2> QED BY <2>1 DEF Reading, Begun
  <1>7. \A n \in DOMAIN out' : out'[n] = ByteAt(request.offset + n - 1)'
    BY <1>3, <1>4, BytesStayFixed
  <1>8. Reading'
    <2>1. request' = request OBVIOUS
    <2> QED BY <1>1, <1>3, <1>5, <1>6, <1>7, <2>1 DEF Reading, Bytes
  <1>9. Reached' = Reached + t
    <2>1. Reached' = request.offset + Len(out') BY DEF Reached
    <2> HIDE DEF len
    <2> QED BY <1>1, <1>3, <2>1
  <1> QED BY <1>8, <1>9

\* The blocks of a chunk are behind then, and their bytes either left out or read.
LEMMA ReadChunkKeeps == ReadIInv /\ ReadChunk => ReadIInv'
  <1> SUFFICES ASSUME ReadIInv, ReadChunk PROVE ReadIInv' OBVIOUS
  <1>1. /\ UNCHANGED <<vol, request, size, phase, kv, first>>
        /\ phase = "chunk" /\ blocks > 0 /\ left > 0
        /\ block' = block + ChunkBlocks /\ blocks' = blocks - ChunkBlocks
        /\ IF skip >= ChunkBytes THEN skip' = skip - ChunkBytes /\ UNCHANGED <<out, left>>
           ELSE /\ out' = out \o NewBytes /\ left' = left - ChunkTake(ChunkBytes) /\ skip' = 0
    BY DEF ReadChunk, ChunkBytes, NewBytes
  <1>2. Chosen /\ Chosen' /\ Crosses' = Crosses BY <1>1, StaysFixed DEF ReadIInv
  <1>3. ASSUME ~Crosses PROVE Reading' /\ InExtent'
    <2>1. Reading /\ InExtent BY <1>1, <1>3 DEF ReadIInv, Progress
    <2>2. /\ kv.key \in FileExtents /\ request.offset < EndOfExtent(kv.key)
          /\ skip \in Nat /\ blocks \in Nat /\ skip <= blocks * BlockSize
      BY <1>1, <2>1 DEF InExtent
    <2>3. PICK past \in Nat : /\ block = vol.extent[kv.key].phys + past
                              /\ past + blocks = vol.extent[kv.key].len \div BlockSize
                              /\ kv.key.sub + past * BlockSize + skip = Reached
      BY <1>1, <2>1 DEF InExtent
    <2> DEFINE c == ChunkBlocks
               phys == vol.extent[kv.key].phys
               whole == vol.extent[kv.key].len \div BlockSize
    <2>4. c \in Nat /\ c <= blocks /\ c # 0 /\ c \in 0 .. blocks BY <1>1, <2>2, ChunkBlocksAre
    <2>5. /\ past * BlockSize \in Nat /\ blocks * BlockSize \in Nat /\ ChunkBytes \in Nat
          /\ (past + c) * BlockSize = past * BlockSize + ChunkBytes
          /\ (blocks - c) * BlockSize = blocks * BlockSize - ChunkBytes
          /\ ChunkBytes <= blocks * BlockSize /\ ChunkBytes > 0
      BY <2>2, <2>4, ChunkIs, ReadAssumption DEF ChunkBytes
    <2>6. kv.key.sub \in Nat /\ phys \in Nat BY <1>2, <2>2, ExtentIs
    <2>7. /\ past + c \in Nat /\ blocks' \in Nat
          /\ block' = phys + (past + c) /\ (past + c) + blocks' = whole
      <3>1. /\ block = phys + past /\ past + blocks = whole
            /\ block' = block + c /\ blocks' = blocks - c
        BY <1>1, <2>3
      <3>2. c \in Nat /\ c <= blocks /\ blocks \in Nat /\ phys \in Nat BY <2>2, <2>4, <2>6
      <3> HIDE DEF c, phys, whole
      <3>3. past + c \in Nat /\ blocks' \in Nat /\ (past + c) + blocks' = whole BY <3>1, <3>2
      <3>4. block' = phys + (past + c) BY <3>1, <3>2
      <3> QED BY <3>3, <3>4
    <2>8. /\ Reading' /\ left \in Nat
          /\ left' > 0 => /\ skip' \in Nat /\ skip' <= blocks' * BlockSize
                          /\ kv.key.sub + (past + c) * BlockSize + skip' = Reached'
      <3>1. CASE skip >= ChunkBytes
        <4>1. skip' = skip - ChunkBytes /\ UNCHANGED <<out, left>> BY <1>1, <3>1
        <4>2. first' = FALSE BY <1>1, <2>1 DEF Reading
        <4>3. Reading' /\ Reached' = Reached /\ left \in Nat
          BY <1>1, <2>1, <4>1, <4>2, ReadingStays DEF Reached, Reading
        <4>4. skip' \in Nat BY <2>2, <2>5, <3>1, <4>1
        <4>5. blocks' * BlockSize = blocks * BlockSize - ChunkBytes BY <1>1, <2>5
        <4>6. skip' <= blocks' * BlockSize
          <5> DEFINE rest == blocks' * BlockSize
                     before == blocks * BlockSize
          <5>1. rest = before - ChunkBytes /\ before \in Nat /\ skip <= before
            BY <2>2, <2>5, <4>5
          <5> HIDE DEF rest, before
          <5>2. skip' <= rest BY <2>2, <2>5, <4>1, <5>1
          <5> QED BY <5>2 DEF rest
        <4>7. kv.key.sub + (past + c) * BlockSize + skip' = Reached'
          <5> DEFINE before == past * BlockSize
                     now == (past + c) * BlockSize
          <5>1. now = before + ChunkBytes /\ before \in Nat /\ kv.key.sub + before + skip = Reached
            BY <2>3, <2>5
          <5> HIDE DEF before, now
          <5>2. kv.key.sub + now + skip' = Reached BY <2>2, <2>5, <2>6, <4>1, <5>1
          <5> QED BY <4>3, <5>2 DEF now
        <4> QED BY <4>3, <4>4, <4>6, <4>7
      <3>2. CASE ~(skip >= ChunkBytes)
        <4> DEFINE t == ChunkTake(ChunkBytes)
                   Bytes == [block : Int, at : Nat]
        <4>1. out' = out \o NewBytes /\ left' = left - t /\ skip' = 0 BY <1>1, <3>2
        <4>2. left \in Nat BY <2>1 DEF Reading
        <4>3. /\ t \in Nat /\ t <= left /\ t <= ChunkBytes - skip
              /\ left - t > 0 => t = ChunkBytes - skip
          BY <2>2, <2>5, <3>2, <4>2 DEF ChunkTake
        <4>4. ASSUME NEW n \in 1 .. t
              PROVE  ByteOf(skip + n - 1) = ByteAt(Reached + n - 1) /\ ByteOf(skip + n - 1) \in Bytes
          <5> DEFINE m == n - 1
          <5>1. m \in Nat /\ skip + m < ChunkBytes /\ skip + n - 1 = skip + m
                /\ Reached + n - 1 = Reached + m
            <6>1. Reached \in Nat BY <1>2, <2>1, ReadingIs
            <6> HIDE DEF t
            <6> QED BY <2>2, <2>5, <4>3, <6>1
          <5> HIDE DEF m
          <5>2. ByteOf(skip + m) = ByteAt(Reached + m) /\ ByteOf(skip + m) \in Bytes
            BY <1>1, <1>2, <2>2, <2>3, <5>1, ChunkIsOfFile
          <5> QED BY <5>1, <5>2
        <4>5. /\ NewBytes \in Seq(Bytes) /\ Len(NewBytes) = t
              /\ \A n \in 1 .. t : NewBytes[n] = ByteAt(Reached + n - 1)
          <5>1. NewBytes = [n \in 1 .. t |-> ByteOf(skip + n - 1)] BY DEF NewBytes
          <5> HIDE DEF t, Bytes
          <5>2. \A n \in 1 .. t : ByteOf(skip + n - 1) \in Bytes BY <4>4
          <5> QED BY <4>3, <4>4, <5>1, <5>2
        <4> HIDE DEF t
        <4>6. Reading' /\ Reached' = Reached + t
          BY <1>1, <1>2, <2>1, <4>1, <4>3, <4>5, ReadingGrows
        <4>7. ASSUME left' > 0
              PROVE  skip' <= blocks' * BlockSize
                     /\ kv.key.sub + (past + c) * BlockSize + skip' = Reached'
          <5> DEFINE before == past * BlockSize
                     now == (past + c) * BlockSize
                     rest == blocks' * BlockSize
          <5>1. now = before + ChunkBytes /\ before \in Nat /\ kv.key.sub + before + skip = Reached
            BY <2>3, <2>5
          <5>2. rest \in Nat
            <6>1. rest = blocks * BlockSize - ChunkBytes BY <1>1, <2>5
            <6> QED BY <2>5, <6>1
          <5>3. t = ChunkBytes - skip BY <4>1, <4>3, <4>7
          <5> HIDE DEF before, now, rest
          <5>4. skip' = 0 /\ skip' <= rest BY <4>1, <5>2
          <5>5. kv.key.sub + now + skip' = Reached'
            <6> DEFINE sub == kv.key.sub
                       from == Reached
            <6>1. sub \in Nat /\ sub + before + skip = from /\ Reached' = from + t
              BY <2>6, <4>6, <5>1
            <6> HIDE DEF sub, from
            <6>2. sub + now + 0 = from + t BY <2>2, <2>5, <5>1, <5>3, <6>1
            <6> QED BY <5>4, <6>1, <6>2 DEF sub
          <5> QED BY <5>4, <5>5 DEF now, rest
        <4> QED BY <4>1, <4>2, <4>6, <4>7
      <3> QED BY <3>1, <3>2
    <2>9. InExtent'
      <3>1. FileExtents' = FileExtents /\ EndOfExtent(kv.key)' = EndOfExtent(kv.key)
            /\ kv' = kv /\ vol' = vol /\ request' = request
        BY <1>1, StaysFixed DEF EndOfExtent
      <3>2. ASSUME left' > 0
            PROVE  /\ skip' \in Nat /\ blocks' \in Nat /\ skip' <= blocks' * BlockSize
                   /\ \E done \in Nat : /\ block' = phys + done /\ done + blocks' = whole
                                        /\ kv.key.sub + done * BlockSize + skip' = Reached'
        <4> DEFINE past2 == past + c
        <4>1. /\ past2 \in Nat /\ block' = phys + past2 /\ past2 + blocks' = whole
              /\ kv.key.sub + past2 * BlockSize + skip' = Reached'
          BY <2>7, <2>8, <3>2
        <4> HIDE DEF past2, c
        <4> QED BY <2>7, <2>8, <3>2, <4>1
      <3> QED BY <2>2, <3>1, <3>2 DEF InExtent
    <2> QED BY <2>8, <2>9
  <1>4. phase' = "chunk" BY <1>1
  <1> QED BY <1>2, <1>3, <1>4 DEF ReadIInv, Progress

\* The extent behind one that has been read begins where the file has been read to.
LEMMA NextCovers ==
    ASSUME Chosen, kv.key \in FileExtents, HasStream, ~Crosses,
           EndOfExtent(kv.key) < FileSize,
           request.offset \in Nat, request.offset < EndOfExtent(kv.key)
    PROVE  /\ NextExtent.key \in FileExtents /\ NextExtent.isRecord = TRUE
           /\ NextExtent.key.sub = EndOfExtent(kv.key)
  <1> DEFINE k == kv.key
             addr == EndOfExtent(k)
  <1>1. addr \in Nat /\ k.sub < addr /\ k.sub \in Nat BY ExtentIs
  <1>2. PICK l : Covers(l, addr)
    <2>1. FileSize \in Nat /\ \A a \in 0 .. FileSize - 1 : \E l : Covers(l, a) BY SizeIs
    <2> HIDE DEF addr
    <2>2. addr \in 0 .. FileSize - 1 BY <1>1, <2>1 DEF addr
    <2> QED BY <2>1, <2>2
  <1>3. l \in FileExtents /\ l.sub <= addr /\ addr < EndOfExtent(l) BY <1>2 DEF Covers
  <1>4. /\ l.sub \in Nat /\ EndOfExtent(l) \in Nat
        /\ l.sub < k.sub => EndOfExtent(l) <= k.sub
        /\ k.sub < l.sub => EndOfExtent(k) <= l.sub
    BY <1>3, ExtentIs
  <1>5. l.sub # k.sub BY <1>1, <1>3, SamePlace
  <1>6. l.sub = addr BY <1>1, <1>3, <1>4, <1>5
  <1>7. l \notin vol.starts
    <2>1. l.oid = File.private /\ l.type = FileExtent BY <1>3, ExtentIs DEF FileId
    <2>2. l.sub > request.offset BY <1>1, <1>6
    <2> QED BY <2>1, <2>2 DEF Crosses
  <1>8. NextExtent.key = l /\ NextExtent.isRecord = TRUE
    BY <1>3, <1>6, <1>7, NextIsFound DEF NextExtent
  <1> QED BY <1>3, <1>6, <1>8

LEMMA LeaveExtentKeeps == ReadIInv /\ LeaveExtent => ReadIInv'
  <1> SUFFICES ASSUME ReadIInv, LeaveExtent PROVE ReadIInv' OBVIOUS
  <1>1. /\ UNCHANGED <<vol, request, size, first, skip, left, block, blocks, out>>
        /\ phase = "chunk" /\ phase' = "extent" /\ kv' = NextExtent
        /\ blocks = 0 \/ left = 0
    BY DEF LeaveExtent
  <1>2. Chosen /\ Chosen' /\ Crosses' = Crosses BY <1>1, StaysFixed DEF ReadIInv
  <1>3. ASSUME ~Crosses PROVE Reading' /\ AtExtent'
    <2>1. Reading /\ InExtent BY <1>1, <1>3 DEF ReadIInv, Progress
    <2>2. first' = FALSE BY <1>1, <2>1 DEF Reading
    <2>3. Reading' BY <1>1, <2>1, <2>2, ReadingStays
    <2>4. ASSUME left > 0
          PROVE  /\ NextExtent.key \in FileExtents /\ NextExtent.isRecord = TRUE
                 /\ NextExtent.key.sub = Reached /\ skip = 0
      <3> DEFINE k == kv.key
                 len == vol.extent[k].len
      <3>1. k \in FileExtents /\ request.offset < EndOfExtent(k) /\ skip \in Nat
            /\ skip <= blocks * BlockSize
        BY <2>1, <2>4 DEF InExtent
      <3>2. PICK past \in Nat : /\ past + blocks = len \div BlockSize
                                /\ k.sub + past * BlockSize + skip = Reached
        BY <2>1, <2>4 DEF InExtent
      <3>3. Reached < FileSize /\ HasStream /\ left \in Nat /\ request.offset \in Nat
        BY <1>2, <2>1, <2>4, ReadingIs DEF Reading
      <3>4. blocks = 0 BY <1>1, <2>4, <3>3
      <3>5. skip = 0
        <4>1. blocks * BlockSize = 0 BY <3>4, ReadAssumption
        <4> QED BY <3>1, <4>1
      <3>6. /\ len = (len \div BlockSize) * BlockSize /\ k.sub \in Nat /\ len \in Nat
            /\ EndOfExtent(k) = k.sub + len
        BY <1>2, <3>1, ExtentIs DEF EndOfExtent
      <3>7. Reached = EndOfExtent(k)
        <4>1. past = len \div BlockSize BY <3>2, <3>4
        <4> HIDE DEF k, len
        <4>2. past * BlockSize = len BY <3>6, <4>1
        <4> QED BY <3>2, <3>5, <3>6, <4>2
      <3> QED BY <1>2, <1>3, <3>1, <3>3, <3>5, <3>7, NextCovers
    <2>5. AtExtent'
      <3>1. FileExtents' = FileExtents /\ Reached' = Reached BY <1>1, StaysFixed DEF Reached
      <3> QED BY <1>1, <2>4, <3>1 DEF AtExtent
    <2> QED BY <2>3, <2>5
  <1> QED BY <1>1, <1>2, <1>3 DEF ReadIInv, Progress

-----------------------------------------------------------------------------
(* The theorems *)

\* Where the call is, what it has written and the place in the extent in hand go
\* together at every step of read_file.
THEOREM ReadInvariant == Spec => []ReadIInv
  <1>1. ReadIInv /\ [Next]_vars => ReadIInv'
    <2> SUFFICES ASSUME ReadIInv, [Next]_vars PROVE ReadIInv' OBVIOUS
    <2>1. CASE UNCHANGED vars
      <3>1. UNCHANGED <<vol, request, size, phase, kv, first, skip, left, block, blocks, out>>
        BY <2>1 DEF vars
      <3>2. /\ Chosen' = Chosen /\ Crosses' = Crosses /\ HasStream' = HasStream
            /\ FileExtents' = FileExtents /\ FileSize' = FileSize /\ Asked' = Asked
            /\ FoundBehind' = FoundBehind /\ FoundFirst' = FoundFirst
            /\ ExtentIsLast' = ExtentIsLast
        BY <3>1, StaysFixed
      <3>3. ASSUME Searching PROVE Searching' BY <3>1, <3>3, SearchingStays
      <3>4. ASSUME Reading PROVE Reading'
        <4>1. first' = FALSE BY <3>1, <3>4 DEF Reading
        <4> QED BY <3>1, <3>4, <4>1, ReadingStays
      <3>5. AtExtent' = AtExtent BY <3>1, <3>2 DEF AtExtent, Reached
      <3>6. InExtent' = InExtent BY <3>1, <3>2 DEF InExtent, EndOfExtent, Reached
      <3>7. PartOfAsked' = PartOfAsked
        <4>1. \A n \in DOMAIN out :
                  ByteAt(request.offset + n - 1)' = ByteAt(request.offset + n - 1)
          BY <3>1, BytesStayFixed
        <4> QED BY <3>1, <3>2, <4>1 DEF PartOfAsked
      <3>8. AllOfAsked' = AllOfAsked BY <3>1, <3>2, <3>7 DEF AllOfAsked
      <3>9. ASSUME Progress PROVE Progress'
        <4> phase' = phase /\ kv' = kv /\ first' = first /\ out' = out BY <3>1
        <4>1. phase \in {"check", "error", "find", "back", "extent", "chunk", "done"}
          BY DEF ReadIInv
        <4>2. CASE phase \in {"check", "error"} BY <3>9, <4>2 DEF Progress
        <4>3. CASE phase \in {"find", "back"} BY <3>2, <3>3, <3>9, <4>3 DEF Progress
        <4>4. CASE phase = "extent" BY <3>2, <3>3, <3>4, <3>5, <3>9, <4>4 DEF Progress
        <4>5. CASE phase = "chunk" BY <3>4, <3>6, <3>9, <4>5 DEF Progress
        <4>6. CASE phase = "done" BY <3>2, <3>7, <3>8, <3>9, <4>6 DEF Progress
        <4> QED BY <4>1, <4>2, <4>3, <4>4, <4>5, <4>6
      <3> QED BY <3>1, <3>2, <3>9 DEF ReadIInv
    <2>2. CASE Check BY <2>2, CheckKeeps
    <2>3. CASE Find BY <2>3, FindKeeps
    <2>4. CASE StepBack BY <2>4, StepBackKeeps
    <2>5. CASE EnterExtent BY <2>5, EnterExtentKeeps
    <2>6. CASE Done BY <2>6, DoneKeeps
    <2>7. CASE ReadChunk BY <2>7, ReadChunkKeeps
    <2>8. CASE LeaveExtent BY <2>8, LeaveExtentKeeps
    <2> QED BY <2>1, <2>2, <2>3, <2>4, <2>5, <2>6, <2>7, <2>8 DEF Next
  <1> QED BY <1>1, ReadStarts, PTL DEF Spec

\* read_file writes a part of what was asked for, from its beginning, and nothing
\* else, at every step of the call.
THEOREM AskedOnly == Spec => []OnlyWhatWasAsked
  <1>1. ReadIInv => OnlyWhatWasAsked
    <2> SUFFICES ASSUME ReadIInv, phase # "check", ~Crosses PROVE PartOfAsked
      BY DEF OnlyWhatWasAsked
    <2>1. Chosen /\ Progress /\ phase \in {"error", "find", "back", "extent", "chunk", "done"}
      BY DEF ReadIInv
    <2>2. out = <<>> \/ Reading \/ PartOfAsked
      BY <2>1 DEF Progress, Searching
    <2> QED BY <2>1, <2>2, NothingIsPart, ReadingIs
  <1> QED BY <1>1, ReadInvariant, PTL

\* A call of read_file that is not refused ends with all it was asked for, if a
\* record lies behind the offset.
THEOREM AskedAll == Spec => []AllThatWasAsked
  <1>1. ReadIInv => AllThatWasAsked BY DEF ReadIInv, Progress, AllThatWasAsked
  <1> QED BY <1>1, ReadInvariant, PTL

=============================================================================
