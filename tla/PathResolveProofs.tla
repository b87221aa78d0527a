-------------------------- MODULE PathResolveProofs --------------------------
(***************************************************************************)
(* What resolve and follow_symlink find is what the path means, in every   *)
(* volume that is a tree, for every path and with every link on the way.   *)
(***************************************************************************)
EXTENDS PathResolve, NaturalsInduction, SequenceTheorems, WellFoundedInduction, TLAPS

-----------------------------------------------------------------------------
(* The walk as a relation *)

Dots == {".", ".."}
Nodes(f) == DOMAIN f.kind

\* A place in the volume and the components that are left.
Place(at, rest) == [at |-> at, rest |-> rest]
Places(f) == [at : Nodes(f), rest : Seq(Names)]

\* Every component but the last of a path has to be a directory, or what the code
\* takes for one.
Passable(f, node, rest) == rest = <<>> \/ DirBits(f.kind[node])

\* One component from place c to place d, with the test of what it leads to if chk.
ByName(f, chk, fl, c, d) ==
    LET here == <<c.at, Head(c.rest)>>
        rest == Tail(c.rest)
        inode == f.entry[here]
    IN  /\ here \in DOMAIN f.entry
        /\ \/ /\ f.kind[inode] = "link" /\ (fl \/ rest # <<>>)
              /\ d = Place(c.at, f.target[inode].comps \o rest)
           \/ /\ ~(f.kind[inode] = "link" /\ (fl \/ rest # <<>>))
              /\ d = Place(inode, rest)
              /\ chk => Passable(f, inode, rest)

Goes(f, chk, fl, c, d) ==
    /\ c.rest # <<>>
    /\ \/ Head(c.rest) = "." /\ d = Place(c.at, Tail(c.rest))
       \/ /\ Head(c.rest) = ".."
          /\ d = Place(IF c.at = Root THEN Root ELSE f.parent[c.at], Tail(c.rest))
       \/ Head(c.rest) \notin Dots /\ ByName(f, chk, fl, c, d)

IsWalk(f, chk, fl, s, n) == \A j \in 0 .. n - 1 : Goes(f, chk, fl, s[j], s[j + 1])

\* The walk from c ends at x.
Leads(f, chk, fl, c, x) ==
    \E n \in Nat : \E s \in [0 .. n -> Places(f)] :
        s[0] = c /\ s[n] = Place(x, <<>>) /\ IsWalk(f, chk, fl, s, n)

-----------------------------------------------------------------------------
(* Numbers and recursive functions *)

HasLeast(S) == \E n \in S : \A m \in S : n <= m

LEMMA NumbersHaveLeast ==
    ASSUME NEW S \in SUBSET Nat, S # {}
    PROVE  HasLeast(S)
  <1> DEFINE R == OpToRel(<, Nat)
  <1>1. IsWellFoundedOn(R, Nat) BY NatLessThanWellFounded
  <1>2. \A x, y \in Nat : y < x => <<y, x>> \in R BY DEF OpToRel
  <1> HIDE DEF R
  <1>3. PICK x \in S : \A y \in S : ~(<<y, x>> \in R) BY <1>1, WFMin, Zenon
  <1>4. ASSUME NEW y \in S PROVE x <= y
    <2>1. ~(<<y, x>> \in R) BY <1>3, Zenon
    <2>2. x \in Nat /\ y \in Nat BY Zenon
    <2> QED BY <1>2, <2>1, <2>2
  <1> QED BY <1>4 DEF HasLeast

\* What holds of lo, and of every number behind one it holds of, holds up to hi.
LEMMA UpTo ==
    ASSUME NEW lo \in Nat, NEW hi \in Nat, NEW G, lo \in G,
           \A n \in lo .. hi - 1 : n \in G => n + 1 \in G
    PROVE  \A n \in lo .. hi : n \in G
  <1> DEFINE Bad == {n \in lo .. hi : n \notin G}
  <1> SUFFICES ASSUME Bad # {} PROVE FALSE OBVIOUS
  <1>1. PICK n \in Bad : \A m \in Bad : n <= m
    <2>1. Bad \in SUBSET Nat OBVIOUS
    <2> QED BY <2>1, NumbersHaveLeast DEF HasLeast
  <1>2. n - 1 \in lo .. hi - 1 /\ ~(n <= n - 1) BY <1>1
  <1>3. n - 1 \in G BY <1>1, <1>2
  <1> QED BY <1>1, <1>2, <1>3

\* A function that is defined from lo on by its value before.
Recurs(f, lo, hi, start, step) ==
    f = [n \in lo .. hi |-> IF n = lo THEN start ELSE step[<<f[n - 1], n>>]]
HasRecursion(lo, hi, S, start, step) ==
    \E f \in [lo .. hi -> S] : Recurs(f, lo, hi, start, step)

LEMMA Recursion ==
    ASSUME NEW lo \in Nat, NEW hi \in Nat, lo <= hi, NEW S, NEW start \in S,
           NEW step \in [S \X (lo .. hi) -> S]
    PROVE  HasRecursion(lo, hi, S, start, step)
  <1> DEFINE G == {n \in lo .. hi : HasRecursion(lo, n, S, start, step)}
  <1>1. lo \in G
    <2> DEFINE f == [n \in lo .. lo |-> start]
    <2>1. f \in [lo .. lo -> S] /\ Recurs(f, lo, lo, start, step) BY DEF Recurs
    <2> QED BY <2>1, SMTT(30) DEF HasRecursion
  <1>2. ASSUME NEW n \in lo .. hi - 1, n \in G PROVE n + 1 \in G
    <2>1. PICK f \in [lo .. n -> S] : Recurs(f, lo, n, start, step)
      BY <1>2 DEF HasRecursion
    <2> DEFINE new == step[<<f[n], n + 1>>]
               g == [m \in lo .. n + 1 |-> IF m = n + 1 THEN new ELSE f[m]]
    <2>2. <<f[n], n + 1>> \in S \X (lo .. hi) OBVIOUS
    <2>3. new \in S BY <2>2
    <2>4. g \in [lo .. n + 1 -> S] BY <2>3
    <2>5. g[n] = f[n] OBVIOUS
    <2>6. ASSUME NEW m \in lo .. n + 1
          PROVE  g[m] = IF m = lo THEN start ELSE step[<<g[m - 1], m>>]
      <3>1. CASE m = n + 1 BY <2>5, <3>1
      <3>2. CASE m # n + 1
        <4>1. m \in lo .. n /\ g[m] = f[m] /\ (m # lo => g[m - 1] = f[m - 1]) BY <3>2
        <4>2. f[m] = IF m = lo THEN start ELSE step[<<f[m - 1], m>>]
          BY <2>1, <4>1 DEF Recurs
        <4> HIDE DEF g
        <4> QED BY <4>1, <4>2
      <3> QED BY <3>1, <3>2
    <2> HIDE DEF g
    <2>7. Recurs(g, lo, n + 1, start, step)
      <3>1. g = [m \in lo .. n + 1 |-> g[m]] BY <2>4
      <3> QED BY <2>6, <3>1 DEF Recurs
    <2>8. HasRecursion(lo, n + 1, S, start, step) BY <2>4, <2>7 DEF HasRecursion
    <2> QED BY <2>8
  <1> HIDE DEF G
  <1>3. \A n \in lo .. hi : n \in G BY <1>1, <1>2, UpTo
  <1>4. hi \in G BY <1>3
  <1> QED BY <1>4 DEF G

-----------------------------------------------------------------------------
(* Sequences of components *)

LEMMA Parts ==
    ASSUME NEW S, NEW q \in S, NEW Q \in Seq(S)
    PROVE  /\ <<q>> \o Q \in Seq(S) /\ <<q>> \o Q # <<>>
           /\ Head(<<q>> \o Q) = q /\ Tail(<<q>> \o Q) = Q
  <1> DEFINE s == <<q>> \o Q
  <1>1. s \in Seq(S) /\ Len(s) = Len(Q) + 1 /\ s[1] = q /\ \A k \in 1 .. Len(Q) : s[k + 1] = Q[k]
    OBVIOUS
  <1> HIDE DEF s
  <1>2. s # <<>> /\ Head(s) = q BY <1>1
  <1>3. Tail(s) \in Seq(S) /\ Len(Tail(s)) = Len(Q) /\ \A k \in 1 .. Len(Q) : Tail(s)[k] = s[k + 1]
    BY <1>1, <1>2
  <1>4. \A k \in 1 .. Len(Q) : Tail(s)[k] = Q[k] BY <1>1, <1>3
  <1>5. Tail(s) = Q
    <2> DEFINE t == Tail(s)
    <2>1. t \in Seq(S) /\ Len(t) = Len(Q) /\ \A k \in 1 .. Len(Q) : t[k] = Q[k] BY <1>3, <1>4
    <2> HIDE DEF t
    <2>2. t = Q BY <2>1, SeqEqual
    <2> QED BY <2>2 DEF t
  <1> QED BY <1>1, <1>2, <1>5 DEF s

LEMMA HeadFirst ==
    ASSUME NEW S, NEW s \in Seq(S), s # <<>>
    PROVE  /\ Head(s) \in S /\ Tail(s) \in Seq(S) /\ s = <<Head(s)>> \o Tail(s)
           /\ Head(s) = s[1] /\ Len(s) \in Nat \ {0} /\ Len(Tail(s)) = Len(s) - 1
           /\ \A k \in 1 .. Len(s) - 1 : Tail(s)[k] = s[k + 1]
  <1>1. /\ Head(s) \in S /\ Tail(s) \in Seq(S)
        /\ Head(s) = s[1] /\ Len(s) \in Nat \ {0} /\ Len(Tail(s)) = Len(s) - 1
        /\ \A k \in 1 .. Len(s) - 1 : Tail(s)[k] = s[k + 1]
    OBVIOUS
  <1> DEFINE t == Tail(s)
             h == Head(s)
             u == <<h>> \o t
  <1>2. u \in Seq(S) /\ Len(u) = Len(s) /\ u[1] = s[1] /\ \A k \in 1 .. Len(s) - 1 : u[k + 1] = s[k + 1]
    <2> HIDE DEF t, h
    <2>1. h \in S /\ t \in Seq(S) /\ Len(t) = Len(s) - 1 /\ h = s[1] /\ Len(s) \in Nat \ {0}
          /\ \A k \in 1 .. Len(s) - 1 : t[k] = s[k + 1]
      BY <1>1 DEF t, h
    <2> QED BY <2>1
  <1> HIDE DEF u
  <1>3. \A k \in 1 .. Len(s) : u[k] = s[k]
    <2> SUFFICES ASSUME NEW k \in 1 .. Len(s) PROVE u[k] = s[k] OBVIOUS
    <2>1. CASE k = 1 BY <1>2, <2>1
    <2>2. CASE k # 1
      <3>1. k - 1 \in 1 .. Len(s) - 1 /\ (k - 1) + 1 = k BY <1>1, <2>2
      <3> QED BY <1>2, <3>1
    <2> QED BY <2>1, <2>2
  <1>4. u = s BY <1>2, <1>3, SeqEqual
  <1> QED BY <1>1, <1>4 DEF u

LEMMA Joined ==
    ASSUME NEW S, NEW p \in Seq(S), NEW q \in Seq(S), NEW r \in Seq(S)
    PROVE  /\ (p \o q) \o r = p \o (q \o r) /\ p \o q \in Seq(S)
           /\ <<>> \o p = p /\ p \o <<>> = p
           /\ (p \o q = <<>> <=> p = <<>> /\ q = <<>>)
  <1>1. (p \o q) \o r = p \o (q \o r) BY ConcatAssociative
  <1>2. p \o q \in Seq(S) OBVIOUS
  <1>3. <<>> \o p = p /\ p \o <<>> = p BY ConcatEmptySeq
  <1>4. p \o q = <<>> <=> p = <<>> /\ q = <<>>
    <2>1. Len(p \o q) = Len(p) + Len(q) /\ Len(p) \in Nat /\ Len(q) \in Nat OBVIOUS
    <2>2. \A s \in Seq(S) : s = <<>> <=> Len(s) = 0 BY EmptySeq
    <2> QED BY <1>2, <2>1, <2>2
  <1> QED BY <1>1, <1>2, <1>3, <1>4

LEMMA Single ==
    ASSUME NEW S, NEW q \in S
    PROVE  <<q>> \in Seq(S) /\ Len(<<q>>) = 1 /\ <<q>>[1] = q
  OBVIOUS

-----------------------------------------------------------------------------
(* The volume *)

LEMMA VolumeIs ==
    ASSUME NEW f \in FileSystems
    PROVE  /\ Root \in Nodes(f) /\ f.kind[Root] = "dir"
           /\ \A node \in Nodes(f) \ {Root} :
                 f.parent[node] \in Nodes(f) /\ f.kind[f.parent[node]] = "dir"
           /\ \A node \in Nodes(f) : f.kind[node] = "link" => f.target[node].comps \in Seq(Names)
           /\ \A node \in Nodes(f) : f.kind[node] = "link" => f.target[node] \in Path
  BY PathAssumption DEF WellFormed, Nodes, Path

LEMMA EntryIs ==
    ASSUME NEW f \in FileSystems, NEW at, NEW name, <<at, name>> \in DOMAIN f.entry
    PROVE  /\ at \in Nodes(f) /\ f.kind[at] = "dir" /\ name \in Names /\ name \notin Dots
           /\ f.entry[<<at, name>>] \in Nodes(f) \ {Root}
           /\ f.parent[f.entry[<<at, name>>]] = at
  <1> DEFINE here == <<at, name>>
  <1>1. WellFormed(f) BY PathAssumption
  <1>2. here \in Nodes(f) \X (Names \ {".", ".."}) BY <1>1 DEF WellFormed, Nodes
  <1>3. /\ f.kind[here[1]] = "dir" /\ f.entry[here] \in Nodes(f) \ {Root}
        /\ f.parent[f.entry[here]] = here[1]
    BY <1>1 DEF WellFormed, Nodes
  <1> QED BY <1>2, <1>3 DEF Dots

-----------------------------------------------------------------------------
(* One component *)

LEMMA PlaceIs ==
    ASSUME NEW f, NEW at \in Nodes(f), NEW rest \in Seq(Names)
    PROVE  Place(at, rest) \in Places(f) /\ Place(at, rest).at = at /\ Place(at, rest).rest = rest
  BY DEF Place, Places

LEMMA PlaceParts ==
    ASSUME NEW f, NEW c \in Places(f)
    PROVE  c.at \in Nodes(f) /\ c.rest \in Seq(Names) /\ c = Place(c.at, c.rest)
  BY DEF Place, Places

LEMMA GoesUnique ==
    ASSUME NEW f, NEW chk, NEW fl, NEW c, NEW d, NEW e, Goes(f, chk, fl, c, d), Goes(f, chk, fl, c, e)
    PROVE  d = e
  BY DEF Goes, ByName, Dots

\* What passes the test goes without it.
LEMMA GoesUntested ==
    ASSUME NEW f, NEW chk, NEW fl, NEW c, NEW d, Goes(f, chk, fl, c, d)
    PROVE  Goes(f, FALSE, fl, c, d)
  BY DEF Goes, ByName

LEMMA GoesToPlace ==
    ASSUME NEW f \in FileSystems, NEW chk, NEW fl, NEW c \in Places(f), NEW d, Goes(f, chk, fl, c, d)
    PROVE  d \in Places(f)
  <1>1. c.at \in Nodes(f) /\ c.rest \in Seq(Names) /\ c.rest # <<>> BY PlaceParts DEF Goes
  <1>2. Tail(c.rest) \in Seq(Names) BY <1>1, HeadFirst
  <1>3. CASE Head(c.rest) = "." /\ d = Place(c.at, Tail(c.rest)) BY <1>1, <1>2, <1>3, PlaceIs
  <1>4. CASE d = Place(IF c.at = Root THEN Root ELSE f.parent[c.at], Tail(c.rest))
    <2>1. (IF c.at = Root THEN Root ELSE f.parent[c.at]) \in Nodes(f) BY <1>1, VolumeIs
    <2> QED BY <1>2, <1>4, <2>1, PlaceIs
  <1>5. CASE ByName(f, chk, fl, c, d)
    <2> DEFINE name == Head(c.rest)
               rest == Tail(c.rest)
               inode == f.entry[<<c.at, name>>]
    <2>1. <<c.at, name>> \in DOMAIN f.entry BY <1>5 DEF ByName
    <2>2. inode \in Nodes(f) BY <2>1, EntryIs
    <2>3. f.kind[inode] = "link" => f.target[inode].comps \o rest \in Seq(Names)
      <3>1. f.kind[inode] = "link" => f.target[inode].comps \in Seq(Names) BY <2>2, VolumeIs
      <3> QED BY <1>2, <3>1, Joined
    <2>4. \/ f.kind[inode] = "link" /\ d = Place(c.at, f.target[inode].comps \o rest)
          \/ d = Place(inode, rest)
      BY <1>5 DEF ByName
    <2> HIDE DEF inode, rest
    <2>5. rest \in Seq(Names) BY <1>2 DEF rest
    <2>6. CASE f.kind[inode] = "link" /\ d = Place(c.at, f.target[inode].comps \o rest)
      BY <1>1, <2>3, <2>6, PlaceIs
    <2>7. CASE d = Place(inode, rest) BY <2>2, <2>5, <2>7, PlaceIs
    <2> QED BY <2>4, <2>6, <2>7
  <1> QED BY <1>3, <1>4, <1>5 DEF Goes

LEMMA LeadsBack ==
    ASSUME NEW f \in FileSystems, NEW chk, NEW fl, NEW c \in Places(f), NEW d, NEW x,
           Goes(f, chk, fl, c, d), Leads(f, chk, fl, d, x)
    PROVE  Leads(f, chk, fl, c, x)
  <1>1. PICK n \in Nat : \E s \in [0 .. n -> Places(f)] :
            s[0] = d /\ s[n] = Place(x, <<>>) /\ IsWalk(f, chk, fl, s, n)
    BY DEF Leads
  <1>2. PICK s \in [0 .. n -> Places(f)] :
            s[0] = d /\ s[n] = Place(x, <<>>) /\ IsWalk(f, chk, fl, s, n)
    BY <1>1
  <1> DEFINE t == [j \in 0 .. n + 1 |-> IF j = 0 THEN c ELSE s[j - 1]]
  <1>3. t \in [0 .. n + 1 -> Places(f)] OBVIOUS
  <1>4. t[0] = c /\ t[n + 1] = Place(x, <<>>) BY <1>2
  <1>5. IsWalk(f, chk, fl, t, n + 1)
    <2> SUFFICES ASSUME NEW j \in 0 .. n PROVE Goes(f, chk, fl, t[j], t[j + 1])
      BY DEF IsWalk
    <2>1. t[j + 1] = s[j] OBVIOUS
    <2>2. CASE j = 0
      <3>1. t[j] = c /\ s[j] = d BY <1>2, <2>2
      <3> HIDE DEF t
      <3> QED BY <2>1, <3>1
    <2>3. CASE j # 0
      <3>1. t[j] = s[j - 1] /\ j - 1 \in 0 .. n - 1 /\ (j - 1) + 1 = j BY <2>3
      <3>2. Goes(f, chk, fl, s[j - 1], s[j])
        <4>1. Goes(f, chk, fl, s[j - 1], s[(j - 1) + 1]) BY <1>2, <3>1 DEF IsWalk
        <4> QED BY <3>1, <4>1
      <3> HIDE DEF t
      <3> QED BY <2>1, <3>1, <3>2
    <2> QED BY <2>2, <2>3
  <1> HIDE DEF t
  <1>6. n + 1 \in Nat OBVIOUS
  <1> QED BY <1>3, <1>4, <1>5, <1>6 DEF Leads

LEMMA LeadsOn ==
    ASSUME NEW f \in FileSystems, NEW chk, NEW fl, NEW c \in Places(f), NEW x,
           c.rest # <<>>, Leads(f, chk, fl, c, x)
    PROVE  \E d \in Places(f) : Goes(f, chk, fl, c, d) /\ Leads(f, chk, fl, d, x)
  <1>1. PICK n \in Nat : \E s \in [0 .. n -> Places(f)] :
            s[0] = c /\ s[n] = Place(x, <<>>) /\ IsWalk(f, chk, fl, s, n)
    BY DEF Leads
  <1>2. PICK s \in [0 .. n -> Places(f)] :
            s[0] = c /\ s[n] = Place(x, <<>>) /\ IsWalk(f, chk, fl, s, n)
    BY <1>1
  <1>3. n # 0
    <2>1. Place(x, <<>>).rest = <<>> BY DEF Place
    <2> QED BY <1>2, <2>1
  <1> DEFINE t == [j \in 0 .. n - 1 |-> s[j + 1]]
  <1>4. t \in [0 .. n - 1 -> Places(f)] /\ t[0] = s[1] /\ t[n - 1] = s[n] BY <1>3
  <1>5. IsWalk(f, chk, fl, t, n - 1)
    <2> SUFFICES ASSUME NEW j \in 0 .. (n - 1) - 1 PROVE Goes(f, chk, fl, t[j], t[j + 1])
      BY DEF IsWalk
    <2>1. t[j] = s[j + 1] /\ t[j + 1] = s[(j + 1) + 1] /\ j + 1 \in 0 .. n - 1 OBVIOUS
    <2>2. Goes(f, chk, fl, s[j + 1], s[(j + 1) + 1]) BY <1>2, <2>1 DEF IsWalk
    <2> HIDE DEF t
    <2> QED BY <2>1, <2>2
  <1>6. Goes(f, chk, fl, s[0], s[1])
    <2>1. 0 \in 0 .. n - 1 /\ 0 + 1 = 1 BY <1>3
    <2> QED BY <1>2, <2>1 DEF IsWalk
  <1>7. s[1] \in Places(f) /\ n - 1 \in Nat BY <1>3
  <1> HIDE DEF t
  <1>8. Leads(f, chk, fl, s[1], x) BY <1>2, <1>4, <1>5, <1>7 DEF Leads
  <1> QED BY <1>2, <1>6, <1>7, <1>8

LEMMA LeadsAfter ==
    ASSUME NEW f \in FileSystems, NEW chk, NEW fl, NEW c \in Places(f), NEW d, NEW x,
           Goes(f, chk, fl, c, d), Leads(f, chk, fl, c, x)
    PROVE  Leads(f, chk, fl, d, x)
  <1>1. c.rest # <<>> BY DEF Goes
  <1> QED BY <1>1, LeadsOn, GoesUnique

LEMMA LeadsAtEnd ==
    ASSUME NEW f, NEW chk, NEW fl, NEW x \in Nodes(f), NEW y
    PROVE  Leads(f, chk, fl, Place(x, <<>>), y) <=> x = y
  <1>1. Leads(f, chk, fl, Place(x, <<>>), x)
    <2> DEFINE s == [j \in 0 .. 0 |-> Place(x, <<>>)]
    <2>1. Place(x, <<>>) \in Places(f)
      <3>1. <<>> \in Seq(Names) OBVIOUS
      <3> QED BY <3>1, PlaceIs
    <2>2. s \in [0 .. 0 -> Places(f)] /\ s[0] = Place(x, <<>>) BY <2>1
    <2>3. IsWalk(f, chk, fl, s, 0) BY DEF IsWalk
    <2> HIDE DEF s
    <2>4. 0 \in Nat OBVIOUS
    <2> QED BY <2>2, <2>3, <2>4 DEF Leads
  <1>2. ASSUME Leads(f, chk, fl, Place(x, <<>>), y) PROVE x = y
    <2>1. PICK n \in Nat : \E s \in [0 .. n -> Places(f)] :
            s[0] = Place(x, <<>>) /\ s[n] = Place(y, <<>>) /\ IsWalk(f, chk, fl, s, n)
      BY <1>2 DEF Leads
    <2>2. PICK s \in [0 .. n -> Places(f)] :
            s[0] = Place(x, <<>>) /\ s[n] = Place(y, <<>>) /\ IsWalk(f, chk, fl, s, n)
      BY <2>1
    <2>3. n = 0
      <3> SUFFICES ASSUME n # 0 PROVE FALSE OBVIOUS
      <3>1. 0 \in 0 .. n - 1 OBVIOUS
      <3>2. s[0].rest # <<>> BY <2>2, <3>1 DEF IsWalk, Goes
      <3> QED BY <2>2, <3>2 DEF Place
    <2>4. Place(x, <<>>) = Place(y, <<>>) BY <2>2, <2>3
    <2> QED BY <2>4 DEF Place
  <1> QED BY <1>1, <1>2

-----------------------------------------------------------------------------
(* What resolve makes of a path before it walks it *)

LinkNamesOf(f) ==
    {here[2] : here \in {e \in DOMAIN f.entry : f.kind[f.entry[e]] = "link"}}
NoLinkIn(f, P) == \A k \in 1 .. Len(P) : P[k] \notin LinkNamesOf(f)

\* Where S leads from every place, T leads too.
Serves(f, chk, fl, S, T, x) ==
    \A a \in Nodes(f) : Leads(f, chk, fl, Place(a, S), x) => Leads(f, chk, fl, Place(a, T), x)

LEMMA NoLinkEntry ==
    ASSUME NEW f \in FileSystems, NEW a, NEW name, name \notin LinkNamesOf(f),
           <<a, name>> \in DOMAIN f.entry
    PROVE  f.kind[f.entry[<<a, name>>]] # "link"
  <1> DEFINE here == <<a, name>>
  <1>1. here[2] = name OBVIOUS
  <1>2. SUFFICES ASSUME f.kind[f.entry[here]] = "link" PROVE FALSE OBVIOUS
  <1>3. here \in {e \in DOMAIN f.entry : f.kind[f.entry[e]] = "link"} BY <1>2
  <1> HIDE DEF here
  <1>4. here[2] \in LinkNamesOf(f) BY <1>3 DEF LinkNamesOf
  <1> QED BY <1>1, <1>4

LEMMA ServesBehindOne ==
    ASSUME NEW f \in FileSystems, NEW chk, NEW fl, NEW S \in Seq(Names), NEW T \in Seq(Names), NEW x,
           chk => S # <<>>, NEW q \in Names, q \notin LinkNamesOf(f), Serves(f, chk, fl, S, T, x)
    PROVE  Serves(f, chk, fl, <<q>> \o S, <<q>> \o T, x)
  <1> DEFINE u == <<q>> \o S
             v == <<q>> \o T
  <1>1. /\ u \in Seq(Names) /\ u # <<>> /\ Head(u) = q /\ Tail(u) = S
        /\ v \in Seq(Names) /\ v # <<>> /\ Head(v) = q /\ Tail(v) = T
    BY Parts
  <1> HIDE DEF u, v
  <1> SUFFICES ASSUME NEW a \in Nodes(f), Leads(f, chk, fl, Place(a, u), x)
               PROVE  Leads(f, chk, fl, Place(a, v), x)
    BY DEF Serves, u, v
  <1>2. /\ Place(a, u) \in Places(f) /\ Place(a, u).at = a /\ Place(a, u).rest = u
        /\ Place(a, v) \in Places(f) /\ Place(a, v).at = a /\ Place(a, v).rest = v
    BY <1>1, PlaceIs
  <1>3. PICK d \in Places(f) : Goes(f, chk, fl, Place(a, u), d) /\ Leads(f, chk, fl, d, x)
    BY <1>1, <1>2, LeadsOn
  <1>4. \E b \in Nodes(f) : d = Place(b, S) /\ Goes(f, chk, fl, Place(a, v), Place(b, T))
    <2>1. CASE q = "."
      <3>1. d = Place(a, S) BY <1>1, <1>2, <1>3, <2>1 DEF Goes, Dots
      <3>2. Goes(f, chk, fl, Place(a, v), Place(a, T)) BY <1>1, <1>2, <2>1 DEF Goes
      <3> QED BY <3>1, <3>2
    <2>2. CASE q = ".."
      <3> DEFINE b == IF a = Root THEN Root ELSE f.parent[a]
      <3>1. d = Place(b, S) BY <1>1, <1>2, <1>3, <2>2 DEF Goes, Dots
      <3>2. Goes(f, chk, fl, Place(a, v), Place(b, T)) BY <1>1, <1>2, <2>2 DEF Goes
      <3>3. b \in Nodes(f) BY VolumeIs
      <3> QED BY <3>1, <3>2, <3>3
    <2>3. CASE q \notin Dots
      <3> DEFINE b == f.entry[<<a, q>>]
      <3>1. ByName(f, chk, fl, Place(a, u), d) BY <1>1, <1>2, <1>3, <2>3 DEF Goes, Dots
      <3>2. <<a, q>> \in DOMAIN f.entry BY <1>1, <1>2, <3>1 DEF ByName
      <3>3. b \in Nodes(f) /\ f.kind[b] # "link" BY <3>2, EntryIs, NoLinkEntry
      <3>4. d = Place(b, S) /\ (chk => Passable(f, b, S)) BY <1>1, <1>2, <3>1, <3>3 DEF ByName
      <3>5. chk => Passable(f, b, T) BY <3>4 DEF Passable
      <3>6. ByName(f, chk, fl, Place(a, v), Place(b, T)) BY <1>1, <1>2, <3>2, <3>3, <3>5 DEF ByName
      <3>7. Goes(f, chk, fl, Place(a, v), Place(b, T)) BY <1>1, <1>2, <2>3, <3>6 DEF Goes
      <3> QED BY <3>3, <3>4, <3>7
    <2> QED BY <2>1, <2>2, <2>3 DEF Dots
  <1>5. PICK b \in Nodes(f) : d = Place(b, S) /\ Goes(f, chk, fl, Place(a, v), Place(b, T)) BY <1>4
  <1>6. Leads(f, chk, fl, Place(b, T), x) BY <1>3, <1>5 DEF Serves
  <1> QED BY <1>2, <1>5, <1>6, LeadsBack

LEMMA OneInFront ==
    ASSUME NEW h \in Names, NEW t \in Seq(Names), NEW S \in Seq(Names)
    PROVE  (<<h>> \o t) \o S = <<h>> \o (t \o S)
  <1>1. <<h>> \in Seq(Names) BY Single
  <1> QED BY <1>1, ConcatAssociative

LEMMA ServesBehind ==
    ASSUME NEW f \in FileSystems, NEW chk, NEW fl, NEW S \in Seq(Names), NEW T \in Seq(Names), NEW x,
           chk => S # <<>>, Serves(f, chk, fl, S, T, x), NEW P \in Seq(Names), NoLinkIn(f, P)
    PROVE  Serves(f, chk, fl, P \o S, P \o T, x)
  <1> DEFINE Good(p) == NoLinkIn(f, p) => Serves(f, chk, fl, p \o S, p \o T, x)
             G == {n \in Nat : \A p \in Seq(Names) : Len(p) = n => Good(p)}
             N == Len(P)
  <1>1. 0 \in G
    <2> SUFFICES ASSUME NEW p \in Seq(Names), Len(p) = 0 PROVE Good(p) OBVIOUS
    <2>1. p = <<>> BY EmptySeq
    <2>2. p \o S = S /\ p \o T = T BY <2>1, Joined
    <2> QED BY <2>2
  <1>2. ASSUME NEW n \in 0 .. N - 1, n \in G PROVE n + 1 \in G
    <2>1. n \in Nat /\ n + 1 \in Nat OBVIOUS
    <2>2. ASSUME NEW p \in Seq(Names), Len(p) = n + 1 PROVE Good(p)
      <3> SUFFICES ASSUME NoLinkIn(f, p) PROVE Serves(f, chk, fl, p \o S, p \o T, x) OBVIOUS
      <3>1. p # <<>> BY <2>1, <2>2, EmptySeq
      <3> DEFINE h == Head(p)
                 t == Tail(p)
      <3>2. /\ h \in Names /\ t \in Seq(Names) /\ p = <<h>> \o t /\ h = p[1] /\ Len(t) = n
            /\ \A k \in 1 .. n : t[k] = p[k + 1]
        BY <2>1, <2>2, <3>1, HeadFirst
      <3> HIDE DEF h, t
      <3>3. h \notin LinkNamesOf(f)
        <4>1. 1 \in 1 .. Len(p) BY <2>1, <2>2
        <4> QED BY <3>2, <4>1 DEF NoLinkIn
      <3>4. NoLinkIn(f, t)
        <4> SUFFICES ASSUME NEW k \in 1 .. Len(t) PROVE t[k] \notin LinkNamesOf(f) BY DEF NoLinkIn
        <4>1. k \in 1 .. n /\ k + 1 \in 1 .. Len(p) BY <2>1, <2>2, <3>2
        <4>2. p[k + 1] \notin LinkNamesOf(f) BY <4>1 DEF NoLinkIn
        <4> QED BY <3>2, <4>1, <4>2
      <3>5. Serves(f, chk, fl, t \o S, t \o T, x) BY <1>2, <3>2, <3>4
      <3>6. t \o S \in Seq(Names) /\ t \o T \in Seq(Names) /\ (S # <<>> => t \o S # <<>>)
        BY <3>2, Joined
      <3>7. Serves(f, chk, fl, <<h>> \o (t \o S), <<h>> \o (t \o T), x)
        BY <3>2, <3>3, <3>5, <3>6, ServesBehindOne
      <3>8. p \o S = <<h>> \o (t \o S) /\ p \o T = <<h>> \o (t \o T)
        BY <3>2, OneInFront, Zenon
      <3> QED BY <3>7, <3>8
    <2> HIDE DEF Good
    <2> QED BY <2>1, <2>2
  <1>3. 0 \in Nat /\ N \in Nat OBVIOUS
  <1> HIDE DEF G
  <1>4. \A n \in 0 .. N : n \in G BY <1>1, <1>2, <1>3, UpTo
  <1>5. N \in G BY <1>3, <1>4
  <1> QED BY <1>5 DEF G

LEMMA PushIs ==
    ASSUME NEW dirs \in Seq(Names), NEW dir \in Names
    PROVE  /\ Push(dirs, dir) \in Seq(Names)
           /\ dir = "." => Push(dirs, dir) = dirs
           /\ (dir = ".." /\ dirs # <<>> /\ Last(dirs) # "..") =>
                 Last(dirs) \in Names /\ dirs = Push(dirs, dir) \o <<Last(dirs)>>
           /\ (dir # "." /\ ~(dir = ".." /\ dirs # <<>> /\ Last(dirs) # "..")) =>
                 Push(dirs, dir) = dirs \o <<dir>>
  <1>1. CASE dir = ".." /\ dirs # <<>> /\ Last(dirs) # ".."
    <2> DEFINE n == Len(dirs)
               front == Front(dirs)
               last == Last(dirs)
    <2>1. n \in Nat \ {0} /\ 1 \in 1 .. n /\ n \in 1 .. n /\ n - 1 \in Int BY <1>1, EmptySeq
    <2>2. last = dirs[n] /\ last \in Names
      <3>1. dirs[n] \in Names BY <2>1, ElementOfSeq
      <3> QED BY <3>1 DEF Last
    <2>3. front \in Seq(Names)
      <3>1. \A k \in 1 .. n - 1 : dirs[k] \in Names BY <2>1, ElementOfSeq
      <3>2. 1 \in Int /\ n - 1 \in Int BY <2>1
      <3>3. SubSeq(dirs, 1, n - 1) \in Seq(Names) BY <3>1, <3>2, SubSeqProperties
      <3> QED BY <3>3 DEF Front
    <2>4. dirs = front \o <<last>>
      <3>1. dirs = SubSeq(dirs, 1, n) BY SubSeqFull
      <3>2. SubSeq(dirs, 1, n) = SubSeq(dirs, 1, n - 1) \o <<dirs[n]>>
        BY <2>1, SubSeqRecursiveSecond
      <3> QED BY <3>1, <3>2 DEF Front, Last
    <2>5. Push(dirs, dir) = front BY <1>1 DEF Push
    <2> QED BY <1>1, <2>2, <2>3, <2>4, <2>5
  <1>2. CASE ~(dir = ".." /\ dirs # <<>> /\ Last(dirs) # "..") /\ dir = "."
    BY <1>2 DEF Push
  <1>3. CASE ~(dir = ".." /\ dirs # <<>> /\ Last(dirs) # "..") /\ dir # "."
    <2>1. Push(dirs, dir) = Append(dirs, dir) BY <1>3 DEF Push
    <2>2. Append(dirs, dir) = dirs \o <<dir>> BY AppendIsConcat
    <2>3. Append(dirs, dir) \in Seq(Names) BY AppendProperties
    <2> QED BY <1>3, <2>1, <2>2, <2>3
  <1> QED BY <1>1, <1>2, <1>3

LEMMA PushedRecur ==
    ASSUME NEW comps \in Seq(Names)
    PROVE  /\ \A k \in 0 .. Len(comps) : Pushed(comps)[k] \in Seq(Names)
           /\ Pushed(comps)[0] = <<>>
           /\ \A k \in 1 .. Len(comps) : Pushed(comps)[k] = Push(Pushed(comps)[k - 1], comps[k])
  <1> DEFINE L == Len(comps)
             S == Seq(Names)
             step == [p \in S \X (0 .. L) |-> IF p[2] \in 1 .. L THEN Push(p[1], comps[p[2]]) ELSE <<>>]
             pushed == Pushed(comps)
  <1>1. L \in Nat /\ \A k \in 1 .. L : comps[k] \in Names OBVIOUS
  <1>2. <<>> \in S OBVIOUS
  <1>3. step \in [S \X (0 .. L) -> S]
    <2>1. ASSUME NEW p \in S \X (0 .. L), p[2] \in 1 .. L PROVE Push(p[1], comps[p[2]]) \in S
      <3>1. p[1] \in S /\ comps[p[2]] \in Names BY <1>1, <2>1
      <3> QED BY <3>1, PushIs
    <2> HIDE DEF S
    <2> QED BY <1>2, <2>1
  <1> HIDE DEF S
  <1>4. PICK f \in [0 .. L -> S] : Recurs(f, 0, L, <<>>, step)
    <2> HIDE DEF step
    <2>1. 0 \in Nat /\ 0 <= L BY <1>1
    <2>2. HasRecursion(0, L, S, <<>>, step) BY <1>1, <1>2, <1>3, <2>1, Recursion
    <2> QED BY <2>2 DEF HasRecursion
  <1>5. \A k \in 0 .. L : f[k] = IF k = 0 THEN <<>> ELSE Push(f[k - 1], comps[k])
    <2> SUFFICES ASSUME NEW k \in 0 .. L
                 PROVE  f[k] = IF k = 0 THEN <<>> ELSE Push(f[k - 1], comps[k])
      OBVIOUS
    <2>1. CASE k = 0
      <3> HIDE DEF step
      <3> QED BY <1>4, <2>1 DEF Recurs
    <2>2. CASE k # 0
      <3>1. f[k - 1] \in S /\ k \in 1 .. L BY <1>1, <1>4, <2>2, SMTT(30)
      <3>2. step[<<f[k - 1], k>>] = Push(f[k - 1], comps[k])
        <4>1. <<f[k - 1], k>> \in S \X (0 .. L) BY <3>1
        <4> QED BY <3>1, <4>1
      <3>3. f[k] = step[<<f[k - 1], k>>]
        <4> HIDE DEF step
        <4> QED BY <1>4, <2>2 DEF Recurs
      <3> QED BY <2>2, <3>2, <3>3
    <2> QED BY <2>1, <2>2
  <1>6. pushed = [k \in 0 .. L |-> IF k = 0 THEN <<>> ELSE Push(pushed[k - 1], comps[k])]
    <2>1. f = [k \in 0 .. L |-> IF k = 0 THEN <<>> ELSE Push(f[k - 1], comps[k])]
      BY <1>4, <1>5
    <2> QED BY <2>1 DEF Pushed
  <1> HIDE DEF pushed, step
  <1>7. \A k \in 0 .. L : pushed[k] = IF k = 0 THEN <<>> ELSE Push(pushed[k - 1], comps[k])
    BY <1>6
  <1>8. 0 \in 0 .. L /\ pushed[0] = <<>> BY <1>1, <1>7
  <1>9. \A k \in 1 .. L : k \in 0 .. L /\ pushed[k] = Push(pushed[k - 1], comps[k])
    <2> SUFFICES ASSUME NEW k \in 1 .. L PROVE k \in 0 .. L /\ pushed[k] = Push(pushed[k - 1], comps[k])
      OBVIOUS
    <2>1. k \in 0 .. L /\ k # 0 BY <1>1
    <2> QED BY <1>7, <2>1
  <1> DEFINE G == {k \in 0 .. L : pushed[k] \in S}
  <1>10. 0 \in G BY <1>2, <1>8
  <1>11. ASSUME NEW k \in 0 .. L - 1, k \in G PROVE k + 1 \in G
    <2>1. k + 1 \in 1 .. L /\ k + 1 \in 0 .. L /\ (k + 1) - 1 = k BY <1>1
    <2>2. pushed[k + 1] = Push(pushed[k], comps[k + 1]) BY <1>9, <2>1
    <2>3. pushed[k] \in S /\ comps[k + 1] \in Names BY <1>1, <1>11, <2>1
    <2>4. Push(pushed[k], comps[k + 1]) \in S BY <2>3, PushIs DEF S
    <2> QED BY <2>1, <2>2, <2>4
  <1> HIDE DEF G
  <1>12. 0 \in Nat OBVIOUS
  <1>13. \A k \in 0 .. L : k \in G BY <1>1, <1>10, <1>11, <1>12, UpTo
  <1> QED BY <1>8, <1>9, <1>13 DEF G, S, pushed

\* What is left behind the first k components.
Behind(comps, k) == SubSeq(comps, k + 1, Len(comps))

LEMMA BehindIs ==
    ASSUME NEW S, NEW comps \in Seq(S)
    PROVE  /\ \A k \in 0 .. Len(comps) : Behind(comps, k) \in Seq(S)
           /\ \A k \in 0 .. Len(comps) : Behind(comps, k) = <<>> <=> k = Len(comps)
           /\ \A k \in 1 .. Len(comps) : /\ comps[k] \in S
                                         /\ Behind(comps, k - 1) = <<comps[k]>> \o Behind(comps, k)
           /\ Behind(comps, 0) = comps
  <1> DEFINE L == Len(comps)
  <1>1. L \in Nat OBVIOUS
  <1>2. \A k \in 1 .. L : comps[k] \in S BY ElementOfSeq
  <1>3. ASSUME NEW k \in 0 .. L
        PROVE  Behind(comps, k) \in Seq(S) /\ (Behind(comps, k) = <<>> <=> k = L)
    <2>1. k + 1 \in Int /\ L \in Int /\ \A j \in k + 1 .. L : comps[j] \in S BY <1>1, <1>2
    <2>2. /\ Behind(comps, k) \in Seq(S)
          /\ Len(Behind(comps, k)) = IF k + 1 <= L THEN L - (k + 1) + 1 ELSE 0
      BY <2>1, SubSeqProperties DEF Behind
    <2>3. Len(Behind(comps, k)) = 0 <=> k = L BY <1>1, <2>2
    <2>4. Behind(comps, k) = <<>> <=> Len(Behind(comps, k)) = 0 BY <2>2, EmptySeq
    <2> QED BY <2>2, <2>3, <2>4
  <1>4. ASSUME NEW k \in 1 .. L
        PROVE  Behind(comps, k - 1) = <<comps[k]>> \o Behind(comps, k)
    <2>1. k \in 1 .. Len(comps) /\ Len(comps) \in k .. Len(comps) /\ (k - 1) + 1 = k BY <1>1
    <2>2. SubSeq(comps, k, Len(comps)) = <<comps[k]>> \o SubSeq(comps, k + 1, Len(comps))
      BY <2>1, SubSeqRecursiveFirst
    <2> QED BY <2>1, <2>2 DEF Behind
  <1>5. Behind(comps, 0) = comps
    <2>1. 0 + 1 = 1 OBVIOUS
    <2> QED BY <2>1, SubSeqFull DEF Behind
  <1> QED BY <1>2, <1>3, <1>4, <1>5

\* One more component in front of Q, and what it becomes.
LEMMA PushServes ==
    ASSUME NEW f \in FileSystems, NEW chk, NEW fl, NEW x,
           NEW dirs \in Seq(Names), NEW dir \in Names, NEW Q \in Seq(Names),
           dir \in Dots => NoLinkIn(f, dirs), \A k \in 1 .. Len(dirs) : dirs[k] # "."
    PROVE  Serves(f, chk, fl, dirs \o (<<dir>> \o Q), Push(dirs, dir) \o Q, x)
  <1> DEFINE new == Push(dirs, dir)
             last == Last(dirs)
             pops == dir = ".." /\ dirs # <<>> /\ last # ".."
  <1>1. /\ new \in Seq(Names)
        /\ dir = "." => new = dirs
        /\ pops => last \in Names /\ dirs = new \o <<last>>
        /\ (dir # "." /\ ~pops) => new = dirs \o <<dir>>
    BY PushIs
  <1>2. <<dir>> \in Seq(Names) BY Single
  <1>3. <<dir>> \o Q \in Seq(Names) /\ <<dir>> \o Q # <<>>
        /\ Head(<<dir>> \o Q) = dir /\ Tail(<<dir>> \o Q) = Q
    BY Parts
  <1>4. CASE dir = "."
    <2> DEFINE S == <<dir>> \o Q
    <2> HIDE DEF S
    <2>1. Serves(f, chk, fl, S, Q, x)
      <3> SUFFICES ASSUME NEW a \in Nodes(f), Leads(f, chk, fl, Place(a, S), x)
                   PROVE  Leads(f, chk, fl, Place(a, Q), x)
        BY DEF Serves
      <3>1. Place(a, S) \in Places(f) /\ Place(a, S).at = a /\ Place(a, S).rest = S
        BY <1>3, PlaceIs DEF S
      <3>2. Goes(f, chk, fl, Place(a, S), Place(a, Q)) BY <1>3, <1>4, <3>1 DEF Goes, S
      <3> QED BY <3>1, <3>2, LeadsAfter
    <2>2. NoLinkIn(f, dirs) BY <1>4 DEF Dots
    <2>3. Serves(f, chk, fl, dirs \o S, dirs \o Q, x) BY <1>3, <2>1, <2>2, ServesBehind DEF S
    <2> QED BY <1>1, <1>4, <2>3 DEF S
  <1>5. CASE pops
    <2> HIDE DEF new, last
    <2> DEFINE S == <<last>> \o (<<dir>> \o Q)
    <2>1. /\ S \in Seq(Names) /\ S # <<>> /\ Head(S) = last /\ Tail(S) = <<dir>> \o Q
      BY <1>1, <1>3, <1>5, Parts
    <2>2. /\ last \notin Dots /\ last \notin LinkNamesOf(f) /\ NoLinkIn(f, new)
      <3>1. /\ Len(dirs) = Len(new) + 1 /\ Len(new) \in Nat /\ dirs[Len(dirs)] = last
            /\ \A k \in 1 .. Len(new) : dirs[k] = new[k]
        <4>1. dirs = Append(new, last)
          <5>1. Append(new, last) = new \o <<last>> BY <1>1, <1>5, AppendIsConcat
          <5> QED BY <1>1, <1>5, <5>1
        <4>2. /\ Len(Append(new, last)) = Len(new) + 1
              /\ \A k \in 1 .. Len(new) : Append(new, last)[k] = new[k]
              /\ Append(new, last)[Len(new) + 1] = last
          BY <1>1, <1>5, AppendProperties
        <4>3. Len(new) \in Nat BY <1>1, LenProperties
        <4> HIDE DEF pops
        <4> QED BY <4>1, <4>2, <4>3
      <3>2. NoLinkIn(f, dirs) BY <1>5 DEF Dots
      <3>3. Len(dirs) \in 1 .. Len(dirs) /\ \A k \in 1 .. Len(new) : k \in 1 .. Len(dirs) BY <3>1
      <3>4. last # "." BY <3>1, <3>3
      <3>5. last # ".." BY <1>5
      <3> HIDE DEF pops
      <3>6. last \notin LinkNamesOf(f) BY <3>1, <3>2, <3>3 DEF NoLinkIn
      <3>7. NoLinkIn(f, new) BY <3>1, <3>2, <3>3 DEF NoLinkIn
      <3> QED BY <3>4, <3>5, <3>6, <3>7 DEF Dots
    <2>3. Serves(f, chk, fl, S, Q, x)
      <3> HIDE DEF S
      <3> SUFFICES ASSUME NEW a \in Nodes(f), Leads(f, chk, fl, Place(a, S), x)
                   PROVE  Leads(f, chk, fl, Place(a, Q), x)
        BY DEF Serves
      <3>1. Place(a, S) \in Places(f) /\ Place(a, S).at = a /\ Place(a, S).rest = S
        BY <2>1, PlaceIs
      <3>2. PICK d \in Places(f) : Goes(f, chk, fl, Place(a, S), d) /\ Leads(f, chk, fl, d, x)
        BY <2>1, <3>1, LeadsOn
      <3> DEFINE b == f.entry[<<a, last>>]
      <3>3. ByName(f, chk, fl, Place(a, S), d) BY <2>1, <2>2, <3>1, <3>2 DEF Goes, Dots
      <3>4. <<a, last>> \in DOMAIN f.entry BY <2>1, <3>1, <3>3 DEF ByName
      <3>5. b \in Nodes(f) \ {Root} /\ f.parent[b] = a /\ f.kind[b] # "link"
        BY <2>2, <3>4, EntryIs, NoLinkEntry
      <3>6. d = Place(b, <<dir>> \o Q) BY <2>1, <3>1, <3>3, <3>5 DEF ByName
      <3>7. d.at = b /\ d.rest = <<dir>> \o Q BY <3>6 DEF Place
      <3> HIDE DEF b
      <3>8. Goes(f, chk, fl, d, Place(a, Q)) BY <1>3, <1>5, <3>5, <3>7 DEF Goes
      <3> QED BY <3>2, <3>8, LeadsAfter
    <2>4. Serves(f, chk, fl, new \o S, new \o Q, x) BY <1>1, <2>1, <2>2, <2>3, ServesBehind
    <2>5. dirs \o (<<dir>> \o Q) = new \o S
      <3>1. <<last>> \in Seq(Names) BY <1>1, <1>5, Single
      <3>2. (new \o <<last>>) \o (<<dir>> \o Q) = new \o (<<last>> \o (<<dir>> \o Q))
        BY <1>1, <1>3, <3>1, Joined
      <3> QED BY <1>1, <1>5, <3>2, Zenon
    <2> QED BY <2>4, <2>5 DEF new
  <1>6. CASE dir # "." /\ ~pops
    <2> HIDE DEF pops
    <2>1. (dirs \o <<dir>>) \o Q = dirs \o (<<dir>> \o Q) BY <1>2, Joined
    <2>2. new \o Q = dirs \o (<<dir>> \o Q) BY <1>1, <1>6, <2>1, Zenon
    <2> HIDE DEF new
    <2> QED BY <2>2 DEF Serves, new
  <1> QED BY <1>4, <1>5, <1>6

\* The same backwards, where nothing is taken back.
LEMMA PushIsServed ==
    ASSUME NEW f \in FileSystems, NEW fl, NEW x,
           NEW dirs \in Seq(Names), NEW dir \in Names, NEW Q \in Seq(Names),
           dir \in Dots => \A k \in 1 .. Len(dirs) : dirs[k] = ".."
    PROVE  Serves(f, FALSE, fl, Push(dirs, dir) \o Q, dirs \o (<<dir>> \o Q), x)
  <1> DEFINE new == Push(dirs, dir)
             pops == dir = ".." /\ dirs # <<>> /\ Last(dirs) # ".."
             S == <<dir>> \o Q
  <1>1. new \in Seq(Names) /\ (dir = "." => new = dirs)
        /\ ((dir # "." /\ ~pops) => new = dirs \o <<dir>>)
    BY PushIs
  <1>2. <<dir>> \in Seq(Names) BY Single
  <1>3. S \in Seq(Names) /\ S # <<>> /\ Head(S) = dir /\ Tail(S) = Q BY Parts
  <1>4. ~pops
    <2> SUFFICES ASSUME pops PROVE FALSE OBVIOUS
    <2>1. Len(dirs) \in 1 .. Len(dirs)
      <3>1. Len(dirs) \in Nat \ {0} BY EmptySeq, LenProperties
      <3> QED BY <3>1
    <2>2. dirs[Len(dirs)] = ".." BY <2>1 DEF Dots
    <2> QED BY <2>2 DEF Last
  <1> HIDE DEF pops
  <1>5. CASE dir = "."
    <2> HIDE DEF S
    <2>1. Serves(f, FALSE, fl, Q, S, x)
      <3> SUFFICES ASSUME NEW a \in Nodes(f), Leads(f, FALSE, fl, Place(a, Q), x)
                   PROVE  Leads(f, FALSE, fl, Place(a, S), x)
        BY DEF Serves
      <3>1. Place(a, S) \in Places(f) /\ Place(a, S).at = a /\ Place(a, S).rest = S
        BY <1>3, PlaceIs
      <3>2. Goes(f, FALSE, fl, Place(a, S), Place(a, Q)) BY <1>3, <1>5, <3>1 DEF Goes
      <3> QED BY <3>1, <3>2, LeadsBack
    <2>2. NoLinkIn(f, dirs)
      <3> SUFFICES ASSUME NEW k \in 1 .. Len(dirs), dirs[k] \in LinkNamesOf(f) PROVE FALSE
        BY DEF NoLinkIn
      <3>1. dirs[k] = ".." BY <1>5 DEF Dots
      <3>2. ".." \notin LinkNamesOf(f)
        <4> SUFFICES ASSUME NEW here \in DOMAIN f.entry, here[2] = ".." PROVE FALSE
          BY DEF LinkNamesOf
        <4>1. WellFormed(f) BY PathAssumption
        <4>2. here \in (DOMAIN f.kind) \X (Names \ {".", ".."}) BY <4>1 DEF WellFormed
        <4> QED BY <4>2
      <3> QED BY <3>1, <3>2
    <2>3. Serves(f, FALSE, fl, dirs \o Q, dirs \o S, x) BY <1>3, <2>1, <2>2, ServesBehind
    <2> QED BY <1>1, <1>5, <2>3 DEF S
  <1>6. CASE dir # "."
    <2>1. (dirs \o <<dir>>) \o Q = dirs \o (<<dir>> \o Q) BY <1>2, Joined
    <2>2. new \o Q = dirs \o (<<dir>> \o Q) BY <1>1, <1>4, <1>6, <2>1, Zenon
    <2> HIDE DEF new
    <2> QED BY <2>2 DEF Serves, new
  <1> QED BY <1>5, <1>6

\* What stays of the components: some of them, and no ".".
LEMMA PushKeepsFrom ==
    ASSUME NEW dirs \in Seq(Names), NEW dir \in Names, NEW B, dir # "." => dir \in B,
           \A k \in 1 .. Len(dirs) : dirs[k] # "." /\ dirs[k] \in B
    PROVE  \A k \in 1 .. Len(Push(dirs, dir)) : Push(dirs, dir)[k] # "." /\ Push(dirs, dir)[k] \in B
  <1> DEFINE new == Push(dirs, dir)
             pops == dir = ".." /\ dirs # <<>> /\ Last(dirs) # ".."
  <1>1. /\ new \in Seq(Names)
        /\ dir = "." => new = dirs
        /\ pops => Last(dirs) \in Names /\ dirs = new \o <<Last(dirs)>>
        /\ (dir # "." /\ ~pops) => new = dirs \o <<dir>>
    BY PushIs
  <1> HIDE DEF new
  <1>2. CASE dir = "." BY <1>1, <1>2 DEF new
  <1>3. CASE pops
    <2>1. /\ Append(new, Last(dirs)) = dirs
      <3>1. Append(new, Last(dirs)) = new \o <<Last(dirs)>> BY <1>1, <1>3, AppendIsConcat
      <3> QED BY <1>1, <1>3, <3>1
    <2>2. /\ Len(Append(new, Last(dirs))) = Len(new) + 1
          /\ \A k \in 1 .. Len(new) : Append(new, Last(dirs))[k] = new[k]
      BY <1>1, <1>3, AppendProperties
    <2>3. Len(new) \in Nat BY <1>1, LenProperties
    <2>4. Len(dirs) = Len(new) + 1 /\ \A k \in 1 .. Len(new) : dirs[k] = new[k] BY <2>1, <2>2
    <2>5. \A k \in 1 .. Len(new) : k \in 1 .. Len(dirs) BY <2>3, <2>4
    <2> QED BY <2>4, <2>5 DEF new
  <1>4. CASE dir # "." /\ ~pops
    <2>1. Append(dirs, dir) = new BY <1>1, <1>4, AppendIsConcat
    <2>2. /\ Len(Append(dirs, dir)) = Len(dirs) + 1
          /\ \A k \in 1 .. Len(dirs) : Append(dirs, dir)[k] = dirs[k]
          /\ Append(dirs, dir)[Len(dirs) + 1] = dir
      BY AppendProperties
    <2>3. Len(dirs) \in Nat BY LenProperties
    <2>4. ASSUME NEW k \in 1 .. Len(new) PROVE new[k] # "." /\ new[k] \in B
      <3>1. k \in 1 .. Len(dirs) \/ k = Len(dirs) + 1 BY <2>1, <2>2, <2>3
      <3> QED BY <1>4, <2>1, <2>2, <3>1
    <2> QED BY <2>4 DEF new
  <1> QED BY <1>2, <1>3, <1>4

LEMMA PushedFrom ==
    ASSUME NEW comps \in Seq(Names), NEW k \in 0 .. Len(comps), NEW j \in 1 .. Len(Pushed(comps)[k])
    PROVE  Pushed(comps)[k][j] # "." /\ \E m \in 1 .. k : Pushed(comps)[k][j] = comps[m]
  <1> DEFINE L == Len(comps)
             B(n) == {comps[m] : m \in 1 .. n}
             Good(n) == \A i \in 1 .. Len(Pushed(comps)[n]) :
                            Pushed(comps)[n][i] # "." /\ Pushed(comps)[n][i] \in B(n)
             G == {n \in 0 .. L : Good(n)}
  <1>1. L \in Nat /\ 0 \in Nat BY LenProperties
  <1>2. /\ \A n \in 0 .. L : Pushed(comps)[n] \in Seq(Names)
        /\ Pushed(comps)[0] = <<>>
        /\ \A n \in 1 .. L : Pushed(comps)[n] = Push(Pushed(comps)[n - 1], comps[n])
    BY PushedRecur
  <1>3. 0 \in G
    <2>1. Len(<<>>) = 0 OBVIOUS
    <2> QED BY <1>1, <1>2, <2>1
  <1>4. ASSUME NEW n \in 0 .. L - 1, n \in G PROVE n + 1 \in G
    <2>1. n + 1 \in 1 .. L /\ n + 1 \in 0 .. L /\ (n + 1) - 1 = n /\ n \in 0 .. L BY <1>1
    <2>2. Pushed(comps)[n + 1] = Push(Pushed(comps)[n], comps[n + 1]) BY <1>2, <2>1
    <2>3. Pushed(comps)[n] \in Seq(Names) /\ comps[n + 1] \in Names BY <1>2, <2>1, ElementOfSeq
    <2>4. comps[n + 1] \in B(n + 1) /\ B(n) \subseteq B(n + 1) BY <2>1
    <2>5. \A i \in 1 .. Len(Pushed(comps)[n]) :
             Pushed(comps)[n][i] # "." /\ Pushed(comps)[n][i] \in B(n + 1)
      BY <1>4, <2>4
    <2> HIDE DEF B
    <2>6. Good(n + 1) BY <2>2, <2>3, <2>4, <2>5, PushKeepsFrom
    <2> QED BY <2>1, <2>6
  <1> HIDE DEF G
  <1>5. \A n \in 0 .. L : n \in G BY <1>1, <1>3, <1>4, UpTo
  <1>6. Good(k) BY <1>5 DEF G
  <1> QED BY <1>6

PlainIn(f, path) ==
    /\ \A m, n \in DOMAIN path.comps :
          m < n /\ path.comps[n] \in Dots => path.comps[m] \notin LinkNamesOf(f)
    /\ NoLastDot(path)

\* Behind the first k components, each with a slash behind it.
Split(comps, k, r) == Pushed(comps)[k] \o (Behind(comps, k) \o r)

LEMMA SplitIs ==
    ASSUME NEW comps \in Seq(Names), NEW r \in Seq(Names)
    PROVE  /\ \A k \in 0 .. Len(comps) : Split(comps, k, r) \in Seq(Names)
           /\ Split(comps, 0, r) = comps \o r
           /\ Split(comps, Len(comps), r) = Pushed(comps)[Len(comps)] \o r
           /\ \A k \in 1 .. Len(comps) : LET Q == Behind(comps, k) \o r IN
                 /\ Q \in Seq(Names)
                 /\ Split(comps, k, r) = Push(Pushed(comps)[k - 1], comps[k]) \o Q
                 /\ Split(comps, k - 1, r) = Pushed(comps)[k - 1] \o (<<comps[k]>> \o Q)
  <1> DEFINE L == Len(comps)
  <1>1. L \in Nat BY LenProperties
  <1>2. \A k \in 0 .. L : Pushed(comps)[k] \in Seq(Names) BY PushedRecur
  <1>3. \A k \in 0 .. L : Behind(comps, k) \in Seq(Names) /\ Behind(comps, k) \o r \in Seq(Names)
    BY BehindIs, Joined
  <1>4. \A k \in 0 .. L : Split(comps, k, r) \in Seq(Names) BY <1>2, <1>3, Joined DEF Split
  <1>5. Split(comps, 0, r) = comps \o r
    <2>1. Pushed(comps)[0] = <<>> /\ Behind(comps, 0) = comps BY PushedRecur, BehindIs
    <2>2. comps \o r \in Seq(Names) BY Joined
    <2>3. <<>> \o (comps \o r) = comps \o r BY <2>2, Joined
    <2> QED BY <2>1, <2>3 DEF Split
  <1>6. Split(comps, L, r) = Pushed(comps)[L] \o r
    <2>1. Behind(comps, L) = <<>> BY <1>1, BehindIs
    <2>2. <<>> \o r = r BY Joined
    <2> QED BY <2>1, <2>2 DEF Split
  <1>7. ASSUME NEW k \in 1 .. L
        PROVE  LET Q == Behind(comps, k) \o r IN
                 /\ Q \in Seq(Names)
                 /\ Split(comps, k, r) = Push(Pushed(comps)[k - 1], comps[k]) \o Q
                 /\ Split(comps, k - 1, r) = Pushed(comps)[k - 1] \o (<<comps[k]>> \o Q)
    <2> DEFINE Q == Behind(comps, k) \o r
    <2>1. k \in 0 .. L BY <1>1
    <2>2. Q \in Seq(Names) BY <1>3, <2>1
    <2>3. Split(comps, k, r) = Push(Pushed(comps)[k - 1], comps[k]) \o Q
      <3>1. Pushed(comps)[k] = Push(Pushed(comps)[k - 1], comps[k]) BY PushedRecur
      <3> QED BY <3>1 DEF Split
    <2>4. Split(comps, k - 1, r) = Pushed(comps)[k - 1] \o (<<comps[k]>> \o Q)
      <3>1. Behind(comps, k - 1) = <<comps[k]>> \o Behind(comps, k) /\ comps[k] \in Names BY BehindIs
      <3>2. <<comps[k]>> \in Seq(Names) BY <3>1, Single
      <3>3. (<<comps[k]>> \o Behind(comps, k)) \o r = <<comps[k]>> \o Q BY <1>3, <2>1, <3>2, Joined
      <3> QED BY <3>1, <3>3 DEF Split
    <2> QED BY <2>2, <2>3, <2>4
  <1> QED BY <1>4, <1>5, <1>6, <1>7

\* The last component is not followed by a slash.
LEMMA DirsAre ==
    ASSUME NEW path \in Path, NoLastDot(path), NEW r \in Seq(Names)
    PROVE  LET comps == path.comps IN
           \E K \in 0 .. Len(comps) :
               /\ Dirs(path) \o r = Split(comps, K, r)
               /\ Dirs(path) \in Seq(Names)
               /\ \A j \in 1 .. Len(Dirs(path)) : /\ Dirs(path)[j] # "."
                                                  /\ \E m \in 1 .. Len(comps) : Dirs(path)[j] = comps[m]
  <1> DEFINE comps == path.comps
             L == Len(comps)
             dirs == Dirs(path)
  <1>1. comps \in Seq(Names) BY DEF Path
  <1>2. L \in Nat BY <1>1, LenProperties
  <1>3. \A k \in 0 .. L : Pushed(comps)[k] \in Seq(Names) BY <1>1, PushedRecur
  <1>4. \A k \in 0 .. L : \A j \in 1 .. Len(Pushed(comps)[k]) :
           Pushed(comps)[k][j] # "." /\ \E m \in 1 .. k : Pushed(comps)[k][j] = comps[m]
    BY <1>1, PushedFrom
  <1>5. CASE path.slash \/ L = 0
    <2>1. dirs = Pushed(comps)[L] BY <1>5 DEF Dirs
    <2>2. dirs \o r = Split(comps, L, r)
      <3> HIDE DEF comps, dirs
      <3>1. Split(comps, L, r) = Pushed(comps)[L] \o r BY <1>1, SplitIs
      <3> QED BY <2>1, <3>1
    <2>3. L \in 0 .. L BY <1>2
    <2> HIDE DEF dirs, comps
    <2>4. dirs \in Seq(Names) /\ \A j \in 1 .. Len(dirs) : /\ dirs[j] # "."
                                                            /\ \E m \in 1 .. L : dirs[j] = comps[m]
      BY <1>3, <1>4, <2>1, <2>3
    <2> QED BY <2>2, <2>3, <2>4 DEF dirs, comps
  <1>6. CASE ~(path.slash \/ L = 0)
    <2> DEFINE front == Pushed(comps)[L - 1]
    <2>1. L \in 1 .. L /\ L - 1 \in 0 .. L BY <1>2, <1>6
    <2>2. dirs = Append(front, comps[L]) BY <1>6 DEF Dirs
    <2>3. comps[L] \in Names /\ comps[L] # "."
      <3>1. comps[L] \in Names BY <1>1, <2>1, ElementOfSeq
      <3>2. comps # <<>>
        <4>1. Len(<<>>) = 0 OBVIOUS
        <4> QED BY <1>6, <4>1
      <3> QED BY <1>6, <3>1, <3>2 DEF NoLastDot, Last
    <2>4. front \in Seq(Names) BY <1>3, <2>1
    <2>5. <<comps[L]>> \in Seq(Names) BY <2>3, Single
    <2>6. dirs \o r = Split(comps, L - 1, r)
      <3> DEFINE Q == Behind(comps, L) \o r
      <3>1. Split(comps, L - 1, r) = front \o (<<comps[L]>> \o Q) BY <1>1, <2>1, SplitIs
      <3>2. Behind(comps, L) = <<>> /\ <<>> \o r = r
        <4>1. L \in 0 .. L BY <1>2
        <4> QED BY <1>1, <4>1, BehindIs, Joined
      <3>3. Q = r BY <3>2
      <3>4. (front \o <<comps[L]>>) \o r = front \o (<<comps[L]>> \o r)
        <4> DEFINE last == <<comps[L]>>
        <4>1. last \in Seq(Names) /\ front \in Seq(Names) BY <2>4, <2>5
        <4> HIDE DEF front, last
        <4>2. (front \o last) \o r = front \o (last \o r) BY <4>1, Joined
        <4> QED BY <4>2 DEF front, last
      <3>5. dirs = front \o <<comps[L]>> BY <2>2, <2>3, <2>4, AppendIsConcat
      <3> QED BY <3>1, <3>3, <3>4, <3>5
    <2>7. /\ dirs \in Seq(Names) /\ Len(dirs) = Len(front) + 1
          /\ \A j \in 1 .. Len(front) : dirs[j] = front[j]
          /\ dirs[Len(front) + 1] = comps[L]
      BY <2>2, <2>3, <2>4, AppendProperties
    <2>8. ASSUME NEW j \in 1 .. Len(dirs)
          PROVE  dirs[j] # "." /\ \E m \in 1 .. L : dirs[j] = comps[m]
      <3>1. Len(front) \in Nat BY <2>4, LenProperties
      <3>2. CASE j = Len(front) + 1 BY <2>1, <2>3, <2>7, <3>2
      <3>3. CASE j # Len(front) + 1
        <4>1. j \in 1 .. Len(front) BY <2>7, <3>1, <3>3
        <4>2. front[j] # "." /\ \E m \in 1 .. L - 1 : front[j] = comps[m] BY <1>4, <2>1, <4>1
        <4>3. 1 .. L - 1 \subseteq 1 .. L BY <1>2
        <4> QED BY <2>7, <4>1, <4>2, <4>3
      <3> QED BY <3>2, <3>3
    <2> QED BY <2>1, <2>6, <2>7, <2>8
  <1> QED BY <1>5, <1>6

LEMMA ServesSelf ==
    ASSUME NEW f, NEW chk, NEW fl, NEW x, NEW S
    PROVE  Serves(f, chk, fl, S, S, x)
  BY DEF Serves

LEMMA ServesOn ==
    ASSUME NEW f, NEW chk, NEW fl, NEW x, NEW S, NEW T, NEW U,
           Serves(f, chk, fl, S, T, x), Serves(f, chk, fl, T, U, x)
    PROVE  Serves(f, chk, fl, S, U, x)
  BY DEF Serves

\* Where a path without links before its dots leads, what resolve makes of it leads.
LEMMA DirsServe ==
    ASSUME NEW f \in FileSystems, NEW chk, NEW fl, NEW x,
           NEW path \in Path, PlainIn(f, path), NEW r \in Seq(Names)
    PROVE  Serves(f, chk, fl, path.comps \o r, Dirs(path) \o r, x)
  <1> DEFINE comps == path.comps
             L == Len(comps)
             S == comps \o r
             G == {k \in 0 .. L : Serves(f, chk, fl, S, Split(comps, k, r), x)}
  <1>1. comps \in Seq(Names) BY DEF Path
  <1>2. L \in Nat /\ 0 \in Nat BY <1>1, LenProperties
  <1>3. 0 \in G
    <2>1. Split(comps, 0, r) = S BY <1>1, SplitIs
    <2>2. Serves(f, chk, fl, S, S, x) BY ServesSelf
    <2> HIDE DEF S
    <2>3. 0 \in 0 .. L BY <1>2
    <2> QED BY <2>1, <2>2, <2>3, Zenon
  <1>4. ASSUME NEW k \in 0 .. L - 1, k \in G PROVE k + 1 \in G
    <2> HIDE DEF S
    <2>1. k + 1 \in 1 .. L /\ (k + 1) - 1 = k /\ k \in 0 .. L BY <1>2
    <2> DEFINE dirs == Pushed(comps)[k]
               dir == comps[k + 1]
               Q == Behind(comps, k + 1) \o r
    <2>2. dirs \in Seq(Names) /\ dir \in Names BY <1>1, <2>1, PushedRecur, ElementOfSeq
    <2>3. /\ Q \in Seq(Names)
          /\ Split(comps, k + 1, r) = Push(dirs, dir) \o Q
          /\ Split(comps, k, r) = dirs \o (<<dir>> \o Q)
      <3>1. LET R == Behind(comps, k + 1) \o r IN
               /\ R \in Seq(Names)
               /\ Split(comps, k + 1, r) = Push(Pushed(comps)[(k + 1) - 1], comps[k + 1]) \o R
               /\ Split(comps, (k + 1) - 1, r) = Pushed(comps)[(k + 1) - 1] \o (<<comps[k + 1]>> \o R)
        <4> HIDE DEF comps
        <4> QED BY <1>1, <2>1, SplitIs
      <3> QED BY <2>1, <3>1
    <2>4. \A j \in 1 .. Len(dirs) : dirs[j] # "." /\ \E m \in 1 .. k : dirs[j] = comps[m]
      BY <1>1, <2>1, PushedFrom
    <2>5. dir \in Dots => NoLinkIn(f, dirs)
      <3> SUFFICES ASSUME dir \in Dots, NEW j \in 1 .. Len(dirs) PROVE dirs[j] \notin LinkNamesOf(f)
        BY DEF NoLinkIn
      <3>1. PICK m \in 1 .. k : dirs[j] = comps[m] BY <2>4
      <3>2. m \in DOMAIN comps /\ k + 1 \in DOMAIN comps /\ m < k + 1 BY <1>1, <1>2, <2>1
      <3>3. comps[m] \notin LinkNamesOf(f) BY <3>2 DEF PlainIn
      <3> QED BY <3>1, <3>3
    <2> HIDE DEF dirs, dir, Q
    <2>6. Serves(f, chk, fl, dirs \o (<<dir>> \o Q), Push(dirs, dir) \o Q, x)
      BY <2>2, <2>3, <2>4, <2>5, PushServes
    <2>7. Serves(f, chk, fl, S, Split(comps, k, r), x) BY <1>4
    <2>8. Serves(f, chk, fl, S, Split(comps, k + 1, r), x) BY <2>3, <2>6, <2>7, ServesOn
    <2>9. k + 1 \in 0 .. L BY <1>2, <2>1
    <2> QED BY <2>8, <2>9, Zenon
  <1> HIDE DEF G
  <1>5. \A k \in 0 .. L : k \in G BY <1>2, <1>3, <1>4, UpTo
  <1>6. NoLastDot(path) BY DEF PlainIn
  <1>7. PICK K \in 0 .. L : Dirs(path) \o r = Split(comps, K, r) BY <1>6, DirsAre
  <1> QED BY <1>5, <1>7 DEF G

\* Where what resolve makes of a path leads, the path leads, if its dots are in front.
LEMMA DirsAreServed ==
    ASSUME NEW f \in FileSystems, NEW fl, NEW x,
           NEW path \in Path, DotsFirst(path), NEW r \in Seq(Names)
    PROVE  Serves(f, FALSE, fl, Dirs(path) \o r, path.comps \o r, x)
  <1> DEFINE comps == path.comps
             L == Len(comps)
             S == comps \o r
             G == {k \in 0 .. L : Serves(f, FALSE, fl, Split(comps, k, r), S, x)}
  <1>1. comps \in Seq(Names) BY DEF Path
  <1>2. L \in Nat /\ 0 \in Nat BY <1>1, LenProperties
  <1>3. 0 \in G
    <2>1. Split(comps, 0, r) = S BY <1>1, SplitIs
    <2>2. Serves(f, FALSE, fl, S, S, x) BY ServesSelf
    <2> HIDE DEF S
    <2>3. 0 \in 0 .. L BY <1>2
    <2> QED BY <2>1, <2>2, <2>3, Zenon
  <1>4. ASSUME NEW k \in 0 .. L - 1, k \in G PROVE k + 1 \in G
    <2> HIDE DEF S
    <2>1. k + 1 \in 1 .. L /\ (k + 1) - 1 = k /\ k \in 0 .. L BY <1>2
    <2> DEFINE dirs == Pushed(comps)[k]
               dir == comps[k + 1]
               Q == Behind(comps, k + 1) \o r
    <2>2. dirs \in Seq(Names) /\ dir \in Names BY <1>1, <2>1, PushedRecur, ElementOfSeq
    <2>3. /\ Q \in Seq(Names)
          /\ Split(comps, k + 1, r) = Push(dirs, dir) \o Q
          /\ Split(comps, k, r) = dirs \o (<<dir>> \o Q)
      <3>1. LET R == Behind(comps, k + 1) \o r IN
               /\ R \in Seq(Names)
               /\ Split(comps, k + 1, r) = Push(Pushed(comps)[(k + 1) - 1], comps[k + 1]) \o R
               /\ Split(comps, (k + 1) - 1, r) = Pushed(comps)[(k + 1) - 1] \o (<<comps[k + 1]>> \o R)
        <4> HIDE DEF comps
        <4> QED BY <1>1, <2>1, SplitIs
      <3> QED BY <2>1, <3>1
    <2>4. \A j \in 1 .. Len(dirs) : dirs[j] # "." /\ \E m \in 1 .. k : dirs[j] = comps[m]
      BY <1>1, <2>1, PushedFrom
    <2>5. dir \in Dots => \A j \in 1 .. Len(dirs) : dirs[j] = ".."
      <3> SUFFICES ASSUME dir \in Dots, NEW j \in 1 .. Len(dirs) PROVE dirs[j] = ".." OBVIOUS
      <3>1. PICK m \in 1 .. k : dirs[j] = comps[m] BY <2>4
      <3>2. m \in DOMAIN comps /\ k + 1 \in DOMAIN comps /\ m < k + 1 BY <1>1, <1>2, <2>1
      <3>3. comps[m] \in {".", ".."} BY <3>2 DEF DotsFirst, Dots
      <3> QED BY <2>4, <3>1, <3>3
    <2> HIDE DEF dirs, dir, Q
    <2>6. Serves(f, FALSE, fl, Push(dirs, dir) \o Q, dirs \o (<<dir>> \o Q), x)
      BY <2>2, <2>3, <2>5, PushIsServed
    <2>7. Serves(f, FALSE, fl, Split(comps, k, r), S, x) BY <1>4
    <2>8. Serves(f, FALSE, fl, Split(comps, k + 1, r), S, x) BY <2>3, <2>6, <2>7, ServesOn
    <2>9. k + 1 \in 0 .. L BY <1>2, <2>1
    <2> QED BY <2>8, <2>9, Zenon
  <1> HIDE DEF G
  <1>5. \A k \in 0 .. L : k \in G BY <1>2, <1>3, <1>4, UpTo
  <1>6. NoLastDot(path) BY DEF DotsFirst
  <1>7. PICK K \in 0 .. L : Dirs(path) \o r = Split(comps, K, r) BY <1>6, DirsAre
  <1> QED BY <1>5, <1>7 DEF G

-----------------------------------------------------------------------------
(* The inductive invariant *)

PathsOf(f, r) ==
    {f.target[node] : node \in {n \in Nodes(f) : f.kind[n] = "link"}}
        \cup (IF r.call = "follow" THEN {} ELSE {r.path})
AllPlain(f, r) == \A path \in PathsOf(f, r) : PlainIn(f, path)
AllDotsFirst(f, r) == \A path \in PathsOf(f, r) : DotsFirst(path)

\* What both properties leave out.
Usual(f, r) ==
    /\ \A node \in Nodes(f) : f.kind[node] = "link" => ~f.target[node].abs
    /\ r.call = "follow" => r.level = -1
    /\ r.call = "follow" \/ r.follow_last \/ ~r.path.abs \/ r.from = Root
    /\ \A path \in PathsOf(f, r) : NoLastDot(path)

\* Where the walk that the call means begins.
FollowsLast(r) == r.call = "follow" \/ r.follow_last
Start(f, r) ==
    IF r.call = "follow" THEN Place(f.parent[r.from], f.target[r.from].comps)
    ELSE Place(IF r.path.abs THEN Root ELSE r.from, r.path.comps)

ResolveFrames(f) ==
    [call : {"resolve"}, at : Nodes(f), dirs : Seq(Names), i : Nat \ {0}, found : BOOLEAN,
     follow_last : BOOLEAN]
FollowFrames(f) == [call : {"follow"}, at : Nodes(f), seen : SUBSET Nodes(f), level : {-1}]
Frames(f) == ResolveFrames(f) \cup FollowFrames(f)

\* The components an activation has left, apart from the one it has found.
Rest(frame) ==
    IF frame.call = "resolve"
    THEN Behind(frame.dirs, IF frame.found THEN frame.i ELSE frame.i - 1) ELSE <<>>

\* Where the walk is while the activation runs, and rest is left when it returns.
Here(f, frame, rest) ==
    IF frame.call = "resolve" THEN Place(frame.at, Rest(frame) \o rest)
    ELSE IF f.kind[frame.at] = "link"
    THEN Place(f.parent[frame.at], f.target[frame.at].comps \o rest)
    ELSE Place(frame.at, rest)

ResolveOk(r, frame, k) ==
    /\ frame.i <= Len(frame.dirs) + 1 /\ (frame.found => frame.i <= Len(frame.dirs))
    /\ \A j \in 1 .. Len(frame.dirs) : frame.dirs[j] # "."
    /\ k = 1 => frame.follow_last = FollowsLast(r)
    /\ k > 1 => frame.follow_last /\ frame.dirs # <<>>

FrameOk(f, r, frame, k, rest) ==
    /\ frame \in Frames(f)
    /\ frame.call = "resolve" => ResolveOk(r, frame, k)
    /\ k > 1 => FollowsLast(r) \/ rest # <<>>

\* The activations with what is left when each returns.
StackOk(f, r, s, rests) ==
    /\ s \in Seq(Frames(f)) /\ s # <<>> /\ s[1].call = r.call
    /\ rests \in [1 .. Len(s) -> Seq(Names)] /\ rests[1] = <<>>
    /\ \A k \in 1 .. Len(s) : FrameOk(f, r, s[k], k, rests[k])
    /\ \A k \in 1 .. Len(s) - 1 :
          /\ rests[k + 1] = Rest(s[k]) \o rests[k]
          /\ s[k].call # s[k + 1].call
          /\ s[k].call = "resolve" => s[k].found

\* A link that is to be followed is followed before the next component.
Followed(f, frame) ==
    IF frame.call = "resolve"
    THEN frame.follow_last /\ (frame.found \/ frame.i > 1) => f.kind[frame.at] # "link"
    ELSE frame.seen # {} => f.kind[frame.at] # "link"

\* Where the walk is leads where its beginning leads, and nowhere else.
Means(f, r, c) ==
    /\ AllDotsFirst(f, r) => \A x \in Nodes(f) :
          Leads(f, FALSE, FollowsLast(r), c, x) => Leads(f, FALSE, FollowsLast(r), Start(f, r), x)
    /\ AllPlain(f, r) => \A x \in Nodes(f) :
          Leads(f, TRUE, FollowsLast(r), Start(f, r), x) => Leads(f, TRUE, FollowsLast(r), c, x)

Arriving(f, r) ==
    AllPlain(f, r) /\ \E x \in Nodes(f) : Leads(f, TRUE, FollowsLast(r), Start(f, r), x)

\* What has been found can be passed, if the path leads anywhere.
FoundSomething(f, frame) ==
    IF frame.call = "resolve" THEN frame.found \/ frame.i > Len(frame.dirs)
    ELSE f.kind[frame.at] # "link"
Fits(f, r, frame, rest) ==
    Arriving(f, r) /\ FoundSomething(f, frame) =>
        Passable(f, frame.at, Here(f, frame, rest).rest)

TopOk(f, r, frame, rest) ==
    Followed(f, frame) /\ Means(f, r, Here(f, frame, rest)) /\ Fits(f, r, frame, rest)

Running(f, r, s, rests) ==
    StackOk(f, r, s, rests) /\ TopOk(f, r, s[Len(s)], rests[Len(s)])

Ended(f, r, result) ==
    /\ result # Pending
    /\ AllDotsFirst(f, r) /\ result \in Nodes(f) =>
          Leads(f, FALSE, FollowsLast(r), Start(f, r), result)
    /\ AllPlain(f, r) /\ result # Overflow => \A x \in Nodes(f) :
          Leads(f, TRUE, FollowsLast(r), Start(f, r), x) => result = x

CallOk(f, r, s, result) ==
    IF s = <<>> THEN Ended(f, r, result)
    ELSE result = Pending /\ \E rests : Running(f, r, s, rests)

PathIInv ==
    /\ fs \in FileSystems /\ request \in Requests
    /\ Usual(fs, request) => CallOk(fs, request, stack, outcome)

-----------------------------------------------------------------------------
(* The stack *)

LEMMA TopIs ==
    ASSUME NEW f, NEW r, NEW s, NEW rests, StackOk(f, r, s, rests)
    PROVE  /\ Len(s) \in Nat \ {0} /\ Len(s) \in 1 .. Len(s) /\ Last(s) = s[Len(s)]
           /\ Last(s) \in Frames(f) /\ rests[Len(s)] \in Seq(Names)
           /\ FrameOk(f, r, Last(s), Len(s), rests[Len(s)])
  <1>1. s \in Seq(Frames(f)) /\ s # <<>> BY DEF StackOk
  <1>2. Len(s) \in Nat \ {0} BY <1>1, EmptySeq, LenProperties
  <1>3. Len(s) \in 1 .. Len(s) BY <1>2
  <1>4. Last(s) = s[Len(s)] BY DEF Last
  <1>5. s[Len(s)] \in Frames(f) BY <1>1, <1>3, ElementOfSeq
  <1> QED BY <1>2, <1>3, <1>4, <1>5 DEF StackOk

LEMMA FrontIs ==
    ASSUME NEW S, NEW s \in Seq(S), s # <<>>
    PROVE  /\ Front(s) \in Seq(S) /\ Len(Front(s)) = Len(s) - 1
           /\ \A k \in 1 .. Len(s) - 1 : Front(s)[k] = s[k]
  <1> DEFINE n == Len(s)
             front == SubSeq(s, 1, n - 1)
  <1>1. n \in Nat \ {0} BY EmptySeq, LenProperties
  <1>2. 1 \in Int /\ n - 1 \in Int /\ \A k \in 1 .. n - 1 : s[k] \in S BY <1>1, ElementOfSeq
  <1>3. /\ front \in Seq(S)
        /\ Len(front) = IF 1 <= n - 1 THEN (n - 1) - 1 + 1 ELSE 0
        /\ \A k \in 1 .. (n - 1) - 1 + 1 : front[k] = s[1 + k - 1]
    BY <1>2, SubSeqProperties
  <1> HIDE DEF front
  <1>4. \A k \in 1 .. n - 1 : k \in 1 .. (n - 1) - 1 + 1 /\ 1 + k - 1 = k BY <1>1
  <1>5. Len(front) = n - 1
    <2> HIDE DEF n
    <2> QED BY <1>1, <1>3
  <1>6. \A k \in 1 .. n - 1 : front[k] = s[k] BY <1>3, <1>4
  <1> QED BY <1>3, <1>5, <1>6 DEF Front, front

\* The sequence with another last element.
LEMMA WithTop ==
    ASSUME NEW S, NEW s \in Seq(S), s # <<>>, NEW g \in S
    PROVE  LET t == Append(Front(s), g) IN
           /\ t \in Seq(S) /\ t # <<>> /\ Len(t) = Len(s) /\ t[Len(s)] = g
           /\ \A k \in 1 .. Len(s) - 1 : t[k] = s[k]
  <1> DEFINE n == Len(s)
             front == Front(s)
  <1>1. n \in Nat \ {0} BY EmptySeq, LenProperties
  <1>2. front \in Seq(S) /\ Len(front) = n - 1 /\ \A k \in 1 .. n - 1 : front[k] = s[k]
    BY FrontIs
  <1> HIDE DEF front
  <1> DEFINE t == Append(front, g)
  <1>3. /\ t \in Seq(S) /\ t # <<>> /\ Len(t) = (n - 1) + 1
        /\ \A k \in 1 .. n - 1 : t[k] = front[k]
        /\ t[(n - 1) + 1] = g
    BY <1>2, AppendProperties
  <1>4. (n - 1) + 1 = n BY <1>1
  <1> QED BY <1>2, <1>3, <1>4 DEF front

LEMMA SetTopKeeps ==
    ASSUME NEW f, NEW r, NEW s, NEW rests, StackOk(f, r, s, rests),
           NEW g, FrameOk(f, r, g, Len(s), rests[Len(s)]), g.call = Last(s).call
    PROVE  LET t == Append(Front(s), g) IN
           StackOk(f, r, t, rests) /\ Len(t) = Len(s) /\ t[Len(t)] = g /\ t # <<>>
  <1> DEFINE t == Append(Front(s), g)
             n == Len(s)
  <1>1. /\ n \in Nat \ {0} /\ n \in 1 .. n /\ Last(s) = s[n] BY TopIs
  <1>2. s \in Seq(Frames(f)) /\ s # <<>> /\ g \in Frames(f) BY DEF StackOk, FrameOk
  <1>3. /\ t \in Seq(Frames(f)) /\ t # <<>> /\ Len(t) = n /\ t[n] = g
        /\ \A k \in 1 .. n - 1 : t[k] = s[k]
    BY <1>2, WithTop, SMTT(30)
  <1> HIDE DEF t
  <1>4. ASSUME NEW k \in 1 .. n PROVE FrameOk(f, r, t[k], k, rests[k])
    <2>1. CASE k = n BY <1>3, <2>1
    <2>2. CASE k # n
      <3>1. k \in 1 .. n - 1 BY <1>1, <2>2
      <3> QED BY <1>3, <3>1 DEF StackOk
    <2> QED BY <2>1, <2>2
  <1>5. ASSUME NEW k \in 1 .. n - 1
        PROVE  /\ rests[k + 1] = Rest(t[k]) \o rests[k]
               /\ t[k].call # t[k + 1].call /\ (t[k].call = "resolve" => t[k].found)
    <2>1. /\ rests[k + 1] = Rest(s[k]) \o rests[k]
          /\ s[k].call # s[k + 1].call /\ (s[k].call = "resolve" => s[k].found)
      BY DEF StackOk
    <2>2. t[k] = s[k] BY <1>3
    <2>3. t[k + 1].call = s[k + 1].call
      <3>1. CASE k + 1 = n BY <1>1, <1>3, <3>1
      <3>2. CASE k + 1 # n
        <4>1. k + 1 \in 1 .. n - 1 BY <1>1, <3>2
        <4> QED BY <1>3, <4>1
      <3> QED BY <3>1, <3>2
    <2> QED BY <2>1, <2>2, <2>3
  <1>6. rests \in [1 .. n -> Seq(Names)] /\ rests[1] = <<>> BY DEF StackOk
  <1>7. t[1].call = r.call
    <2>1. s[1].call = r.call BY DEF StackOk
    <2>2. CASE n = 1 BY <1>1, <1>3, <2>1, <2>2
    <2>3. CASE n # 1
      <3>1. 1 \in 1 .. n - 1
        <4> HIDE DEF n
        <4> QED BY <1>1, <2>3
      <3> QED BY <1>3, <2>1, <3>1
    <2> QED BY <2>2, <2>3
  <1>8. StackOk(f, r, t, rests) BY <1>3, <1>4, <1>5, <1>6, <1>7 DEF StackOk
  <1> QED BY <1>3, <1>8 DEF t

Pushes(rests, n, rest) == [k \in 1 .. n + 1 |-> IF k = n + 1 THEN rest ELSE rests[k]]

\* The stack t has top g, behind which rest is left.
HasTop(f, r, t, rests, g, rest) ==
    StackOk(f, r, t, rests) /\ t[Len(t)] = g /\ t # <<>> /\ rests[Len(t)] = rest

LEMMA CallKeeps ==
    ASSUME NEW f, NEW r, NEW s, NEW rests, StackOk(f, r, s, rests),
           NEW g, FrameOk(f, r, g, Len(s), rests[Len(s)]), g.call = Last(s).call,
           g.call = "resolve" => g.found, Rest(g) \in Seq(Names),
           NEW h, FrameOk(f, r, h, Len(s) + 1, Rest(g) \o rests[Len(s)]), h.call # g.call
    PROVE  LET left == Rest(g) \o rests[Len(s)] IN
           HasTop(f, r, Append(Append(Front(s), g), h), Pushes(rests, Len(s), left), h, left)
  <1> DEFINE v == Append(Front(s), g)
             t == Append(v, h)
             n == Len(s)
             rest == Rest(g) \o rests[n]
             u == Pushes(rests, n, rest)
  <1>1. n \in Nat \ {0} /\ n \in 1 .. n /\ rests[n] \in Seq(Names) BY TopIs
  <1>2. StackOk(f, r, v, rests) /\ Len(v) = n /\ v[n] = g BY SetTopKeeps
  <1> HIDE DEF v
  <1>3. v \in Seq(Frames(f)) /\ h \in Frames(f) BY <1>2 DEF StackOk, FrameOk
  <1>4. /\ t \in Seq(Frames(f)) /\ t # <<>> /\ Len(t) = n + 1
        /\ \A k \in 1 .. n : t[k] = v[k]
        /\ t[n + 1] = h
    BY <1>2, <1>3, AppendProperties
  <1> HIDE DEF t
  <1>5. rest \in Seq(Names) BY <1>1, Joined
  <1>6. rests \in [1 .. n -> Seq(Names)] /\ rests[1] = <<>> BY DEF StackOk
  <1>7. /\ FrameOk(f, r, h, n + 1, rest) OBVIOUS
  <1>8. rest = Rest(g) \o rests[n] OBVIOUS
  <1> HIDE DEF rest
  <1>9. u \in [1 .. n + 1 -> Seq(Names)] /\ u[1] = <<>> /\ u[n + 1] = rest
        /\ \A k \in 1 .. n : u[k] = rests[k]
    BY <1>1, <1>5, <1>6 DEF Pushes
  <1> HIDE DEF u
  <1>10. ASSUME NEW k \in 1 .. n + 1 PROVE FrameOk(f, r, t[k], k, u[k])
    <2>1. CASE k = n + 1 BY <1>4, <1>7, <1>9, <2>1
    <2>2. CASE k # n + 1
      <3>1. k \in 1 .. n BY <1>1, <2>2
      <3>2. FrameOk(f, r, v[k], k, rests[k]) BY <1>2, <3>1 DEF StackOk
      <3> QED BY <1>4, <1>9, <3>1, <3>2
    <2> QED BY <2>1, <2>2
  <1>11. ASSUME NEW k \in 1 .. n
         PROVE  /\ u[k + 1] = Rest(t[k]) \o u[k]
                /\ t[k].call # t[k + 1].call /\ (t[k].call = "resolve" => t[k].found)
    <2>1. CASE k = n
      <3>1. t[n] = g /\ u[n] = rests[n] BY <1>1, <1>2, <1>4, <1>9
      <3> QED BY <1>4, <1>8, <1>9, <2>1, <3>1
    <2>2. CASE k # n
      <3>1. k \in 1 .. n - 1 /\ k + 1 \in 1 .. n BY <1>1, <2>2
      <3>2. /\ rests[k + 1] = Rest(v[k]) \o rests[k]
            /\ v[k].call # v[k + 1].call /\ (v[k].call = "resolve" => v[k].found)
        BY <1>2, <3>1 DEF StackOk
      <3>3. t[k] = v[k] /\ t[k + 1] = v[k + 1] /\ u[k] = rests[k] /\ u[k + 1] = rests[k + 1]
        BY <1>4, <1>9, <3>1
      <3> QED BY <3>2, <3>3
    <2> QED BY <2>1, <2>2
  <1>12. (n + 1) - 1 = n BY <1>1
  <1>13. t[1].call = r.call
    <2>1. v[1].call = r.call BY <1>2 DEF StackOk
    <2>2. 1 \in 1 .. n BY <1>1
    <2> QED BY <1>4, <2>1, <2>2
  <1>14. StackOk(f, r, t, u) BY <1>4, <1>9, <1>10, <1>11, <1>12, <1>13 DEF StackOk
  <1> QED BY <1>4, <1>9, <1>14 DEF t, u, v, rest, HasTop

Pops(rests, n) == [k \in 1 .. n - 1 |-> rests[k]]

LEMMA ReturnKeeps ==
    ASSUME NEW f, NEW r, NEW s, NEW rests, StackOk(f, r, s, rests), Len(s) # 1,
           NEW g, FrameOk(f, r, g, Len(s) - 1, rests[Len(s) - 1]), g.call = s[Len(s) - 1].call
    PROVE  HasTop(f, r, Append(Front(Front(s)), g), Pops(rests, Len(s)), g, rests[Len(s) - 1])
  <1> DEFINE v == Front(s)
             t == Append(Front(v), g)
             n == Len(s)
             u == Pops(rests, n)
  <1>1. n \in Nat \ {0, 1} /\ n - 1 \in Nat \ {0} /\ n - 1 \in 1 .. n - 1
    <2>1. n \in Nat \ {0} /\ n # 1 BY TopIs
    <2> HIDE DEF n
    <2> QED BY <2>1
  <1>2. s \in Seq(Frames(f)) /\ rests \in [1 .. n -> Seq(Names)] /\ rests[1] = <<>> BY DEF StackOk
  <1>3. v \in Seq(Frames(f)) /\ Len(v) = n - 1 /\ \A k \in 1 .. n - 1 : v[k] = s[k]
    <2>1. s # <<>> BY DEF StackOk
    <2> QED BY <1>2, <2>1, FrontIs
  <1> HIDE DEF v
  <1>4. v # <<>>
    <2>1. Len(<<>>) = 0 OBVIOUS
    <2> QED BY <1>1, <1>3, <2>1
  <1>5. u \in [1 .. n - 1 -> Seq(Names)] /\ u[1] = <<>> /\ \A k \in 1 .. n - 1 : u[k] = rests[k]
    BY <1>1, <1>2 DEF Pops
  <1> HIDE DEF u
  <1>6. StackOk(f, r, v, u)
    <2>1. \A k \in 1 .. n - 1 : k \in 1 .. n /\ (k \in 1 .. (n - 1) - 1 => k + 1 \in 1 .. n - 1)
      BY <1>1
    <2>2. \A k \in 1 .. n - 1 : FrameOk(f, r, v[k], k, u[k]) BY <1>3, <1>5, <2>1 DEF StackOk
    <2>3. ASSUME NEW k \in 1 .. (n - 1) - 1
          PROVE  /\ u[k + 1] = Rest(v[k]) \o u[k]
                 /\ v[k].call # v[k + 1].call /\ (v[k].call = "resolve" => v[k].found)
      <3>1. k \in 1 .. n - 1 /\ k + 1 \in 1 .. n - 1 BY <1>1
      <3>2. /\ rests[k + 1] = Rest(s[k]) \o rests[k]
            /\ s[k].call # s[k + 1].call /\ (s[k].call = "resolve" => s[k].found)
        BY <3>1 DEF StackOk
      <3> QED BY <1>3, <1>5, <3>1, <3>2
    <2>4. v[1].call = r.call
      <3>1. 1 \in 1 .. n - 1 BY <1>1
      <3> QED BY <1>3, <3>1 DEF StackOk
    <2> QED BY <1>3, <1>4, <1>5, <2>2, <2>3, <2>4 DEF StackOk
  <1>7. Last(v).call = g.call
    <2>1. Last(v) = v[n - 1] BY <1>3 DEF Last
    <2> QED BY <1>1, <1>3, <2>1
  <1>8. FrameOk(f, r, g, Len(v), u[Len(v)]) BY <1>1, <1>3, <1>5
  <1>9. StackOk(f, r, t, u) /\ Len(t) = Len(v) /\ t[Len(t)] = g /\ t # <<>>
    BY <1>6, <1>7, <1>8, SetTopKeeps
  <1> QED BY <1>1, <1>3, <1>5, <1>9 DEF u, v, HasTop

-----------------------------------------------------------------------------
(* Where the walk is *)

LEMMA StartIs ==
    ASSUME NEW f \in FileSystems, NEW r \in Requests
    PROVE  Start(f, r) \in Places(f)
  <1>1. /\ r.from \in Nodes(f)
        /\ \/ r.call = "follow" /\ f.kind[r.from] = "link"
           \/ r.call = "resolve" /\ r.path \in Path /\ r.follow_last \in BOOLEAN
    BY PathAssumption DEF IsRequest, Nodes
  <1>2. CASE r.call = "follow" /\ f.kind[r.from] = "link"
    <2>1. r.from # Root BY <1>2, VolumeIs
    <2>2. f.parent[r.from] \in Nodes(f) /\ f.target[r.from].comps \in Seq(Names)
      BY <1>1, <1>2, <2>1, VolumeIs
    <2> QED BY <1>2, <2>2, PlaceIs DEF Start
  <1>3. CASE r.call = "resolve" /\ r.path \in Path
    <2>1. r.path.comps \in Seq(Names) BY <1>3 DEF Path
    <2>2. (IF r.path.abs THEN Root ELSE r.from) \in Nodes(f) BY <1>1, VolumeIs
    <2> QED BY <1>3, <2>1, <2>2, PlaceIs DEF Start
  <1> QED BY <1>1, <1>2, <1>3

LEMMA MeansAfter ==
    ASSUME NEW f \in FileSystems, NEW r, NEW c \in Places(f), NEW d,
           Means(f, r, c), Goes(f, FALSE, FollowsLast(r), c, d)
    PROVE  Means(f, r, d)
  <1> DEFINE fl == FollowsLast(r)
  <1> HIDE DEF fl
  <1>1. ASSUME NEW x, Leads(f, FALSE, fl, d, x) PROVE Leads(f, FALSE, fl, c, x)
    BY <1>1, LeadsBack DEF fl
  <1>2. ASSUME NEW x, Leads(f, TRUE, fl, c, x) PROVE Leads(f, TRUE, fl, d, x)
    <2>1. c.rest # <<>> BY DEF Goes
    <2>2. PICK e \in Places(f) : Goes(f, TRUE, fl, c, e) /\ Leads(f, TRUE, fl, e, x)
      BY <1>2, <2>1, LeadsOn
    <2>3. Goes(f, FALSE, fl, c, e) BY <2>2, GoesUntested
    <2>4. e = d BY <2>3, GoesUnique DEF fl
    <2> QED BY <2>2, <2>4
  <1> QED BY <1>1, <1>2 DEF Means, fl

LEMMA ArrivingGoes ==
    ASSUME NEW f \in FileSystems, NEW r, NEW c \in Places(f), c.rest # <<>>,
           Means(f, r, c), Arriving(f, r)
    PROVE  \E d \in Places(f) : Goes(f, TRUE, FollowsLast(r), c, d)
  <1>1. PICK x \in Nodes(f) : Leads(f, TRUE, FollowsLast(r), Start(f, r), x) BY DEF Arriving
  <1>2. Leads(f, TRUE, FollowsLast(r), c, x) BY <1>1 DEF Means, Arriving
  <1> QED BY <1>2, LeadsOn

LEMMA ResolveIs ==
    ASSUME NEW f, NEW r, NEW k, NEW frame \in Frames(f), frame.call = "resolve",
           ResolveOk(r, frame, k)
    PROVE  /\ frame \in ResolveFrames(f) /\ frame.at \in Nodes(f) /\ frame.dirs \in Seq(Names)
           /\ frame.i \in Nat \ {0} /\ frame.found \in BOOLEAN /\ frame.follow_last \in BOOLEAN
           /\ Len(frame.dirs) \in Nat
           /\ frame.i \in 1 .. Len(frame.dirs) + 1
           /\ Rest(frame) \in Seq(Names)
           /\ Rest(frame) = Behind(frame.dirs, IF frame.found THEN frame.i ELSE frame.i - 1)
           /\ (IF frame.found THEN frame.i ELSE frame.i - 1) \in 0 .. Len(frame.dirs)
  <1>1. frame \in ResolveFrames(f) BY DEF Frames, FollowFrames
  <1>2. /\ frame.at \in Nodes(f) /\ frame.dirs \in Seq(Names) /\ frame.i \in Nat \ {0}
        /\ frame.found \in BOOLEAN /\ frame.follow_last \in BOOLEAN
    BY <1>1 DEF ResolveFrames
  <1>3. Len(frame.dirs) \in Nat BY <1>2, LenProperties
  <1>4. frame.i <= Len(frame.dirs) + 1 /\ (frame.found => frame.i <= Len(frame.dirs))
    BY DEF ResolveOk
  <1> DEFINE n == IF frame.found THEN frame.i ELSE frame.i - 1
  <1>5. n \in 0 .. Len(frame.dirs) BY <1>2, <1>3, <1>4
  <1>6. frame.i \in 1 .. Len(frame.dirs) + 1 BY <1>2, <1>3, <1>4
  <1>7. Rest(frame) = Behind(frame.dirs, n) BY DEF Rest
  <1> HIDE DEF n
  <1>8. Rest(frame) \in Seq(Names) BY <1>2, <1>5, <1>7, BehindIs
  <1> QED BY <1>1, <1>2, <1>3, <1>5, <1>6, <1>7, <1>8 DEF n

LEMMA FollowIs ==
    ASSUME NEW f, NEW frame \in Frames(f), frame.call # "resolve"
    PROVE  /\ frame \in FollowFrames(f) /\ frame.call = "follow" /\ frame.at \in Nodes(f)
           /\ frame.seen \in SUBSET Nodes(f) /\ frame.level = -1 /\ Rest(frame) = <<>>
  <1>1. frame \in FollowFrames(f) BY DEF Frames, ResolveFrames
  <1> QED BY <1>1 DEF FollowFrames, Rest

LEMMA HereIs ==
    ASSUME NEW f \in FileSystems, NEW r, NEW k, NEW rest \in Seq(Names), NEW frame, FrameOk(f, r, frame, k, rest)
    PROVE  Here(f, frame, rest) \in Places(f) /\ frame.at \in Nodes(f) /\ Rest(frame) \in Seq(Names)
  <1>1. frame \in Frames(f) /\ (frame.call = "resolve" => ResolveOk(r, frame, k)) BY DEF FrameOk
  <1>2. CASE frame.call = "resolve"
    <2>1. frame.at \in Nodes(f) /\ Rest(frame) \in Seq(Names) BY <1>1, <1>2, ResolveIs
    <2>2. Rest(frame) \o rest \in Seq(Names) BY <2>1, Joined
    <2> QED BY <1>2, <2>1, <2>2, PlaceIs DEF Here
  <1>3. CASE frame.call # "resolve"
    <2>1. frame.at \in Nodes(f) /\ Rest(frame) = <<>> BY <1>1, <1>3, FollowIs
    <2>2. CASE f.kind[frame.at] = "link"
      <3>1. frame.at # Root BY <2>2, VolumeIs
      <3>2. f.parent[frame.at] \in Nodes(f) /\ f.target[frame.at].comps \in Seq(Names)
        BY <2>1, <2>2, <3>1, VolumeIs
      <3>3. f.target[frame.at].comps \o rest \in Seq(Names) BY <3>2, Joined
      <3>4. Here(f, frame, rest) = Place(f.parent[frame.at], f.target[frame.at].comps \o rest)
        BY <1>3, <2>2 DEF Here
      <3>5. Here(f, frame, rest) \in Places(f) BY <3>2, <3>3, <3>4, PlaceIs
      <3>6. <<>> \in Seq(Names) OBVIOUS
      <3> QED BY <2>1, <3>5, <3>6
    <2>3. CASE f.kind[frame.at] # "link"
      <3>1. Here(f, frame, rest) \in Places(f) BY <1>3, <2>1, <2>3, PlaceIs DEF Here
      <3>2. <<>> \in Seq(Names) OBVIOUS
      <3> QED BY <2>1, <3>1, <3>2
    <2> QED BY <2>2, <2>3
  <1> QED BY <1>2, <1>3

\* What is left behind the component in hand.
Left(frame, rest) == Behind(frame.dirs, frame.i) \o rest

\* While resolve has a component in hand, it is the next one of the walk.
IsNext(f, frame, rest) ==
    LET Q == Left(frame, rest)
        c == Here(f, frame, rest)
    IN  /\ Q \in Seq(Names) /\ (Q = <<>> <=> frame.i = Len(frame.dirs) /\ rest = <<>>)
        /\ c \in Places(f) /\ c.at = frame.at /\ c.rest # <<>>
        /\ Head(c.rest) = frame.dirs[frame.i] /\ Tail(c.rest) = Q
        /\ frame.dirs[frame.i] \in Names /\ frame.dirs[frame.i] # "."

LEMMA NextIs ==
    ASSUME NEW f \in FileSystems, NEW r, NEW k, NEW rest \in Seq(Names), NEW frame,
           FrameOk(f, r, frame, k, rest),
           frame.call = "resolve", ~frame.found, frame.i <= Len(frame.dirs)
    PROVE  IsNext(f, frame, rest)
  <1> DEFINE dirs == frame.dirs
             Q == Behind(dirs, frame.i) \o rest
             q == dirs[frame.i]
             c == Here(f, frame, rest)
  <1>1. frame \in Frames(f) /\ ResolveOk(r, frame, k) BY DEF FrameOk
  <1>2. /\ frame.at \in Nodes(f) /\ dirs \in Seq(Names) /\ frame.i \in Nat \ {0} /\ Len(dirs) \in Nat
        /\ Rest(frame) = Behind(dirs, frame.i - 1)
    BY <1>1, ResolveIs
  <1>3. frame.i \in 1 .. Len(dirs) /\ frame.i \in 0 .. Len(dirs) BY <1>2
  <1>4. /\ Behind(dirs, frame.i) \in Seq(Names) /\ q \in Names
        /\ Behind(dirs, frame.i - 1) = <<q>> \o Behind(dirs, frame.i)
        /\ (Behind(dirs, frame.i) = <<>> <=> frame.i = Len(dirs))
    <2> HIDE DEF dirs
    <2>1. Behind(dirs, frame.i) \in Seq(Names) /\ (Behind(dirs, frame.i) = <<>> <=> frame.i = Len(dirs))
      BY <1>2, <1>3, BehindIs
    <2>2. dirs[frame.i] \in Names /\ Behind(dirs, frame.i - 1) = <<dirs[frame.i]>> \o Behind(dirs, frame.i)
      BY <1>2, <1>3, BehindIs, SMTT(30)
    <2> QED BY <2>1, <2>2
  <1>5. Q \in Seq(Names) /\ (Q = <<>> <=> frame.i = Len(dirs) /\ rest = <<>>) BY <1>4, Joined
  <1>6. q # "." BY <1>1, <1>3 DEF ResolveOk
  <1>7. c = Place(frame.at, <<q>> \o Q)
    <2>1. <<q>> \in Seq(Names) BY <1>4, Single
    <2>2. (<<q>> \o Behind(dirs, frame.i)) \o rest = <<q>> \o Q BY <1>4, <2>1, Joined
    <2>3. c = Place(frame.at, Rest(frame) \o rest) BY DEF Here
    <2> QED BY <1>2, <1>4, <2>2, <2>3
  <1>8. <<q>> \o Q \in Seq(Names) /\ <<q>> \o Q # <<>> /\ Head(<<q>> \o Q) = q /\ Tail(<<q>> \o Q) = Q
    BY <1>4, <1>5, Parts
  <1> HIDE DEF q, Q, c
  <1>9. c \in Places(f) /\ c.at = frame.at /\ c.rest = <<q>> \o Q
    <2> DEFINE w == <<q>> \o Q
    <2>1. c = Place(frame.at, w) /\ w \in Seq(Names) BY <1>7, <1>8
    <2> HIDE DEF w
    <2>2. c \in Places(f) /\ c.at = frame.at /\ c.rest = w BY <1>2, <2>1, PlaceIs
    <2> QED BY <2>2 DEF w
  <1> QED BY <1>4, <1>5, <1>6, <1>8, <1>9 DEF q, Q, c, Left, IsNext

-----------------------------------------------------------------------------
(* How a call ends *)

LEMMA OutcomesAre ==
    ASSUME NEW f \in FileSystems
    PROVE  /\ Error # Pending /\ Overflow # Pending /\ Error # Overflow
           /\ Error \notin Nodes(f) /\ Overflow \notin Nodes(f) /\ Pending \notin Nodes(f)
  BY PathAssumption DEF WellFormed, Nodes

LEMMA ErrorEnds ==
    ASSUME NEW f \in FileSystems, NEW r, ~Arriving(f, r)
    PROVE  Ended(f, r, Error)
  BY OutcomesAre DEF Ended, Arriving

LEMMA OverflowEnds ==
    ASSUME NEW f \in FileSystems, NEW r
    PROVE  Ended(f, r, Overflow)
  BY OutcomesAre DEF Ended

LEMMA ArrivalEnds ==
    ASSUME NEW f \in FileSystems, NEW r, NEW at \in Nodes(f), Means(f, r, Place(at, <<>>))
    PROVE  Ended(f, r, at)
  <1>1. at # Pending BY OutcomesAre
  <1>2. AllDotsFirst(f, r) => Leads(f, FALSE, FollowsLast(r), Start(f, r), at)
    <2>1. Leads(f, FALSE, FollowsLast(r), Place(at, <<>>), at) BY LeadsAtEnd
    <2> QED BY <2>1 DEF Means
  <1>3. ASSUME AllPlain(f, r), NEW x \in Nodes(f), Leads(f, TRUE, FollowsLast(r), Start(f, r), x)
        PROVE  at = x
    <2>1. Leads(f, TRUE, FollowsLast(r), Place(at, <<>>), x) BY <1>3 DEF Means
    <2> QED BY <2>1, LeadsAtEnd
  <1> QED BY <1>1, <1>2, <1>3 DEF Ended

-----------------------------------------------------------------------------
(* The steps of resolve keep the invariant *)

\* The activation has taken another place, or has gone on to the next component.
Moved(frame, at, i, found) == [frame EXCEPT !.at = at, !.i = i, !.found = found]
IsMoved(frame, at, i, found, g) ==
    /\ g.call = "resolve" /\ g.at = at /\ g.i = i /\ g.found = found
    /\ g.dirs = frame.dirs /\ g.follow_last = frame.follow_last

LEMMA ResolveMoved ==
    ASSUME NEW f, NEW r, NEW k, NEW rest, NEW frame, FrameOk(f, r, frame, k, rest),
           frame.call = "resolve", NEW at \in Nodes(f), NEW i \in Nat \ {0}, NEW found \in BOOLEAN,
           i <= Len(frame.dirs) + 1, found => i <= Len(frame.dirs)
    PROVE  LET g == Moved(frame, at, i, found) IN
           FrameOk(f, r, g, k, rest) /\ IsMoved(frame, at, i, found, g)
  <1> DEFINE g == Moved(frame, at, i, found)
  <1>1. frame \in Frames(f) /\ ResolveOk(r, frame, k) BY DEF FrameOk
  <1>2. frame \in ResolveFrames(f) BY <1>1, ResolveIs
  <1>3. /\ g \in ResolveFrames(f) /\ g.call = "resolve" /\ g.at = at /\ g.i = i /\ g.found = found
        /\ g.dirs = frame.dirs /\ g.follow_last = frame.follow_last
    BY <1>2 DEF ResolveFrames, Moved
  <1> HIDE DEF g
  <1>4. ResolveOk(r, g, k) BY <1>1, <1>3 DEF ResolveOk
  <1>5. FrameOk(f, r, g, k, rest) BY <1>3, <1>4 DEF FrameOk, Frames
  <1>6. IsMoved(frame, at, i, found, g) BY <1>3 DEF IsMoved
  <1> QED BY <1>5, <1>6 DEF g

LEMMA LinkIsNotRoot ==
    ASSUME NEW f \in FileSystems, NEW node \in Nodes(f), f.kind[node] = "link"
    PROVE  /\ node # Root /\ f.parent[node] \in Nodes(f) /\ f.kind[f.parent[node]] = "dir"
           /\ f.target[node] \in Path /\ f.target[node].comps \in Seq(Names)
  <1>1. node # Root BY VolumeIs
  <1> QED BY <1>1, VolumeIs

\* What ToParent does.
Above(f, frame) ==
    [frame EXCEPT !.at = IF frame.at = Root THEN Root ELSE f.parent[frame.at], !.i = @ + 1]

LEMMA ToParentKeeps ==
    ASSUME NEW f \in FileSystems, NEW r, NEW k, NEW rest \in Seq(Names), NEW frame,
           FrameOk(f, r, frame, k, rest), TopOk(f, r, frame, rest),
           frame.call = "resolve", ~frame.found, frame.i <= Len(frame.dirs),
           frame.dirs[frame.i] = ".."
    PROVE  LET g == Above(f, frame) IN
           FrameOk(f, r, g, k, rest) /\ TopOk(f, r, g, rest) /\ g.call = "resolve"
  <1> DEFINE at == IF frame.at = Root THEN Root ELSE f.parent[frame.at]
             i == frame.i + 1
             g == Above(f, frame)
             Q == Left(frame, rest)
             c == Here(f, frame, rest)
  <1>1. frame \in Frames(f) /\ ResolveOk(r, frame, k) BY DEF FrameOk
  <1>2. /\ frame \in ResolveFrames(f) /\ frame.at \in Nodes(f) /\ frame.dirs \in Seq(Names)
        /\ frame.i \in Nat \ {0} /\ frame.found = FALSE /\ Len(frame.dirs) \in Nat
    BY <1>1, ResolveIs
  <1>3. /\ Q \in Seq(Names) /\ c \in Places(f) /\ c.at = frame.at /\ c.rest # <<>>
        /\ Head(c.rest) = ".." /\ Tail(c.rest) = Q
    <2>1. IsNext(f, frame, rest) BY NextIs
    <2> QED BY <2>1 DEF IsNext
  <1>4. at \in Nodes(f) /\ f.kind[at] = "dir" BY <1>2, VolumeIs
  <1>5. i \in Nat \ {0} /\ i <= Len(frame.dirs) + 1 /\ i - 1 = frame.i BY <1>2
  <1>6. g = [frame EXCEPT !.at = at, !.i = i, !.found = FALSE] BY <1>2 DEF ResolveFrames, Above
  <1> HIDE DEF g
  <1>7. /\ FrameOk(f, r, g, k, rest) /\ g.call = "resolve" /\ g.at = at /\ g.i = i
        /\ g.found = FALSE /\ g.dirs = frame.dirs
    <2> DEFINE found == FALSE
    <2>1. found \in BOOLEAN /\ (found => i <= Len(frame.dirs)) OBVIOUS
    <2>2. g = Moved(frame, at, i, found) BY <1>6 DEF Moved
    <2> HIDE DEF at, i, found
    <2>3. FrameOk(f, r, g, k, rest) /\ IsMoved(frame, at, i, found, g)
      BY <1>4, <1>5, <2>1, <2>2, ResolveMoved
    <2> QED BY <2>3 DEF found, IsMoved
  <1>8. Here(f, g, rest) = Place(at, Q) BY <1>5, <1>7 DEF Here, Rest, Left
  <1>9. Goes(f, FALSE, FollowsLast(r), c, Place(at, Q)) BY <1>3 DEF Goes
  <1>10. Means(f, r, Place(at, Q))
    <2>1. Means(f, r, c) BY DEF TopOk
    <2> QED BY <1>3, <1>9, <2>1, MeansAfter
  <1>11. Followed(f, g) BY <1>4, <1>7 DEF Followed
  <1>12. Fits(f, r, g, rest) BY <1>4, <1>7 DEF Fits, Passable, DirBits
  <1> QED BY <1>7, <1>8, <1>10, <1>11, <1>12 DEF TopOk, g

\* A link at the end of the components of an activation is followed if the call
\* follows one there, or there are components left for others.
LEMMA LastIs ==
    ASSUME NEW f, NEW r, NEW k \in Nat \ {0}, NEW rest, NEW frame, FrameOk(f, r, frame, k, rest),
           k = 1 => rest = <<>>, frame.call = "resolve", NEW last \in BOOLEAN
    PROVE  (frame.follow_last \/ ~last) <=> (FollowsLast(r) \/ ~(last /\ rest = <<>>))
  <1>1. ResolveOk(r, frame, k) BY DEF FrameOk
  <1>2. CASE k = 1 BY <1>1, <1>2 DEF ResolveOk
  <1>3. CASE k > 1 BY <1>1, <1>3 DEF ResolveOk, FrameOk
  <1> QED BY <1>2, <1>3

\* What a name leads to.
Named(f, frame) == f.entry[<<frame.at, frame.dirs[frame.i]>>]
FollowsIt(frame) == frame.follow_last \/ frame.i # Len(frame.dirs)
IsNamed(f, r, frame, rest) ==
    LET inode == Named(f, frame)
        Q == Left(frame, rest)
        follows == FollowsIt(frame) /\ f.kind[inode] = "link"
        d == IF follows THEN Place(frame.at, f.target[inode].comps \o Q) ELSE Place(inode, Q)
    IN  /\ inode \in Nodes(f) /\ Q \in Seq(Names) /\ Means(f, r, d)
        /\ f.kind[inode] = "link" => f.parent[inode] = frame.at
        /\ Arriving(f, r) /\ ~follows => Passable(f, inode, Q)
        /\ FollowsIt(frame) => FollowsLast(r) \/ Q # <<>>

LEMMA NameLeads ==
    ASSUME NEW f \in FileSystems, NEW r, NEW k \in Nat \ {0}, NEW rest \in Seq(Names), NEW frame,
           FrameOk(f, r, frame, k, rest), TopOk(f, r, frame, rest), k = 1 => rest = <<>>,
           frame.call = "resolve", ~frame.found, frame.i <= Len(frame.dirs),
           frame.dirs[frame.i] # "..", <<frame.at, frame.dirs[frame.i]>> \in DOMAIN f.entry
    PROVE  IsNamed(f, r, frame, rest)
  <1> DEFINE name == frame.dirs[frame.i]
             here == <<frame.at, name>>
             inode == f.entry[here]
             Q == Left(frame, rest)
             c == Here(f, frame, rest)
             last == frame.i = Len(frame.dirs)
             fl == FollowsLast(r)
             link == f.kind[inode] = "link"
  <1>1. /\ Q \in Seq(Names) /\ (Q = <<>> <=> last /\ rest = <<>>)
        /\ c \in Places(f) /\ c.at = frame.at /\ c.rest # <<>>
        /\ Head(c.rest) = name /\ Tail(c.rest) = Q /\ name # "."
    <2>1. IsNext(f, frame, rest) BY NextIs
    <2> QED BY <2>1 DEF IsNext
  <1>2. inode \in Nodes(f) /\ f.parent[inode] = frame.at BY EntryIs
  <1>3. (frame.follow_last \/ ~last) <=> (fl \/ Q # <<>>) BY <1>1, LastIs
  <1> DEFINE d == IF (fl \/ Q # <<>>) /\ link THEN Place(frame.at, f.target[inode].comps \o Q)
                  ELSE Place(inode, Q)
  <1>4. Goes(f, FALSE, fl, c, d) BY <1>1 DEF Goes, ByName, Dots
  <1>5. Means(f, r, d)
    <2>1. Means(f, r, c) BY DEF TopOk
    <2> HIDE DEF c, d
    <2> QED BY <1>1, <1>4, <2>1, MeansAfter
  <1>6. ASSUME Arriving(f, r), ~((fl \/ Q # <<>>) /\ link) PROVE Passable(f, inode, Q)
    <2>1. Means(f, r, c) BY DEF TopOk
    <2>2. PICK e \in Places(f) : Goes(f, TRUE, fl, c, e)
      <3> HIDE DEF c
      <3> QED BY <1>1, <1>6, <2>1, ArrivingGoes
    <2>3. ByName(f, TRUE, fl, c, e) BY <1>1, <2>2 DEF Goes, Dots
    <2> QED BY <1>1, <1>6, <2>3 DEF ByName
  <1> QED BY <1>1, <1>2, <1>3, <1>5, <1>6 DEF IsNamed, Named, FollowsIt

LEMMA NoNameLeads ==
    ASSUME NEW f \in FileSystems, NEW r, NEW k, NEW rest \in Seq(Names), NEW frame,
           FrameOk(f, r, frame, k, rest), TopOk(f, r, frame, rest),
           frame.call = "resolve", ~frame.found, frame.i <= Len(frame.dirs),
           frame.dirs[frame.i] # "..", <<frame.at, frame.dirs[frame.i]>> \notin DOMAIN f.entry
    PROVE  ~Arriving(f, r)
  <1> DEFINE c == Here(f, frame, rest)
  <1>1. /\ c \in Places(f) /\ c.at = frame.at /\ c.rest # <<>>
        /\ Head(c.rest) = frame.dirs[frame.i] /\ frame.dirs[frame.i] # "."
    <2>1. IsNext(f, frame, rest) BY NextIs
    <2> QED BY <2>1 DEF IsNext
  <1>2. Means(f, r, c) BY DEF TopOk
  <1> HIDE DEF c
  <1>3. SUFFICES ASSUME Arriving(f, r) PROVE FALSE OBVIOUS
  <1>4. PICK e \in Places(f) : Goes(f, TRUE, FollowsLast(r), c, e)
    BY <1>1, <1>2, <1>3, ArrivingGoes
  <1> QED BY <1>1, <1>4 DEF Goes, ByName, Dots
\* A name that is not followed has been found.
LEMMA FoundKeeps ==
    ASSUME NEW f \in FileSystems, NEW r, NEW k \in Nat \ {0}, NEW rest \in Seq(Names), NEW frame,
           FrameOk(f, r, frame, k, rest), TopOk(f, r, frame, rest), k = 1 => rest = <<>>,
           frame.call = "resolve", ~frame.found, frame.i <= Len(frame.dirs),
           frame.dirs[frame.i] # "..", <<frame.at, frame.dirs[frame.i]>> \in DOMAIN f.entry
    PROVE  LET inode == Named(f, frame)
               g == [frame EXCEPT !.at = inode, !.found = TRUE]
               follows == FollowsIt(frame) /\ LinkBits(f.kind[inode])
               h == FollowFrame(inode, -1)
               Q == Left(frame, rest)
           IN  /\ FrameOk(f, r, g, k, rest) /\ g.call = "resolve" /\ g.found
               /\ Rest(g) \in Seq(Names) /\ Rest(g) \o rest = Q
               /\ ~follows => TopOk(f, r, g, rest)
               /\ follows => FrameOk(f, r, h, k + 1, Q) /\ TopOk(f, r, h, Q) /\ h.call = "follow"
  <1> DEFINE inode == Named(f, frame)
             g == [frame EXCEPT !.at = inode, !.found = TRUE]
             follows == FollowsIt(frame) /\ LinkBits(f.kind[inode])
             h == FollowFrame(inode, -1)
             Q == Left(frame, rest)
             linked == FollowsIt(frame) /\ f.kind[inode] = "link"
             d == IF linked THEN Place(frame.at, f.target[inode].comps \o Q) ELSE Place(inode, Q)
  <1>1. frame \in Frames(f) /\ ResolveOk(r, frame, k) BY DEF FrameOk
  <1>2. /\ frame \in ResolveFrames(f) /\ frame.at \in Nodes(f) /\ frame.dirs \in Seq(Names)
        /\ frame.i \in Nat \ {0} /\ frame.found = FALSE /\ Len(frame.dirs) \in Nat
    BY <1>1, ResolveIs
  <1>3. /\ inode \in Nodes(f) /\ Q \in Seq(Names) /\ Means(f, r, d)
        /\ f.kind[inode] = "link" => f.parent[inode] = frame.at
        /\ Arriving(f, r) /\ ~linked => Passable(f, inode, Q)
        /\ FollowsIt(frame) => FollowsLast(r) \/ Q # <<>>
    <2>1. IsNamed(f, r, frame, rest) BY NameLeads
    <2> QED BY <2>1 DEF IsNamed
  <1> HIDE DEF inode, Q
  <1>4. /\ FrameOk(f, r, g, k, rest) /\ g.call = "resolve" /\ g.at = inode /\ g.i = frame.i
        /\ g.found = TRUE /\ g.dirs = frame.dirs /\ g.follow_last = frame.follow_last
    <2> DEFINE found == TRUE
               i == frame.i
    <2>1. /\ found \in BOOLEAN /\ (found => i <= Len(frame.dirs)) /\ i \in Nat \ {0}
          /\ i <= Len(frame.dirs) + 1
      BY <1>2
    <2>2. g = Moved(frame, inode, i, found) BY <1>2 DEF Moved, ResolveFrames
    <2> HIDE DEF g, i, found
    <2>3. FrameOk(f, r, g, k, rest) /\ IsMoved(frame, inode, i, found, g)
      BY <1>3, <2>1, <2>2, ResolveMoved
    <2> QED BY <2>3 DEF found, i, IsMoved
  <1> HIDE DEF g
  <1>5. Rest(g) = Behind(frame.dirs, frame.i) /\ Rest(g) \o rest = Q BY <1>4 DEF Rest, Left, Q
  <1>6. Rest(g) \in Seq(Names)
    <2>1. g \in Frames(f) /\ ResolveOk(r, g, k) BY <1>4 DEF FrameOk
    <2> QED BY <1>4, <2>1, ResolveIs
  <1>7. ASSUME ~follows PROVE TopOk(f, r, g, rest)
    <2>1. ~linked BY <1>7 DEF LinkBits
    <2>2. Here(f, g, rest) = Place(inode, Q) BY <1>4, <1>5 DEF Here
    <2>3. Means(f, r, Here(f, g, rest)) BY <1>3, <2>1, <2>2
    <2>4. Followed(f, g)
      <3>1. frame.follow_last => f.kind[inode] # "link" BY <1>7 DEF FollowsIt, LinkBits
      <3> QED BY <1>4, <3>1 DEF Followed
    <2>5. Fits(f, r, g, rest)
      <3>1. Here(f, g, rest).rest = Q BY <1>3, <2>2, PlaceIs
      <3> QED BY <1>3, <1>4, <2>1, <3>1 DEF Fits
    <2> QED BY <2>3, <2>4, <2>5 DEF TopOk
  <1>8. ASSUME follows
        PROVE  FrameOk(f, r, h, k + 1, Q) /\ TopOk(f, r, h, Q) /\ h.call = "follow"
    <2>1. /\ h \in FollowFrames(f) /\ h.call = "follow" /\ h.at = inode /\ h.seen = {}
      BY <1>3 DEF FollowFrame, FollowFrames
    <2> HIDE DEF h
    <2>2. FrameOk(f, r, h, k + 1, Q) BY <1>3, <1>8, <2>1 DEF FrameOk, Frames
    <2>3. Here(f, h, Q) = d BY <1>3, <1>8, <2>1 DEF Here
    <2>4. Followed(f, h) BY <2>1 DEF Followed
    <2>5. Fits(f, r, h, Q)
      <3>1. SUFFICES ASSUME Arriving(f, r), f.kind[inode] # "link"
                     PROVE  Passable(f, inode, Here(f, h, Q).rest)
        BY <2>1 DEF Fits, FoundSomething
      <3>2. Here(f, h, Q) = Place(inode, Q) BY <2>3, <3>1
      <3>3. Here(f, h, Q).rest = Q BY <1>3, <3>2, PlaceIs
      <3> QED BY <1>3, <3>1, <3>3
    <2> QED BY <1>3, <2>1, <2>2, <2>3, <2>4, <2>5 DEF TopOk
  <1> QED BY <1>4, <1>5, <1>6, <1>7, <1>8 DEF g, inode, Q

LEMMA NextComponentKeeps ==
    ASSUME NEW f \in FileSystems, NEW r, NEW k, NEW rest \in Seq(Names), NEW frame,
           FrameOk(f, r, frame, k, rest), TopOk(f, r, frame, rest),
           frame.call = "resolve", frame.found
    PROVE  LET g == [frame EXCEPT !.i = @ + 1, !.found = FALSE]
               passes == frame.i = Len(frame.dirs) \/ DirBits(f.kind[frame.at])
           IN  /\ FrameOk(f, r, g, k, rest) /\ TopOk(f, r, g, rest) /\ g.call = "resolve"
               /\ ~passes => ~Arriving(f, r)
  <1> DEFINE g == [frame EXCEPT !.i = @ + 1, !.found = FALSE]
             passes == frame.i = Len(frame.dirs) \/ DirBits(f.kind[frame.at])
             i == frame.i + 1
  <1>1. frame \in Frames(f) /\ ResolveOk(r, frame, k) BY DEF FrameOk
  <1>2. /\ frame \in ResolveFrames(f) /\ frame.at \in Nodes(f) /\ frame.dirs \in Seq(Names)
        /\ frame.i \in Nat \ {0} /\ frame.found = TRUE /\ Len(frame.dirs) \in Nat
        /\ frame.i <= Len(frame.dirs) /\ Rest(frame) = Behind(frame.dirs, frame.i)
    BY <1>1, ResolveIs DEF ResolveOk
  <1>3. i \in Nat \ {0} /\ i <= Len(frame.dirs) + 1 /\ i - 1 = frame.i /\ i > 1 BY <1>2
  <1>4. /\ FrameOk(f, r, g, k, rest) /\ g.call = "resolve" /\ g.at = frame.at /\ g.i = i
        /\ g.found = FALSE /\ g.dirs = frame.dirs /\ g.follow_last = frame.follow_last
    <2> DEFINE found == FALSE
    <2>1. found \in BOOLEAN /\ (found => i <= Len(frame.dirs)) OBVIOUS
    <2>2. g = Moved(frame, frame.at, i, found) BY <1>2 DEF Moved, ResolveFrames
    <2> HIDE DEF g, i, found
    <2>3. FrameOk(f, r, g, k, rest) /\ IsMoved(frame, frame.at, i, found, g)
      BY <1>2, <1>3, <2>1, <2>2, ResolveMoved
    <2> QED BY <2>3 DEF found, IsMoved
  <1> HIDE DEF g
  <1>5. Rest(g) = Rest(frame) BY <1>2, <1>3, <1>4 DEF Rest
  <1>6. Here(f, g, rest) = Here(f, frame, rest) BY <1>4, <1>5 DEF Here
  <1>7. Followed(f, frame) /\ Means(f, r, Here(f, frame, rest)) /\ Fits(f, r, frame, rest) BY DEF TopOk
  <1>8. Followed(f, g) BY <1>2, <1>4, <1>7 DEF Followed
  <1>9. FoundSomething(f, frame) BY DEF FoundSomething
  <1>10. Fits(f, r, g, rest) BY <1>4, <1>6, <1>7, <1>9 DEF Fits
  <1>11. TopOk(f, r, g, rest) BY <1>6, <1>7, <1>8, <1>10 DEF TopOk
  <1>12. ASSUME ~passes, Arriving(f, r) PROVE FALSE
    <2>1. Passable(f, frame.at, Here(f, frame, rest).rest) BY <1>7, <1>9, <1>12 DEF Fits
    <2>2. Here(f, frame, rest).rest = <<>> BY <1>12, <2>1 DEF Passable
    <2> DEFINE Q == Rest(frame) \o rest
    <2>3. Rest(frame) \in Seq(Names) /\ Rest(frame) # <<>>
      <3>1. frame.i \in 0 .. Len(frame.dirs) BY <1>2
      <3> QED BY <1>2, <1>12, <3>1, BehindIs
    <2>4. Q \in Seq(Names) /\ Q # <<>> BY <2>3, Joined
    <2>5. Here(f, frame, rest) = Place(frame.at, Q) BY DEF Here
    <2> HIDE DEF Q
    <2> QED BY <1>2, <2>2, <2>4, <2>5, PlaceIs
  <1> QED BY <1>4, <1>11, <1>12 DEF g
-----------------------------------------------------------------------------
(* The steps of follow_symlink, and returns *)

\* An activation is done: the walk is where it is, and has what is left for others.
Done(f, frame) ==
    IF frame.call = "resolve" THEN ~frame.found /\ frame.i > Len(frame.dirs)
    ELSE f.kind[frame.at] # "link"

LEMMA DoneIs ==
    ASSUME NEW f \in FileSystems, NEW r, NEW k \in Nat \ {0}, NEW rest \in Seq(Names), NEW frame,
           FrameOk(f, r, frame, k, rest), TopOk(f, r, frame, rest), Done(f, frame)
    PROVE  /\ frame.at \in Nodes(f) /\ Here(f, frame, rest) = Place(frame.at, rest)
           /\ Means(f, r, Place(frame.at, rest))
           /\ Arriving(f, r) => Passable(f, frame.at, rest)
           /\ k > 1 => f.kind[frame.at] # "link"
  <1>1. frame \in Frames(f) /\ (frame.call = "resolve" => ResolveOk(r, frame, k)) BY DEF FrameOk
  <1>2. frame.at \in Nodes(f) /\ Here(f, frame, rest) = Place(frame.at, rest)
    <2>1. CASE frame.call = "resolve"
      <3>1. /\ frame.at \in Nodes(f) /\ frame.dirs \in Seq(Names) /\ Len(frame.dirs) \in Nat
            /\ frame.i \in 1 .. Len(frame.dirs) + 1
            /\ Rest(frame) = Behind(frame.dirs, IF frame.found THEN frame.i ELSE frame.i - 1)
        BY <1>1, <2>1, ResolveIs
      <3>2. ~frame.found /\ frame.i > Len(frame.dirs) BY <2>1 DEF Done
      <3>3. frame.i - 1 = Len(frame.dirs) /\ Len(frame.dirs) \in 0 .. Len(frame.dirs) BY <3>1, <3>2
      <3>4. Rest(frame) = <<>> BY <3>1, <3>2, <3>3, BehindIs
      <3>5. <<>> \o rest = rest BY Joined
      <3> QED BY <2>1, <3>1, <3>4, <3>5 DEF Here
    <2>2. CASE frame.call # "resolve" BY <1>1, <2>2, FollowIs DEF Here, Done
    <2> QED BY <2>1, <2>2
  <1>3. Place(frame.at, rest).rest = rest BY <1>2, PlaceIs
  <1>4. FoundSomething(f, frame) BY DEF FoundSomething, Done
  <1>5. k > 1 => f.kind[frame.at] # "link"
    <2>1. CASE frame.call = "resolve"
      <3>1. k > 1 => frame.follow_last /\ frame.dirs # <<>> BY <1>1, <2>1 DEF ResolveOk
      <3>2. /\ frame.dirs \in Seq(Names) /\ Len(frame.dirs) \in Nat /\ frame.i \in 1 .. Len(frame.dirs) + 1
        BY <1>1, <2>1, ResolveIs
      <3>3. frame.dirs # <<>> => Len(frame.dirs) # 0 BY <3>2, EmptySeq
      <3>4. frame.dirs # <<>> => frame.i > 1 BY <2>1, <3>2, <3>3 DEF Done
      <3>5. Followed(f, frame) BY DEF TopOk
      <3> QED BY <2>1, <3>1, <3>4, <3>5 DEF Followed
    <2>2. CASE frame.call # "resolve" BY <2>2 DEF Done
    <2> QED BY <2>1, <2>2
  <1> QED BY <1>2, <1>3, <1>4, <1>5 DEF TopOk, Fits

\* The invariant with the activation as the top of k.
IsTop(f, r, call, frame, k, rest) ==
    FrameOk(f, r, frame, k, rest) /\ TopOk(f, r, frame, rest) /\ frame.call = call

\* What Return does to the caller.
Gets(frame, at) == [frame EXCEPT !.at = at]

LEMMA CallerKeeps ==
    ASSUME NEW f \in FileSystems, NEW r, NEW k \in Nat \ {0}, NEW rest \in Seq(Names), NEW caller,
           FrameOk(f, r, caller, k, rest), caller.call = "resolve" => caller.found,
           NEW at \in Nodes(f), f.kind[at] # "link",
           NEW left \in Seq(Names), left = Rest(caller) \o rest,
           Means(f, r, Place(at, left)), Arriving(f, r) => Passable(f, at, left)
    PROVE  IsTop(f, r, caller.call, Gets(caller, at), k, rest)
  <1> DEFINE g == Gets(caller, at)
  <1>1. caller \in Frames(f) /\ (caller.call = "resolve" => ResolveOk(r, caller, k)) BY DEF FrameOk
  <1>2. /\ FrameOk(f, r, g, k, rest) /\ g.call = caller.call /\ g.at = at /\ Rest(g) = Rest(caller)
        /\ caller.call = "resolve" => g.found
    <2>1. CASE caller.call = "resolve"
      <3>1. caller \in ResolveFrames(f) BY <1>1, <2>1, ResolveIs
      <3>2. /\ g \in ResolveFrames(f) /\ g.call = caller.call /\ g.at = at /\ g.dirs = caller.dirs
            /\ g.i = caller.i /\ g.found = caller.found /\ g.follow_last = caller.follow_last
        BY <3>1 DEF ResolveFrames, Gets
      <3> HIDE DEF g
      <3>3. ResolveOk(r, g, k) BY <1>1, <2>1, <3>2 DEF ResolveOk
      <3>4. FrameOk(f, r, g, k, rest) BY <3>2, <3>3 DEF FrameOk, Frames
      <3>5. Rest(g) = Rest(caller) BY <3>2 DEF Rest
      <3> QED BY <3>2, <3>4, <3>5
    <2>2. CASE caller.call # "resolve"
      <3>1. caller \in FollowFrames(f) /\ caller.call = "follow" BY <1>1, <2>2, FollowIs
      <3>2. g \in FollowFrames(f) /\ g.call = caller.call /\ g.at = at BY <3>1 DEF FollowFrames, Gets
      <3> HIDE DEF g
      <3>3. FrameOk(f, r, g, k, rest) BY <2>2, <3>2 DEF FrameOk, Frames
      <3>4. Rest(g) = Rest(caller) BY <2>2, <3>2 DEF Rest
      <3> QED BY <2>2, <3>2, <3>3, <3>4
    <2> QED BY <2>1, <2>2
  <1> HIDE DEF g
  <1>3. Here(f, g, rest) = Place(at, left)
    <2>1. CASE g.call = "resolve" BY <1>2, <2>1 DEF Here
    <2>2. CASE g.call # "resolve"
      <3>1. Rest(caller) = <<>> BY <1>2, <2>2 DEF Rest
      <3>2. <<>> \o rest = rest BY Joined
      <3> QED BY <1>2, <2>2, <3>1, <3>2 DEF Here
    <2> QED BY <2>1, <2>2
  <1>4. Place(at, left).rest = left BY DEF Place
  <1>5. Followed(f, g) BY <1>2 DEF Followed
  <1>6. Fits(f, r, g, rest) BY <1>2, <1>3, <1>4 DEF Fits
  <1> QED BY <1>2, <1>3, <1>5, <1>6 DEF TopOk, IsTop, g

\* A path with ".." in front of it is walked from the directory above.
LEMMA UpFirst ==
    ASSUME NEW comps \in Seq(Names), comps # <<>>, comps[1] = "..", NEW k \in 1 .. Len(comps)
    PROVE  Pushed(comps)[k] # <<>>
  <1> DEFINE L == Len(comps)
             P(n) == Pushed(comps)[n]
             UpIn(dirs) == dirs # <<>> /\ dirs[1] = ".."
             G == {n \in 1 .. L : UpIn(P(n))}
  <1>1. /\ \A n \in 0 .. L : P(n) \in Seq(Names)
        /\ P(0) = <<>> /\ \A n \in 1 .. L : P(n) = Push(P(n - 1), comps[n])
    BY PushedRecur
  <1>2. L \in Nat /\ \A n \in 1 .. L : comps[n] \in Names BY LenProperties, ElementOfSeq
  <1>3. 1 \in G
    <2>1. 1 \in 1 .. L BY <1>2
    <2>2. P(1) = Push(P(0), comps[1]) BY <1>1, <2>1
    <2>3. P(1) = Push(<<>>, "..") BY <1>1, <2>2
    <2>4. Push(<<>>, "..") = Append(<<>>, "..") BY DEF Push
    <2>5. Append(<<>>, "..") = <<"..">> OBVIOUS
    <2> QED BY <2>1, <2>3, <2>4, <2>5
  <1>4. ASSUME NEW n \in 1 .. L - 1, n \in G PROVE n + 1 \in G
    <2>1. n \in 0 .. L /\ n + 1 \in 1 .. L /\ (n + 1) - 1 = n BY <1>2
    <2> DEFINE dirs == P(n)
               dir == comps[n + 1]
               new == Push(dirs, dir)
    <2>2. dirs \in Seq(Names) /\ dir \in Names /\ P(n + 1) = new /\ UpIn(dirs) BY <1>1, <1>2, <1>4, <2>1
    <2> HIDE DEF dirs, dir, P, L
    <2>3. UpIn(new)
      <3>1. CASE dir = ".." /\ Last(dirs) # ".."
        <4>1. new = Front(dirs) BY <2>2, <3>1 DEF Push
        <4>2. /\ Front(dirs) \in Seq(Names) /\ Len(Front(dirs)) = Len(dirs) - 1
              /\ \A j \in 1 .. Len(dirs) - 1 : Front(dirs)[j] = dirs[j]
          BY <2>2, FrontIs
        <4>3. Len(dirs) \in Nat \ {0, 1}
          <5>1. Len(dirs) \in Nat \ {0} BY <2>2, EmptySeq, LenProperties
          <5>2. Len(dirs) # 1 BY <2>2, <3>1 DEF Last
          <5> QED BY <5>1, <5>2
        <4>4. 1 \in 1 .. Len(dirs) - 1 /\ Len(dirs) - 1 # 0
          <5> DEFINE m == Len(dirs)
          <5>1. m \in Nat \ {0, 1} BY <4>3
          <5> HIDE DEF m
          <5>2. 1 \in 1 .. m - 1 /\ m - 1 # 0 BY <5>1
          <5> QED BY <5>2 DEF m
        <4>5. Len(<<>>) = 0 OBVIOUS
        <4>6. Front(dirs)[1] = ".." BY <2>2, <4>2, <4>4
        <4> QED BY <4>1, <4>2, <4>4, <4>5, <4>6
      <3>2. CASE dir = "." BY <2>2, <3>2 DEF Push
      <3>3. CASE ~(dir = ".." /\ Last(dirs) # "..") /\ dir # "."
        <4>1. new = Append(dirs, dir) BY <2>2, <3>3 DEF Push
        <4>2. /\ Append(dirs, dir) # <<>>
              /\ \A j \in 1 .. Len(dirs) : Append(dirs, dir)[j] = dirs[j]
          BY <2>2, AppendProperties
        <4>3. 1 \in 1 .. Len(dirs)
          <5>1. Len(dirs) \in Nat \ {0} BY <2>2, EmptySeq, LenProperties
          <5> QED BY <5>1
        <4>4. Append(dirs, dir)[1] = ".." BY <2>2, <4>2, <4>3
        <4> QED BY <4>1, <4>2, <4>4
      <3> QED BY <3>1, <3>2, <3>3
    <2> QED BY <2>1, <2>2, <2>3
  <1>5. \A n \in 1 .. L : n \in G
    <2> HIDE DEF G, L
    <2> QED BY <1>2, <1>3, <1>4, UpTo
  <1>6. k \in G BY <1>5
  <1> QED BY <1>6
LEMMA FromParentIs ==
    ASSUME NEW f \in FileSystems, NEW target \in Path
    PROVE  LET p == FromParent(target) IN
           /\ p \in Path /\ p.abs = FALSE /\ p.comps = <<"..">> \o target.comps
           /\ p.comps \in Seq(Names)
           /\ NoLastDot(target) => NoLastDot(p)
           /\ DotsFirst(target) => DotsFirst(p)
           /\ PlainIn(f, target) => PlainIn(f, p)
           /\ Dirs(p) # <<>>
  <1> DEFINE p == FromParent(target)
             comps == target.comps
             up == <<"..">> \o comps
             L == Len(comps)
  <1>1. comps \in Seq(Names) /\ target.slash \in BOOLEAN BY DEF Path
  <1>2. up \in Seq(Names) /\ up # <<>> /\ Head(up) = ".." /\ Tail(up) = comps
    <2>1. ".." \in Names BY PathAssumption
    <2> HIDE DEF comps
    <2> QED BY <1>1, <2>1, Parts
  <1>3. p \in Path /\ p.abs = FALSE /\ p.comps = up /\ p.slash = target.slash
    <2> DEFINE relative == [target EXCEPT !.abs = FALSE]
    <2>1. /\ relative \in Path /\ relative.abs = FALSE /\ relative.comps = comps
          /\ relative.slash = target.slash
      BY DEF Path
    <2>2. p = [relative EXCEPT !.comps = <<"..">> \o @] BY DEF FromParent
    <2> HIDE DEF relative
    <2>3. <<"..">> \o relative.comps = up BY <2>1
    <2>4. p = [relative EXCEPT !.comps = up] BY <2>2, <2>3
    <2> HIDE DEF up, p
    <2> QED BY <1>2, <2>1, <2>4 DEF Path
  <1> HIDE DEF p
  <1>4. /\ up[1] = ".." /\ Len(up) = L + 1 /\ L \in Nat
        /\ \A k \in 1 .. L : up[k + 1] = comps[k]
    <2>1. /\ Head(up) = up[1] /\ Len(up) \in Nat \ {0} /\ Len(comps) = Len(up) - 1
          /\ \A k \in 1 .. Len(up) - 1 : comps[k] = up[k + 1]
      <3> HIDE DEF up, comps
      <3> QED BY <1>2, HeadFirst
    <2> DEFINE N == Len(up)
    <2>2. N \in Nat \ {0} /\ L = N - 1 BY <2>1
    <2> HIDE DEF N, L
    <2>3. N = L + 1 /\ L \in Nat BY <2>2
    <2>4. N = Len(up) /\ L = Len(comps) BY DEF N, L
    <2> QED BY <1>2, <2>1, <2>2, <2>3, <2>4
  <1> HIDE DEF up
  <1>5. /\ DOMAIN up = 1 .. L + 1 /\ DOMAIN comps = 1 .. L
        /\ \A n \in 1 .. L + 1 : n = 1 \/ (n - 1 \in 1 .. L /\ up[n] = comps[n - 1])
    <2>1. DOMAIN up = 1 .. L + 1 /\ DOMAIN comps = 1 .. L BY <1>1, <1>2, <1>4, LenProperties
    <2>2. ASSUME NEW n \in 1 .. L + 1, n # 1 PROVE n - 1 \in 1 .. L /\ up[n] = comps[n - 1]
      <3>1. n - 1 \in 1 .. L /\ (n - 1) + 1 = n BY <1>4, <2>2
      <3> QED BY <1>4, <3>1
    <2> QED BY <2>1, <2>2
  <1>6. ASSUME NoLastDot(target) PROVE NoLastDot(p)
    <2>1. CASE comps = <<>>
      <3>1. L = 0 BY <2>1
      <3>2. Last(up) = ".." BY <1>4, <3>1 DEF Last
      <3> QED BY <1>3, <3>2 DEF NoLastDot
    <2>2. CASE comps # <<>>
      <3>1. L # 0 BY <1>1, <2>2, EmptySeq
      <3>2. L + 1 \in 1 .. L + 1 /\ (L + 1) - 1 = L /\ L + 1 # 1 BY <1>4, <3>1
      <3>3. up[L + 1] = comps[L] BY <1>5, <3>2
      <3>4. Last(up) = Last(comps) BY <1>4, <3>3 DEF Last
      <3> QED BY <1>3, <1>6, <2>2, <3>4 DEF NoLastDot
    <2> QED BY <2>1, <2>2
  <1>7. ASSUME DotsFirst(target) PROVE DotsFirst(p)
    <2>1. ASSUME NEW m \in 1 .. L + 1, NEW n \in 1 .. L + 1, m < n, up[n] \in {".", ".."}
          PROVE  up[m] \in {".", ".."}
      <3>1. CASE m = 1 BY <1>4, <3>1
      <3>2. CASE m # 1
        <4>1. n # 1 BY <2>1, <3>2
        <4>2. /\ m - 1 \in 1 .. L /\ n - 1 \in 1 .. L /\ up[m] = comps[m - 1] /\ up[n] = comps[n - 1]
              /\ m - 1 < n - 1
          BY <1>5, <2>1, <3>2, <4>1
        <4> QED BY <1>5, <1>7, <2>1, <4>2 DEF DotsFirst
      <3> QED BY <3>1, <3>2
    <2>2. NoLastDot(p) BY <1>6, <1>7 DEF DotsFirst
    <2> QED BY <1>3, <1>5, <2>1, <2>2 DEF DotsFirst
  <1>8. ASSUME PlainIn(f, target) PROVE PlainIn(f, p)
    <2>1. ".." \notin LinkNamesOf(f)
      <3>1. SUFFICES ASSUME NEW here \in DOMAIN f.entry, here[2] = ".." PROVE FALSE
        BY DEF LinkNamesOf
      <3>2. here \in Nodes(f) \X (Names \ Dots) BY PathAssumption DEF WellFormed, Nodes, Dots
      <3> QED BY <3>1, <3>2 DEF Dots
    <2>2. ASSUME NEW m \in 1 .. L + 1, NEW n \in 1 .. L + 1, m < n, up[n] \in Dots
          PROVE  up[m] \notin LinkNamesOf(f)
      <3>1. CASE m = 1 BY <1>4, <2>1, <3>1
      <3>2. CASE m # 1
        <4>1. n # 1 BY <2>2, <3>2
        <4>2. /\ m - 1 \in 1 .. L /\ n - 1 \in 1 .. L /\ up[m] = comps[m - 1] /\ up[n] = comps[n - 1]
              /\ m - 1 < n - 1
          BY <1>5, <2>2, <3>2, <4>1
        <4> QED BY <1>5, <1>8, <2>2, <4>2 DEF PlainIn
      <3> QED BY <3>1, <3>2
    <2>3. NoLastDot(p) BY <1>6, <1>8 DEF PlainIn
    <2> QED BY <1>3, <1>5, <2>2, <2>3 DEF PlainIn
  <1>9. Dirs(p) # <<>>
    <2>1. Len(p.comps) = L + 1 /\ L + 1 # 0 /\ L + 1 \in 1 .. L + 1 /\ (L + 1) - 1 = L BY <1>3, <1>4
    <2>2. CASE p.slash
      <3>1. Dirs(p) = Pushed(up)[L + 1] BY <1>3, <2>1, <2>2 DEF Dirs
      <3> QED BY <1>2, <1>4, <2>1, <3>1, UpFirst
    <2>3. CASE ~p.slash
      <3>1. Dirs(p) = Append(Pushed(up)[L], up[L + 1]) BY <1>3, <2>1, <2>3 DEF Dirs
      <3>2. L \in 0 .. Len(up) BY <1>4
      <3>3. Pushed(up)[L] \in Seq(Names) BY <1>2, <3>2, PushedRecur
      <3>4. up[L + 1] \in Names BY <1>2, <1>4, <2>1, ElementOfSeq
      <3> QED BY <3>1, <3>3, <3>4, AppendProperties
    <2> QED BY <2>2, <2>3
  <1> QED BY <1>2, <1>3, <1>6, <1>7, <1>8, <1>9 DEF p, up

\* The target of a link is resolved from the link.
LEMMA TargetLeads ==
    ASSUME NEW f \in FileSystems, NEW fl, NEW x, NEW node \in Nodes(f), f.kind[node] = "link",
           NEW rest \in Seq(Names)
    PROVE  LET target == f.target[node]
               p == FromParent(target)
               c == Place(f.parent[node], target.comps \o rest)
               d == Place(node, Dirs(p) \o rest)
           IN  /\ PlainIn(f, target) /\ Leads(f, TRUE, fl, c, x) => Leads(f, TRUE, fl, d, x)
               /\ DotsFirst(target) /\ Leads(f, FALSE, fl, d, x) => Leads(f, FALSE, fl, c, x)
  <1> DEFINE target == f.target[node]
             p == FromParent(target)
             Q == target.comps \o rest
             w == <<"..">> \o Q
             c == Place(f.parent[node], Q)
             e == Place(node, w)
             dirs == Dirs(p)
  <1>1. /\ node # Root /\ f.parent[node] \in Nodes(f) /\ target \in Path /\ target.comps \in Seq(Names)
    BY LinkIsNotRoot
  <1>2. Q \in Seq(Names) BY <1>1, Joined
  <1>3. /\ p \in Path /\ p.comps = <<"..">> \o target.comps
        /\ DotsFirst(target) => DotsFirst(p)
        /\ PlainIn(f, target) => PlainIn(f, p)
    <2> HIDE DEF target
    <2> QED BY <1>1, FromParentIs
  <1>4. w \in Seq(Names) /\ w # <<>> /\ Head(w) = ".." /\ Tail(w) = Q
    <2>1. ".." \in Names BY PathAssumption
    <2> HIDE DEF Q
    <2> QED BY <1>2, <2>1, Parts
  <1>5. p.comps \o rest = w
    <2> DEFINE a == <<"..">>
               b == target.comps
    <2>1. a \in Seq(Names)
      <3>1. ".." \in Names BY PathAssumption
      <3> QED BY <3>1, Single
    <2>2. b \in Seq(Names) BY <1>1
    <2>3. p.comps = a \o b /\ w = a \o (b \o rest) BY <1>3
    <2> HIDE DEF a, b, p, w
    <2> QED BY <2>1, <2>2, <2>3, Joined
  <1> HIDE DEF p, w, Q
  <1>6. e \in Places(f) /\ e.at = node /\ e.rest = w BY <1>4, PlaceIs
  <1>7. \A chk : Goes(f, chk, fl, e, c) BY <1>1, <1>4, <1>6 DEF Goes
  <1>8. ASSUME PlainIn(f, target), Leads(f, TRUE, fl, c, x)
        PROVE  Leads(f, TRUE, fl, Place(node, dirs \o rest), x)
    <2>1. Leads(f, TRUE, fl, e, x)
      <3> HIDE DEF e, c
      <3> QED BY <1>6, <1>7, <1>8, LeadsBack
    <2>2. Serves(f, TRUE, fl, p.comps \o rest, Dirs(p) \o rest, x) BY <1>3, <1>8, DirsServe
    <2> QED BY <1>5, <2>1, <2>2 DEF Serves
  <1>9. ASSUME DotsFirst(target), Leads(f, FALSE, fl, Place(node, dirs \o rest), x)
        PROVE  Leads(f, FALSE, fl, c, x)
    <2>1. Serves(f, FALSE, fl, Dirs(p) \o rest, p.comps \o rest, x) BY <1>3, <1>9, DirsAreServed
    <2>2. Leads(f, FALSE, fl, e, x) BY <1>5, <1>9, <2>1 DEF Serves
    <2> HIDE DEF e, c
    <2> QED BY <1>6, <1>7, <2>2, LeadsAfter
  <1> QED BY <1>8, <1>9 DEF p, Q
\* What FollowOnce does before it calls resolve.
Visited(frame) ==
    [frame EXCEPT !.seen = @ \cup {frame.at}, !.level = IF @ = -1 THEN -1 ELSE @ - 1]

IsCall(f, r, k, rest, frame) ==
    LET g == Visited(frame)
        h == ResolveFrame(frame.at, FromParent(f.target[frame.at]), TRUE)
    IN  /\ frame.seen = {} /\ frame.level = -1
        /\ FrameOk(f, r, g, k, rest) /\ g.call = "follow" /\ Rest(g) = <<>>
        /\ IsTop(f, r, "resolve", h, k + 1, rest)

LEMMA FollowKeeps ==
    ASSUME NEW f \in FileSystems, NEW r \in Requests, Usual(f, r),
           NEW k \in Nat \ {0}, NEW rest \in Seq(Names), NEW frame,
           FrameOk(f, r, frame, k, rest), TopOk(f, r, frame, rest),
           k = 1 => frame.call = r.call,
           frame.call = "follow", f.kind[frame.at] = "link"
    PROVE  IsCall(f, r, k, rest, frame)
  <1> DEFINE node == frame.at
             target == f.target[node]
             p == FromParent(target)
             g == Visited(frame)
             h == ResolveFrame(node, p, TRUE)
             dirs == Dirs(p)
             fl == FollowsLast(r)
  <1>1. frame \in Frames(f) BY DEF FrameOk
  <1>2. frame \in FollowFrames(f) /\ node \in Nodes(f) /\ frame.level = -1
    BY <1>1, FollowIs
  <1>3. frame.seen = {}
    <2>1. Followed(f, frame) BY DEF TopOk
    <2> QED BY <2>1 DEF Followed
  <1>4. FrameOk(f, r, g, k, rest) /\ g.call = "follow" /\ Rest(g) = <<>>
    <2>1. g \in FollowFrames(f) /\ g.call = "follow" BY <1>2 DEF FollowFrames, Visited
    <2> HIDE DEF g
    <2> QED BY <2>1 DEF FrameOk, Frames, Rest
  <1>5. target \in Path /\ target.comps \in Seq(Names) BY <1>2, LinkIsNotRoot
  <1>6. /\ p \in Path /\ p.abs = FALSE /\ dirs # <<>>
        /\ NoLastDot(target) => NoLastDot(p)
    <2> HIDE DEF target
    <2> QED BY <1>5, FromParentIs
  <1>7. target \in PathsOf(f, r) BY <1>2 DEF PathsOf
  <1>8. dirs \in Seq(Names) /\ \A j \in 1 .. Len(dirs) : dirs[j] # "."
    <2>1. NoLastDot(p) BY <1>6, <1>7 DEF Usual
    <2> HIDE DEF p
    <2> QED BY <1>6, <2>1, DirsAre, EmptySeq
  <1>9. Len(dirs) \in Nat \ {0} BY <1>6, <1>8, EmptySeq, LenProperties
  <1> HIDE DEF p, dirs
  <1>10. h = [call |-> "resolve", at |-> node, dirs |-> dirs, i |-> 1, found |-> FALSE, follow_last |-> TRUE]
    BY <1>6 DEF ResolveFrame, dirs
  <1> HIDE DEF h
  <1>11. /\ h \in ResolveFrames(f) /\ h.call = "resolve" /\ h.at = node /\ h.dirs = dirs /\ h.i = 1
         /\ h.found = FALSE /\ h.follow_last = TRUE
    BY <1>2, <1>8, <1>10 DEF ResolveFrames
  <1>12. FrameOk(f, r, h, k + 1, rest)
    <2>1. ResolveOk(r, h, k + 1) BY <1>6, <1>8, <1>9, <1>11 DEF ResolveOk
    <2>2. fl \/ rest # <<>>
      <3>1. CASE k = 1 BY <3>1 DEF FollowsLast
      <3>2. CASE k > 1 BY <3>2 DEF FrameOk
      <3> QED BY <3>1, <3>2
    <2> QED BY <1>11, <2>1, <2>2 DEF FrameOk, Frames
  <1>13. Here(f, h, rest) = Place(node, dirs \o rest)
    <2>1. Rest(h) = dirs BY <1>8, <1>11, BehindIs DEF Rest
    <2> QED BY <1>11, <2>1 DEF Here
  <1> DEFINE c == Place(f.parent[node], target.comps \o rest)
             d == Place(node, dirs \o rest)
  <1>14. Means(f, r, c)
    <2>1. Here(f, frame, rest) = c BY DEF Here
    <2> QED BY <2>1 DEF TopOk
  <1>15. ASSUME NEW x
         PROVE  /\ PlainIn(f, target) /\ Leads(f, TRUE, fl, c, x) => Leads(f, TRUE, fl, d, x)
                /\ DotsFirst(target) /\ Leads(f, FALSE, fl, d, x) => Leads(f, FALSE, fl, c, x)
    BY <1>2, TargetLeads DEF dirs, p
  <1>16. Means(f, r, d)
    <2> HIDE DEF target, c, d
    <2>1. ASSUME AllDotsFirst(f, r), NEW x \in Nodes(f), Leads(f, FALSE, fl, d, x)
          PROVE  Leads(f, FALSE, fl, Start(f, r), x)
      <3>1. DotsFirst(target) BY <1>7, <2>1 DEF AllDotsFirst
      <3>2. Leads(f, FALSE, fl, c, x) BY <1>15, <2>1, <3>1
      <3> QED BY <1>14, <2>1, <3>2 DEF Means
    <2>2. ASSUME AllPlain(f, r), NEW x \in Nodes(f), Leads(f, TRUE, fl, Start(f, r), x)
          PROVE  Leads(f, TRUE, fl, d, x)
      <3>1. PlainIn(f, target) BY <1>7, <2>2 DEF AllPlain
      <3>2. Leads(f, TRUE, fl, c, x) BY <1>14, <2>2 DEF Means
      <3> QED BY <1>15, <3>1, <3>2
    <2> QED BY <2>1, <2>2 DEF Means
  <1>17. Followed(f, h) BY <1>11 DEF Followed
  <1>18. Fits(f, r, h, rest) BY <1>9, <1>11 DEF Fits, FoundSomething
  <1>19. TopOk(f, r, h, rest) BY <1>13, <1>16, <1>17, <1>18 DEF TopOk
  <1> QED BY <1>2, <1>3, <1>4, <1>11, <1>12, <1>19 DEF h, p, IsCall, IsTop

-----------------------------------------------------------------------------
(* The invariant holds when the call is made *)

LEMMA OneActivation ==
    ASSUME NEW f, NEW r, NEW g, FrameOk(f, r, g, 1, <<>>), TopOk(f, r, g, <<>>), g.call = r.call
    PROVE  Running(f, r, <<g>>, [k \in 1 .. 1 |-> <<>>])
  <1> DEFINE s == <<g>>
             rests == [k \in 1 .. 1 |-> <<>>]
  <1>1. g \in Frames(f) BY DEF FrameOk
  <1>2. s \in Seq(Frames(f)) /\ Len(s) = 1 /\ s[1] = g /\ s # <<>>
    <2>1. s \in Seq(Frames(f)) /\ Len(s) = 1 /\ s[1] = g BY <1>1, Single
    <2> QED BY <2>1
  <1>3. rests \in [1 .. 1 -> Seq(Names)] /\ rests[1] = <<>> OBVIOUS
  <1> HIDE DEF s, rests
  <1>4. StackOk(f, r, s, rests)
    <2>1. \A k \in 1 .. Len(s) : k = 1 BY <1>2
    <2>2. \A k \in 1 .. Len(s) - 1 : FALSE BY <1>2
    <2>3. \A k \in 1 .. Len(s) : FrameOk(f, r, s[k], k, rests[k]) BY <1>2, <1>3, <2>1
    <2> QED BY <1>2, <1>3, <2>2, <2>3 DEF StackOk
  <1>5. TopOk(f, r, s[Len(s)], rests[Len(s)]) BY <1>2, <1>3
  <1> QED BY <1>4, <1>5 DEF Running, s, rests

LEMMA StartMeans ==
    ASSUME NEW f, NEW r
    PROVE  Means(f, r, Start(f, r))
  BY DEF Means

LEMMA FollowStarts ==
    ASSUME NEW f \in FileSystems, NEW r \in Requests, Usual(f, r), r.call = "follow"
    PROVE  LET g == FollowFrame(r.from, r.level) IN
           FrameOk(f, r, g, 1, <<>>) /\ TopOk(f, r, g, <<>>) /\ g.call = r.call
  <1> DEFINE g == FollowFrame(r.from, r.level)
  <1>1. r.from \in Nodes(f) /\ f.kind[r.from] = "link" /\ r.level = -1
    BY PathAssumption DEF IsRequest, Nodes, Usual
  <1>2. g \in FollowFrames(f) /\ g.call = "follow" /\ g.at = r.from /\ g.seen = {}
    BY <1>1 DEF FollowFrame, FollowFrames
  <1> HIDE DEF g
  <1>3. FrameOk(f, r, g, 1, <<>>) BY <1>2 DEF FrameOk, Frames
  <1>4. Here(f, g, <<>>) = Start(f, r)
    <2>1. f.target[r.from].comps \in Seq(Names) BY <1>1, LinkIsNotRoot
    <2>2. f.target[r.from].comps \o <<>> = f.target[r.from].comps BY <2>1, Joined
    <2> QED BY <1>1, <1>2, <2>2 DEF Here, Start
  <1>5. Followed(f, g) BY <1>2 DEF Followed
  <1>6. Fits(f, r, g, <<>>) BY <1>1, <1>2 DEF Fits, FoundSomething
  <1> QED BY <1>2, <1>3, <1>4, <1>5, <1>6, StartMeans DEF TopOk, g

LEMMA ResolveStarts ==
    ASSUME NEW f \in FileSystems, NEW r \in Requests, Usual(f, r), r.call # "follow"
    PROVE  LET g == ResolveFrame(r.from, r.path, r.follow_last) IN
           FrameOk(f, r, g, 1, <<>>) /\ TopOk(f, r, g, <<>>) /\ g.call = r.call
  <1> DEFINE g == ResolveFrame(r.from, r.path, r.follow_last)
             dirs == Dirs(r.path)
             at == IF r.path.abs THEN Root ELSE r.from
             fl == FollowsLast(r)
  <1>1. r.from \in Nodes(f) /\ r.call = "resolve" /\ r.path \in Path /\ r.follow_last \in BOOLEAN
    BY PathAssumption DEF IsRequest, Nodes
  <1>2. r.path.comps \in Seq(Names) BY <1>1 DEF Path
  <1>3. at \in Nodes(f) BY <1>1, VolumeIs
  <1>4. r.path \in PathsOf(f, r) BY DEF PathsOf
  <1>5. dirs \in Seq(Names) /\ \A j \in 1 .. Len(dirs) : dirs[j] # "."
    <2>1. NoLastDot(r.path) BY <1>4 DEF Usual
    <2> QED BY <1>1, <2>1, DirsAre, EmptySeq
  <1> HIDE DEF dirs
  <1>6. Len(dirs) \in Nat BY <1>5, LenProperties
  <1>7. g = [call |-> "resolve", at |-> at, dirs |-> dirs, i |-> 1, found |-> FALSE, follow_last |-> fl]
    <2> DEFINE elsewhere == r.path.abs /\ r.from # Root
    <2>1. (elsewhere \/ r.follow_last) = fl BY <1>1 DEF Usual, FollowsLast
    <2>2. (IF elsewhere THEN Root ELSE r.from) = at OBVIOUS
    <2> HIDE DEF fl, at
    <2> QED BY <2>1, <2>2 DEF ResolveFrame, dirs
  <1>8. fl \in BOOLEAN BY <1>1 DEF FollowsLast
  <1> HIDE DEF g, fl
  <1>9. /\ g \in ResolveFrames(f) /\ g.call = "resolve" /\ g.at = at /\ g.dirs = dirs /\ g.i = 1
        /\ g.found = FALSE /\ g.follow_last = fl
    BY <1>3, <1>5, <1>7, <1>8 DEF ResolveFrames
  <1>10. FrameOk(f, r, g, 1, <<>>)
    <2>1. ResolveOk(r, g, 1) BY <1>5, <1>6, <1>9 DEF ResolveOk, fl
    <2> QED BY <1>9, <2>1 DEF FrameOk, Frames
  <1>11. Here(f, g, <<>>) = Place(at, dirs \o <<>>)
    <2>1. Rest(g) = dirs BY <1>5, <1>9, BehindIs DEF Rest
    <2> QED BY <1>9, <2>1 DEF Here
  <1>12. Start(f, r) = Place(at, r.path.comps \o <<>>)
    <2>1. r.path.comps \o <<>> = r.path.comps BY <1>2, Joined
    <2> QED BY <2>1 DEF Start
  <1>13. Means(f, r, Place(at, dirs \o <<>>))
    <2> DEFINE none == <<>>
    <2>0. none \in Seq(Names) OBVIOUS
    <2>1. ASSUME AllDotsFirst(f, r), NEW x \in Nodes(f), Leads(f, FALSE, fl, Place(at, dirs \o none), x)
          PROVE  Leads(f, FALSE, fl, Place(at, r.path.comps \o none), x)
      <3>1. DotsFirst(r.path) BY <1>4, <2>1 DEF AllDotsFirst
      <3>2. Serves(f, FALSE, fl, dirs \o none, r.path.comps \o none, x)
        <4> HIDE DEF none
        <4> QED BY <1>1, <2>0, <3>1, DirsAreServed DEF dirs
      <3> QED BY <1>3, <2>1, <3>2 DEF Serves
    <2>2. ASSUME AllPlain(f, r), NEW x \in Nodes(f), Leads(f, TRUE, fl, Place(at, r.path.comps \o none), x)
          PROVE  Leads(f, TRUE, fl, Place(at, dirs \o none), x)
      <3>1. PlainIn(f, r.path) BY <1>4, <2>2 DEF AllPlain
      <3>2. Serves(f, TRUE, fl, r.path.comps \o none, dirs \o none, x)
        <4> HIDE DEF none
        <4> QED BY <1>1, <2>0, <3>1, DirsServe DEF dirs
      <3> QED BY <1>3, <2>2, <3>2 DEF Serves
    <2> HIDE DEF at
    <2> QED BY <1>12, <2>1, <2>2 DEF Means, fl, none
  <1>14. Followed(f, g) BY <1>9 DEF Followed
  <1>15. Fits(f, r, g, <<>>)
    <2>1. FoundSomething(f, g) => Len(dirs) = 0 BY <1>6, <1>9 DEF FoundSomething
    <2>2. Len(dirs) = 0 => dirs \o <<>> = <<>> BY <1>5, EmptySeq
    <2>3. Len(dirs) = 0 => Here(f, g, <<>>).rest = <<>> BY <1>11, <2>2 DEF Place
    <2> QED BY <2>1, <2>3 DEF Fits, Passable
  <1> QED BY <1>1, <1>9, <1>10, <1>11, <1>13, <1>14, <1>15 DEF TopOk, g
-----------------------------------------------------------------------------
(* A step of the top activation *)

LEMMA RunningIs ==
    ASSUME NEW f, NEW r, NEW s, NEW rests, Running(f, r, s, rests)
    PROVE  /\ Len(s) \in Nat \ {0} /\ StackOk(f, r, s, rests)
           /\ rests[Len(s)] \in Seq(Names)
           /\ FrameOk(f, r, Last(s), Len(s), rests[Len(s)])
           /\ TopOk(f, r, Last(s), rests[Len(s)])
           /\ Len(s) = 1 => rests[Len(s)] = <<>> /\ Last(s).call = r.call
  <1>1. /\ StackOk(f, r, s, rests) /\ Last(s) = s[Len(s)] /\ Len(s) \in Nat \ {0}
        /\ rests[Len(s)] \in Seq(Names) /\ FrameOk(f, r, Last(s), Len(s), rests[Len(s)])
    BY TopIs DEF Running
  <1>2. TopOk(f, r, Last(s), rests[Len(s)]) BY <1>1 DEF Running
  <1>3. rests[1] = <<>> /\ s[1].call = r.call BY <1>1 DEF StackOk
  <1> QED BY <1>1, <1>2, <1>3

LEMMA SetTopRuns ==
    ASSUME NEW f, NEW r, NEW s, NEW rests, Running(f, r, s, rests),
           NEW g, FrameOk(f, r, g, Len(s), rests[Len(s)]), TopOk(f, r, g, rests[Len(s)]),
           g.call = Last(s).call
    PROVE  CallOk(f, r, Append(Front(s), g), Pending)
  <1> DEFINE t == Append(Front(s), g)
  <1>1. StackOk(f, r, s, rests) BY RunningIs
  <1>2. StackOk(f, r, t, rests) /\ Len(t) = Len(s) /\ t[Len(t)] = g /\ t # <<>> BY <1>1, SetTopKeeps
  <1> HIDE DEF t
  <1>3. Running(f, r, t, rests) BY <1>2 DEF Running
  <1>4. CallOk(f, r, t, Pending) BY <1>2, <1>3 DEF CallOk
  <1> QED BY <1>4 DEF t

LEMMA CallRuns ==
    ASSUME NEW f, NEW r, NEW s, NEW rests, Running(f, r, s, rests),
           NEW g, FrameOk(f, r, g, Len(s), rests[Len(s)]), g.call = Last(s).call,
           g.call = "resolve" => g.found, Rest(g) \in Seq(Names),
           NEW left, left = Rest(g) \o rests[Len(s)],
           NEW h, FrameOk(f, r, h, Len(s) + 1, left), TopOk(f, r, h, left), h.call # g.call
    PROVE  CallOk(f, r, Append(Append(Front(s), g), h), Pending)
  <1> DEFINE t == Append(Append(Front(s), g), h)
             u == Pushes(rests, Len(s), left)
  <1>1. StackOk(f, r, s, rests) BY RunningIs
  <1>2. HasTop(f, r, t, u, h, left) BY <1>1, CallKeeps
  <1> HIDE DEF t, u
  <1>3. Running(f, r, t, u) BY <1>2 DEF Running, HasTop
  <1>4. CallOk(f, r, t, Pending) BY <1>2, <1>3 DEF CallOk, HasTop
  <1> QED BY <1>4 DEF t

\* What Return does.
Returned(s, at) == Append(Front(Front(s)), Gets(s[Len(s) - 1], at))

LEMMA ReturnRuns ==
    ASSUME NEW f \in FileSystems, NEW r, NEW s, NEW rests, Running(f, r, s, rests), Done(f, Last(s))
    PROVE  /\ Len(s) = 1 => CallOk(f, r, <<>>, Last(s).at)
           /\ Len(s) # 1 => CallOk(f, r, Returned(s, Last(s).at), Pending)
  <1> DEFINE n == Len(s)
             top == Last(s)
             rest == rests[n]
             at == top.at
  <1>1. /\ n \in Nat \ {0} /\ StackOk(f, r, s, rests) /\ rest \in Seq(Names)
        /\ FrameOk(f, r, top, n, rest) /\ TopOk(f, r, top, rest)
        /\ n = 1 => rest = <<>>
    BY RunningIs
  <1>2. /\ at \in Nodes(f) /\ Means(f, r, Place(at, rest))
        /\ Arriving(f, r) => Passable(f, at, rest)
        /\ n > 1 => f.kind[at] # "link"
    <2> HIDE DEF n, top, rest
    <2> QED BY <1>1, DoneIs DEF n, top, rest
  <1>3. ASSUME n = 1 PROVE CallOk(f, r, <<>>, at)
    <2>1. Means(f, r, Place(at, <<>>)) BY <1>1, <1>2, <1>3
    <2>2. Ended(f, r, at) BY <1>2, <2>1, ArrivalEnds
    <2> QED BY <2>2 DEF CallOk
  <1>4. ASSUME n # 1 PROVE CallOk(f, r, Returned(s, at), Pending)
    <2> DEFINE m == n - 1
               caller == s[m]
               below == rests[m]
               g == Gets(caller, at)
               t == Returned(s, at)
               u == Pops(rests, n)
    <2>1. m \in Nat \ {0} /\ m \in 1 .. n /\ m \in 1 .. n - 1 /\ m + 1 = n /\ n > 1
      <3> HIDE DEF n
      <3> QED BY <1>1, <1>4
    <2>2. /\ below \in Seq(Names) /\ FrameOk(f, r, caller, m, below)
          /\ rest = Rest(caller) \o below
          /\ caller.call = "resolve" => caller.found
      <3> HIDE DEF m
      <3>1. below \in Seq(Names) BY <1>1, <2>1 DEF StackOk
      <3>2. FrameOk(f, r, caller, m, below) BY <1>1, <2>1 DEF StackOk
      <3>3. rests[m + 1] = Rest(caller) \o below /\ (caller.call = "resolve" => caller.found)
        BY <1>1, <2>1 DEF StackOk
      <3> QED BY <2>1, <3>1, <3>2, <3>3
    <2>3. FrameOk(f, r, g, m, below) /\ TopOk(f, r, g, below) /\ g.call = caller.call
      <3>1. f.kind[at] # "link" /\ at \in Nodes(f) /\ m \in Nat \ {0} BY <1>2, <2>1
      <3>2. rest \in Seq(Names) /\ Means(f, r, Place(at, rest)) BY <1>1, <1>2
      <3>3. Arriving(f, r) => Passable(f, at, rest) BY <1>2
      <3> HIDE DEF caller, below, m, at, rest, n
      <3>4. IsTop(f, r, caller.call, g, m, below) BY <2>2, <3>1, <3>2, <3>3, CallerKeeps
      <3> QED BY <3>4 DEF IsTop
    <2>4. HasTop(f, r, t, u, g, below)
      BY <1>1, <1>4, <2>3, ReturnKeeps DEF Returned
    <2> HIDE DEF t, u
    <2>5. Running(f, r, t, u) BY <2>3, <2>4 DEF Running, HasTop
    <2>6. CallOk(f, r, t, Pending) BY <2>4, <2>5 DEF CallOk, HasTop
    <2> QED BY <2>6 DEF t
  <1> QED BY <1>3, <1>4

LEMMA EndRuns ==
    ASSUME NEW f, NEW r, NEW result, Ended(f, r, result)
    PROVE  CallOk(f, r, <<>>, result)
  BY DEF CallOk

-----------------------------------------------------------------------------
(* The invariant *)

\* The activations on the stack carry on the walk of the path that was asked for:
\* what the running one finds is a place from which the walk goes on with the
\* components that the suspended ones have left.
THEOREM PathInvariant == Spec => []PathIInv
  <1>1. Init => PathIInv
    <2> SUFFICES ASSUME Init, Usual(fs, request) PROVE CallOk(fs, request, stack, outcome)
      BY DEF Init, PathIInv
    <2>1. fs \in FileSystems /\ request \in Requests /\ outcome = Pending BY DEF Init
    <2> DEFINE g == IF request.call = "follow" THEN FollowFrame(request.from, request.level)
                    ELSE ResolveFrame(request.from, request.path, request.follow_last)
    <2>2. stack = <<g>> BY DEF Init
    <2>3. FrameOk(fs, request, g, 1, <<>>) /\ TopOk(fs, request, g, <<>>) /\ g.call = request.call
      <3>1. CASE request.call = "follow" BY <2>1, <3>1, FollowStarts
      <3>2. CASE request.call # "follow" BY <2>1, <3>2, ResolveStarts
      <3> QED BY <3>1, <3>2
    <2> HIDE DEF g
    <2>4. Running(fs, request, <<g>>, [k \in 1 .. 1 |-> <<>>]) BY <2>3, OneActivation
    <2>5. <<g>> # <<>> OBVIOUS
    <2> QED BY <2>1, <2>2, <2>4, <2>5 DEF CallOk
  <1>2. PathIInv /\ [Next]_vars => PathIInv'
    <2> SUFFICES ASSUME PathIInv, [Next]_vars PROVE PathIInv' OBVIOUS
    <2>1. CASE UNCHANGED vars BY <2>1 DEF vars, PathIInv
    <2>2. CASE Next
      <3>1. fs' = fs /\ request' = request /\ stack # <<>>
        BY <2>2 DEF Next, ToParent, ToEntry, NoEntry, NextComponent, ResolveReturns, FollowOnce,
                    FollowReturns, Searching, InResolve, InFollow
      <3>2. fs \in FileSystems /\ request \in Requests BY DEF PathIInv
      <3>3. SUFFICES ASSUME Usual(fs, request) PROVE CallOk(fs, request, stack', outcome')
        BY <3>1, <3>2 DEF PathIInv
      <3>4. outcome = Pending /\ \E rests : Running(fs, request, stack, rests)
        BY <3>1, <3>3 DEF PathIInv, CallOk
      <3>5. PICK rests : Running(fs, request, stack, rests) BY <3>4
      <3> DEFINE n == Len(stack)
                 rest == rests[n]
      <3>6. /\ n \in Nat \ {0} /\ rest \in Seq(Names) /\ StackOk(fs, request, stack, rests)
            /\ FrameOk(fs, request, Top, n, rest) /\ TopOk(fs, request, Top, rest)
            /\ n = 1 => rest = <<>> /\ Top.call = request.call
        BY <3>5, RunningIs DEF Top
      <3>7. CASE ToParent
        <4> DEFINE g == Above(fs, Top)
        <4>1. /\ Top.call = "resolve" /\ ~Top.found /\ Top.i <= Len(Top.dirs) /\ Top.dirs[Top.i] = ".."
              /\ stack' = Append(Front(stack), g) /\ outcome' = Pending
          BY <3>4, <3>7 DEF ToParent, Searching, InResolve, SetTop, Above
        <4>2. FrameOk(fs, request, g, n, rest) /\ TopOk(fs, request, g, rest) /\ g.call = "resolve"
          BY <3>2, <3>6, <4>1, ToParentKeeps
        <4> HIDE DEF g
        <4>3. CallOk(fs, request, Append(Front(stack), g), Pending)
          BY <3>5, <4>1, <4>2, SetTopRuns DEF Top
        <4> QED BY <4>1, <4>3
      <3>8. CASE ToEntry
        <4> DEFINE inode == Named(fs, Top)
                   g == [Top EXCEPT !.at = inode, !.found = TRUE]
                   h == FollowFrame(inode, -1)
                   left == Left(Top, rest)
                   follows == FollowsIt(Top) /\ LinkBits(fs.kind[inode])
        <4>1. /\ Top.call = "resolve" /\ ~Top.found /\ Top.i <= Len(Top.dirs) /\ Top.dirs[Top.i] # ".."
              /\ <<Top.at, Top.dirs[Top.i]>> \in DOMAIN fs.entry
          BY <3>8 DEF ToEntry, Searching, InResolve
        <4>2. IF follows THEN Call(g, h) ELSE SetTop(g) /\ UNCHANGED outcome
          BY <3>8 DEF ToEntry, Follows, FollowsIt, Named
        <4>3. /\ FrameOk(fs, request, g, n, rest) /\ g.call = "resolve" /\ g.found
              /\ Rest(g) \in Seq(Names) /\ Rest(g) \o rest = left
              /\ ~follows => TopOk(fs, request, g, rest)
              /\ follows => /\ FrameOk(fs, request, h, n + 1, left) /\ TopOk(fs, request, h, left)
                            /\ h.call = "follow"
          BY <3>2, <3>6, <4>1, FoundKeeps
        <4> HIDE DEF inode, g, h, left, follows
        <4>4. CASE ~follows
          <5>1. stack' = Append(Front(stack), g) /\ outcome' = Pending BY <3>4, <4>2, <4>4 DEF SetTop
          <5>2. CallOk(fs, request, Append(Front(stack), g), Pending)
            BY <3>5, <4>1, <4>3, <4>4, SetTopRuns DEF Top
          <5> QED BY <5>1, <5>2
        <4>5. CASE follows /\ Len(stack) < StackBound
          <5>1. stack' = Append(Append(Front(stack), g), h) /\ outcome' = Pending
            BY <3>4, <4>2, <4>5 DEF Call
          <5>2. CallOk(fs, request, Append(Append(Front(stack), g), h), Pending)
            BY <3>5, <4>1, <4>3, <4>5, CallRuns DEF Top
          <5> QED BY <5>1, <5>2
        <4>6. CASE follows /\ ~(Len(stack) < StackBound)
          <5>1. stack' = <<>> /\ outcome' = Overflow BY <4>2, <4>6 DEF Call, Finish
          <5> QED BY <3>2, <5>1, OverflowEnds, EndRuns
        <4> QED BY <4>4, <4>5, <4>6
      <3>9. CASE NoEntry
        <4>1. /\ Top.call = "resolve" /\ ~Top.found /\ Top.i <= Len(Top.dirs) /\ Top.dirs[Top.i] # ".."
              /\ <<Top.at, Top.dirs[Top.i]>> \notin DOMAIN fs.entry
              /\ stack' = <<>> /\ outcome' = Error
          BY <3>9 DEF NoEntry, Searching, InResolve, Finish
        <4>2. ~Arriving(fs, request) BY <3>2, <3>6, <4>1, NoNameLeads
        <4> QED BY <3>2, <4>1, <4>2, ErrorEnds, EndRuns
      <3>10. CASE NextComponent
        <4> DEFINE g == [Top EXCEPT !.i = @ + 1, !.found = FALSE]
        <4>1. /\ Top.call = "resolve" /\ Top.found
              /\ IF Passes(Top) THEN SetTop(g) /\ UNCHANGED outcome ELSE Finish(Error)
          BY <3>10 DEF NextComponent, InResolve
        <4>2. /\ FrameOk(fs, request, g, n, rest) /\ TopOk(fs, request, g, rest) /\ g.call = "resolve"
              /\ ~Passes(Top) => ~Arriving(fs, request)
          BY <3>2, <3>6, <4>1, NextComponentKeeps DEF Passes
        <4> HIDE DEF g
        <4>3. CASE Passes(Top)
          <5>1. stack' = Append(Front(stack), g) /\ outcome' = Pending BY <3>4, <4>1, <4>3 DEF SetTop
          <5>2. CallOk(fs, request, Append(Front(stack), g), Pending)
            BY <3>5, <4>1, <4>2, SetTopRuns DEF Top
          <5> QED BY <5>1, <5>2
        <4>4. CASE ~Passes(Top)
          <5>1. stack' = <<>> /\ outcome' = Error BY <4>1, <4>4 DEF Finish
          <5> QED BY <3>2, <4>2, <4>4, <5>1, ErrorEnds, EndRuns
        <4> QED BY <4>3, <4>4
      <3>11. CASE ResolveReturns \/ FollowReturns
        <4>1. Done(fs, Top) /\ Return(Top.at)
          <5>1. CASE ResolveReturns
            <6>1. Top.call = "resolve" /\ ~Top.found /\ Top.i > Len(Top.dirs) /\ Return(Top.at)
              BY <5>1 DEF ResolveReturns, InResolve
            <6> QED BY <6>1 DEF Done
          <5>2. CASE FollowReturns
            <6>1. Top.call = "follow" /\ ~GoesOn(Top) /\ Return(Top.at)
              BY <5>2 DEF FollowReturns, InFollow
            <6>2. Top \in Frames(fs) BY <3>6 DEF FrameOk
            <6>3. Top.level = -1 BY <6>1, <6>2, FollowIs
            <6> QED BY <6>1, <6>3 DEF Done, GoesOn
          <5> QED BY <3>11, <5>1, <5>2
        <4>2. /\ Len(stack) = 1 => CallOk(fs, request, <<>>, Top.at)
              /\ Len(stack) # 1 => CallOk(fs, request, Returned(stack, Top.at), Pending)
          BY <3>2, <3>5, <4>1, ReturnRuns DEF Top
        <4>3. CASE Len(stack) = 1
          <5>1. stack' = <<>> /\ outcome' = Top.at BY <4>1, <4>3 DEF Return, Finish
          <5> QED BY <4>2, <4>3, <5>1
        <4>4. CASE Len(stack) # 1
          <5>1. stack' = Returned(stack, Top.at) /\ outcome' = Pending
            BY <3>4, <4>1, <4>4 DEF Return, Returned, Gets
          <5> QED BY <4>2, <4>4, <5>1
        <4> QED BY <4>3, <4>4
      <3>12. CASE FollowOnce
        <4> DEFINE g == Visited(Top)
                   h == ResolveFrame(Top.at, FromParent(fs.target[Top.at]), TRUE)
        <4>1. /\ Top.call = "follow" /\ fs.kind[Top.at] = "link"
              /\ IF Top.at \in Top.seen /\ Top.level = -1 THEN Finish(Error) ELSE Call(g, h)
          BY <3>12 DEF FollowOnce, InFollow, GoesOn, FollowTarget, Visited
        <4>2. /\ Top.seen = {} /\ Top.level = -1
              /\ FrameOk(fs, request, g, n, rest) /\ g.call = "follow" /\ Rest(g) = <<>>
              /\ FrameOk(fs, request, h, n + 1, rest) /\ TopOk(fs, request, h, rest) /\ h.call = "resolve"
          <5>1. n \in Nat \ {0} /\ rest \in Seq(Names) /\ (n = 1 => Top.call = request.call) BY <3>6
          <5>2. FrameOk(fs, request, Top, n, rest) /\ TopOk(fs, request, Top, rest) BY <3>6
          <5> HIDE DEF n, rest
          <5>3. IsCall(fs, request, n, rest, Top) BY <3>2, <3>3, <4>1, <5>1, <5>2, FollowKeeps
          <5> QED BY <5>3 DEF IsCall, IsTop
        <4> HIDE DEF g, h
        <4>3. Call(g, h) BY <4>1, <4>2
        <4>4. CASE Len(stack) < StackBound
          <5>1. stack' = Append(Append(Front(stack), g), h) /\ outcome' = Pending
            BY <3>4, <4>3, <4>4 DEF Call
          <5>2. rest = Rest(g) \o rest
            <6> HIDE DEF rest
            <6>1. rest = <<>> \o rest BY <3>6, Joined
            <6> QED BY <4>2, <6>1
          <5>3. <<>> \in Seq(Names) OBVIOUS
          <5>4. CallOk(fs, request, Append(Append(Front(stack), g), h), Pending)
            BY <3>5, <4>1, <4>2, <5>2, <5>3, CallRuns DEF Top
          <5> QED BY <5>1, <5>4
        <4>5. CASE ~(Len(stack) < StackBound)
          <5>1. stack' = <<>> /\ outcome' = Overflow BY <4>3, <4>5 DEF Call, Finish
          <5> QED BY <3>2, <5>1, OverflowEnds, EndRuns
        <4> QED BY <4>4, <4>5
      <3> QED BY <2>2, <3>7, <3>8, <3>9, <3>10, <3>11, <3>12 DEF Next
    <2> QED BY <2>1, <2>2
  <1> QED BY <1>1, <1>2, PTL DEF Spec
-----------------------------------------------------------------------------
(* The walk of PosixPath *)

Walks(f) == [at : Nodes(f), rest : Seq(Names), ok : BOOLEAN, begun : BOOLEAN]

LEMMA WalkParts ==
    ASSUME NEW f, NEW w \in Walks(f)
    PROVE  /\ w.at \in Nodes(f) /\ w.rest \in Seq(Names) /\ w.ok \in BOOLEAN /\ w.begun \in BOOLEAN
           /\ w = [at |-> w.at, rest |-> w.rest, ok |-> w.ok, begun |-> w.begun]
           /\ Place(w.at, w.rest) \in Places(f)
           /\ Place(w.at, w.rest).at = w.at /\ Place(w.at, w.rest).rest = w.rest
  <1>1. /\ w.at \in Nodes(f) /\ w.rest \in Seq(Names) /\ w.ok \in BOOLEAN /\ w.begun \in BOOLEAN
        /\ w = [at |-> w.at, rest |-> w.rest, ok |-> w.ok, begun |-> w.begun]
    BY DEF Walks
  <1> QED BY <1>1, PlaceIs

\* A walk that has failed or come to its end stays.
LEMMA WalkStays ==
    ASSUME NEW f, NEW fl, NEW w, ~w.ok \/ w.rest = <<>>
    PROVE  WalkStep(f, Root, fl, w) = w
  BY DEF WalkStep

\* One component of the walk, by what it is.
WalksOn(f, fl, w, d) ==
    LET name == Head(w.rest)
        rest == Tail(w.rest)
        here == <<w.at, name>>
        inode == f.entry[here]
        allowed == f.kind[w.at] = "dir" \/ ~w.begun
        follows == f.kind[inode] = "link" /\ (fl \/ rest # <<>>)
    IN  /\ d \in Walks(f)
        /\ name = "." => d.at = w.at /\ d.rest = rest /\ (d.ok <=> allowed) /\ (d.begun <=> w.begun)
        /\ name = ".." => /\ d.at = IF w.at = Root THEN Root ELSE f.parent[w.at]
                          /\ d.rest = rest /\ (d.ok <=> allowed) /\ d.begun
        /\ name \notin Dots /\ here \notin DOMAIN f.entry => ~d.ok
        /\ name \notin Dots /\ here \in DOMAIN f.entry =>
              /\ d.ok /\ d.begun
              /\ follows => /\ d.at = IF f.target[inode].abs THEN Root ELSE w.at
                            /\ d.rest = f.target[inode].comps \o rest
              /\ ~follows => d.at = inode /\ d.rest = rest

LEMMA WalkStepIs ==
    ASSUME NEW f \in FileSystems, NEW fl, NEW w \in Walks(f), w.ok, w.rest # <<>>
    PROVE  WalksOn(f, fl, w, WalkStep(f, Root, fl, w))
  <1> DEFINE name == Head(w.rest)
             rest == Tail(w.rest)
             here == <<w.at, name>>
             inode == f.entry[here]
             target == f.target[inode]
             allowed == f.kind[w.at] = "dir" \/ ~w.begun
             d == WalkStep(f, Root, fl, w)
             follows == f.kind[inode] = "link" /\ (fl \/ rest # <<>>)
  <1>1. /\ w.at \in Nodes(f) /\ w.rest \in Seq(Names) /\ w.ok = TRUE /\ w.begun \in BOOLEAN
        /\ w = [at |-> w.at, rest |-> w.rest, ok |-> w.ok, begun |-> w.begun]
    BY WalkParts
  <1>2. name \in Names /\ rest \in Seq(Names) BY <1>1, HeadFirst
  <1> SUFFICES WalksOn(f, fl, w, d) OBVIOUS
  <1>3. CASE name = "."
    <2>1. d = [w EXCEPT !.rest = rest, !.ok = allowed] BY <1>3 DEF WalkStep
    <2>2. allowed \in BOOLEAN BY <1>1
    <2> HIDE DEF allowed, rest, d, name
    <2>3. d = [at |-> w.at, rest |-> rest, ok |-> allowed, begun |-> w.begun] BY <1>1, <2>1 DEF Walks
    <2>4. d \in Walks(f) BY <1>1, <1>2, <2>2, <2>3 DEF Walks
    <2>5. d.at = w.at /\ d.rest = rest /\ (d.ok <=> allowed) /\ (d.begun <=> w.begun) BY <2>3
    <2> HIDE DEF inode, here, follows
    <2> QED BY <1>3, <2>4, <2>5 DEF Dots, WalksOn, name, rest, allowed
  <1>4. CASE name = ".."
    <2> DEFINE at == IF w.at = Root THEN Root ELSE f.parent[w.at]
    <2>1. d = [at |-> at, rest |-> rest, ok |-> allowed, begun |-> TRUE]
      BY <1>4 DEF WalkStep
    <2>2. allowed \in BOOLEAN BY <1>1
    <2>3. at \in Nodes(f) BY <1>1, VolumeIs
    <2> HIDE DEF allowed, rest, d, name, at
    <2>4. d \in Walks(f) BY <1>2, <2>1, <2>2, <2>3 DEF Walks
    <2>5. d.at = at /\ d.rest = rest /\ (d.ok <=> allowed) /\ d.begun BY <2>1
    <2> HIDE DEF inode, here, follows
    <2> QED BY <1>4, <2>4, <2>5 DEF Dots, WalksOn, name, rest, allowed, at
  <1>5. CASE name \notin Dots /\ here \notin DOMAIN f.entry
    <2>1. d = [w EXCEPT !.ok = FALSE] BY <1>5 DEF WalkStep, Dots
    <2> HIDE DEF d, name, here
    <2>2. d = [at |-> w.at, rest |-> w.rest, ok |-> FALSE, begun |-> w.begun] BY <1>1, <2>1 DEF Walks
    <2>3. d \in Walks(f) /\ ~d.ok BY <1>1, <2>2 DEF Walks
    <2> QED BY <1>5, <2>3 DEF Dots, WalksOn, name, here
  <1>6. CASE name \notin Dots /\ here \in DOMAIN f.entry /\ follows
    <2> DEFINE at == IF target.abs THEN Root ELSE w.at
               new == target.comps \o rest
    <2>1. d = [at |-> at, rest |-> new, ok |-> TRUE, begun |-> TRUE]
      BY <1>6 DEF WalkStep, Dots
    <2>2. inode \in Nodes(f) BY <1>6, EntryIs
    <2>3. target.comps \in Seq(Names) BY <1>6, <2>2, LinkIsNotRoot
    <2>4. new \in Seq(Names) BY <1>2, <2>3, Joined
    <2>5. at \in Nodes(f) BY <1>1, VolumeIs
    <2>6. d \in Walks(f) /\ d.at = at /\ d.rest = new /\ d.ok /\ d.begun
      <3> HIDE DEF d, at, new
      <3> QED BY <2>1, <2>4, <2>5 DEF Walks
    <2> HIDE DEF d
    <2> QED BY <1>6, <2>6 DEF Dots, WalksOn
  <1>7. CASE name \notin Dots /\ here \in DOMAIN f.entry /\ ~follows
    <2>1. d = [at |-> inode, rest |-> rest, ok |-> TRUE, begun |-> TRUE]
      BY <1>7 DEF WalkStep, Dots
    <2>2. inode \in Nodes(f) BY <1>7, EntryIs
    <2>3. d \in Walks(f) /\ d.at = inode /\ d.rest = rest /\ d.ok /\ d.begun
      <3> HIDE DEF d, inode, rest
      <3> QED BY <1>2, <2>1, <2>2 DEF Walks
    <2> HIDE DEF d
    <2> QED BY <1>7, <2>3 DEF Dots, WalksOn
  <1> QED BY <1>3, <1>4, <1>5, <1>6, <1>7 DEF Dots
LEMMA WalkCloses ==
    ASSUME NEW f \in FileSystems, NEW fl, NEW w \in Walks(f)
    PROVE  WalkStep(f, Root, fl, w) \in Walks(f)
  <1>1. CASE w.ok /\ w.rest # <<>>
    <2>1. WalksOn(f, fl, w, WalkStep(f, Root, fl, w)) BY <1>1, WalkStepIs
    <2> QED BY <2>1 DEF WalksOn
  <1>2. CASE ~(w.ok /\ w.rest # <<>>) BY <1>2, WalkStays
  <1> QED BY <1>1, <1>2

\* The walk is one of its steps after another.
IsAfter(f, fl, from, comps, fuel, after) ==
    /\ after \in [0 .. fuel -> Walks(f)] /\ after[0] = WalkFrom(from, comps)
    /\ \A n \in 1 .. fuel : after[n] = WalkStep(f, Root, fl, after[n - 1])

LEMMA WalkRecurs ==
    ASSUME NEW f \in FileSystems, NEW fl, NEW from \in Nodes(f), NEW comps \in Seq(Names),
           NEW fuel \in Nat
    PROVE  IsAfter(f, fl, from, comps, fuel, WalkAfter(f, Root, from, comps, fl, fuel))
  <1> DEFINE S == Walks(f)
             start == WalkFrom(from, comps)
             Step(w) == WalkStep(f, Root, fl, w)
             step == [p \in S \X (0 .. fuel) |-> Step(p[1])]
             after == WalkAfter(f, Root, from, comps, fl, fuel)
  <1>1. start \in S BY DEF WalkFrom, Walks
  <1>2. step \in [S \X (0 .. fuel) -> S]
    <2>1. ASSUME NEW p \in S \X (0 .. fuel) PROVE Step(p[1]) \in S
      <3>1. p[1] \in S BY <2>1
      <3> QED BY <3>1, WalkCloses
    <2> HIDE DEF S, Step
    <2> QED BY <2>1
  <1>3. PICK g \in [0 .. fuel -> S] : Recurs(g, 0, fuel, start, step)
    <2> HIDE DEF step, S, start
    <2>1. 0 \in Nat /\ 0 <= fuel OBVIOUS
    <2>2. HasRecursion(0, fuel, S, start, step) BY <1>1, <1>2, <2>1, Recursion
    <2> QED BY <2>2 DEF HasRecursion
  <1> HIDE DEF S, start, Step
  <1>4. \A n \in 0 .. fuel : g[n] = IF n = 0 THEN start ELSE Step(g[n - 1])
    <2> SUFFICES ASSUME NEW n \in 0 .. fuel
                 PROVE  g[n] = IF n = 0 THEN start ELSE Step(g[n - 1])
      OBVIOUS
    <2>1. CASE n = 0
      <3> HIDE DEF step
      <3> QED BY <1>3, <2>1 DEF Recurs
    <2>2. CASE n # 0
      <3>1. n - 1 \in 0 .. fuel BY <2>2
      <3>2. g[n - 1] \in S BY <1>3, <3>1
      <3>3. step[<<g[n - 1], n>>] = Step(g[n - 1])
        <4>1. <<g[n - 1], n>> \in S \X (0 .. fuel) BY <3>2
        <4> QED BY <4>1
      <3>4. g[n] = step[<<g[n - 1], n>>]
        <4> HIDE DEF step
        <4> QED BY <1>3, <2>2 DEF Recurs
      <3> QED BY <2>2, <3>3, <3>4
    <2> QED BY <2>1, <2>2
  <1>5. after = [n \in 0 .. fuel |-> IF n = 0 THEN start ELSE Step(after[n - 1])]
    <2>1. g = [n \in 0 .. fuel |-> IF n = 0 THEN start ELSE Step(g[n - 1])] BY <1>3, <1>4
    <2> QED BY <2>1 DEF WalkAfter, start, Step
  <1> HIDE DEF after, step
  <1>6. \A n \in 0 .. fuel : after[n] = IF n = 0 THEN start ELSE Step(after[n - 1])
    BY <1>5
  <1>7. 0 \in 0 .. fuel /\ after[0] = start BY <1>6
  <1>8. \A n \in 1 .. fuel : n \in 0 .. fuel /\ after[n] = Step(after[n - 1])
    <2> SUFFICES ASSUME NEW n \in 1 .. fuel PROVE n \in 0 .. fuel /\ after[n] = Step(after[n - 1])
      OBVIOUS
    <2>1. n \in 0 .. fuel /\ n # 0 OBVIOUS
    <2> QED BY <1>6, <2>1
  <1> DEFINE G == {n \in 0 .. fuel : after[n] \in S}
  <1>9. 0 \in G BY <1>1, <1>7
  <1>10. ASSUME NEW n \in 0 .. fuel - 1, n \in G PROVE n + 1 \in G
    <2>1. n + 1 \in 1 .. fuel /\ n + 1 \in 0 .. fuel /\ (n + 1) - 1 = n OBVIOUS
    <2>2. after[n + 1] = Step(after[n]) BY <1>8, <2>1
    <2>3. after[n] \in S BY <1>10
    <2>4. Step(after[n]) \in S BY <2>3, WalkCloses DEF S, Step
    <2> QED BY <2>1, <2>2, <2>4
  <1> HIDE DEF G
  <1>11. 0 \in Nat OBVIOUS
  <1>12. \A n \in 0 .. fuel : n \in G BY <1>9, <1>10, <1>11, UpTo
  <1>13. after \in [0 .. fuel -> S]
    <2>1. \A n \in 0 .. fuel : after[n] \in S BY <1>12 DEF G
    <2> QED BY <1>5, <2>1
  <1> QED BY <1>7, <1>8, <1>13 DEF IsAfter, S, start, Step, after

Standing(w) == Place(w.at, w.rest)

\* A component that is walked goes there, with the test if the next one is walked too.
LEMMA WalkGoes ==
    ASSUME NEW f \in FileSystems, NEW fl, NEW w \in Walks(f), w.ok, w.rest # <<>>,
           \A node \in Nodes(f) : f.kind[node] = "link" => ~f.target[node].abs,
           NEW d, d = WalkStep(f, Root, fl, w), d.ok,
           d.rest = <<>> \/ WalkStep(f, Root, fl, d).ok
    PROVE  Goes(f, TRUE, fl, Standing(w), Standing(d))
  <1> DEFINE name == Head(w.rest)
             rest == Tail(w.rest)
             here == <<w.at, name>>
             inode == f.entry[here]
             c == Standing(w)
             follows == f.kind[inode] = "link" /\ (fl \/ rest # <<>>)
  <1>1. WalksOn(f, fl, w, d) /\ d \in Walks(f)
    <2>1. WalksOn(f, fl, w, d) BY WalkStepIs
    <2> QED BY <2>1 DEF WalksOn
  <1>2. c.at = w.at /\ c.rest = w.rest BY WalkParts DEF Standing
  <1> SUFFICES Goes(f, TRUE, fl, c, Standing(d)) OBVIOUS
  <1> HIDE DEF c
  <1>3. CASE name = "." BY <1>1, <1>2, <1>3 DEF WalksOn, Goes, Standing
  <1>4. CASE name = ".." BY <1>1, <1>2, <1>4 DEF WalksOn, Goes, Standing
  <1>5. CASE name \notin Dots
    <2>1. here \in DOMAIN f.entry BY <1>1, <1>5 DEF WalksOn
    <2>2. inode \in Nodes(f) BY <2>1, EntryIs
    <2>3. CASE follows
      <3>1. d.at = w.at /\ d.rest = f.target[inode].comps \o rest
        BY <1>1, <1>5, <2>1, <2>2, <2>3 DEF WalksOn
      <3>2. ByName(f, TRUE, fl, c, Standing(d)) BY <1>2, <2>1, <2>3, <3>1 DEF ByName, Standing
      <3> QED BY <1>2, <1>5, <3>2 DEF Goes
    <2>4. CASE ~follows
      <3>1. d.at = inode /\ d.rest = rest /\ d.begun BY <1>1, <1>5, <2>1, <2>4 DEF WalksOn
      <3>2. Passable(f, inode, rest)
        <4>1. SUFFICES ASSUME rest # <<>> PROVE f.kind[inode] = "dir" BY DEF Passable, DirBits
        <4> DEFINE e == WalkStep(f, Root, fl, d)
        <4>2. e.ok /\ WalksOn(f, fl, d, e) BY <1>1, <3>1, <4>1, WalkStepIs
        <4> HIDE DEF e, inode, rest
        <4>3. CASE Head(d.rest) \in Dots BY <3>1, <4>2, <4>3 DEF WalksOn, Dots
        <4>4. CASE Head(d.rest) \notin Dots
          <5>1. <<d.at, Head(d.rest)>> \in DOMAIN f.entry BY <4>2, <4>4 DEF WalksOn
          <5> QED BY <3>1, <5>1, EntryIs
        <4> QED BY <4>3, <4>4
      <3>3. ByName(f, TRUE, fl, c, Standing(d)) BY <1>2, <2>1, <2>4, <3>1, <3>2 DEF ByName, Standing
      <3> QED BY <1>2, <1>5, <3>3 DEF Goes
    <2> QED BY <2>3, <2>4
  <1> QED BY <1>3, <1>4, <1>5 DEF Dots

\* A walk that arrives leads there.
LEMMA ArrivalLeads ==
    ASSUME NEW f \in FileSystems, NEW fl, NEW from \in Nodes(f), NEW comps \in Seq(Names),
           NEW fuel \in Nat,
           \A node \in Nodes(f) : f.kind[node] = "link" => ~f.target[node].abs,
           Arrives(Walk(f, Root, from, comps, fl, fuel))
    PROVE  LET x == Walk(f, Root, from, comps, fl, fuel).at IN
           x \in Nodes(f) /\ Leads(f, TRUE, fl, Place(from, comps), x)
  <1> DEFINE after == WalkAfter(f, Root, from, comps, fl, fuel)
             x == after[fuel].at
             L(j) == after[fuel - j]
             Good(w) == /\ w.ok /\ (w.rest = <<>> \/ WalkStep(f, Root, fl, w).ok)
                        /\ Leads(f, TRUE, fl, Standing(w), x)
             G == {j \in 0 .. fuel : Good(L(j))}
  <1>1. IsAfter(f, fl, from, comps, fuel, after) BY WalkRecurs
  <1>2. Walk(f, Root, from, comps, fl, fuel) = after[fuel] BY DEF Walk
  <1> HIDE DEF after
  <1>3. \A j \in 0 .. fuel : after[j] \in Walks(f) BY <1>1 DEF IsAfter
  <1>4. fuel \in 0 .. fuel /\ x \in Nodes(f) /\ after[fuel].ok /\ after[fuel].rest = <<>>
    <2>1. fuel \in 0 .. fuel OBVIOUS
    <2> QED BY <1>2, <1>3, <2>1, WalkParts DEF Arrives
  <1>5. 0 \in G
    <2>1. fuel - 0 = fuel /\ 0 \in 0 .. fuel OBVIOUS
    <2>2. Standing(after[fuel]) = Place(x, <<>>) BY <1>4 DEF Standing
    <2>3. Leads(f, TRUE, fl, Standing(after[fuel]), x)
      <3> HIDE DEF x
      <3>1. Leads(f, TRUE, fl, Place(x, <<>>), x) BY <1>4, LeadsAtEnd
      <3> QED BY <2>2, <3>1
    <2>4. L(0) = after[fuel] BY <2>1
    <2>5. Good(after[fuel]) BY <1>4, <2>3
    <2> HIDE DEF Good, L
    <2> QED BY <2>1, <2>4, <2>5
  <1>6. ASSUME NEW j \in 0 .. fuel - 1, j \in G PROVE j + 1 \in G
    <2> DEFINE w == L(j + 1)
               d == L(j)
    <2>1. /\ j + 1 \in 0 .. fuel /\ fuel - j \in 1 .. fuel /\ fuel - (j + 1) \in 0 .. fuel
          /\ (fuel - j) - 1 = fuel - (j + 1)
      OBVIOUS
    <2>2. d = WalkStep(f, Root, fl, w) BY <1>1, <2>1 DEF IsAfter
    <2>3. w \in Walks(f) BY <1>3, <2>1
    <2>4. Good(d) BY <1>6
    <2> HIDE DEF w, d
    <2>5. Good(w)
      <3>1. CASE ~w.ok \/ w.rest = <<>>
        <4>1. d = w BY <2>2, <3>1, WalkStays
        <4> QED BY <2>4, <4>1
      <3>2. CASE w.ok /\ w.rest # <<>>
        <4>1. Goes(f, TRUE, fl, Standing(w), Standing(d)) BY <2>2, <2>3, <2>4, <3>2, WalkGoes
        <4>2. Standing(w) \in Places(f) BY <2>3, WalkParts DEF Standing
        <4>3. Leads(f, TRUE, fl, Standing(w), x)
          <5> DEFINE a == Standing(w)
                     b == Standing(d)
          <5>1. Leads(f, TRUE, fl, b, x) /\ Goes(f, TRUE, fl, a, b) /\ a \in Places(f) BY <2>4, <4>1, <4>2
          <5> HIDE DEF a, b, x
          <5>2. Leads(f, TRUE, fl, a, x) BY <5>1, LeadsBack
          <5> QED BY <5>2 DEF a
        <4> QED BY <2>2, <2>4, <3>2, <4>3
      <3> QED BY <3>1, <3>2
    <2> HIDE DEF Good
    <2> QED BY <2>1, <2>5 DEF w
  <1>7. fuel \in G
    <2> HIDE DEF G
    <2>1. 0 \in Nat OBVIOUS
    <2>2. \A j \in 0 .. fuel : j \in G BY <1>5, <1>6, <2>1, UpTo
    <2> QED BY <1>4, <2>2
  <1>8. Leads(f, TRUE, fl, Place(from, comps), x)
    <2>1. fuel - fuel = 0 OBVIOUS
    <2>2. L(fuel) = WalkFrom(from, comps) BY <1>1, <2>1 DEF IsAfter
    <2>3. Standing(WalkFrom(from, comps)) = Place(from, comps) BY DEF Standing, WalkFrom
    <2>4. Leads(f, TRUE, fl, Standing(L(fuel)), x) BY <1>7
    <2> QED BY <2>2, <2>3, <2>4
  <1> QED BY <1>2, <1>4, <1>8 DEF after
-----------------------------------------------------------------------------
(* Where a walk leads, it arrives *)

DotsBefore(S) ==
    \A m, n \in 1 .. Len(S) : m < n /\ S[n] \in Dots => S[m] \in Dots
NoDots(S) == \A k \in 1 .. Len(S) : S[k] \notin Dots

LEMMA DotsTail ==
    ASSUME NEW S \in Seq(Names), S # <<>>, DotsBefore(S)
    PROVE  DotsBefore(Tail(S)) /\ (Head(S) \notin Dots => NoDots(Tail(S)))
  <1> DEFINE T == Tail(S)
             N == Len(T)
  <1>1. /\ Head(S) = S[1] /\ Len(S) \in Nat \ {0} /\ Len(T) = Len(S) - 1
        /\ \A k \in 1 .. Len(S) - 1 : T[k] = S[k + 1]
    BY HeadFirst
  <1> HIDE DEF T
  <1>2. N \in Nat /\ Len(S) = N + 1
    <2> DEFINE L == Len(S)
    <2>1. L \in Nat \ {0} /\ N = L - 1 BY <1>1
    <2> HIDE DEF L, N
    <2>2. N \in Nat /\ L = N + 1 BY <2>1
    <2> QED BY <2>2 DEF L
  <1>3. \A k \in 1 .. N : T[k] = S[k + 1] BY <1>1
  <1>4. N = Len(T) OBVIOUS
  <1> HIDE DEF N
  <1>5. ASSUME NEW m \in 1 .. N, NEW n \in 1 .. N, m < n, T[n] \in Dots PROVE T[m] \in Dots
    <2>1. m + 1 \in 1 .. Len(S) /\ n + 1 \in 1 .. Len(S) /\ m + 1 < n + 1 BY <1>2, <1>5
    <2>2. T[m] = S[m + 1] /\ T[n] = S[n + 1] BY <1>3
    <2> QED BY <1>5, <2>1, <2>2 DEF DotsBefore
  <1>6. ASSUME Head(S) \notin Dots, NEW k \in 1 .. N PROVE T[k] \notin Dots
    <2>1. 1 \in 1 .. Len(S) /\ k + 1 \in 1 .. Len(S) /\ 1 < k + 1 BY <1>2
    <2>2. T[k] = S[k + 1] BY <1>3
    <2> QED BY <1>1, <1>6, <2>1, <2>2 DEF DotsBefore
  <1> QED BY <1>4, <1>5, <1>6 DEF DotsBefore, NoDots, T

LEMMA DotsJoined ==
    ASSUME NEW T \in Seq(Names), NEW Q \in Seq(Names), DotsBefore(T), NoDots(Q)
    PROVE  DotsBefore(T \o Q)
  <1> DEFINE S == T \o Q
             L == Len(T)
             N == Len(Q)
  <1>1. /\ L \in Nat /\ N \in Nat /\ Len(S) = L + N
        /\ \A k \in 1 .. L + N : S[k] = IF k <= L THEN T[k] ELSE Q[k - L]
    BY ConcatProperties, LenProperties
  <1>2. L = Len(T) /\ N = Len(Q) OBVIOUS
  <1> HIDE DEF S, L, N
  <1>3. ASSUME NEW m \in 1 .. L + N, NEW n \in 1 .. L + N, m < n, S[n] \in Dots PROVE S[m] \in Dots
    <2>1. CASE n <= L
      <3>1. m \in 1 .. L /\ n \in 1 .. L BY <1>1, <1>3, <2>1
      <3>2. S[m] = T[m] /\ S[n] = T[n] BY <1>1, <3>1
      <3> QED BY <1>2, <1>3, <3>1, <3>2 DEF DotsBefore
    <2>2. CASE ~(n <= L)
      <3>1. n - L \in 1 .. N BY <1>1, <2>2
      <3>2. S[n] = Q[n - L] BY <1>1, <2>2
      <3> QED BY <1>2, <1>3, <3>1, <3>2 DEF NoDots
    <2> QED BY <2>1, <2>2
  <1> QED BY <1>1, <1>3 DEF DotsBefore, S

LEMMA DotsFirstIs ==
    ASSUME NEW path \in Path, DotsFirst(path)
    PROVE  path.comps \in Seq(Names) /\ DotsBefore(path.comps)
  <1>1. path.comps \in Seq(Names) BY DEF Path
  <1>2. DOMAIN path.comps = 1 .. Len(path.comps) BY <1>1, LenProperties
  <1> QED BY <1>1, <1>2 DEF DotsFirst, DotsBefore, Dots

\* The walk has a place, and the dots it has left are at a directory or at its beginning.
Walking(f, w, c) ==
    /\ w \in Walks(f) /\ w.ok /\ w.at = c.at /\ w.rest = c.rest /\ DotsBefore(w.rest)
    /\ w.rest # <<>> /\ Head(w.rest) \in Dots => f.kind[w.at] = "dir" \/ ~w.begun

LEMMA WalksThere ==
    ASSUME NEW f \in FileSystems, NEW fl, NEW c \in Places(f), NEW d, Goes(f, FALSE, fl, c, d),
           \A node \in Nodes(f) : f.kind[node] = "link" =>
               ~f.target[node].abs /\ DotsFirst(f.target[node]),
           NEW w, Walking(f, w, c)
    PROVE  Walking(f, WalkStep(f, Root, fl, w), d)
  <1> DEFINE e == WalkStep(f, Root, fl, w)
             name == Head(w.rest)
             rest == Tail(w.rest)
             here == <<w.at, name>>
             inode == f.entry[here]
             follows == f.kind[inode] = "link" /\ (fl \/ rest # <<>>)
  <1>1. w \in Walks(f) /\ w.ok /\ w.at = c.at /\ w.rest = c.rest /\ w.rest # <<>> BY DEF Walking, Goes
  <1>2. WalksOn(f, fl, w, e) BY <1>1, WalkStepIs
  <1>3. w.rest \in Seq(Names) /\ w.at \in Nodes(f) /\ DotsBefore(w.rest) BY <1>1, WalkParts DEF Walking
  <1>4. rest \in Seq(Names) /\ DotsBefore(rest) /\ (name \notin Dots => NoDots(rest))
    BY <1>1, <1>3, DotsTail, HeadFirst
  <1>5. rest # <<>> /\ NoDots(rest) => Head(rest) \notin Dots
    <2>1. rest # <<>> => Head(rest) = rest[1] /\ Len(rest) \in Nat \ {0} BY <1>4, HeadFirst
    <2>2. rest # <<>> => 1 \in 1 .. Len(rest) BY <2>1
    <2> QED BY <2>1, <2>2 DEF NoDots
  <1>6. name \in Dots => f.kind[w.at] = "dir" \/ ~w.begun BY <1>1 DEF Walking
  <1>7. e \in Walks(f) BY <1>2 DEF WalksOn
  <1> SUFFICES Walking(f, e, d) OBVIOUS
  <1> HIDE DEF e, rest
  <1>8. CASE name = "."
    <2>1. e.at = w.at /\ e.rest = rest /\ e.ok /\ (e.begun <=> w.begun)
      BY <1>2, <1>6, <1>8 DEF WalksOn, Dots, rest
    <2>2. d = Place(w.at, rest) BY <1>1, <1>8 DEF Goes, ByName, Dots, rest
    <2>3. d.at = w.at /\ d.rest = rest BY <2>2 DEF Place
    <2>4. f.kind[w.at] = "dir" \/ ~w.begun BY <1>6, <1>8 DEF Dots
    <2> QED BY <1>4, <1>7, <2>1, <2>3, <2>4 DEF Walking
  <1>9. CASE name = ".."
    <2> DEFINE at == IF w.at = Root THEN Root ELSE f.parent[w.at]
    <2>1. e.at = at /\ e.rest = rest /\ e.ok BY <1>2, <1>6, <1>9 DEF WalksOn, Dots, rest
    <2>2. d = Place(at, rest) BY <1>1, <1>9 DEF Goes, ByName, Dots, rest
    <2>3. f.kind[at] = "dir" BY <1>3, VolumeIs
    <2> HIDE DEF at
    <2>4. d.at = at /\ d.rest = rest BY <2>2 DEF Place
    <2> QED BY <1>4, <1>7, <2>1, <2>3, <2>4 DEF Walking
  <1>10. CASE name \notin Dots
    <2>1. ByName(f, FALSE, fl, c, d) BY <1>1, <1>10 DEF Goes, Dots
    <2>2. here \in DOMAIN f.entry BY <1>1, <2>1 DEF ByName
    <2>3. inode \in Nodes(f) /\ f.kind[w.at] = "dir" BY <2>2, EntryIs
    <2>4. CASE follows
      <3> DEFINE target == f.target[inode]
                 new == target.comps \o rest
      <3>1. target \in Path /\ ~target.abs /\ DotsFirst(target) BY <2>3, <2>4, LinkIsNotRoot
      <3>2. e.ok /\ e.at = w.at /\ e.rest = new BY <1>2, <1>10, <2>2, <2>4, <3>1 DEF WalksOn, rest
      <3>3. d = Place(w.at, new) BY <1>1, <2>1, <2>4 DEF ByName, rest
      <3>4. DotsBefore(new)
        <4> HIDE DEF target
        <4>1. target.comps \in Seq(Names) /\ DotsBefore(target.comps) BY <3>1, DotsFirstIs
        <4> QED BY <1>4, <1>10, <4>1, DotsJoined
      <3> HIDE DEF new
      <3>5. d.at = w.at /\ d.rest = new BY <3>3 DEF Place
      <3> QED BY <1>7, <2>3, <3>2, <3>4, <3>5 DEF Walking
    <2>5. CASE ~follows
      <3>1. e.ok /\ e.at = inode /\ e.rest = rest BY <1>2, <1>10, <2>2, <2>5 DEF WalksOn, rest
      <3>2. d = Place(inode, rest) BY <1>1, <2>1, <2>5 DEF ByName, rest
      <3> HIDE DEF inode
      <3>3. d.at = inode /\ d.rest = rest BY <3>2 DEF Place
      <3> QED BY <1>4, <1>5, <1>7, <1>10, <3>1, <3>3 DEF Walking
    <2> QED BY <2>4, <2>5
  <1> QED BY <1>8, <1>9, <1>10 DEF Dots

ArrivesAt(w, x) == Arrives(w) /\ w.at = x

LEMMA LeadingArrives ==
    ASSUME NEW f \in FileSystems, NEW fl, NEW from \in Nodes(f), NEW comps \in Seq(Names),
           DotsBefore(comps),
           \A node \in Nodes(f) : f.kind[node] = "link" =>
               ~f.target[node].abs /\ DotsFirst(f.target[node]),
           NEW x, Leads(f, FALSE, fl, Place(from, comps), x)
    PROVE  \E n \in Nat : ArrivesAt(Walk(f, Root, from, comps, fl, n), x)
  <1>1. PICK n \in Nat : \E s \in [0 .. n -> Places(f)] :
            s[0] = Place(from, comps) /\ s[n] = Place(x, <<>>) /\ IsWalk(f, FALSE, fl, s, n)
    BY DEF Leads
  <1>2. PICK s \in [0 .. n -> Places(f)] :
            s[0] = Place(from, comps) /\ s[n] = Place(x, <<>>) /\ IsWalk(f, FALSE, fl, s, n)
    BY <1>1
  <1> DEFINE after == WalkAfter(f, Root, from, comps, fl, n)
             G == {j \in 0 .. n : Walking(f, after[j], s[j])}
  <1>3. IsAfter(f, fl, from, comps, n, after) BY WalkRecurs
  <1>4. Walk(f, Root, from, comps, fl, n) = after[n] BY DEF Walk
  <1> HIDE DEF after
  <1>5. 0 \in G
    <2>1. after[0] = WalkFrom(from, comps) BY <1>3 DEF IsAfter
    <2>2. Walking(f, WalkFrom(from, comps), Place(from, comps))
      BY DEF Walking, Walks, WalkFrom, Place
    <2> QED BY <1>2, <2>1, <2>2
  <1>6. ASSUME NEW j \in 0 .. n - 1, j \in G PROVE j + 1 \in G
    <2>1. j \in 0 .. n /\ j + 1 \in 0 .. n /\ j + 1 \in 1 .. n /\ (j + 1) - 1 = j OBVIOUS
    <2>2. s[j] \in Places(f) /\ Goes(f, FALSE, fl, s[j], s[j + 1]) BY <1>2, <2>1 DEF IsWalk
    <2>3. Walking(f, after[j], s[j]) BY <1>6
    <2>4. after[j + 1] = WalkStep(f, Root, fl, after[j]) BY <1>3, <2>1 DEF IsAfter
    <2>5. Walking(f, WalkStep(f, Root, fl, after[j]), s[j + 1]) BY <2>2, <2>3, WalksThere
    <2> QED BY <2>1, <2>4, <2>5
  <1>7. n \in G
    <2> HIDE DEF G
    <2>1. 0 \in Nat /\ n \in 0 .. n OBVIOUS
    <2>2. \A j \in 0 .. n : j \in G BY <1>5, <1>6, <2>1, UpTo
    <2> QED BY <2>1, <2>2
  <1>8. ArrivesAt(after[n], x)
    <2>1. Walking(f, after[n], Place(x, <<>>)) BY <1>2, <1>7
    <2> QED BY <2>1 DEF Walking, ArrivesAt, Arrives, Place
  <1> QED BY <1>4, <1>8

\* A place leads to one entry.
LEMMA LeadsUnique ==
    ASSUME NEW f \in FileSystems, NEW fl, NEW c, NEW x \in Nodes(f), NEW y \in Nodes(f),
           Leads(f, FALSE, fl, c, x), Leads(f, FALSE, fl, c, y)
    PROVE  x = y
  <1>1. PICK n \in Nat : \E s \in [0 .. n -> Places(f)] :
            s[0] = c /\ s[n] = Place(x, <<>>) /\ IsWalk(f, FALSE, fl, s, n)
    BY DEF Leads
  <1>2. PICK s \in [0 .. n -> Places(f)] :
            s[0] = c /\ s[n] = Place(x, <<>>) /\ IsWalk(f, FALSE, fl, s, n)
    BY <1>1
  <1> DEFINE G == {j \in 0 .. n : Leads(f, FALSE, fl, s[j], y)}
  <1>3. 0 \in G
    <2>1. 0 \in 0 .. n /\ s[0] = c BY <1>2
    <2>2. Leads(f, FALSE, fl, s[0], y) BY <2>1
    <2> QED BY <2>1, <2>2
  <1>4. ASSUME NEW j \in 0 .. n - 1, j \in G PROVE j + 1 \in G
    <2>1. j \in 0 .. n /\ j + 1 \in 0 .. n OBVIOUS
    <2>2. s[j] \in Places(f) /\ Goes(f, FALSE, fl, s[j], s[j + 1]) BY <1>2, <2>1 DEF IsWalk
    <2>3. Leads(f, FALSE, fl, s[j + 1], y) BY <1>4, <2>2, LeadsAfter
    <2> QED BY <2>1, <2>3
  <1>5. n \in G
    <2> HIDE DEF G
    <2>1. 0 \in Nat /\ n \in 0 .. n OBVIOUS
    <2>2. \A j \in 0 .. n : j \in G BY <1>3, <1>4, <2>1, UpTo
    <2> QED BY <2>1, <2>2
  <1>6. Leads(f, FALSE, fl, Place(x, <<>>), y) BY <1>2, <1>5
  <1> QED BY <1>6, LeadsAtEnd
LEMMA LeadsUntested ==
    ASSUME NEW f, NEW fl, NEW c, NEW x, Leads(f, TRUE, fl, c, x)
    PROVE  Leads(f, FALSE, fl, c, x)
  <1>1. ASSUME NEW s, NEW n, IsWalk(f, TRUE, fl, s, n) PROVE IsWalk(f, FALSE, fl, s, n)
    BY <1>1, GoesUntested DEF IsWalk
  <1> QED BY <1>1 DEF Leads

-----------------------------------------------------------------------------
(* What is found is what is meant *)

LEMMA MeantIs ==
    ASSUME fs \in FileSystems, request \in Requests
    PROVE  LET c == Start(fs, request) IN
           /\ c \in Places(fs)
           /\ \A n \in Nat : MeantAfter(n) = Walk(fs, Root, c.at, c.rest, FollowsLast(request), n)
  <1>1. /\ request.from \in Nodes(fs)
        /\ \/ request.call = "follow" /\ fs.kind[request.from] = "link"
           \/ request.call = "resolve" /\ request.path \in Path /\ request.follow_last \in BOOLEAN
    BY PathAssumption DEF IsRequest, Nodes
  <1>2. Start(fs, request) \in Places(fs) BY StartIs
  <1>3. CASE request.call = "follow"
    <2>1. FollowsLast(request) = TRUE BY <1>3 DEF FollowsLast
    <2>2. /\ Start(fs, request).at = fs.parent[request.from]
          /\ Start(fs, request).rest = fs.target[request.from].comps
      BY <1>3 DEF Start, Place
    <2>3. \A n \in Nat : MeantAfter(n) =
              Walk(fs, Root, fs.parent[request.from], fs.target[request.from].comps, TRUE, n)
      BY <1>3 DEF MeantAfter
    <2> QED BY <1>2, <2>1, <2>2, <2>3
  <1>4. CASE request.call # "follow"
    <2>1. FollowsLast(request) = request.follow_last BY <1>1, <1>4 DEF FollowsLast
    <2>2. /\ Start(fs, request).at = IF request.path.abs THEN Root ELSE request.from
          /\ Start(fs, request).rest = request.path.comps
      BY <1>4 DEF Start, Place
    <2>3. \A n \in Nat : MeantAfter(n) =
              Walk(fs, Root, IF request.path.abs THEN Root ELSE request.from,
                   request.path.comps, request.follow_last, n)
      BY <1>4 DEF MeantAfter
    <2> QED BY <1>2, <2>1, <2>2, <2>3
  <1> QED BY <1>3, <1>4

LEMMA PathsAre ==
    ASSUME fs \in FileSystems
    PROVE  /\ Paths = PathsOf(fs, request) /\ LinkNames = LinkNamesOf(fs)
           /\ \A path : Plain(path) => PlainIn(fs, path)
  <1>1. Paths = PathsOf(fs, request) BY DEF Paths, PathsOf, Links, Inodes, Nodes
  <1>2. LinkNames = LinkNamesOf(fs)
    <2>1. ASSUME NEW e \in DOMAIN fs.entry PROVE fs.entry[e] \in Nodes(fs)
      BY PathAssumption DEF WellFormed, Nodes
    <2> QED BY <2>1 DEF LinkNames, LinkNamesOf, Links, Inodes, Nodes
  <1> QED BY <1>1, <1>2 DEF Plain, PlainIn, Dots

LEMMA UsualIs ==
    ASSUME fs \in FileSystems, RelativeTargets, Unlimited, LinkKept,
           \A path \in Paths : NoLastDot(path)
    PROVE  Usual(fs, request)
  BY PathsAre DEF Usual, RelativeTargets, Unlimited, LinkKept, Links, Inodes, Nodes

LEMMA OutcomeEnds ==
    ASSUME PathIInv, Usual(fs, request), outcome # Pending
    PROVE  Ended(fs, request, outcome)
  BY DEF PathIInv, CallOk

\* What resolve finds, a walk of the path arrives at, with as much fuel as it needs.
FoundIsMeant ==
    outcome \in Inodes /\ RelativeTargets /\ Unlimited /\ LinkKept
        /\ (\A path \in Paths : DotsFirst(path)) =>
            \E n \in Nat : Arrives(MeantAfter(n)) /\ outcome = MeantAfter(n).at

\* A walk that arrives does so within Fuel components.
FuelIsEnough == \A n \in Nat : Arrives(MeantAfter(n)) => Arrives(Meant)

LEMMA WhatIsMeant ==
    ASSUME PathIInv, outcome # Overflow
    PROVE  FindsWhatIsMeant
  <1> SUFFICES ASSUME outcome # Pending, Arrives(Meant), RelativeTargets, Unlimited, LinkKept,
                      \A path \in Paths : Plain(path)
               PROVE  outcome = Meant.at
    BY DEF FindsWhatIsMeant
  <1> DEFINE c == Start(fs, request)
             fl == FollowsLast(request)
  <1>1. fs \in FileSystems /\ request \in Requests BY DEF PathIInv
  <1>2. Usual(fs, request)
    <2>1. \A path \in Paths : NoLastDot(path) BY DEF Plain
    <2> QED BY <1>1, <2>1, UsualIs
  <1>3. Ended(fs, request, outcome) BY <1>2, OutcomeEnds
  <1>4. AllPlain(fs, request) BY <1>1, PathsAre DEF AllPlain
  <1>5. c \in Places(fs) /\ Meant = Walk(fs, Root, c.at, c.rest, fl, Fuel)
    BY <1>1, MeantIs, PathAssumption DEF Meant
  <1>6. c.at \in Nodes(fs) /\ c.rest \in Seq(Names) /\ c = Place(c.at, c.rest) BY <1>5, PlaceParts
  <1>7. \A node \in Nodes(fs) : fs.kind[node] = "link" => ~fs.target[node].abs BY <1>2 DEF Usual
  <1>8. Meant.at \in Nodes(fs) /\ Leads(fs, TRUE, fl, c, Meant.at)
    <2>1. Arrives(Walk(fs, Root, c.at, c.rest, fl, Fuel)) BY <1>5
    <2>2. Fuel \in Nat BY PathAssumption
    <2> HIDE DEF c, fl
    <2>3. LET x == Walk(fs, Root, c.at, c.rest, fl, Fuel).at IN
          x \in Nodes(fs) /\ Leads(fs, TRUE, fl, Place(c.at, c.rest), x)
      BY <1>1, <1>6, <1>7, <2>1, <2>2, ArrivalLeads
    <2> QED BY <1>5, <1>6, <2>3
  <1> QED BY <1>3, <1>4, <1>8 DEF Ended

LEMMA OnlyWhatIsMeant ==
    ASSUME PathIInv
    PROVE  FoundIsMeant /\ (FuelIsEnough => FindsOnlyWhatIsMeant)
  <1> DEFINE c == Start(fs, request)
             fl == FollowsLast(request)
             usual == /\ outcome \in Inodes /\ RelativeTargets /\ Unlimited /\ LinkKept
                      /\ \A path \in Paths : DotsFirst(path)
  <1>1. fs \in FileSystems /\ request \in Requests BY DEF PathIInv
  <1>2. /\ c \in Places(fs)
        /\ \A n \in Nat : MeantAfter(n) = Walk(fs, Root, c.at, c.rest, fl, n)
    BY <1>1, MeantIs
  <1>3. c.at \in Nodes(fs) /\ c.rest \in Seq(Names) /\ c = Place(c.at, c.rest) BY <1>2, PlaceParts
  <1>4. ASSUME usual
        PROVE  /\ outcome \in Nodes(fs) /\ Leads(fs, FALSE, fl, c, outcome) /\ DotsBefore(c.rest)
               /\ \A node \in Nodes(fs) : fs.kind[node] = "link" =>
                      ~fs.target[node].abs /\ DotsFirst(fs.target[node])
    <2>1. Usual(fs, request)
      <3>1. \A path \in Paths : NoLastDot(path) BY <1>4 DEF DotsFirst
      <3> QED BY <1>1, <1>4, <3>1, UsualIs
    <2>2. outcome \in Nodes(fs) /\ outcome # Pending BY <1>1, <1>4, OutcomesAre DEF Inodes, Nodes
    <2>3. Ended(fs, request, outcome) BY <2>1, <2>2, OutcomeEnds
    <2>4. AllDotsFirst(fs, request) BY <1>1, <1>4, PathsAre DEF AllDotsFirst
    <2>5. Leads(fs, FALSE, fl, c, outcome) BY <2>2, <2>3, <2>4 DEF Ended
    <2>6. \A node \in Nodes(fs) : fs.kind[node] = "link" =>
              ~fs.target[node].abs /\ DotsFirst(fs.target[node])
      BY <2>1, <2>4 DEF Usual, AllDotsFirst, PathsOf
    <2>7. DotsBefore(c.rest)
      <3>1. /\ request.from \in Nodes(fs)
            /\ \/ request.call = "follow" /\ fs.kind[request.from] = "link"
               \/ request.call = "resolve" /\ request.path \in Path
        BY <1>1, PathAssumption DEF IsRequest, Nodes
      <3>2. CASE request.call = "follow"
        <4>1. fs.kind[request.from] = "link" BY <3>1, <3>2
        <4>2. fs.target[request.from] \in Path BY <1>1, <3>1, <4>1, LinkIsNotRoot
        <4>3. DotsBefore(fs.target[request.from].comps) BY <2>6, <3>1, <4>1, <4>2, DotsFirstIs
        <4> QED BY <3>2, <4>3 DEF Start, Place
      <3>3. CASE request.call # "follow"
        <4>1. request.path \in PathsOf(fs, request) BY <3>3 DEF PathsOf
        <4>2. DotsBefore(request.path.comps) BY <2>4, <3>1, <3>3, <4>1, DotsFirstIs DEF AllDotsFirst
        <4> QED BY <3>3, <4>2 DEF Start, Place
      <3> QED BY <3>2, <3>3
    <2> QED BY <2>2, <2>5, <2>6, <2>7
  <1> HIDE DEF c, fl
  <1>5. ASSUME usual
        PROVE  \E n \in Nat : Arrives(MeantAfter(n)) /\ outcome = MeantAfter(n).at
    <2>1. Leads(fs, FALSE, fl, Place(c.at, c.rest), outcome) BY <1>3, <1>4, <1>5
    <2>2. PICK n \in Nat : ArrivesAt(Walk(fs, Root, c.at, c.rest, fl, n), outcome)
      <3>1. /\ DotsBefore(c.rest)
            /\ \A node \in Nodes(fs) : fs.kind[node] = "link" =>
                   ~fs.target[node].abs /\ DotsFirst(fs.target[node])
        BY <1>4, <1>5
      <3>2. c.at \in Nodes(fs) /\ c.rest \in Seq(Names) BY <1>3
      <3> HIDE DEF usual
      <3> QED BY <1>1, <2>1, <3>1, <3>2, LeadingArrives
    <2>3. MeantAfter(n) = Walk(fs, Root, c.at, c.rest, fl, n) BY <1>2
    <2> QED BY <2>2, <2>3 DEF ArrivesAt
  <1>6. FoundIsMeant BY <1>5 DEF FoundIsMeant
  <1>7. ASSUME FuelIsEnough, usual PROVE Arrives(Meant) /\ outcome = Meant.at
    <2>1. Arrives(Meant) BY <1>5, <1>7 DEF FuelIsEnough
    <2>2. Fuel \in Nat BY PathAssumption
    <2>3. Meant = Walk(fs, Root, c.at, c.rest, fl, Fuel) BY <1>2, <2>2 DEF Meant
    <2>4. Arrives(Walk(fs, Root, c.at, c.rest, fl, Fuel)) BY <2>1, <2>3
    <2>5. \A node \in Nodes(fs) : fs.kind[node] = "link" => ~fs.target[node].abs BY <1>4, <1>7
    <2>6. LET x == Walk(fs, Root, c.at, c.rest, fl, Fuel).at IN
          x \in Nodes(fs) /\ Leads(fs, TRUE, fl, Place(c.at, c.rest), x)
      BY <1>1, <1>3, <2>2, <2>4, <2>5, ArrivalLeads
    <2>7. Meant.at \in Nodes(fs) /\ Leads(fs, TRUE, fl, c, Meant.at) BY <1>3, <2>3, <2>6
    <2>8. Leads(fs, FALSE, fl, c, Meant.at) BY <2>7, LeadsUntested
    <2>9. outcome \in Nodes(fs) /\ Leads(fs, FALSE, fl, c, outcome) BY <1>4, <1>7
    <2>10. outcome = Meant.at BY <1>1, <2>7, <2>8, <2>9, LeadsUnique
    <2> QED BY <2>1, <2>10
  <1>8. FuelIsEnough => FindsOnlyWhatIsMeant BY <1>7 DEF FindsOnlyWhatIsMeant
  <1> QED BY <1>6, <1>8

\* Whatever a path means, resolve finds, unless the stack is exhausted: for every
\* volume, every path and every order of links on its way.
THEOREM FindsMeant == Spec => [](outcome # Overflow => FindsWhatIsMeant)
  <1>1. PathIInv => (outcome # Overflow => FindsWhatIsMeant) BY WhatIsMeant
  <1> QED BY <1>1, PathInvariant, PTL

\* What resolve finds, the path means.
THEOREM FoundMeant == Spec => []FoundIsMeant
  <1>1. PathIInv => FoundIsMeant BY OnlyWhatIsMeant
  <1> QED BY <1>1, PathInvariant, PTL

\* The same with the fuel of a run, if the walk of the path does not need more.
THEOREM FindsOnlyMeant == Spec => [](FuelIsEnough => FindsOnlyWhatIsMeant)
  <1>1. PathIInv => (FuelIsEnough => FindsOnlyWhatIsMeant) BY OnlyWhatIsMeant
  <1> QED BY <1>1, PathInvariant, PTL

=============================================================================
