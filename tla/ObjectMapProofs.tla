-------------------------- MODULE ObjectMapProofs --------------------------
(***************************************************************************)
(* The searches are right on every well-formed tree, whatever its height   *)
(* and its keys; upper_bound followed by prev is a floor lookup; get_paddr *)
(* finds the newest version its transaction may see, for every object map. *)
(***************************************************************************)
EXTENDS ObjectMap, TLAPS

-----------------------------------------------------------------------------
(* Well-formed trees *)

\* Keys of a node are integers in ascending order, and there is a first one.
LEMMA NodeKeys ==
    ASSUME NEW t, WellFormed(t), NEW n \in t.nodes
    PROVE  /\ Len(t.keys[n]) \in Nat
           /\ 1 \in Positions(t, n)
           /\ \A i \in Positions(t, n) : i \in Nat /\ i >= 1 /\ t.keys[n][i] \in Int
           /\ \A i, j \in Positions(t, n) : i < j => t.keys[n][i] < t.keys[n][j]
           /\ t.level[n] \in 0 .. MaxLevel
           /\ t.under[n] \subseteq Int
           /\ t.under[n] # {}
  <1>1. t.keys[n] \in Seq(Int) /\ Len(t.keys[n]) > 0
    BY DEF WellFormed, TreeType
  <1>2. Len(t.keys[n]) \in Nat /\ 1 \in Positions(t, n)
    BY <1>1 DEF Positions
  <1>3. \A i \in Positions(t, n) : i \in Nat /\ i >= 1 /\ t.keys[n][i] \in Int
    BY <1>1, <1>2 DEF Positions
  <1>4. t.level[n] \in 0 .. MaxLevel /\ t.under[n] \subseteq Int /\ t.under[n] # {}
    BY DEF WellFormed, TreeType
  <1> QED BY <1>2, <1>3, <1>4 DEF WellFormed

\* The children of an index node cover its records in half-open intervals.
LEMMA NodeChildren ==
    ASSUME NEW t, WellFormed(t), NEW n \in t.nodes, ~IsLeaf(t, n),
           NEW i \in Positions(t, n)
    PROVE  /\ t.child[n][i] \in t.nodes
           /\ t.level[t.child[n][i]] = t.level[n] - 1
           /\ t.under[t.child[n][i]] \subseteq t.under[n]
           /\ \A x \in t.under[t.child[n][i]] :
                 /\ t.keys[n][i] <= x
                 /\ i + 1 \in Positions(t, n) => x < t.keys[n][i + 1]
  <1>1. IndexNode(t, n) BY DEF WellFormed
  <1>2. t.child[n] \in Seq(t.nodes) BY DEF WellFormed, TreeType
  <1>3. Len(t.child[n]) = Len(t.keys[n]) BY <1>1 DEF IndexNode
  <1>4. t.child[n][i] \in t.nodes BY <1>2, <1>3 DEF Positions
  <1>5. i \in Nat /\ Len(t.keys[n]) \in Nat BY NodeKeys
  <1>6. i + 1 \in Positions(t, n) => i < Len(t.keys[n]) BY <1>5 DEF Positions
  <1> QED BY <1>1, <1>4, <1>6 DEF IndexNode

\* Every record below an index node is below one of its children.
LEMMA NodeUnion ==
    ASSUME NEW t, WellFormed(t), NEW n \in t.nodes, ~IsLeaf(t, n),
           NEW x \in t.under[n]
    PROVE  \E i \in Positions(t, n) : x \in t.under[t.child[n][i]]
  BY DEF WellFormed, IndexNode

LEMMA LeafRecords ==
    ASSUME NEW t, WellFormed(t), NEW n \in t.nodes, IsLeaf(t, n)
    PROVE  t.under[n] = {t.keys[n][i] : i \in Positions(t, n)}
  BY DEF WellFormed

\* The first key of a node bounds every record below it.
LEMMA FirstKeyBounds ==
    ASSUME NEW t, WellFormed(t), NEW n \in t.nodes, NEW x \in t.under[n]
    PROVE  t.keys[n][1] <= x
  <1> DEFINE P == Positions(t, n)
  <1>1. PICK i \in P : t.keys[n][i] <= x
    <2>1. CASE IsLeaf(t, n) 
      <3>1. PICK i \in P : x = t.keys[n][i] BY <2>1, LeafRecords
      <3> QED BY <3>1, NodeKeys
    <2>2. CASE ~IsLeaf(t, n) BY <2>2, NodeUnion, NodeChildren
    <2> QED BY <2>1, <2>2
  <1>2. x \in Int BY NodeKeys
  <1>3. t.keys[n][1] <= t.keys[n][i]
    <2>1. CASE i = 1 BY <2>1, NodeKeys
    <2>2. CASE i # 1
      <3>1. 1 < i BY <2>2, NodeKeys
      <3> QED BY <3>1, NodeKeys
    <2> QED BY <2>1, <2>2
  <1> QED BY <1>1, <1>2, <1>3, NodeKeys

\* Records below an earlier child are smaller than every later index key.
LEMMA ChildOrder ==
    ASSUME NEW t, WellFormed(t), NEW n \in t.nodes, ~IsLeaf(t, n),
           NEW i \in Positions(t, n), NEW j \in Positions(t, n), i < j,
           NEW x \in t.under[t.child[n][i]]
    PROVE  x < t.keys[n][j]
  <1>1. i \in Nat /\ j \in Nat /\ Len(t.keys[n]) \in Nat BY NodeKeys
  <1>2. i + 1 \in Positions(t, n) BY <1>1 DEF Positions
  <1>3. x < t.keys[n][i + 1] BY <1>2, NodeChildren
  <1>4. t.keys[n][i + 1] <= t.keys[n][j]
    <2>1. CASE i + 1 = j BY <2>1, NodeKeys
    <2>2. CASE i + 1 # j
      <3>1. i + 1 < j BY <2>2, <1>1
      <3> QED BY <3>1, <1>2, NodeKeys
    <2> QED BY <2>1, <2>2
  <1>5. x \in Int
    <2>1. t.under[t.child[n][i]] \subseteq t.under[n] BY NodeChildren
    <2> QED BY <2>1, NodeKeys
  <1> QED BY <1>2, <1>3, <1>4, <1>5, NodeKeys

-----------------------------------------------------------------------------
(* What a range of k says of the records: those of the ranges before it are *)
(* at or below k, those of the ranges after it are above k.                 *)

LEMMA RangeBelow ==
    ASSUME WellFormed(tree), k \in Int, NEW n \in tree.nodes, ~IsLeaf(tree, n),
           NEW i, IsRange(n, i), NEW j \in Positions(tree, n), j < i,
           NEW x \in tree.under[tree.child[n][j]]
    PROVE  x \in Int /\ x < k
  <1>1. i \in Positions(tree, n) /\ tree.keys[n][i] <= k BY DEF IsRange
  <1>2. x < tree.keys[n][i] BY <1>1, ChildOrder
  <1>3. x \in Int
    <2>1. tree.under[tree.child[n][j]] \subseteq tree.under[n] BY NodeChildren
    <2> QED BY <2>1, NodeKeys
  <1>4. tree.keys[n][i] \in Int BY <1>1, NodeKeys
  <1> QED BY <1>1, <1>2, <1>3, <1>4

LEMMA RangeAbove ==
    ASSUME WellFormed(tree), k \in Int, NEW n \in tree.nodes, ~IsLeaf(tree, n),
           NEW i, IsRange(n, i), NEW j \in Positions(tree, n), i < j,
           NEW x \in tree.under[tree.child[n][j]]
    PROVE  x \in Int /\ k < x
  <1>1. /\ i \in Positions(tree, n)
        /\ i < Len(tree.keys[n]) => k < tree.keys[n][i + 1]
    BY DEF IsRange
  <1>2. i \in Nat /\ j \in Nat /\ Len(tree.keys[n]) \in Nat BY <1>1, NodeKeys
  <1>3. i + 1 \in Positions(tree, n) /\ i < Len(tree.keys[n]) BY <1>1, <1>2 DEF Positions
  <1>4. tree.keys[n][i + 1] <= tree.keys[n][j]
    <2>1. CASE i + 1 = j BY <2>1, NodeKeys
    <2>2. CASE i + 1 # j
      <3>1. i + 1 < j BY <2>2, <1>2
      <3> QED BY <3>1, <1>3, NodeKeys
    <2> QED BY <2>1, <2>2
  <1>5. tree.keys[n][j] <= x BY NodeChildren
  <1>6. x \in Int
    <2>1. tree.under[tree.child[n][j]] \subseteq tree.under[n] BY NodeChildren
    <2> QED BY <2>1, NodeKeys
  <1>7. tree.keys[n][i + 1] \in Int /\ tree.keys[n][j] \in Int BY <1>3, NodeKeys
  <1> QED BY <1>1, <1>3, <1>4, <1>5, <1>6, <1>7

\* An answer found in the range of k is the answer for the whole node, and so
\* is the want of one when there is no range left to turn to.
LEMMA RangePost ==
    ASSUME WellFormed(tree), k \in Int, op \in Ops,
           NEW n \in tree.nodes, ~IsLeaf(tree, n), NEW i, IsRange(n, i),
           NEW r \in Results(tree), Post(tree.child[n][i], r),
           r # SENTINEL \/ ~HasSibling(op, n, i)
    PROVE  Post(n, r)
  <1> DEFINE c == tree.child[n][i]
  <1>1. i \in Positions(tree, n) BY DEF IsRange
  <1>2. tree.under[c] \subseteq tree.under[n] /\ tree.under[n] \subseteq Int
    BY <1>1, NodeChildren, NodeKeys
  <1>3. i \in Nat /\ Len(tree.keys[n]) \in Nat BY <1>1, NodeKeys
  <1>4. ASSUME NEW x \in tree.under[n], x \notin tree.under[c]
        PROVE  \E j \in Positions(tree, n) : 
                  /\ j \in Nat
                  /\ x \in tree.under[tree.child[n][j]]
                  /\ \/ j < i /\ x < k
                     \/ i < j /\ k < x
                  /\ i < j => \A y \in tree.under[c] : y < x
                  /\ j < i => \A y \in tree.under[c] : x < y
    <2>1. PICK j \in Positions(tree, n) : x \in tree.under[tree.child[n][j]]
      BY NodeUnion
    <2>2. j \in Nat /\ j # i BY <1>4, <2>1, NodeKeys
    <2>3. CASE j < i
      <3>1. x < k BY <2>1, <2>3, RangeBelow
      <3>2. x < tree.keys[n][i] BY <1>1, <2>1, <2>3, ChildOrder
      <3>3. \A y \in tree.under[c] : tree.keys[n][i] <= y BY <1>1, NodeChildren
      <3>4. tree.keys[n][i] \in Int BY <1>1, NodeKeys
      <3>5. \A y \in tree.under[c] : x < y BY <1>2, <3>2, <3>3, <3>4
      <3> QED BY <2>1, <2>2, <2>3, <1>3, <3>1, <3>5
    <2>4. CASE i < j
      <3>1. k < x BY <2>1, <2>4, RangeAbove
      <3>2. tree.keys[n][j] <= x BY <2>1, NodeChildren
      <3>3. \A y \in tree.under[c] : y < tree.keys[n][j] BY <1>1, <2>4, ChildOrder
      <3>4. tree.keys[n][j] \in Int BY NodeKeys
      <3>5. \A y \in tree.under[c] : y < x BY <1>2, <3>2, <3>3, <3>4
      <3> QED BY <2>1, <2>2, <2>4, <1>3, <3>1, <3>5
    <2> QED BY <2>2, <2>3, <2>4, <1>3
  <1>5. r.key \in Int BY DEF Results
  <1>6. CASE op = "upper_bound"
    <2>1. UpperPost(c, r) BY <1>6 DEF Post
    <2>2. CASE r = SENTINEL
      <3>1. ~HasSibling(op, n, i) BY <2>2
      <3>2. \A j \in Positions(tree, n) : ~(i < j)
        BY <3>1, <1>6, <1>3, <1>1 DEF HasSibling, Sibling, Positions
      <3>3. \A x \in tree.under[n] : x <= k
        BY <1>2, <1>4, <2>1, <2>2, <3>2 DEF UpperPost
      <3> QED BY <3>3, <1>6, <2>2 DEF Post, UpperPost
    <2>3. CASE r # SENTINEL
      <3>1. \A x \in tree.under[n] : x <= k \/ r.key <= x
        BY <1>2, <1>4, <1>5, <2>1, <2>3 DEF UpperPost
      <3>2. k < r.key /\ \E x \in tree.under[n] : r.key <= x
        BY <1>2, <2>1, <2>3 DEF UpperPost
      <3> QED BY <3>1, <3>2, <1>6, <2>3 DEF Post, UpperPost
    <2> QED BY <2>2, <2>3
  <1>7. CASE op = "lower_bound"
    <2>1. LowerPost(c, r) BY <1>7 DEF Post
    <2>2. CASE r = SENTINEL
      <3>1. ~HasSibling(op, n, i) BY <2>2
      <3>2. \A j \in Positions(tree, n) : ~(i < j)
        BY <3>1, <1>7, <1>3, <1>1 DEF HasSibling, Sibling, Positions
      <3>3. \A x \in tree.under[n] : x < k
        BY <1>2, <1>4, <2>1, <2>2, <3>2 DEF LowerPost
      <3> QED BY <3>3, <1>7, <2>2 DEF Post, LowerPost
    <2>3. CASE r # SENTINEL
      <3>1. \A x \in tree.under[n] : x < k \/ r.key <= x
        BY <1>2, <1>4, <1>5, <2>1, <2>3 DEF LowerPost
      <3>2. k <= r.key /\ \E x \in tree.under[n] : r.key <= x
        BY <1>2, <2>1, <2>3 DEF LowerPost
      <3> QED BY <3>1, <3>2, <1>7, <2>3 DEF Post, LowerPost
    <2> QED BY <2>2, <2>3
  <1>8. CASE op = "prev"
    <2>1. PrevPost(c, r) BY <1>8 DEF Post
    <2>2. CASE r = SENTINEL
      <3>1. ~HasSibling(op, n, i) BY <2>2
      <3>2. \A j \in Positions(tree, n) : ~(j < i)
        BY <3>1, <1>8, <1>3, <1>1 DEF HasSibling, Sibling, Positions
      <3>3. \A x \in tree.under[n] : k <= x
        BY <1>2, <1>4, <2>1, <2>2, <3>2 DEF PrevPost
      <3> QED BY <3>3, <1>8, <2>2 DEF Post, PrevPost
    <2>3. CASE r # SENTINEL
      <3>1. r.key < k /\ r.key \in tree.under[c] /\ IsRecord(r)
        BY <2>1, <2>3 DEF PrevPost
      <3>2. \A x \in tree.under[n] : x <= r.key \/ k <= x
        BY <1>2, <1>4, <2>1, <2>3, <3>1 DEF PrevPost
      <3> QED BY <3>1, <3>2, <1>2, <1>8, <2>3 DEF Post, PrevPost
    <2> QED BY <2>2, <2>3
  <1> QED BY <1>6, <1>7, <1>8 DEF Ops

\* The neighbour of an exhausted range has an answer.
LEMMA SiblingHasAnswer ==
    ASSUME WellFormed(tree), k \in Int, op \in Ops,
           NEW n \in tree.nodes, ~IsLeaf(tree, n), NEW i, IsRange(n, i),
           HasSibling(op, n, i), NEW s, s = Sibling(op, i)
    PROVE  ~Post(tree.child[n][s], SENTINEL)
  <1> DEFINE d == tree.child[n][s]
  <1>1. i \in Positions(tree, n) /\ s \in Positions(tree, n)
    BY DEF IsRange, HasSibling
  <1>2. i \in Nat /\ s \in Nat BY <1>1, NodeKeys, SMTT(30)
  <1>3. d \in tree.nodes /\ tree.under[d] # {} BY <1>1, NodeChildren, NodeKeys
  <1>4. PICK x \in tree.under[d] : TRUE BY <1>3
  <1>5. CASE op = "prev"
    <2>1. s < i BY <1>2, <1>5 DEF Sibling
    <2>2. x \in Int /\ x < k BY <1>1, <2>1, RangeBelow
    <2> QED BY <2>2, <1>5 DEF Post, PrevPost
  <1>6. CASE op # "prev"
    <2>1. i < s BY <1>2, <1>6 DEF Sibling
    <2>2. x \in Int /\ k < x BY <1>1, <2>1, RangeAbove
    <2>3. ASSUME op = "upper_bound" PROVE ~Post(d, SENTINEL)
      BY <2>2, <2>3 DEF Post, UpperPost
    <2>4. ASSUME op = "lower_bound" PROVE ~Post(d, SENTINEL)
      BY <2>2, <2>4 DEF Post, LowerPost
    <2> QED BY <2>3, <2>4, <1>6 DEF Ops
  <1> QED BY <1>5, <1>6

\* When the range is exhausted, the answer of its neighbour is the node's.
LEMMA SiblingPost ==
    ASSUME WellFormed(tree), k \in Int, op \in Ops,
           NEW n \in tree.nodes, ~IsLeaf(tree, n), NEW i, IsRange(n, i),
           HasSibling(op, n, i), NEW s, s = Sibling(op, i),
           Post(tree.child[n][i], SENTINEL),
           NEW r \in Results(tree), Post(tree.child[n][s], r)
    PROVE  Post(n, r)
  <1> DEFINE c == tree.child[n][i]
             d == tree.child[n][s]
             P == Positions(tree, n)
  <1>1. i \in P /\ s \in P BY DEF IsRange, HasSibling
  <1>2. i \in Nat /\ s \in Nat BY <1>1, NodeKeys
  <1>3. /\ tree.under[d] \subseteq tree.under[n]
        /\ tree.under[n] \subseteq Int
        /\ \A y \in tree.under[d] : tree.keys[n][s] <= y
    BY <1>1, NodeChildren, NodeKeys
  <1>4. r # SENTINEL BY SiblingHasAnswer
  <1>5. r.key \in Int BY DEF Results
  <1>6. \A x \in tree.under[n] : \E j \in P : j \in Nat /\ x \in tree.under[tree.child[n][j]]
    BY NodeUnion, NodeKeys
  <1>7. CASE op = "prev"
    <2>1. s = i - 1 BY <1>7 DEF Sibling
    <2>2. PrevPost(d, r) /\ \A x \in tree.under[c] : k <= x
      BY <1>7 DEF Post, PrevPost
    <2>3. r.key \in tree.under[d] /\ r.key < k /\ IsRecord(r)
      BY <1>4, <2>2 DEF PrevPost
    <2>4. ASSUME NEW x \in tree.under[n] PROVE x <= r.key \/ k <= x
      <3>1. PICK j \in P : j \in Nat /\ x \in tree.under[tree.child[n][j]] BY <1>6
      <3>2. CASE j = s BY <3>1, <3>2, <1>4, <2>2 DEF PrevPost
      <3>3. CASE j = i BY <3>1, <3>3, <2>2
      <3>4. CASE i < j
        <4>1. x \in Int /\ k < x BY <3>1, <3>4, RangeAbove
        <4> QED BY <4>1
      <3>5. CASE j < s
        <4>1. x < tree.keys[n][s] BY <3>1, <3>5, <1>1, ChildOrder
        <4>2. tree.keys[n][s] <= r.key BY <1>3, <2>3
        <4>3. tree.keys[n][s] \in Int BY <1>1, NodeKeys
        <4> QED BY <4>1, <4>2, <4>3, <1>3, <1>5
      <3> QED BY <3>1, <3>2, <3>3, <3>4, <3>5, <1>2, <2>1
    <2> QED BY <2>3, <2>4, <1>3, <1>4, <1>7 DEF Post, PrevPost
  <1>8. CASE op # "prev"
    <2>1. s = i + 1 BY <1>8 DEF Sibling
    <2>2. PICK y \in tree.under[d] : r.key <= y
      BY <1>4, <1>8 DEF Ops, Post, UpperPost, LowerPost
    <2>3. ASSUME NEW x \in tree.under[n], NEW j \in P, j \in Nat,
                 x \in tree.under[tree.child[n][j]], s < j
          PROVE  r.key <= x
      <3>1. y < tree.keys[n][j] BY <1>1, <2>2, <2>3, ChildOrder
      <3>2. tree.keys[n][j] <= x BY <2>3, NodeChildren
      <3>3. tree.keys[n][j] \in Int BY NodeKeys
      <3> QED BY <3>1, <3>2, <3>3, <2>2, <1>3, <1>5
    <2>4. CASE op = "upper_bound"
      <3>1. UpperPost(d, r) /\ \A x \in tree.under[c] : x <= k
        BY <2>4 DEF Post, UpperPost
      <3>2. ASSUME NEW x \in tree.under[n] PROVE x <= k \/ r.key <= x
        <4>1. PICK j \in P : j \in Nat /\ x \in tree.under[tree.child[n][j]] BY <1>6
        <4>2. CASE j = s BY <4>1, <4>2, <3>1, <1>4 DEF UpperPost
        <4>3. CASE j = i BY <4>1, <4>3, <3>1
        <4>4. CASE j < i
          <5>1. x \in Int /\ x < k BY <4>1, <4>4, RangeBelow
          <5> QED BY <5>1
        <4>5. CASE s < j BY <4>1, <4>5, <2>3
        <4> QED BY <4>1, <4>2, <4>3, <4>4, <4>5, <1>2, <2>1
      <3> QED BY <3>1, <3>2, <2>2, <2>4, <1>3, <1>4 DEF Post, UpperPost
    <2>5. CASE op = "lower_bound"
      <3>1. LowerPost(d, r) /\ \A x \in tree.under[c] : x < k
        BY <2>5 DEF Post, LowerPost
      <3>2. ASSUME NEW x \in tree.under[n] PROVE x < k \/ r.key <= x
        <4>1. PICK j \in P : j \in Nat /\ x \in tree.under[tree.child[n][j]] BY <1>6
        <4>2. CASE j = s BY <4>1, <4>2, <3>1, <1>4 DEF LowerPost
        <4>3. CASE j = i BY <4>1, <4>3, <3>1
        <4>4. CASE j < i
          <5>1. x \in Int /\ x < k BY <4>1, <4>4, RangeBelow
          <5> QED BY <5>1
        <4>5. CASE s < j BY <4>1, <4>5, <2>3
        <4> QED BY <4>1, <4>2, <4>3, <4>4, <4>5, <1>2, <2>1
      <3> QED BY <3>1, <3>2, <2>2, <2>5, <1>3, <1>4 DEF Post, LowerPost
    <2> QED BY <2>4, <2>5, <1>8 DEF Ops
  <1> QED BY <1>7, <1>8

\* An entry is never SENTINEL: SENTINEL lives in no node.
LEMMA EntryIsResult ==
    ASSUME TreeType(tree), WellFormed(tree), NEW n \in tree.nodes,
           NEW i \in Positions(tree, n)
    PROVE  /\ Entry(n, i) \in Results(tree)
           /\ Entry(n, i) # SENTINEL
           /\ Entry(n, i).key = tree.keys[n][i]
           /\ Entry(n, i).node = n
           /\ Entry(n, i).pos = i
  <1>1. tree.keys[n][i] \in Int /\ i \in Nat BY NodeKeys
  <1>2. n # NoNode BY DEF TreeType
  <1> QED BY <1>1, <1>2 DEF Entry, SENTINEL, Results

\* A call that ends before its first key returns the right answer.
LEMMA FirstPost ==
    ASSUME WellFormed(tree), TreeType(tree), k \in Int, op \in Ops, node \in tree.nodes,
           BeforeFirst
    PROVE  Post(node, IF op = "prev" THEN SENTINEL ELSE Entry(node, 1))
  <1>1. \A x \in tree.under[node] : x \in Int /\ Keys[1] <= x
    BY FirstKeyBounds, NodeKeys DEF Keys
  <1>2. 1 \in Positions(tree, node) /\ Keys[1] \in Int BY NodeKeys DEF Keys
  <1>3. \E x \in tree.under[node] : TRUE BY NodeKeys
  <1>4. /\ Entry(node, 1) # SENTINEL
        /\ Entry(node, 1).key = Keys[1]
    BY <1>2, EntryIsResult DEF Keys
  <1>5. CASE op = "prev"
    <2>1. k < Keys[1] BY <1>5 DEF BeforeFirst
    <2> QED BY <2>1, <1>1, <1>2, <1>5 DEF Post, PrevPost
  <1>6. CASE op = "upper_bound"
    <2>1. k < Keys[1] BY <1>6 DEF BeforeFirst
    <2> QED BY <2>1, <1>1, <1>2, <1>3, <1>4, <1>6 DEF Post, UpperPost
  <1>7. CASE op = "lower_bound"
    <2>1. k <= Keys[1] BY <1>7 DEF BeforeFirst
    <2> QED BY <2>1, <1>1, <1>2, <1>3, <1>4, <1>7 DEF Post, LowerPost
  <1> QED BY <1>5, <1>6, <1>7 DEF Ops

\* A leaf answers from the range of k and its neighbour.
LEMMA LeafPost ==
    ASSUME WellFormed(tree), TreeType(tree), k \in Int, op \in Ops, node \in tree.nodes,
           IsLeaf(tree, node), NEW i, IsRange(node, i), SentinelKey \in Int
    PROVE  LeafAnswer(i) \in Results(tree) /\ Post(node, LeafAnswer(i))
  <1> DEFINE P == Positions(tree, node)
             s == Sibling(op, i)
  <1>1. /\ i \in P
        /\ Keys[i] <= k
        /\ i < Len(Keys) => k < Keys[i + 1]
    BY DEF IsRange, Keys
  <1>2. /\ tree.under[node] = {Keys[j] : j \in P}
        /\ \A j \in P : j \in Nat /\ j >= 1 /\ Keys[j] \in Int
        /\ \A j, l \in P : j < l => Keys[j] < Keys[l]
        /\ Len(Keys) \in Nat
    BY LeafRecords, NodeKeys DEF Keys
  <1>3. \A j \in P : /\ Entry(node, j) \in Results(tree)
                     /\ Entry(node, j) # SENTINEL
                     /\ Entry(node, j).key = Keys[j]
                     /\ Entry(node, j).key \in tree.under[node]
                     /\ IsRecord(Entry(node, j))
    BY <1>2, EntryIsResult DEF Keys, IsRecord
  <1>4. SENTINEL \in Results(tree) BY DEF SENTINEL, Results
  <1>5. \A j \in P : j > i => k < Keys[j]
    <2>1. SUFFICES ASSUME NEW j \in P, j > i PROVE k < Keys[j] OBVIOUS
    <2>2. i + 1 \in P /\ i < Len(Keys) BY <1>1, <1>2, <2>1 DEF Positions, Keys
    <2>3. CASE j = i + 1 BY <2>2, <2>3, <1>1
    <2>4. CASE j # i + 1
      <3>1. i + 1 < j BY <2>1, <2>4, <1>1, <1>2
      <3> QED BY <3>1, <2>2, <1>1, <1>2
    <2> QED BY <2>3, <2>4
  <1>6. \A j \in P : j < i => Keys[j] < Keys[i] BY <1>1, <1>2
  <1>7. CASE op = "prev"
    <2>1. CASE Keys[i] < k
      <3>1. LeafAnswer(i) = Entry(node, i) BY <1>7, <2>1 DEF LeafAnswer
      <3>2. \A x \in tree.under[node] : x <= Keys[i] \/ k <= x
        BY <1>1, <1>2, <1>5, <1>6
      <3> QED BY <3>1, <3>2, <2>1, <1>1, <1>3, <1>7 DEF Post, PrevPost
    <2>2. CASE ~(Keys[i] < k) /\ HasSibling(op, node, i)
      <3>1. LeafAnswer(i) = Entry(node, s) BY <1>7, <2>2 DEF LeafAnswer
      <3>2. s \in P /\ s = i - 1 BY <1>7, <2>2 DEF HasSibling, Sibling
      <3>3. Keys[s] < k BY <3>2, <1>1, <1>2
      <3>4. \A j \in P : j < s => Keys[j] < Keys[s] BY <3>2, <1>2
      <3>5. \A x \in tree.under[node] : x <= Keys[s] \/ k <= x
        BY <3>2, <3>4, <2>2, <1>1, <1>2, <1>5
      <3> QED BY <3>1, <3>2, <3>3, <3>5, <1>3, <1>7 DEF Post, PrevPost
    <2>3. CASE ~(Keys[i] < k) /\ ~HasSibling(op, node, i)
      <3>1. LeafAnswer(i) = SENTINEL BY <1>7, <2>3 DEF LeafAnswer
      <3>2. i = 1 BY <1>7, <2>3, <1>1, <1>2 DEF HasSibling, Sibling, Positions
      <3>3. \A x \in tree.under[node] : k <= x
        BY <3>2, <2>3, <1>1, <1>2, <1>5
      <3> QED BY <3>1, <3>3, <1>4, <1>7 DEF Post, PrevPost
    <2> QED BY <2>1, <2>2, <2>3
  <1>8. CASE op # "prev" /\ ~(op = "lower_bound" /\ ~(Keys[i] < k))
    <2>1. LeafAnswer(i) = IF HasSibling(op, node, i) THEN Entry(node, s) ELSE SENTINEL
      BY <1>8 DEF LeafAnswer
    <2>2. s = i + 1 BY <1>8 DEF Sibling
    <2>3. \A j \in P : j <= i => Keys[j] <= k /\ (op = "lower_bound" => Keys[j] < k)
      BY <1>1, <1>2, <1>6, <1>8
    <2>4. CASE HasSibling(op, node, i)
      <3>1. s \in P BY <2>4 DEF HasSibling
      <3>2. k < Keys[s] BY <3>1, <2>2, <1>1, <1>2, <1>5
      <3>3. \A j \in P : j > i => Keys[s] <= Keys[j]
        BY <3>1, <2>2, <1>1, <1>2
      <3>4. \A x \in tree.under[node] :
               (x <= k /\ (op = "lower_bound" => x < k)) \/ Keys[s] <= x
        BY <3>3, <2>3, <1>1, <1>2
      <3>5. \E x \in tree.under[node] : Keys[s] <= x
        <4>1. Keys[s] \in tree.under[node] /\ Keys[s] <= Keys[s] BY <3>1, <1>2, <1>3
        <4> QED BY <4>1
      <3>6. LeafAnswer(i) = Entry(node, s) BY <2>1, <2>4
      <3>7. CASE op = "upper_bound"
        BY <3>1, <3>2, <3>4, <3>5, <3>6, <3>7, <1>3 DEF Post, UpperPost
      <3>8. CASE op = "lower_bound"
        <4>1. k <= Keys[s] BY <3>1, <3>2, <1>2
        <4> QED BY <3>1, <3>4, <3>5, <3>6, <3>8, <4>1, <1>3 DEF Post, LowerPost
      <3> QED BY <3>7, <3>8, <1>8 DEF Ops
    <2>5. CASE ~HasSibling(op, node, i)
      <3>1. \A j \in P : j <= i
        BY <2>2, <2>5, <1>1, <1>2 DEF HasSibling, Positions, Keys
      <3>2. \A x \in tree.under[node] : x <= k /\ (op = "lower_bound" => x < k)
        BY <3>1, <2>3, <1>2
      <3> QED BY <3>2, <2>1, <2>5, <1>4, <1>8 DEF Ops, Post, UpperPost, LowerPost
    <2> QED BY <2>4, <2>5
  <1>9. CASE op = "lower_bound" /\ ~(Keys[i] < k)
    <2>1. LeafAnswer(i) = Entry(node, i) BY <1>9 DEF LeafAnswer
    <2>2. Keys[i] = k BY <1>9, <1>1, <1>2
    <2>3. \A x \in tree.under[node] : x < k \/ Keys[i] <= x
      BY <2>2, <1>1, <1>2, <1>5, <1>6
    <2>4. \E x \in tree.under[node] : Keys[i] <= x
      <3>1. Keys[i] \in tree.under[node] /\ Keys[i] <= Keys[i] BY <1>1, <1>2
      <3> QED BY <3>1
    <2> QED BY <2>1, <2>2, <2>3, <2>4, <1>1, <1>3, <1>9 DEF Post, LowerPost
  <1> QED BY <1>7, <1>8, <1>9

-----------------------------------------------------------------------------
(* The inductive invariant, action by action.                              *)

\* The activation that waits for the result of the running one.
LEMMA CallerFacts ==
    ASSUME BTreeIInv, phase = "return", node # tree.root
    PROVE  LET l == tree.level[node] + 1 IN
           /\ l \in 1 .. MaxLevel
           /\ l \in tree.level[node] + 1 .. tree.level[tree.root]
           /\ Caller = frame[l]
           /\ Caller \in Frames(tree)
           /\ Caller.node \in tree.nodes
           /\ tree.level[Caller.node] = l
           /\ ~IsLeaf(tree, Caller.node)
           /\ IsRange(Caller.node, Caller.idx)
           /\ Caller.sibling => /\ HasSibling(op, Caller.node, Caller.idx)
                               /\ Post(tree.child[Caller.node][Caller.idx], SENTINEL)
           /\ node = tree.child[Caller.node]
                        [IF Caller.sibling THEN Sibling(op, Caller.idx) ELSE Caller.idx]
  <1> DEFINE l == tree.level[node] + 1
  <1>1. node \in tree.nodes /\ tree.root \in tree.nodes /\ WellFormed(tree) /\ CallPath
    BY DEF BTreeIInv, BTreeTypeOK, TreeType
  <1>2. /\ tree.level[node] \in 0 .. MaxLevel
        /\ tree.level[tree.root] \in 0 .. MaxLevel
        /\ MaxLevel \in Nat
    BY <1>1, NodeKeys, LevelAssumption
  <1>3. tree.level[node] < tree.level[tree.root] BY <1>1, <1>2 DEF CallPath
  <1>4. /\ l \in 1 .. MaxLevel
        /\ l \in tree.level[node] + 1 .. tree.level[tree.root]
    BY <1>2, <1>3
  <1>5. Suspended(l) /\ Callee(l) = node BY <1>1, <1>4 DEF CallPath
  <1>6. Caller = frame[l] BY DEF Caller
  <1>7. Caller \in Frames(tree) BY <1>4, <1>6 DEF BTreeIInv, BTreeTypeOK
  <1>8. ~IsLeaf(tree, Caller.node) BY <1>2, <1>5, <1>6 DEF Suspended, IsLeaf
  <1> QED BY <1>4, <1>5, <1>6, <1>7, <1>8 DEF Suspended, Callee

LEMMA InitIInv == BTreeInit => BTreeIInv
  <1> SUFFICES ASSUME BTreeInit PROVE BTreeIInv OBVIOUS
  <1>1. WellFormed(tree) /\ TreeType(tree) BY TreeAssumption DEF BTreeInit, WellFormed
  <1>2. op \in Ops /\ k \in Int /\ phase = "idle" /\ node \in tree.nodes
    BY <1>1 DEF BTreeInit, Ops, TreeType
  <1>3. frame \in [1 .. MaxLevel -> Frames(tree)] BY DEF BTreeInit, NoFrames, Frames
  <1>4. ret \in Results(tree) BY SentinelAssumption DEF BTreeInit, Results, SENTINEL
  <1> QED BY <1>1, <1>2, <1>3, <1>4 DEF BTreeIInv, BTreeTypeOK

LEMMA BeginIInv ==
    ASSUME BTreeIInv, NEW o \in Ops, NEW q \in Int, Begin(o, q)
    PROVE  BTreeIInv'
  <1>1. WellFormed(tree') /\ TreeType(tree') /\ tree' = tree
    BY DEF BTreeIInv, WellFormed, Begin
  <1>2. op' \in Ops /\ k' \in Int /\ phase' = "call" /\ node' = tree.root
    BY DEF Begin
  <1>3. node' \in tree'.nodes BY <1>1, <1>2 DEF TreeType
  <1>4. frame' \in [1 .. MaxLevel -> Frames(tree')]
    BY DEF Begin, NoFrames, Frames
  <1>5. ret' \in Results(tree') BY SentinelAssumption DEF Begin, Results, SENTINEL
  <1>6. CallPath'
    <2>1. tree'.level[tree'.root] \in 0 .. MaxLevel BY <1>1 DEF TreeType
    <2>2. MaxLevel \in Nat BY LevelAssumption
    <2> QED BY <1>1, <1>2, <2>1, <2>2 DEF CallPath
  <1> QED BY <1>1, <1>2, <1>3, <1>4, <1>5, <1>6 DEF BTreeIInv, BTreeTypeOK

LEMMA ReturnFirstIInv == BTreeIInv /\ ReturnFirst => BTreeIInv'
  <1> SUFFICES ASSUME BTreeIInv, ReturnFirst PROVE BTreeIInv' OBVIOUS
  <1>1. /\ UNCHANGED <<tree, op, k, node, frame>>
        /\ phase = "call" /\ phase' = "return" /\ BeforeFirst
        /\ ret' = IF op = "prev" THEN SENTINEL ELSE Entry(node, 1)
    BY DEF ReturnFirst
  <1>2. WellFormed(tree) /\ TreeType(tree) /\ k \in Int /\ op \in Ops /\ node \in tree.nodes
    BY DEF BTreeIInv, BTreeTypeOK
  <1>3. Post(node, ret') BY <1>1, <1>2, FirstPost
  <1>4. ret' \in Results(tree)
    <2>1. Entry(node, 1) \in Results(tree) BY <1>2, NodeKeys, EntryIsResult
    <2>2. SENTINEL \in Results(tree) BY SentinelAssumption DEF Results, SENTINEL
    <2> QED BY <1>1, <2>1, <2>2
  <1>5. CallPath'
    BY <1>1, ZenonT(30) DEF BTreeIInv, CallPath, Suspended, Callee, IsRange, HasSibling,
        Positions, Post, UpperPost, LowerPost, PrevPost, IsRecord
  <1>6. BTreeTypeOK' BY <1>1, <1>4 DEF BTreeIInv, BTreeTypeOK
  <1>7. Post(node, ret)'
    BY <1>1, <1>3 DEF Post, UpperPost, LowerPost, PrevPost, IsRecord, IsLeaf, Positions
  <1> QED BY <1>1, <1>2, <1>5, <1>6, <1>7 DEF BTreeIInv

LEMMA ReturnFromLeafIInv == BTreeIInv /\ ReturnFromLeaf => BTreeIInv'
  <1> SUFFICES ASSUME BTreeIInv, ReturnFromLeaf PROVE BTreeIInv' OBVIOUS
  <1>1. /\ UNCHANGED <<tree, op, k, node, frame>>
        /\ phase = "call" /\ phase' = "return" /\ IsLeaf(tree, node)
    BY DEF ReturnFromLeaf
  <1>2. PICK i \in Positions(tree, node) : IsRange(node, i) /\ ret' = LeafAnswer(i)
    BY DEF ReturnFromLeaf
  <1>3. WellFormed(tree) /\ TreeType(tree) /\ k \in Int /\ op \in Ops /\ node \in tree.nodes
    BY DEF BTreeIInv, BTreeTypeOK
  <1>4. Post(node, ret') /\ ret' \in Results(tree)
    BY <1>1, <1>2, <1>3, LeafPost, SentinelAssumption
  <1>5. CallPath'
    BY <1>1, ZenonT(30) DEF BTreeIInv, CallPath, Suspended, Callee, IsRange, HasSibling,
        Positions, Post, UpperPost, LowerPost, PrevPost, IsRecord
  <1>6. BTreeTypeOK' BY <1>1, <1>4 DEF BTreeIInv, BTreeTypeOK
  <1>7. Post(node, ret)'
    BY <1>1, <1>4 DEF Post, UpperPost, LowerPost, PrevPost, IsRecord, IsLeaf, Positions
  <1> QED BY <1>1, <1>3, <1>5, <1>6, <1>7 DEF BTreeIInv

LEMMA DescendIInv == BTreeIInv /\ Descend => BTreeIInv'
  <1> SUFFICES ASSUME BTreeIInv, Descend PROVE BTreeIInv' OBVIOUS
  <1> DEFINE l == tree.level[node]
             r == tree.level[tree.root]
  <1>1. /\ UNCHANGED <<tree, op, k, ret>>
        /\ phase = "call" /\ ~IsLeaf(tree, node)
    BY DEF Descend
  <1>2. PICK i \in Positions(tree, node) :
           /\ IsRange(node, i)
           /\ frame' = [frame EXCEPT ![l] = [node |-> node, idx |-> i, sibling |-> FALSE]]
           /\ ReadChild(tree.child[node][i])
    BY DEF Descend
  <1> DEFINE c == tree.child[node][i]
  <1>3. /\ WellFormed(tree) /\ TreeType(tree) /\ k \in Int /\ op \in Ops
        /\ node \in tree.nodes /\ tree.root \in tree.nodes
        /\ frame \in [1 .. MaxLevel -> Frames(tree)]
        /\ CallPath
    BY <1>1 DEF BTreeIInv, BTreeTypeOK, TreeType
  <1>4. /\ l \in 1 .. MaxLevel /\ r \in 0 .. MaxLevel /\ MaxLevel \in Nat
        /\ c \in tree.nodes /\ tree.level[c] = l - 1
        /\ i \in Nat
    BY <1>1, <1>3, NodeKeys, NodeChildren, LevelAssumption DEF IsLeaf
  <1>5. frame' \in [1 .. MaxLevel -> Frames(tree)]
    BY <1>2, <1>3, <1>4 DEF Frames
  <1>6. phase' \in {"call", "threw"} /\ node' \in tree.nodes
    BY <1>2, <1>3, <1>4 DEF ReadChild
  <1>7. BTreeTypeOK' BY <1>1, <1>5, <1>6 DEF BTreeIInv, BTreeTypeOK
  <1>8. ASSUME phase' = "call" PROVE CallPath'
    <2>1. node' = c BY <1>2, <1>8 DEF ReadChild
    <2>2. tree'.level[node'] = l - 1 /\ tree'.level[tree'.root] = r
      BY <2>1, <1>1, <1>4
    <2>3. l <= r BY <1>3 DEF CallPath
    <2>4. /\ frame'[l] = [node |-> node, idx |-> i, sibling |-> FALSE]
          /\ \A m \in 1 .. MaxLevel : m # l => frame'[m] = frame[m]
      BY <1>2, <1>3, <1>4
    <2>5. ASSUME NEW m \in l .. r
          PROVE  /\ Suspended(m)'
                 /\ Callee(m)' = IF m = l THEN node' ELSE frame'[m - 1].node
                 /\ m = r => frame'[m].node = tree'.root
      <3>1. CASE m = l
        <4>1. Suspended(m)'
          BY <1>1, <1>2, <1>3, <2>4, <3>1, SMTT(30) DEF Suspended, IsRange, Positions
        <4>2. Callee(m)' = node' BY <1>1, <2>1, <2>4, <3>1, SMTT(30) DEF Callee
        <4>3. m = r => node = tree.root BY <1>3, <3>1 DEF CallPath
        <4> QED BY <1>1, <2>4, <3>1, <4>1, <4>2, <4>3
      <3>2. CASE m # l
        <4>1. m \in l + 1 .. r /\ m \in 1 .. MaxLevel /\ m \in Int
          BY <1>4, <2>3, <3>2
        <4>2. /\ Suspended(m)
              /\ Callee(m) = IF m = l + 1 THEN node ELSE frame[m - 1].node
              /\ m = r => frame[m].node = tree.root
          BY <1>3, <4>1 DEF CallPath
        <4>3. frame'[m] = frame[m] BY <2>4, <3>2, <4>1
        <4>4. Suspended(m)'
          BY <1>1, <4>2, <4>3 DEF Suspended, IsRange, HasSibling, Positions, Post,
                                  UpperPost, LowerPost, PrevPost
        <4>5. Callee(m)' = Callee(m) BY <1>1, <4>3 DEF Callee
        <4>6. Callee(m)' = frame'[m - 1].node
          <5>1. CASE m = l + 1
            <6>1. m - 1 = l BY <5>1, <1>4
            <6> QED BY <2>4, <4>2, <4>5, <5>1, <6>1
          <5>2. CASE m # l + 1
            <6>1. m - 1 \in 1 .. MaxLevel /\ m - 1 # l BY <4>1, <5>2, <1>4
            <6> QED BY <2>4, <4>2, <4>5, <5>2, <6>1
          <5> QED BY <5>1, <5>2
        <4> QED BY <1>1, <3>2, <4>2, <4>3, <4>4, <4>6
      <3> QED BY <3>1, <3>2
    <2>6. l - 1 + 1 = l /\ l - 1 < r BY <1>4, <2>3
    <2> QED BY <2>2, <2>5, <2>6, <1>4 DEF CallPath
  <1> QED BY <1>1, <1>3, <1>6, <1>7, <1>8 DEF BTreeIInv

LEMMA PassUpIInv == BTreeIInv /\ PassUp => BTreeIInv'
  <1> SUFFICES ASSUME BTreeIInv, PassUp PROVE BTreeIInv' OBVIOUS
  <1> DEFINE l == tree.level[node] + 1
             r == tree.level[tree.root]
             f == Caller
  <1>1. /\ UNCHANGED <<tree, op, k, frame, phase, ret>>
        /\ phase = "return" /\ node # tree.root /\ ~MustTrySibling
        /\ node' = f.node
    BY DEF PassUp
  <1>2. /\ WellFormed(tree) /\ TreeType(tree) /\ k \in Int /\ op \in Ops
        /\ node \in tree.nodes /\ ret \in Results(tree)
        /\ CallPath /\ Post(node, ret)
    BY <1>1 DEF BTreeIInv, BTreeTypeOK
  <1>3. /\ l \in 1 .. MaxLevel /\ l \in l .. r
        /\ f = frame[l]
        /\ f.node \in tree.nodes /\ tree.level[f.node] = l
        /\ ~IsLeaf(tree, f.node) /\ IsRange(f.node, f.idx)
        /\ f.sibling => /\ HasSibling(op, f.node, f.idx)
                        /\ Post(tree.child[f.node][f.idx], SENTINEL)
        /\ node = tree.child[f.node][IF f.sibling THEN Sibling(op, f.idx) ELSE f.idx]
    BY <1>1, CallerFacts
  <1>4. Post(f.node, ret)
    <2>1. CASE f.sibling
      <3>1. Post(tree.child[f.node][Sibling(op, f.idx)], ret) BY <1>2, <1>3, <2>1
      <3>2. HasSibling(op, f.node, f.idx) /\ Post(tree.child[f.node][f.idx], SENTINEL)
        BY <1>3, <2>1
      <3> HIDE DEF f
      <3> QED BY <1>2, <1>3, <3>1, <3>2, SiblingPost
    <2>2. CASE ~f.sibling
      <3>1. ret # SENTINEL \/ ~HasSibling(op, f.node, f.idx)
        BY <1>1, <2>2 DEF MustTrySibling
      <3> QED BY <1>2, <1>3, <2>2, <3>1, RangePost
    <2> QED BY <2>1, <2>2
  <1>5. Post(node, ret)'
    BY <1>1, <1>4 DEF Post, UpperPost, LowerPost, PrevPost, IsRecord, Positions
  <1>6. CallPath'
    <2>1. tree.level[node] \in Nat /\ r \in Nat BY <1>2, NodeKeys DEF TreeType
    <2>2. /\ l <= r
          /\ l = r => f.node = tree.root
      <3>1. l <= r
        <4>1. l \in l .. r BY <1>3
        <4> QED BY <4>1, <2>1
      <3>2. l = r => frame[l].node = tree.root BY <1>2, <1>3 DEF CallPath
      <3> QED BY <3>1, <3>2, <1>3
    <2>3. ASSUME NEW m \in l + 1 .. r
          PROVE  /\ Suspended(m)
                 /\ Callee(m) = IF m = l + 1 THEN f.node ELSE frame[m - 1].node
                 /\ m = r => frame[m].node = tree.root
      <3>1. m \in l .. r /\ m # l /\ (m = l + 1 => m - 1 = l) BY <2>1
      <3> QED BY <1>2, <1>3, <3>1 DEF CallPath
    <2>4. \A m : Suspended(m)' = Suspended(m) /\ Callee(m)' = Callee(m)
      BY <1>1 DEF Suspended, Callee, IsRange, HasSibling, Positions, Post,
                  UpperPost, LowerPost, PrevPost
    <2> QED BY <1>1, <1>3, <2>2, <2>3, <2>4 DEF CallPath
  <1>7. BTreeTypeOK' BY <1>1, <1>3 DEF BTreeIInv, BTreeTypeOK
  <1> QED BY <1>1, <1>2, <1>5, <1>6, <1>7 DEF BTreeIInv

LEMMA TrySiblingIInv == BTreeIInv /\ TrySibling => BTreeIInv'
  <1> SUFFICES ASSUME BTreeIInv, TrySibling PROVE BTreeIInv' OBVIOUS
  <1> DEFINE l == tree.level[node] + 1
             r == tree.level[tree.root]
             f == Caller
             c == tree.child[f.node][Sibling(op, f.idx)]
  <1>1. /\ UNCHANGED <<tree, op, k, ret>>
        /\ phase = "return" /\ node # tree.root
        /\ ret = SENTINEL /\ ~f.sibling /\ HasSibling(op, f.node, f.idx)
        /\ frame' = [frame EXCEPT ![l].sibling = TRUE]
        /\ ReadChild(c)
    BY DEF TrySibling, MustTrySibling
  <1>2. /\ WellFormed(tree) /\ TreeType(tree)
        /\ node \in tree.nodes
        /\ frame \in [1 .. MaxLevel -> Frames(tree)]
        /\ CallPath /\ Post(node, ret)
    BY <1>1 DEF BTreeIInv, BTreeTypeOK
  <1>3. /\ l \in 1 .. MaxLevel
        /\ f = frame[l]
        /\ f.node \in tree.nodes /\ tree.level[f.node] = l
        /\ ~IsLeaf(tree, f.node) /\ IsRange(f.node, f.idx)
        /\ node = tree.child[f.node][IF f.sibling THEN Sibling(op, f.idx) ELSE f.idx]
    BY <1>1, CallerFacts
  <1>4. node = tree.child[f.node][f.idx] /\ Post(tree.child[f.node][f.idx], SENTINEL)
    BY <1>1, <1>2, <1>3
  <1>5. /\ tree.level[node] \in Nat /\ r \in Nat /\ tree.root \in tree.nodes
        /\ Sibling(op, f.idx) \in Positions(tree, f.node)
    <2>1. tree.root \in tree.nodes BY <1>2 DEF TreeType
    <2>2. tree.level[node] \in Nat /\ r \in Nat BY <1>2, <2>1, NodeKeys
    <2>3. Sibling(op, f.idx) \in Positions(tree, f.node) BY <1>1 DEF HasSibling
    <2> QED BY <2>1, <2>2, <2>3
  <1>6. c \in tree.nodes /\ tree.level[c] = tree.level[node]
    <2>1. WellFormed(tree) /\ f.node \in tree.nodes /\ ~IsLeaf(tree, f.node)
      BY <1>2, <1>3
    <2>2. c \in tree.nodes /\ tree.level[c] = tree.level[f.node] - 1
      BY <2>1, <1>5, NodeChildren
    <2>3. tree.level[f.node] = l BY <1>3
    <2> QED BY <2>2, <2>3, <1>5
  <1>7. /\ frame' \in [1 .. MaxLevel -> Frames(tree)]
        /\ frame'[l] = [f EXCEPT !.sibling = TRUE]
        /\ \A m \in 1 .. MaxLevel : m # l => frame'[m] = frame[m]
        /\ \A m \in 1 .. MaxLevel : frame'[m].node = frame[m].node
    <2>1. f \in Frames(tree) BY <1>2, <1>3
    <2>2. [f EXCEPT !.sibling = TRUE] \in Frames(tree) BY <2>1 DEF Frames
    <2>3. [f EXCEPT !.sibling = TRUE].node = f.node BY <2>1 DEF Frames
    <2>4. frame' = [frame EXCEPT ![l] = [f EXCEPT !.sibling = TRUE]]
      BY <1>1, <1>2, <1>3
    <2> QED BY <2>2, <2>3, <2>4, <1>2, <1>3
  <1>8. /\ frame'[l].node = f.node /\ frame'[l].idx = f.idx /\ frame'[l].sibling = TRUE
    <2>1. f \in Frames(tree) BY <1>2, <1>3
    <2> QED BY <1>7, <2>1 DEF Frames
  <1>9. phase' \in {"call", "threw"} /\ node' \in tree.nodes
    BY <1>1, <1>2, <1>6 DEF ReadChild
  <1>10. BTreeTypeOK' BY <1>1, <1>7, <1>9 DEF BTreeIInv, BTreeTypeOK
  <1>11. ASSUME phase' = "call" PROVE CallPath'
    <2>1. node' = c BY <1>1, <1>11 DEF ReadChild
    <2>2. tree'.level[node'] = tree.level[node] /\ tree'.level[tree'.root] = r
      BY <2>1, <1>1, <1>6
    <2>3. l \in l .. r /\ l <= r
      <3>1. l \in l .. r BY <1>1, CallerFacts
      <3> QED BY <3>1, <1>5
    <2>4. ASSUME NEW m \in l .. r
          PROVE  /\ Suspended(m)'
                 /\ Callee(m)' = IF m = l THEN node' ELSE frame'[m - 1].node
                 /\ m = r => frame'[m].node = tree'.root
      <3>1. m \in 1 .. MaxLevel /\ m \in Int /\ r \in 0 .. MaxLevel
        <4>1. r \in 0 .. MaxLevel /\ MaxLevel \in Nat
          BY <1>2, <1>5, NodeKeys, LevelAssumption
        <4>2. l \in 1 .. MaxLevel BY <1>3
        <4> QED BY <4>1, <4>2
      <3>2. /\ Suspended(m)
            /\ Callee(m) = IF m = l THEN node ELSE frame[m - 1].node
            /\ m = r => frame[m].node = tree.root
        BY <1>2 DEF CallPath
      <3>3. m = r => frame'[m].node = tree'.root BY <1>1, <1>7, <3>1, <3>2
      <3>4. CASE m = l
        <4>1. Suspended(m)'
          BY <1>1, <1>3, <1>4, <1>8, <3>4 DEF Suspended, IsRange, HasSibling, Positions,
                                  Post, UpperPost, LowerPost, PrevPost
        <4>2. Callee(m)' = node' BY <1>1, <2>1, <1>8, <3>4 DEF Callee
        <4> QED BY <3>3, <3>4, <4>1, <4>2
      <3>5. CASE m # l
        <4>1. frame'[m] = frame[m] BY <1>7, <3>1, <3>5
        <4>2. Suspended(m)'
          BY <1>1, <3>2, <4>1 DEF Suspended, IsRange, HasSibling, Positions, Post,
                                  UpperPost, LowerPost, PrevPost
        <4>3. Callee(m)' = Callee(m)
          <5>1. UNCHANGED <<tree, op>> BY <1>1
          <5> QED BY <5>1, <4>1 DEF Callee
        <4>4. m - 1 \in 1 .. MaxLevel
          <5>1. l \in 1 .. MaxLevel BY <1>3
          <5> QED BY <5>1, <3>1, <3>5, LevelAssumption
        <4> QED BY <1>7, <3>2, <3>3, <3>5, <4>2, <4>3, <4>4
      <3> QED BY <3>4, <3>5
    <2> QED BY <2>2, <2>3, <2>4, <1>5 DEF CallPath
  <1> QED BY <1>1, <1>2, <1>9, <1>10, <1>11 DEF BTreeIInv

LEMMA AnswerIInv == BTreeIInv /\ Answer => BTreeIInv'
  <1> SUFFICES ASSUME BTreeIInv, Answer PROVE BTreeIInv' OBVIOUS
  <1>1. /\ UNCHANGED <<tree, op, k, node, frame, ret>>
        /\ phase = "return" /\ phase' = "answered" /\ node = tree.root
    BY DEF Answer
  <1>2. Post(tree.root, ret) /\ WellFormed(tree) BY <1>1 DEF BTreeIInv
  <1>3. Post(tree.root, ret)'
    BY <1>1, <1>2 DEF Post, UpperPost, LowerPost, PrevPost, IsRecord, Positions
  <1>4. BTreeTypeOK' BY <1>1 DEF BTreeIInv, BTreeTypeOK
  <1> QED BY <1>1, <1>2, <1>3, <1>4 DEF BTreeIInv

LEMMA StutterIInv == BTreeIInv /\ UNCHANGED btreeVars => BTreeIInv'
  <1> SUFFICES ASSUME BTreeIInv, UNCHANGED btreeVars PROVE BTreeIInv' OBVIOUS
  <1>1. UNCHANGED <<tree, op, k, node, frame, phase, ret>> BY DEF btreeVars
  <1>2. BTreeTypeOK' /\ WellFormed(tree)' BY <1>1 DEF BTreeIInv, BTreeTypeOK
  <1>3. CallPath' = CallPath
    BY <1>1 DEF CallPath, Suspended, Callee, IsRange, HasSibling,
                Positions, Post, UpperPost, LowerPost, PrevPost, IsRecord
  <1>4. Post(node, ret)' = Post(node, ret) /\ Post(tree.root, ret)' = Post(tree.root, ret)
    BY <1>1 DEF Post, UpperPost, LowerPost, PrevPost, IsRecord, Positions
  <1> QED BY <1>1, <1>2, <1>3, <1>4 DEF BTreeIInv

LEMMA SearchStepIInv == BTreeIInv /\ SearchStep => BTreeIInv'
  BY ReturnFirstIInv, ReturnFromLeafIInv, DescendIInv, PassUpIInv, TrySiblingIInv, AnswerIInv
     DEF SearchStep

-----------------------------------------------------------------------------
(* The theorems *)

\* Every reachable state satisfies the inductive invariant of the searches.
THEOREM BTreeInvariant == BTreeSpec => []BTreeIInv
  <1>1. BTreeInit => BTreeIInv BY InitIInv
  <1>2. BTreeIInv /\ [BTreeNext]_btreeVars => BTreeIInv'
    <2> SUFFICES ASSUME BTreeIInv, [BTreeNext]_btreeVars PROVE BTreeIInv' OBVIOUS
    <2>1. CASE SearchStep BY <2>1, SearchStepIInv
    <2>2. ASSUME NEW o \in Ops, NEW q \in Queries, Request(o, q) PROVE BTreeIInv'
      <3>1. q \in Int BY QueryAssumption
      <3> QED BY <2>2, <3>1, BeginIInv DEF Request
    <2>3. CASE UNCHANGED btreeVars BY <2>3, StutterIInv
    <2> QED BY <2>1, <2>2, <2>3 DEF BTreeNext
  <1> QED BY <1>1, <1>2, PTL DEF BTreeSpec

\* The variables of the searches keep their types on every well-formed tree.
THEOREM BTreeTypeCorrect == BTreeSpec => []BTreeTypeOK
  <1>1. BTreeIInv => BTreeTypeOK BY DEF BTreeIInv
  <1> QED BY <1>1, BTreeInvariant, PTL

\* prev answers with the last record below its argument, for every tree,
\* height and argument.
THEOREM PrevCorrect == BTreeSpec => []PrevIsLastBelow
  <1>1. BTreeIInv => PrevIsLastBelow BY DEF BTreeIInv, PrevIsLastBelow, Post
  <1> QED BY <1>1, BTreeInvariant, PTL

\* upper_bound answers with a bound no record above its argument lies below.
THEOREM UpperBoundCorrect == BTreeSpec => []UpperBoundKey
  <1>1. BTreeIInv => UpperBoundKey BY DEF BTreeIInv, UpperBoundKey, Post
  <1> QED BY <1>1, BTreeInvariant, PTL

\* lower_bound does the same for the records at or above its argument.
THEOREM LowerBoundCorrect == BTreeSpec => []LowerBoundKey
  <1>1. BTreeIInv => LowerBoundKey BY DEF BTreeIInv, LowerBoundKey, Post
  <1> QED BY <1>1, BTreeInvariant, PTL

\* The fallback to the neighbouring range always finds an answer.
THEOREM SiblingCorrect == BTreeSpec => []SiblingAnswers
  <1>1. BTreeIInv => SiblingAnswers
    <2> SUFFICES ASSUME BTreeIInv, phase = "return", node # tree.root, Caller.sibling,
                        ret = SENTINEL
                 PROVE  FALSE
      BY DEF SiblingAnswers
    <2>1. WellFormed(tree) /\ k \in Int /\ op \in Ops /\ Post(node, ret)
      BY DEF BTreeIInv, BTreeTypeOK
    <2>2. /\ Caller.node \in tree.nodes /\ ~IsLeaf(tree, Caller.node)
          /\ IsRange(Caller.node, Caller.idx) /\ HasSibling(op, Caller.node, Caller.idx)
          /\ node = tree.child[Caller.node][Sibling(op, Caller.idx)]
      BY CallerFacts
    <2> QED BY <2>1, <2>2, SiblingHasAnswer
  <1> QED BY <1>1, BTreeInvariant, PTL

-----------------------------------------------------------------------------
(* The lookup: BTree's searches, one after the other *)

LEMMA FloorInitIInv == FloorInit => FloorIInv
  <1> SUFFICES ASSUME FloorInit PROVE FloorIInv OBVIOUS
  <1>1. BTreeIInv BY InitIInv DEF FloorInit
  <1>2. tree \in Trees /\ TreeType(tree)
    BY <1>1 DEF FloorInit, BTreeInit, BTreeIInv, BTreeTypeOK
  <1>3. tree.under[tree.root] \subseteq {x \in Int : x < SentinelKey}
    BY <1>2, SentinelIsLast DEF TreeType
  <1>4. Missing \notin Results(tree) /\ Failed \notin Results(tree)
    BY <1>2, AnswerAssumption
  <1>5. step = "idle" /\ key = 0 /\ found = Missing BY DEF FloorInit
  <1> QED BY <1>1, <1>3, <1>4, <1>5 DEF FloorIInv, FloorTypeOK, BTreeIInv, FoundIsFloor

\* The tree never changes under a lookup.
LEMMA TreeConstant == FloorNext => UNCHANGED tree
  BY DEF FloorNext, FloorStep, SearchStep, LookUp, StepBack, Finish, Unwind, Begin,
         ReturnFirst, ReturnFromLeaf, Descend, PassUp, TrySibling, Answer, btreeVars

\* A search step keeps the search it belongs to.
LEMMA SearchStepKeeps == SearchStep => UNCHANGED <<tree, op, k>>
  BY DEF SearchStep, ReturnFirst, ReturnFromLeaf, Descend, PassUp, TrySibling, Answer

LEMMA LookUpIInv == ASSUME FloorIInv, NEW q \in Queries, LookUp(q) PROVE FloorIInv'
  <1>1. q \in Int /\ Begin("upper_bound", q) /\ "upper_bound" \in Ops
    BY QueryAssumption DEF LookUp, Ops
  <1>2. BTreeIInv' BY <1>1, BeginIInv DEF FloorIInv
  <1>3. UNCHANGED <<tree, found>> /\ key' = q /\ step' = "upper" /\ op' = "upper_bound" /\ k' = q
    BY <1>1 DEF LookUp, Begin
  <1>4. Results(tree)' = Results(tree) BY <1>3 DEF Results
  <1>5. FloorTypeOK' BY <1>1, <1>2, <1>3, <1>4 DEF FloorIInv, FloorTypeOK, BTreeIInv
  <1> QED BY <1>2, <1>3, <1>4, <1>5 DEF FloorIInv, FoundIsFloor

LEMMA InnerStepIInv ==
    ASSUME FloorIInv, SearchStep, UNCHANGED <<key, step, found>>
    PROVE  FloorIInv'
  <1>1. BTreeIInv' BY SearchStepIInv DEF FloorIInv
  <1>2. UNCHANGED <<tree, op, k>> BY SearchStepKeeps
  <1>3. Results(tree)' = Results(tree) /\ Records' = Records BY <1>2 DEF Results, Records
  <1>4. FloorTypeOK' BY <1>1, <1>3 DEF FloorIInv, FloorTypeOK, BTreeIInv
  <1>5. FoundIsFloor' = FoundIsFloor
    BY <1>2, <1>3 DEF FoundIsFloor, IsRecord, Positions
  <1> QED BY <1>1, <1>2, <1>3, <1>4, <1>5 DEF FloorIInv

LEMMA StepBackIInv == FloorIInv /\ StepBack => FloorIInv'
  <1> SUFFICES ASSUME FloorIInv, StepBack PROVE FloorIInv' OBVIOUS
  <1>1. /\ step = "upper" /\ phase = "answered" /\ op = "upper_bound" /\ k = key
        /\ ret \in Results(tree) /\ Post(tree.root, ret) /\ key \in Int
    BY DEF StepBack, FloorIInv, BTreeIInv, BTreeTypeOK, FloorTypeOK
  <1>2. ret.key \in Int /\ Begin("prev", ret.key) /\ "prev" \in Ops
    BY <1>1 DEF Results, StepBack, Ops
  <1>3. BTreeIInv' BY <1>2, BeginIInv DEF FloorIInv
  <1>4. /\ UNCHANGED <<tree, key, found>> /\ step' = "prev" /\ op' = "prev" /\ k' = ret.key
    BY <1>2 DEF StepBack, Begin
  <1>5. Results(tree)' = Results(tree) /\ Records' = Records BY <1>4 DEF Results, Records
  <1>6. ASSUME NEW x \in Records PROVE x <= key <=> x < ret.key
    <2>1. UpperPost(tree.root, ret) BY <1>1 DEF Post
    <2>2. x \in Int /\ x < SentinelKey BY DEF FloorIInv, Records
    <2>3. CASE ret = SENTINEL
      <3>1. ret.key = SentinelKey BY <2>3 DEF SENTINEL
      <3>2. x <= key BY <2>1, <2>3, <1>1 DEF UpperPost, Records
      <3> QED BY <2>2, <3>1, <3>2
    <2>4. CASE ret # SENTINEL
      <3>1. key < ret.key /\ (x <= key \/ ret.key <= x)
        BY <2>1, <2>4, <1>1 DEF UpperPost, Records
      <3> QED BY <3>1, <2>2, <1>1, <1>2
    <2> QED BY <2>3, <2>4
  <1>7. FloorTypeOK' BY <1>3, <1>4, <1>5 DEF FloorIInv, FloorTypeOK, BTreeIInv
  <1> QED BY <1>3, <1>4, <1>5, <1>6, <1>7 DEF FloorIInv, FoundIsFloor

\* The record prev returns is the greatest one at or below key.
LEMMA FinishFinds ==
    ASSUME FloorIInv, Finish
    PROVE  /\ ret \in Results(tree) /\ key \in Int
           /\ ret = SENTINEL => \A x \in Records : key < x
           /\ ret # SENTINEL => /\ IsRecord(ret)
                                /\ ret.key \in Records /\ ret.key \in Int
                                /\ ret.key <= key
                                /\ \A x \in Records : x <= ret.key \/ key < x
  <1>1. /\ step = "prev" /\ phase = "answered" /\ op = "prev"
        /\ \A x \in Records : x <= key <=> x < k
        /\ ret \in Results(tree) /\ Post(tree.root, ret) /\ key \in Int /\ k \in Int
        /\ Records \subseteq Int
    BY DEF Finish, FloorIInv, BTreeIInv, BTreeTypeOK, FloorTypeOK, Records
  <1>2. PrevPost(tree.root, ret) BY <1>1 DEF Post
  <1>3. CASE ret = SENTINEL
    <2>1. \A x \in Records : k <= x BY <1>2, <1>3 DEF PrevPost, Records
    <2> QED BY <2>1, <1>1, <1>3
  <1>4. CASE ret # SENTINEL
    <2>1. /\ ret.key < k /\ ret.key \in Records /\ IsRecord(ret)
          /\ \A x \in Records : x <= ret.key \/ k <= x
      BY <1>2, <1>4 DEF PrevPost, Records
    <2>2. ret.key \in Int /\ ret.key <= key BY <2>1, <1>1
    <2>3. \A x \in Records : x \in Int /\ (k <= x => key < x) BY <1>1
    <2>4. \A x \in Records : x <= ret.key \/ key < x BY <2>1, <2>3
    <2> QED BY <2>1, <2>2, <2>4, <1>1, <1>4
  <1> QED BY <1>3, <1>4

LEMMA FinishIInv == FloorIInv /\ Finish => FloorIInv'
  <1> SUFFICES ASSUME FloorIInv, Finish PROVE FloorIInv' OBVIOUS
  <1>1. UNCHANGED btreeVars /\ UNCHANGED <<tree, key, op, k>> /\ step' = "idle"
        /\ found' = IF ret = SENTINEL THEN Missing ELSE ret
    BY DEF Finish, btreeVars
  <1>2. BTreeIInv' BY <1>1, StutterIInv DEF FloorIInv
  <1>3. Results(tree)' = Results(tree) /\ Records' = Records /\ IsRecord(ret)' = IsRecord(ret)
    BY <1>1 DEF Results, Records, IsRecord, Positions, btreeVars
  <1>4. FloorTypeOK' BY <1>1, <1>2, <1>3, FinishFinds DEF FloorIInv, FloorTypeOK, BTreeIInv
  <1>5. FoundIsFloor'
    <2>1. CASE ret = SENTINEL BY <1>1, <2>1 DEF FoundIsFloor
    <2>2. CASE ret # SENTINEL
      <3>1. found' = ret BY <1>1, <2>2
      <3>2. IsRecord(found)' BY <1>1, <2>2, <3>1, FinishFinds DEF IsRecord, Positions
      <3>3. found'.key \in Records' /\ found'.key <= key'
            /\ \A x \in Records' : x <= found'.key \/ key' < x
        BY <1>1, <1>3, <2>2, <3>1, FinishFinds
      <3> QED BY <3>2, <3>3 DEF FoundIsFloor
    <2> QED BY <2>1, <2>2
  <1> QED BY <1>1, <1>2, <1>3, <1>4, <1>5 DEF FloorIInv

LEMMA UnwindIInv == FloorIInv /\ Unwind => FloorIInv'
  <1> SUFFICES ASSUME FloorIInv, Unwind PROVE FloorIInv' OBVIOUS
  <1>1. UNCHANGED btreeVars /\ UNCHANGED <<tree, key>> /\ step' = "idle" /\ found' = Failed
    BY DEF Unwind, btreeVars
  <1>2. BTreeIInv' BY <1>1, StutterIInv DEF FloorIInv
  <1>3. Results(tree)' = Results(tree) BY <1>1 DEF Results
  <1>4. FloorTypeOK' BY <1>1, <1>2, <1>3 DEF FloorIInv, FloorTypeOK, BTreeIInv
  <1> QED BY <1>1, <1>2, <1>3, <1>4 DEF FloorIInv, FoundIsFloor

LEMMA FloorStutterIInv == FloorIInv /\ UNCHANGED floorVars => FloorIInv'
  <1> SUFFICES ASSUME FloorIInv, UNCHANGED floorVars PROVE FloorIInv' OBVIOUS
  <1>1. UNCHANGED btreeVars /\ UNCHANGED <<tree, op, k, key, step, found>>
    BY DEF floorVars, btreeVars
  <1>2. BTreeIInv' BY <1>1, StutterIInv DEF FloorIInv
  <1>3. Results(tree)' = Results(tree) /\ Records' = Records BY <1>1 DEF Results, Records
  <1>4. FloorTypeOK' BY <1>1, <1>2, <1>3 DEF FloorIInv, FloorTypeOK, BTreeIInv
  <1>5. FoundIsFloor' = FoundIsFloor
    BY <1>1, <1>3 DEF FoundIsFloor, IsRecord, Positions
  <1> QED BY <1>1, <1>2, <1>3, <1>4, <1>5 DEF FloorIInv

LEMMA FloorNextIInv == FloorIInv /\ [FloorNext]_floorVars => FloorIInv'
  <1> SUFFICES ASSUME FloorIInv, [FloorNext]_floorVars PROVE FloorIInv' OBVIOUS
  <1>1. ASSUME NEW q \in Queries, LookUp(q) PROVE FloorIInv' BY <1>1, LookUpIInv
  <1>2. CASE SearchStep /\ UNCHANGED <<key, step, found>> BY <1>2, InnerStepIInv
  <1>3. CASE StepBack BY <1>3, StepBackIInv
  <1>4. CASE Finish BY <1>4, FinishIInv
  <1>5. CASE Unwind BY <1>5, UnwindIInv
  <1>6. CASE UNCHANGED floorVars BY <1>6, FloorStutterIInv
  <1> QED BY <1>1, <1>2, <1>3, <1>4, <1>5, <1>6 DEF FloorNext, FloorStep

-----------------------------------------------------------------------------
(* The theorems *)

\* Every reachable state satisfies the inductive invariant of the lookup.
THEOREM FloorInvariant == FloorSpec => []FloorIInv
  <1>1. FloorInit => FloorIInv BY FloorInitIInv
  <1>2. FloorIInv /\ [FloorNext]_floorVars => FloorIInv' BY FloorNextIInv
  <1> QED BY <1>1, <1>2, PTL DEF FloorSpec

\* A lookup by upper_bound and prev answers with the greatest record at or
\* below its argument, for every tree, height and argument.
THEOREM FloorCorrect == FloorSpec => []FoundIsFloor
  <1>1. FloorIInv => FoundIsFloor BY DEF FloorIInv
  <1> QED BY <1>1, FloorInvariant, PTL

LEMMA InitImplements == FloorInit /\ FloorIInv => Map!MapInit
  <1> SUFFICES ASSUME FloorInit, FloorIInv PROVE Map!MapInit OBVIOUS
  <1>1. key = 0 /\ step = "idle" /\ found = Missing BY DEF FloorInit
  <1>2. Records \subseteq Int BY DEF FloorIInv, Records
  <1> QED BY <1>1, <1>2 DEF Map!MapInit

LEMMA StepImplements ==
    FloorIInv /\ [FloorNext]_floorVars => [Map!MapNext]_(Map!mapVars)
  <1> SUFFICES ASSUME FloorIInv, [FloorNext]_floorVars
               PROVE  Map!MapNext \/ UNCHANGED Map!mapVars
    OBVIOUS
  <1>1. ASSUME NEW q \in Queries, LookUp(q) PROVE Map!MapRequest
    <2>1. UNCHANGED <<tree, found>> /\ key' = q /\ step = "idle" /\ step' = "upper"
      BY <1>1 DEF LookUp, Begin
    <2>2. Records' = Records /\ q \in Int BY <2>1, QueryAssumption DEF Records
    <2> QED BY <2>1, <2>2 DEF Map!MapRequest
  <1>2. CASE SearchStep /\ UNCHANGED <<key, step, found>>
    <2>1. UNCHANGED <<tree, key, step, found>> BY <1>2, SearchStepKeeps
    <2> QED BY <2>1 DEF Map!mapVars, Records
  <1>3. CASE StepBack
    <2>1. UNCHANGED <<tree, key, found>> /\ step = "upper" /\ step' = "prev"
      BY <1>3 DEF StepBack, Begin
    <2> QED BY <2>1 DEF Map!mapVars, Records
  <1>4. CASE Finish
    <2>1. /\ UNCHANGED <<tree, key>> /\ step = "prev" /\ step' = "idle"
          /\ found' = IF ret = SENTINEL THEN Missing ELSE ret
      BY <1>4 DEF Finish, btreeVars
    <2>2. Records' = Records BY <2>1 DEF Records
    <2>3. CASE ret = SENTINEL
      <3>1. found' = Missing BY <2>1, <2>3
      <3>2. \A x \in Records : key < x BY <1>4, <2>3, FinishFinds
      <3> QED BY <2>1, <2>2, <3>1, <3>2 DEF Map!MapReply, Map!IsFloor, Map!MapNext
    <2>4. CASE ret # SENTINEL
      <3>1. found' = ret BY <2>1, <2>4
      <3>2. found' \notin {Missing, Failed}
        BY <3>1, <1>4, FinishFinds DEF FloorIInv
      <3>3. /\ ret.key \in Records /\ ret.key <= key
            /\ \A x \in Records : x <= ret.key \/ key < x
        BY <1>4, <2>4, FinishFinds
      <3> QED BY <2>1, <2>2, <3>1, <3>2, <3>3 DEF Map!MapReply, Map!IsFloor, Map!MapNext
    <2> QED BY <2>3, <2>4
  <1>5. CASE Unwind
    <2>1. UNCHANGED <<tree, key>> /\ step # "idle" /\ step' = "idle" /\ found' = Failed
      BY <1>5 DEF Unwind, btreeVars
    <2>2. Records' = Records BY <2>1 DEF Records
    <2> QED BY <2>1, <2>2 DEF Map!MapReply, Map!MapNext
  <1>6. CASE UNCHANGED floorVars
    BY <1>6 DEF floorVars, btreeVars, Map!mapVars, Records
  <1> QED BY <1>1, <1>2, <1>3, <1>4, <1>5, <1>6 DEF FloorNext, FloorStep, Map!MapNext

\* The lookup, block by block, implements a one-step lookup in an ordered map.
THEOREM FloorImplementsMap == FloorSpec => ImplementsMap
  <1>1. FloorInit /\ FloorIInv => Map!MapInit BY InitImplements
  <1>2. FloorIInv /\ [FloorNext]_floorVars => [Map!MapNext]_(Map!mapVars)
    BY StepImplements
  <1> QED BY <1>1, <1>2, FloorInvariant, PTL DEF FloorSpec, ImplementsMap, Map!MapSpec

-----------------------------------------------------------------------------
(* Object maps *)

\* The inductive invariant of get_paddr: the lookup in progress is for (oid, xid).
ObjectMapIInv ==
    /\ FloorIInv
    /\ xid \in Xids
    /\ oid \in Oids
    /\ \A r \in Records : \E o \in Oids, x \in Xids : r = OmapKey(o, x)
    /\ step # "idle" => key = OmapKey(oid, xid)
    /\ Error \notin Results(tree)
    /\ NewestVisibleVersion

\* A key names one object and one transaction.
LEMMA OmapKeyInjective ==
    ASSUME NEW o \in Oids, NEW p \in Oids, NEW x \in Xids, NEW y \in Xids,
           OmapKey(o, x) = OmapKey(p, y)
    PROVE  o = p /\ x = y
  <1>1. o \in Int /\ p \in Int /\ x \in Int /\ y \in Int BY XidAssumption
  <1>2. ~(OmapKey(o, x) < OmapKey(p, y)) /\ ~(OmapKey(p, y) < OmapKey(o, x))
    BY OmapKeyOrder
  <1>3. ~(o < p \/ (o = p /\ x < y)) /\ ~(p < o \/ (p = o /\ y < x))
    BY <1>2, OmapKeyOrder
  <1> QED BY <1>1, <1>3

LEMMA OidOfKey ==
    ASSUME NEW o \in Oids, NEW x \in Xids
    PROVE  ok_oid(OmapKey(o, x)) = o
  <1> DEFINE P(p) == \E y \in Xids : OmapKey(o, x) = OmapKey(p, y)
  <1>1. P(o) OBVIOUS
  <1>2. \A p \in Oids : P(p) => p = o BY OmapKeyInjective
  <1> QED BY <1>1, <1>2 DEF ok_oid

LEMMA ObjectMapInitIInv == ObjectMapInit => ObjectMapIInv
  <1> SUFFICES ASSUME ObjectMapInit PROVE ObjectMapIInv OBVIOUS
  <1>1. FloorIInv BY FloorInitIInv DEF ObjectMapInit
  <1>2. \A r \in Records : \E o \in Oids, x \in Xids : r = OmapKey(o, x)
    BY OmapTrees DEF ObjectMapInit, FloorInit, BTreeInit, Records
  <1>3. xid \in Xids /\ oid \in Oids /\ paddr = Error /\ step = "idle"
    BY DEF ObjectMapInit, FloorInit
  <1>4. Error \notin Results(tree)
    BY ErrorAssumption DEF ObjectMapInit, FloorInit, BTreeInit
  <1> QED BY <1>1, <1>2, <1>3, <1>4 DEF ObjectMapIInv, NewestVisibleVersion

LEMMA GetPaddrIInv == ASSUME ObjectMapIInv, NEW o \in Oids, GetPaddr(o) PROVE ObjectMapIInv'
  <1>1. LookUp(OmapKey(o, xid)) /\ OmapKey(o, xid) \in Queries
    BY OmapQueries DEF GetPaddr, ObjectMapIInv
  <1>2. FloorIInv' BY <1>1, LookUpIInv DEF ObjectMapIInv
  <1>3. UNCHANGED <<tree, xid>> /\ oid' = o /\ key' = OmapKey(o, xid) /\ step' = "upper"
    BY <1>1 DEF GetPaddr, LookUp, Begin
  <1> QED BY <1>2, <1>3 DEF ObjectMapIInv, Records, Results, NewestVisibleVersion

LEMMA SearchingIInv == ObjectMapIInv /\ Searching => ObjectMapIInv'
  <1> SUFFICES ASSUME ObjectMapIInv, Searching PROVE ObjectMapIInv' OBVIOUS
  <1>1. FloorIInv' BY InnerStepIInv, StepBackIInv DEF Searching, ObjectMapIInv
  <1>2. UNCHANGED <<tree, xid, oid, paddr, key>> /\ (step' = "idle" => step = "idle")
    BY SearchStepKeeps DEF Searching, StepBack, Begin
  <1>3. NewestVisibleVersion'
    BY <1>2 DEF ObjectMapIInv, NewestVisibleVersion, Versions, Records, IsRecord, Positions
  <1>4. step' # "idle" => step # "idle" BY DEF Searching, StepBack
  <1> QED BY <1>1, <1>2, <1>3, <1>4 DEF ObjectMapIInv, Records, Results

LEMMA DeliverIInv == ObjectMapIInv /\ Deliver => ObjectMapIInv'
  <1> SUFFICES ASSUME ObjectMapIInv, Deliver PROVE ObjectMapIInv' OBVIOUS
  <1>1. Finish /\ FloorIInv /\ FloorIInv' BY FinishIInv DEF Deliver, ObjectMapIInv
  <1>2. /\ UNCHANGED <<tree, key, xid, oid>> /\ step = "prev" /\ step' = "idle"
        /\ paddr' = IF ret = SENTINEL \/ ok_oid(ret.key) # oid THEN Error ELSE ret
    BY DEF Deliver, Finish, btreeVars
  <1>3. xid \in Xids /\ oid \in Oids /\ key = OmapKey(oid, xid)
    BY <1>2 DEF ObjectMapIInv
  <1>4. ASSUME ret # SENTINEL, ok_oid(ret.key) = oid
        PROVE  \E x \in Versions(oid) :
                  /\ ret.key = OmapKey(oid, x)
                  /\ IsRecord(ret)
                  /\ x <= xid
                  /\ \A y \in Versions(oid) : y <= x \/ xid < y
    <2>1. /\ IsRecord(ret) /\ ret.key \in Records /\ ret.key <= key
          /\ \A r \in Records : r <= ret.key \/ key < r
      BY <1>1, <1>4, FinishFinds
    <2>2. PICK o \in Oids, x \in Xids : ret.key = OmapKey(o, x)
      BY <2>1 DEF ObjectMapIInv
    <2>3. o = oid BY <2>2, <1>4, OidOfKey
    <2>4. x \in Versions(oid) BY <2>1, <2>2, <2>3 DEF Versions
    <2>5. ASSUME NEW y \in Xids, NEW z \in Xids, OmapKey(oid, y) <= OmapKey(oid, z)
          PROVE  y <= z
      <3>1. OmapKey(oid, y) \in Int /\ OmapKey(oid, z) \in Int /\ y \in Int /\ z \in Int
        BY <1>3, OmapKeyOrder, XidAssumption
      <3>2. ~(OmapKey(oid, z) < OmapKey(oid, y)) BY <2>5, <3>1
      <3>3. ~(z < y) BY <3>2, <1>3, OmapKeyOrder
      <3> QED BY <3>1, <3>3
    <2>6. x <= xid BY <2>1, <2>2, <2>3, <2>5, <1>3
    <2>7. ASSUME NEW y \in Versions(oid) PROVE y <= x \/ xid < y
      <3>1. y \in Xids /\ OmapKey(oid, y) \in Records BY DEF Versions
      <3>2. OmapKey(oid, y) <= OmapKey(oid, x) \/ OmapKey(oid, xid) < OmapKey(oid, y)
        BY <2>1, <2>2, <2>3, <3>1, <1>3
      <3>3. OmapKey(oid, xid) < OmapKey(oid, y) => xid < y
        <4>1. oid \in Int BY <1>3, XidAssumption
        <4> QED BY <4>1, <3>1, <1>3, OmapKeyOrder
      <3> QED BY <3>1, <3>2, <3>3, <2>5
    <2> QED BY <2>1, <2>2, <2>3, <2>4, <2>6, <2>7
  <1>5. NewestVisibleVersion'
    <2>1. CASE ret = SENTINEL \/ ok_oid(ret.key) # oid
      BY <1>2, <2>1 DEF NewestVisibleVersion
    <2>2. CASE ret # SENTINEL /\ ok_oid(ret.key) = oid
      <3>1. paddr' = ret BY <1>2, <2>2
      <3> QED BY <1>2, <1>4, <2>2, <3>1
          DEF NewestVisibleVersion, Versions, Records, IsRecord, Positions
    <2> QED BY <2>1, <2>2
  <1> QED BY <1>1, <1>2, <1>3, <1>5 DEF ObjectMapIInv, Records, Results

LEMMA FailIInv == ObjectMapIInv /\ Fail => ObjectMapIInv'
  <1> SUFFICES ASSUME ObjectMapIInv, Fail PROVE ObjectMapIInv' OBVIOUS
  <1>1. FloorIInv' BY UnwindIInv DEF Fail, ObjectMapIInv
  <1>2. UNCHANGED <<tree, key, xid, oid>> /\ step' = "idle" /\ paddr' = Error
    BY DEF Fail, Unwind, btreeVars
  <1> QED BY <1>1, <1>2 DEF ObjectMapIInv, Records, Results, NewestVisibleVersion

LEMMA ObjectMapStutterIInv == ObjectMapIInv /\ UNCHANGED omapVars => ObjectMapIInv'
  <1> SUFFICES ASSUME ObjectMapIInv, UNCHANGED omapVars PROVE ObjectMapIInv' OBVIOUS
  <1>1. UNCHANGED floorVars /\ UNCHANGED <<tree, key, step, xid, oid, paddr>>
    BY DEF omapVars, floorVars, btreeVars
  <1>2. FloorIInv' BY <1>1, FloorStutterIInv DEF ObjectMapIInv
  <1>3. NewestVisibleVersion'
    BY <1>1 DEF ObjectMapIInv, NewestVisibleVersion, Versions, Records, IsRecord, Positions
  <1> QED BY <1>1, <1>2, <1>3 DEF ObjectMapIInv, Records, Results

\* get_paddr answers with the newest version of the object that its
\* transaction may see, for every object map and every order of calls.
THEOREM GetPaddrCorrect == ObjectMapSpec => []NewestVisibleVersion
  <1>1. ObjectMapInit => ObjectMapIInv BY ObjectMapInitIInv
  <1>2. ObjectMapIInv /\ [ObjectMapNext]_omapVars => ObjectMapIInv'
    BY GetPaddrIInv, SearchingIInv, DeliverIInv, FailIInv, ObjectMapStutterIInv
       DEF ObjectMapNext, ObjectMapStep
  <1>3. ObjectMapIInv => NewestVisibleVersion BY DEF ObjectMapIInv
  <1> QED BY <1>1, <1>2, <1>3, PTL DEF ObjectMapSpec
\* An answer that is an error means that every version of the object is later.
LEMMA ErrorMeansNoVersion ==
    ASSUME ObjectMapIInv, Deliver, paddr' = Error
    PROVE  \A y \in Versions(oid) : xid < y
  <1>1. Finish /\ FloorIInv /\ step = "prev" BY DEF Deliver, Finish, ObjectMapIInv
  <1>2. xid \in Xids /\ oid \in Oids /\ key = OmapKey(oid, xid) /\ oid \in Int /\ xid \in Int
    BY <1>1, XidAssumption DEF ObjectMapIInv
  <1>3. ret # Error BY <1>1, FinishFinds DEF ObjectMapIInv
  <1>4. ret = SENTINEL \/ ok_oid(ret.key) # oid BY <1>3 DEF Deliver
  <1> SUFFICES ASSUME NEW y \in Versions(oid) PROVE xid < y OBVIOUS
  <1>5. y \in Xids /\ OmapKey(oid, y) \in Records /\ y \in Int
    BY XidAssumption DEF Versions
  <1>6. OmapKey(oid, xid) < OmapKey(oid, y) => xid < y BY <1>2, <1>5, OmapKeyOrder
  <1>7. CASE ret = SENTINEL
    <2>1. key < OmapKey(oid, y) BY <1>1, <1>5, <1>7, FinishFinds
    <2> QED BY <1>2, <1>6, <2>1
  <1>8. CASE ret # SENTINEL
    <2>1. /\ ret.key \in Records /\ ret.key <= key
          /\ OmapKey(oid, y) <= ret.key \/ key < OmapKey(oid, y)
      BY <1>1, <1>5, <1>8, FinishFinds
    <2>2. PICK o \in Oids, x \in Xids : ret.key = OmapKey(o, x) BY <2>1 DEF ObjectMapIInv
    <2>3. o # oid /\ o \in Int BY <1>4, <1>8, <2>2, OidOfKey, XidAssumption
    <2>4. /\ OmapKey(o, x) \in Int /\ OmapKey(oid, y) \in Int /\ OmapKey(oid, xid) \in Int
      BY <1>2, <1>5, OmapKeyOrder
    <2>5. ~(OmapKey(oid, xid) < OmapKey(o, x)) BY <1>2, <2>1, <2>2, <2>4
    <2>6. ~(oid < o) BY <1>2, <2>5, OmapKeyOrder
    <2>7. o < oid BY <1>2, <2>3, <2>6
    <2>8. OmapKey(o, x) < OmapKey(oid, y) BY <1>2, <1>5, <2>7, OmapKeyOrder
    <2>9. ~(OmapKey(oid, y) <= OmapKey(o, x)) BY <2>4, <2>8
    <2> QED BY <1>2, <1>6, <2>1, <2>2, <2>9
  <1> QED BY <1>7, <1>8

\* get_paddr throws over an object only if its transaction may see no version of
\* it, or if a block of the map is bad: no object of a readable map gets lost.
THEOREM GetPaddrComplete == ObjectMapSpec => ErrorMeansUnmapped
  <1>1. ObjectMapInit => ObjectMapIInv BY ObjectMapInitIInv
  <1>2. ObjectMapIInv /\ [ObjectMapNext]_omapVars => ObjectMapIInv'
    BY GetPaddrIInv, SearchingIInv, DeliverIInv, FailIInv, ObjectMapStutterIInv
       DEF ObjectMapNext, ObjectMapStep
  <1>3. ObjectMapIInv =>
           [Deliver /\ paddr' = Error => \A y \in Versions(oid) : xid < y]_omapVars
    BY ErrorMeansNoVersion
  <1> QED BY <1>1, <1>2, <1>3, PTL DEF ObjectMapSpec, ErrorMeansUnmapped
=============================================================================
