------------------------------- MODULE BTree -------------------------------
(***************************************************************************)
(* The searches of include/libapfs/BTree.hpp: lower_bound, upper_bound and *)
(* prev, as the recursive descents they are.  A search is an activation    *)
(* record per level of the tree; a step is one call or one return, so that *)
(* every block the search reads is a step of its own, and a block whose    *)
(* checksum is bad unwinds the whole search.                               *)
(*                                                                         *)
(* Keys are integers: the order is all the searches use of them.  A value  *)
(* is abstracted to the place it was read from, [node, pos], which tells a *)
(* record of a leaf from the child pointer of an index node.               *)
(***************************************************************************)
EXTENDS Integers, Sequences

CONSTANTS Trees,        \* the trees a volume may hold, see WellFormed
          MaxLevel,     \* an upper bound of btn_level
          SentinelKey,  \* numeric_limits<KeyType>::max(), the key of SENTINEL
          NoNode,       \* the node of no tree: where SENTINEL lives
          Queries       \* the arguments a client may pass

VARIABLES tree,     \* the tree on disk
          op, k,    \* the search in progress and its argument
          node,     \* the node (`this`) of the innermost activation
          frame,    \* frame[l]: the suspended activation on a node of level l
          phase,    \* "idle", "call", "return", "answered" or "threw"
          ret       \* the key_value_t being returned

btreeVars == <<tree, op, k, node, frame, phase, ret>>

Ops == {"lower_bound", "upper_bound", "prev"}

-----------------------------------------------------------------------------
(* The trees.  under[n] is a ghost: the keys of the leaves below node n.    *)

IsLeaf(t, n) == t.level[n] = 0
Positions(t, n) == 1 .. Len(t.keys[n])

TreeType(t) ==
    /\ t.root \in t.nodes
    /\ NoNode \notin t.nodes
    /\ t.bad \subseteq t.nodes
    /\ t.level \in [t.nodes -> 0 .. MaxLevel]
    /\ t.keys \in [t.nodes -> Seq(Int)]
    /\ t.child \in [t.nodes -> Seq(t.nodes)]
    /\ t.under \in [t.nodes -> SUBSET Int]

(* The node invariant BTree.hpp states for index nodes: children cover      *)
(* half-open intervals, the last one unbounded, and no key below an entry   *)
(* is smaller than the entry's own key.  The entry's key need not occur in  *)
(* the leaves: deleting the first record of a leaf leaves it behind.        *)
IndexNode(t, n) ==
    /\ Len(t.child[n]) = Len(t.keys[n])
    /\ t.under[n] = UNION {t.under[t.child[n][i]] : i \in Positions(t, n)}
    /\ \A i \in Positions(t, n) :
          LET c == t.child[n][i] IN
          /\ t.level[c] = t.level[n] - 1
          /\ t.keys[n][i] <= t.keys[c][1]
          /\ \A x \in t.under[c] :
                /\ t.keys[n][i] <= x
                /\ i < Len(t.keys[n]) => x < t.keys[n][i + 1]

WellFormed(t) ==
    /\ TreeType(t)
    /\ \A n \in t.nodes :
          /\ Len(t.keys[n]) > 0
          /\ t.under[n] # {}
          /\ \A i, j \in Positions(t, n) : i < j => t.keys[n][i] < t.keys[n][j]
          /\ IF IsLeaf(t, n)
             THEN t.under[n] = {t.keys[n][i] : i \in Positions(t, n)}
             ELSE IndexNode(t, n)

ASSUME LevelAssumption == MaxLevel \in Nat
ASSUME SentinelAssumption == SentinelKey \in Int
ASSUME TreeAssumption == \A t \in Trees : WellFormed(t)
ASSUME QueryAssumption == Queries \subseteq Int

-----------------------------------------------------------------------------
(* Results *)

SENTINEL == [key |-> SentinelKey, node |-> NoNode, pos |-> 0]
Entry(n, i) == [key |-> tree.keys[n][i], node |-> n, pos |-> i]

Records == tree.under[tree.root]

-----------------------------------------------------------------------------
(* One activation *)

Keys == tree.keys[node]

\* Mutant: upper_bound tests with lte, as lower_bound does.
BeforeFirst_Lte ==
    IF op = "prev" THEN k < Keys[1] ELSE k <= Keys[1]

\* The test that ends a call before the search for a range.
BeforeFirst ==
    CASE op = "lower_bound" -> k <= Keys[1]
      [] op = "upper_bound" -> k < Keys[1]
      [] op = "prev"        -> k < Keys[1]

\* find_if(...) - 1: the entry before the first one whose key is greater than k.
IsRange(n, i) ==
    /\ i \in Positions(tree, n)
    /\ tree.keys[n][i] <= k
    /\ i < Len(tree.keys[n]) => k < tree.keys[n][i + 1]

\* Mutant: every search falls back to the next range, prev included.
Sibling_NextOnly(o, i) == i + 1

\* The neighbour a search turns to when the range itself has no answer.
Sibling(o, i) == IF o = "prev" THEN i - 1 ELSE i + 1
HasSibling(o, n, i) == Sibling(o, i) \in Positions(tree, n)

\* Mutant: lower_bound steps past a key equal to k.
LeafAnswer_SkipsEqual(i) ==
    IF op = "prev" /\ Keys[i] < k
    THEN Entry(node, i)
    ELSE IF HasSibling(op, node, i) THEN Entry(node, Sibling(op, i)) ELSE SENTINEL

\* Mutant: prev returns the entry of the range without comparing it with k.
LeafAnswer_PrevKeepsEqual(i) ==
    IF (op = "lower_bound" /\ Keys[i] = k) \/ op = "prev"
    THEN Entry(node, i)
    ELSE IF HasSibling(op, node, i) THEN Entry(node, Sibling(op, i)) ELSE SENTINEL

LeafAnswer(i) ==
    IF \/ op = "lower_bound" /\ ~(Keys[i] < k)
       \/ op = "prev" /\ Keys[i] < k
    THEN Entry(node, i)
    ELSE IF HasSibling(op, node, i) THEN Entry(node, Sibling(op, i)) ELSE SENTINEL

\* Mutant: the search recurses on the node itself.
ReadChild_Self(c) == phase' = "call" /\ UNCHANGED node

\* read_btree of a child: read_object throws on a bad checksum.
ReadChild(c) ==
    IF c \in tree.bad
    THEN phase' = "threw" /\ UNCHANGED node
    ELSE phase' = "call" /\ node' = c

-----------------------------------------------------------------------------
NoFrames == [l \in 1 .. MaxLevel |-> [node |-> NoNode, idx |-> 0, sibling |-> FALSE]]

BTreeInit ==
    /\ tree \in Trees
    /\ op = "prev"
    /\ k = 0
    /\ node = tree.root
    /\ frame = NoFrames
    /\ phase = "idle"
    /\ ret = SENTINEL

Begin(o, q) ==
    /\ op' = o
    /\ k' = q
    /\ node' = tree.root
    /\ frame' = NoFrames
    /\ phase' = "call"
    /\ ret' = SENTINEL
    /\ UNCHANGED tree

ReturnFirst ==
    /\ phase = "call"
    /\ BeforeFirst
    /\ ret' = IF op = "prev" THEN SENTINEL ELSE Entry(node, 1)
    /\ phase' = "return"
    /\ UNCHANGED <<tree, op, k, node, frame>>

ReturnFromLeaf ==
    /\ phase = "call"
    /\ ~BeforeFirst
    /\ IsLeaf(tree, node)
    /\ \E i \in Positions(tree, node) : IsRange(node, i) /\ ret' = LeafAnswer(i)
    /\ phase' = "return"
    /\ UNCHANGED <<tree, op, k, node, frame>>

Descend ==
    /\ phase = "call"
    /\ ~BeforeFirst
    /\ ~IsLeaf(tree, node)
    /\ \E i \in Positions(tree, node) :
          /\ IsRange(node, i)
          /\ frame' = [frame EXCEPT ![tree.level[node]] =
                          [node |-> node, idx |-> i, sibling |-> FALSE]]
          /\ ReadChild(tree.child[node][i])
    /\ UNCHANGED <<tree, op, k, ret>>

Caller == frame[tree.level[node] + 1]

MustTrySibling ==
    /\ ret = SENTINEL
    /\ ~Caller.sibling
    /\ HasSibling(op, Caller.node, Caller.idx)

PassUp ==
    /\ phase = "return"
    /\ node # tree.root
    /\ ~MustTrySibling
    /\ node' = Caller.node
    /\ UNCHANGED <<tree, op, k, frame, phase, ret>>

TrySibling ==
    /\ phase = "return"
    /\ node # tree.root
    /\ MustTrySibling
    /\ frame' = [frame EXCEPT ![tree.level[node] + 1].sibling = TRUE]
    /\ ReadChild(tree.child[Caller.node][Sibling(op, Caller.idx)])
    /\ UNCHANGED <<tree, op, k, ret>>

Answer ==
    /\ phase = "return"
    /\ node = tree.root
    /\ phase' = "answered"
    /\ UNCHANGED <<tree, op, k, node, frame, ret>>

SearchStep == ReturnFirst \/ ReturnFromLeaf \/ Descend \/ PassUp \/ TrySibling \/ Answer

-----------------------------------------------------------------------------
(* A client that calls any search at any time.                             *)

Ready == phase \in {"idle", "answered", "threw"}

Request(o, q) == Ready /\ Begin(o, q)

BTreeNext == SearchStep \/ \E o \in Ops, q \in Queries : Request(o, q)

BTreeSpec == BTreeInit /\ [][BTreeNext]_btreeVars /\ WF_btreeVars(SearchStep)

-----------------------------------------------------------------------------
(* Properties *)

Results(t) == [key : Int, node : t.nodes \cup {NoNode}, pos : Nat]
Frames(t) == [node : t.nodes \cup {NoNode}, idx : Nat, sibling : BOOLEAN]

\* Every variable of the search keeps its type.
BTreeTypeOK ==
    /\ TreeType(tree)
    /\ op \in Ops
    /\ k \in Int
    /\ node \in tree.nodes
    /\ frame \in [1 .. MaxLevel -> Frames(tree)]
    /\ phase \in {"idle", "call", "return", "answered", "threw"}
    /\ ret \in Results(tree)

\* What a call of each search on node n promises when it returns r: r lies on
\* the right side of k and no record below n separates it from k.  For
\* lower_bound and upper_bound r.key need not be a record's key: it may be the
\* key of an index entry that bounds the next record from below.
UpperPost(n, r) ==
    IF r = SENTINEL
    THEN \A x \in tree.under[n] : x <= k
    ELSE /\ k < r.key
         /\ \A x \in tree.under[n] : x <= k \/ r.key <= x
         /\ \E x \in tree.under[n] : r.key <= x

LowerPost(n, r) ==
    IF r = SENTINEL
    THEN \A x \in tree.under[n] : x < k
    ELSE /\ k <= r.key
         /\ \A x \in tree.under[n] : x < k \/ r.key <= x
         /\ \E x \in tree.under[n] : r.key <= x

\* r is an entry of a leaf, so its value is a record and not a child pointer.
IsRecord(r) ==
    /\ r.node \in tree.nodes
    /\ IsLeaf(tree, r.node)
    /\ r.pos \in Positions(tree, r.node)
    /\ r.key = tree.keys[r.node][r.pos]

PrevPost(n, r) ==
    IF r = SENTINEL
    THEN \A x \in tree.under[n] : k <= x
    ELSE /\ r.key < k
         /\ r.key \in tree.under[n]
         /\ IsRecord(r)
         /\ \A x \in tree.under[n] : x <= r.key \/ k <= x

Post(n, r) ==
    CASE op = "upper_bound" -> UpperPost(n, r)
      [] op = "lower_bound" -> LowerPost(n, r)
      [] op = "prev"        -> PrevPost(n, r)

\* The suspended activation on level l: it runs on a node of that level, its
\* range is the one of k, and it turned to the sibling only for want of an
\* answer in the range.
Suspended(l) ==
    LET f == frame[l] IN
    /\ f.node \in tree.nodes
    /\ tree.level[f.node] = l
    /\ IsRange(f.node, f.idx)
    /\ f.sibling => /\ HasSibling(op, f.node, f.idx)
                    /\ Post(tree.child[f.node][f.idx], SENTINEL)

Callee(l) ==
    LET f == frame[l] IN
    tree.child[f.node][IF f.sibling THEN Sibling(op, f.idx) ELSE f.idx]

\* The activations form a path of calls from the root to the running node.
CallPath ==
    /\ tree.level[node] <= tree.level[tree.root]
    /\ tree.level[node] = tree.level[tree.root] => node = tree.root
    /\ \A l \in tree.level[node] + 1 .. tree.level[tree.root] :
          /\ Suspended(l)
          /\ Callee(l) = IF l = tree.level[node] + 1 THEN node ELSE frame[l - 1].node
          /\ l = tree.level[tree.root] => frame[l].node = tree.root

\* The inductive invariant of the searches: while a search runs the stack is a
\* path of calls, and every return keeps the promise of its own call.
BTreeIInv ==
    /\ WellFormed(tree)
    /\ BTreeTypeOK
    /\ phase \in {"call", "return"} => CallPath
    /\ phase = "return" => Post(node, ret)
    /\ phase = "answered" => Post(tree.root, ret)

\* upper_bound answers with the least bound above k of the records above k, and
\* with SENTINEL exactly when there is none (BTree.hpp:236).
UpperBoundKey ==
    phase = "answered" /\ op = "upper_bound" => UpperPost(tree.root, ret)

\* The same of lower_bound, for the records at or above k (BTree.hpp:208).
LowerBoundKey ==
    phase = "answered" /\ op = "lower_bound" => LowerPost(tree.root, ret)

\* prev answers with the last record below k, value included (BTree.hpp:261).
PrevIsLastBelow ==
    phase = "answered" /\ op = "prev" => PrevPost(tree.root, ret)

\* A search that falls back to the neighbouring range finds its answer there:
\* the fallback is taken at most once per search, whatever the height.
SiblingAnswers ==
    phase = "return" /\ node # tree.root /\ Caller.sibling => ret # SENTINEL

\* Every search ends, with an answer or with the exception of a bad block.
SearchEnds == phase = "call" ~> phase \in {"answered", "threw"}

=============================================================================
