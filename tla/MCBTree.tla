------------------------------ MODULE MCBTree ------------------------------
(* BTree on every small tree, for every search and argument.               *)
EXTENDS BTree, BTreeInstances

Top == 5

MCTrees == WithBadBlock(OneLevel(Top) \cup TwoLevel(Top) \cup ThreeLevel(Top))
MCQueries == -1 .. Top + 1
MCSentinelKey == Top + 1
=============================================================================
