---------------------------- MODULE MCObjectMap ----------------------------
(* ObjectMap over every small tree of two objects in three transactions:   *)
(* oids 0 .. 1, xids 0 .. 2, the keys 0 .. 5 of BTreeInstances.            *)
EXTENDS ObjectMap, BTreeInstances

Top == 5

MCOids == 0 .. 1
MCXids == 0 .. 2
MCOmapKey(o, x) == 3 * o + x
MCTrees == WithBadBlock(OneLevel(Top) \cup TwoLevel(Top) \cup ThreeLevel(Top))
MCQueries == 0 .. Top
MCSentinelKey == Top + 1
=============================================================================
