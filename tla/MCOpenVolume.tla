---------------------------- MODULE MCOpenVolume ----------------------------
(* Two entries to a block, tables of a block and a half and of three blocks, *)
(* objects of three words of three bits.                                     *)
EXTENDS OpenVolume

MCEntries == {3, 6}
=============================================================================
