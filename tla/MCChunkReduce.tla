--------------------------- MODULE MCChunkReduce ---------------------------
(* Every array of up to four chunks of up to two nodes, and what can be made *)
(* of the list of each.                                                      *)
EXTENDS OffsetLists
=============================================================================
