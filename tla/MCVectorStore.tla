---------------------------- MODULE MCVectorStore ----------------------------
(* A small instance of VectorStore: two segments and two texts, so that a node *)
(* is replaced or deleted and its id given again.                              *)
EXTENDS VectorStore

CONSTANTS g1, g2, m1, m2
=============================================================================
