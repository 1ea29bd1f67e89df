---------------------------- MODULE MCAgenticQueue ----------------------------
(* A small instance of AgenticQueue: one segment, since segments do not interact, *)
(* whose transcript comes from either kind of harness and moves between contents,  *)
(* with faults enough for several strays at it.                                    *)
EXTENDS AgenticQueue

CONSTANTS g1, h1, h2, bad
=============================================================================
