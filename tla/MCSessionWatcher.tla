-------------------------- MODULE MCSessionWatcher --------------------------
(* Small instances of SessionWatcher: one transcript that is written often,    *)
(* or beside it a second one that is only created and whose parser may hang.   *)
EXTENDS SessionWatcher

CONSTANTS f1, f2

MCThree == [f \in {f1} |-> 3]
MCOneOne == [f \in {f1, f2} |-> 1]
=============================================================================
