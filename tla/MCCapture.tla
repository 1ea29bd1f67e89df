------------------------------ MODULE MCCapture ------------------------------
(* A small instance of Capture: a shell probe and a browser visit whose        *)
(* envelope id can recur.                                                      *)
EXTENDS Capture

CONSTANTS p1, b1, t1

MCEvent == {p1, b1}
MCShell == {p1}
MCSessionOf == [e \in MCShell |-> t1]
=============================================================================
