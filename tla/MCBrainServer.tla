---------------------------- MODULE MCBrainServer ----------------------------
(* Small instances of BrainServer: a shell row and a workflow row for what may *)
(* become of a row; a row and an ineligible one, with every other task about,  *)
(* for the pauses.                                                             *)
EXTENDS BrainServer

CONSTANTS r1, r2, r3, shell, workflow

MCSourceOf == [r \in Row |-> IF r = r2 THEN workflow ELSE shell]
=============================================================================
