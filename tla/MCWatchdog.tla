----------------------------- MODULE MCWatchdog -----------------------------
(* A small instance of Watchdog: the shell's I-1 and I-8, and I-8 of another   *)
(* source. The thresholds keep the order the code's have.                      *)
EXTENDS Watchdog

CONSTANTS i1shell, i8shell, i8tool

MCInvOf == [p \in {i1shell, i8shell, i8tool} |-> IF p = i1shell THEN "I-1" ELSE "I-8"]
MCRank == [p \in {i1shell, i8shell, i8tool} |->
             IF p = i1shell THEN 1 ELSE IF p = i8shell THEN 2 ELSE 3]
=============================================================================
