---------------------------- MODULE MCClaudeTurns ----------------------------
(* Finite instance of ClaudeTurns: two interrupts, one of which may fail.    *)
EXTENDS ClaudeTurns

CONSTANTS i1, i2
=============================================================================
