---------------------------- MODULE MCOpenCodeTurns ----------------------------
(* Finite instances of OpenCodeTurns: its constants are numbers.              *)
EXTENDS OpenCodeTurns
=============================================================================
