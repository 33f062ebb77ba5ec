-------------------------------- MODULE MCPiTurns --------------------------------
(* Finite instances of PiTurns: its constants are numbers.                    *)
EXTENDS PiTurns
=============================================================================
