----------------------------- MODULE MCCodexTurns -----------------------------
(* Finite instances of CodexTurns: its constants are numbers.                *)
EXTENDS CodexTurns
=============================================================================
