-------------------------- MODULE MCCredentialBroker --------------------------
(* Finite instances of CredentialBroker.                                     *)
EXTENDS CredentialBroker

CONSTANTS c1, c2
=============================================================================
