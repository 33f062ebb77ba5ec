----------------------------- MODULE MCLiveSetup -----------------------------
(* Finite instances of LiveSetup: the owner takes the chat back while she    *)
(* and another member speak, or it is opened after having been hers.         *)
EXTENDS LiveSetup

CONSTANTS ann, bob, platform, m1, m2

MCAuthor == [m \in Messages |-> IF m = m1 THEN bob ELSE ann]

Private == [keep |-> ann, answers |-> NoOne, stop |-> TRUE]
Shared  == [keep |-> NoOne, answers |-> ann, stop |-> FALSE]
Open    == [keep |-> NoOne, answers |-> NoOne, stop |-> FALSE]

ThenOpen == <<Shared, Open>>
ThenPrivate == <<Shared, Private>>
=============================================================================
