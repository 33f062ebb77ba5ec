---------------------------- MODULE MCEventPusher ----------------------------
(* Finite instance of EventPusher: payloads that fit, that only a stub       *)
(* replaces, and that have no JSON form.                                     *)
EXTENDS EventPusher

CONSTANTS d1, d2

SmallPayload == [size |-> 1, json |-> TRUE]
BigPayload   == [size |-> 5, json |-> TRUE]
RawPayload   == [size |-> 1, json |-> FALSE]

MCPayloads == {SmallPayload, BigPayload, RawPayload}
=============================================================================
