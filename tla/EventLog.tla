------------------------------ MODULE EventLog ------------------------------
(***************************************************************************)
(* What the event contract (server.mjs, "Event contract") promises a       *)
(* reader of a session's durable events, whatever the network does: the    *)
(* stored events are always a gap-free beginning of the written ones, and  *)
(* nothing stored is ever unstored.  Events are their sequence numbers.    *)
(***************************************************************************)
EXTENDS Naturals

VARIABLES written,   \* durable events the daemon has taken for delivery
          stored     \* durable events the control plane has stored

vars == <<written, stored>>

GapFree(S) == \A n \in S, w \in written : w < n => w \in S

Init == written = {} /\ stored = {}

\* New events are numbered above every earlier one.
Write ==
  /\ written \subseteq written'
  /\ \A n \in written' \ written, w \in written : w < n
  /\ UNCHANGED stored

\* Storing extends the stored beginning to a longer one.
Store ==
  /\ stored \subseteq stored'
  /\ stored' \subseteq written
  /\ GapFree(stored')
  /\ UNCHANGED written

Next == Write \/ Store

Spec == Init /\ [][Next]_vars
=============================================================================
