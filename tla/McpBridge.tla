------------------------------- MODULE McpBridge -------------------------------
(***************************************************************************)
(* The bridge to one MCP server (drivers/mcp-bridge.mjs), for the harness  *)
(* that makes the calls: calls in parallel, a connection that dies under   *)
(* them or seems to, one reconnect they share and one retry each, and a    *)
(* close that may come at any point of it.  A client is a connection; a    *)
(* stdio server's lives as long as its process.                            *)
(***************************************************************************)
EXTENDS Naturals, FiniteSets

CONSTANTS
  MaxCalls,    \* bound: tool calls under way at once
  MaxClients,  \* bound: clients that exist at once
  MaxStarts,   \* bound: calls made
  MaxBreaks    \* bound: connections that fail or seem to, set-ups, reconnects, closes that do

ASSUME BridgeAssumption ==
  MaxCalls \in Nat /\ MaxClients \in Nat \ {0} /\ MaxStarts \in Nat /\ MaxBreaks \in Nat

Clients == 1..MaxClients
Calls == 1..MaxCalls

VARIABLES
  br,     \* the bridge and its server's entry
  proc,   \* each client: "none", "starting", "up", "closing" or "gone"
  calls   \* each call: over ("none"), "sent", "lost", or it "waits" for a reconnect

bridgeVars == <<br, proc, calls>>

BridgeInit ==
  /\ br = [entry |-> "connecting", closed |-> FALSE, client |-> 1, made |-> {1}, last |-> 0,
           close |-> "no", starts |-> 0, breaks |-> 0]
  /\ proc = [k \in Clients |-> IF k = 1 THEN "starting" ELSE "none"]
  /\ calls = [c \in Calls |-> [at |-> "none", on |-> 0, tries |-> 0, aborted |-> FALSE]]

-----------------------------------------------------------------------------
(* The parts actions share                                                   *)

Throws(call) == [call EXCEPT !.at = "none", !.on = 0, !.tries = 0, !.aborted = FALSE]

\* callOn(): a client that is gone is not connected.
CallOn(call, k, tries) ==
  [call EXCEPT !.at = IF proc[k] \in {"starting", "up"} THEN "sent" ELSE "lost",
               !.on = k, !.tries = tries]

\* What a client that goes leaves to its calls.
Rejected(k) ==
  [c \in Calls |-> IF calls[c].at = "sent" /\ calls[c].on = k
                   THEN [calls[c] EXCEPT !.at = "lost"] ELSE calls[c]]

\* The run's signal: a request rejects at once; who waits for a reconnect waits.
Signalled ==
  [c \in Calls |-> CASE calls[c].at = "sent" -> Throws(calls[c])
                     [] calls[c].at = "none" -> calls[c]
                     [] OTHER -> [calls[c] EXCEPT !.aborted = TRUE]]

\* close() of a client that lives
Closes(k) == [proc EXCEPT ![k] = IF @ = "up" THEN "closing" ELSE @]

\* close(): of the client of a server that was set up
CloseBridge ==
  LET lives == br.entry = "ready" /\ proc[br.client] = "up"
  IN  /\ br' = [br EXCEPT !.closed = TRUE, !.last = IF lives THEN br.client ELSE 0,
                          !.close = IF lives THEN "waits" ELSE "gone"]
      /\ proc' = IF lives THEN Closes(br.client) ELSE proc

\* A client of its own for the reconnect (a slot nobody uses).
Free ==
  {k \in Clients : /\ k # br.client /\ proc[k] \in {"none", "gone"}
                   /\ \A c \in Calls : calls[c].on # k}

-----------------------------------------------------------------------------
(* Setting the server up, in time or not at all                              *)

SetUp == br.entry \in {"ready", "skipped"}

\* setupWithTimeout(): the client is connected, or comes late and closes itself.
FirstConnected ==
  /\ br.entry \in {"connecting", "skipped"} /\ 1 \in br.made
  /\ br' = [br EXCEPT !.made = {}, !.entry = IF @ = "connecting" THEN "listing" ELSE @]
  /\ proc' = [proc EXCEPT ![1] = IF br.entry = "connecting" THEN "up" ELSE "closing"]
  /\ UNCHANGED calls

Listed ==
  /\ br.entry = "listing"
  /\ br' = [br EXCEPT !.entry = "ready"]
  /\ UNCHANGED <<proc, calls>>

\* SETUP_TIMEOUT_MS pass, or an error comes: the session goes on without the
\* server; a client there is already is closed.
SetupFails ==
  /\ ~SetUp /\ br.breaks < MaxBreaks
  /\ br' = [br EXCEPT !.entry = "skipped", !.breaks = @ + 1]
  /\ proc' = Closes(1)
  /\ UNCHANGED calls

-----------------------------------------------------------------------------
(* Calls                                                                     *)

\* call(), before close(), in the first slot that is free
CallStarts(c) ==
  /\ \A b \in 1..(c - 1) : calls[b].at # "none"
  /\ br.entry = "ready" /\ ~br.closed /\ calls[c].at = "none" /\ br.starts < MaxStarts
  /\ calls' = [calls EXCEPT ![c] = CallOn(@, br.client, 1)]
  /\ br' = [br EXCEPT !.starts = @ + 1]
  /\ UNCHANGED proc

\* A result, a timeout, or a server's error: never tried again.
Answered(c) ==
  /\ calls[c].at = "sent" /\ proc[calls[c].on] \in {"up", "closing"}
  /\ calls' = [calls EXCEPT ![c] = Throws(@)]
  /\ UNCHANGED <<br, proc>>

\* The reconnect under way is shared; else the old client is closed, not waited
\* for, and another one made.
Reconnects ==
  \/ br.made # {} /\ UNCHANGED <<br, proc>>
  \/ /\ br.made = {}
     /\ \E k \in Free : /\ \A j \in Free : k <= j
                        /\ br' = [br EXCEPT !.made = {k}]
                        /\ proc' = [Closes(br.client) EXCEPT ![k] = "starting"]

\* A call's failure that is of the connection, or reads like it.
Lost(c) ==
  /\ calls[c].at = "lost"
  /\ \/ /\ br.closed \/ calls[c].aborted \/ calls[c].tries = 2
        /\ calls' = [calls EXCEPT ![c] = Throws(@)]
        /\ UNCHANGED <<br, proc>>
     \/ /\ ~br.closed /\ ~calls[c].aborted /\ calls[c].tries = 1
        /\ calls' = [calls EXCEPT ![c].at = "waits"]
        /\ Reconnects

\* Nothing lost is left to handle: the handlers run before anything else comes in.
NoneLost == \A c \in Calls : calls[c].at # "lost"

\* Mutant: a client made late is taken although the bridge closed meanwhile.
TakesAny(k) ==
  /\ br' = [br EXCEPT !.made = @ \ {k}, !.client = k]
  /\ proc' = [proc EXCEPT ![k] = "up"]

\* The fresh client: reaped when close() ran meanwhile, which saw the old one.
Takes(k) ==
  \/ /\ br.closed
     /\ br' = [br EXCEPT !.made = @ \ {k}]
     /\ proc' = [proc EXCEPT ![k] = "closing"]
  \/ /\ ~br.closed
     /\ br' = [br EXCEPT !.made = @ \ {k}, !.client = k]
     /\ proc' = [proc EXCEPT ![k] = "up"]

\* It is up: who waited sends once more, unless closed or aborted.
Reconnected(k) ==
  /\ NoneLost /\ br.entry = "ready" /\ k \in br.made
  /\ Takes(k)
  /\ calls' = [c \in Calls |->
       IF calls[c].at # "waits" THEN calls[c]
       ELSE IF br.closed \/ calls[c].aborted THEN Throws(calls[c])
       ELSE CallOn(calls[c], k, 2)]

\* It is not, or the first one is not: who waited throws that error, and the old
\* client stays.
ReconnectFails(k) ==
  /\ NoneLost /\ k \in br.made /\ br.breaks < MaxBreaks
  /\ br' = [br EXCEPT !.made = @ \ {k}, !.breaks = @ + 1,
                      !.entry = IF @ = "connecting" THEN "skipped" ELSE @]
  /\ proc' = [proc EXCEPT ![k] = "gone"]
  /\ calls' = [c \in Calls |-> IF calls[c].at = "waits" THEN Throws(calls[c]) ELSE calls[c]]

\* External: a server dies; one call's request fails, or its server's error reads
\* like a failed connection, while the client lives.
Dies(k) ==
  /\ NoneLost /\ proc[k] = "up" /\ br.breaks < MaxBreaks
  /\ br' = [br EXCEPT !.breaks = @ + 1]
  /\ proc' = [proc EXCEPT ![k] = "gone"]
  /\ calls' = Rejected(k)

Misread(c) ==
  /\ NoneLost /\ calls[c].at = "sent" /\ br.breaks < MaxBreaks
  /\ br' = [br EXCEPT !.breaks = @ + 1]
  /\ calls' = [calls EXCEPT ![c].at = "lost"]
  /\ UNCHANGED proc

\* External: a client told to close has gone.
Gone(k) ==
  /\ NoneLost /\ proc[k] = "closing"
  /\ proc' = [proc EXCEPT ![k] = "gone"]
  /\ calls' = Rejected(k)
  /\ UNCHANGED br

\* close() resolves: its client has gone, or BRIDGE_CLOSE_MS have passed.
CloseResolves ==
  /\ NoneLost /\ br.close = "waits" /\ proc[br.last] = "gone"
  /\ br' = [br EXCEPT !.close = "gone"]
  /\ UNCHANGED <<proc, calls>>

CloseGivesUp ==
  /\ NoneLost /\ br.close = "waits" /\ br.breaks < MaxBreaks
  /\ br' = [br EXCEPT !.close = "late", !.breaks = @ + 1]
  /\ UNCHANGED <<proc, calls>>

BridgeNext ==
  \/ \E c \in Calls : Answered(c) \/ Lost(c)
  \/ \E k \in Clients : Reconnected(k) \/ Gone(k)
  \/ FirstConnected \/ Listed \/ CloseResolves

BridgeFails ==
  \/ \E c \in Calls : Misread(c)
  \/ \E k \in Clients : Dies(k) \/ ReconnectFails(k)
  \/ SetupFails \/ CloseGivesUp

-----------------------------------------------------------------------------
BridgeTypeOK ==
  /\ br.entry \in {"connecting", "listing", "ready", "skipped"}
  /\ br.client \in Clients /\ br.made \subseteq Clients /\ br.last \in 0..MaxClients
  /\ br.close \in {"no", "waits", "gone", "late"} /\ (br.close = "no" <=> ~br.closed)
  /\ proc \in [Clients -> {"none", "starting", "up", "closing", "gone"}]
  /\ calls \in [Calls -> [at : {"none", "sent", "lost", "waits"}, on : 0..MaxClients,
                          tries : 0..2, aborted : BOOLEAN]]
  /\ \A k \in Clients : proc[k] = "starting" <=> k \in br.made
=============================================================================
