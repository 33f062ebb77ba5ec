------------------------------ MODULE PiTurnsProofs ------------------------------
(***************************************************************************)
(* Proofs about PiTurns and the bridge it goes through, McpBridge: the     *)
(* types of every variable and that no bridged server outlives its client, *)
(* for every number of calls, clients, messages and interrupts.            *)
(***************************************************************************)
EXTENDS PiTurns, TLAPS

-----------------------------------------------------------------------------
(* The bridge's invariant, in named parts                                    *)

BridgeRecord ==
  [entry : {"connecting", "listing", "ready", "skipped"}, closed : BOOLEAN,
   client : Clients, made : SUBSET Clients, last : 0..MaxClients,
   close : {"no", "waits", "gone", "late"}, starts : Nat, breaks : Nat]

CallRecord ==
  [at : {"none", "sent", "lost", "waits"}, on : 0..MaxClients, tries : 0..2,
   aborted : BOOLEAN]

Bridged ==
  /\ br \in BridgeRecord
  /\ proc \in [Clients -> {"none", "starting", "up", "closing", "gone"}]
  /\ calls \in [Calls -> CallRecord]
  /\ br.close = "no" <=> ~br.closed

\* One client at most is being made, and the one it replaces lives no more.
MadeOk ==
  /\ \A k \in Clients : proc[k] = "starting" <=> k \in br.made
  /\ \A k, l \in br.made : k = l
  /\ br.made # {} => proc[br.client] # "up"

UpOk ==
  \A k \in Clients :
    proc[k] = "up" => k = br.client /\ ~br.closed /\ br.entry # "skipped"

\* Until the server is set up there is the first client only, and no call.  After
\* that a client is made for the calls that wait for it.
EntryOk ==
  /\ br.entry # "ready" =>
       br.client = 1 /\ br.made \subseteq {1} /\ \A c \in Calls : calls[c].at = "none"
  /\ br.entry = "listing" => br.made = {}
  /\ br.entry = "ready" /\ br.made # {} => \E c \in Calls : calls[c].at = "waits"
  /\ br.closed => SetUp

\* What close() waited for to go has gone, and stays so.
CloseOk == br.close = "gone" /\ br.last # 0 => proc[br.last] = "gone"

BridgeSafe == Bridged /\ MadeOk /\ UpOk /\ EntryOk /\ CloseOk

\* The first client is one.
LEMMA FirstClient == 1 \in Clients
  BY BridgeAssumption DEF Clients

-----------------------------------------------------------------------------
(* Every step of the bridge keeps it                                         *)

\* Before any step.
LEMMA BridgeStarts == BridgeInit => BridgeSafe
<1> SUFFICES ASSUME BridgeInit PROVE BridgeSafe
  OBVIOUS
<1>1. /\ br.entry = "connecting" /\ br.closed = FALSE /\ br.client = 1 /\ br.made = {1}
      /\ br.last = 0 /\ br.close = "no"
      /\ \A k \in Clients : proc[k] = (IF k = 1 THEN "starting" ELSE "none")
      /\ \A c \in Calls : calls[c].at = "none"
  BY DEF BridgeInit
<1>2. Bridged
  <2>1. br \in BridgeRecord
    BY FirstClient, BridgeAssumption DEF BridgeInit, BridgeRecord
  <2>2. calls \in [Calls -> CallRecord]
    BY BridgeAssumption DEF BridgeInit, CallRecord
  <2>3. proc \in [Clients -> {"none", "starting", "up", "closing", "gone"}]
    BY DEF BridgeInit
  <2> QED BY <1>1, <2>1, <2>2, <2>3 DEF Bridged
<1>3. MadeOk /\ UpOk /\ EntryOk /\ CloseOk
  BY <1>1, FirstClient DEF MadeOk, UpOk, EntryOk, CloseOk
<1> QED BY <1>2, <1>3 DEF BridgeSafe

\* The first client is there, in time or too late.
LEMMA FirstConnectedSafe == ASSUME BridgeSafe, FirstConnected PROVE BridgeSafe'
<1>1. /\ Bridged /\ br.entry \in {"connecting", "skipped"} /\ 1 \in br.made /\ calls' = calls
      /\ br' = [br EXCEPT !.made = {}, !.entry = IF @ = "connecting" THEN "listing" ELSE @]
      /\ proc' = [proc EXCEPT ![1] = IF br.entry = "connecting" THEN "up" ELSE "closing"]
  BY DEF BridgeSafe, FirstConnected
<1>2. /\ br' \in BridgeRecord /\ br'.made = {} /\ br'.closed = br.closed
      /\ br'.client = br.client /\ br'.last = br.last /\ br'.close = br.close
      /\ br'.entry = IF br.entry = "connecting" THEN "listing" ELSE br.entry
  BY <1>1 DEF Bridged, BridgeRecord
<1>3. /\ proc' \in [Clients -> {"none", "starting", "up", "closing", "gone"}]
      /\ \A k \in Clients : k # 1 => proc'[k] = proc[k]
      /\ proc'[1] = IF br.entry = "connecting" THEN "up" ELSE "closing"
  BY <1>1, FirstClient DEF Bridged
<1>4. br.client = 1 /\ proc[1] = "starting" /\ br.made = {1} /\ (br.closed => br.entry = "skipped")
  BY <1>1, FirstClient DEF BridgeSafe, EntryOk, MadeOk, SetUp
<1>5. Bridged'
  BY <1>1, <1>2, <1>3 DEF Bridged
<1>6. MadeOk'
  BY <1>2, <1>3, <1>4 DEF BridgeSafe, MadeOk
<1>7. UpOk'
  BY <1>1, <1>2, <1>3, <1>4 DEF BridgeSafe, UpOk, Bridged, BridgeRecord
<1>8. EntryOk'
  BY <1>1, <1>2, <1>4 DEF BridgeSafe, EntryOk, SetUp
<1>9. CloseOk'
  <2>1. br.last # 1 \/ br.close # "gone"
    BY <1>4 DEF BridgeSafe, CloseOk
  <2>2. br.last \in Nat /\ (br.last # 0 => br.last \in Clients)
    BY <1>1, BridgeAssumption DEF Bridged, BridgeRecord, Clients
  <2> QED BY <1>2, <1>3, <2>1, <2>2 DEF BridgeSafe, CloseOk
<1> QED BY <1>5, <1>6, <1>7, <1>8, <1>9 DEF BridgeSafe

\* Its tools are listed: the server is set up.
LEMMA ListedSafe == ASSUME BridgeSafe, Listed PROVE BridgeSafe'
<1>1. /\ Bridged /\ br.entry = "listing" /\ proc' = proc /\ calls' = calls
      /\ br' = [br EXCEPT !.entry = "ready"]
  BY DEF BridgeSafe, Listed
<1>2. /\ br' \in BridgeRecord /\ br'.made = br.made /\ br'.closed = br.closed
      /\ br'.client = br.client /\ br'.last = br.last /\ br'.close = br.close
      /\ br'.entry = "ready"
  BY <1>1 DEF Bridged, BridgeRecord
<1>3. Bridged'
  BY <1>1, <1>2 DEF Bridged
<1>4. MadeOk' /\ UpOk' /\ CloseOk'
  BY <1>1, <1>2 DEF BridgeSafe, MadeOk, UpOk, CloseOk
<1>5. EntryOk'
  BY <1>1, <1>2 DEF BridgeSafe, EntryOk, SetUp
<1> QED BY <1>3, <1>4, <1>5 DEF BridgeSafe

\* A client told to close: nothing else changes.
LEMMA ClosesEffect ==
  ASSUME Bridged, NEW k \in Clients
  PROVE  /\ Closes(k) \in [Clients -> {"none", "starting", "up", "closing", "gone"}]
         /\ \A l \in Clients :
              Closes(k)[l] = IF l = k /\ proc[k] = "up" THEN "closing" ELSE proc[l]
  BY DEF Closes, Bridged

\* The set-up fails: the client there is already is closed.
LEMMA SetupFailsSafe == ASSUME BridgeSafe, SetupFails PROVE BridgeSafe'
<1>1. /\ Bridged /\ br.entry \in {"connecting", "listing"} /\ proc' = Closes(1)
      /\ calls' = calls
      /\ br' = [br EXCEPT !.entry = "skipped", !.breaks = @ + 1]
  BY DEF BridgeSafe, SetupFails, SetUp, Bridged, BridgeRecord
<1>2. /\ br' \in BridgeRecord /\ br'.made = br.made /\ br'.closed = br.closed
      /\ br'.client = br.client /\ br'.last = br.last /\ br'.close = br.close
      /\ br'.entry = "skipped"
  <2> DEFINE n == br.breaks + 1
  <2>1. n \in Nat /\ br \in BridgeRecord
    BY <1>1 DEF Bridged, BridgeRecord
  <2>2. br' = [br EXCEPT !.entry = "skipped", !.breaks = n]
    BY <1>1
  <2> HIDE DEF n
  <2> QED BY <2>1, <2>2 DEF BridgeRecord
<1>3. /\ proc' \in [Clients -> {"none", "starting", "up", "closing", "gone"}]
      /\ \A k \in Clients : proc'[k] = IF k = 1 /\ proc[1] = "up" THEN "closing" ELSE proc[k]
  BY <1>1, FirstClient, ClosesEffect
<1>4. br.client = 1 /\ ~br.closed
  BY <1>1 DEF BridgeSafe, EntryOk, SetUp
<1>5. Bridged'
  BY <1>1, <1>2, <1>3 DEF Bridged
<1>6. MadeOk'
  BY <1>2, <1>3, <1>4, FirstClient DEF BridgeSafe, MadeOk
<1>7. UpOk'
  BY <1>3, <1>4 DEF BridgeSafe, UpOk
<1>8. EntryOk'
  BY <1>1, <1>2, <1>4 DEF BridgeSafe, EntryOk, SetUp
<1>9. CloseOk'
  BY <1>1, <1>2, <1>4 DEF BridgeSafe, CloseOk, Bridged
<1> QED BY <1>5, <1>6, <1>7, <1>8, <1>9 DEF BridgeSafe

\* Only what the calls do changes, and none begins to wait or stops: the bridge is
\* as safe as it was.
LEMMA OnlyCallsSafe ==
  ASSUME BridgeSafe, calls' \in [Calls -> CallRecord], br' \in BridgeRecord, proc' = proc,
         br'.entry = br.entry, br'.closed = br.closed, br'.client = br.client,
         br'.made = br.made, br'.last = br.last, br'.close = br.close,
         \A c \in Calls : calls[c].at = "waits" => calls'[c].at = "waits",
         br.entry # "ready" => \A c \in Calls : calls'[c].at = "none"
  PROVE  BridgeSafe'
<1>1. Bridged' /\ MadeOk' /\ UpOk' /\ CloseOk'
  BY DEF BridgeSafe, Bridged, MadeOk, UpOk, CloseOk
<1>2. EntryOk'
  BY DEF BridgeSafe, EntryOk, SetUp
<1> QED BY <1>1, <1>2 DEF BridgeSafe

\* A call's record, as each operator leaves it.
LEMMA CallEffects ==
  ASSUME Bridged, NEW call \in CallRecord
  PROVE  /\ Throws(call) \in CallRecord /\ Throws(call).at = "none"
         /\ \A k \in Clients, t \in 0..2 :
              CallOn(call, k, t) \in CallRecord /\ CallOn(call, k, t).at \in {"sent", "lost"}
<1>1. Throws(call) \in CallRecord /\ Throws(call).at = "none"
  <2>1. 0 \in 0..MaxClients /\ 0 \in 0..2
    BY BridgeAssumption
  <2> DEFINE e == [call EXCEPT !.at = "none", !.on = 0]
  <2>2. e \in CallRecord /\ e.at = "none"
    BY <2>1 DEF CallRecord
  <2>3. Throws(call) = [e EXCEPT !.tries = 0, !.aborted = FALSE]
    BY DEF Throws
  <2> HIDE DEF e
  <2> QED BY <2>1, <2>2, <2>3 DEF CallRecord
<1>2. ASSUME NEW k \in Clients, NEW t \in 0..2
      PROVE  CallOn(call, k, t) \in CallRecord /\ CallOn(call, k, t).at \in {"sent", "lost"}
  <2>1. k \in 0..MaxClients
    BY BridgeAssumption DEF Clients
  <2> QED BY <2>1 DEF CallOn, CallRecord
<1> QED BY <1>1, <1>2

\* An interrupt's signal: a call that waits goes on waiting.
LEMMA SignalledEffect ==
  ASSUME Bridged
  PROVE  /\ Signalled \in [Calls -> CallRecord]
         /\ \A c \in Calls : /\ calls[c].at = "waits" => Signalled[c].at = "waits"
                             /\ calls[c].at = "none" => Signalled[c].at = "none"
<1>1. ASSUME NEW c \in Calls
      PROVE  /\ Signalled[c] \in CallRecord
             /\ calls[c].at = "waits" => Signalled[c].at = "waits"
             /\ calls[c].at = "none" => Signalled[c].at = "none"
  <2>1. calls[c] \in CallRecord
    BY DEF Bridged
  <2>2. CASE calls[c].at = "sent"
    BY <2>1, <2>2, CallEffects DEF Signalled
  <2>3. CASE calls[c].at = "none"
    BY <2>1, <2>3 DEF Signalled
  <2>4. CASE calls[c].at \in {"lost", "waits"}
    <3>1. Signalled[c] = [calls[c] EXCEPT !.aborted = TRUE]
      BY <2>4 DEF Signalled
    <3> QED BY <2>1, <2>4, <3>1 DEF CallRecord
  <2> QED BY <2>1, <2>2, <2>3, <2>4 DEF CallRecord
<1>2. Signalled = [c \in Calls |-> Signalled[c]]
  BY DEF Signalled
<1> QED BY <1>1, <1>2

\* A client that goes rejects what was sent on it.
LEMMA RejectedEffect ==
  ASSUME Bridged, NEW k
  PROVE  /\ Rejected(k) \in [Calls -> CallRecord]
         /\ \A c \in Calls : /\ calls[c].at = "waits" => Rejected(k)[c].at = "waits"
                             /\ calls[c].at = "none" => Rejected(k)[c].at = "none"
<1>1. ASSUME NEW c \in Calls
      PROVE  /\ Rejected(k)[c] \in CallRecord
             /\ calls[c].at = "waits" => Rejected(k)[c].at = "waits"
             /\ calls[c].at = "none" => Rejected(k)[c].at = "none"
  <2>1. calls[c] \in CallRecord
    BY DEF Bridged
  <2>2. Rejected(k)[c] = IF calls[c].at = "sent" /\ calls[c].on = k
                         THEN [calls[c] EXCEPT !.at = "lost"] ELSE calls[c]
    BY DEF Rejected
  <2> QED BY <2>1, <2>2 DEF CallRecord
<1>2. Rejected(k) = [c \in Calls |-> Rejected(k)[c]]
  BY DEF Rejected
<1> QED BY <1>1, <1>2

\* A counter of the bridge goes up.
LEMMA CounterGoesUp ==
  ASSUME br \in BridgeRecord
  PROVE  /\ br.breaks + 1 \in Nat /\ br.starts + 1 \in Nat
         /\ \A n \in Nat : /\ [br EXCEPT !.breaks = n] \in BridgeRecord
                           /\ [br EXCEPT !.starts = n] \in BridgeRecord
  BY DEF BridgeRecord

\* A call is made: the server is set up.
LEMMA CallStartsSafe ==
  ASSUME BridgeSafe, NEW c \in Calls, CallStarts(c) PROVE BridgeSafe'
<1>1. /\ Bridged /\ br.entry = "ready" /\ calls[c].at = "none" /\ proc' = proc
      /\ calls' = [calls EXCEPT ![c] = CallOn(@, br.client, 1)]
      /\ br' = [br EXCEPT !.starts = @ + 1]
  BY DEF BridgeSafe, CallStarts
<1>2. br \in BridgeRecord /\ br.client \in Clients /\ calls[c] \in CallRecord
  BY <1>1 DEF Bridged, BridgeRecord
<1>3. CallOn(calls[c], br.client, 1) \in CallRecord
  <2>1. 1 \in 0..2
    OBVIOUS
  <2> QED BY <1>1, <1>2, <2>1, CallEffects
<1>4. /\ calls' \in [Calls -> CallRecord]
      /\ \A b \in Calls : calls[b].at = "waits" => calls'[b].at = "waits"
  <2> HIDE DEF CallOn
  <2> QED BY <1>1, <1>3 DEF Bridged
<1>5. /\ br' \in BridgeRecord /\ br'.entry = br.entry /\ br'.closed = br.closed
      /\ br'.client = br.client /\ br'.made = br.made /\ br'.last = br.last
      /\ br'.close = br.close
  <2> DEFINE n == br.starts + 1
  <2>1. n \in Nat /\ br' = [br EXCEPT !.starts = n]
    BY <1>1, <1>2, CounterGoesUp
  <2> HIDE DEF n
  <2> QED BY <1>2, <2>1 DEF BridgeRecord
<1> QED BY <1>1, <1>4, <1>5, OnlyCallsSafe

\* A call is answered.
LEMMA AnsweredSafe ==
  ASSUME BridgeSafe, NEW c \in Calls, Answered(c) PROVE BridgeSafe'
<1>1. /\ Bridged /\ calls[c].at = "sent" /\ proc' = proc /\ br' = br
      /\ calls' = [calls EXCEPT ![c] = Throws(@)]
  BY DEF BridgeSafe, Answered
<1>2. Throws(calls[c]) \in CallRecord /\ Throws(calls[c]).at = "none"
  BY <1>1, CallEffects DEF Bridged
<1>3. /\ calls' \in [Calls -> CallRecord]
      /\ \A b \in Calls : calls[b].at = "waits" => calls'[b].at = "waits"
      /\ \A b \in Calls : calls[b].at = "none" => calls'[b].at = "none"
  BY <1>1, <1>2 DEF Bridged
<1>4. br.entry # "ready" => \A b \in Calls : calls'[b].at = "none"
  BY <1>3 DEF BridgeSafe, EntryOk
<1> QED BY <1>1, <1>3, <1>4, OnlyCallsSafe DEF Bridged

\* A call's error is handled: it throws, or waits for the reconnect that is under
\* way or for the one it makes.
LEMMA LostSafe ==
  ASSUME BridgeSafe, NEW c \in Calls, Lost(c) PROVE BridgeSafe'
<1>1. Bridged /\ calls[c].at = "lost" /\ calls[c] \in CallRecord /\ br.entry = "ready"
  BY DEF BridgeSafe, Lost, Bridged, EntryOk
<1>2. CASE calls' = [calls EXCEPT ![c] = Throws(@)] /\ UNCHANGED <<br, proc>>
  <2>1. Throws(calls[c]) \in CallRecord
    BY <1>1, CallEffects
  <2>2. /\ calls' \in [Calls -> CallRecord] /\ br' = br /\ proc' = proc
        /\ \A b \in Calls : calls[b].at = "waits" => calls'[b].at = "waits"
    BY <1>1, <1>2, <2>1 DEF Bridged
  <2> QED BY <1>1, <2>2, OnlyCallsSafe DEF Bridged
<1>3. ASSUME ~br.closed, calls' = [calls EXCEPT ![c].at = "waits"], Reconnects
      PROVE  BridgeSafe'
  <2>1. [calls[c] EXCEPT !.at = "waits"] \in CallRecord
    BY <1>1 DEF CallRecord
  <2>2. /\ calls' \in [Calls -> CallRecord] /\ calls'[c].at = "waits"
        /\ \A b \in Calls : calls[b].at = "waits" => calls'[b].at = "waits"
    <3>1. calls'[c] = [calls[c] EXCEPT !.at = "waits"]
      BY <1>1, <1>3 DEF Bridged
    <3>2. calls'[c].at = "waits"
      BY <1>1, <3>1 DEF CallRecord
    <3>3. \A b \in Calls : b # c => calls'[b] = calls[b]
      BY <1>1, <1>3 DEF Bridged
    <3>4. calls' \in [Calls -> CallRecord]
      BY <1>1, <1>3, <2>1 DEF Bridged
    <3> QED BY <3>2, <3>3, <3>4
  <2>3. CASE UNCHANGED <<br, proc>>
    BY <1>1, <2>2, <2>3, OnlyCallsSafe DEF Bridged
  <2>4. ASSUME br.made = {}, NEW k \in Free, br' = [br EXCEPT !.made = {k}],
               proc' = [Closes(br.client) EXCEPT ![k] = "starting"]
        PROVE  BridgeSafe'
    <3>1. k \in Clients /\ k # br.client /\ br.client \in Clients /\ br \in BridgeRecord
      BY <1>1, <2>4 DEF Free, Bridged, BridgeRecord
    <3>2. /\ br' \in BridgeRecord /\ br'.made = {k} /\ br'.closed = br.closed
          /\ br'.client = br.client /\ br'.last = br.last /\ br'.close = br.close
          /\ br'.entry = br.entry
      BY <2>4, <3>1 DEF BridgeRecord
    <3>3. /\ proc' \in [Clients -> {"none", "starting", "up", "closing", "gone"}]
          /\ proc'[k] = "starting"
          /\ \A l \in Clients : l # k => proc'[l] = IF l = br.client /\ proc[br.client] = "up"
                                                   THEN "closing" ELSE proc[l]
      <4> DEFINE q == Closes(br.client)
      <4>1. /\ q \in [Clients -> {"none", "starting", "up", "closing", "gone"}]
            /\ \A l \in Clients : q[l] = IF l = br.client /\ proc[br.client] = "up"
                                          THEN "closing" ELSE proc[l]
        BY <1>1, <3>1, ClosesEffect
      <4>2. proc' = [q EXCEPT ![k] = "starting"]
        BY <2>4
      <4> HIDE DEF q
      <4> QED BY <3>1, <4>1, <4>2
    <3>4. Bridged'
      BY <1>1, <2>2, <3>2, <3>3 DEF Bridged
    <3>5. MadeOk'
      BY <2>4, <3>1, <3>2, <3>3 DEF BridgeSafe, MadeOk
    <3>6. UpOk'
      BY <3>2, <3>3 DEF BridgeSafe, UpOk
    <3>7. EntryOk'
      BY <1>1, <1>3, <2>2, <3>2 DEF BridgeSafe, EntryOk, SetUp
    <3>8. CloseOk'
      BY <1>1, <1>3, <3>2 DEF CloseOk, Bridged
    <3> QED BY <3>4, <3>5, <3>6, <3>7, <3>8 DEF BridgeSafe
  <2> QED BY <1>3, <2>3, <2>4 DEF Reconnects
<1> QED BY <1>2, <1>3 DEF Lost

\* The client that was made is there: taken, or reaped when the bridge has closed.
LEMMA ReconnectedSafe ==
  ASSUME BridgeSafe, NEW k \in Clients, Reconnected(k) PROVE BridgeSafe'
<1>1. /\ Bridged /\ br.entry = "ready" /\ k \in br.made /\ Takes(k)
      /\ br \in BridgeRecord /\ proc \in [Clients -> {"none", "starting", "up", "closing", "gone"}]
  BY DEF BridgeSafe, Reconnected, Bridged
<1>2. br.made = {k} /\ proc[k] = "starting" /\ proc[br.client] # "up"
  BY <1>1 DEF BridgeSafe, MadeOk
<1>3. calls' \in [Calls -> CallRecord]
  <2> DEFINE P(c) == br.closed \/ calls[c].aborted
  <2>1. calls' = [c \in Calls |-> IF calls[c].at # "waits" THEN calls[c]
                                  ELSE IF P(c) THEN Throws(calls[c])
                                  ELSE CallOn(calls[c], k, 2)]
    BY DEF Reconnected
  <2>2. ASSUME NEW c \in Calls
        PROVE  /\ calls[c] \in CallRecord /\ Throws(calls[c]) \in CallRecord
               /\ CallOn(calls[c], k, 2) \in CallRecord
    <3>1. calls[c] \in CallRecord /\ 2 \in 0..2
      BY <1>1 DEF Bridged
    <3> QED BY <1>1, <3>1, CallEffects
  <2> HIDE DEF P
  <2> QED BY <2>1, <2>2
<1>4. /\ br' \in BridgeRecord /\ br'.made = {} /\ br'.closed = br.closed
      /\ br'.client = (IF br.closed THEN br.client ELSE k)
      /\ br'.last = br.last /\ br'.close = br.close /\ br'.entry = "ready"
  <2>1. CASE br.closed /\ br' = [br EXCEPT !.made = @ \ {k}]
    BY <1>1, <1>2, <2>1 DEF BridgeRecord
  <2>2. CASE ~br.closed /\ br' = [br EXCEPT !.made = @ \ {k}, !.client = k]
    BY <1>1, <1>2, <2>2 DEF BridgeRecord
  <2> QED BY <1>1, <2>1, <2>2 DEF Takes
<1>5. /\ proc' \in [Clients -> {"none", "starting", "up", "closing", "gone"}]
      /\ proc'[k] = (IF br.closed THEN "closing" ELSE "up")
      /\ \A l \in Clients : l # k => proc'[l] = proc[l]
  BY <1>1 DEF Takes
<1>6. Bridged'
  BY <1>1, <1>3, <1>4, <1>5 DEF Bridged
<1>7. MadeOk'
  BY <1>2, <1>4, <1>5 DEF BridgeSafe, MadeOk
<1>8. UpOk'
  BY <1>1, <1>2, <1>4, <1>5 DEF BridgeSafe, UpOk
<1>9. EntryOk'
  BY <1>1, <1>4 DEF BridgeSafe, EntryOk, SetUp
<1>10. CloseOk'
  <2>1. br.last \in Clients \/ br.last = 0
    BY <1>1, BridgeAssumption DEF BridgeRecord, Clients
  <2> QED BY <1>2, <1>4, <1>5, <2>1 DEF BridgeSafe, CloseOk
<1> QED BY <1>6, <1>7, <1>8, <1>9, <1>10 DEF BridgeSafe

\* It is not, or the first one is not: then the server is skipped.
LEMMA ReconnectFailsSafe ==
  ASSUME BridgeSafe, NEW k \in Clients, ReconnectFails(k) PROVE BridgeSafe'
<1>1. /\ Bridged /\ k \in br.made /\ br \in BridgeRecord
      /\ proc \in [Clients -> {"none", "starting", "up", "closing", "gone"}]
      /\ proc' = [proc EXCEPT ![k] = "gone"]
  BY DEF BridgeSafe, ReconnectFails, Bridged
<1>2. br.made = {k} /\ proc[k] = "starting" /\ proc[br.client] # "up"
  BY <1>1 DEF BridgeSafe, MadeOk
<1>3. /\ calls' \in [Calls -> CallRecord]
      /\ \A c \in Calls : calls[c].at = "none" => calls'[c].at = "none"
  <2>1. calls' = [c \in Calls |-> IF calls[c].at = "waits" THEN Throws(calls[c]) ELSE calls[c]]
    BY DEF ReconnectFails
  <2>2. ASSUME NEW c \in Calls
        PROVE  calls[c] \in CallRecord /\ Throws(calls[c]) \in CallRecord
    BY <1>1, CallEffects DEF Bridged
  <2> QED BY <2>1, <2>2
<1>4. /\ br' \in BridgeRecord /\ br'.made = {} /\ br'.closed = br.closed
      /\ br'.client = br.client /\ br'.last = br.last /\ br'.close = br.close
      /\ br'.entry = IF br.entry = "connecting" THEN "skipped" ELSE br.entry
  <2> DEFINE n == br.breaks + 1
  <2>1. n \in Nat /\ br' = [br EXCEPT !.made = @ \ {k}, !.breaks = n,
                             !.entry = IF @ = "connecting" THEN "skipped" ELSE @]
    BY <1>1, CounterGoesUp DEF ReconnectFails
  <2> HIDE DEF n
  <2> QED BY <1>1, <1>2, <2>1 DEF BridgeRecord
<1>5. /\ proc' \in [Clients -> {"none", "starting", "up", "closing", "gone"}]
      /\ proc'[k] = "gone" /\ \A l \in Clients : l # k => proc'[l] = proc[l]
  BY <1>1
<1>6. Bridged'
  BY <1>1, <1>3, <1>4, <1>5 DEF Bridged
<1>7. MadeOk'
  BY <1>2, <1>4, <1>5 DEF BridgeSafe, MadeOk
<1>8. UpOk'
  BY <1>2, <1>4, <1>5 DEF BridgeSafe, UpOk, EntryOk, MadeOk, Bridged, BridgeRecord
<1>9. EntryOk'
  BY <1>3, <1>4, FirstClient DEF BridgeSafe, EntryOk, SetUp
<1>10. CloseOk'
  BY <1>4, <1>5, BridgeAssumption DEF BridgeSafe, CloseOk, Bridged, BridgeRecord, Clients
<1> QED BY <1>6, <1>7, <1>8, <1>9, <1>10 DEF BridgeSafe

\* A client that lived goes, of itself or told to: its calls are lost.
LEMMA ClientGoesSafe ==
  ASSUME BridgeSafe, NEW k \in Clients, proc[k] \in {"up", "closing"},
         proc' = [proc EXCEPT ![k] = "gone"], calls' = Rejected(k), br' \in BridgeRecord,
         br'.entry = br.entry, br'.closed = br.closed, br'.client = br.client,
         br'.made = br.made, br'.last = br.last, br'.close = br.close
  PROVE  BridgeSafe'
<1>1. Bridged /\ br \in BridgeRecord
      /\ proc \in [Clients -> {"none", "starting", "up", "closing", "gone"}]
  BY DEF BridgeSafe, Bridged
<1>2. /\ calls' \in [Calls -> CallRecord]
      /\ \A c \in Calls : /\ calls[c].at = "waits" => calls'[c].at = "waits"
                          /\ calls[c].at = "none" => calls'[c].at = "none"
  BY <1>1, RejectedEffect
<1>3. /\ proc' \in [Clients -> {"none", "starting", "up", "closing", "gone"}]
      /\ proc'[k] = "gone" /\ \A l \in Clients : l # k => proc'[l] = proc[l]
  BY <1>1
<1>4. br.client \in Clients /\ br.last \in 0..MaxClients
  BY <1>1 DEF BridgeRecord
<1>5. Bridged'
  BY <1>1, <1>2, <1>3 DEF Bridged
<1>6. MadeOk'
  BY <1>3, <1>4 DEF BridgeSafe, MadeOk
<1>7. UpOk'
  BY <1>3 DEF BridgeSafe, UpOk
<1>8. EntryOk'
  BY <1>2 DEF BridgeSafe, EntryOk, SetUp
<1>9. CloseOk'
  BY <1>3, <1>4, BridgeAssumption DEF BridgeSafe, CloseOk, Clients
<1> QED BY <1>5, <1>6, <1>7, <1>8, <1>9 DEF BridgeSafe

\* A server dies under its calls.
LEMMA DiesSafe == ASSUME BridgeSafe, NEW k \in Clients, Dies(k) PROVE BridgeSafe'
<1> DEFINE n == br.breaks + 1
<1>1. br \in BridgeRecord /\ n \in Nat
  BY CounterGoesUp DEF BridgeSafe, Bridged
<1>2. br' = [br EXCEPT !.breaks = n] /\ proc[k] = "up"
      /\ proc' = [proc EXCEPT ![k] = "gone"] /\ calls' = Rejected(k)
  BY DEF Dies
<1> HIDE DEF n
<1>3. /\ br' \in BridgeRecord /\ br'.entry = br.entry /\ br'.closed = br.closed
      /\ br'.client = br.client /\ br'.made = br.made /\ br'.last = br.last
      /\ br'.close = br.close
  BY <1>1, <1>2 DEF BridgeRecord
<1> QED BY <1>2, <1>3, ClientGoesSafe

\* A client told to close has gone.
LEMMA GoneSafe == ASSUME BridgeSafe, NEW k \in Clients, Gone(k) PROVE BridgeSafe'
<1>1. br \in BridgeRecord /\ br' = br /\ proc[k] = "closing"
      /\ proc' = [proc EXCEPT ![k] = "gone"] /\ calls' = Rejected(k)
  BY DEF BridgeSafe, Bridged, Gone
<1> QED BY <1>1, ClientGoesSafe

\* A request fails, or reads as if it had.
LEMMA MisreadSafe == ASSUME BridgeSafe, NEW c \in Calls, Misread(c) PROVE BridgeSafe'
<1> DEFINE n == br.breaks + 1
<1>1. br \in BridgeRecord /\ n \in Nat /\ Bridged /\ calls[c] \in CallRecord
  BY CounterGoesUp DEF BridgeSafe, Bridged
<1>2. br' = [br EXCEPT !.breaks = n] /\ calls[c].at = "sent" /\ proc' = proc
      /\ calls' = [calls EXCEPT ![c].at = "lost"]
  BY DEF Misread
<1> HIDE DEF n
<1>3. /\ br' \in BridgeRecord /\ br'.entry = br.entry /\ br'.closed = br.closed
      /\ br'.client = br.client /\ br'.made = br.made /\ br'.last = br.last
      /\ br'.close = br.close
  BY <1>1, <1>2 DEF BridgeRecord
<1>4. [calls[c] EXCEPT !.at = "lost"] \in CallRecord
  BY <1>1 DEF CallRecord
<1>5. /\ calls' \in [Calls -> CallRecord] /\ \A b \in Calls : b # c => calls'[b] = calls[b]
  BY <1>1, <1>2, <1>4 DEF Bridged
<1>6. br.entry = "ready"
  BY <1>2 DEF BridgeSafe, EntryOk
<1>7. \A b \in Calls : calls[b].at = "waits" => calls'[b].at = "waits"
  BY <1>2, <1>5
<1> QED BY <1>2, <1>3, <1>5, <1>6, <1>7, OnlyCallsSafe

\* The wait of close() is over: what it waited for has gone, or it is late.
LEMMA CloseWaitSafe ==
  ASSUME BridgeSafe, br.close = "waits", proc' = proc, calls' = calls, br' \in BridgeRecord,
         br'.entry = br.entry, br'.closed = br.closed, br'.client = br.client,
         br'.made = br.made, br'.last = br.last,
         br'.close = "late" \/ (br'.close = "gone" /\ proc[br.last] = "gone")
  PROVE  BridgeSafe'
<1>1. Bridged' /\ MadeOk' /\ UpOk' /\ CloseOk'
  BY DEF BridgeSafe, Bridged, MadeOk, UpOk, CloseOk
<1>2. EntryOk'
  BY DEF BridgeSafe, EntryOk, SetUp
<1> QED BY <1>1, <1>2 DEF BridgeSafe

\* close() resolves, its client gone.
LEMMA CloseResolvesSafe == ASSUME BridgeSafe, CloseResolves PROVE BridgeSafe'
<1>1. br \in BridgeRecord /\ br' = [br EXCEPT !.close = "gone"] /\ proc' = proc
      /\ calls' = calls /\ br.close = "waits" /\ proc[br.last] = "gone"
  BY DEF BridgeSafe, Bridged, CloseResolves
<1>2. /\ br' \in BridgeRecord /\ br'.entry = br.entry /\ br'.closed = br.closed
      /\ br'.client = br.client /\ br'.made = br.made /\ br'.last = br.last
      /\ br'.close = "gone"
  BY <1>1 DEF BridgeRecord
<1> QED BY <1>1, <1>2, CloseWaitSafe

\* close() gives up on it.
LEMMA CloseGivesUpSafe == ASSUME BridgeSafe, CloseGivesUp PROVE BridgeSafe'
<1> DEFINE n == br.breaks + 1
<1>1. br \in BridgeRecord /\ br' = [br EXCEPT !.close = "late", !.breaks = n] /\ proc' = proc
      /\ calls' = calls /\ br.close = "waits" /\ n \in Nat
  BY CounterGoesUp DEF BridgeSafe, Bridged, CloseGivesUp
<1> HIDE DEF n
<1>2. /\ br' \in BridgeRecord /\ br'.entry = br.entry /\ br'.closed = br.closed
      /\ br'.client = br.client /\ br'.made = br.made /\ br'.last = br.last
      /\ br'.close = "late"
  BY <1>1 DEF BridgeRecord
<1> QED BY <1>1, <1>2, CloseWaitSafe

\* close(), once the server has been set up or skipped: it waits for the client that
\* lives, if there is one.
LEMMA CloseBridgeSafe ==
  ASSUME BridgeSafe, SetUp, ~br.closed, CloseBridge, calls' \in [Calls -> CallRecord],
         \A c \in Calls : calls[c].at = "waits" => calls'[c].at = "waits",
         \A c \in Calls : calls[c].at = "none" => calls'[c].at = "none"
  PROVE  BridgeSafe'
<1> DEFINE lives == br.entry = "ready" /\ proc[br.client] = "up"
<1>1. Bridged /\ br \in BridgeRecord /\ br.client \in Clients
      /\ proc \in [Clients -> {"none", "starting", "up", "closing", "gone"}]
  BY DEF BridgeSafe, Bridged, BridgeRecord
<1>2. /\ br' \in BridgeRecord /\ br'.made = br.made /\ br'.client = br.client
      /\ br'.entry = br.entry /\ br'.closed = TRUE
      /\ br'.last = (IF lives THEN br.client ELSE 0)
      /\ br'.close = (IF lives THEN "waits" ELSE "gone")
  <2> DEFINE n == IF lives THEN br.client ELSE 0
             w == IF lives THEN "waits" ELSE "gone"
  <2>1. n \in 0..MaxClients /\ w \in {"waits", "gone"}
    BY <1>1, BridgeAssumption DEF Clients
  <2>2. br' = [br EXCEPT !.closed = TRUE, !.last = n, !.close = w]
    BY DEF CloseBridge
  <2>3. /\ br'.made = br.made /\ br'.client = br.client /\ br'.entry = br.entry
        /\ br'.closed = TRUE /\ br'.last = n /\ br'.close = w /\ br' \in BridgeRecord
    <3> HIDE DEF n, w
    <3> QED BY <1>1, <2>1, <2>2 DEF BridgeRecord
  <2> QED BY <2>3
<1>3. /\ proc' \in [Clients -> {"none", "starting", "up", "closing", "gone"}]
      /\ \A k \in Clients : proc'[k] = IF k = br.client /\ lives THEN "closing" ELSE proc[k]
  <2>1. CASE lives
    BY <1>1, <2>1, ClosesEffect DEF CloseBridge
  <2>2. CASE ~lives
    BY <1>1, <2>2 DEF CloseBridge
  <2> QED BY <2>1, <2>2
<1>4. Bridged'
  BY <1>1, <1>2, <1>3 DEF Bridged
<1>5. MadeOk'
  BY <1>1, <1>2, <1>3 DEF BridgeSafe, MadeOk
<1>6. UpOk'
  BY <1>1, <1>2, <1>3 DEF BridgeSafe, UpOk, SetUp
<1>7. EntryOk'
  BY <1>2 DEF BridgeSafe, EntryOk, SetUp
<1>8. CloseOk'
  BY <1>2 DEF CloseOk
<1> QED BY <1>4, <1>5, <1>6, <1>7, <1>8 DEF BridgeSafe

-----------------------------------------------------------------------------
(* The driver's invariant, and what its synchronous parts keep of it         *)

Reactions == {"result", "settled", "finish", "fail"}

DriverRecord ==
  [created : BOOLEAN, state : {"idle", "working", "blocked"}, closed : BOOLEAN,
   ending : BOOLEAN, retiring : BOOLEAN, resolved : BOOLEAN, finished : BOOLEAN,
   over : {"none", "ended", "error", "retired"}, gen : Nat, cycleGen : Nat, gate : BOOLEAN,
   chain : Seq(Reactions), sync : {"none", "due", "result", "finish", "fail"}]

\* A reaction is due or under way exactly while the chain is not empty, and a cycle
\* is of a generation there has been.
DriverOk(c) ==
  c \in DriverRecord /\ (c.sync = "none" <=> c.chain = <<>>) /\ c.cycleGen <= c.gen

\* e comes of c by no more than the reactions do.
Later(c, e) ==
  /\ e.created = c.created /\ e.over = c.over
  /\ c.finished => e.finished

\* Later is a preorder.
LEMMA LaterTransitive ==
  ASSUME NEW c, NEW e, NEW u, Later(c, e), Later(e, u) PROVE Later(c, u)
  BY DEF Later

\* A reaction is chained.
LEMMA ChainEffect ==
  ASSUME NEW c, DriverOk(c), NEW r \in Reactions
  PROVE  LET e == Chain(c, r)
         IN  DriverOk(e) /\ Later(c, e) /\ e.finished = c.finished
<1> DEFINE q == Append(c.chain, r)
           s == IF c.chain = <<>> THEN "due" ELSE c.sync
           e == Chain(c, r)
<1>1. c \in DriverRecord /\ c.chain \in Seq(Reactions)
  BY DEF DriverOk, DriverRecord
<1>2. q \in Seq(Reactions) /\ q # <<>>
  BY <1>1
<1>3. s \in {"due", "result", "finish", "fail"}
  BY <1>1 DEF DriverOk, DriverRecord
<1>4. e = [c EXCEPT !.chain = q, !.sync = s]
  BY <1>1 DEF Chain, DriverRecord
<1> HIDE DEF q, s, e
<1>5. e \in DriverRecord
  BY <1>1, <1>2, <1>3, <1>4 DEF DriverRecord
<1>6. /\ e.chain = q /\ e.sync = s /\ e.gen = c.gen /\ e.cycleGen = c.cycleGen
      /\ e.created = c.created /\ e.over = c.over /\ e.finished = c.finished
  BY <1>1, <1>4 DEF DriverRecord
<1>7. DriverOk(e) /\ Later(c, e) /\ e.finished = c.finished
  BY <1>2, <1>3, <1>5, <1>6 DEF DriverOk, Later
<1> QED BY <1>7 DEF e

\* A sequence is empty by its length.
LEMMA EmptyByLength == ASSUME NEW S, NEW q \in Seq(S) PROVE q = <<>> <=> Len(q) = 0
  OBVIOUS

\* The chain goes on.
LEMMA GoOnEffect ==
  ASSUME NEW c, DriverOk(c), c.chain # <<>>
  PROVE  DriverOk(GoOn(c)) /\ Later(c, GoOn(c)) /\ GoOn(c).finished = c.finished
<1> DEFINE q == Tail(c.chain)
           s == IF Len(c.chain) = 1 THEN "none" ELSE "due"
           e == GoOn(c)
<1>1. c \in DriverRecord /\ c.chain \in Seq(Reactions) /\ c.chain # <<>>
  BY DEF DriverOk, DriverRecord
<1>2. q \in Seq(Reactions) /\ (q = <<>> <=> Len(c.chain) = 1)
  <2>1. q \in Seq(Reactions) /\ Len(q) = Len(c.chain) - 1 /\ Len(c.chain) \in Nat
    BY <1>1
  <2>2. q = <<>> <=> Len(q) = 0
    BY <2>1, EmptyByLength
  <2> QED BY <2>1, <2>2
<1>3. s \in {"due", "none"} /\ (s = "none" <=> q = <<>>)
  BY <1>2
<1>4. e = [c EXCEPT !.chain = q, !.sync = s]
  BY DEF GoOn
<1> HIDE DEF q, s, e
<1>5. e \in DriverRecord
  BY <1>1, <1>2, <1>3, <1>4 DEF DriverRecord
<1>6. /\ e.chain = q /\ e.sync = s /\ e.gen = c.gen /\ e.cycleGen = c.cycleGen
      /\ e.created = c.created /\ e.over = c.over /\ e.finished = c.finished
  BY <1>1, <1>4 DEF DriverRecord
<1>7. DriverOk(e) /\ Later(c, e) /\ e.finished = c.finished
  BY <1>3, <1>5, <1>6 DEF DriverOk, Later
<1> QED BY <1>7 DEF e

\* It finishes, in its sync or already.
LEMMA FinishEffect ==
  ASSUME NEW c, DriverOk(c), c.chain # <<>>
  PROVE  /\ DriverOk(Finish(c)) /\ Later(c, Finish(c))
         /\ DriverOk(Fail(c)) /\ Later(c, Fail(c))
<1>1. c \in DriverRecord
  BY DEF DriverOk
<1>2. ASSUME NEW s \in {"finish", "fail"}, NEW e, e = [c EXCEPT !.finished = TRUE, !.sync = s]
      PROVE  DriverOk(e) /\ Later(c, e)
  <2>1. e \in DriverRecord
    BY <1>1, <1>2 DEF DriverRecord
  <2>2. /\ e.chain = c.chain /\ e.sync = s /\ e.gen = c.gen /\ e.cycleGen = c.cycleGen
        /\ e.created = c.created /\ e.over = c.over /\ e.finished = TRUE
    BY <1>1, <1>2 DEF DriverRecord
  <2> QED BY <2>1, <2>2 DEF DriverOk, Later
<1>3. DriverOk(Finish(c)) /\ Later(c, Finish(c))
  BY <1>2, GoOnEffect DEF Finish
<1>4. DriverOk(Fail(c)) /\ Later(c, Fail(c))
  BY <1>2, GoOnEffect DEF Fail
<1> QED BY <1>3, <1>4

\* A reaction runs.
LEMMA ReactEffect ==
  ASSUME NEW c, DriverOk(c), c.chain # <<>>
  PROVE  DriverOk(React(c)) /\ Later(c, React(c))
<1>1. c \in DriverRecord /\ c.chain \in Seq(Reactions) /\ Head(c.chain) \in Reactions
  BY DEF DriverOk, DriverRecord
<1>2. CASE Head(c.chain) = "result"
  <2>1. CASE c.finished
    BY <1>2, <2>1, GoOnEffect DEF React
  <2>2. CASE ~c.finished
    <3> DEFINE e == React(c)
    <3>1. e = [c EXCEPT !.sync = "result"]
      BY <1>2, <2>2 DEF React
    <3> HIDE DEF e
    <3>2. e \in DriverRecord
      BY <1>1, <3>1 DEF DriverRecord
    <3>3. /\ e.chain = c.chain /\ e.sync = "result" /\ e.gen = c.gen
          /\ e.cycleGen = c.cycleGen /\ e.created = c.created /\ e.over = c.over
          /\ e.finished = c.finished
      BY <1>1, <3>1 DEF DriverRecord
    <3>4. DriverOk(e) /\ Later(c, e)
      BY <3>2, <3>3 DEF DriverOk, Later
    <3> QED BY <3>4 DEF e
  <2> QED BY <2>1, <2>2
<1>3. CASE Head(c.chain) = "settled"
  <2>1. React(c) = AgentSettled(c)
    BY <1>3 DEF React
  <2>2. CASE c.finished \/ c.closed \/ c.ending
    BY <2>1, <2>2, GoOnEffect, FinishEffect DEF AgentSettled
  <2>3. CASE ~c.finished /\ ~c.closed /\ ~c.ending
    <3> DEFINE e == [c EXCEPT !.state = "idle"]
    <3>1. AgentSettled(c) = GoOn(e)
      BY <2>3 DEF AgentSettled
    <3>2. e \in DriverRecord
      BY <1>1 DEF DriverRecord
    <3>3. /\ e.chain = c.chain /\ e.sync = c.sync /\ e.gen = c.gen
          /\ e.cycleGen = c.cycleGen /\ e.created = c.created /\ e.over = c.over
          /\ e.finished = c.finished
      BY <1>1 DEF DriverRecord
    <3> HIDE DEF e
    <3>4. DriverOk(e) /\ Later(c, e) /\ e.chain # <<>>
      BY <3>2, <3>3 DEF DriverOk, Later
    <3> QED BY <2>1, <3>1, <3>4, GoOnEffect, LaterTransitive
  <2> QED BY <2>1, <2>2, <2>3
<1>4. CASE Head(c.chain) = "finish"
  BY <1>4, FinishEffect DEF React
<1>5. CASE Head(c.chain) = "fail"
  BY <1>5, FinishEffect DEF React
<1> QED BY <1>1, <1>2, <1>3, <1>4, <1>5 DEF Reactions

\* e comes of c and leaves the chain and the end alone.
Beside(c, e) ==
  /\ e \in DriverRecord
  /\ e.chain = c.chain /\ e.sync = c.sync /\ e.created = c.created /\ e.over = c.over
  /\ e.finished = c.finished /\ c.gen <= e.gen /\ e.cycleGen \in {c.cycleGen, e.gen}

\* What leaves the chain and the end alone keeps the driver's invariant.
LEMMA SideEffect ==
  ASSUME NEW c, DriverOk(c), NEW e, Beside(c, e)
  PROVE  DriverOk(e) /\ Later(c, e)
<1>1. c.gen \in Nat /\ e.gen \in Nat /\ c.cycleGen \in Nat /\ c.cycleGen <= c.gen
  BY DEF DriverOk, DriverRecord, Beside
<1> QED BY <1>1 DEF DriverOk, Beside, Later

\* A decision, a denial or a withdrawal: nobody is asked any more.
LEMMA GateEffect ==
  ASSUME NEW c \in DriverRecord
  PROVE  /\ CancelGate(c) \in DriverRecord /\ Beside(c, CancelGate(c))
         /\ Unblock(c) \in DriverRecord /\ Beside(c, Unblock(c))
<1>1. c.gen <= c.gen
  BY DEF DriverRecord
<1>2. CancelGate(c) \in DriverRecord /\ Beside(c, CancelGate(c))
  BY <1>1 DEF CancelGate, Beside, DriverRecord
<1>3. Unblock(c) \in DriverRecord /\ Beside(c, Unblock(c))
  BY <1>1 DEF Unblock, Beside, DriverRecord
<1> QED BY <1>2, <1>3

\* A new generation, or a flag of the driver's.
LEMMA FlagEffects ==
  ASSUME NEW c \in DriverRecord
  PROVE  /\ Beside(c, [c EXCEPT !.gen = @ + 1])
         /\ Beside(c, [c EXCEPT !.closed = TRUE, !.gen = @ + 1])
         /\ Beside(c, [c EXCEPT !.closed = TRUE]) /\ Beside(c, [c EXCEPT !.ending = TRUE])
         /\ Beside(c, [c EXCEPT !.retiring = TRUE]) /\ Beside(c, [c EXCEPT !.state = "idle"])
         /\ Beside(c, [c EXCEPT !.state = "working"])
         /\ Beside(c, [c EXCEPT !.gate = TRUE, !.state = "blocked"])
         /\ Beside(c, [c EXCEPT !.cycleGen = c.gen])
<1>1. c.gen <= c.gen /\ c.gen <= c.gen + 1 /\ c.gen + 1 \in Nat /\ c.gen \in Nat
  BY DEF DriverRecord
<1> DEFINE n == c.gen + 1
<1>2. /\ Beside(c, [c EXCEPT !.gen = n])
      /\ Beside(c, [c EXCEPT !.closed = TRUE, !.gen = n])
  <2> HIDE DEF n
  <2>1. c.gen <= n /\ n \in Nat
    BY <1>1 DEF n
  <2> QED BY <2>1 DEF Beside, DriverRecord
<1>3. /\ Beside(c, [c EXCEPT !.closed = TRUE]) /\ Beside(c, [c EXCEPT !.ending = TRUE])
      /\ Beside(c, [c EXCEPT !.retiring = TRUE])
  BY <1>1 DEF Beside, DriverRecord
<1>4. /\ Beside(c, [c EXCEPT !.state = "idle"]) /\ Beside(c, [c EXCEPT !.state = "working"])
      /\ Beside(c, [c EXCEPT !.gate = TRUE, !.state = "blocked"])
  BY <1>1 DEF Beside, DriverRecord
<1>5. Beside(c, [c EXCEPT !.cycleGen = c.gen])
  BY <1>1 DEF Beside, DriverRecord
<1> QED BY <1>2, <1>3, <1>4, <1>5

-----------------------------------------------------------------------------
(* The session's invariant                                                   *)

Prompts ==
  [n : Nat, gen : Nat, left : 0..2, follow : BOOLEAN, at : {"called", "preflight"}]

SdkRecord ==
  [pre : SUBSET Prompts, phase : {"none", "running", "again", "between"}, queue : Seq(Nat),
   aborting : BOOLEAN, troubles : Nat]

LogRecord == [sent : Seq(Nat), ran : SUBSET Nat, forced : BOOLEAN]

\* Calls are a running cycle's; what is queued or aborted is behind a run.
SdkOk ==
  /\ sdk \in SdkRecord /\ log \in LogRecord
  /\ sdk.phase = "none" => sdk.queue = <<>> /\ ~sdk.aborting
  /\ sdk.phase # "running" => \A c \in Calls : calls[c].at = "none"

\* The driver and the bridge close together, and not before the server is set up; a
\* session that is not created does nothing; a retire that returned was waited for.
Together ==
  /\ br.closed = d.finished
  /\ d.over = "retired" => br.close \in {"gone", "late"}
  /\ d.created \/ d.finished => SetUp
  /\ ~d.created => d.sync = "none" /\ sdk.pre = {} /\ sdk.phase = "none"

IInv == BridgeSafe /\ DriverOk(d) /\ SdkOk /\ Together

\* A step that leaves the bridge alone, though a signal may reach its calls.
LEMMA BridgeAlone ==
  ASSUME IInv, UNCHANGED <<br, proc>>, calls' \in {calls, Signalled},
         DriverOk(d'), d'.finished = d.finished, d'.created = d.created,
         d'.over = d.over \/ d'.over # "retired" \/ br.close \in {"gone", "late"},
         sdk' \in SdkRecord, log' \in LogRecord,
         sdk'.phase = "none" => sdk'.queue = <<>> /\ ~sdk'.aborting,
         sdk'.phase # "running" => sdk.phase # "running" \/ \A c \in Calls : calls[c].at = "none",
         ~d.created => d'.sync = "none" /\ sdk'.pre = {} /\ sdk'.phase = "none"
  PROVE  IInv'
<1>1. Bridged /\ br \in BridgeRecord /\ BridgeSafe
  BY DEF IInv, BridgeSafe, Bridged
<1>2. /\ calls' \in [Calls -> CallRecord]
      /\ \A c \in Calls : /\ calls[c].at = "waits" => calls'[c].at = "waits"
                          /\ calls[c].at = "none" => calls'[c].at = "none"
  BY <1>1, SignalledEffect DEF Bridged
<1>3. br.entry # "ready" => \A c \in Calls : calls'[c].at = "none"
  BY <1>1, <1>2 DEF BridgeSafe, EntryOk
<1>4. BridgeSafe'
  BY <1>1, <1>2, <1>3, OnlyCallsSafe
<1>5. SdkOk'
  BY <1>2 DEF IInv, SdkOk
<1>6. Together'
  BY DEF IInv, Together, SetUp
<1> QED BY <1>4, <1>5, <1>6 DEF IInv

\* A step whose driver may finish, the bridge closing and the session's messages
\* disposed of with it.
LEMMA BridgeFollowsSafe ==
  ASSUME IInv, BridgeFollows, calls' \in {calls, Signalled}, SetUp,
         DriverOk(d'), d.finished => d'.finished, d'.created = d.created,
         d'.over \in {d.over, "error"},
         log' \in LogRecord, NEW t \in SdkRecord, sdk' = Disposed(t),
         t.phase = sdk.phase, t.queue = sdk.queue, t.pre = sdk.pre,
         t.aborting \in {sdk.aborting, Streaming},
         ~d.created => d'.sync = "none"
  PROVE  IInv'
<1>1. Bridged /\ br \in BridgeRecord /\ BridgeSafe /\ d'.finished \in BOOLEAN
      /\ d.finished \in BOOLEAN /\ br.closed = d.finished
  BY DEF IInv, BridgeSafe, Bridged, DriverOk, DriverRecord, Together
<1>2. /\ calls' \in [Calls -> CallRecord]
      /\ \A c \in Calls : /\ calls[c].at = "waits" => calls'[c].at = "waits"
                          /\ calls[c].at = "none" => calls'[c].at = "none"
  BY <1>1, SignalledEffect DEF Bridged
<1>3. br.entry # "ready" => \A c \in Calls : calls'[c].at = "none"
  BY <1>1, <1>2 DEF BridgeSafe, EntryOk
<1>4. BridgeSafe' /\ br'.closed = d'.finished /\ br'.entry = br.entry
      /\ (br.close \in {"gone", "late"} => br'.close = br.close)
  <2>1. CASE d'.finished /\ ~d.finished
    <3>1. CloseBridge
      BY <2>1 DEF BridgeFollows
    <3>2. BridgeSafe'
      BY <1>1, <1>2, <2>1, <3>1, CloseBridgeSafe
    <3>3. br'.closed = TRUE /\ br'.entry = br.entry
      BY <1>1, <3>1 DEF CloseBridge, BridgeRecord
    <3>4. br.close = "no"
      BY <1>1, <2>1 DEF Bridged
    <3> QED BY <2>1, <3>2, <3>3, <3>4
  <2>2. CASE ~(d'.finished /\ ~d.finished)
    <3>1. br' = br /\ proc' = proc
      BY <2>2 DEF BridgeFollows
    <3>2. BridgeSafe'
      BY <1>1, <1>2, <1>3, <3>1, OnlyCallsSafe
    <3> QED BY <1>1, <2>2, <3>1, <3>2
  <2> QED BY <2>1, <2>2
<1>5. /\ sdk' \in SdkRecord /\ sdk'.phase = sdk.phase /\ sdk'.aborting = t.aborting
      /\ sdk'.queue \in {sdk.queue, <<>>} /\ sdk'.pre \in {sdk.pre, {}}
  <2>1. CASE sdk' = t
    BY <2>1
  <2>2. CASE sdk' = [t EXCEPT !.pre = {}, !.queue = <<>>]
    <3>1. <<>> \in Seq(Nat) /\ {} \in SUBSET Prompts
      OBVIOUS
    <3> QED BY <2>2, <3>1 DEF SdkRecord
  <2> QED BY <2>1, <2>2 DEF Disposed
<1>6. SdkOk'
  BY <1>2, <1>5 DEF IInv, SdkOk, Streaming
<1>7. Together'
  BY <1>4, <1>5 DEF IInv, Together, SetUp
<1> QED BY <1>4, <1>6, <1>7 DEF IInv

-----------------------------------------------------------------------------
(* Every step of the driver and its session keeps it                         *)

\* What the invariant says of the driver's and the session's types.
LEMMA Types ==
  ASSUME IInv
  PROVE  /\ d \in DriverRecord /\ DriverOk(d) /\ sdk \in SdkRecord /\ log \in LogRecord
         /\ d.gen \in Nat /\ sdk.pre \subseteq Prompts /\ sdk.queue \in Seq(Nat)
         /\ log.sent \in Seq(Nat) /\ log.ran \subseteq Nat
         /\ (sdk.pre # {} \/ sdk.phase # "none" \/ d.sync # "none" => d.created /\ SetUp)
         /\ (d.created => SetUp)
  BY DEF IInv, DriverOk, DriverRecord, SdkOk, SdkRecord, LogRecord, Together

\* A reaction runs, and may finish the driver.
LEMMA ReactionRunsKeeps == ASSUME IInv, ReactionRuns PROVE IInv'
<1>1. d.sync = "due" /\ d' = React(d) /\ BridgeFollows /\ sdk' = Disposed(sdk)
      /\ log' = log /\ calls' = calls
  BY DEF ReactionRuns
<1>2. d.chain # <<>> /\ d.created /\ SetUp
  BY <1>1, Types DEF DriverOk
<1>3. DriverOk(d') /\ Later(d, d')
  BY <1>1, <1>2, Types, ReactEffect
<1> QED BY <1>1, <1>2, <1>3, Types, BridgeFollowsSafe DEF Later

\* The sync of a reaction returns, and its end with it.
LEMMA SyncReturnsKeeps == ASSUME IInv, SyncReturns PROVE IInv'
<1>1. /\ d.sync \in {"result", "finish", "fail"} /\ UNCHANGED <<br, proc, calls>>
      /\ sdk' = sdk /\ log' = log
  BY DEF SyncReturns, bridgeVars
<1>2. d.chain # <<>> /\ d.created /\ d \in DriverRecord
  BY <1>1, Types DEF DriverOk
<1>3. PICK e : d' = GoOn(e) /\ \/ e = d
                               \/ e = [d EXCEPT !.resolved = TRUE]
                               \/ e = [d EXCEPT !.over = "ended"]
                               \/ e = [d EXCEPT !.over = "error"]
  BY <1>1, <1>2 DEF SyncReturns, DriverRecord
<1>4. /\ e \in DriverRecord /\ e.chain = d.chain /\ e.sync = d.sync /\ e.gen = d.gen
      /\ e.cycleGen = d.cycleGen /\ e.created = d.created /\ e.finished = d.finished
      /\ e.over \in {d.over, "ended", "error"}
  BY <1>2, <1>3 DEF DriverRecord
<1>5. DriverOk(e) /\ e.chain # <<>>
  BY <1>2, <1>4, Types DEF DriverOk
<1>6. DriverOk(d') /\ d'.created = d.created /\ d'.finished = d.finished /\ d'.over = e.over
  BY <1>3, <1>4, <1>5, GoOnEffect DEF Later
<1>7. SdkOk
  BY DEF IInv
<1> QED BY <1>1, <1>2, <1>4, <1>6, <1>7, Types, BridgeAlone DEF SdkOk

\* The session is created, the server being set up.
LEMMA CreatedKeeps == ASSUME IInv, Created PROVE IInv'
<1>1. SetUp /\ d' = [d EXCEPT !.created = TRUE] /\ sdk' = sdk /\ log' = log
      /\ br' = br /\ proc' = proc /\ calls' = calls
  BY DEF Created, bridgeVars
<1>2. /\ d' \in DriverRecord /\ d'.chain = d.chain /\ d'.sync = d.sync /\ d'.gen = d.gen
      /\ d'.cycleGen = d.cycleGen /\ d'.created = TRUE /\ d'.finished = d.finished
      /\ d'.over = d.over
  BY <1>1, Types DEF DriverRecord
<1>3. DriverOk(d')
  BY <1>2, Types DEF DriverOk
<1>4. BridgeSafe'
  BY <1>1 DEF IInv, BridgeSafe, Bridged, MadeOk, UpOk, EntryOk, CloseOk, SetUp
<1>5. SdkOk' /\ Together'
  BY <1>1, <1>2 DEF IInv, SdkOk, Together, SetUp
<1> QED BY <1>3, <1>4, <1>5 DEF IInv

\* It is not: the bridge closes with the driver.
LEMMA CreateFailsKeeps == ASSUME IInv, CreateFails PROVE IInv'
<1> DEFINE n == sdk.troubles + 1
           t == sdk
<1>1. SetUp /\ ~d.created /\ d' = [d EXCEPT !.finished = TRUE, !.over = "error"]
      /\ BridgeFollows /\ sdk' = [sdk EXCEPT !.troubles = n] /\ log' = log /\ calls' = calls
  BY DEF CreateFails
<1>2. n \in Nat /\ d.sync = "none" /\ sdk.pre = {} /\ sdk.phase = "none" /\ sdk.queue = <<>>
      /\ ~sdk.aborting
  BY <1>1 DEF IInv, SdkOk, SdkRecord, Together
<1> HIDE DEF n
<1>3. /\ d' \in DriverRecord /\ d'.chain = d.chain /\ d'.sync = d.sync /\ d'.gen = d.gen
      /\ d'.cycleGen = d.cycleGen /\ d'.created = d.created /\ d'.finished = TRUE
      /\ d'.over = "error"
  BY <1>1, Types DEF DriverRecord
<1>4. DriverOk(d')
  BY <1>3, Types DEF DriverOk
<1>5. /\ sdk' \in SdkRecord /\ sdk'.phase = sdk.phase /\ sdk'.queue = sdk.queue
      /\ sdk'.pre = sdk.pre /\ sdk'.aborting = sdk.aborting
  BY <1>1, <1>2, Types DEF SdkRecord
<1>6. sdk' = Disposed(sdk')
  <2>1. [sdk' EXCEPT !.pre = {}, !.queue = <<>>] = sdk'
    BY <1>2, <1>5 DEF SdkRecord
  <2> QED BY <2>1 DEF Disposed
<1> QED BY <1>1, <1>2, <1>3, <1>4, <1>5, <1>6, Types, BridgeFollowsSafe

\* A message goes into the SDK's preflight.
LEMMA MessageKeeps == ASSUME IInv, Message PROVE IInv'
<1> DEFINE p == Prompt(Len(log.sent) + 1, d.gen, 2, Streaming)
           c == [d EXCEPT !.state = "working"]
<1>1. d.created /\ d' = c /\ UNCHANGED <<br, proc, calls>>
      /\ log' = [log EXCEPT !.sent = Append(@, d.gen)]
      /\ sdk' = [sdk EXCEPT !.pre = @ \union {p}]
  BY DEF Message, NotDue, bridgeVars
<1>2. p \in Prompts
  BY Types DEF Prompts, Prompt, Streaming
<1> HIDE DEF p
<1>3. DriverOk(c) /\ Beside(d, c)
  BY Types, FlagEffects, SideEffect
<1> HIDE DEF c
<1>4. log' \in LogRecord
  <2> DEFINE q == Append(log.sent, d.gen)
  <2>1. q \in Seq(Nat)
    BY Types
  <2>2. log' = [log EXCEPT !.sent = q]
    BY <1>1
  <2> HIDE DEF q
  <2> QED BY <2>1, <2>2, Types DEF LogRecord
<1>5. /\ sdk' \in SdkRecord /\ sdk'.phase = sdk.phase /\ sdk'.queue = sdk.queue
      /\ sdk'.aborting = sdk.aborting
  BY <1>1, <1>2, Types DEF SdkRecord
<1>6. SdkOk
  BY DEF IInv
<1> QED BY <1>1, <1>3, <1>4, <1>5, <1>6, BridgeAlone DEF SdkOk, Beside

\* A prompt that is turned away is asked again, or fails the session, or is gone.
LEMMA TurnedAwayEffect ==
  ASSUME IInv, NEW p \in sdk.pre, TurnedAway(p)
  PROVE  /\ sdk' \in SdkRecord /\ sdk'.phase = sdk.phase /\ sdk'.queue = sdk.queue
         /\ sdk'.aborting = sdk.aborting
         /\ DriverOk(d') /\ Later(d, d') /\ d'.finished = d.finished /\ log' = log
<1> DEFINE S == (sdk.pre \ {p}) \union Retried(p)
<1>1. p \in Prompts /\ p.n \in Nat /\ p.gen \in Nat /\ p.left \in 0..2
  BY Types DEF Prompts
<1>2. Retried(p) \subseteq Prompts
  <2>1. p.left # 0 => p.left - 1 \in 0..2
    BY <1>1
  <2>2. (p.left = 2 \/ Streaming) \in BOOLEAN
    OBVIOUS
  <2>3. ASSUME p.left # 0
        PROVE  Prompt(p.n, p.gen, p.left - 1, p.left = 2 \/ Streaming) \in Prompts
    <3> DEFINE k == p.left - 1
               b == p.left = 2 \/ Streaming
    <3>1. k \in 0..2 /\ b \in BOOLEAN
      BY <2>1, <2>2, <2>3
    <3> HIDE DEF k, b
    <3>2. Prompt(p.n, p.gen, k, b) \in Prompts
      BY <1>1, <3>1 DEF Prompt, Prompts
    <3> QED BY <3>2 DEF k, b
  <2> HIDE DEF Prompts
  <2> QED BY <2>3 DEF Retried
<1>3. S \subseteq Prompts /\ sdk' = [sdk EXCEPT !.pre = S]
  BY <1>2, Types DEF TurnedAway
<1> HIDE DEF S
<1>4. /\ sdk' \in SdkRecord /\ sdk'.phase = sdk.phase /\ sdk'.queue = sdk.queue
      /\ sdk'.aborting = sdk.aborting
  BY <1>3, Types DEF SdkRecord
<1>5. DriverOk(d') /\ Later(d, d') /\ d'.finished = d.finished
  BY Types, ChainEffect DEF TurnedAway, Later, Reactions
<1>6. log' = log
  BY DEF TurnedAway
<1> QED BY <1>4, <1>5, <1>6

\* A step of the session's by itself: it starts no cycle and ends none.
LEMMA SessionKeeps ==
  ASSUME IInv, UNCHANGED <<br, proc, calls>>, d.created, DriverOk(d'), Later(d, d'),
         d'.finished = d.finished, sdk' \in SdkRecord, log' \in LogRecord,
         sdk'.phase = sdk.phase, sdk'.queue \in {sdk.queue} \/ Streaming,
         sdk'.aborting = sdk.aborting
  PROVE  IInv'
<1>1. SdkOk /\ (sdk.phase = "none" => ~Streaming)
  BY DEF IInv, Streaming
<1> QED BY <1>1, BridgeAlone DEF SdkOk, Later

\* A prompt looks at the session, which queues it, lets it pass or turns it away.
LEMMA PromptLooksKeeps == ASSUME IInv, NEW p \in sdk.pre, PromptLooks(p) PROVE IInv'
<1>1. p \in Prompts /\ d.created /\ UNCHANGED <<br, proc, calls>>
  BY Types DEF PromptLooks, bridgeVars
<1>2. CASE /\ Streaming /\ UNCHANGED <<d, log>>
           /\ sdk' = [sdk EXCEPT !.pre = @ \ {p}, !.queue = Append(@, p.n)]
  <2> DEFINE q == Append(sdk.queue, p.n)
             S == sdk.pre \ {p}
  <2>1. q \in Seq(Nat) /\ S \subseteq Prompts /\ sdk' = [sdk EXCEPT !.pre = S, !.queue = q]
    BY <1>1, <1>2, Types DEF Prompts
  <2> HIDE DEF q, S
  <2>2. sdk' \in SdkRecord /\ sdk'.phase = sdk.phase /\ sdk'.aborting = sdk.aborting
    BY <2>1, Types DEF SdkRecord
  <2> QED BY <1>1, <1>2, <2>2, Types, SessionKeeps DEF Later
<1>3. CASE /\ UNCHANGED <<d, log>>
           /\ sdk' = [sdk EXCEPT !.pre = (@ \ {p}) \union {[p EXCEPT !.at = "preflight"]}]
  <2> DEFINE S == (sdk.pre \ {p}) \union {[p EXCEPT !.at = "preflight"]}
  <2>1. [p EXCEPT !.at = "preflight"] \in Prompts
    BY <1>1 DEF Prompts
  <2>2. S \subseteq Prompts /\ sdk' = [sdk EXCEPT !.pre = S]
    BY <1>3, <2>1, Types
  <2> HIDE DEF S
  <2>3. /\ sdk' \in SdkRecord /\ sdk'.phase = sdk.phase /\ sdk'.aborting = sdk.aborting
        /\ sdk'.queue = sdk.queue
    BY <2>2, Types DEF SdkRecord
  <2> QED BY <1>1, <1>3, <2>3, Types, SessionKeeps DEF Later
<1>4. CASE TurnedAway(p)
  BY <1>1, <1>4, TurnedAwayEffect, Types, SessionKeeps
<1> QED BY <1>2, <1>3, <1>4 DEF PromptLooks

\* A prompt past its preflight begins a cycle, or is turned away.
LEMMA PromptLandsKeeps == ASSUME IInv, NEW p \in sdk.pre, PromptLands(p) PROVE IInv'
<1>1. p \in Prompts /\ d.created /\ UNCHANGED <<br, proc, calls>>
  BY Types DEF PromptLands, bridgeVars
<1>2. ASSUME sdk' = Cycle([sdk EXCEPT !.pre = @ \ {p}]), d' = [d EXCEPT !.cycleGen = d.gen],
             log' = [log EXCEPT !.ran = @ \union {p.n}]
      PROVE  IInv'
  <2> DEFINE S == sdk.pre \ {p}
             R == log.ran \union {p.n}
             s == [sdk EXCEPT !.pre = S]
  <2>1. S \subseteq Prompts /\ R \subseteq Nat /\ sdk' = Cycle(s)
        /\ log' = [log EXCEPT !.ran = R]
    BY <1>1, <1>2, Types DEF Prompts
  <2> HIDE DEF S, R
  <2>2. s \in SdkRecord
    BY <2>1, Types DEF SdkRecord
  <2> HIDE DEF s
  <2>3. sdk' \in SdkRecord /\ sdk'.phase = "running"
    BY <2>1, <2>2 DEF Cycle, SdkRecord
  <2>4. log' \in LogRecord
    BY <2>1, Types DEF LogRecord
  <2> DEFINE c == [d EXCEPT !.cycleGen = d.gen]
  <2>5. DriverOk(c) /\ Beside(d, c)
    BY Types, FlagEffects, SideEffect
  <2> HIDE DEF c
  <2>6. d' = c
    BY <1>2 DEF c
  <2> QED BY <1>1, <2>3, <2>4, <2>5, <2>6, BridgeAlone DEF Beside
<1>3. CASE TurnedAway(p)
  BY <1>1, <1>3, TurnedAwayEffect, Types, SessionKeeps
<1> QED BY <1>2, <1>3 DEF PromptLands

\* A prompt is refused.
LEMMA PromptFailsKeeps == ASSUME IInv, NEW p \in sdk.pre, PromptFails(p) PROVE IInv'
<1> DEFINE S == sdk.pre \ {p}
           n == sdk.troubles + 1
<1>1. /\ d.created /\ UNCHANGED <<br, proc, calls>> /\ log' = log
      /\ sdk' = [sdk EXCEPT !.pre = S, !.troubles = n]
      /\ d' = IF d.gen # p.gen THEN d ELSE Chain(d, "fail")
  BY Types DEF PromptFails, bridgeVars
<1>2. S \subseteq Prompts /\ n \in Nat
  BY Types DEF SdkRecord
<1> HIDE DEF S, n
<1>3. /\ sdk' \in SdkRecord /\ sdk'.phase = sdk.phase /\ sdk'.aborting = sdk.aborting
      /\ sdk'.queue = sdk.queue
  BY <1>1, <1>2, Types DEF SdkRecord
<1>4. DriverOk(d') /\ Later(d, d') /\ d'.finished = d.finished
  BY <1>1, Types, ChainEffect DEF Later, Reactions
<1> QED BY <1>1, <1>3, <1>4, Types, SessionKeeps

\* A tool waits for a person.
LEMMA AsksKeeps == ASSUME IInv, Asks PROVE IInv'
<1> DEFINE n == sdk.troubles + 1
           c == [d EXCEPT !.gate = TRUE, !.state = "blocked"]
<1>1. /\ d.created /\ UNCHANGED <<br, proc, calls>> /\ log' = log
      /\ sdk' = [sdk EXCEPT !.troubles = n] /\ d' = c
  BY DEF Asks, NotDue, bridgeVars
<1>2. n \in Nat
  BY Types DEF SdkRecord
<1>3. DriverOk(c) /\ Later(d, c) /\ c.finished = d.finished
  BY Types, FlagEffects, SideEffect DEF Beside
<1> HIDE DEF n, c
<1>4. /\ sdk' \in SdkRecord /\ sdk'.phase = sdk.phase /\ sdk'.aborting = sdk.aborting
      /\ sdk'.queue = sdk.queue
  BY <1>1, <1>2, Types DEF SdkRecord
<1> QED BY <1>1, <1>3, <1>4, Types, SessionKeeps

\* A running cycle makes a call.
LEMMA CallingKeeps == ASSUME IInv, NEW c \in Calls, Calling(c) PROVE IInv'
<1>1. CallStarts(c) /\ d' = d /\ sdk' = sdk /\ log' = log /\ sdk.phase = "running"
  BY DEF Calling
<1>2. BridgeSafe'
  BY <1>1, CallStartsSafe DEF IInv
<1>3. /\ br \in BridgeRecord /\ br' = [br EXCEPT !.starts = @ + 1]
  BY <1>1 DEF CallStarts, IInv, BridgeSafe, Bridged
<1>4. br'.closed = br.closed /\ br'.entry = br.entry /\ br'.close = br.close
  BY <1>3 DEF BridgeRecord
<1>5. SdkOk' /\ Together' /\ DriverOk(d')
  BY <1>1, <1>4 DEF IInv, SdkOk, Together, SetUp
<1> QED BY <1>2, <1>5 DEF IInv

\* A cycle ends, its calls all answered.
LEMMA CycleEndsKeeps == ASSUME IInv, CycleEnds PROVE IInv'
<1>1. /\ d.created /\ UNCHANGED <<br, proc, calls>> /\ log' = log /\ sdk.phase = "running"
      /\ \A c \in Calls : calls[c].at = "none"
  BY DEF CycleEnds, NotDue, bridgeVars
<1>2. sdk' \in SdkRecord /\ sdk'.phase # "none"
  <2> DEFINE n == sdk.troubles + 1
  <2>1. n \in Nat
    BY Types DEF SdkRecord
  <2>2. \/ sdk' = [sdk EXCEPT !.phase = "again", !.troubles = n]
        \/ sdk' = [sdk EXCEPT !.phase = "between"]
    BY DEF CycleEnds
  <2> HIDE DEF n
  <2>3. CASE sdk' = [sdk EXCEPT !.phase = "again", !.troubles = n]
    BY <2>1, <2>3, Types DEF SdkRecord
  <2>4. CASE sdk' = [sdk EXCEPT !.phase = "between"]
    BY <2>4, Types DEF SdkRecord
  <2> QED BY <2>2, <2>3, <2>4
<1>3. DriverOk(d') /\ Later(d, d') /\ d'.finished = d.finished
  BY Types, ChainEffect DEF CycleEnds, Later, Reactions
<1> QED BY <1>1, <1>2, <1>3, Types, BridgeAlone DEF Later

\* An abort returns, at the latest with the run.
LEMMA AbortsReturnEffect ==
  ASSUME NEW c, DriverOk(c), AbortsReturn(c)
  PROVE  DriverOk(d') /\ Later(c, d') /\ d'.finished = c.finished
  BY ChainEffect DEF AbortsReturn, Later, Reactions

\* The next cycle starts.
LEMMA CycleStartsKeeps == ASSUME IInv, CycleStarts PROVE IInv'
<1> DEFINE c == IF d.finished THEN d ELSE [d EXCEPT !.cycleGen = d.gen]
<1>1. AbortsReturn(c) /\ UNCHANGED <<br, proc, calls>> /\ sdk.phase # "none"
  BY DEF CycleStarts, bridgeVars, Rests
<1>2. DriverOk(c) /\ Later(d, c) /\ c.finished = d.finished
  <2> DEFINE e == [d EXCEPT !.cycleGen = d.gen]
  <2>1. DriverOk(e) /\ Later(d, e) /\ e.finished = d.finished
    BY Types, FlagEffects, SideEffect DEF Beside
  <2> HIDE DEF e
  <2>2. c = d \/ c = e
    BY DEF e
  <2> HIDE DEF c
  <2> QED BY <2>1, <2>2, Types DEF Later
<1> HIDE DEF c
<1>3. DriverOk(d') /\ Later(d, d') /\ d'.finished = d.finished
  BY <1>1, <1>2, AbortsReturnEffect, LaterTransitive
<1>4. sdk' \in SdkRecord /\ sdk'.phase = "running" /\ log' \in LogRecord
  <2>1. CASE sdk' = Cycle(sdk) /\ log' = log
    BY <2>1, Types DEF Cycle, SdkRecord
  <2>2. CASE /\ sdk.queue # <<>>
             /\ sdk' = Cycle([sdk EXCEPT !.queue = Tail(@), !.aborting = FALSE])
             /\ log' = [log EXCEPT !.ran = @ \union {Head(sdk.queue)}]
    <3> DEFINE q == Tail(sdk.queue)
               R == log.ran \union {Head(sdk.queue)}
               s == [sdk EXCEPT !.queue = q, !.aborting = FALSE]
    <3>1. q \in Seq(Nat) /\ R \subseteq Nat
      BY <2>2, Types
    <3>2. sdk' = Cycle(s) /\ log' = [log EXCEPT !.ran = R]
      BY <2>2
    <3> HIDE DEF q, R
    <3>3. s \in SdkRecord
      BY <3>1, Types DEF SdkRecord
    <3> HIDE DEF s
    <3>4. log' \in LogRecord
      BY <3>1, <3>2, Types DEF LogRecord
    <3>5. sdk' \in SdkRecord /\ sdk'.phase = "running"
      BY <3>2, <3>3 DEF Cycle, SdkRecord
    <3> QED BY <3>4, <3>5
  <2> QED BY <2>1, <2>2 DEF CycleStarts
<1> QED BY <1>1, <1>3, <1>4, Types, BridgeAlone DEF Later

\* The session settles, with no call left.
LEMMA SettledKeeps == ASSUME IInv, Settled PROVE IInv'
<1> DEFINE c == IF d.finished THEN d ELSE Chain(d, "settled")
<1>1. /\ AbortsReturn(c) /\ UNCHANGED <<br, proc, calls>> /\ log' = log
      /\ sdk.phase \in {"between", "again"} /\ sdk.queue = <<>>
      /\ sdk' = [sdk EXCEPT !.phase = "none", !.aborting = FALSE]
  BY DEF Settled, bridgeVars, Rests
<1>2. DriverOk(c) /\ Later(d, c) /\ c.finished = d.finished
  BY Types, ChainEffect DEF Later, Reactions
<1> HIDE DEF c
<1>3. DriverOk(d') /\ Later(d, d') /\ d'.finished = d.finished
  BY <1>1, <1>2, AbortsReturnEffect, LaterTransitive
<1>4. sdk' \in SdkRecord /\ sdk'.phase = "none" /\ sdk'.queue = <<>> /\ ~sdk'.aborting
  BY <1>1, Types DEF SdkRecord
<1>5. d.created /\ sdk.phase # "running"
  BY <1>1, Types
<1> QED BY <1>1, <1>3, <1>4, <1>5, Types, BridgeAlone DEF Later

\* A person decides.
LEMMA DecideKeeps == ASSUME IInv, Decide PROVE IInv'
<1> DEFINE c == CancelGate(d)
           e == Unblock(c)
<1>1. d.created /\ UNCHANGED <<br, proc, calls>> /\ log' = log /\ sdk' = sdk /\ d' = e
  BY DEF Decide, NotDue, bridgeVars
<1>2. DriverOk(c) /\ Later(d, c) /\ c.finished = d.finished
  BY Types, GateEffect, SideEffect DEF Beside
<1> HIDE DEF c
<1>3. DriverOk(e) /\ Later(c, e) /\ e.finished = c.finished
  BY <1>2, GateEffect, SideEffect DEF Beside, DriverOk
<1> HIDE DEF e
<1> QED BY <1>1, <1>2, <1>3, Types, SessionKeeps, LaterTransitive

\* What an abort of the session's changes: it aborts only a run.
LEMMA AbortEffect ==
  ASSUME IInv, Abort
  PROVE  /\ calls' \in {calls, Signalled} /\ sdk' \in SdkRecord /\ sdk'.phase = sdk.phase
         /\ sdk'.pre = sdk.pre
         /\ sdk'.phase = "none" => sdk'.queue = <<>> /\ ~sdk'.aborting
<1> DEFINE b == Streaming
<1>1. b \in BOOLEAN /\ (b <=> sdk.phase # "none") /\ SdkOk /\ <<>> \in Seq(Nat)
  BY DEF Streaming, IInv
<1>2. calls' \in {calls, Signalled}
  BY DEF Abort
<1>3. \/ sdk' = [sdk EXCEPT !.aborting = b]
      \/ sdk.queue # <<>> /\ sdk' = [sdk EXCEPT !.aborting = b, !.queue = <<>>]
  BY DEF Abort
<1> HIDE DEF b
<1>4. CASE sdk' = [sdk EXCEPT !.aborting = b]
  BY <1>1, <1>2, <1>4, Types DEF SdkRecord, SdkOk
<1>5. CASE sdk' = [sdk EXCEPT !.aborting = b, !.queue = <<>>]
  BY <1>1, <1>2, <1>5, Types DEF SdkRecord, SdkOk
<1> QED BY <1>3, <1>4, <1>5

\* A request that aborts the run leaves the rest of the session to it.
LEMMA AbortKeeps ==
  ASSUME IInv, Abort, UNCHANGED <<br, proc, log>>, d.created, DriverOk(d'), Later(d, d'),
         d'.finished = d.finished
  PROVE  IInv'
<1>1. sdk'.phase # "running" => \A c \in Calls : calls[c].at = "none"
  BY AbortEffect DEF IInv, SdkOk
<1> QED BY <1>1, AbortEffect, Types, BridgeAlone DEF Later

\* An interrupt aborts what runs.
LEMMA InterruptKeeps ==
  ASSUME IInv, NEW i \in DOMAIN stops, Interrupt(i) PROVE IInv'
<1> DEFINE c == [d EXCEPT !.gen = @ + 1]
           e == CancelGate(c)
<1>1. d.created /\ UNCHANGED <<br, proc, log>> /\ Abort /\ d' = e
  BY DEF Interrupt, NotDue
<1>2. DriverOk(c) /\ Later(d, c) /\ c.finished = d.finished
  BY Types, FlagEffects, SideEffect DEF Beside
<1> HIDE DEF c
<1>3. DriverOk(e) /\ Later(c, e) /\ e.finished = c.finished
  BY <1>2, GateEffect, SideEffect DEF Beside, DriverOk
<1> HIDE DEF e
<1> QED BY <1>1, <1>2, <1>3, AbortKeeps, LaterTransitive

\* An interrupt's sync returns.
LEMMA StopSyncedKeeps ==
  ASSUME IInv, NEW i \in DOMAIN stops, StopSynced(i) PROVE IInv'
<1> DEFINE e == [d EXCEPT !.state = "idle"]
<1>1. d.created /\ UNCHANGED <<br, proc, calls>> /\ log' = log /\ sdk' = sdk
      /\ (d' = d \/ d' = e)
  BY DEF StopSynced, NotDue, bridgeVars
<1>2. DriverOk(e) /\ Later(d, e) /\ e.finished = d.finished
  BY Types, FlagEffects, SideEffect DEF Beside
<1> HIDE DEF e
<1>3. Later(d, d)
  BY DEF Later
<1> QED BY <1>1, <1>2, <1>3, Types, SessionKeeps

\* A shutdown aborts what runs.
LEMMA ShutdownKeeps == ASSUME IInv, Shutdown PROVE IInv'
<1> DEFINE c == [d EXCEPT !.closed = TRUE, !.gen = @ + 1]
           e == CancelGate(c)
<1>1. d.created /\ UNCHANGED <<br, proc, log>> /\ Abort /\ (d' = e \/ d' = Chain(e, "finish"))
  BY DEF Shutdown, NotDue
<1>2. DriverOk(c) /\ Later(d, c) /\ c.finished = d.finished
  BY Types, FlagEffects, SideEffect DEF Beside
<1> HIDE DEF c
<1>3. DriverOk(e) /\ Later(c, e) /\ e.finished = c.finished
  BY <1>2, GateEffect, SideEffect DEF Beside, DriverOk
<1> HIDE DEF e
<1>4. Later(d, e)
  BY <1>2, <1>3, LaterTransitive
<1>5. DriverOk(d') /\ Later(d, d') /\ d'.finished = d.finished
  BY <1>1, <1>2, <1>3, <1>4, ChainEffect, LaterTransitive DEF Reactions
<1> QED BY <1>1, <1>5, AbortKeeps

\* Its end is asked for.
LEMMA BeginEndEffect ==
  ASSUME NEW c, DriverOk(c)
  PROVE  /\ DriverOk(BeginEnd(c)) /\ Later(c, BeginEnd(c))
         /\ BeginEnd(c).finished = c.finished
<1> DEFINE e == [c EXCEPT !.closed = TRUE]
<1>1. DriverOk(e) /\ Later(c, e) /\ e.finished = c.finished
  BY FlagEffects, SideEffect DEF Beside, DriverOk
<1>2. BeginEnd(c) = e \/ BeginEnd(c) = Chain(e, "finish")
  BY DEF BeginEnd
<1> HIDE DEF e
<1> QED BY <1>1, <1>2, ChainEffect, LaterTransitive DEF Reactions

\* The end is asked for.
LEMMA EndKeeps == ASSUME IInv, End PROVE IInv'
<1> DEFINE c == [d EXCEPT !.ending = TRUE]
           e == CancelGate(c)
<1>1. d.created /\ UNCHANGED <<br, proc, calls>> /\ log' = log /\ sdk' = sdk
      /\ d' = BeginEnd(e)
  BY DEF End, NotDue, bridgeVars
<1>2. DriverOk(c) /\ Later(d, c) /\ c.finished = d.finished
  BY Types, FlagEffects, SideEffect DEF Beside
<1> HIDE DEF c
<1>3. DriverOk(e) /\ Later(c, e) /\ e.finished = c.finished
  BY <1>2, GateEffect, SideEffect DEF Beside, DriverOk
<1> HIDE DEF e
<1>4. DriverOk(d') /\ Later(d, d') /\ d'.finished = d.finished
  BY <1>1, <1>2, <1>3, BeginEndEffect, LaterTransitive
<1> QED BY <1>1, <1>4, Types, SessionKeeps

\* A set-up change retires the session.
LEMMA RetireKeeps == ASSUME IInv, Retire PROVE IInv'
<1> DEFINE c == [d EXCEPT !.retiring = TRUE]
<1>1. d.created /\ UNCHANGED <<br, proc, calls>> /\ log' = log /\ sdk' = sdk
      /\ d' = BeginEnd(c)
  BY DEF Retire, NotDue, bridgeVars
<1>2. DriverOk(c) /\ Later(d, c) /\ c.finished = d.finished
  BY Types, FlagEffects, SideEffect DEF Beside
<1> HIDE DEF c
<1>3. DriverOk(d') /\ Later(d, d') /\ d'.finished = d.finished
  BY <1>1, <1>2, BeginEndEffect, LaterTransitive
<1> QED BY <1>1, <1>3, Types, SessionKeeps

\* The retire returns only behind the bridged servers, or when they are too late.
LEMMA RetireReturnsKeeps == ASSUME IInv, RetireReturns PROVE IInv'
<1>1. /\ d.created /\ UNCHANGED <<br, proc, calls>> /\ log' = log /\ sdk' = sdk
      /\ d' = [d EXCEPT !.over = "retired"] /\ br.close \in {"gone", "late"}
  BY DEF RetireReturns, NotDue, RetireMayReturn, bridgeVars
<1>2. /\ d' \in DriverRecord /\ d'.chain = d.chain /\ d'.sync = d.sync /\ d'.gen = d.gen
      /\ d'.cycleGen = d.cycleGen /\ d'.created = d.created /\ d'.finished = d.finished
  BY <1>1, Types DEF DriverRecord
<1>3. DriverOk(d')
  BY <1>2, Types DEF DriverOk
<1>4. SdkOk
  BY DEF IInv
<1> QED BY <1>1, <1>2, <1>3, <1>4, Types, BridgeAlone DEF SdkOk

\* The grace passes: the driver finishes at once.
LEMMA ForceStopKeeps == ASSUME IInv, ForceStop PROVE IInv'
<1> DEFINE n == d.gen + 1
           b == Streaming
<1>1. /\ d.created /\ BridgeFollows /\ log' = [log EXCEPT !.forced = TRUE]
      /\ d' = [d EXCEPT !.gen = n, !.finished = TRUE, !.resolved = TRUE]
      /\ \/ d.finished /\ sdk' = sdk /\ calls' = calls
         \/ sdk' = Disposed([sdk EXCEPT !.aborting = b]) /\ calls' = Signalled
  BY DEF ForceStop, NotDue
<1>2. n \in Nat /\ d.gen <= n /\ b \in BOOLEAN
  BY Types DEF Streaming
<1> HIDE DEF n
<1>3. /\ d' \in DriverRecord /\ d'.chain = d.chain /\ d'.sync = d.sync /\ d'.gen = n
      /\ d'.cycleGen = d.cycleGen /\ d'.created = d.created /\ d'.finished = TRUE
      /\ d'.over = d.over
  BY <1>1, <1>2, Types DEF DriverRecord
<1>4. DriverOk(d')
  <2>1. d.cycleGen \in Nat /\ d.gen \in Nat /\ d.cycleGen <= d.gen
    BY Types DEF DriverOk, DriverRecord
  <2> QED BY <1>2, <1>3, <2>1, Types DEF DriverOk
<1>5. log' \in LogRecord
  BY <1>1, Types DEF LogRecord
<1> DEFINE t == [sdk EXCEPT !.aborting = b]
<1>6. t \in SdkRecord /\ t.phase = sdk.phase /\ t.queue = sdk.queue /\ t.pre = sdk.pre
      /\ t.aborting = Streaming
  BY <1>2, Types DEF SdkRecord
<1> HIDE DEF b
<1>7. CASE d.finished /\ sdk' = sdk /\ calls' = calls
  <2>1. sdk' = Disposed(sdk)
    BY <1>7 DEF Disposed
  <2> QED BY <1>1, <1>3, <1>4, <1>5, <1>7, <2>1, Types, BridgeFollowsSafe
<1>8. CASE sdk' = Disposed(t) /\ calls' = Signalled
  <2> HIDE DEF t
  <2> QED BY <1>1, <1>3, <1>4, <1>5, <1>6, <1>8, Types, BridgeFollowsSafe
<1> QED BY <1>1, <1>7, <1>8

\* What the bridge's own steps leave as it is: it neither opens nor closes, and makes
\* no calls of its own.
LEMMA BridgeMoves ==
  ASSUME BridgeSafe, BridgeNext \/ BridgeFails
  PROVE  /\ br'.closed = br.closed /\ (SetUp => SetUp')
         /\ br.close \in {"gone", "late"} => br'.close = br.close
         /\ \A c \in Calls : calls[c].at = "none" => calls'[c].at = "none"
<1>1. Bridged /\ br \in BridgeRecord
  BY DEF BridgeSafe, Bridged
<1>2. /\ br'.closed = br.closed /\ (SetUp => SetUp')
      /\ br.close \in {"gone", "late"} => br'.close = br.close
  <2>1. ASSUME NEW c \in Calls, Answered(c) \/ Lost(c) \/ Misread(c)
        PROVE  br'.closed = br.closed /\ br'.entry = br.entry /\ br'.close = br.close
    BY <1>1, <2>1 DEF Answered, Lost, Reconnects, Misread, BridgeRecord
  <2>2. ASSUME NEW k \in Clients, Reconnected(k) \/ Gone(k) \/ Dies(k)
        PROVE  br'.closed = br.closed /\ br'.entry = br.entry /\ br'.close = br.close
    BY <1>1, <2>2 DEF Reconnected, Takes, Gone, Dies, BridgeRecord
  <2>3. ASSUME NEW k \in Clients, ReconnectFails(k)
        PROVE  /\ br'.closed = br.closed /\ br'.close = br.close
               /\ br'.entry = br.entry \/ br'.entry = "skipped"
    BY <1>1, <2>3 DEF ReconnectFails, BridgeRecord
  <2>4. CASE FirstConnected
    BY <1>1, <2>4 DEF FirstConnected, BridgeRecord, SetUp
  <2>5. CASE Listed \/ SetupFails
    BY <1>1, <2>5 DEF Listed, SetupFails, BridgeRecord, SetUp
  <2>6. CASE CloseResolves \/ CloseGivesUp
    BY <1>1, <2>6 DEF CloseResolves, CloseGivesUp, BridgeRecord, SetUp
  <2> QED BY <2>1, <2>2, <2>3, <2>4, <2>5, <2>6 DEF BridgeNext, BridgeFails, SetUp
<1>3. \A c \in Calls : calls[c].at = "none" => calls'[c].at = "none"
  <2>1. ASSUME NEW c \in Calls, Answered(c) \/ Lost(c) \/ Misread(c),
               NEW b \in Calls, calls[b].at = "none"
        PROVE  calls'[b] = calls[b]
    <3>1. b # c /\ \E v : calls' = [calls EXCEPT ![c] = v]
      BY <2>1 DEF Answered, Lost, Misread
    <3> QED BY <1>1, <3>1 DEF Bridged
  <2>2. ASSUME NEW k \in Clients, Reconnected(k) \/ ReconnectFails(k),
               NEW b \in Calls, calls[b].at = "none"
        PROVE  calls'[b] = calls[b]
    BY <2>2 DEF Reconnected, ReconnectFails
  <2>3. ASSUME NEW k \in Clients, Gone(k) \/ Dies(k),
               NEW b \in Calls, calls[b].at = "none"
        PROVE  calls'[b].at = "none"
    BY <1>1, <2>3, RejectedEffect DEF Gone, Dies
  <2>4. CASE \/ FirstConnected \/ Listed \/ CloseResolves \/ SetupFails \/ CloseGivesUp
    BY <2>4 DEF FirstConnected, Listed, CloseResolves, SetupFails, CloseGivesUp
  <2> QED BY <2>1, <2>2, <2>3, <2>4 DEF BridgeNext, BridgeFails
<1> QED BY <1>2, <1>3

\* The bridge's own steps leave the driver alone.
LEMMA BridgeStepsKeep == ASSUME IInv, BridgeSteps PROVE IInv'
<1>1. d' = d /\ sdk' = sdk /\ log' = log /\ BridgeSafe /\ br \in BridgeRecord
  BY DEF BridgeSteps, IInv, BridgeSafe, Bridged
<1>2. BridgeNext \/ BridgeFails
  BY DEF BridgeSteps
<1>3. BridgeSafe'
  <2>1. CASE BridgeNext
    BY <1>1, <2>1, AnsweredSafe, LostSafe, ReconnectedSafe, GoneSafe, FirstConnectedSafe,
       ListedSafe, CloseResolvesSafe DEF BridgeNext
  <2>2. CASE BridgeFails
    BY <1>1, <2>2, MisreadSafe, DiesSafe, ReconnectFailsSafe, SetupFailsSafe,
       CloseGivesUpSafe DEF BridgeFails
  <2> QED BY <1>2, <2>1, <2>2
<1>4. SdkOk'
  BY <1>1, <1>2, BridgeMoves DEF IInv, SdkOk
<1>5. Together'
  BY <1>1, <1>2, BridgeMoves DEF IInv, Together
<1> QED BY <1>1, <1>3, <1>4, <1>5 DEF IInv

-----------------------------------------------------------------------------
(* The theorems                                                              *)

\* The invariant holds: at first, and after every step.
LEMMA Inductive == Spec => []IInv
<1>1. Init => IInv
  <2> SUFFICES ASSUME Init PROVE IInv
    OBVIOUS
  <2>1. BridgeSafe /\ br.closed = FALSE
    BY BridgeStarts DEF Init, BridgeInit
  <2>2. <<>> \in Seq(Reactions) /\ <<>> \in Seq(Nat)
    OBVIOUS
  <2>3. DriverOk(d)
    BY <2>2 DEF Init, DriverOk, DriverRecord
  <2>4. SdkOk
    <3>1. \A c \in Calls : calls[c].at = "none"
      BY DEF Init, BridgeInit
    <3> QED BY <2>2, <3>1 DEF Init, SdkOk, SdkRecord, LogRecord
  <2>5. Together
    BY <2>1 DEF Init, Together
  <2> QED BY <2>1, <2>3, <2>4, <2>5 DEF IInv
<1>2. IInv /\ [Next]_vars => IInv'
  <2> SUFFICES ASSUME IInv, [Next]_vars PROVE IInv'
    OBVIOUS
  <2>1. CASE UNCHANGED vars
    <3>1. /\ d' = d /\ sdk' = sdk /\ log' = log /\ br' = br /\ proc' = proc
          /\ calls' = calls
      BY <2>1 DEF vars
    <3>2. SdkOk
      BY DEF IInv
    <3> QED BY <3>1, <3>2, Types, BridgeAlone DEF SdkOk, IInv, Together
  <2>2. CASE \E p \in sdk.pre : PromptLooks(p) \/ PromptLands(p) \/ PromptFails(p)
    BY <2>2, PromptLooksKeeps, PromptLandsKeeps, PromptFailsKeeps
  <2>3. CASE \E i \in DOMAIN stops : Interrupt(i) \/ StopSynced(i)
    BY <2>3, InterruptKeeps, StopSyncedKeeps
  <2>4. CASE \E c \in Calls : Calling(c)
    BY <2>4, CallingKeeps
  <2>5. CASE Created \/ CreateFails \/ ReactionRuns \/ SyncReturns \/ BridgeSteps
    BY <2>5, CreatedKeeps, CreateFailsKeeps, ReactionRunsKeeps, SyncReturnsKeeps,
       BridgeStepsKeep
  <2>6. CASE Asks \/ CycleEnds \/ CycleStarts \/ Settled
    BY <2>6, AsksKeeps, CycleEndsKeeps, CycleStartsKeeps, SettledKeeps
  <2>7. CASE Message \/ Decide \/ Shutdown \/ End \/ Retire \/ RetireReturns \/ ForceStop
    BY <2>7, MessageKeeps, DecideKeeps, ShutdownKeeps, EndKeeps, RetireKeeps,
       RetireReturnsKeeps, ForceStopKeeps
  <2> QED BY <2>1, <2>2, <2>3, <2>4, <2>5, <2>6, <2>7 DEF Next
<1> QED BY <1>1, <1>2, PTL DEF Spec

\* Every variable keeps its type: a reaction under way is the chain's first, what is
\* queued is behind a run, calls are a running cycle's, and the bridge is closed
\* exactly when the driver has finished.
THEOREM TypeCorrect == Spec => []TypeOK
<1>1. IInv => TypeOK
  <2> SUFFICES ASSUME IInv PROVE TypeOK
    OBVIOUS
  <2>1. BridgeTypeOK
    BY DEF IInv, BridgeSafe, Bridged, MadeOk, BridgeRecord, CallRecord, BridgeTypeOK
  <2>2. /\ d.state \in {"idle", "working", "blocked"}
        /\ d.over \in {"none", "ended", "error", "retired"}
        /\ d.sync \in {"none", "due", "result", "finish", "fail"}
        /\ d.sync = "none" <=> d.chain = <<>>
        /\ d.cycleGen \in 0..d.gen
    BY DEF IInv, DriverOk, DriverRecord
  <2>3. /\ sdk.phase \in {"none", "running", "again", "between"}
        /\ sdk.phase = "none" => sdk.queue = <<>> /\ ~sdk.aborting
        /\ sdk.phase # "running" => \A c \in Calls : calls[c].at = "none"
    BY DEF IInv, SdkOk, SdkRecord
  <2>4. br.closed = d.finished
    BY DEF IInv, Together
  <2> QED BY <2>1, <2>2, <2>3, <2>4 DEF TypeOK
<1> QED BY <1>1, Inductive, PTL

\* No bridged server outlives its client, however set-up, calls, reconnects and the
\* close meet; and a set-up change that waited finds the old one gone.
THEOREM NoServerOrphaned == Spec => []NoOrphan
<1>1. IInv => NoOrphan
  <2> SUFFICES ASSUME IInv PROVE NoOrphan
    OBVIOUS
  <2>1. /\ Bridged /\ MadeOk /\ UpOk /\ EntryOk /\ CloseOk
        /\ br.closed = d.finished
    BY DEF IInv, BridgeSafe, Together
  <2>2. \A k, l \in br.made : k = l
    BY <2>1 DEF MadeOk
  <2>3. ASSUME d.over = "retired", br.entry = "ready", br.close # "late", ~Streaming,
               NEW k \in Clients
        PROVE  proc[k] \notin {"starting", "up"} /\ (k = br.last => proc[k] = "gone")
    <3>1. br.close = "gone" /\ br.closed
      BY <2>1, <2>3 DEF IInv, Together, Bridged
    <3>2. br.made = {}
      BY <2>1, <2>3 DEF EntryOk, IInv, SdkOk, Streaming
    <3>3. proc[k] \notin {"starting", "up"}
      BY <2>1, <3>1, <3>2 DEF MadeOk, UpOk
    <3>4. k # 0
      BY BridgeAssumption DEF Clients
    <3> QED BY <2>1, <3>1, <3>3, <3>4 DEF CloseOk
  <2> QED BY <2>1, <2>2, <2>3 DEF UpOk, NoOrphan
<1> QED BY <1>1, Inductive, PTL
=============================================================================
