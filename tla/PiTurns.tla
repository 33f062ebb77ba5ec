-------------------------------- MODULE PiTurns --------------------------------
(***************************************************************************)
(* Turns of the pi harness (drivers/pi.mjs) with the bridge its tools go   *)
(* through (McpBridge).  The SDK runs in the daemon's process: the driver  *)
(* hears of cycles, not of turns, and its results and idles are chained    *)
(* behind a disk sync while messages pass the SDK's preflight, interrupts  *)
(* wait for the run, the run for its tools, and a set-up change for the    *)
(* bridged servers to be gone.                                             *)
(***************************************************************************)
EXTENDS McpBridge, SequencesExt

CONSTANTS
  MaxPrompts,     \* bound: messages sent
  MaxInterrupts,  \* bound: interrupts
  MaxTroubles,    \* bound: interrupts, asks, retries, failures, breaks together
  MaxEnds         \* bound: ways its end is asked for

ASSUME PiAssumption ==
  /\ MaxPrompts \in Nat /\ MaxInterrupts \in Nat /\ MaxTroubles \in Nat /\ MaxEnds \in Nat

VARIABLES
  d,      \* the driver and the session record
  stops,  \* where each interrupt() is, and shutdownStop() as number 0
  sdk,    \* external: the pi session
  log     \* history: see Init

vars == <<d, stops, sdk, log, br, proc, calls>>

-----------------------------------------------------------------------------
(* The synchronous parts, each from a driver to the next.                    *)

\* chain(): a reaction is due at once when none goes before it.
Chain(c, reaction) ==
  [c EXCEPT !.chain = Append(@, reaction),
            !.sync = IF c.chain = <<>> THEN "due" ELSE @]

\* Mutant: the next reaction waits for another to be chained.
GoOnLater(c) == [c EXCEPT !.chain = Tail(@), !.sync = "none"]

GoOn(c) ==
  [c EXCEPT !.chain = Tail(@), !.sync = IF Len(c.chain) = 1 THEN "none" ELSE "due"]

\* Mutant: an interrupt leaves what waits for a person to its person.
CancelLater(c) == IF c.ending THEN [c EXCEPT !.gate = FALSE] ELSE c

\* cancelPendingPermissions(): the handler the SDK awaits answers.
CancelGate(c) == [c EXCEPT !.gate = FALSE]

Unblock(c) == IF c.state = "blocked" THEN [c EXCEPT !.state = "working"] ELSE c

\* finish() and fail() up to their sync; BridgeFollows closes the bridge.
Finish(c) ==
  IF c.finished THEN GoOn(c) ELSE [c EXCEPT !.finished = TRUE, !.sync = "finish"]
Fail(c) ==
  IF c.finished THEN GoOn(c) ELSE [c EXCEPT !.finished = TRUE, !.sync = "fail"]

\* agent_settled, behind the result
AgentSettled(c) ==
  IF c.finished THEN GoOn(c)
  ELSE IF c.closed \/ c.ending THEN Finish(c)
  ELSE GoOn([c EXCEPT !.state = "idle"])

\* A reaction runs, up to its sync.
React(c) ==
  CASE Head(c.chain) = "result"  -> IF c.finished THEN GoOn(c) ELSE [c EXCEPT !.sync = "result"]
    [] Head(c.chain) = "settled" -> AgentSettled(c)
    [] Head(c.chain) = "finish"  -> Finish(c)
    [] Head(c.chain) = "fail"    -> Fail(c)

Over == d.over # "none"
NotDue == d.created /\ d.sync # "due" /\ NoneLost

\* Finishing closes the bridge and disposes of the session in the same step: its
\* run may still go on, but nothing else is taken up.
BridgeFollows ==
  IF d'.finished /\ ~d.finished THEN CloseBridge ELSE UNCHANGED <<br, proc>>

Disposed(s) ==
  IF d'.finished /\ ~d.finished THEN [s EXCEPT !.pre = {}, !.queue = <<>>] ELSE s

ReactionRuns ==
  /\ d.sync = "due"
  /\ d' = React(d)
  /\ BridgeFollows
  /\ sdk' = Disposed(sdk)
  /\ UNCHANGED <<stops, log, calls>>

\* The disk is synced.
SyncReturns ==
  /\ d.sync \in {"result", "finish", "fail"}
  /\ d' = GoOn(CASE d.sync = "result" -> d
                 [] d.sync # "result" /\ d.retiring -> [d EXCEPT !.resolved = TRUE]
                 [] d.sync # "result" /\ ~d.retiring ->
                      [d EXCEPT !.over = IF d.sync = "finish" THEN "ended" ELSE "error"])
  /\ UNCHANGED <<stops, sdk, log, bridgeVars>>

\* Bound: what has gone wrong so far leaves room for more.
MoreTrouble ==
  Cardinality({i \in 1..MaxInterrupts : stops[i] # "none"})
    + sdk.troubles + br.breaks + (IF log.forced THEN 1 ELSE 0) < MaxTroubles

\* The bridge is built last; then the SDK's session is created, or it is closed.
Created ==
  /\ SetUp /\ ~d.created /\ ~Over
  /\ d' = [d EXCEPT !.created = TRUE]
  /\ UNCHANGED <<stops, sdk, log, bridgeVars>>

CreateFails ==
  /\ SetUp /\ ~d.created /\ ~Over /\ MoreTrouble
  /\ d' = [d EXCEPT !.finished = TRUE, !.over = "error"]
  /\ BridgeFollows
  /\ sdk' = [sdk EXCEPT !.troubles = @ + 1]
  /\ UNCHANGED <<stops, log, calls>>

-----------------------------------------------------------------------------
(* Messages: queueMessage(), doPrompt()                                      *)

Streaming == sdk.phase # "none"

\* session.prompt(): called, then past a first look at the session, in preflight
Prompt(n, gen, left, follow) ==
  [n |-> n, gen |-> gen, left |-> left, follow |-> follow, at |-> "called"]

Message ==
  /\ NotDue /\ ~Over /\ ~d.closed /\ ~d.finished /\ ~d.ending /\ Len(log.sent) < MaxPrompts
  /\ d' = [d EXCEPT !.state = "working"]
  /\ log' = [log EXCEPT !.sent = Append(@, d.gen)]
  /\ sdk' = [sdk EXCEPT !.pre = @ \union {Prompt(Len(log.sent) + 1, d.gen, 2, Streaming)}]
  /\ UNCHANGED <<stops, bridgeVars>>

\* Mutant: the rejection of a busy session is taken for an interrupt's.
RetriedNever(p) == {}

\* A busy session's rejection is retried as a followUp, and that one's once more
\* from the start, unless an interrupt came since.
Retried(p) ==
  IF d.gen # p.gen \/ p.left = 0 THEN {}
  ELSE {Prompt(p.n, p.gen, p.left - 1, p.left = 2 \/ Streaming)}

TurnedAway(p) ==
  /\ sdk' = [sdk EXCEPT !.pre = (@ \ {p}) \union Retried(p)]
  /\ d' = IF d.gen = p.gen /\ p.left = 0 THEN Chain(d, "fail") ELSE d
  /\ UNCHANGED log

\* A cycle of the SDK's starts (agent_start).
Cycle(s) == [s EXCEPT !.phase = "running"]

\* External: the SDK looks at a prompt.  A session that runs queues what is asked
\* to follow and rejects the rest.
PromptLooks(p) ==
  /\ p \in sdk.pre /\ p.at = "called"
  /\ \/ /\ Streaming /\ p.follow
        /\ sdk' = [sdk EXCEPT !.pre = @ \ {p}, !.queue = Append(@, p.n)]
        /\ UNCHANGED <<d, log>>
     \/ /\ ~Streaming
        /\ sdk' = [sdk EXCEPT !.pre = (@ \ {p}) \union {[p EXCEPT !.at = "preflight"]}]
        /\ UNCHANGED <<d, log>>
     \/ Streaming /\ ~p.follow /\ TurnedAway(p)
  /\ UNCHANGED <<stops, bridgeVars>>

\* External: its preflight is over; another's run may have begun meanwhile.
PromptLands(p) ==
  /\ p \in sdk.pre /\ p.at = "preflight"
  /\ \/ /\ ~Streaming
        /\ sdk' = Cycle([sdk EXCEPT !.pre = @ \ {p}])
        /\ d' = [d EXCEPT !.cycleGen = d.gen]
        /\ log' = [log EXCEPT !.ran = @ \union {p.n}]
     \/ Streaming /\ TurnedAway(p)
  /\ UNCHANGED <<stops, bridgeVars>>

\* External: the SDK refuses it otherwise; the session fails with it.
PromptFails(p) ==
  /\ p \in sdk.pre /\ p.at = "preflight" /\ MoreTrouble
  /\ sdk' = [sdk EXCEPT !.pre = @ \ {p}, !.troubles = @ + 1]
  /\ d' = IF d.gen # p.gen THEN d ELSE Chain(d, "fail")
  /\ UNCHANGED <<stops, log, bridgeVars>>

-----------------------------------------------------------------------------
(* The SDK's run (external): as pi.mjs and its comments describe it.          *)

\* The gate's handler: a session that is ending denies, else a person is asked.
Asks ==
  /\ NotDue /\ sdk.phase = "running" /\ ~sdk.aborting /\ ~d.gate /\ ~d.finished
  /\ ~d.ending /\ MoreTrouble
  /\ d' = [d EXCEPT !.gate = TRUE, !.state = "blocked"]
  /\ sdk' = [sdk EXCEPT !.troubles = @ + 1]
  /\ UNCHANGED <<stops, log, bridgeVars>>

Calling(c) ==
  /\ NotDue /\ sdk.phase = "running" /\ ~sdk.aborting /\ ~d.gate
  /\ CallStarts(c)
  /\ UNCHANGED <<d, stops, sdk, log>>

\* agent_end: the run waited for its tools and for the gate.  It is tried again,
\* is of an interrupted cycle, or has a result.
CycleEnds ==
  /\ NotDue /\ sdk.phase = "running" /\ ~d.gate /\ \A c \in Calls : calls[c].at = "none"
  /\ \/ /\ ~sdk.aborting /\ MoreTrouble
        /\ sdk' = [sdk EXCEPT !.phase = "again", !.troubles = @ + 1]
        /\ UNCHANGED d
     \/ /\ sdk' = [sdk EXCEPT !.phase = "between"]
        /\ d' = IF d.finished \/ d.cycleGen # d.gen THEN d ELSE Chain(d, "result")
  /\ UNCHANGED <<stops, log, bridgeVars>>

\* abort() returns: shutdownStop() goes on behind the reactions, an interrupt to
\* its sync.
AbortsReturn(c) ==
  /\ stops' = [i \in DOMAIN stops |->
                 IF stops[i] # "aborting" THEN stops[i] ELSE IF i = 0 THEN "done" ELSE "syncing"]
  /\ d' = IF stops[0] = "aborting" THEN Chain(c, "finish") ELSE c

\* No cycle is under way, nor tried again.
Rests == sdk.phase = "between" \/ (sdk.phase = "again" /\ sdk.aborting)

\* The next cycle: the same once more, or what was queued behind it; the run an
\* abort waited for is over.
CycleStarts ==
  /\ \/ /\ sdk.phase = "again" /\ ~sdk.aborting
        /\ sdk' = Cycle(sdk) /\ UNCHANGED log
     \/ /\ Rests /\ sdk.queue # <<>>
        /\ sdk' = Cycle([sdk EXCEPT !.queue = Tail(@), !.aborting = FALSE])
        /\ log' = [log EXCEPT !.ran = @ \union {Head(sdk.queue)}]
  /\ AbortsReturn(IF d.finished THEN d ELSE [d EXCEPT !.cycleGen = d.gen])
  /\ UNCHANGED bridgeVars

\* agent_settled: no run, retry or queued continuation.
Settled ==
  /\ Rests /\ sdk.queue = <<>>
  /\ sdk' = [sdk EXCEPT !.phase = "none", !.aborting = FALSE]
  /\ AbortsReturn(IF d.finished THEN d ELSE Chain(d, "settled"))
  /\ UNCHANGED <<log, bridgeVars>>

-----------------------------------------------------------------------------
(* What people and the daemon ask of the driver                              *)

Decide ==
  /\ NotDue /\ d.gate
  /\ d' = Unblock(CancelGate(d))
  /\ UNCHANGED <<stops, sdk, log, bridgeVars>>

\* session.abort(): waits for the run.  What is queued stays or goes.
Abort ==
  /\ calls' = IF Streaming THEN Signalled ELSE calls
  /\ \/ sdk' = [sdk EXCEPT !.aborting = Streaming]
     \/ sdk.queue # <<>> /\ sdk' = [sdk EXCEPT !.aborting = Streaming, !.queue = <<>>]

\* interrupt(), up to its abort
Interrupt(i) ==
  /\ NotDue /\ i > 0 /\ stops[i] = "none" /\ MoreTrouble
  /\ \A j \in 1..(i - 1) : stops[j] # "none"
  /\ d' = CancelGate([d EXCEPT !.gen = @ + 1])
  /\ stops' = [stops EXCEPT ![i] = IF Streaming THEN "aborting" ELSE "syncing"]
  /\ Abort
  /\ UNCHANGED <<log, br, proc>>

\* isIdle, as agent_settled understands it
IsIdle == ~Streaming /\ sdk.queue = <<>>

\* interrupt() goes on after its sync.
StopSynced(i) ==
  /\ NotDue /\ i > 0 /\ stops[i] = "syncing"
  /\ stops' = [stops EXCEPT ![i] = "done"]
  /\ d' = IF ~d.finished /\ IsIdle THEN [d EXCEPT !.state = "idle"] ELSE d
  /\ UNCHANGED <<sdk, log, bridgeVars>>

MoreEnds ==
  Cardinality({w \in {"shutdown", "end", "retire"} :
                 \/ w = "shutdown" /\ stops[0] # "none"
                 \/ w = "end" /\ d.ending
                 \/ w = "retire" /\ d.retiring}) < MaxEnds

\* shutdownStop(); the daemon cancelled what waits for a person.
Shutdown ==
  /\ NotDue /\ ~Over /\ stops[0] = "none" /\ MoreEnds
  /\ LET c == CancelGate([d EXCEPT !.closed = TRUE, !.gen = @ + 1])
     IN  d' = IF Streaming THEN c ELSE Chain(c, "finish")
  /\ stops' = [stops EXCEPT ![0] = IF Streaming THEN "aborting" ELSE "done"]
  /\ Abort
  /\ UNCHANGED <<log, br, proc>>

\* beginEnd(): agent_settled finishes what still runs.
BeginEnd(c) ==
  LET closed == [c EXCEPT !.closed = TRUE]
  IN  IF IsIdle THEN Chain(closed, "finish") ELSE closed

\* endSession()
End ==
  /\ NotDue /\ ~Over /\ ~d.ending /\ MoreEnds
  /\ d' = BeginEnd(CancelGate([d EXCEPT !.ending = TRUE]))
  /\ UNCHANGED <<stops, sdk, log, bridgeVars>>

\* retire(), for a set-up change, between turns
Retire ==
  /\ NotDue /\ ~Over /\ ~d.closed /\ ~d.finished /\ MoreEnds /\ d.state = "idle" /\ ~d.gate
  /\ d' = BeginEnd([d EXCEPT !.retiring = TRUE])
  /\ UNCHANGED <<stops, sdk, log, bridgeVars>>

\* retire() waits for the wind-down, then for the bridged servers.
RetireMayReturn == d.resolved /\ br.close \in {"gone", "late"}

RetireReturns ==
  /\ NotDue /\ ~Over /\ RetireMayReturn
  /\ d' = [d EXCEPT !.over = "retired"]
  /\ UNCHANGED <<stops, sdk, log, bridgeVars>>

\* The grace passes: forceStop().
ForceStop ==
  /\ NotDue /\ d.retiring /\ ~Over /\ ~log.forced /\ MoreTrouble
  /\ d' = [d EXCEPT !.gen = @ + 1, !.finished = TRUE, !.resolved = TRUE]
  /\ log' = [log EXCEPT !.forced = TRUE]
  /\ BridgeFollows
  /\ IF d.finished THEN UNCHANGED <<sdk, calls>>
     ELSE /\ sdk' = Disposed([sdk EXCEPT !.aborting = Streaming])
          /\ calls' = Signalled
  /\ UNCHANGED stops

-----------------------------------------------------------------------------
Init ==
  /\ BridgeInit
  /\ d = [created |-> FALSE, state |-> "idle", closed |-> FALSE, ending |-> FALSE, retiring |-> FALSE,
          resolved |-> FALSE, finished |-> FALSE, over |-> "none", gen |-> 0,
          cycleGen |-> 0, gate |-> FALSE, chain |-> <<>>, sync |-> "none"]
  /\ stops = [i \in 0..MaxInterrupts |-> "none"]
  /\ sdk = [pre |-> {}, phase |-> "none", queue |-> <<>>, aborting |-> FALSE, troubles |-> 0]
  /\ log = [sent |-> <<>>,     \* the generation each message was sent in
            ran |-> {},        \* the messages a cycle began with
            forced |-> FALSE]  \* forceStop() ran

\* The bridge's steps leave the driver alone; what fails needs room for trouble.
BridgeSteps ==
  /\ BridgeNext \/ (MoreTrouble /\ BridgeFails)
  /\ UNCHANGED <<d, stops, sdk, log>>

Next ==
  \/ Created \/ CreateFails \/ ReactionRuns \/ SyncReturns \/ BridgeSteps
  \/ \E p \in sdk.pre : PromptLooks(p) \/ PromptLands(p) \/ PromptFails(p)
  \/ Asks \/ CycleEnds \/ CycleStarts \/ Settled
  \/ \E c \in Calls : Calling(c)
  \/ Message \/ Decide \/ Shutdown \/ End \/ Retire \/ RetireReturns \/ ForceStop
  \/ \E i \in DOMAIN stops : Interrupt(i) \/ StopSynced(i)

Spec == Init /\ [][Next]_vars

\* Reactions run, syncs end; the SDK's prompts land, its runs end and settle;
\* calls are answered or fail, servers come up and go.  Nobody need answer what
\* is asked, nor need a retire's grace pass.
Fairness ==
  /\ WF_vars(Created) /\ WF_vars(ReactionRuns) /\ WF_vars(SyncReturns) /\ WF_vars(BridgeNext /\ BridgeSteps)
  /\ WF_vars(\E p \in sdk.pre : PromptLooks(p) \/ PromptLands(p))
  /\ WF_vars(CycleEnds \/ CycleStarts \/ Settled)
  /\ WF_vars(RetireReturns)
  /\ WF_vars(\E i \in 1..MaxInterrupts : StopSynced(i))

FairSpec == Spec /\ Fairness

-----------------------------------------------------------------------------
(* Properties *)

\* The type invariant: a reaction under way is the chain's first, what is queued
\* is behind a run, and calls are a run's.
TypeOK ==
  /\ BridgeTypeOK
  /\ d.state \in {"idle", "working", "blocked"}
  /\ d.over \in {"none", "ended", "error", "retired"}
  /\ d.sync \in {"none", "due", "result", "finish", "fail"}
  /\ d.sync = "none" <=> d.chain = <<>>
  /\ d.cycleGen \in 0..d.gen
  /\ sdk.phase \in {"none", "running", "again", "between"}
  /\ sdk.phase = "none" => sdk.queue = <<>> /\ ~sdk.aborting
  /\ sdk.phase # "running" => \A c \in Calls : calls[c].at = "none"
  /\ br.closed = d.finished

\* However set-up, parallel calls, reconnects and the close meet, no bridged server
\* outlives its client: one that lives is the client's of a server set up, or being
\* made, and too late it is only made to be reaped.  When a set-up change has been waited
\* for, the server that was set up is gone, and its successor starts none beside it;
\* unless it took longer than BRIDGE_CLOSE_MS, the harness had to be stopped, or a
\* message still in its preflight at an interrupt began a run after all.
NoOrphan ==
  /\ \A k \in Clients : proc[k] = "up" => k = br.client /\ ~br.closed /\ br.entry # "skipped"
  /\ \A k, l \in br.made : k = l
  /\ d.over = "retired" /\ ~log.forced /\ br.entry = "ready" /\ br.close # "late" /\ ~Streaming =>
       \A k \in Clients : proc[k] \notin {"starting", "up"} /\ (k = br.last => proc[k] = "gone")

\* A session whose input ends settles, with every interrupt answered: it is idle,
\* over, or waits for a person.  An interrupt waits for the run, and the run for
\* its tools and the gate, so it has to cancel the gate itself.
Settles ==
  <>[](/\ \A i \in DOMAIN stops : stops[i] \in {"none", "done"}
       /\ Over \/ d.gate \/ (d.state = "idle" /\ ~d.closed))

Withdrawn(n) == n \in DOMAIN log.sent /\ log.sent[n] # d.gen

\* A message taken is heard, in whatever state the SDK is when it lands: a cycle
\* begins with it, unless an interrupt came after it, the session is over, or a
\* person has still to answer.
MessagesRun ==
  \A n \in 1..MaxPrompts :
    n \in DOMAIN log.sent ~> (n \in log.ran \/ Withdrawn(n) \/ Over \/ d.gate)
=============================================================================
