------------------------------ MODULE CodexTurns ------------------------------
(***************************************************************************)
(* Turns of the Codex harness (drivers/codex.mjs) over its JSON-RPC client *)
(* (codex-rpc.mjs).  The app-server's lines are handled as they are read,  *)
(* several in a row when they come in one chunk; what they settle, answers *)
(* to requests and the reactions chained behind notifications, runs in     *)
(* microtasks once the chunk is done, and a reaction may wait for a disk   *)
(* sync while people speak, interrupt and end.                             *)
(***************************************************************************)
EXTENDS Naturals, SequencesExt, SeqFilter

CONSTANTS
  MaxMessages,    \* bound: messages sent, numbered in order
  MaxInterrupts,  \* bound: interrupts, numbered in order
  MaxAsks,        \* bound: approvals the app-server asks for
  MaxFailures,    \* bound: turns refused or failed, exits of the app-server
  MaxTroubles,    \* bound: interrupts, approvals and failures together
  MaxEnds         \* bound: ways its end is asked for: shutdown, end, set-up change

ASSUME CodexAssumption ==
  /\ MaxMessages \in Nat /\ MaxInterrupts \in Nat
  /\ MaxAsks \in Nat /\ MaxFailures \in Nat /\ MaxTroubles \in Nat
  /\ MaxEnds \in Nat

VARIABLES
  d,       \* the driver, its RPC client and the session record
  stops,   \* where each interrupt() is, and shutdownStop() as number 0
  app,     \* external: the app-server
  stdout,  \* external: the lines the driver has yet to read
  log      \* history: see Init

vars == <<d, stops, app, stdout, log>>

-----------------------------------------------------------------------------
(* The synchronous parts, each from a driver to the next.                    *)

\* A request carries a message, or the interrupt that makes it, and is made in
\* a generation (abortGen) against a turn, 0 if none.
Req(kind, m, gen, turn) == [kind |-> kind, m |-> m, gen |-> gen, turn |-> turn]

\* A microtask: a request is settled, with the turn an answer to it names.  A
\* rejected start is one tick further from its catch.
Micro(r, ok, turn) == [req |-> r, ok |-> ok, turn |-> turn, tick |-> 1]

Later(c, x) == [c EXCEPT !.micro = Append(@, x)]

Rejections(rs) == [k \in DOMAIN rs |-> Micro(rs[k], FALSE, 0)]

\* request(), of one after the other: once the app-server is gone, or closed, it
\* is rejected at once.
Requests(c, rs) ==
  IF c.pipe THEN [c EXCEPT !.waiting = @ \o rs, !.stdin = @ \o rs]
  ELSE [c EXCEPT !.micro = @ \o Rejections(rs)]

Request(c, r) == Requests(c, <<r>>)

ChainRuns == Micro(Req("chain", 0, 0, 0), TRUE, 0)

\* chain()
Chain(c, kind, turn, gen) ==
  LET queued == [c EXCEPT !.chain = Append(@, [kind |-> kind, turn |-> turn, gen |-> gen])]
  IN  IF c.chain = <<>> THEN Later(queued, ChainRuns) ELSE queued

StartTurn(c, m) ==
  Request([c EXCEPT !.active = TRUE, !.cur = 0,
                    !.openings = Append(@, [m |-> m, gen |-> c.gen])],
          Req("start", m, c.gen, 0))

Steer(c, m) == Req("steer", m, c.gen, c.cur)

FlushSteers(c) ==
  IF c.cur = 0 THEN c
  ELSE Requests([c EXCEPT !.steers = <<>>],
                [k \in DOMAIN c.steers |-> Steer(c, c.steers[k])])

Dispatch(c, m) ==
  IF ~c.active THEN StartTurn(c, m)
  ELSE IF c.cur # 0 THEN Request(c, Steer(c, m))
  ELSE [c EXCEPT !.steers = Append(@, m)]

\* A pending approval is answered; the app-server has it behind what the same
\* handler wrote.
Reply(c) ==
  [c EXCEPT !.gate = FALSE,
            !.stdin = IF c.pipe THEN Append(@, Req("reply", 0, 0, 0)) ELSE @]

CancelGate(c) == IF c.gate THEN Reply(c) ELSE c

Unblock(c) == IF c.state = "blocked" THEN [c EXCEPT !.state = "working"] ELSE c

-----------------------------------------------------------------------------
(* What answers settle                                                       *)

\* turn/start answered: its id is adopted early.
StartAnswered(c, x) ==
  IF c.gen # x.req.gen \/ c.finished \/ c.cur # 0 THEN c
  ELSE FlushSteers([c EXCEPT !.cur = x.turn])

StartFailed(c, x) ==
  LET released == [c EXCEPT !.openings =
                     Filter(@, {o \in ToSet(@) : o.m # x.req.m})]
  IN  IF c.gen # x.req.gen \/ c.finished THEN released
      ELSE Chain([released EXCEPT !.active = FALSE, !.cur = 0], "fail", 0, 0)

\* Any steer failure: the turn ended meanwhile, so the message opens one.
SteerFailed(c, x) ==
  IF c.gen # x.req.gen \/ c.finished THEN c ELSE StartTurn(c, x.req.m)

-----------------------------------------------------------------------------
(* The reactions, one after the other                                        *)

\* The chain goes on with the next reaction.
GoOn(c) ==
  LET rest == Tail(c.chain)
      over == [c EXCEPT !.chain = rest, !.sync = "none"]
  IN  IF rest = <<>> THEN over ELSE Later(over, ChainRuns)

\* finish() and fail() up to their sync; the app-server is closed.
Finish(c) ==
  IF c.finished THEN GoOn(c)
  ELSE [c EXCEPT !.finished = TRUE, !.pipe = FALSE, !.sync = "finish"]

Fail(c) ==
  IF c.finished THEN GoOn(c)
  ELSE [c EXCEPT !.finished = TRUE, !.pipe = FALSE, !.sync = "fail"]

\* Mutant: a result is due whatever interrupted its turn.
ReactAlways(c) ==
  LET h == Head(c.chain)
  IN  CASE h.kind = "result" ->
             IF c.finished \/ c.emitted THEN GoOn(c)
             ELSE [c EXCEPT !.emitted = TRUE, !.sync = "result"]
        [] h.kind = "finish" -> Finish(c)
        [] h.kind = "fail"   -> Fail(c)
        [] h.kind = "exit"   -> IF c.closed THEN Finish(c) ELSE Fail(c)

\* A reaction runs, up to its sync: a result is due unless the turn was
\* interrupted; an exit ends a session that is winding down, or fails it.
React(c) ==
  LET h == Head(c.chain)
  IN  CASE h.kind = "result" ->
             IF h.gen # c.gen \/ c.finished \/ c.emitted THEN GoOn(c)
             ELSE [c EXCEPT !.emitted = TRUE, !.sync = "result"]
        [] h.kind = "finish" -> Finish(c)
        [] h.kind = "fail"   -> Fail(c)
        [] h.kind = "exit"   -> IF c.closed THEN Finish(c) ELSE Fail(c)

\* Mutant: a result makes the session idle although a turn runs again.
AfterResultIdle(c) ==
  IF c.finished THEN GoOn(c)
  ELSE IF c.closed THEN Finish(c)
  ELSE GoOn([c EXCEPT !.state = "idle"])

\* Mutant: a result does not wind down.
AfterResultOpen(c) ==
  IF c.finished THEN GoOn(c)
  ELSE GoOn([c EXCEPT !.state = IF c.active THEN @ ELSE "idle"])

\* The result is out.
AfterResult(c) ==
  IF c.finished THEN GoOn(c)
  ELSE IF c.closed THEN Finish(c)
  ELSE GoOn([c EXCEPT !.state = IF c.active THEN @ ELSE "idle"])

\* The sync of the reaction returns.
SyncReturns ==
  /\ d.micro = <<>> /\ d.sync # "none"
  /\ \/ /\ d.sync = "result"
        /\ d' = AfterResult(d)
        /\ log' = [log EXCEPT !.results =
                     Append(@, [turn |-> Head(d.chain).turn, text |-> d.text])]
     \/ /\ d.sync # "result"
        /\ d' = GoOn([d EXCEPT !.over =
                  IF @ # "none" THEN @ ELSE IF d.retiring THEN "retired"
                  ELSE IF d.sync = "finish" THEN "ended" ELSE "error"])
        /\ UNCHANGED log
  /\ UNCHANGED <<stops, app, stdout>>

\* History: a steer refused while a turn is live opens another over it.
Overrides(x) ==
  x.req.kind = "steer" /\ ~x.ok /\ d.cur # 0 /\ SteerFailed(d, x) # d

RunMicro ==
  LET x == Head(d.micro)
      c == [d EXCEPT !.micro = Tail(@), !.chunk = FALSE]
  IN
  /\ d.micro # <<>>
  /\ \/ /\ x.req.kind = "chain"
        /\ d' = React(c) /\ UNCHANGED stops
     \/ /\ x.req.kind = "start" /\ x.ok
        /\ d' = StartAnswered(c, x) /\ UNCHANGED stops
     \/ /\ x.req.kind = "start" /\ ~x.ok
        /\ d' = IF x.tick = 1 THEN Later(c, [x EXCEPT !.tick = 2]) ELSE StartFailed(c, x)
        /\ UNCHANGED stops
     \/ /\ x.req.kind = "steer"
        /\ d' = IF x.ok THEN c ELSE SteerFailed(c, x)
        /\ UNCHANGED stops
     \/ /\ x.req.kind = "late"
        /\ d' = c /\ UNCHANGED stops
     \/ /\ x.req.kind = "stop"
        /\ IF x.req.m = 0
           THEN d' = Chain(c, "finish", 0, 0) /\ stops' = [stops EXCEPT ![0].at = "done"]
           ELSE d' = c /\ stops' = [stops EXCEPT ![x.req.m].at = "syncing"]
  /\ log' = [log EXCEPT !.odd = IF Overrides(x) THEN @ \union {"crossed"} ELSE @]
  /\ UNCHANGED <<app, stdout>>

-----------------------------------------------------------------------------
(* The lines of the app-server                                               *)

Line(kind, turn) == [kind |-> kind, turn |-> turn, req |-> Req("none", 0, 0, 0)]
Answer(r, ok, turn) ==
  [kind |-> IF ok THEN "result" ELSE "refusal", turn |-> turn, req |-> r]

\* Mutant: a started turn is judged by the generation of the last request.
OnStartedLast(c, n) ==
  IF c.openings = <<>> \/ Last(c.openings).gen # c.gen
  THEN Request([c EXCEPT !.openings = IF @ = <<>> THEN @ ELSE Tail(@)],
               Req("late", 0, c.gen, n))
  ELSE FlushSteers([c EXCEPT !.openings = Tail(@), !.active = TRUE, !.cur = n,
                             !.turnGen = c.gen, !.emitted = FALSE,
                             !.text = 0, !.state = "working"])

\* turn/started: of a turn interrupted while opening, it is cancelled only now.
OnStarted(c, n) ==
  IF c.openings = <<>> \/ Head(c.openings).gen # c.gen
  THEN Request([c EXCEPT !.openings = IF @ = <<>> THEN @ ELSE Tail(@)],
               Req("late", 0, c.gen, n))
  ELSE FlushSteers([c EXCEPT !.openings = Tail(@), !.active = TRUE, !.cur = n,
                             !.turnGen = c.gen, !.emitted = FALSE,
                             !.text = 0, !.state = "working"])

\* isStaleCodexTurnCompletion()
Stale(c, n) == IF c.cur # 0 THEN n # c.cur ELSE c.active

TurnOver(c) == [c EXCEPT !.active = FALSE, !.cur = 0]

OnCompleted(c, n) ==
  LET heard == [c EXCEPT !.text = n]  \* its last item precedes it
  IN  IF Stale(c, n) THEN heard ELSE Chain(TurnOver(heard), "result", n, c.turnGen)

OnInterrupted(c, n) == IF Stale(c, n) THEN c ELSE TurnOver(c)

\* error, of a turn that is not retried
OnError(c, n) ==
  IF c.cur # 0 /\ n # c.cur THEN c
  ELSE IF c.active THEN Chain(TurnOver(c), "result", n, c.turnGen) ELSE TurnOver(c)

\* gate(): a session that is ending denies; else a person is asked.
OnAsk(c) ==
  IF c.ending THEN Reply(c) ELSE [c EXCEPT !.gate = TRUE, !.state = "blocked"]

\* serverRequest/resolved: the app-server withdraws what it asked.
OnResolved(c) == IF c.gate THEN Unblock(Reply(c)) ELSE c

\* An answer settles its request, unless that timed out.
OnAnswer(c, line) ==
  IF line.req \notin ToSet(c.waiting) THEN c
  ELSE Later([c EXCEPT !.waiting = Filter(@, ToSet(@) \ {line.req})],
             Micro(line.req, line.kind = "result", line.turn))

Handled(c, line) ==
  CASE line.kind = "started"     -> OnStarted(c, line.turn)
    [] line.kind = "completed"   -> OnCompleted(c, line.turn)
    [] line.kind = "interrupted" -> OnInterrupted(c, line.turn)
    [] line.kind = "error"       -> OnError(c, line.turn)
    [] line.kind = "ask"         -> OnAsk(c)
    [] line.kind = "resolved"    -> OnResolved(c)
    [] line.kind \in {"result", "refusal"} -> OnAnswer(c, line)

\* History: a turn ended by itself and uninterrupted owes a result.  Oddities:
\* turns crossed, one opening before the last one's result was out or in the
\* place of another; an interrupt came late, after the end was asked for; an
\* approval was an orphan, of a turn that is not the live one.
Ends(line) == line.kind \in {"completed", "error"} /\ log.turns[line.turn].gen = d.gen

Crosses(line) ==
  /\ line.kind = "started"
  /\ \/ \E i \in DOMAIN d.chain : d.chain[i].kind = "result"
     \/ d.openings = <<>> \/ Head(d.openings).m # log.turns[line.turn].m

Oddities(line) ==
  (IF Crosses(line) THEN {"crossed"} ELSE {})
    \union (IF line.kind = "ask" /\ line.turn # d.cur THEN {"orphan"} ELSE {})

\* A line is read: before the microtasks only behind others of its chunk.
ReadLine ==
  /\ stdout # <<>> /\ (d.micro = <<>> \/ d.chunk)
  /\ stdout' = Tail(stdout)
  /\ LET line == Head(stdout)
         c == Handled(d, line)
     IN  /\ d' = [c EXCEPT !.chunk = c.micro # <<>>]
         /\ log' = [log EXCEPT !.due = IF Ends(line) THEN @ \union {line.turn} ELSE @,
                               !.odd = @ \union Oddities(line)]
  /\ UNCHANGED <<stops, app>>

-----------------------------------------------------------------------------
(* What people and the daemon ask of the driver                              *)

Becomes(c) == d' = c /\ UNCHANGED <<stops, app, stdout, log>>

Over == d.over # "none"

\* queueMessage()
Message ==
  /\ d.micro = <<>> /\ ~d.closed /\ ~d.finished /\ d.said < MaxMessages
  /\ Becomes(Dispatch([d EXCEPT !.state = "working", !.said = @ + 1], d.said + 1))

\* A person decides what the app-server asked.
Decide == d.micro = <<>> /\ d.gate /\ Becomes(Unblock(Reply(d)))

\* What interrupt() changes before it asks for anything.
Withdraw(c) == [c EXCEPT !.gen = @ + 1, !.steers = <<>>, !.active = FALSE, !.cur = 0]

\* Turns whose result is out or on its way.
Served == {log.results[k].turn : k \in DOMAIN log.results}
            \union (IF d.sync = "result" THEN {Head(d.chain).turn} ELSE {})

\* Bound: what has gone wrong so far leaves room for more.
MoreTrouble ==
  Cardinality({i \in 1..MaxInterrupts : stops[i].at # "none"})
    + app.asked + app.failures < MaxTroubles

\* interrupt() up to its first await.
Interrupt(i) ==
  /\ d.micro = <<>> /\ stops[i].at = "none" /\ i > 0 /\ MoreTrouble
  /\ \A j \in 1..(i - 1) : stops[j].at # "none"
  /\ LET c == Withdraw(d)
     IN  IF d.cur = 0
         THEN /\ d' = CancelGate(c)
              /\ stops' = [stops EXCEPT ![i] = [at |-> "syncing", gen |-> c.gen]]
         ELSE /\ d' = CancelGate(Request(c, Req("stop", i, c.gen, d.cur)))
              /\ stops' = [stops EXCEPT ![i] = [at |-> "asking", gen |-> c.gen]]
  /\ log' = [log EXCEPT !.due = @ \intersect Served,
                        !.odd = IF d.closed THEN @ \union {"late"} ELSE @]
  /\ UNCHANGED <<app, stdout>>

\* TEARDOWN_TIMEOUT_MS pass.
StopTimesOut(i) ==
  /\ d.micro = <<>> /\ stops[i].at = "asking"
  /\ \E r \in ToSet(d.waiting) :
       /\ r.kind = "stop" /\ r.m = i
       /\ d' = Later([d EXCEPT !.waiting = Filter(@, ToSet(@) \ {r})],
                     Micro(r, FALSE, 0))
  /\ UNCHANGED <<stops, app, stdout, log>>

\* Mutant: the session is idle only once no turn is opening.
IdleAfterOpening(i) == d.gen = stops[i].gen /\ ~d.active /\ d.openings = <<>>

\* The session is idle unless something started since.
IdleAfter(i) == d.gen = stops[i].gen /\ ~d.active

StopSynced(i) ==
  /\ d.micro = <<>> /\ i > 0 /\ stops[i].at = "syncing"
  /\ stops' = [stops EXCEPT ![i].at = "done"]
  /\ d' = IF ~d.finished /\ IdleAfter(i) THEN [d EXCEPT !.state = "idle"] ELSE d
  /\ UNCHANGED <<app, stdout, log>>

\* Bound: its end has been asked for in fewer ways.
MoreEnds ==
  Cardinality({w \in {"shutdown", "end", "retire"} :
                 \/ w = "shutdown" /\ stops[0].at # "none"
                 \/ w = "end" /\ d.ending
                 \/ w = "retire" /\ d.retiring}) < MaxEnds

\* shutdownStop(): as an interrupt, then the wind-down.
Shutdown ==
  /\ d.micro = <<>> /\ ~Over /\ stops[0].at = "none" /\ MoreEnds
  /\ LET c == CancelGate([d EXCEPT !.closed = TRUE, !.gen = @ + 1,
                                   !.active = FALSE, !.cur = 0])
     IN  IF d.cur = 0
         THEN d' = Chain(c, "finish", 0, 0) /\ stops' = [stops EXCEPT ![0].at = "done"]
         ELSE /\ d' = Request(c, Req("stop", 0, c.gen, d.cur))
              /\ stops' = [stops EXCEPT ![0].at = "asking"]
  /\ log' = [log EXCEPT !.due = @ \intersect Served]
  /\ UNCHANGED <<app, stdout>>

\* beginEnd() leaves a running turn its end: its result winds down.
BeginEnd(c) ==
  LET closed == [c EXCEPT !.closed = TRUE]
  IN  IF c.active THEN closed ELSE Chain(closed, "finish", 0, 0)

\* endSession()
End ==
  /\ d.micro = <<>> /\ ~Over /\ ~d.ending /\ MoreEnds
  /\ Becomes(BeginEnd(CancelGate([d EXCEPT !.ending = TRUE])))

\* retire(), for a set-up change, once idle.
Retire ==
  /\ d.micro = <<>> /\ ~Over /\ ~d.closed /\ MoreEnds
  /\ d.state = "idle" /\ ~d.gate
  /\ Becomes(BeginEnd([d EXCEPT !.retiring = TRUE]))

\* The grace passes: forceStop().
ForceStop ==
  /\ d.micro = <<>> /\ d.retiring /\ ~Over
  /\ Becomes([d EXCEPT !.gen = @ + 1, !.finished = TRUE, !.over = "retired"])

-----------------------------------------------------------------------------
(* The app-server (external): as codex.mjs uses it and its comments describe *)
(* it.  Turns run one at a time on a thread, in the order they are requested. *)

Says(lines) == stdout' = stdout \o lines
Trouble == app.failures < MaxFailures /\ MoreTrouble
Troubled(a) == [a EXCEPT !.failures = @ + 1]

AppTakesStart(r) ==
  /\ r.kind = "start"
  /\ \/ /\ log' = [log EXCEPT !.turns = Append(@, [m |-> r.m, gen |-> r.gen])]
        /\ app' = [app EXCEPT !.queue = Append(@, Len(log'.turns))]
        /\ Says(<<Answer(r, TRUE, Len(log'.turns))>>)
     \/ /\ Trouble
        /\ app' = Troubled(app)
        /\ Says(<<Answer(r, FALSE, 0)>>)
        /\ UNCHANGED log

AppTakesSteer(r) ==
  /\ r.kind = "steer"
  /\ Says(<<Answer(r, app.running = r.turn /\ app.stopping = <<>>, 0)>>)
  /\ UNCHANGED <<app, log>>

\* An interrupt waits for what the turn is paused on.
AppTakesStop(r) ==
  /\ r.kind \in {"stop", "late"}
  /\ IF app.running = r.turn
     THEN app' = [app EXCEPT !.stopping = Append(@, r)] /\ UNCHANGED stdout
     ELSE Says(<<Answer(r, FALSE, 0)>>) /\ UNCHANGED app
  /\ UNCHANGED log

AppReads ==
  /\ d.stdin # <<>> /\ d.micro = <<>>
  /\ d' = [d EXCEPT !.stdin = Tail(@)]
  /\ LET r == Head(d.stdin)
     IN  \/ AppTakesStart(r) \/ AppTakesSteer(r) \/ AppTakesStop(r)
         \/ /\ r.kind = "reply"
            /\ app' = [app EXCEPT !.asking = FALSE] /\ UNCHANGED <<stdout, log>>
  /\ UNCHANGED stops

AppStarts ==
  /\ app.running = 0 /\ app.queue # <<>>
  /\ app' = [app EXCEPT !.running = Head(app.queue), !.queue = Tail(@)]
  /\ Says(<<Line("started", Head(app.queue))>>)
  /\ UNCHANGED <<d, stops, log>>

\* A turn completes, or fails: with an error, or with that and a completion.
AppEnds ==
  /\ app.running # 0 /\ ~app.asking /\ app.stopping = <<>>
  /\ LET n == app.running
         ended == [app EXCEPT !.running = 0]
     IN  \/ app' = ended /\ Says(<<Line("completed", n)>>)
         \/ /\ Trouble
            /\ app' = Troubled(ended)
            /\ \/ Says(<<Line("error", n)>>)
               \/ Says(<<Line("error", n), Line("completed", n)>>)
  /\ UNCHANGED <<d, stops, log>>

AppStops ==
  /\ app.stopping # <<>> /\ ~app.asking
  /\ app' = [app EXCEPT !.running = 0, !.stopping = <<>>]
  /\ Says(<<Line("interrupted", app.running)>>
            \o [i \in DOMAIN app.stopping |-> Answer(app.stopping[i], TRUE, 0)])
  /\ UNCHANGED <<d, stops, log>>

AppAsks ==
  /\ app.running # 0 /\ app.stopping = <<>> /\ ~app.asking
  /\ app.asked < MaxAsks /\ MoreTrouble
  /\ app' = [app EXCEPT !.asking = TRUE, !.asked = @ + 1]
  /\ Says(<<Line("ask", app.running)>>)
  /\ UNCHANGED <<d, stops, log>>

AppWithdraws ==
  /\ app.asking
  /\ app' = [app EXCEPT !.asking = FALSE]
  /\ Says(<<Line("resolved", app.running)>>)
  /\ UNCHANGED <<d, stops, log>>

NoApp == [running |-> 0, queue |-> <<>>, stopping |-> <<>>, asking |-> FALSE,
          asked |-> 0, failures |-> 0]

\* Mutant: the requests without an answer are left waiting.
RejectNone(c) == c

\* #handleExit(): every request without an answer is rejected.
RejectAll(c) ==
  [c EXCEPT !.waiting = <<>>, !.micro = @ \o Rejections(c.waiting)]

\* The app-server exits, having been closed or of its own; what it had yet to
\* say is lost.
Exit ==
  /\ d.micro = <<>> /\ ~d.exited
  /\ d.finished \/ Trouble
  /\ LET c == [RejectAll(d) EXCEPT !.exited = TRUE, !.pipe = FALSE, !.stdin = <<>>]
     IN  d' = IF c.finished THEN c ELSE Chain(c, "exit", 0, 0)
  /\ app' = [NoApp EXCEPT !.asked = app.asked,
                           !.failures = IF d.finished THEN app.failures ELSE app.failures + 1]
  /\ stdout' = <<>>
  /\ UNCHANGED <<stops, log>>

-----------------------------------------------------------------------------
Init ==
  /\ d = [state |-> "idle", said |-> 0, closed |-> FALSE, ending |-> FALSE,
          retiring |-> FALSE, finished |-> FALSE, over |-> "none",
          gen |-> 0, active |-> FALSE, cur |-> 0, turnGen |-> 0,
          openings |-> <<>>, steers |-> <<>>, emitted |-> FALSE, text |-> 0,
          gate |-> FALSE, chain |-> <<>>, sync |-> "none", micro |-> <<>>,
          chunk |-> FALSE, waiting |-> <<>>, stdin |-> <<>>, pipe |-> TRUE,
          exited |-> FALSE]
  /\ stops = [i \in 0..MaxInterrupts |-> [at |-> "none", gen |-> 0]]
  /\ app = NoApp
  /\ stdout = <<>>
  /\ log = [turns |-> <<>>,    \* what opened each turn of the app-server
            results |-> <<>>,  \* sdk.result: of which turn, with whose text
            due |-> {},        \* turns that owe a result
            odd |-> {}]        \* which of the Oddities there were

App ==
  AppReads \/ AppStarts \/ AppEnds \/ AppStops \/ AppAsks \/ AppWithdraws

Next ==
  \/ ReadLine \/ RunMicro \/ SyncReturns
  \/ Message \/ Decide \/ Shutdown \/ End \/ Retire \/ ForceStop
  \/ \E i \in DOMAIN stops : Interrupt(i) \/ StopTimesOut(i) \/ StopSynced(i)
  \/ App \/ Exit

Spec == Init /\ [][Next]_vars

\* Lines are read, microtasks run, syncs and timeouts end, the app-server works
\* through what it reads, ends its turns, and exits once closed; a retire has
\* its grace only so long.  Nobody need answer an approval.
Fairness ==
  /\ WF_vars(ReadLine) /\ WF_vars(RunMicro) /\ WF_vars(SyncReturns)
  /\ \A i \in 0..MaxInterrupts : WF_vars(StopTimesOut(i)) /\ WF_vars(StopSynced(i))
  /\ WF_vars(AppReads) /\ WF_vars(AppStarts) /\ WF_vars(AppEnds) /\ WF_vars(AppStops)
  /\ WF_vars(d.finished /\ Exit) /\ WF_vars(ForceStop)

FairSpec == Spec /\ Fairness

-----------------------------------------------------------------------------
(* Properties *)

Results(n) == {k \in DOMAIN log.results : log.results[k].turn = n}
Turns == DOMAIN log.turns
Quiet == d.chain = <<>> /\ d.micro = <<>>

\* The type invariant: an awaited sync is a reaction's, every request without
\* an answer is one the app-server may still give.
TypeOK ==
  /\ d.state \in {"idle", "working", "blocked"}
  /\ d.over \in {"none", "ended", "error", "retired"}
  /\ d.cur \in 0..Len(log.turns) /\ d.said \in 0..MaxMessages
  /\ d.sync \in {"none", "result", "finish", "fail"} /\ (d.sync # "none" => d.chain # <<>>)
  /\ d.chunk => d.micro # <<>>
  /\ d.exited => d.waiting = <<>> /\ ~d.pipe
  /\ app.running \in 0..Len(log.turns) /\ log.due \subseteq Turns
  /\ log.odd \subseteq {"crossed", "late", "orphan"}

\* A turn that an interrupt withdrew is never taken for the live one: however
\* its answer, its start and its end interleave with the next message's, and
\* whatever requests were refused between.
CancelledNeverLive ==
  d.active /\ d.cur # 0 /\ ~d.finished => log.turns[d.cur].gen = d.gen

\* While no turn opens before the last one's result is out, a turn that ended
\* by itself has exactly one result, with no text but its own, and others have
\* none.
OneResult ==
  "crossed" \notin log.odd =>
    /\ \A n \in Turns : Cardinality(Results(n)) <= 1
    /\ \A k \in DOMAIN log.results :
         LET r == log.results[k] IN r.turn \in log.due /\ r.text \in {0, r.turn}
    /\ Quiet /\ ~d.finished => \A n \in log.due : Results(n) # {}

\* The session is not idle over a turn that runs and that the driver has heard
\* start: the control plane would complete the run under a working agent.
IdleNotOverLive ==
  d.state = "idle" /\ ~Over =>
    ~(d.active /\ d.cur # 0 /\ app.running = d.cur /\ d.openings = <<>>)

\* A session whose input ends settles: idle, over, or waiting for a person;
\* unless turns crossed, or an approval came from a turn interrupted before.
Settles ==
  <>[](d.state = "idle" \/ Over \/ d.gate \/ log.odd \intersect {"crossed", "orphan"} # {})

\* A wind-down begun always ends, unless an interrupt takes away the result it
\* was left to.
WindsDown ==
  d.closed ~> (Over \/ log.odd \intersect {"crossed", "late"} # {})

\* codex.mjs: "Exactly one result per turn: a turn that both errors and
\* completes must not emit twice."
NeverTwice == \A n \in Turns : Cardinality(Results(n)) <= 1
=============================================================================
