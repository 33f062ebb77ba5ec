---------------------------- MODULE OpenCodeTurns ----------------------------
(***************************************************************************)
(* Turns of the OpenCode harness (drivers/opencode.mjs) over its client    *)
(* (opencode-client.mjs).  Requests to the server go out in parallel; what *)
(* it does comes back on one event stream, which names no turn, replays    *)
(* nothing, and may drop.  Results are chained behind the events and wait  *)
(* for a cost reading and a disk sync while people speak, interrupt and    *)
(* end.  A command is a turn that keeps messages out.                      *)
(***************************************************************************)
EXTENDS Naturals, SequencesExt

CONSTANTS
  MAX_SSE_FAILURES,  \* drops in a row, with nothing delivered, that end it
  MaxPrompts,        \* bound: messages and commands sent
  MaxCommands,       \* bound: commands among them
  MaxInterrupts,     \* bound: interrupts, numbered in order
  MaxDrops,          \* bound: drops of the event stream
  MaxTroubles,       \* bound: interrupts, drops, asks, lost requests, exits together
  MaxEnds            \* bound: ways its end is asked for

ASSUME OpenCodeAssumption ==
  /\ MAX_SSE_FAILURES \in Nat \ {0}
  /\ MaxPrompts \in Nat /\ MaxCommands \in Nat /\ MaxInterrupts \in Nat
  /\ MaxTroubles \in Nat /\ MaxDrops \in Nat /\ MaxEnds \in Nat

VARIABLES
  d,      \* the driver and the session record
  stops,  \* where each interrupt() is, and shutdownStop() as number 0
  posts,  \* the requests on their way
  srv,    \* external: the server
  conn,   \* the client's event stream
  wire,   \* the events on it
  log     \* history: see Init

vars == <<d, stops, posts, srv, conn, wire, log>>

-----------------------------------------------------------------------------
(* The synchronous parts, each from a driver to the next.                    *)

\* chain(): a reaction is due at once when none goes before it.
Chain(c, reaction) ==
  [c EXCEPT !.chain = Append(@, reaction),
            !.sync = IF c.chain = <<>> THEN "due" ELSE @]

Reaction(kind) == [kind |-> kind, seq |-> 0, gen |-> 0, text |-> 0, run |-> 0]

\* Mutant: the next reaction waits for another to be chained.
GoOnLater(c) == [c EXCEPT !.chain = Tail(@), !.sync = "none"]

GoOn(c) ==
  [c EXCEPT !.chain = Tail(@), !.sync = IF Len(c.chain) = 1 THEN "none" ELSE "due"]

\* resetTurnState()
Armed(c) ==
  [c EXCEPT !.active = TRUE, !.seq = @ + 1, !.turnGen = c.gen, !.text = 0,
            !.state = "working"]

\* releaseControl(): only of a command turn this driver opened.
ReleaseControl(c) ==
  [c EXCEPT !.held = FALSE, !.ctl = IF c.held THEN "none" ELSE @]

CancelGate(c) == [c EXCEPT !.gate = FALSE]

Unblock(c) == IF c.state = "blocked" THEN [c EXCEPT !.state = "working"] ELSE c

\* Mutant: an interrupted prompt's run is taken up again too.
OnBusyAny(c) ==
  IF c.active \/ c.finished \/ c.closed \/ c.ending \/ c.emitted < c.seq
  THEN c ELSE Armed(c)

\* session.status busy: with no turn armed it opens one, unless an interrupt
\* came after the last prompt.
OnBusy(c) ==
  IF c.active \/ c.finished \/ c.closed \/ c.ending \/ c.lastGen # c.gen \/ c.emitted < c.seq
  THEN c ELSE Armed(c)

\* message.part.updated: lastText, also with no turn armed.
OnText(c, run) == [c EXCEPT !.text = run]

\* session.idle: the turn is what the driver remembers of it now.  run is history.
OnIdle(c, run) ==
  IF ~c.active THEN c
  ELSE Chain([c EXCEPT !.active = FALSE],
             [kind |-> "result", seq |-> c.seq, gen |-> c.turnGen, text |-> c.text,
              run |-> run])

\* awaitDecision(): a person is asked, whatever the session does by now.
Parked(c) ==
  [c EXCEPT !.gate = TRUE, !.state = IF c.over = "none" THEN "blocked" ELSE @]

\* permission.asked: a session that is ending rejects; else a person is asked, for
\* an MCP tool after a wait for the arguments of the call.
OnAsk(c, mcp) ==
  IF c.ending THEN c ELSE IF mcp THEN [c EXCEPT !.awaiting = TRUE] ELSE Parked(c)

\* finish() and fail() up to their sync; the server is closed.
Finish(c) ==
  IF c.finished THEN GoOn(c) ELSE [c EXCEPT !.finished = TRUE, !.sync = "finish"]
Fail(c) ==
  IF c.finished THEN GoOn(c)
  ELSE ReleaseControl([c EXCEPT !.finished = TRUE, !.sync = "fail"])

\* A reaction runs, up to its sync.
React(c) ==
  LET h == Head(c.chain)
  IN  CASE h.kind = "result" ->
             IF h.gen # c.gen \/ c.finished \/ c.emitted >= h.seq THEN GoOn(c)
             ELSE [c EXCEPT !.emitted = h.seq, !.sync = "result"]
        [] h.kind = "finish" -> Finish(c)
        [] h.kind = "fail"   -> Fail(c)
        [] h.kind = "exit"   -> IF c.closed THEN Finish(c) ELSE Fail(c)

\* Mutant: the result is of the turn remembered when it goes out.
ResultLive(c) ==
  [seq |-> Head(c.chain).seq, text |-> c.text, gen |-> c.gen, run |-> Head(c.chain).run]

\* The result is of the turn's snapshot.
Result(c) ==
  LET h == Head(c.chain)
  IN  [seq |-> h.seq, text |-> h.text, gen |-> h.gen, run |-> h.run]

\* Mutant: a command's turn ends and keeps the session.
AfterResultHeld(c) ==
  IF c.finished THEN GoOn(c)
  ELSE IF c.closed \/ c.ending THEN Finish(c)
  ELSE GoOn([c EXCEPT !.state = IF c.active THEN @ ELSE "idle"])

\* The result is out.
AfterResult(c) ==
  LET free == ReleaseControl(c)
  IN  IF c.finished THEN GoOn(free)
      ELSE IF c.closed \/ c.ending THEN Finish(free)
      ELSE GoOn([free EXCEPT !.state = IF c.active THEN @ ELSE "idle"])

-----------------------------------------------------------------------------
(* Reactions, behind the frames of a chunk                                   *)

NotDue == d.sync # "due"

ReactionRuns ==
  /\ ~NotDue
  /\ d' = React([d EXCEPT !.chunk = FALSE])
  /\ UNCHANGED <<stops, posts, srv, conn, wire, log>>

\* The cost is read and the disk synced.
SyncReturns ==
  /\ d.sync \in {"result", "finish", "fail"}
  /\ \/ /\ d.sync = "result"
        /\ d' = AfterResult(d)
        /\ log' = [log EXCEPT !.results = Append(@, Result(d))]
     \/ /\ d.sync # "result"
        /\ d' = GoOn([d EXCEPT !.over =
                  IF @ # "none" THEN @ ELSE IF d.retiring THEN "retired"
                  ELSE IF d.sync = "finish" THEN "ended" ELSE "error"])
        /\ UNCHANGED log
  /\ UNCHANGED <<stops, posts, srv, conn, wire>>

\* Bound: what has gone wrong so far leaves room for more.
MoreTrouble ==
  Cardinality({i \in 1..MaxInterrupts : stops[i].at # "none"})
    + conn.drops + srv.asked + srv.failures < MaxTroubles

-----------------------------------------------------------------------------
(* The event stream                                                          *)

\* Oddities: the idle of a run interrupted before is taken for the live turn's;
\* the next run starts before the last one's result is under way; no live turn
\* is behind what a person is asked.
Oddities(ev, mcp) ==
  IF ev.kind = "idle" /\ d.active /\ log.runs[ev.run] # d.turnGen THEN {"stale"}
  ELSE IF ev.kind = "busy" /\ ~d.active /\ d.emitted < d.seq THEN {"early"}
  ELSE IF ev.kind = "ask" /\ ~mcp /\ ~d.active THEN {"orphan"}
  ELSE {}

\* A frame is read: before a reaction due only behind others of its chunk.
ReadFrame ==
  /\ wire # <<>> /\ ~conn.closed /\ (NotDue \/ d.chunk)
  /\ \E mcp \in BOOLEAN :
     LET ev == Head(wire)
         c == CASE ev.kind = "busy" -> OnBusy(d)
                [] ev.kind = "text" -> OnText(d, ev.run)
                [] ev.kind = "idle" -> OnIdle(d, ev.run)
                [] ev.kind = "ask"  -> OnAsk(d, mcp)
     IN  /\ d' = [c EXCEPT !.chunk = (c.sync = "due")]
         /\ srv' = IF ev.kind = "ask" /\ d.ending THEN [srv EXCEPT !.asking = FALSE] ELSE srv
         /\ log' = [log EXCEPT !.odd = @ \union Oddities(ev, mcp), !.dry = 0]
  /\ wire' = Tail(wire)
  /\ conn' = [conn EXCEPT !.delivered = TRUE, !.failures = IF conn.delivered THEN @ ELSE 0]
  /\ UNCHANGED <<stops, posts>>

\* toolCallInput() has the arguments or gives up on them.  Neither s.ending nor an
\* interrupt since is looked at again.
AskParks ==
  /\ NotDue /\ d.awaiting
  /\ d' = Parked([d EXCEPT !.awaiting = FALSE])
  /\ log' = [log EXCEPT !.odd = IF d.active THEN @ ELSE @ \union {"orphan"}]
  /\ UNCHANGED <<stops, posts, srv, conn, wire>>

\* What is missed with these frames: a text, or what the driver acts on.
Losing(frames) ==
  {IF frames[i].kind = "text" THEN "unheard" ELSE "lost" : i \in DOMAIN frames}

Listening == NotDue /\ ~conn.closed /\ ~d.finished
Dropping == conn.drops < MaxDrops /\ MoreTrouble

\* The stream fails once more: once too often, the session does.
Fails(n) ==
  LET failed == [conn EXCEPT !.failures = @ + n, !.up = FALSE, !.drops = @ + 1]
  IN  /\ IF failed.failures < MAX_SSE_FAILURES
         THEN conn' = failed /\ UNCHANGED d
         ELSE conn' = [failed EXCEPT !.closed = TRUE] /\ d' = Chain(d, Reaction("exit"))
      /\ log' = [log EXCEPT !.odd = @ \union Losing(wire), !.dry = @ + n]
      /\ wire' = <<>>
      /\ UNCHANGED <<stops, posts, srv>>

\* The stream ends, in an error or cleanly: what was still on it is lost, and a
\* clean end counts only when nothing was delivered.
StreamEnds ==
  /\ Listening /\ conn.up /\ Dropping
  /\ Fails(1) \/ (conn.delivered /\ Fails(0))

ConnectFails == Listening /\ ~conn.up /\ Dropping /\ Fails(1)

\* Mutant: a stream that opens is one that works.
ConnectedFresh == [conn EXCEPT !.up = TRUE, !.delivered = FALSE, !.failures = 0]

\* failures stay: only an event delivered says that the stream works.
Connected == [conn EXCEPT !.up = TRUE, !.delivered = FALSE]

Connects ==
  /\ Listening /\ ~conn.up /\ srv.up
  /\ conn' = Connected
  /\ UNCHANGED <<d, stops, posts, srv, wire, log>>

-----------------------------------------------------------------------------
(* What people and the daemon ask of the driver                              *)

Over == d.over # "none"

Post(kind, n, gen) == [kind |-> kind, n |-> n, gen |-> gen]

\* sendPrompt(), or sendFollowUp() into the live turn
Prompted(c) ==
  LET sent == [c EXCEPT !.said = @ + 1, !.lastGen = c.gen, !.state = "working"]
  IN  IF c.active THEN sent ELSE Armed(sent)

\* queueMessage(), which the daemon refuses while a command holds the session.
Message ==
  /\ NotDue /\ ~d.closed /\ ~d.finished /\ d.ctl = "none" /\ d.said < MaxPrompts
  /\ d' = Prompted(d)
  /\ posts' = posts \union
       {Post(IF d.active THEN "follow" ELSE "prompt", d.said + 1, d.gen)}
  /\ UNCHANGED <<stops, srv, conn, wire, log>>

\* handleCommand(): the session is reserved, then the commands are listed.
Command ==
  /\ NotDue /\ ~Over /\ d.state = "idle" /\ d.ctl = "none"
  /\ d.said < MaxPrompts /\ d.commands < MaxCommands
  /\ d' = [d EXCEPT !.ctl = "command", !.listing = TRUE, !.commands = @ + 1]
  /\ UNCHANGED <<stops, posts, srv, conn, wire, log>>

\* invokeCommand() goes on: it takes the session, or gives it back when the list
\* fails, does not name the command, or comes as the harness winds down.
CommandOpens ==
  /\ NotDue /\ d.listing
  /\ LET c == [d EXCEPT !.listing = FALSE]
     IN  \/ /\ ~d.closed /\ ~d.finished
            /\ d' = Prompted([c EXCEPT !.held = TRUE])
            /\ posts' = posts \union {Post("command", d.said + 1, d.gen)}
         \/ d' = [c EXCEPT !.ctl = "none"] /\ UNCHANGED posts
  /\ UNCHANGED <<stops, srv, conn, wire, log>>

\* A person decides; the reply releases the tool.
Decide ==
  /\ NotDue /\ d.gate
  /\ d' = Unblock(CancelGate(d))
  /\ srv' = [srv EXCEPT !.asking = FALSE]
  /\ UNCHANGED <<stops, posts, conn, wire, log>>

\* interrupt() up to its first await, and shutdownStop() as number 0: what waits
\* for a person is rejected first.
Interrupt(i) ==
  /\ NotDue /\ i > 0 /\ stops[i].at = "none" /\ MoreTrouble
  /\ \A j \in 1..(i - 1) : stops[j].at # "none"
  /\ d' = CancelGate([d EXCEPT !.gen = @ + 1, !.active = FALSE])
  /\ stops' = [stops EXCEPT ![i] = [at |-> "asking", gen |-> d.gen + 1]]
  /\ posts' = posts \union {Post("abort", i, d.gen + 1)}
  /\ srv' = IF d.gate THEN [srv EXCEPT !.asking = FALSE] ELSE srv
  /\ UNCHANGED <<conn, wire, log>>

MoreEnds ==
  Cardinality({w \in {"shutdown", "end", "retire"} :
                 \/ w = "shutdown" /\ stops[0].at # "none"
                 \/ w = "end" /\ d.ending
                 \/ w = "retire" /\ d.retiring}) < MaxEnds

Shutdown ==
  /\ NotDue /\ ~Over /\ stops[0].at = "none" /\ MoreEnds
  /\ d' = CancelGate([d EXCEPT !.closed = TRUE, !.gen = @ + 1, !.active = FALSE])
  /\ stops' = [stops EXCEPT ![0] = [at |-> "asking", gen |-> d.gen + 1]]
  /\ posts' = posts \union {Post("abort", 0, d.gen + 1)}
  /\ srv' = IF d.gate THEN [srv EXCEPT !.asking = FALSE] ELSE srv
  /\ UNCHANGED <<conn, wire, log>>

\* The abort is answered, refused or timed out.
StopAnswered(i) ==
  IF i = 0
  THEN d' = Chain(d, Reaction("finish")) /\ stops' = [stops EXCEPT ![0].at = "done"]
  ELSE d' = d /\ stops' = [stops EXCEPT ![i].at = "syncing"]

\* interrupt() goes on after its sync.
StopSynced(i) ==
  /\ NotDue /\ i > 0 /\ stops[i].at = "syncing"
  /\ stops' = [stops EXCEPT ![i].at = "done"]
  /\ LET free == ReleaseControl(d)
     IN  d' = IF ~d.finished /\ d.gen = stops[i].gen /\ ~d.active
              THEN [free EXCEPT !.state = "idle"] ELSE free
  /\ UNCHANGED <<posts, srv, conn, wire, log>>

\* beginEnd() leaves a running turn its end: its result winds down.
BeginEnd(c) ==
  LET closed == [c EXCEPT !.closed = TRUE]
  IN  IF c.active THEN closed ELSE Chain(closed, Reaction("finish"))

\* endSession()
End ==
  /\ NotDue /\ ~Over /\ ~d.ending /\ MoreEnds
  /\ d' = BeginEnd(CancelGate([d EXCEPT !.ending = TRUE]))
  /\ srv' = IF d.gate THEN [srv EXCEPT !.asking = FALSE] ELSE srv
  /\ UNCHANGED <<stops, posts, conn, wire, log>>

\* retire(), for a set-up change, once idle.
Retire ==
  /\ NotDue /\ ~Over /\ ~d.closed /\ MoreEnds
  /\ d.state = "idle" /\ ~d.gate /\ d.ctl = "none"
  /\ d' = BeginEnd([d EXCEPT !.retiring = TRUE])
  /\ UNCHANGED <<stops, posts, srv, conn, wire, log>>

\* The grace passes: forceStop().
ForceStop ==
  /\ NotDue /\ d.retiring /\ ~Over
  /\ d' = [d EXCEPT !.gen = @ + 1, !.finished = TRUE, !.over = "retired"]
  /\ UNCHANGED <<stops, posts, srv, conn, wire, log>>

-----------------------------------------------------------------------------
(* The server (external): as opencode.mjs uses it and its comments describe   *)
(* it.  Prompts reach it in order, an abort before or after what was sent     *)
(* earlier.  It runs one after another; one queued behind a run may fold into *)
(* it.                                                                        *)

Frame(kind, run) == [kind |-> kind, run |-> run]

\* Nothing is replayed: what is said while nobody listens is lost.
Says(frames) == wire' = IF conn.up THEN wire \o frames ELSE wire
LostBy(frames) == IF conn.up THEN {} ELSE Losing(frames)

\* The next of the queued prompts runs.
Starts(s, said) ==
  IF s.queue = <<>>
  THEN /\ srv' = [s EXCEPT !.running = 0] /\ Says(said)
       /\ log' = [log EXCEPT !.odd = @ \union LostBy(said)]
  ELSE LET run == Len(log.runs) + 1
           frames == said \o <<Frame("busy", run)>>
       IN  /\ srv' = [s EXCEPT !.running = run, !.queue = Tail(@)]
           /\ Says(frames)
           /\ log' = [log EXCEPT !.runs = Append(@, Head(s.queue)),
                                 !.odd = @ \union LostBy(frames)]

SrvTakes(p) ==
  /\ NotDue /\ srv.up /\ p \in posts /\ p.kind # "abort"
  /\ \A q \in posts : q.kind # "abort" => p.n <= q.n
  /\ posts' = posts \ {p}
  /\ LET queued == [srv EXCEPT !.queue = Append(@, p.gen)]
     IN  IF srv.running = 0 THEN Starts(queued, <<>>)
         ELSE srv' = queued /\ UNCHANGED <<wire, log>>
  /\ UNCHANGED <<d, stops, conn>>

SrvFolds ==
  /\ srv.running # 0 /\ srv.queue # <<>> /\ ~srv.asking
  /\ srv' = [srv EXCEPT !.queue = Tail(@)]
  /\ UNCHANGED <<d, stops, posts, conn, wire, log>>

\* The last part of a run's text; a run need not have one.
SrvWrites ==
  /\ srv.running # 0 /\ ~srv.asking /\ srv.running \notin log.wrote
  /\ Says(<<Frame("text", srv.running)>>)
  /\ log' = [log EXCEPT !.wrote = @ \union {srv.running},
                        !.odd = @ \union LostBy(<<Frame("text", srv.running)>>)]
  /\ UNCHANGED <<d, stops, posts, srv, conn>>

SrvEnds ==
  /\ srv.running # 0 /\ ~srv.asking
  /\ Starts(srv, <<Frame("idle", srv.running)>>)
  /\ UNCHANGED <<d, stops, posts, conn>>

SrvAsks ==
  /\ srv.running # 0 /\ ~srv.asking /\ srv.asked < 1 /\ MoreTrouble
  /\ srv' = [srv EXCEPT !.asking = TRUE, !.asked = @ + 1]
  /\ Says(<<Frame("ask", srv.running)>>)
  /\ log' = [log EXCEPT !.odd = @ \union LostBy(<<Frame("ask", srv.running)>>)]
  /\ UNCHANGED <<d, stops, posts, conn>>

\* An abort ends the run, and what is queued behind it.
SrvAborts(p) ==
  /\ NotDue /\ srv.up /\ p \in posts /\ p.kind = "abort"
  /\ posts' = posts \ {p}
  /\ StopAnswered(p.n)
  /\ IF srv.running = 0 THEN UNCHANGED <<srv, wire, log>>
     ELSE Starts([srv EXCEPT !.queue = <<>>, !.asking = FALSE],
                 <<Frame("idle", srv.running)>>)
  /\ UNCHANGED conn

\* A prompt that is not taken fails the session, unless an interrupt withdrew it.
Refused(c, p) ==
  IF p.gen # c.gen \/ c.finished THEN c
  ELSE Chain(CASE p.kind = "prompt"  -> [c EXCEPT !.active = FALSE]
               [] p.kind = "command" -> ReleaseControl([c EXCEPT !.active = FALSE])
               [] p.kind = "follow"  -> c,
             Reaction("fail"))

\* A request is refused, times out, or finds no server.
PostFails(p) ==
  /\ NotDue /\ p \in posts
  /\ posts' = posts \ {p}
  /\ IF srv.up THEN MoreTrouble /\ srv' = [srv EXCEPT !.failures = @ + 1] ELSE UNCHANGED srv
  /\ IF p.kind = "abort" THEN StopAnswered(p.n)
     ELSE d' = Refused(d, p) /\ UNCHANGED stops
  /\ UNCHANGED <<conn, wire, log>>

\* The server exits, having been closed or of its own.
SrvExits ==
  /\ NotDue /\ srv.up
  /\ d.finished \/ MoreTrouble
  /\ srv' = [srv EXCEPT !.up = FALSE, !.running = 0, !.queue = <<>>, !.asking = FALSE,
                        !.failures = IF d.finished THEN @ ELSE @ + 1]
  /\ wire' = <<>>
  /\ conn' = [conn EXCEPT !.closed = TRUE, !.up = FALSE]
  /\ d' = IF d.finished \/ conn.closed THEN d ELSE Chain(d, Reaction("exit"))
  /\ UNCHANGED <<stops, posts, log>>

-----------------------------------------------------------------------------
Init ==
  /\ d = [state |-> "idle", said |-> 0, commands |-> 0, closed |-> FALSE,
          ending |-> FALSE, retiring |-> FALSE, finished |-> FALSE, over |-> "none",
          gen |-> 0, active |-> FALSE, seq |-> 0, emitted |-> 0, turnGen |-> 0,
          lastGen |-> 0, text |-> 0, gate |-> FALSE, awaiting |-> FALSE, ctl |-> "none",
          listing |-> FALSE, held |-> FALSE, chain |-> <<>>, sync |-> "none",
          chunk |-> FALSE]
  /\ stops = [i \in 0..MaxInterrupts |-> [at |-> "none", gen |-> 0]]
  /\ posts = {}
  /\ srv = [up |-> TRUE, running |-> 0, queue |-> <<>>, asking |-> FALSE, asked |-> 0,
            failures |-> 0]
  /\ conn = [up |-> TRUE, delivered |-> FALSE, failures |-> 0, closed |-> FALSE, drops |-> 0]
  /\ wire = <<>>
  /\ log = [runs |-> <<>>,     \* the generation each run's prompt was sent in
            results |-> <<>>,  \* sdk.result: of which turn, with which run's text,
                               \* 0 if empty, and whose idle it was
            wrote |-> {},      \* the runs that said a text
            dry |-> 0,         \* failures of the stream since its last event
            odd |-> {}]

Next ==
  \/ ReadFrame \/ ReactionRuns \/ SyncReturns
  \/ StreamEnds \/ ConnectFails \/ Connects
  \/ Message \/ Command \/ CommandOpens \/ AskParks \/ Decide
  \/ Shutdown \/ End \/ Retire \/ ForceStop
  \/ \E i \in DOMAIN stops : Interrupt(i) \/ StopSynced(i)
  \/ \E p \in posts : SrvTakes(p) \/ SrvAborts(p) \/ PostFails(p)
  \/ SrvFolds \/ SrvWrites \/ SrvEnds \/ SrvAsks \/ SrvExits

Spec == Init /\ [][Next]_vars

\* What never waits forever: frames are read, reactions run, syncs and waits end;
\* the client connects again; the server takes what it is sent, ends its runs, and
\* exits once closed; a retire has its grace only so long.  Nobody need answer what
\* is asked.  One condition is enough for all: every behaviour is bounded.
Obliged ==
  \/ ReadFrame \/ ReactionRuns \/ SyncReturns
  \/ Connects \/ CommandOpens \/ AskParks \/ ForceStop
  \/ \E i \in DOMAIN stops : StopSynced(i)
  \/ \E p \in posts : SrvTakes(p) \/ SrvAborts(p) \/ (~srv.up /\ PostFails(p))
  \/ SrvEnds \/ (d.finished /\ SrvExits)

Fairness == WF_vars(Obliged)

FairSpec == Spec /\ Fairness

-----------------------------------------------------------------------------
(* Properties *)

\* The type invariant: a reaction under way is the chain's first, a held session
\* is a command's.
TypeOK ==
  /\ d.state \in {"idle", "working", "blocked"}
  /\ d.over \in {"none", "ended", "error", "retired"}
  /\ d.sync \in {"none", "due", "result", "finish", "fail"}
  /\ d.sync = "none" <=> d.chain = <<>>
  /\ d.emitted \in 0..d.seq /\ d.ctl \in {"none", "command"}
  /\ conn.failures \in 0..MAX_SSE_FAILURES /\ (conn.up => ~conn.closed)
  /\ srv.running \in 0..Len(log.runs)
  /\ log.odd \subseteq {"stale", "early", "lost", "unheard", "orphan"}

\* However prompts race the result that is going out, whatever is lost and whatever
\* comes late: results are of one turn after the other, and what a run said is in
\* one of them at most, before what later runs said.
ResultsInOrder ==
  \A k, l \in DOMAIN log.results : k < l =>
    /\ log.results[k].seq < log.results[l].seq
    /\ log.results[l].text # 0 => log.results[k].text < log.results[l].text

\* A result has the text of the run whose idle it reports, and is empty only if
\* that run said nothing; unless something was lost, an interrupted run's idle came
\* late, or a run began before the last result was under way.
ResultsTelling ==
  log.odd \intersect {"lost", "unheard", "stale", "early"} = {} =>
    \A k \in DOMAIN log.results :
      log.results[k].text =
        IF log.results[k].run \in log.wrote THEN log.results[k].run ELSE 0

\* Each turn's result is its own (emitResult reports a snapshot).
OwnResults == ResultsInOrder /\ ResultsTelling

\* A run whose prompt an interrupt withdrew is never taken up again as a turn,
\* even when the server says it is busy with it only now; unless the idle of
\* such a run was taken for the live turn's before.
NeverResurrected ==
  [][\A n \in 1..Len(log.runs) :
       wire # <<>> /\ Head(wire) = Frame("busy", n) /\ wire' = Tail(wire) /\ d'.seq > d.seq
         /\ "stale" \notin log.odd
         => log.runs[n] = d.gen]_vars

\* A session whose input ends settles, its commands' reservation released: it is
\* idle, over, or waits for a person; unless an event was lost, an interrupted
\* run's idle or ask came late, or a run began before the last result was under
\* way.
Settles ==
  <>[](\/ d.state = "idle" /\ d.ctl = "none"
       \/ Over \/ d.gate
       \/ log.odd \intersect {"lost", "stale", "early", "orphan"} # {})

\* A stream that only fails is reported: the session ends.
DeadStreamReported == log.dry >= MAX_SSE_FAILURES ~> Over

\* opencode-client.mjs: "One SSE drop is survivable (the server buffers
\* nothing, but our state machine re-reads terminal state via GET /session)."
DropSurvived == <>[](d.state = "idle" \/ Over \/ d.gate)
=============================================================================
