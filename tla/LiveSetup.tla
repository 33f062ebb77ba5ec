------------------------------ MODULE LiveSetup ------------------------------
(***************************************************************************)
(* A live set-up change (server.mjs, session-setup.mjs, #2004).  The chat's *)
(* sharing changes while its session runs: input is held from then on, and *)
(* at the next turn boundary, once the control plane says the workspace is *)
(* re-seeded, the harness restarts in place and takes what was held.  The  *)
(* session record is s, as in the code.  Handlers run up to an await, so a *)
(* swap is several actions (phase says which await it is in) that messages,*)
(* further set-ups, End, shutdown and the harness itself interleave with.  *)
(***************************************************************************)
EXTENDS Naturals, SequencesExt, SeqFilter

CONSTANTS
  Members, Platform, NoOne,  \* who speaks; Platform is the control plane
  Messages, Author,          \* the messages sent, each by Author[m]
  Setups,        \* the set-ups in the order the control plane decides them:
                 \* [keep, answers : Members \union {NoOne}, stop : BOOLEAN]
  NoSetup,
  Seeding,       \* whether the home volume is still seeding at the start
  MaxSelfTurns,  \* bound: turns the harness starts of its own
  MaxTurns       \* bound: those and the messages taken

\* A set-up the session holds, see Received.
SetupRec ==
  [n : DOMAIN Setups, keep : Members \union {NoOne}, answers : Members \union {NoOne},
   stop : BOOLEAN, signaled : BOOLEAN, urgent : BOOLEAN, overdue : BOOLEAN]

ASSUME SetupAssumption ==
  /\ Platform \notin Members /\ NoOne \notin Members
  /\ Author \in [Messages -> Members \union {Platform}]
  /\ Setups \in Seq([keep : Members \union {NoOne},
                     answers : Members \union {NoOne}, stop : BOOLEAN])
  /\ NoSetup \notin SetupRec
  /\ Seeding \subseteq BOOLEAN /\ MaxSelfTurns \in Nat /\ MaxTurns \in Nat

VARIABLES
  s,          \* the session record
  phase,      \* the await a swap, or the deferred first start, is at
  alive,      \* harness processes that may be running, by number
  shutting,   \* shuttingDown
  exited,
  got,        \* history: what was handed to harnesses, in order
  allowed     \* history: who allowed what, [by, owner]

vars == <<s, phase, alive, shutting, exited, got, allowed>>

States == {"starting", "idle", "working", "blocked", "ended", "error"}

\* "leaving" is abandonDaemon's last drain, "stopping" a shutdown's wait for
\* the harness a swap has just built.
Swapping == {"retiring", "aborting", "building", "stopping", "leaving"}

Done(t) == t.state \in {"ended", "error"}

-----------------------------------------------------------------------------
(* The synchronous parts, each from a session record to the next *)

SetIdle(t) ==
  IF Done(t) \/ t.state = "idle" THEN t
  ELSE [t EXCEPT !.state = "idle", !.settled = FALSE]

ResumeIfUnblocked(t) ==
  IF t.state = "blocked" /\ ~t.asks /\ t.park = "none"
  THEN [t EXCEPT !.state = "working"] ELSE t

EndNeverStarted(t) == IF Done(t) THEN t ELSE [t EXCEPT !.state = "ended"]

\* The seed stub (harness 0) ends the session at once; a harness only closes
\* its input and ends once its turn is over.
BeginEnd(t) ==
  IF t.harness = 0 THEN EndNeverStarted(t) ELSE [t EXCEPT !.closed = TRUE]

\* Nothing may wait on a person or a timer any more.
CancelPending(t) ==
  LET denied == [t EXCEPT !.asks = FALSE]
  IN  IF t.park = "none" THEN denied
      ELSE ResumeIfUnblocked([denied EXCEPT !.park = "none"])

\* A member's message ends the wait for a task, never a sleep.
CancelTaskWait(t, m) ==
  IF Author[m] # Platform /\ t.park = "task"
  THEN ResumeIfUnblocked([t EXCEPT !.park = "none"]) ELSE t

Forget(t, items) == t.taken \ {i.m : i \in items}

\* Mutant: a dropped message stays known as taken.
DropHeldRemembering(t) == [t EXCEPT !.held = <<>>]

DropHeld(t) == [t EXCEPT !.taken = Forget(t, ToSet(t.held)), !.held = <<>>]

\* keepsInput(): the control plane's own messages always stay.
Keeps(keep, m) == keep = NoOne \/ Author[m] \in {Platform, keep}

\* Mutant: what is already held is not filtered.
DropNothing(t, keep) == t

DropHeldFrom(t, keep) ==
  LET kept == Filter(t.held, {i \in ToSet(t.held) : Keeps(keep, i.m)})
  IN  [t EXCEPT !.taken = Forget(t, ToSet(t.held) \ ToSet(kept)), !.held = kept]

AbandonSetup(t) ==
  DropHeld([t EXCEPT !.setup = NoSetup, !.answersFrom = NoOne, !.timer = FALSE])

EndSession(t) ==
  BeginEnd(AbandonSetup(CancelPending([t EXCEPT !.ending = TRUE])))

Pending(t) == t.setup # NoSetup
InputHeld(t) == Pending(t) \/ t.swapping # NoSetup

\* A set-up whose apply did not come in time.
Expired(setup) == setup.overdue /\ ~setup.signaled

ReadyToSwap(t) ==
  /\ ~t.ending /\ t.state = "idle" /\ t.busy = "none"
  /\ ~t.asks /\ t.park = "none"
  /\ \/ t.setup.stop \/ t.setup.urgent \/ t.held # <<>>
     \/ ~t.background /\ t.settled

\* applySetup() up to its first await: the old harness is retiring.
StartSwap(t) ==
  [t EXCEPT !.swapping = t.setup, !.setup = NoSetup, !.timer = FALSE,
            !.busy = "setup", !.closed = TRUE]

\* Mutant: a set-up whose apply never came is left pending.
MaybeApplyUnexpired(t) ==
  IF ~Pending(t) THEN [t EXCEPT !.timer = FALSE]
  ELSE IF Done(t) \/ t.ending THEN AbandonSetup(t)
  ELSE IF /\ t.swapping = NoSetup /\ t.setup.signaled
          /\ t.harness # 0 /\ ReadyToSwap(t)
       THEN StartSwap(t) ELSE t

\* maybeApplySetup().  The seed stub has no harness to retire.
MaybeApply(t) ==
  IF ~Pending(t) THEN [t EXCEPT !.timer = FALSE]
  ELSE IF Done(t) \/ t.ending THEN AbandonSetup(t)
  ELSE IF Expired(t.setup) THEN EndSession(t)
  ELSE IF /\ t.swapping = NoSetup /\ t.setup.signaled
          /\ t.harness # 0 /\ ReadyToSwap(t)
       THEN StartSwap(t) ELSE t

\* Mutant: the reservation is kept while a later set-up waits.
FinallyReserved(t) ==
  LET over == [t EXCEPT !.swapping = NoSetup]
  IN  IF Pending(over) THEN MaybeApply([over EXCEPT !.timer = TRUE])
      ELSE [over EXCEPT !.answersFrom = NoOne, !.busy = "none"]

\* The end of applySetup(), however it went.
Finally(t) ==
  LET over == [t EXCEPT !.swapping = NoSetup,
                        !.busy = IF @ = "setup" THEN "none" ELSE @]
  IN  IF Pending(over) THEN MaybeApply([over EXCEPT !.timer = TRUE])
      ELSE [over EXCEPT !.answersFrom = NoOne]

\* The phase after a step that may have started a swap.
PhaseOf(t) ==
  IF t.swapping # NoSetup /\ s.swapping = NoSetup THEN "retiring" ELSE phase

Becomes(t) == s' = t /\ phase' = PhaseOf(t)

\* The phase after Finally: a swap it began itself is retiring.
PhaseAfterSwap(t) == IF t.swapping = NoSetup THEN "none" ELSE "retiring"

Untouched == UNCHANGED <<shutting, exited, allowed>>

-----------------------------------------------------------------------------
(* Messages *)

\* What the harness hears: the message, its place among those taken, the
\* set-up in force when it was said, the one the harness runs on, and who the
\* chat belonged to when it was handed over.
Heard(t, item) ==
  [m |-> item.m, n |-> item.n, said |-> item.said, spec |-> t.spec,
   filter |-> t.authorFilter]

Item(m) == [m |-> m, n |-> s.takenCount + 1, said |-> s.latest]

Take(m) == [s EXCEPT !.taken = @ \union {m}, !.takenCount = @ + 1]

\* handleMessage() of a new message no set-up holds.  Refusals change nothing.
Deliver(m) ==
  /\ s.busy = "none" /\ ~Done(s) /\ ~s.closed
  /\ ~(s.harness = 0 /\ s.ending)
  /\ LET t == IF s.harness = 0 THEN Take(m) ELSE [Take(m) EXCEPT !.state =
                 IF @ = "idle" THEN "working" ELSE @]
     IN  Becomes(CancelTaskWait(t, m))
  /\ got' = Append(got, Heard(s, Item(m)))

\* holdMessage()
Hold(m) ==
  /\ ~Done(s) /\ ~s.ending
  /\ Becomes(MaybeApply(CancelTaskWait([Take(m) EXCEPT !.held = Append(@, Item(m))], m)))
  /\ UNCHANGED got

\* Mutant: only a swap holds input, not a set-up still pending.
MessageUnlessSwapping(m) ==
  /\ s.takenCount + s.selfTurns < MaxTurns
  /\ m \notin s.taken /\ Keeps(s.authorFilter, m)
  /\ IF s.swapping # NoSetup THEN Hold(m) ELSE Deliver(m)
  /\ UNCHANGED alive /\ Untouched

Message(m) ==
  /\ s.takenCount + s.selfTurns < MaxTurns
  /\ m \notin s.taken /\ Keeps(s.authorFilter, m)
  /\ IF InputHeld(s) THEN Hold(m) ELSE Deliver(m)
  /\ UNCHANGED alive /\ Untouched

-----------------------------------------------------------------------------
(* Set-ups, as the control plane sends, re-sends and applies them *)

Received(n) ==
  [n |-> n, keep |-> Setups[n].keep, answers |-> Setups[n].answers,
   stop |-> Setups[n].stop, signaled |-> FALSE, urgent |-> FALSE,
   overdue |-> FALSE]

\* Sent again it is the one it already is.
Known(n) ==
  n \in {s.applied} \union {x.n : x \in {s.setup, s.swapping} \ {NoSetup}}

\* Mutant: a later set-up lifts who alone answers for the turn still running.
AnswersLifted(n) == Setups[n].answers

\* A later set-up cannot lift who alone answers for the turn still running.
AnswersFrom(n) ==
  IF Setups[n].answers # NoOne THEN Setups[n].answers
  ELSE IF InputHeld(s) THEN s.answersFrom ELSE NoOne

\* owner is history: the member who alone answers what harnesses now ask.
TakeSetup(n) ==
  LET t == [s EXCEPT !.answersFrom = AnswersFrom(n), !.setup = Received(n),
                     !.latest = n, !.authorFilter = Setups[n].keep,
                     !.timer = TRUE,
                     !.owner = IF Setups[n].answers = NoOne THEN @
                               ELSE Setups[n].answers]
  IN  MaybeApply(DropHeldFrom(t, Setups[n].keep))

\* handleSetup().  The control plane sends set-ups in order, and re-sends the
\* last one when its answer was lost.
Setup(n) ==
  /\ n >= s.latest
  /\ ~Done(s) /\ ~s.ending /\ ~Known(n)
  /\ Becomes(TakeSetup(n))
  /\ UNCHANGED <<alive, got>> /\ Untouched

\* handleSetupApply() of the pending set-up.
SetupApply ==
  /\ Pending(s) /\ ~s.setup.signaled
  /\ Becomes(MaybeApply([s EXCEPT !.setup.signaled = TRUE]))
  /\ UNCHANGED <<alive, got>> /\ Untouched

\* A command, the shell, a model switch or a compaction met the change.
RefusedCall ==
  /\ Pending(s) /\ ~s.setup.urgent
  /\ Becomes(MaybeApply([s EXCEPT !.setup.urgent = TRUE]))
  /\ UNCHANGED <<alive, got>> /\ Untouched

\* SETUP_APPLY_FALLBACK_MS pass.
ApplyOverdue ==
  /\ Pending(s) /\ ~s.setup.signaled /\ ~s.setup.overdue
  /\ s' = [s EXCEPT !.setup.overdue = TRUE]
  /\ UNCHANGED <<phase, alive, got>> /\ Untouched

\* SETUP_POLL_MS pass.
Tick ==
  /\ s.timer
  /\ Becomes(MaybeApply(s))
  /\ UNCHANGED <<alive, got>> /\ Untouched

-----------------------------------------------------------------------------
(* The swap, from one await to the next *)

\* Mutant: a successor is built whether or not the old harness is gone.
OldGoneUnchecked == TRUE

\* retire() resolves only once the harness is gone.
OldGone == s.harness \notin alive

\* What a killed harness asked may be withdrawn or not; its parks are not,
\* having no abort signal.
WoundDown ==
  {[SetIdle(s) EXCEPT !.background = FALSE, !.asks = a] : a \in {FALSE, s.asks}}

\* The old harness is gone: the successor is built unless the session is over.
Retired ==
  /\ phase \in {"retiring", "aborting"} /\ OldGone
  /\ \E t \in WoundDown :
       IF s.ending \/ shutting \/ Done(s)
       THEN /\ s' = Finally(EndNeverStarted(DropHeld(t)))
            /\ phase' = PhaseAfterSwap(s') /\ UNCHANGED alive
       ELSE /\ s' = t
            /\ phase' = "building" /\ alive' = alive \union {s.harness + 1}
  /\ UNCHANGED got /\ Untouched

\* The grace passes, or the wind-down throws: the harness is stopped by force.
GraceOver ==
  /\ phase = "retiring"
  /\ phase' = "aborting"
  /\ UNCHANGED <<s, alive, got>> /\ Untouched

\* Not confirmed gone even so: abandonDaemon().
AbandonDaemon ==
  /\ phase = "aborting"
  /\ s' = [DropHeld(s) EXCEPT !.state = IF Done(s) THEN @ ELSE "error"]
  /\ phase' = "leaving"
  /\ UNCHANGED <<alive, got>> /\ Untouched

NewHarness(t) ==
  [t EXCEPT !.harness = @ + 1, !.closed = FALSE, !.spec = t.swapping.n,
            !.owner = IF Pending(t) THEN t.setup.answers ELSE NoOne]

\* Mutant: the held input is replayed last first.
ReplayReversed(t) == [i \in DOMAIN t.held |-> Heard(t, Reverse(t.held)[i])]

Replay(t) == [i \in DOMAIN t.held |-> Heard(t, t.held[i])]

\* The successor is up: it takes the held input unless a later set-up holds it.
Applied(t) ==
  /\ got' = IF Pending(t) THEN got ELSE got \o Replay(t)
  /\ s' = LET u == [t EXCEPT !.applied = t.swapping.n]
          IN  Finally(IF Pending(t) \/ t.held = <<>> THEN u
                      ELSE [u EXCEPT !.held = <<>>, !.state = "working"])
  /\ phase' = PhaseAfterSwap(s')

\* What a harness that has finished already refuses of the replay, all after the
\* first k, is dropped.
Refused(t, k) ==
  IF Pending(t) THEN t
  ELSE LET kept == SubSeq(t.held, 1, k)
       IN  [t EXCEPT !.taken = Forget(t, ToSet(t.held) \ ToSet(kept)), !.held = kept]

\* Mutant: the new harness is not told to end.
BuiltTooLateRunning(t) ==
  /\ LET u == DropHeld(t)
     IN  \/ shutting /\ s' = u /\ phase' = "stopping"
         \/ ~shutting /\ s' = Finally(u) /\ phase' = PhaseAfterSwap(s')
  /\ UNCHANGED got

\* Ended or shut down while it was built: it winds down like any.
BuiltTooLate(t) ==
  /\ LET u == [DropHeld(t) EXCEPT !.closed = TRUE]
     IN  \/ shutting /\ s' = u /\ phase' = "stopping"
         \/ ~shutting /\ s' = Finally(u) /\ phase' = PhaseAfterSwap(s')
  /\ UNCHANGED got

Built ==
  /\ phase = "building" /\ s.harness # 0
  /\ IF s.ending \/ shutting THEN BuiltTooLate(NewHarness(s))
     ELSE \E k \in 0..Len(s.held) : Applied(NewHarness(Refused(s, k)))
  /\ UNCHANGED <<alive, shutting, exited, allowed>>

\* failSetup()
BuildFails ==
  /\ phase = "building" /\ s.harness # 0
  /\ s' = Finally([DropHeld(s) EXCEPT !.state = IF Done(s) THEN @ ELSE "error"])
  /\ phase' = PhaseAfterSwap(s')
  /\ alive' = alive \ {s.harness + 1}
  /\ UNCHANGED got /\ Untouched

StopReturns ==
  /\ phase = "stopping"
  /\ s' = Finally(s) /\ phase' = PhaseAfterSwap(s')
  /\ UNCHANGED <<alive, got>> /\ Untouched

-----------------------------------------------------------------------------
(* The first start, deferred while the home volume seeds *)

Seeded ==
  /\ phase = "seeding"
  /\ IF Done(s) THEN phase' = "none" /\ UNCHANGED alive
     ELSE phase' = "building" /\ alive' = alive \union {1}
  /\ UNCHANGED <<s, got>> /\ Untouched

SeedFails ==
  /\ phase = "seeding"
  /\ s' = [s EXCEPT !.state = IF Done(s) THEN @ ELSE "error"]
  /\ phase' = "none"
  /\ UNCHANGED <<alive, got>> /\ Untouched

\* What the stub queued goes to the first harness, unless the session ended.
FirstBuilt ==
  /\ phase = "building" /\ s.harness = 0
  /\ phase' = "none"
  /\ s' = [s EXCEPT !.harness = 1, !.closed = Done(s),
             !.state = IF Done(s) THEN @ ELSE IF got = <<>> THEN "idle" ELSE "working"]
  /\ UNCHANGED <<alive, got>> /\ Untouched

\* Mutant: a failed first start overwrites an End that came first.
FirstFailsOverwriting ==
  /\ phase = "building" /\ s.harness = 0
  /\ phase' = "none" /\ alive' = alive \ {1}
  /\ s' = [s EXCEPT !.state = "error"]
  /\ UNCHANGED got /\ Untouched

FirstFails ==
  /\ phase = "building" /\ s.harness = 0
  /\ phase' = "none" /\ alive' = alive \ {1}
  /\ s' = [s EXCEPT !.state = IF Done(s) THEN @ ELSE "error"]
  /\ UNCHANGED got /\ Untouched

-----------------------------------------------------------------------------
(* The harness: turns, asks, parks, background tasks, exits *)

Running == s.harness \in alive /\ ~Done(s)
Retiring == phase \in {"retiring", "aborting"}

HarnessStep(t) == s' = t /\ UNCHANGED <<phase, alive, got>> /\ Untouched

TurnEnds ==
  /\ Running /\ s.state \in {"working", "blocked"} /\ ~s.asks /\ s.park = "none"
  /\ \E b \in {s.background, TRUE} : HarnessStep([SetIdle(s) EXCEPT !.background = b])

\* A background task's notification makes the harness start a turn itself.
SelfTurn ==
  /\ Running /\ s.state = "idle"
  /\ s.selfTurns < MaxSelfTurns /\ s.takenCount + s.selfTurns < MaxTurns
  /\ HarnessStep([s EXCEPT !.state = "working", !.selfTurns = @ + 1])

\* Once the session is ending, asks are denied at once.
Ask ==
  /\ Running /\ s.state = "working" /\ ~s.ending /\ ~s.asks
  /\ HarnessStep([s EXCEPT !.asks = TRUE, !.state = "blocked"])

Park ==
  /\ Running /\ s.state = "working" /\ s.park = "none"
  /\ \E kind \in {"task", "sleep"} :
       HarnessStep([s EXCEPT !.park = kind, !.state = "blocked"])

ParkResolves ==
  /\ s.park # "none"
  /\ HarnessStep(ResumeIfUnblocked([s EXCEPT !.park = "none"]))

BackgroundEnds ==
  s.background /\ HarnessStep([s EXCEPT !.background = FALSE])

\* SETUP_IDLE_SETTLE_MS pass.
IdleSettles ==
  s.state = "idle" /\ ~s.settled /\ HarnessStep([s EXCEPT !.settled = TRUE])

\* Retired, a harness goes without a terminal event.
HarnessGone ==
  /\ s.harness \in alive /\ Retiring
  /\ alive' = alive \ {s.harness}
  /\ UNCHANGED <<s, phase, got>> /\ Untouched

\* Its input closed, it ends the session once its turn is over; a shutdown
\* interrupts the turn.
HarnessEnds ==
  /\ s.harness \in alive /\ s.closed /\ ~Retiring /\ phase # "leaving"
  /\ s.state \notin {"working", "blocked"} \/ shutting
  /\ alive' = alive \ {s.harness}
  /\ s' = EndNeverStarted(s)
  /\ UNCHANGED <<phase, got>> /\ Untouched

HarnessFails ==
  /\ Running /\ ~Retiring
  /\ alive' = alive \ {s.harness}
  /\ s' = [s EXCEPT !.state = "error"]
  /\ UNCHANGED <<phase, got>> /\ Untouched

-----------------------------------------------------------------------------
(* People and the daemon *)

\* handlePermission(): anyone may deny, see mayDecide().
Deny ==
  /\ s.asks
  /\ HarnessStep(ResumeIfUnblocked([s EXCEPT !.asks = FALSE]))

Allow(by) ==
  /\ s.asks
  /\ s.answersFrom \in {NoOne, by}
  /\ s' = ResumeIfUnblocked([s EXCEPT !.asks = FALSE])
  /\ allowed' = IF ~Running THEN allowed
                ELSE allowed \union {[by |-> by, owner |-> s.owner]}
  /\ UNCHANGED <<phase, alive, got, shutting, exited>>

\* withControl(): a command, the shell, a model switch or a compaction.
ControlCall ==
  /\ ~InputHeld(s) /\ s.state = "idle" /\ s.busy = "none"
  /\ HarnessStep([s EXCEPT !.busy = "call"])

ControlReturns ==
  s.busy = "call" /\ HarnessStep([s EXCEPT !.busy = "none"])

End ==
  /\ ~Done(s)
  /\ HarnessStep(EndSession(s))

\* endUndeliverable(): the pending set-up is left to the next tick.
Undeliverable ==
  /\ ~Done(s) /\ ~s.ending
  /\ HarnessStep(BeginEnd(CancelPending([s EXCEPT !.ending = TRUE])))

\* shutdown() up to its wait for the terminal event.
Shutdown ==
  /\ ~shutting
  /\ shutting' = TRUE
  /\ s' = IF Done(s) THEN s ELSE BeginEnd(CancelPending(s))
  /\ UNCHANGED <<phase, alive, got, exited, allowed>>

\* process.exit(), once the session is over or the wait for it is.
Exit ==
  /\ shutting \/ phase = "leaving"
  /\ exited' = TRUE
  /\ UNCHANGED <<s, phase, alive, got, shutting, allowed>>

-----------------------------------------------------------------------------
Init ==
  /\ \E seeding \in Seeding :
       /\ s = [state |-> IF seeding THEN "starting" ELSE "idle",
               setup |-> NoSetup, swapping |-> NoSetup, applied |-> 0, latest |-> 0,
               timer |-> FALSE, held |-> <<>>, taken |-> {}, takenCount |-> 0,
               authorFilter |-> NoOne, answersFrom |-> NoOne, owner |-> NoOne,
               busy |-> "none", ending |-> FALSE, asks |-> FALSE, park |-> "none",
               background |-> FALSE, settled |-> FALSE, selfTurns |-> 0,
               harness |-> IF seeding THEN 0 ELSE 1, closed |-> FALSE, spec |-> 0]
       /\ phase = IF seeding THEN "seeding" ELSE "none"
       /\ alive = IF seeding THEN {} ELSE {1}
  /\ shutting = FALSE /\ exited = FALSE
  /\ got = <<>> /\ allowed = {}

SwapStep ==
  \/ Retired \/ GraceOver \/ AbandonDaemon \/ Built \/ BuildFails \/ StopReturns

StartStep == Seeded \/ SeedFails \/ FirstBuilt \/ FirstFails

Requests ==
  \/ \E m \in Messages : Message(m)
  \/ \E n \in DOMAIN Setups : Setup(n)
  \/ SetupApply \/ RefusedCall
  \/ Deny \/ \E by \in Members : Allow(by)
  \/ ControlCall \/ End \/ Undeliverable \/ Shutdown

Harness ==
  \/ TurnEnds \/ SelfTurn \/ Ask \/ Park \/ ParkResolves \/ BackgroundEnds
  \/ HarnessGone \/ HarnessEnds \/ HarnessFails

Next ==
  /\ ~exited
  /\ \/ Requests \/ Harness \/ SwapStep \/ StartStep
     \/ ApplyOverdue \/ Tick \/ IdleSettles \/ ControlReturns \/ Exit

Spec == Init /\ [][Next]_vars

\* Timers fire, bounded waits end, a call returns, a build succeeds or fails,
\* a harness asked to end does, and no turn or sleep goes on forever.  Nobody
\* need answer an ask or send anything.
Fairness ==
  /\ WF_vars(~exited /\ Tick) /\ WF_vars(~exited /\ ApplyOverdue)
  /\ WF_vars(~exited /\ SwapStep) /\ WF_vars(~exited /\ StartStep)
  /\ WF_vars(~exited /\ ControlReturns) /\ WF_vars(~exited /\ ParkResolves)
  /\ WF_vars(~exited /\ HarnessEnds) /\ SF_vars(~exited /\ TurnEnds)
  /\ WF_vars(~exited /\ Exit)

FairSpec == Spec /\ Fairness

-----------------------------------------------------------------------------
(* Properties *)

\* The type invariant.
TypeOK ==
  /\ s.state \in States /\ s.busy \in {"none", "call", "setup"}
  /\ s.park \in {"none", "task", "sleep"}
  /\ phase \in Swapping \union {"none", "seeding"}
  /\ (s.swapping # NoSetup) = (phase \in Swapping /\ s.harness # 0)
  /\ (s.busy = "setup") = (s.swapping # NoSetup)
  /\ s.taken \subseteq Messages /\ s.takenCount + s.selfTurns \in 0..MaxTurns
  /\ alive \subseteq 0..(s.harness + 1)

\* "A second harness must never run on the same transcript" (retireDriver),
\* whatever set-ups, Ends, timeouts and failures meet during a swap.
OneHarness == Cardinality(alive) <= 1

\* What is said once the sharing changed never reaches a harness on an older
\* set-up, not even by a replay between two changes.
NeverOnOldSetup ==
  \A i \in DOMAIN got : got[i].said <= got[i].spec

\* In a chat taken back nobody but its member is heard, held before or said
\* after (dropHeldFrom, authorFilter).
OnlyItsMember == \A i \in DOMAIN got : Keeps(got[i].filter, got[i].m)

Places(m) == {i \in DOMAIN got : got[i].m = m}

\* A message is known as taken exactly while it is held or was handed over,
\* once: none is delivered twice, and a dropped one may be sent again (#1910).
TakenOnce ==
  \A m \in Messages :
    Cardinality(Places(m)) + Cardinality({i \in DOMAIN s.held : s.held[i].m = m})
      = IF m \in s.taken THEN 1 ELSE 0

\* Harnesses hear messages in the order they were taken, held ones included.
HeardInOrder ==
  LET all == [i \in DOMAIN got |-> got[i].n] \o [i \in DOMAIN s.held |-> s.held[i].n]
  IN  \A i, j \in DOMAIN all : i < j => all[i] < all[j]

\* While the turn of a private set-up still runs, only its owner allows what
\* it asks, whatever later set-ups say (mayDecide, answersFrom).
OwnerAnswers == \A a \in allowed : a.owner \in {NoOne, a.by}

\* Once the session is over its outcome stands: a swap, a failed build or a
\* late harness never turns an End into an error or back.
OutcomeStands == [][Done(s) => s'.state = s.state]_s

\* Input is not held forever, unless the turn keeps asking people things.
HeldIsReleased == []<>(s.held = <<>> \/ s.asks \/ exited)

\* End, a dead delivery and a shutdown always bring the session to its end,
\* even when they fall into a swap or a deferred start.
EndingEnds == (s.ending \/ shutting) ~> (Done(s) \/ exited)
=============================================================================
