----------------------------- MODULE ClaudeTurns -----------------------------
(***************************************************************************)
(* Turns of the Claude harness (drivers/claude.mjs, turn-events.mjs).  The *)
(* CLI takes prompts from stdin and streams what it does; the run loop     *)
(* reads the stream, stamps it with a canonical turn, and decides when the *)
(* session is idle.  It awaits a disk sync at every result, while messages *)
(* and interrupts, which await the CLI and a sync of their own, go on.     *)
(***************************************************************************)
EXTENDS Naturals, SequencesExt

CONSTANTS
  Callers,      \* the interrupt requests
  Refusable,    \* those whose control request may fail
  MaxMessages,  \* bound: messages sent
  MaxTasks,     \* bound: background tasks the CLI starts
  Edits         \* the CLI turns that may edit a file

\* What stdin carries beside the interrupt requests.
Prompt == "prompt"

ASSUME TurnsAssumption ==
  /\ Refusable \subseteq Callers /\ Prompt \notin Callers
  /\ MaxMessages \in Nat /\ MaxTasks \in Nat /\ Edits \subseteq Nat

VARIABLES
  d,       \* the daemon's side: session state, turn context, counters
  loop,    \* where runLoop is: reading, or syncing before a result
  call,    \* where each handleInterrupt is
  reemit,  \* the timer of a drain re-emit
  told,    \* the background count of the last idle status
  cli,     \* external: the CLI process
  stdin,   \* external: what the CLI has yet to read
  stream,  \* external: what the run loop has yet to read
  out      \* history: what was emitted of each CLI turn, and under which turn

vars == <<d, loop, call, reemit, told, cli, stdin, stream, out>>

-----------------------------------------------------------------------------
(* The turn context and the session state, each from a daemon record to the *)
(* next.  Canonical turns are numbered in the order they open, 0 is none.    *)

\* ChangedFileTracker.reset()
ResetEdits(t) == [t EXCEPT !.edits = {}]

\* Mutant: a message steering the open turn forgets its pending edits.
BeginTurnResetting(t) ==
  IF t.active # 0 THEN ResetEdits(t)
  ELSE [t EXCEPT !.active = t.turns + 1, !.turns = @ + 1,
                 !.edits = IF t.draining = 0 THEN {} ELSE @]

\* A turn opens for a message or at an init of the CLI; an open one is joined.
BeginTurn(t) ==
  IF t.active # 0 THEN t
  ELSE [t EXCEPT !.active = t.turns + 1, !.turns = @ + 1,
                 !.edits = IF t.draining = 0 THEN {} ELSE @]

CompleteTurn(t) == [t EXCEPT !.active = 0]

\* Mutant: the result closes no turn while more input waits.
RotateNothing(t) == t

\* The next prompt's turn follows at once, the session keeps working.
RotateTurn(t) == ResetEdits(BeginTurn(CompleteTurn(t)))

\* Mutant: the interrupted turn stays open.
StartDrainingOpen(t) ==
  IF t.active = 0 THEN t ELSE [t EXCEPT !.draining = t.active]

StartDraining(t) ==
  IF t.active = 0 THEN t ELSE [CompleteTurn(t) EXCEPT !.draining = t.active]

\* Mutant: a request that drained nothing does not clear, one that did clears
\* only while no turn is open.
FinishDrainingIdle(t, n) ==
  ResetEdits(IF t.draining = n /\ t.active = 0 THEN [t EXCEPT !.draining = 0] ELSE t)

FinishDraining(t, n) ==
  ResetEdits(IF t.draining = n THEN [t EXCEPT !.draining = 0] ELSE t)

\* implicitEventTurnId() of the harness's own output.
Stamp(t) == IF t.draining # 0 THEN t.draining ELSE t.active

SetIdle(t) == [CompleteTurn(t) EXCEPT !.state = "idle"]
SetWorking(t) == [BeginTurn(t) EXCEPT !.state = "working"]

-----------------------------------------------------------------------------
(* The CLI (external): as claude.mjs uses it and its comments describe it *)

Item(kind, turn) == [kind |-> kind, turn |-> turn]
Say(kind) == Append(stream, Item(kind, cli.turn))

CliUntouched == UNCHANGED <<d, loop, call, reemit, told, out>>

\* A turn opens with an init, and takes every notification there is.
Opens(c) == [c EXCEPT !.running = TRUE, !.turn = @ + 1, !.notices = 0]

\* A prompt opens a turn, or waits to steer the one that runs.
CliReadsPrompt ==
  /\ stdin # <<>> /\ Head(stdin) = Prompt
  /\ stdin' = Tail(stdin)
  /\ IF cli.running
     THEN cli' = [cli EXCEPT !.waiting = @ + 1] /\ UNCHANGED stream
     ELSE cli' = Opens(cli) /\ stream' = Append(stream, Item("init", cli'.turn))
  /\ CliUntouched

\* An interrupt aborts the running turn, whose result comes before the answer,
\* or is refused.
CliReadsInterrupt ==
  /\ stdin # <<>> /\ Head(stdin) \in Callers
  /\ stdin' = Tail(stdin)
  /\ \/ /\ cli' = [cli EXCEPT !.running = FALSE, !.editing = FALSE]
        /\ stream' = (IF cli.running THEN Say("result") ELSE stream)
                       \o <<Item("answer", Head(stdin))>>
     \/ /\ Head(stdin) \in Refusable
        /\ stream' = Append(stream, Item("refusal", Head(stdin)))
        /\ UNCHANGED cli
  /\ CliUntouched

\* A prompt left over by the last turn opens one, or a settled task does.
CliStarts ==
  /\ ~cli.running /\ (cli.waiting > 0 \/ cli.notices > 0)
  /\ cli' = [Opens(cli) EXCEPT !.waiting = IF @ > 0 THEN @ - 1 ELSE 0]
  /\ stream' = Append(stream, Item("init", cli'.turn))
  /\ UNCHANGED stdin /\ CliUntouched

\* A waiting prompt is incorporated in the turn that runs.
CliSteers ==
  /\ cli.running /\ cli.waiting > 0
  /\ cli' = [cli EXCEPT !.waiting = @ - 1]
  /\ UNCHANGED <<stdin, stream>> /\ CliUntouched

CliEdits ==
  /\ cli.turn \in Edits /\ cli.running /\ ~cli.editing /\ cli.edited # cli.turn
  /\ cli' = [cli EXCEPT !.editing = TRUE, !.edited = cli.turn]
  /\ stream' = Say("edit")
  /\ UNCHANGED stdin /\ CliUntouched

CliEdited ==
  /\ cli.running /\ cli.editing
  /\ cli' = [cli EXCEPT !.editing = FALSE]
  /\ stream' = Say("edited")
  /\ UNCHANGED stdin /\ CliUntouched

CliResult ==
  /\ cli.running /\ ~cli.editing
  /\ cli' = [cli EXCEPT !.running = FALSE]
  /\ stream' = Say("result")
  /\ UNCHANGED stdin /\ CliUntouched

CliTaskStarts ==
  /\ cli.running /\ cli.started < MaxTasks
  /\ cli' = [cli EXCEPT !.started = @ + 1, !.live = @ + 1]
  /\ stream' = Say("task")
  /\ UNCHANGED stdin /\ CliUntouched

\* The notification usually wakes the CLI into a turn of its own.
CliTaskSettles ==
  /\ cli.live > 0
  /\ \E wakes \in {0, 1} :
       cli' = [cli EXCEPT !.live = @ - 1, !.notices = @ + wakes]
  /\ stream' = Say("notice")
  /\ UNCHANGED stdin /\ CliUntouched

-----------------------------------------------------------------------------
(* Messages.  The input pump takes a prompt within a microtask of its push. *)

\* input()
Pumped(t) == [SetWorking(t) EXCEPT !.consumed = @ + 1]

\* queueMessage(), then emitUserMessage(); both leave what input() finds.
Message ==
  /\ d.consumed < MaxMessages
  /\ d' = Pumped(d)
  /\ reemit' = FALSE
  /\ stdin' = Append(stdin, Prompt)
  /\ UNCHANGED <<loop, call, told, cli, stream, out>>

-----------------------------------------------------------------------------
(* The run loop *)

Reading == [at |-> "reading", item |-> Item("init", 0), before |-> 0]

Emitted(t, item) ==
  out' = out \union {[kind |-> item.kind, turn |-> item.turn, stamp |-> Stamp(t)]}

\* onInit(): an init while idle is a turn of the CLI's own.
OnInit ==
  IF d.state # "idle" \/ d.draining # 0
  THEN d' = [d EXCEPT !.owed = 0] /\ UNCHANGED reemit
  ELSE d' = [SetWorking(d) EXCEPT !.owed = 0] /\ reemit' = FALSE

OnTask == d' = [d EXCEPT !.tasks = @ + 1] /\ UNCHANGED reemit

\* Mutant: draining the ledger while idle announces nothing.
OnNoticeSilent ==
  /\ d' = [d EXCEPT !.owed = IF d.state = "idle" THEN @ ELSE @ + 1, !.tasks = @ - 1]
  /\ UNCHANGED reemit

\* applyTaskLedger() of a task's end: mid-turn it is owed to the result, and
\* the last one while idle is announced after a grace.
OnNotice ==
  /\ d' = [d EXCEPT !.owed = IF d.state = "idle" THEN @ ELSE @ + 1, !.tasks = @ - 1]
  /\ reemit' = (reemit \/ (d.state = "idle" /\ d'.tasks = 0))

OnEdit(item) == d' = [d EXCEPT !.edits = @ \union {item.turn}] /\ UNCHANGED reemit

\* A tool result under a turn reports the edit it belongs to.
OnEdited(item) ==
  /\ d' = [d EXCEPT !.edits = @ \ {item.turn},
                    !.reported = IF item.turn \in d.edits /\ Stamp(d) # 0
                                 THEN @ \union {item.turn} ELSE @]
  /\ UNCHANGED reemit

\* A message of the stream up to its emit.  A result first awaits a sync.
LoopReads ==
  /\ loop.at = "reading" /\ stream # <<>>
  /\ Head(stream).kind \notin {"answer", "refusal"}
  /\ stream' = Tail(stream)
  /\ LET item == Head(stream)
     IN  \/ /\ item.kind = "result"
            /\ loop' = [at |-> "syncing", item |-> item, before |-> d.consumed]
            /\ UNCHANGED <<d, reemit, out>>
         \/ /\ \/ item.kind = "init" /\ OnInit
               \/ item.kind = "task" /\ OnTask
               \/ item.kind = "notice" /\ OnNotice
               \/ item.kind = "edit" /\ OnEdit(item)
               \/ item.kind = "edited" /\ OnEdited(item)
            /\ IF item.kind \in {"task", "notice"} THEN UNCHANGED out ELSE Emitted(d', item)
            /\ UNCHANGED loop
  /\ UNCHANGED <<call, told, cli, stdin>>

\* A result with nothing consumed since it was read ends the turn, or only repeats
\* the status if an interrupt has made the session idle meanwhile.
ResultIdle ==
  /\ told' = d.tasks + d.owed
  /\ d' = [(IF d.state = "idle" THEN d ELSE SetIdle(d)) EXCEPT !.owed = 0]
  /\ reemit' = (reemit \/ (d.owed > 0 /\ d.tasks = 0))

\* Mutant: every message is counted on to bring a result of its own.
ResultSyncedCounting ==
  /\ loop.at = "syncing"
  /\ loop' = Reading
  /\ Emitted(d, loop.item)
  /\ \/ d.draining # 0 /\ UNCHANGED <<d, reemit, told>>
     \/ d.draining = 0 /\ d.consumed = loop.item.turn /\ ResultIdle
     \/ /\ d.draining = 0 /\ d.consumed # loop.item.turn
        /\ d' = RotateTurn(d)
        /\ UNCHANGED <<reemit, told>>
  /\ UNCHANGED <<call, cli, stdin, stream>>

\* The sync of a result returns.
ResultSynced ==
  /\ loop.at = "syncing"
  /\ loop' = Reading
  /\ Emitted(d, loop.item)
  /\ \/ d.draining # 0 /\ UNCHANGED <<d, reemit, told>>
     \/ d.draining = 0 /\ d.consumed = loop.before /\ ResultIdle
     \/ /\ d.draining = 0 /\ d.consumed # loop.before
        /\ d' = RotateTurn(d)
        /\ UNCHANGED <<reemit, told>>
  /\ UNCHANGED <<call, cli, stdin, stream>>

\* DRAIN_REEMIT_GRACE_MS pass.
Reemit ==
  /\ reemit
  /\ reemit' = FALSE
  /\ told' = IF d.state = "idle" /\ d.tasks = 0 THEN 0 ELSE told
  /\ UNCHANGED <<d, loop, call, cli, stdin, stream, out>>

-----------------------------------------------------------------------------
(* handleInterrupt() and the driver's interrupt() *)

Interrupt(i) ==
  /\ call[i].at = "none"
  /\ d' = StartDraining(d)
  /\ call' = [call EXCEPT ![i] = [at |-> "asking", before |-> d.consumed,
                                  turn |-> d.active]]
  /\ stdin' = Append(stdin, i)
  /\ UNCHANGED <<loop, reemit, told, cli, stream, out>>

Return(i, t) ==
  /\ call' = [call EXCEPT ![i] = [at |-> "done", before |-> 0, turn |-> 0]]
  /\ d' = FinishDraining(t, call[i].turn)

\* The CLI's answer, which overtakes what waits for a syncing run loop: with
\* nothing consumed meanwhile the idle flip waits for a sync.
InterruptAnswered(i) ==
  /\ \E p \in DOMAIN stream :
       /\ stream[p].kind \in {"answer", "refusal"} /\ stream[p].turn = i
       /\ loop.at = "syncing" \/ p = 1
       /\ stream' = RemoveAt(stream, p)
       /\ IF stream[p].kind = "answer" /\ d.consumed = call[i].before
          THEN call' = [call EXCEPT ![i].at = "syncing"] /\ UNCHANGED d
          ELSE Return(i, d)
  /\ UNCHANGED <<loop, reemit, told, cli, stdin, out>>

InterruptSynced(i) ==
  /\ call[i].at = "syncing"
  /\ IF d.consumed = call[i].before
     THEN /\ Return(i, SetIdle(d))
          /\ told' = IF d.state = "idle" THEN told ELSE d.tasks
     ELSE Return(i, d) /\ UNCHANGED told
  /\ UNCHANGED <<loop, reemit, cli, stdin, stream, out>>

-----------------------------------------------------------------------------
Init ==
  /\ d = [state |-> "idle", active |-> 0, draining |-> 0, turns |-> 0,
          edits |-> {}, reported |-> {}, consumed |-> 0, owed |-> 0, tasks |-> 0]
  /\ loop = Reading
  /\ call = [i \in Callers |-> [at |-> "none", before |-> 0, turn |-> 0]]
  /\ reemit = FALSE /\ told = 0
  /\ cli = [running |-> FALSE, turn |-> 0, waiting |-> 0,
            editing |-> FALSE, edited |-> 0, notices |-> 0, live |-> 0,
            started |-> 0]
  /\ stdin = <<>> /\ stream = <<>> /\ out = {}

Cli ==
  \/ CliReadsPrompt \/ CliReadsInterrupt \/ CliStarts \/ CliSteers \/ CliEdits
  \/ CliEdited \/ CliResult \/ CliTaskStarts \/ CliTaskSettles

Next ==
  \/ Message \/ LoopReads \/ ResultSynced \/ Reemit \/ Cli
  \/ \E i \in Callers : Interrupt(i) \/ InterruptAnswered(i) \/ InterruptSynced(i)

Spec == Init /\ [][Next]_vars

\* The CLI works through what it reads and ends its turns and tasks; the loop
\* reads on; syncs and timers end.
Fairness ==
  /\ WF_vars(CliReadsPrompt \/ CliReadsInterrupt) /\ WF_vars(CliStarts)
  /\ WF_vars(CliEdited) /\ WF_vars(CliResult) /\ WF_vars(CliTaskSettles)
  /\ WF_vars(LoopReads) /\ WF_vars(ResultSynced) /\ WF_vars(Reemit)
  /\ \A i \in Callers : WF_vars(InterruptAnswered(i)) /\ WF_vars(InterruptSynced(i))

FairSpec == Spec /\ Fairness

-----------------------------------------------------------------------------
(* Properties *)

Uninterrupted == \A i \in Callers : call[i].at = "none"
Interrupting == {i \in Callers : call[i].at \notin {"none", "done"}}

\* The type invariant.
TypeOK ==
  /\ d.state \in {"idle", "working"}
  /\ d.active \in 0..d.turns /\ d.draining \in 0..d.turns
  /\ d.active # 0 => d.active = d.turns /\ d.draining # d.active
  /\ d.tasks \in 0..MaxTasks /\ d.owed \in Nat /\ d.consumed \in 0..MaxMessages
  /\ d.edits \subseteq 0..cli.turn /\ told \in Nat /\ reemit \in BOOLEAN

\* Overlapping interrupts never leave a drain behind: results would be taken
\* for an aborted turn's from then on, and the session never be idle again.
DrainIsOwned == d.draining # 0 => \E i \in Interrupting : call[i].turn = d.draining

\* Uninterrupted, a canonical turn never spans the results of two CLI turns,
\* even when the next prompt is consumed while a result waits for its sync.
OneResultPerTurn ==
  Uninterrupted =>
    \A o, p \in out : /\ o.kind = "result" /\ p.kind = "result"
                      /\ o.stamp = p.stamp
                      => o.turn = p.turn

\* Uninterrupted, every edit that succeeded is in a turn.files_changed.
EditsReported ==
  Uninterrupted => \A o \in out : o.kind = "edited" => o.turn \in d.reported

Settled == d.state = "idle" /\ d.active = 0

\* Uninterrupted, a session whose input ends settles idle: no message wedges
\* it in working (#913).
SettlesUninterrupted == <>[]Settled \/ <>~Uninterrupted

\* A run's completion is not deferred forever: once its tasks have settled the
\* last idle status says so (#1251, #1613), interrupted or not.
BackgroundZeroTold == <>[](d.state = "idle" => told = 0)
=============================================================================
