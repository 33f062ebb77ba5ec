# A verification of agentd

`agentd` (src/agent-base/agentd) is the daemon that runs one coding-agent
session inside a VM. It takes HTTP requests from a control plane, drives one of
four harnesses (Claude, Codex, OpenCode, Pi), and pushes everything that happens
back as numbered events. The program is a single Node process: handlers run
without preemption up to an `await`, and everything hard about it lies in what
may happen across those awaits, in the network, and in the harness process.

This directory holds TLA+ models of its core, TLC configurations that check them
on small instances, and proofs checked by TLAPS. An action of a model is a
handler up to its next `await`.

## 1. Inventory

| Component | State it keeps | Operations | Correct when |
|---|---|---|---|
| Event pusher (`event-pusher.mjs`) | sequence counter, queue, timer, request in flight, batch limits, cut events | `emit`, `flush`, `refusedForSize`, `giveUp`, `drain`, `stop` | no hole, no durable event lost, one copy of each, cut events remembered, a drain ends |
| Event bounds (`event-bounds.mjs`) | none | `boundEventPayload`, `rejectedEventStub` | every event can be made small enough |
| Live set-up change (`session-setup.mjs`, `server.mjs` 1313-1618) | pending set-up, set-up being swapped in, held input, author filter, answer rules, re-check timer | `handleSetup`, `handleSetupApply`, `holdMessage`, `maybeApplySetup`, `applySetup`, `retireDriver`, `replayHeld`, `failSetup`, `abandonDaemon` | one harness at a time, nothing lost, doubled, reordered or leaked to an old set-up |
| Session core (`server.mjs`) | session record, `creating`, `shuttingDown` | create, message, interrupt, permission, end, shutdown | a told end ends, an outcome stands |
| Seed gate (`seedgate.mjs`, `deferStartUntilSeeded`) | stub driver, marker file | deferred first start | End during seeding neither revives nor fails the session |
| Turn identity (`turn-events.mjs`, `changed-files.mjs`) | active and draining turn, pending edits | begin, complete, rotate, startDraining, finishDraining, stamp | every output carries the turn it belongs to |
| Claude driver (`drivers/claude.mjs`, `claude-tasks.mjs`) | input queue, `consumed`, owed notifications, task ledger, re-emit timer, command turn, compaction | message, run loop, interrupt, retire, command, compact | the session is idle exactly when nothing runs, the background zero is told |
| Permissions and parks (`server.mjs`, drivers) | pending requests, parks, always-allow rules | ask, decide, park, resolve | only who may decide does, nothing waits on a gone harness |
| Session control (`session-control.mjs`) | reservation, shell, catalogue | `withControl` calls | one at a time, always released |
| Message context (`message-context.mjs`) | last 256 message ids, upload bytes | remember, forget, budget | no message twice |
| Credential broker (`credential-broker.mjs`) | identity, renewal timer | activate, tick, request, deactivate | a live session's identity is never dropped by an older one |
| Codex driver (`drivers/codex.mjs`, `codex-rpc.mjs`) | calls pending in both directions, live turn and its id, openings, steers, chained results, abort generation, park or gate | start, steer, notices, approvals, `chain`, interrupt, `beginEnd`, retire, force stop, `shutdownStop` | one result per turn, a withdrawn turn is never the live one, never idle over a live turn |
| OpenCode driver (`drivers/opencode.mjs`, `opencode-client.mjs`) | event stream and its failures, turn number and text, abort generation, command reservation | prompt, follow-up, command, events, `chain`, interrupt, `beginEnd`, retire, force stop, `shutdownStop` | results in order that say what their run said, a withdrawn run is not taken up, a dead stream is reported |
| Pi driver (`drivers/pi.mjs`) | permission gate, cycle generation, chained results, prompts in the SDK's hands | `queueMessage`, cycles, `chain`, interrupt, `beginEnd`, retire, force stop, `shutdownStop` | every message is heard, an interrupt returns |
| MCP bridge (`drivers/mcp-bridge.mjs`) | clients, reconnect in progress, closed | set up with a timeout, `call` with one retry, `reconnect`, `close` | no server outlives its client or the bridge |
| Image MCP | none | reads a manifest | – |
| Desktop control (`desktop.mjs`) | lease | take, renew, hand back | one holder |
| Files, search, todos, questions, tool policy, payload reads | none or per call | pure I/O or data | – |

How they meet: every component calls `emit` of the one pusher; `setState` opens
and closes canonical turns in the pusher's turn context; drivers call back into
`setState`, `rotateTurn`, `syncToDisk`, permissions and parks; a set-up change
waits on all of them (state, parks, asks, control reservation, background work),
then replaces the driver; the pusher's giving up ends the session. The four
drivers share one interface (message, interrupt, `beginEnd`, retire, force stop,
`shutdownStop`), differ in everything behind it, and have in common that what a
turn reports is chained behind a disk sync, while people go on speaking,
interrupting and ending.

Hard behaviour: answers lost, repeated or late between pusher and control plane;
requests that fall into any of the awaits of a swap; a harness that starts turns
on its own, keeps running while a result awaits a disk sync, and whose answer to
an interrupt overtakes its output; an event stream that drops and replays
nothing; notices that name no turn; tool servers whose connections die under
parallel calls; a daemon that drains on its way out.
PROJECT.json lists each hazard at its line with the properties that watch it.

## 2. Modules

| Module | What it is |
|---|---|
| `EventLog` | abstract: what the event contract promises a reader of durable events |
| `EventPusher` | the pusher with the network and the control plane's store |
| `LiveSetup` | the session record during set-up changes, with an abstract harness |
| `ClaudeTurns` | turn identity and idleness over the Claude harness |
| `CredentialBroker` | the broker between pushers, harness, CLI and `handleCreate` |
| `CodexTurns` | the Codex driver and its RPC client over an app-server |
| `OpenCodeTurns` | the OpenCode driver and its client over a server |
| `McpBridge` | the bridge to one tool server |
| `PiTurns` | the Pi driver over the SDK's session, with the bridge its tools go through |
| `MC*` | finite values for TLC |
| `SeqFilter` | the elements of a sequence that are in a set, as a recursive function |
| `QueueLemmas` | lemmas on sequences, their filters, minima and finite sets |
| `EventPusherProofs`, `LiveSetupProofs`, `CredentialBrokerProofs`, `ClaudeTurnsProofs`, `CodexTurnsProofs`, `OpenCodeTurnsProofs`, `PiTurnsProofs` | theorems about the module of that name |

Operators marked `Mutant:` in the modules are not part of any specification.
Each is a plausible slip in the code that one property must notice; the mutants
of PROJECT.json put it in the place of the definition it follows.

### EventPusher

`queue`, `timer`, `inFlight`, `batchLimit`, `batchBytes`, `stopped`, `truncated`
are the fields of the class; `sent` is the batch a flush awaits, `drain[d]` where
a `drain()` call is (it flushes, then sleeps or stops). `stored` is the control
plane's log, which keeps the first event it sees of each number; `late` holds
batches whose request timed out and that may still arrive. `Emit` covers the
three shapes of one `emit()` call: one event; `turn.completed` before a terminal
event; a tool result followed by `turn.files_changed`. `Answer` has one disjunct
per outcome of `flush`: accepted, refused for good, a refused renewal, too large
(halve, cut or replace by a stub), failed before or after the batch was stored.

Payloads have a size and either serialise or not. The instance has one that
fits, one that only a stub replaces and one with no JSON form; a queue of 2 with
3 events reaches the overflow rules, a byte budget of 5 with sizes up to 3 makes
batches split by bytes as well as by count, one fault and one late request reach
a repeated and an out-of-order delivery. Partials, numbers and stub sizes beyond
these follow the same branches.

`Log == INSTANCE EventLog` with the stored durable events is the refinement:
`Write` is an emit, `Store` an arriving batch, all else stutters.

### LiveSetup

`s` is the session record with the fields of the same meaning; `phase` is the
await a swap or the deferred start is at: `seeding`, `retiring` (retire called),
`aborting` (its grace is over), `building`, `stopping` (a harness built too late
is being retired), `leaving` (`abandonDaemon` drains). `alive` holds the harness
processes that may be running, so `OneHarness` speaks of processes and not of
`s.driver`. Held messages record when they were taken and on which set-up they
were said; `got` records what reached a harness, on which one. A harness that has
finished by the time of the replay refuses it from some message on; that message and
those after it are dropped and forgotten (`Refused`), so that the control plane may
send them again.

External assumptions: the control plane sends set-ups in order and repeats only
the last; `retire()` resolves once the process is gone; a harness can hold one
ask at a time and may park for a task or a sleep, start a turn on its own and die.
The condition list of `ReadyToSwap` is the one of `readyToSwap`, with idle
settling and the fallbacks as flags that a timer action may set at any time.

`got`, `allowed`, `s.owner` and the counters inside `s` are history. Bounds:
`Messages`, `MaxTurns` (messages taken, again after they were dropped too, and turns of
the harness's own), `MaxSelfTurns`, and the sequence `Setups`.

### ClaudeTurns

`d` is the daemon's side: session state, the turn context with canonical turns
numbered in the order they open, pending edits, `consumed`, owed notifications
and the ledger's size. `loop` is the run loop, which reads an item or awaits
`syncToDisk` at a result; `call[i]` is an interrupt request, which asks the CLI,
then may sync. `cli`, `stdin` and `stream` are the CLI as the driver's comments
describe it: stdin is read in order; a prompt opens a turn or steers the running
one; an interrupt aborts it and its result precedes the answer; the answer
bypasses only what waits behind a syncing run loop; a settled task may start a
turn of the CLI's own. The input pump consumes a pushed prompt within a
microtask, so pushing, consuming and `emitUserMessage` are one action. `out`
records which canonical turn each emitted item of a CLI turn was stamped with
(task items, which may come between turns, are left out of it).

The ledger counts starts and notifications as edges. Command turns with a model
override, compaction, retiring and the level signal are not in this module.

### CredentialBroker

`b` is the broker: its identities in the order they were made, which of them are
the workspace's and the session's (`wid`, `sid`), the active session and the one
whose routes are installed. Several of its operations run in one handler (a
`get()` whose refusal makes a pusher give up also deactivates), so they are
operators from a broker to a broker, and an action composes them. `calls` has
the request of each caller: the pusher of each session, and clients, which each
make one (the CLI or a harness through the proxy). `create` is the await of
`handleCreate`; `live`, `over`, `owes`, `stopped` and `draining` are what the
session and its pusher contribute. A wall clock is not modelled: a credential
becomes due and then expires (`Age`), a backoff ends, and a tick finds that the
VM slept.

A refusal either has a status on which the pusher counts refusals or not (400);
a renewal without an answer resets the count. `bad`, `again` and an identity's
`row` are history. A closed identity forgets what nobody reads any more, and so
does the history about it, which keeps the state space finite in practice.
Left out: `close()` (only tests call it), the diagnostics, and the checks on
URLs, headers and bodies. The pusher's queue is reduced to what its next batch
holds; `EventPusher` has the rest.

Two things the model makes visible and no property forbids: a late 401 to a
request that carried an older credential discards the newer one, which costs a
renewal; and the `session.error` of a start that failed gets a single attempt,
because `handleCreate` deactivates the identity right after the first flush.

### CodexTurns

`d` is the driver with its RPC client and the session record: `waiting` are the
requests without an answer, `stdin` what the app-server has yet to read, `cur`
and `active` the live turn, `openings` the starts under way, `steers` what waits
for a turn's id, `chain` the reactions behind a sync, `gen` the abort generation.
`app` is the app-server, `stdout` its lines. The order of events within one read
is kept: the lines of a chunk are handled one after the other, and what they
settle runs in `micro`, a queue of microtasks in which a rejected start needs one
tick more than an answer. This order decides whether a message still steers the
turn whose end is in the same chunk. `stops[i]` is where an interrupt is: its
request, its timeout, its sync; number 0 is `shutdownStop`.

External assumptions: the app-server reads stdin in order, answers each request
once or exits, runs one turn at a time in the order they were asked for, steers
only the turn that runs, and interrupts it once nothing waits for a person.
`log.odd` notes three courses of events after which something goes wrong that no
property can then demand: `crossed`, a turn opened before the last one's result
was out (see `codex_twice`); `late`, an interrupt of a session that is already
told to end; `orphan`, an approval asked by a turn that was interrupted.

### OpenCodeTurns

`posts` are requests on their way: prompts reach the server in order, aborts at
any time, and each may be refused or lost; `wire` is the event stream, on which
the server's events name a session but no turn; `conn`
is the stream's state with its failure count. A drop loses what is on the wire
and what is said until the next connection. `d.seq` numbers the turns the driver
armed, `d.emitted` the one reported last; a run of the server is numbered when it
begins and remembers in which generation its prompt was sent. What a run says comes
in frames of its own before its idle: `text` is the last of them, `d.text` the run
whose text the driver remembers, 0 for none. Arming a turn clears it, a drop may lose
it, and a result may therefore be empty. A command reserves the session (`ctl`,
`held`), lists its commands, and opens a turn or gives the session back; the
reservation goes with the turn's end, an interrupt or a failure. An ask is parked at
once (`d.gate`), or, for an MCP tool, after a wait for the arguments of the call
(`d.awaiting`, `AskParks`), during which everything else goes on.

External assumptions: the server runs one prompt at a time, folds a follow-up
into the run or runs it next, says busy and idle around each run, and an abort
ends the run with all that is queued. `stale`
(the idle of an interrupted run reached the next turn), `early` (a run began
before the last result was under way), `lost` (a frame the driver acts on was
dropped), `unheard` (a text was) and `orphan` (a person is asked although no turn is
live) are what `log.odd` notes here. `OwnResults` has two halves. Nothing excuses the
first, `ResultsInOrder`: one turn after the other, and what a run said in one result
at most, before what later runs said. The second, `ResultsTelling`, has each result
say what the run whose idle it reports said; every oddity but `orphan` excuses it.
`stale` excuses `NeverResurrected`, and every oddity but `unheard` excuses `Settles`.

### McpBridge and PiTurns

A client is a connection, and for a stdio server a process: `starting`, `up`,
`closing`, `gone`. The entry is being connected, listed, ready or skipped after
`SETUP_TIMEOUT_MS`, when a client that comes late closes itself. Calls go out in
parallel; those that fail like a connection share one reconnect (`br.made`) and
are sent once more each, those that were aborted or fail otherwise throw.
`Misread` is a request that fails alone, or a server's error that reads like a
lost connection: the old client is then closed although it lives. `close()` waits
for the client it sees, and a reconnect under way reaps its own.

`PiTurns` extends the bridge; only its calls begin in a run and its close in
`finish()`. The SDK is in the same process, so `sdk` is what the driver's
comments say of it: a prompt is called, looked at, in preflight, and then begins
a run, is queued behind one or is rejected as busy; `doPrompt` tries again as a
follow-up and once more. A run is made of cycles, and `abort()` waits for its
tools and for the gate. An abort may keep or drop the SDK's queue, and the SDK
does not begin a retry while it aborts. Disposing of the session drops what is in
preflight and queued. A retire waits for the wind-down and for the bridge.

## 3. Runs

| Run | Question | Bounds |
|---|---|---|
| `pusher` | types, refinement of the event contract, delivery | queue 2, batch 3, 5 bytes, 3 events, 1 drain, 1 fault, 1 late request |
| `live_setup` | eight safety properties of set-up changes | 2 set-ups, 2 messages, 2 turns |
| `live_setup_live` | held input is released, told ends happen | 2 set-ups, 1 message taken up to 3 times, 1 turn of the harness's own, 3 in all |
| `claude_turns` | safety and settling of turns, the background zero | 2 messages, 2 interrupts, 1 task, 1 edit |
| `credential_broker` | whose credential goes where | 2 sessions, 1 client, 1 lapse, 2 troubles, 2 refusals |
| `credential_broker_live` | queued events are delivered or their pusher stops | the same without a client |
| `codex_turns` | safety of turns over the app-server | 2 messages, 1 interrupt, 1 failure, 2 troubles, 3 ways to end |
| `codex_turns_live` | the session settles, a wind-down ends | 2 messages, 1 interrupt, 1 ask, 1 failure; 1 trouble, 1 end |
| `opencode_turns` | safety and settling over a stream that drops | 2 prompts (1 command), 1 interrupt, 2 drops, 2 troubles, 1 end |
| `pi_turns` | the bridge's processes, messages, settling | 2 calls at once, 3 clients, 2 breaks, 2 messages, 1 interrupt, 2 troubles, 1 end |
| `codex_twice` | violation, below | 2 messages, 1 failure |
| `opencode_drop` | violation, below | 2 prompts, 1 drop |

`CHECK_DEADLOCK FALSE` everywhere: a pusher that stopped, an exited daemon and an
idle session without further input are legitimate ends.

Why the bounds are enough for the cases meant:

* `pusher`: 3 events in a queue of 2 reach overflow and its eviction under a batch
  in flight; sizes up to 3 in 5 bytes split batches by bytes and by count; one
  fault and one late request give a repeated and an out-of-order delivery.
* `live_setup` takes the chat to a shared set-up in which only one member answers,
  then back to that member, with a message by each of two members. Two changes are
  the least that let a set-up overtake another, lift an answer rule or replay
  between them; two authors tell filtering from dropping. `live_setup_live` ends in
  an open set-up and has one message: what may be held forever does not depend on
  how many are. The turn of the harness's own runs, asks, parks and leaves background
  work while that message is held, and a message that was dropped is taken again.
  Messages of the control plane, which no filter drops, follow the
  same branches as the member's own and are not in the instances.
* `claude_turns`: a second message steers, races a result's sync or an interrupt;
  of two interrupts one may overwrite what the other drains, and one may be refused
  by the CLI; the edit is in the second CLI turn, the one whose pending edit a
  rotate, a steering message or a notification could drop.
* `credential_broker`: the clean-up of an older session meets a newer; a client's
  request can span the change; a lapse is a credential due, expired or slept with;
  two troubles reach `MaxRefusals`, the least for a pusher to give up for a reason.
* The drivers: two messages are the least in which one steers, follows, or opens a
  turn while the other's result waits; one interrupt falls into every point of
  them. Two troubles, out of interrupts, asks, failures, drops and exits, make each
  meet each. The three ways to end of `codex_turns` are shutdown, End and a set-up
  change, all together. Two drops exhaust `MAX_SSE_FAILURES` 2. In the bridge two
  calls share one reconnect, and a third client is the one made while the first two
  close.

### Fairness

Nobody is ever obliged to send, interrupt, answer or end, and no fault is obliged
to happen or to end, unless named here.

* Pusher: timers fire, requests are answered or aborted by their timeout, a drain
  that was called runs on.
* LiveSetup: timers and bounded waits end, a build succeeds or fails, a harness
  asked to end does, and turns are finite (strong fairness, since asks interrupt
  them).
* ClaudeTurns: the CLI works through its stdin and ends turns and tasks, the run
  loop reads on, syncs and timers end.
* CredentialBroker: a pusher's flush timer fires, its request and every renewal is
  answered or times out, backoffs and drain deadlines end.
* CodexTurns: lines are read, microtasks run, syncs and the interrupts' timeouts
  end, the app-server works through what it reads, ends its turns and exits once
  closed; the grace of a retire passes.
* OpenCodeTurns: frames are read, reactions run, syncs and the wait for a call's
  arguments end, the client connects again after its delay (it may fail or drop
  again), the server takes what it is sent, ends its runs and exits once closed; the
  grace of a retire passes. It is one condition on all of these (`Obliged`): behaviours
  are bounded, so that none of them can be put off forever by the others.
* PiTurns: reactions run, syncs end, prompts land, runs end and settle, calls are
  answered or fail, servers come up and go (a call has a timeout of its own). The
  grace of a retire need not pass: `Settles` holds without `forceStop`.

### What the violations show

* `NeverTwice` (`codex_twice`): a turn that errors and completes chains two
  results. The first waits for its sync behind a flag; a message sent meanwhile
  opens the next turn, whose start clears the flag, and the second reaction emits
  the ended turn's result again.
* `DropSurvived` (`opencode_drop`): the client's header says that the driver
  re-reads terminal state after a drop. Nothing does, and an idle lost with the
  stream leaves the session working.

### Divergences

Where the code departs from a comment, or does what a reader would not expect,
and no run demands otherwise. The models contain each of them.

* `event-pusher.mjs` 307: `onStopped` is said never to run on a delivered
  `session.ended`. If the answer to that batch is lost and its retry refused
  because the session is over, it does; the daemon ignores it there.
* `server.mjs` 1553: `abandonDaemon` says that no second harness can start; during
  its final drain, up to five seconds, a create is accepted. `LiveSetup` stops at
  the error.
* `credential-broker.mjs` 190: `get()` says that a bearer rejected by a 401 is never
  reused. A renewed bearer that a second 401 rejects stays cached, because the retry
  is not retried, and the next caller is given it. `HandsGood` leaves it out.
* `claude.mjs` 959: late output of an interrupted turn is stamped with the turn
  opened since, and its result completes it, if a message cuts the interrupt short
  while the aborted turn's result is syncing (`turn-events.mjs` 11-13 exclude it).
* `claude.mjs` 820: a whole turn within an interrupt's last sync is taken for the
  aborted one; the session stays working until the next message. Therefore
  `SettlesUninterrupted` speaks of sessions without interrupts.
* `codex.mjs` 1364: a wind-down is left to the result of the live turn; an interrupt
  takes that result away, and only the force stop ends the session (`late`). An
  approval asked by a turn interrupted before blocks a session nobody runs in
  (`orphan`).
* `opencode.mjs` 722: the idle of an aborted run that comes after the next prompt
  counts as the end of that prompt's turn and mints a result for it (`stale`), empty
  unless the new turn has said something: arming it cleared what the aborted run said.
  An empty result is also what a drop leaves that loses only the text (`unheard`).
* `opencode.mjs` 478: after an end nothing may block on a human. An ask for an MCP tool
  passes that check and then waits up to two seconds for the arguments of the call; an
  end or an interrupt in between denies what is parked, and the ask parks afterwards
  and blocks the session. After an interrupt its decision leaves the session working
  with no turn (`orphan`).
* `pi.mjs`: the idle chained behind a run lands although another run began
  meanwhile, and a message in its preflight at an interrupt runs afterwards under an
  idle session, which a retire may then find idle. `NoOrphan` leaves that out, and
  the models have no claim that a Pi session is never idle over a run.
* `mcp-bridge.mjs` 17-18 say that an interrupt never waits behind a slow upstream; a
  call that waits for a reconnect does not hear the abort signal. It waits for as
  long as the reconnect may take. Lines 14-16 say that a server-side error never
  re-issues a call; one whose text contains a word like "fetch failed" does.
* `mcp-bridge.mjs`, `close()`: a client replaced before, or connecting when it runs,
  is not waited for, and may still be closing when the retire is over, whose
  successor then starts a server beside it. `NoOrphan` speaks of the client that is
  waited for.

## 4. Proofs

Every theorem is of `Spec` and holds for all values of the constants that satisfy
the module's `ASSUME`; no proof assumes anything else. Where a module's bounds
(messages, interrupts, failures) are constants, the theorem is about any number of
them. Each invariant that TLC checks was proved the same way: an inductive `IInv`,
made of named parts, that `Init` satisfies, that each action preserves, and that
implies it.

**EventPusher.** Type correctness, the refinement `ImplementsLog`, and the parts it is
made of and more: `NoHoles`, `NoDurableLost`, `NothingForgotten`,
`OverflowIsDurable`, `CutIsRemembered`, `OnStoppedOnce`. TLC checks `TypeOK` and
`ImplementsLog` in `pusher`; the others are stated in `EventPusher` for the proofs
and no run repeats them, since what breaks them breaks the refinement or the
delivery that `pusher` checks. `NoHoles` is not inductive: it depends on where a
batch can come from. `IInv` adds that the queue is sorted by number and below `seq`,
that every written durable event is stored, queued or behind a stored terminal one,
and that the batch in flight and every late batch is *covered*: a durable event
below one it carries is stored or in the batch itself. Covered batches can be stored
at any time, in any order and any number of times without a hole, which is why a
lost answer and a late request are harmless; acknowledging by number keeps the batch
in flight covered while the queue evicts. `OverflowIsDurable` and `NothingForgotten`
are separate inductions, and the refinement maps an emit to `Write`, an arrival to
`Store` and the rest to stutters.

**LiveSetup.** Types, the six safety invariants and `OutcomeStands`. `IInv` is the
typed session record with `SwapOk` (what a swap has taken over agrees with the phase
it is in), `OwnerOk`, `HeldOk` and `OrderOk` (held messages are numbered in order,
are newer than what any harness was given, and name set-ups there have been), and
outside the record `GotOk`, `CountsOk`, `PhaseOk` (a harness process lives only in
the phases that leave room for it) and `OwnerAnswers` itself. That a filtered replay
keeps the order is a property of `Filter` (`FilterProperties`: what is left embeds
into the sequence in its order); one cut short by a refusal keeps it too
(`RefusedKeeps`). `OneHarness` rests on `PhaseOk`: a build begins only
after the retired process is gone, and one built too late is retired before another
may begin. `OwnerAnswers` holds because a set-up is adopted only by a swap, and a
swap only begins where no turn runs.

**CredentialBroker.** Types, `BrokerServes`, `OwnToken`, and the action properties
`HandsGood` and `GiveUpPersists`. The heart of `BrokerOk` is that only the
workspace's and the active session's identities are open. `SessionsOk` speaks of
sessions that are yet to come: they have asked for nothing, so no call, answer or
clean-up under way can be theirs. Together they say why no clean-up ends another
session: it names the session it was made for, and what it then closes is not the
identity of a newer one. `CallOk`, `BadOk` and `CreateOk` tie what a call carries, or
an await of `handleCreate` holds, to an identity that was the session's when it was
read.

**ClaudeTurns.** Types, `DrainIsOwned`, `OneResultPerTurn`, `EditsReported`. For the
drain: only `startDraining` sets the draining turn and the call that did records it;
`finishDraining` clears only its own; a call without an open turn records 0 and so
clears nothing. The other two need a second invariant, `Told`. It gives each item
that the CLI has said, and the run loop has not read, the state the CLI was in just
before it; as long as nobody interrupts, those states follow from one another, so that
the item read next fits the turns and the edits the driver has open.

**CodexTurns.** Types, `CancelledNeverLive`, `IdleNotOverLive`, `OneResult`. `IInv` says
that for some `g`, the turn the driver has last heard start before each line it has yet to
read (`Trace`), the parts of `Holds` are true:

* `DriverOk`, `OpeningsOk`: the driver alone; a reaction's microtask is there once and only
  while a reaction is due, openings are of one generation after the other.
* `AppOk`, `TurnsOk`, `AnswersOk`: the app-server runs the last turn it started and queues
  those after it; the live turn is of the present generation; an answered start names the
  turn it opened.
* `Lively`: the openings of all starts still to be heard (`Wanted`: of turns that are
  queued, and of requests not yet read) are among the driver's in the order they will be
  heard (`LinedUp`). That is what makes an opening taken by its place the right one, and it
  needs that a message is in one place only (`MessagesOk`, `OnePlace`): a steer that is
  refused opens a turn, so it must not have opened one before. `IdleOk`: an idle session
  over a live turn has that turn's start still to hear.
* `Clean`, while no turns have crossed: results chained are the last heard turn's
  (`ResultsOk`), that turn is live until it owes a result (`LastOk`), every result that is
  owed is out, syncing, chained or behind a reaction that ends the session (`DueOk`), and
  only withdrawn turns are interrupted (`StopsOk`).

Most steps of the driver only take things away: `Shrinks` (nothing is opened), `Mild`
(nothing is owed more or less) and `Fine` (both) are relations of a driver to the next
that keep the invariant whatever the app-server does (`FineKeeps`); a handler is a chain
of such steps. What is left are those that open a turn (`OpeningHolds`), ask for
it (`StartAsks`), take it (`TakenHolds`), hear it start (`StartHeard`) or hear it end. What
the app-server says is one lemma for all its actions (`SaidHolds`).

**OpenCodeTurns.** Types, `ResultsInOrder`, `NeverResurrected`. `DriverOk` and the
relation `Follows` are about the driver alone: what it owes after an operation is a part
of what it owed before, in the same order, and most actions are then one use of the
lemma `Moves`. The rest ties the driver to what is under way. `WireOk`: the frames on the
stream tell of runs in their order, with one idle each and a text before it at most. Every
result, out or owed, remembers whose idle it reports (`TextsOk`), and those runs follow one another
up to the idles still to be read; a text is of that run or an earlier one, but of a later
one than the idle before (`Past`), and `HeardOk` says the same of the text the driver
remembers. `PlacesOk`: the generations of runs, the server's queue and the posts follow
one another up to the driver's. `FreshOk`: a driver that would take up the next run as a
turn has nothing withdrawn under way, unless a `stale` idle was read. `ResultsTelling`
is only model-checked.

**PiTurns and McpBridge.** Types and `NoOrphan`, for any number of parallel calls and
clients. `BridgeSafe` says that at most one client is being made, that the one it
replaces is down, that calls wait for a reconnect only while one is made, and that
the client a close has waited for stays gone. It is joined with what the driver does:
the bridge is closed exactly when the driver has finished, and calls belong to a cycle
that runs.

The prover cannot instantiate the library's induction theorems, whose parameter is an
operator. `QueueLemmas` gets around this for what the models need: induction as a
lemma about a *set* of naturals (`SetInduction`), from the least element of a set of
naturals, and from it what the recursive function `Filter` returns for every sequence.
What `Bytes` of EventPusher computes is used in the proofs only through its type.

Only model-checked: what `McpBridge` does beyond what `NoOrphan` says; and all
liveness, since the prover does not reason about fairness and ENABLED.

## 5. Not modelled

Pure I/O and data: workspace files, file search, event payload reads, todo and
question formatting, tool results and the tool budget, the translation of events
(`*-translate.mjs`), tool policy, the driver registry, the image manifest and the
image build. The HTTP surface (routing, authentication, bodies). How a payload is
shrunk.

Left out of modelled components, because what they add keeps to itself: mode and
model switches, authentication and rollout reconstruction or resume of the
harnesses; questions (asks with more than two answers); compaction and command
turns with a model override of the Claude driver, compaction of OpenCode; turns a
Claude task starts that a later interrupt meets.

Not modelled yet, in the order in which they would be worth it:

1. `SessionCore`: creates that meet, a seed gate and a shutdown, with the broker's
   and the pusher's part in them; an abstract `Harness` that LiveSetup's harness and
   the four drivers implement.
2. `TaskLedger` with the level signal and the time-to-live, `DesktopControl` (the
   lease), the message-id bound of 256, the skill-fetch lock of the run tools.
3. Proofs about the modules of 1 and 2.
