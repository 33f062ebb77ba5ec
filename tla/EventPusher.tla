----------------------------- MODULE EventPusher -----------------------------
(***************************************************************************)
(* The session event pusher (event-pusher.mjs): every event gets the next  *)
(* sequence number, waits in one queue, and goes to the control plane in   *)
(* batches, one in flight at a time.  The control plane and the network    *)
(* are the environment: a batch may be stored, refused for its size,       *)
(* refused for good, or fail, and one the pusher gave up waiting for may   *)
(* still be stored later.  Node runs one handler at a time, so an action   *)
(* is a handler up to its next await.                                      *)
(***************************************************************************)
EXTENDS Naturals, SequencesExt

CONSTANTS
  MaxQueue, MaxBatch, MaxBatchBytes, MinBatchBytes, MaxRenewalRefusals,
  MaxPayload,   \* cap on a durable payload at emit (MAX_EVENT_PAYLOAD_BYTES)
  StubSize,     \* serialized size of a stub
  BodyCap,      \* external: largest body the control plane takes
  Payloads,     \* the payloads emitted: [size : Nat, json : BOOLEAN]
  Drainers,     \* callers of drain(): a replacing create, a shutdown
  MaxSeq,       \* bound: events emitted
  MaxFaults,    \* bound: transient failures of the network or control plane
  MaxLate       \* bound: given-up requests still under way

ASSUME PusherAssumption ==
  /\ MaxQueue \in Nat \ {0} /\ MaxBatch \in Nat \ {0}
  /\ MaxBatchBytes \in Nat /\ MinBatchBytes \in Nat
  /\ MaxRenewalRefusals \in Nat \ {0}
  /\ MaxPayload \in Nat /\ StubSize \in Nat /\ BodyCap \in Nat
  /\ Payloads \subseteq [size : Nat, json : BOOLEAN]
  /\ MaxSeq \in Nat /\ MaxFaults \in Nat /\ MaxLate \in Nat

VARIABLES
  seq, queue, timer, inFlight, batchLimit, batchBytes, stopped,
  truncated,    \* events that went out cut, each taken for a permission request
  sent,         \* the batch of the flush in flight
  onStopped,    \* how often the onStopped callback ran
  identity,     \* external: the broker's credential for this session is live
  drain,        \* where each drain() call is
  stored,       \* external: the events the control plane has, by first arrival
  late,         \* external: batches given up on that may still arrive
  faults,       \* transient failures so far
  written       \* history: the durable events queued

vars == <<seq, queue, timer, inFlight, batchLimit, batchBytes, stopped,
          truncated, sent, onStopped, identity, drain, stored, late, faults,
          written>>

Kinds == {"partial", "durable", "terminal"}  \* terminal: session.ended, session.error

\* json: the payload serializes.  whole: it went out as the harness made it.
Event == [seq : Nat, kind : Kinds, size : Nat, json : BOOLEAN,
          whole : BOOLEAN, stub : BOOLEAN]

Durable(e) == e.kind # "partial"
SeqsOf(S) == {e.seq : e \in S}
Numbers(q) == SeqsOf(ToSet(q))

\* The serialized size of a batch.
Bytes(b) ==
  LET upTo[i \in 0..Len(b)] == IF i = 0 THEN 0 ELSE upTo[i - 1] + b[i].size
  IN  upTo[Len(b)]

-----------------------------------------------------------------------------
(* Emitting *)

Shrinks(kind, p) == kind # "partial" /\ p.json /\ p.size > MaxPayload

NewEvent(n, kind, p) ==
  [seq |-> n, kind |-> kind, json |-> p.json, stub |-> FALSE,
   size |-> IF Shrinks(kind, p) THEN MaxPayload ELSE p.size,
   whole |-> ~Shrinks(kind, p)]

StubFor(e) ==
  [e EXCEPT !.size = StubSize, !.json = TRUE, !.whole = FALSE, !.stub = TRUE]

Partials(q) == {i \in DOMAIN q : q[i].kind = "partial"}

\* Mutant: overflow evicts the oldest event whatever it is.
EnqueueEvictingAny(q, e) == IF Len(q) < MaxQueue THEN Append(q, e) ELSE Append(Tail(q), e)

\* Mutant: a partial is not shed at the cap.
EnqueueKeepingPartial(q, e) == Append(q, e)

\* A full queue sheds the new partial, or evicts its oldest one for a durable
\* event; with only durable events queued it grows past the cap.
Enqueue(q, e) ==
  IF Len(q) < MaxQueue THEN Append(q, e)
  ELSE IF e.kind = "partial" THEN q
  ELSE IF Partials(q) # {} THEN Append(RemoveAt(q, Min(Partials(q))), e)
  ELSE Append(q, e)

\* schedule(): no second timer, none beside a request, none once stopped.
Schedule(flying, ended) == timer' = (timer \/ (~flying /\ ~ended))

\* Mutant: an event cut at emit is not noted.
PushUnnoted(evs) ==
  /\ queue' = IF Len(evs) = 1 THEN Enqueue(queue, evs[1])
              ELSE Enqueue(Enqueue(queue, evs[1]), evs[2])
  /\ written' = written \union SeqsOf({e \in ToSet(evs) : Durable(e)})
  /\ UNCHANGED truncated
  /\ IF queue' = queue THEN UNCHANGED timer ELSE Schedule(inFlight, stopped)

\* emit() of one event, or of the two a single call may queue: the open
\* turn's turn.completed before a terminal event, and a tool result's
\* turn.files_changed after it.
Push(evs) ==
  /\ queue' = IF Len(evs) = 1 THEN Enqueue(queue, evs[1])
              ELSE Enqueue(Enqueue(queue, evs[1]), evs[2])
  /\ written' = written \union SeqsOf({e \in ToSet(evs) : Durable(e)})
  /\ truncated' = truncated \union SeqsOf({e \in ToSet(evs) : ~e.whole})
  /\ IF queue' = queue THEN UNCHANGED timer ELSE Schedule(inFlight, stopped)

EmitOne(kind, p) ==
  /\ seq < MaxSeq
  /\ seq' = seq + 1
  /\ IF stopped THEN UNCHANGED <<queue, written, truncated, timer>>
     ELSE Push(<<NewEvent(seq + 1, kind, p)>>)
  /\ UNCHANGED <<inFlight, batchLimit, batchBytes, stopped, sent, onStopped,
                 identity, drain, stored, late, faults>>

\* The pusher's own turn.completed and turn.files_changed are small.
OwnEvent(n) == NewEvent(n, "durable", [size |-> StubSize, json |-> TRUE])

\* A terminal event first closes the turn it finds open.
EmitTerminalInTurn(p) ==
  /\ seq + 1 < MaxSeq
  /\ seq' = seq + 2
  /\ IF stopped THEN UNCHANGED <<queue, written, truncated, timer>>
     ELSE Push(<<OwnEvent(seq + 1), NewEvent(seq + 2, "terminal", p)>>)
  /\ UNCHANGED <<inFlight, batchLimit, batchBytes, stopped, sent, onStopped,
                 identity, drain, stored, late, faults>>

EmitWithFilesChanged(p) ==
  /\ seq + 1 < MaxSeq
  /\ ~stopped
  /\ seq' = seq + 2
  /\ Push(<<NewEvent(seq + 1, "durable", p), OwnEvent(seq + 2)>>)
  /\ UNCHANGED <<inFlight, batchLimit, batchBytes, stopped, sent, onStopped,
                 identity, drain, stored, late, faults>>

Emit ==
  \E p \in Payloads :
    \/ \E kind \in Kinds : EmitOne(kind, p)
    \/ EmitTerminalInTurn(p)
    \/ EmitWithFilesChanged(p)

-----------------------------------------------------------------------------
(* Flushing *)

\* Scanning drops a partial without a JSON form and stubs such a durable event.
Survives(e) == e.json \/ Durable(e)
Serialized(e) == IF e.json THEN e ELSE StubFor(e)

Increasing(m, n) ==
  {f \in [1..m -> 1..n] : \A i, j \in 1..m : i < j => f[i] < f[j]}

\* nextBatch(): scan the queue from its head until the batch is full or the
\* next event does not fit the byte budget.  at names the survivors among the
\* first n events, scan is what they became.
NextBatch ==
  \E n \in 0..Len(queue) : \E m \in 0..n : \E at \in Increasing(m, n) :
    LET scan == [j \in 1..m |-> Serialized(queue[at[j]])]
    IN  /\ Range(at) = {i \in 1..n : Survives(queue[i])}
        /\ queue' = scan \o SubSeq(queue, n + 1, Len(queue))
        /\ truncated' = truncated \union
             SeqsOf({e \in ToSet(SubSeq(queue, 1, n)) : Durable(e) /\ ~e.json})
        /\ \/ /\ m <= batchLimit
              /\ n = IF m = batchLimit THEN at[m] ELSE Len(queue)
              /\ m <= 1 \/ Bytes(scan) <= batchBytes
              /\ sent' = scan
           \/ /\ m \in 2..batchLimit
              /\ n = at[m]
              /\ sent' = SubSeq(scan, 1, m - 1)
              /\ m = 2 \/ Bytes(sent') <= batchBytes
              /\ Bytes(scan) > batchBytes

\* flush() up to its await: the request is on its way.
Flush ==
  /\ ~inFlight /\ ~stopped /\ queue # <<>>
  /\ NextBatch
  /\ inFlight' = TRUE

TimerFires ==
  /\ timer
  /\ timer' = FALSE
  /\ \/ Flush
     \/ queue = <<>> /\ UNCHANGED <<queue, truncated, sent, inFlight>>
  /\ UNCHANGED <<seq, batchLimit, batchBytes, stopped, onStopped, identity,
                 drain, stored, late, faults, written>>

-----------------------------------------------------------------------------
(* The answer to a flush, or its failure *)

\* The receiver dedups on the sequence number: the first arrival stands.
StoreBatch(b) ==
  stored' = stored \union {e \in ToSet(b) : e.seq \notin SeqsOf(stored)}

\* Whoever awaits this flush in drain() goes on.
FlushReturns ==
  /\ inFlight' = FALSE
  /\ drain' = [d \in Drainers |->
                 IF drain[d] = "flushing" THEN "flushed" ELSE drain[d]]
  /\ sent' = <<>>

\* Mutant: the catch block arms no timer.
RetryUnscheduled ==
  UNCHANGED <<timer, queue, batchLimit, batchBytes, stopped, truncated, onStopped,
              identity>>

\* The catch block: the batch stays queued and is retried after a backoff.
Retry ==
  /\ Schedule(FALSE, stopped)
  /\ UNCHANGED <<queue, batchLimit, batchBytes, stopped, truncated, onStopped,
                 identity>>

\* Events up to the last one sent leave the queue, by sequence number: an
\* eviction may have moved them since.
Unsent(last) == {i \in DOMAIN queue : queue[i].seq > last}

\* Mutant: as many events leave as were sent, by position.
AfterAckByPosition(last) == SubSeq(queue, Len(sent) + 1, Len(queue))

AfterAck(last) ==
  IF Unsent(last) = {} THEN <<>>
  ELSE SubSeq(queue, Min(Unsent(last)), Len(queue))

\* A delivered session.ended or session.error ends delivery.
DeliveredTerminal ==
  /\ identity' = FALSE /\ queue' = <<>> /\ stopped' = TRUE /\ timer' = FALSE
  /\ UNCHANGED <<batchLimit, batchBytes, truncated, onStopped>>

DeliveredBatch ==
  /\ queue' = AfterAck(Last(sent).seq)
  /\ batchLimit' = MaxBatch
  /\ IF queue' = <<>> THEN UNCHANGED timer ELSE Schedule(FALSE, stopped)
  /\ UNCHANGED <<batchBytes, stopped, truncated, onStopped, identity>>

\* 2xx.  A batch that lost every event to serialization is acknowledged like
\* any other, and reading its last event throws.
Accepted ==
  /\ inFlight /\ Bytes(sent) <= BodyCap
  /\ StoreBatch(sent)
  /\ \/ (\E e \in ToSet(sent) : e.kind = "terminal") /\ DeliveredTerminal
     \/ (\A e \in ToSet(sent) : e.kind # "terminal") /\ sent # <<>> /\ DeliveredBatch
     \/ sent = <<>> /\ Retry
  /\ FlushReturns
  /\ UNCHANGED <<seq, late, faults, written>>

\* Mutant: giving up forgets to stop the pusher.
GiveUpRunning ==
  /\ identity' = FALSE /\ queue' = <<>> /\ timer' = FALSE
  /\ onStopped' = onStopped + 1
  /\ UNCHANGED <<stopped, batchLimit, batchBytes, truncated>>

GiveUp ==
  /\ identity' = FALSE /\ queue' = <<>> /\ stopped' = TRUE /\ timer' = FALSE
  /\ onStopped' = onStopped + 1
  /\ UNCHANGED <<batchLimit, batchBytes, truncated>>

\* 401, 403, 404, 410.
Refused ==
  /\ inFlight
  /\ GiveUp
  /\ FlushReturns
  /\ UNCHANGED <<seq, stored, late, faults, written>>

\* The broker could not renew the identity; n refusals in a row so far.
RenewalRefused ==
  /\ inFlight
  /\ \E n \in 1..MaxRenewalRefusals :
       IF n >= MaxRenewalRefusals THEN GiveUp /\ UNCHANGED faults
       ELSE faults < MaxFaults /\ Retry /\ faults' = faults + 1
  /\ FlushReturns
  /\ UNCHANGED <<seq, stored, late, written>>

\* 5xx, another 400, a reset, the 15 s timeout: the request may still arrive.
Failed ==
  /\ inFlight /\ faults < MaxFaults
  /\ faults' = faults + 1
  /\ late' \in {late, late \union {sent}} /\ Cardinality(late') <= MaxLate
  /\ Retry
  /\ FlushReturns
  /\ UNCHANGED <<seq, stored, written>>

\* external: the control plane takes a request the pusher gave up on.
LateArrival ==
  \E b \in late :
    /\ late' = late \ {b}
    /\ StoreBatch(b)
    /\ UNCHANGED <<seq, queue, timer, inFlight, batchLimit, batchBytes, stopped,
                   truncated, sent, onStopped, identity, drain, faults, written>>

\* Mutant: half of one less, with no floor.
SplitToNothing ==
  /\ Len(sent) > 1
  /\ batchLimit' = (Len(sent) - 1) \div 2
  /\ batchBytes' = Min({batchBytes, Max({MinBatchBytes, Bytes(sent) \div 2})})
  /\ UNCHANGED <<queue, truncated>>

\* refusedForSize() of several events: halve the next batch, and for good the
\* byte budget.
Split ==
  /\ Len(sent) > 1
  /\ batchLimit' = Max({1, Len(sent) \div 2})
  /\ batchBytes' = Min({batchBytes, Max({MinBatchBytes, Bytes(sent) \div 2})})
  /\ UNCHANGED <<queue, truncated>>

\* Mutant: a refused event is resent as it is.
ReplaceByNothing ==
  /\ Len(sent) = 1 /\ ~sent[1].stub
  /\ UNCHANGED <<batchLimit, batchBytes, queue, truncated>>

\* Mutant: a refused durable event is dropped like a partial.
ReplaceByDropping ==
  /\ Len(sent) = 1 /\ ~sent[1].stub
  /\ queue' = SelectSeq(queue, LAMBDA e : e.seq # sent[1].seq)
  /\ UNCHANGED <<batchLimit, batchBytes, truncated>>

\* refusedForSize() of one event, found again by its number: drop a partial,
\* stub a durable event; nothing to do for one evicted meanwhile.
Replace ==
  /\ Len(sent) = 1 /\ ~sent[1].stub
  /\ UNCHANGED <<batchLimit, batchBytes>>
  /\ \/ sent[1].seq \notin Numbers(queue) /\ UNCHANGED <<queue, truncated>>
     \/ \E i \in DOMAIN queue :
          /\ queue[i].seq = sent[1].seq
          /\ \/ /\ ~Durable(sent[1])
                /\ queue' = RemoveAt(queue, i)
                /\ UNCHANGED truncated
             \/ /\ Durable(sent[1])
                /\ queue' = ReplaceAt(queue, i, StubFor(sent[1]))
                /\ truncated' = truncated \union {sent[1].seq}

\* 413, or the 400 that names the body size.  A stub's refusal is retried.
SizeRefused ==
  /\ inFlight /\ sent # <<>>
  /\ \/ Bytes(sent) > BodyCap /\ UNCHANGED faults
     \/ faults < MaxFaults /\ faults' = faults + 1
  /\ \/ /\ Split \/ Replace
        /\ Schedule(FALSE, stopped)
        /\ UNCHANGED <<stopped, onStopped, identity>>
     \/ Len(sent) = 1 /\ sent[1].stub /\ Retry
  /\ FlushReturns
  /\ UNCHANGED <<seq, stored, late, written>>

Answer == Accepted \/ Refused \/ RenewalRefused \/ Failed \/ SizeRefused

-----------------------------------------------------------------------------
(* drain(): flush until the queue is empty or the deadline passes, then stop *)

\* Mutant: the deadline leaves the pusher running.
DrainStopsRunning(d) ==
  /\ drain' = [drain EXCEPT ![d] = "done"]
  /\ UNCHANGED <<queue, truncated, sent, inFlight, timer, stopped>>

DrainStops(d) ==
  /\ stopped' = TRUE /\ timer' = FALSE
  /\ drain' = [drain EXCEPT ![d] = "done"]
  /\ UNCHANGED <<queue, truncated, sent, inFlight>>

\* The head of the loop.  Beside a flush already in flight, its own does nothing.
DrainLoop(d) ==
  \/ DrainStops(d)  \* nothing queued, already stopped, or past the deadline
  \/ /\ queue # <<>> /\ ~stopped
     /\ timer' = FALSE
     /\ UNCHANGED stopped
     /\ \/ Flush /\ drain' = [drain EXCEPT ![d] = "flushing"]
        \/ /\ inFlight
           /\ drain' = [drain EXCEPT ![d] = "sleeping"]
           /\ UNCHANGED <<queue, truncated, sent, inFlight>>

DrainStep(d) ==
  /\ \/ drain[d] \in {"idle", "sleeping"} /\ DrainLoop(d)
     \/ /\ drain[d] = "flushed" /\ queue # <<>>
        /\ drain' = [drain EXCEPT ![d] = "sleeping"]
        /\ UNCHANGED <<queue, truncated, sent, inFlight, timer, stopped>>
     \/ drain[d] = "flushed" /\ queue = <<>> /\ DrainStops(d)
  /\ UNCHANGED <<seq, batchLimit, batchBytes, onStopped, identity, stored, late,
                 faults, written>>

-----------------------------------------------------------------------------
Init ==
  /\ seq = 0 /\ queue = <<>> /\ timer = FALSE /\ inFlight = FALSE
  /\ batchLimit = MaxBatch /\ batchBytes = MaxBatchBytes
  /\ stopped = FALSE /\ truncated = {} /\ sent = <<>>
  /\ onStopped = 0 /\ identity = TRUE
  /\ drain = [d \in Drainers |-> "idle"]
  /\ stored = {} /\ late = {} /\ faults = 0 /\ written = {}

Next ==
  \/ Emit
  \/ TimerFires
  \/ Answer
  \/ LateArrival
  \/ \E d \in Drainers : DrainStep(d)

Spec == Init /\ [][Next]_vars

\* Timers fire, a request is answered or aborted within 15 s, and a drain that
\* was called runs on; nobody need call one.
Fairness ==
  /\ WF_vars(TimerFires)
  /\ WF_vars(Answer)
  /\ \A d \in Drainers : WF_vars(drain[d] # "idle" /\ DrainStep(d))

FairSpec == Spec /\ Fairness

-----------------------------------------------------------------------------
(* Properties *)

DrainStates == {"idle", "flushing", "flushed", "sleeping", "done"}

\* The type invariant.
TypeOK ==
  /\ seq \in Nat /\ queue \in Seq(Event) /\ sent \in Seq(Event)
  /\ timer \in BOOLEAN /\ inFlight \in BOOLEAN /\ stopped \in BOOLEAN
  /\ identity \in BOOLEAN
  /\ batchLimit \in 1..MaxBatch /\ batchBytes \in Nat
  /\ truncated \subseteq Nat /\ written \subseteq Nat
  /\ onStopped \in Nat /\ faults \in Nat
  /\ drain \in [Drainers -> DrainStates]
  /\ stored \subseteq Event /\ late \subseteq Seq(Event)

StoredDurable == SeqsOf({e \in stored : Durable(e)})

\* A reader never sees a hole: whatever was lost, repeated, split, stubbed or
\* arrives late, the control plane holds every durable event below any event
\* it holds (flush removes by seq and resends from the head of the queue).
NoHoles == \A e \in stored, n \in written : n < e.seq => n \in StoredDurable

\* "Durable events are never dropped": each queued one is stored or still
\* queued, unless delivery was given up or a session.ended before it is stored.
NoDurableLost ==
  \A n \in written :
    \/ n \in StoredDurable \union Numbers(queue)
    \/ onStopped > 0
    \/ \E e \in stored : e.kind = "terminal" /\ e.seq < n

\* Nothing waits unattended: while the pusher runs, queued events have a
\* timer, a request in flight or a drain() that will look at them again.
NothingForgotten ==
  (queue # <<>> /\ ~stopped) =>
    \/ timer \/ inFlight
    \/ \E d \in Drainers : drain[d] \in {"flushed", "sleeping"}

\* Past its cap the queue holds durable events only (overflow sheds partials).
OverflowIsDurable == Len(queue) > MaxQueue => Partials(queue) = {}

\* An event the control plane holds cut or stubbed is remembered, so an
\* approval cannot echo the cut input back as the input to run.
CutIsRemembered == \A e \in stored : ~e.whole => e.seq \in truncated

\* onStopped runs at most once, and only for a pusher that has stopped and
\* has no request left to hear from.
OnStoppedOnce ==
  onStopped <= 1 /\ (onStopped = 1 => stopped /\ ~inFlight /\ ~identity)

\* The event contract: the control plane's log refines EventLog.
Log == INSTANCE EventLog WITH written <- written, stored <- StoredDurable
ImplementsLog == Log!Spec

\* Every durable event reaches the control plane unless delivery ends: no
\* refusal, split or outage leaves the queue stuck (#1631).
DurableDelivered ==
  \A n \in 1..MaxSeq : n \in written ~> (n \in StoredDurable \/ stopped)

\* A drain() that was called comes to an end, with the pusher stopped.
DrainEnds ==
  \A d \in Drainers : drain[d] = "flushing" ~> (drain[d] = "done" /\ stopped)

\* The constructor's comment (event-pusher.mjs:57): onStopped runs "never on a
\* drain or a delivered session.ended".
OnStoppedNotAfterDelivery ==
  onStopped > 0 => \A e \in stored : e.kind # "terminal"
=============================================================================
