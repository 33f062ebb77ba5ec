---------------------------- MODULE CodexTurnsProofs ----------------------------
(***************************************************************************)
(* Proofs about CodexTurns: the types of every variable, that a withdrawn  *)
(* turn is never taken for the live one, that the session is not idle over *)
(* a live turn, and that a turn has exactly one result while turns do not  *)
(* cross, for every number of messages, interrupts, approvals and failures. *)
(***************************************************************************)
EXTENDS CodexTurns, QueueLemmas

-----------------------------------------------------------------------------
(* The types                                                                 *)

Asks == {"start", "steer", "stop", "late"}
Reqs == [kind : Asks \union {"chain", "reply", "none"}, m : Nat, gen : Nat, turn : Nat]
Micros == [req : Reqs, ok : BOOLEAN, turn : Nat, tick : Nat]
Reactions == [kind : {"result", "finish", "fail", "exit"}, turn : Nat, gen : Nat]
Openings == [m : Nat, gen : Nat]
Lines ==
  [kind : {"started", "completed", "interrupted", "error", "ask", "resolved", "result",
           "refusal"}, turn : Nat, req : Reqs]
Outs == [turn : Nat, text : Nat]

DriverRecord ==
  [state : {"idle", "working", "blocked"}, said : Nat, closed : BOOLEAN, ending : BOOLEAN,
   retiring : BOOLEAN, finished : BOOLEAN, over : {"none", "ended", "error", "retired"},
   gen : Nat, active : BOOLEAN, cur : Nat, turnGen : Nat, openings : Seq(Openings),
   steers : Seq(Nat), emitted : BOOLEAN, text : Nat, gate : BOOLEAN,
   chain : Seq(Reactions), sync : {"none", "result", "finish", "fail"},
   micro : Seq(Micros), chunk : BOOLEAN, waiting : Seq(Reqs), stdin : Seq(Reqs),
   pipe : BOOLEAN, exited : BOOLEAN]

AppRecord ==
  [running : Nat, queue : Seq(Nat), stopping : Seq(Reqs), asking : BOOLEAN, asked : Nat,
   failures : Nat]

LogRecord ==
  [turns : Seq(Openings), results : Seq(Outs), due : SUBSET Nat,
   odd : SUBSET {"crossed", "late", "orphan"}]

-----------------------------------------------------------------------------
(* The inductive invariant                                                   *)

\* The driver: a reaction's microtask is there once, and while a reaction is due; what
\* is closed stays so; nothing is of a generation there has not been.
DriverOk(c) ==
  /\ c \in DriverRecord /\ c.said <= MaxMessages
  /\ c.sync # "none" => c.chain # <<>>
  /\ c.sync = "result" => c.chain[1].kind = "result"
  /\ c.sync \in {"finish", "fail"} => c.finished
  /\ \A i \in 1..Len(c.micro) : c.micro[i].req.kind = "chain" =>
       /\ c.chain # <<>> /\ c.sync = "none"
       /\ \A j \in 1..Len(c.micro) : c.micro[j].req.kind = "chain" => i = j
  /\ \A i \in 1..Len(c.waiting) : c.waiting[i].kind \in Asks
  /\ \A i \in 1..Len(c.stdin) : c.stdin[i].kind \in {"stop", "late"} => c.stdin[i].turn # 0
  /\ c.chunk => c.micro # <<>>
  /\ c.exited => c.waiting = <<>> /\ c.stdin = <<>> /\ ~c.pipe
  /\ c.pipe \/ c.finished \/ c.exited
  /\ c.over # "none" => c.finished
  /\ c.turnGen <= c.gen
  /\ \A i \in 1..Len(c.chain) : c.chain[i].gen <= c.gen

\* The openings: of one generation after the other, the live turn's not after them.
OpeningsOk(c) ==
  /\ \A i, j \in 1..Len(c.openings) : i <= j => c.openings[i].gen <= c.openings[j].gen
  /\ \A i \in 1..Len(c.openings) :
       c.turnGen <= c.openings[i].gen /\ c.openings[i].gen <= c.gen

\* The app-server: it runs the last turn it started, and queues those after it.
AppOk(c, a, W, T) ==
  /\ a \in AppRecord /\ W \in Seq(Lines) /\ T \in Seq(Openings)
  /\ a.running \in 0..Len(T)
  /\ IF c.exited THEN a.running = 0 /\ a.queue = <<>> /\ ~a.asking /\ W = <<>>
     ELSE /\ a.running # 0 => a.running = Len(T) - Len(a.queue)
          /\ Len(a.queue) <= Len(T)
          /\ \A k \in 1..Len(a.queue) : a.queue[k] = (Len(T) - Len(a.queue)) + k
  /\ a.stopping # <<>> => a.running # 0
  /\ \A i \in 1..Len(a.stopping) : a.stopping[i].kind \in {"stop", "late"}

\* A turn is of a generation there has been; the live one of the present one.
TurnsOk(c, T) ==
  /\ \A n \in 1..Len(T) : T[n].gen <= c.gen
  /\ c.cur \in 0..Len(T)
  /\ c.cur # 0 /\ c.over = "none" => T[c.cur].gen = c.gen

Opens(r) == [m |-> r.m, gen |-> r.gen]

\* A started turn is what its request was for.
AnswersOk(c, W, T) ==
  /\ \A i \in 1..Len(c.micro) : c.micro[i].req.kind = "start" /\ c.micro[i].ok =>
       c.micro[i].turn \in 1..Len(T) /\ T[c.micro[i].turn] = Opens(c.micro[i].req)
  /\ \A i \in 1..Len(W) : W[i].kind = "result" /\ W[i].req.kind = "start" =>
       W[i].turn \in 1..Len(T) /\ T[W[i].turn] = Opens(W[i].req)

\* g has the last turn the driver has heard start before it reads the first line of W,
\* and after each: the turns of the app-server end before the next one starts.
Trace(g, W) ==
  /\ g \in [0..Len(W) -> Nat]
  /\ \A j \in 1..Len(W) :
       /\ g[j] = IF W[j].kind = "started" THEN g[j - 1] + 1 ELSE g[j - 1]
       /\ W[j].kind \in {"started", "completed", "interrupted", "error"} =>
            W[j].turn = g[j] /\ g[j] # 0
       /\ W[j].kind = "result" /\ W[j].req.kind = "start" => g[j] < W[j].turn

Starting(S) == {k \in 1..Len(S) : S[k].kind = "start"}

\* The openings of which a start is still to be heard, in the order it will be.
Wanted(T, S, h) ==
  {[rank |-> n, o |-> T[n]] : n \in (h + 1)..Len(T)}
    \union {[rank |-> Len(T) + k, o |-> Opens(S[k])] : k \in Starting(S)}

\* They are all among the driver's openings, in this order: between them may be some
\* that were refused.
LinedUp(o, V) ==
  /\ \A v \in V : \E i \in 1..Len(o) : o[i] = v.o
  /\ \A v, w \in V : v.rank < w.rank =>
       \A i, j \in 1..Len(o) : o[i].m = v.o.m /\ o[j].m = w.o.m => i < j

\* Messages by what has become of them: asked to be a turn's, refused, to steer.
Started(S) == {S[k].m : k \in Starting(S)}
Turned(T) == {T[n].m : n \in 1..Len(T)}
Refused(c, W) ==
  {W[i].req.m : i \in {k \in 1..Len(W) : W[k].kind = "refusal" /\ W[k].req.kind = "start"}}
    \union {c.micro[i].req.m :
              i \in {k \in 1..Len(c.micro) : c.micro[k].req.kind = "start" /\ ~c.micro[k].ok}}
Opened(c, W, T) ==
  {c.openings[i].m : i \in 1..Len(c.openings)}
    \union Started(c.stdin) \union Turned(T) \union Refused(c, W)

Kept(c) == {c.steers[i] : i \in 1..Len(c.steers)}
Steering(S) == {k \in 1..Len(S) : S[k].kind = "steer"}
Steered(S) == {S[k].m : k \in Steering(S)}
Settled(Q) == {k \in 1..Len(Q) : Q[k].req.kind = "steer"}
Told(Q) == {Q[k].req.m : k \in Settled(Q)}
Steers(c) == Kept(c) \union Steered(c.waiting) \union Told(c.micro)

\* Each message opens one turn, or is in one place from which it may still steer.
OnePlace(c) ==
  /\ \A i, j \in 1..Len(c.openings) : c.openings[i].m = c.openings[j].m => i = j
  /\ \A i, j \in 1..Len(c.steers) : c.steers[i] = c.steers[j] => i = j
  /\ \A i, j \in Steering(c.waiting) : c.waiting[i].m = c.waiting[j].m => i = j
  /\ \A i, j \in Settled(c.micro) : c.micro[i].req.m = c.micro[j].req.m => i = j
  /\ Kept(c) \intersect Steered(c.waiting) = {}
  /\ Kept(c) \intersect Told(c.micro) = {}
  /\ Steered(c.waiting) \intersect Told(c.micro) = {}

\* A message is taken once: what may still steer has opened no turn, what was refused
\* has none, what is asked for has none yet.
MessagesOk(c, W, T) ==
  /\ \A m \in Opened(c, W, T) \union Steers(c) : m <= c.said
  /\ Opened(c, W, T) \intersect Steers(c) = {}
  /\ Refused(c, W) \intersect (Turned(T) \union Started(c.stdin)) = {}
  /\ Turned(T) \intersect Started(c.stdin) = {}
  /\ OnePlace(c)

Has(o, x) == \E i \in 1..Len(o) : o[i] = x

\* An idle session over a live turn has that turn's start still to hear.
IdleOk(c, T) ==
  c.state = "idle" =>
    /\ c.active /\ c.cur # 0 /\ c.over = "none" => Has(c.openings, T[c.cur])
    /\ \A i \in 1..Len(c.micro) :
         c.micro[i].req.kind = "start" /\ c.micro[i].ok /\ c.micro[i].req.gen = c.gen =>
           Has(c.openings, T[c.micro[i].turn])

\* While the app-server is there.
Lively(c, a, W, T, g) ==
  ~c.exited =>
    /\ g[Len(W)] = Len(T) - Len(a.queue)
    /\ LinedUp(c.openings, Wanted(T, c.stdin, g[0]))
    /\ MessagesOk(c, W, T) /\ IdleOk(c, T)

\* A reaction is chained that ends the session.
Doomed(c) == \E i \in 1..Len(c.chain) : c.chain[i].kind # "result"

\* The results chained, and those out, h being the turn last heard to start.
ResultsOk(c, l, h) ==
  /\ \A i \in 1..Len(c.chain) : c.chain[i].kind = "result" =>
       /\ c.chain[i].turn = h /\ c.chain[i].gen = c.turnGen
       /\ c.chain[i].gen = c.gen => h \in l.due
  /\ \A k \in 1..Len(l.results) :
       /\ l.results[k].turn <= h /\ l.results[k].turn \in l.due
       /\ l.results[k].text \in {0, l.results[k].turn}
       /\ l.results[k].turn = h => c.emitted /\ c.sync # "result"
  /\ \A j, k \in 1..Len(l.results) : l.results[j].turn = l.results[k].turn => j = k
  /\ c.sync = "result" => c.emitted /\ h \in l.due /\ c.text \in {0, h}

Out(l, n) == \E k \in 1..Len(l.results) : l.results[k].turn = n

\* The turn last heard to start, unless withdrawn: its generation is the one results are
\* judged by, it is live until it owes a result, and what it owes is chained or out.
LastOk(c, l, h) ==
  h # 0 =>
    /\ c.turnGen = c.gen <=> l.turns[h].gen = c.gen
    /\ c.turnGen = c.gen => c.text \in {0, h}
    /\ c.turnGen = c.gen /\ c.emitted => Out(l, h) \/ c.sync = "result"
    /\ ~c.finished /\ l.turns[h].gen = c.gen /\ h \notin l.due =>
         (c.active /\ c.cur = h) \/ Doomed(c)

DueOk(c, l, h) ==
  ~c.finished => \A n \in l.due :
    \/ Out(l, n) \/ Doomed(c)
    \/ c.sync = "result" /\ n = h
    \/ \E i \in 1..Len(c.chain) :
         c.chain[i].kind = "result" /\ c.chain[i].turn = n /\ c.chain[i].gen = c.gen

\* Only withdrawn turns are interrupted.
Withdrawn(c, T, n) == n \in 1..Len(T) /\ T[n].gen < c.gen
StopsOk(c, a, W, T) ==
  /\ \A i \in 1..Len(c.stdin) : c.stdin[i].kind \in {"stop", "late"} => Withdrawn(c, T, c.stdin[i].turn)
  /\ a.stopping # <<>> => Withdrawn(c, T, a.running)
  /\ \A i \in 1..Len(W) : W[i].kind = "interrupted" => Withdrawn(c, T, W[i].turn)

\* While no turns crossed.
Clean(c, a, W, l, h) ==
  "crossed" \notin l.odd =>
    /\ h <= Len(l.turns)
    /\ ResultsOk(c, l, h) /\ LastOk(c, l, h) /\ DueOk(c, l, h)
    /\ StopsOk(c, a, W, l.turns)

LogOk(l) == l \in LogRecord /\ l.due \subseteq 1..Len(l.turns)

\* All of it, with what the driver has heard.
Holds(g, c, a, W, l) ==
  /\ DriverOk(c) /\ OpeningsOk(c) /\ LogOk(l)
  /\ AppOk(c, a, W, l.turns) /\ TurnsOk(c, l.turns) /\ AnswersOk(c, W, l.turns)
  /\ Trace(g, W) /\ Lively(c, a, W, l.turns, g) /\ Clean(c, a, W, l, g[0])

Heard == \E g : Holds(g, d, app, stdout, log)

IInv == Heard /\ DOMAIN stops = 0..MaxInterrupts

-----------------------------------------------------------------------------
(* Sequences of requests                                                     *)

\* A sequence is empty by its length.
LEMMA EmptyByLength == ASSUME NEW S, NEW q \in Seq(S) PROVE q = <<>> <=> Len(q) = 0
  OBVIOUS

\* What is in a sequence.
LEMMA ElementOf == ASSUME NEW S, NEW q \in Seq(S), NEW i \in 1..Len(q) PROVE q[i] \in S
  OBVIOUS

\* What is in a sequence that goes on.
LEMMA AppendAt ==
  ASSUME NEW S, NEW q \in Seq(S), NEW x \in S
  PROVE  /\ Append(q, x) \in Seq(S) /\ Len(q) \in Nat /\ Len(Append(q, x)) = Len(q) + 1
         /\ Append(q, x)[Len(q) + 1] = x /\ Append(q, x) # <<>>
         /\ \A i \in 1..Len(q) : Append(q, x)[i] = q[i]
         /\ \A i \in 1..Len(Append(q, x)) : i \in 1..Len(q) \/ i = Len(q) + 1
<1>1. /\ Append(q, x) \in Seq(S) /\ Len(q) \in Nat /\ Len(Append(q, x)) = Len(q) + 1
      /\ Append(q, x)[Len(q) + 1] = x /\ \A i \in 1..Len(q) : Append(q, x)[i] = q[i]
  OBVIOUS
<1>2. Append(q, x) # <<>>
  BY <1>1, EmptyByLength
<1>3. \A i \in 1..(Len(q) + 1) : i \in 1..Len(q) \/ i = Len(q) + 1
  BY <1>1
<1> QED BY <1>1, <1>2, <1>3

\* What is in the rest of a sequence.
LEMMA TailAt ==
  ASSUME NEW S, NEW q \in Seq(S), q # <<>>
  PROVE  /\ Tail(q) \in Seq(S) /\ Len(q) \in Nat /\ Len(Tail(q)) = Len(q) - 1
         /\ Head(q) = q[1] /\ 1 \in 1..Len(q) /\ Head(q) \in S
         /\ \A i \in 1..Len(Tail(q)) : i \in Nat /\ i + 1 \in 1..Len(q) /\ Tail(q)[i] = q[i + 1]
         /\ \A i \in 1..Len(q) : i = 1 \/ i - 1 \in 1..Len(Tail(q))
  OBVIOUS

\* The elements of v at B are elements of u at A, in their order.
ThinOn(u, A, v, B) ==
  \A i, j \in B : \E k, l \in A : v[i] = u[k] /\ v[j] = u[l] /\ (i < j => k < l)

\* The requests that carry a message.
Asking(S) == {k \in 1..Len(S) : S[k].kind \in {"start", "steer"}}
Answering(Q) == {k \in 1..Len(Q) : Q[k].req.kind \in {"start", "steer"}}

\* What becomes of a sequence of requests.
LEMMA RequestsThin ==
  ASSUME NEW q \in Seq(Reqs)
  PROVE  /\ ThinOn(q, Asking(q), q, Asking(q)) /\ ThinOn(q, Asking(q), <<>>, Asking(<<>>))
         /\ q # <<>> => ThinOn(q, Asking(q), Tail(q), Asking(Tail(q)))
         /\ \A r \in Reqs : r.kind \notin {"start", "steer"} =>
              ThinOn(q, Asking(q), Append(q, r), Asking(Append(q, r)))
         /\ \A S : ThinOn(q, Asking(q), Filter(q, S), Asking(Filter(q, S)))
<1>1. ThinOn(q, Asking(q), q, Asking(q)) /\ ThinOn(q, Asking(q), <<>>, Asking(<<>>))
  BY DEF ThinOn, Asking
<1>2. ASSUME q # <<>> PROVE ThinOn(q, Asking(q), Tail(q), Asking(Tail(q)))
  <2> DEFINE v == Tail(q)
  <2>1. \A i \in 1..Len(v) : i \in Nat /\ i + 1 \in 1..Len(q) /\ v[i] = q[i + 1]
    BY <1>2, TailAt
  <2> HIDE DEF v
  <2>2. \A i \in Asking(v) : i \in Nat /\ i + 1 \in Asking(q) /\ v[i] = q[i + 1]
    BY <2>1 DEF Asking
  <2>3. \A i, j \in Nat : i < j => i + 1 < j + 1
    OBVIOUS
  <2>4. ThinOn(q, Asking(q), v, Asking(v))
    BY <2>2, <2>3 DEF ThinOn
  <2> QED BY <2>4 DEF v
<1>3. ASSUME NEW r \in Reqs, r.kind \notin {"start", "steer"}
      PROVE  ThinOn(q, Asking(q), Append(q, r), Asking(Append(q, r)))
  <2> DEFINE v == Append(q, r)
  <2>1. /\ v[Len(q) + 1] = r /\ \A i \in 1..Len(q) : v[i] = q[i]
        /\ \A i \in 1..Len(v) : i \in 1..Len(q) \/ i = Len(q) + 1
    BY AppendAt
  <2> HIDE DEF v
  <2>2. \A i \in Asking(v) : i \in Asking(q) /\ v[i] = q[i]
    BY <1>3, <2>1 DEF Asking
  <2>3. ThinOn(q, Asking(q), v, Asking(v))
    BY <2>2 DEF ThinOn
  <2> QED BY <2>3 DEF v
<1>4. ASSUME NEW S PROVE ThinOn(q, Asking(q), Filter(q, S), Asking(Filter(q, S)))
  <2> DEFINE v == Filter(q, S)
  <2>1. PICK h : Embeds(h, q, S)
    BY FilterProperties
  <2>2. /\ \A j \in 1..Len(v) : h[j] \in 1..Len(q) /\ v[j] = q[h[j]]
        /\ \A j, k \in 1..Len(v) : j < k => h[j] < h[k]
    BY <2>1 DEF Embeds
  <2> HIDE DEF v
  <2>3. \A j \in Asking(v) : h[j] \in Asking(q) /\ v[j] = q[h[j]]
    BY <2>2 DEF Asking
  <2>4. \A j, k \in Asking(v) : j < k => h[j] < h[k]
    BY <2>2 DEF Asking
  <2>5. ThinOn(q, Asking(q), v, Asking(v))
    BY <2>3, <2>4 DEF ThinOn
  <2> QED BY <2>5 DEF v
<1> QED BY <1>1, <1>2, <1>3, <1>4

\* What becomes of the microtasks.
LEMMA MicrosThin ==
  ASSUME NEW q \in Seq(Micros)
  PROVE  /\ ThinOn(q, Answering(q), q, Answering(q))
         /\ q # <<>> => ThinOn(q, Answering(q), Tail(q), Answering(Tail(q)))
         /\ \A x \in Micros : x.req.kind \notin {"start", "steer"} =>
              ThinOn(q, Answering(q), Append(q, x), Answering(Append(q, x)))
<1>1. ThinOn(q, Answering(q), q, Answering(q))
  BY DEF ThinOn, Answering
<1>2. ASSUME q # <<>> PROVE ThinOn(q, Answering(q), Tail(q), Answering(Tail(q)))
  <2> DEFINE v == Tail(q)
  <2>1. \A i \in 1..Len(v) : i \in Nat /\ i + 1 \in 1..Len(q) /\ v[i] = q[i + 1]
    BY <1>2, TailAt
  <2> HIDE DEF v
  <2>2. \A i \in Answering(v) : i \in Nat /\ i + 1 \in Answering(q) /\ v[i] = q[i + 1]
    BY <2>1 DEF Answering
  <2>3. \A i, j \in Nat : i < j => i + 1 < j + 1
    OBVIOUS
  <2>4. ThinOn(q, Answering(q), v, Answering(v))
    BY <2>2, <2>3 DEF ThinOn
  <2> QED BY <2>4 DEF v
<1>3. ASSUME NEW r \in Micros, r.req.kind \notin {"start", "steer"}
      PROVE  ThinOn(q, Answering(q), Append(q, r), Answering(Append(q, r)))
  <2> DEFINE v == Append(q, r)
  <2>1. /\ v[Len(q) + 1] = r /\ \A i \in 1..Len(q) : v[i] = q[i]
        /\ \A i \in 1..Len(v) : i \in 1..Len(q) \/ i = Len(q) + 1
    BY AppendAt
  <2> HIDE DEF v
  <2>2. \A i \in Answering(v) : i \in Answering(q) /\ v[i] = q[i]
    BY <1>3, <2>1 DEF Answering
  <2>3. ThinOn(q, Answering(q), v, Answering(v))
    BY <2>2 DEF ThinOn
  <2> QED BY <2>3 DEF v
<1> QED BY <1>1, <1>2, <1>3

-----------------------------------------------------------------------------
(* The driver goes on without opening a turn                                 *)

\* What the invariant says of the types.
LEMMA DriverTypes ==
  ASSUME NEW c, DriverOk(c)
  PROVE  /\ c \in DriverRecord /\ c.chain \in Seq(Reactions) /\ c.micro \in Seq(Micros)
         /\ c.waiting \in Seq(Reqs) /\ c.stdin \in Seq(Reqs) /\ c.openings \in Seq(Openings)
         /\ c.steers \in Seq(Nat) /\ c.gen \in Nat /\ c.turnGen \in Nat /\ c.said \in Nat
         /\ c.cur \in Nat /\ c.text \in Nat
  BY DEF DriverOk, DriverRecord

\* No start that was answered awaits its microtask.
NoneAnswered(Q) == \A i \in 1..Len(Q) : ~(Q[i].req.kind = "start" /\ Q[i].ok)

\* e comes of c: no message is taken, no turn opened or taken for the live one.
Shrinks(c, e) ==
  /\ ThinOn(c.stdin, Asking(c.stdin), e.stdin, Asking(e.stdin))
  /\ ThinOn(c.waiting, Asking(c.waiting), e.waiting, Asking(e.waiting))
  /\ ThinOn(c.micro, Answering(c.micro), e.micro, Answering(e.micro))
  /\ e.openings = c.openings /\ e.said = c.said /\ e.exited = c.exited
  /\ e.turnGen = c.turnGen /\ e.steers \in {c.steers, <<>>}
  /\ c.gen <= e.gen /\ (e.gen = c.gen \/ e.cur = 0 \/ e.over # "none")
  /\ e.cur \in {c.cur, 0} /\ (e.active => c.active)
  /\ e.over = "none" => c.over = "none"
  /\ e.state = "idle" => c.state = "idle" \/ (~e.active /\ NoneAnswered(e.micro))

\* What is wanted less, in the same order, is still lined up.
LEMMA LinedThin ==
  ASSUME NEW o, NEW V, NEW U, LinedUp(o, V),
         \A v, w \in U : \E x, y \in V :
           v.o = x.o /\ w.o = y.o /\ (v.rank < w.rank => x.rank < y.rank)
  PROVE  LinedUp(o, U)
<1>1. ASSUME NEW v \in U PROVE \E i \in 1..Len(o) : o[i] = v.o
  BY DEF LinedUp
<1>2. ASSUME NEW v \in U, NEW w \in U, v.rank < w.rank,
             NEW i \in 1..Len(o), NEW j \in 1..Len(o), o[i].m = v.o.m, o[j].m = w.o.m
      PROVE  i < j
  <2>1. PICK x \in V, y \in V : v.o = x.o /\ w.o = y.o /\ x.rank < y.rank
    BY <1>2
  <2> QED BY <1>2, <2>1 DEF LinedUp
<1> QED BY <1>1, <1>2 DEF LinedUp

\* Fewer requests want less.
LEMMA WantedThin ==
  ASSUME NEW T \in Seq(Openings), NEW S \in Seq(Reqs), NEW R \in Seq(Reqs), NEW h \in Nat,
         ThinOn(S, Asking(S), R, Asking(R)), NEW o, LinedUp(o, Wanted(T, S, h))
  PROVE  LinedUp(o, Wanted(T, R, h))
<1> DEFINE N == (h + 1)..Len(T)
           A(n) == [rank |-> n, o |-> T[n]]
           B(Q, k) == [rank |-> Len(T) + k, o |-> Opens(Q[k])]
<1>1. /\ \A Q : Wanted(T, Q, h) = {A(n) : n \in N} \union {B(Q, k) : k \in Starting(Q)}
      /\ Len(T) \in Nat /\ \A n \in N : n \in Nat /\ n <= Len(T)
      /\ \A k \in Starting(R) : k \in Nat /\ k > 0
      /\ \A k \in Starting(S) : k \in Nat /\ k > 0
  BY DEF Wanted, Starting
<1>2. \A i, j \in Starting(R) : \E k, l \in Starting(S) :
        R[i] = S[k] /\ R[j] = S[l] /\ (i < j => k < l)
  <2> SUFFICES ASSUME NEW i \in Starting(R), NEW j \in Starting(R)
               PROVE  \E k, l \in Starting(S) : R[i] = S[k] /\ R[j] = S[l] /\ (i < j => k < l)
    OBVIOUS
  <2>1. i \in Asking(R) /\ j \in Asking(R)
    BY DEF Starting, Asking
  <2>2. PICK k \in Asking(S), l \in Asking(S) :
          R[i] = S[k] /\ R[j] = S[l] /\ (i < j => k < l)
    BY <2>1 DEF ThinOn
  <2>3. k \in Starting(S) /\ l \in Starting(S)
    BY <2>2 DEF Starting, Asking
  <2> QED BY <2>2, <2>3
<1>3. \A n \in N : A(n).rank = n /\ A(n).o = T[n]
  OBVIOUS
<1>4. \A Q, k : B(Q, k).rank = Len(T) + k /\ B(Q, k).o = Opens(Q[k])
  OBVIOUS
<1> HIDE DEF A, B, N
<1>5. ASSUME NEW v \in Wanted(T, R, h), NEW w \in Wanted(T, R, h)
      PROVE  \E x, y \in Wanted(T, S, h) :
               v.o = x.o /\ w.o = y.o /\ (v.rank < w.rank => x.rank < y.rank)
  <2>1. CASE \E n \in N : v = A(n)
    <3>1. CASE \E n \in N : w = A(n)
      BY <1>1, <2>1, <3>1
    <3>2. CASE \E k \in Starting(R) : w = B(R, k)
      <4>1. PICK n \in N, k \in Starting(R) : v = A(n) /\ w = B(R, k)
        BY <2>1, <3>2
      <4>2. PICK l \in Starting(S) : R[k] = S[l]
        BY <1>2
      <4>3. A(n).rank < B(S, l).rank
        BY <1>1, <1>3, <1>4
      <4>4. B(S, l).o = w.o
        BY <1>4, <4>1, <4>2
      <4>5. v \in Wanted(T, S, h) /\ B(S, l) \in Wanted(T, S, h)
        BY <1>1, <4>1
      <4> QED BY <4>1, <4>3, <4>4, <4>5
    <3> QED BY <1>1, <3>1, <3>2
  <2>2. CASE \E i \in Starting(R) : v = B(R, i)
    <3>1. PICK i \in Starting(R) : v = B(R, i)
      BY <2>2
    <3>2. CASE \E n \in N : w = A(n)
      <4>1. PICK n \in N : w = A(n)
        BY <3>2
      <4>2. PICK l \in Starting(S) : R[i] = S[l]
        BY <1>2
      <4>3. ~(v.rank < w.rank)
        BY <1>1, <1>3, <1>4, <3>1, <4>1
      <4>4. B(S, l).o = v.o
        BY <1>4, <3>1, <4>2
      <4>5. w \in Wanted(T, S, h) /\ B(S, l) \in Wanted(T, S, h)
        BY <1>1, <4>1
      <4> QED BY <4>3, <4>4, <4>5
    <3>3. CASE \E k \in Starting(R) : w = B(R, k)
      <4>1. PICK j \in Starting(R) : w = B(R, j)
        BY <3>3
      <4>2. PICK k \in Starting(S), l \in Starting(S) :
              R[i] = S[k] /\ R[j] = S[l] /\ (i < j => k < l)
        BY <1>2
      <4>3. v.rank < w.rank => B(S, k).rank < B(S, l).rank
        <5>1. i \in Nat /\ j \in Nat /\ k \in Nat /\ l \in Nat
          BY <1>1
        <5>2. Len(T) + i < Len(T) + j => i < j
          BY <1>1, <5>1
        <5>3. k < l => Len(T) + k < Len(T) + l
          BY <1>1, <5>1
        <5> QED BY <1>4, <3>1, <4>1, <4>2, <5>2, <5>3
      <4>4. B(S, k).o = v.o /\ B(S, l).o = w.o
        BY <1>4, <3>1, <4>1, <4>2
      <4>5. B(S, k) \in Wanted(T, S, h) /\ B(S, l) \in Wanted(T, S, h)
        BY <1>1
      <4> QED BY <4>3, <4>4, <4>5
    <3> QED BY <1>1, <3>2, <3>3
  <2> QED BY <1>1, <2>1, <2>2
<1> QED BY <1>5, LinedThin

\* What was in one place is, of what is left.
LEMMA PlacesShrink ==
  ASSUME NEW c, NEW e, Shrinks(c, e), NEW W, NEW T, MessagesOk(c, W, T), DriverOk(c),
         DriverOk(e)
  PROVE  MessagesOk(e, W, T)
<1>1. /\ \A i \in Asking(e.stdin) : \E k \in Asking(c.stdin) : e.stdin[i] = c.stdin[k]
      /\ \A i \in Asking(e.waiting) : \E k \in Asking(c.waiting) : e.waiting[i] = c.waiting[k]
      /\ \A i \in Answering(e.micro) : \E k \in Answering(c.micro) : e.micro[i] = c.micro[k]
  BY DEF Shrinks, ThinOn
<1>2. Started(e.stdin) \subseteq Started(c.stdin)
  <2>1. \A i \in Starting(e.stdin) : \E k \in Starting(c.stdin) : e.stdin[i] = c.stdin[k]
    BY <1>1 DEF Asking, Starting
  <2> QED BY <2>1 DEF Started
<1>3. Refused(e, W) \subseteq Refused(c, W)
  <2> DEFINE F(u) == {k \in 1..Len(u.micro) : u.micro[k].req.kind = "start" /\ ~u.micro[k].ok}
  <2>1. \A i \in F(e) : \E k \in F(c) : e.micro[i] = c.micro[k]
    BY <1>1 DEF Answering
  <2> QED BY <2>1 DEF Refused
<1>4. Opened(e, W, T) \subseteq Opened(c, W, T)
  BY <1>2, <1>3 DEF Opened, Shrinks
<1>5. /\ \A i, j \in Steering(e.waiting) : \E k, l \in Steering(c.waiting) :
           e.waiting[i] = c.waiting[k] /\ e.waiting[j] = c.waiting[l] /\ (i < j => k < l)
      /\ \A i, j \in Settled(e.micro) : \E k, l \in Settled(c.micro) :
           e.micro[i] = c.micro[k] /\ e.micro[j] = c.micro[l] /\ (i < j => k < l)
  <2>1. ASSUME NEW i \in Steering(e.waiting), NEW j \in Steering(e.waiting)
        PROVE  \E k, l \in Steering(c.waiting) :
           e.waiting[i] = c.waiting[k] /\ e.waiting[j] = c.waiting[l] /\ (i < j => k < l)
    <3>1. i \in Asking(e.waiting) /\ j \in Asking(e.waiting)
      BY DEF Steering, Asking
    <3>2. PICK k \in Asking(c.waiting), l \in Asking(c.waiting) :
           e.waiting[i] = c.waiting[k] /\ e.waiting[j] = c.waiting[l] /\ (i < j => k < l)
      BY <3>1 DEF Shrinks, ThinOn
    <3>3. k \in Steering(c.waiting) /\ l \in Steering(c.waiting)
      BY <3>2 DEF Steering, Asking
    <3> QED BY <3>2, <3>3
  <2>2. ASSUME NEW i \in Settled(e.micro), NEW j \in Settled(e.micro)
        PROVE  \E k, l \in Settled(c.micro) :
           e.micro[i] = c.micro[k] /\ e.micro[j] = c.micro[l] /\ (i < j => k < l)
    <3>1. i \in Answering(e.micro) /\ j \in Answering(e.micro)
      BY DEF Settled, Answering
    <3>2. PICK k \in Answering(c.micro), l \in Answering(c.micro) :
           e.micro[i] = c.micro[k] /\ e.micro[j] = c.micro[l] /\ (i < j => k < l)
      BY <3>1 DEF Shrinks, ThinOn
    <3>3. k \in Settled(c.micro) /\ l \in Settled(c.micro)
      BY <3>2 DEF Settled, Answering
    <3> QED BY <3>2, <3>3
  <2> QED BY <2>1, <2>2
<1>6. /\ Kept(e) \subseteq Kept(c) /\ Steered(e.waiting) \subseteq Steered(c.waiting)
      /\ Told(e.micro) \subseteq Told(c.micro)
  <2>1. Kept(e) \subseteq Kept(c)
    <3>1. CASE e.steers = <<>>
      BY <3>1 DEF Kept
    <3>2. CASE e.steers = c.steers
      BY <3>2 DEF Kept
    <3> QED BY <3>1, <3>2 DEF Shrinks
  <2>2. \A i \in Steering(e.waiting) : \E k \in Steering(c.waiting) : e.waiting[i] = c.waiting[k]
    BY <1>5
  <2>3. \A i \in Settled(e.micro) : \E k \in Settled(c.micro) : e.micro[i] = c.micro[k]
    BY <1>5
  <2> QED BY <2>1, <2>2, <2>3 DEF Steered, Told
<1>7. OnePlace(e)
  <2>1. \A i, j \in 1..Len(e.steers) : e.steers[i] = e.steers[j] => i = j
    <3>1. CASE e.steers = <<>>
      BY <3>1
    <3>2. CASE e.steers = c.steers
      BY <3>2 DEF MessagesOk, OnePlace
    <3> QED BY <3>1, <3>2 DEF Shrinks
  <2>2. ASSUME NEW i \in Steering(e.waiting), NEW j \in Steering(e.waiting),
               e.waiting[i].m = e.waiting[j].m
        PROVE  i = j
    <3>1. \A k, l \in Steering(c.waiting) : c.waiting[k].m = c.waiting[l].m => k = l
      BY DEF MessagesOk, OnePlace
    <3>2. \A k \in Steering(c.waiting) : k \in Nat
      BY DEF Steering
    <3>3. ~(i < j)
      BY <1>5, <2>2, <3>1, <3>2
    <3>4. ~(j < i)
      BY <1>5, <2>2, <3>1, <3>2
    <3> QED BY <3>3, <3>4 DEF Steering
  <2>3. ASSUME NEW i \in Settled(e.micro), NEW j \in Settled(e.micro),
               e.micro[i].req.m = e.micro[j].req.m
        PROVE  i = j
    <3>1. \A k, l \in Settled(c.micro) : c.micro[k].req.m = c.micro[l].req.m => k = l
      BY DEF MessagesOk, OnePlace
    <3>2. \A k \in Settled(c.micro) : k \in Nat
      BY DEF Settled
    <3>3. ~(i < j)
      BY <1>5, <2>3, <3>1, <3>2
    <3>4. ~(j < i)
      BY <1>5, <2>3, <3>1, <3>2
    <3> QED BY <3>3, <3>4 DEF Settled
  <2>4. /\ Kept(c) \intersect Steered(c.waiting) = {}
        /\ Kept(c) \intersect Told(c.micro) = {}
        /\ Steered(c.waiting) \intersect Told(c.micro) = {}
    BY DEF MessagesOk, OnePlace
  <2>5. /\ Kept(e) \intersect Steered(e.waiting) = {}
        /\ Kept(e) \intersect Told(e.micro) = {}
        /\ Steered(e.waiting) \intersect Told(e.micro) = {}
    BY <1>6, <2>4
  <2>6. \A i, j \in 1..Len(e.openings) : e.openings[i].m = e.openings[j].m => i = j
    BY DEF MessagesOk, OnePlace, Shrinks
  <2> QED BY <2>1, <2>2, <2>3, <2>5, <2>6 DEF OnePlace
<1>8. Steers(e) \subseteq Steers(c)
  BY <1>6 DEF Steers
<1>9. \A m \in Opened(e, W, T) \union Steers(e) : m <= e.said
  BY <1>4, <1>8 DEF MessagesOk, Shrinks
<1>10. /\ Opened(e, W, T) \intersect Steers(e) = {}
       /\ Refused(e, W) \intersect (Turned(T) \union Started(e.stdin)) = {}
       /\ Turned(T) \intersect Started(e.stdin) = {}
  BY <1>2, <1>3, <1>4, <1>8 DEF MessagesOk
<1> QED BY <1>7, <1>9, <1>10 DEF MessagesOk

\* What the invariant says of the rest but its Clean, when nothing is opened.
LEMMA ShrinksKeeps ==
  ASSUME NEW g, NEW c, NEW e, NEW a, NEW W, NEW T, DriverOk(c), DriverOk(e), Shrinks(c, e),
         Trace(g, W), OpeningsOk(c), AppOk(c, a, W, T), TurnsOk(c, T), AnswersOk(c, W, T),
         Lively(c, a, W, T, g)
  PROVE  /\ OpeningsOk(e) /\ AppOk(e, a, W, T) /\ TurnsOk(e, T) /\ AnswersOk(e, W, T)
         /\ Lively(e, a, W, T, g)
<1>1. OpeningsOk(e)
  <2>1. \A i \in 1..Len(c.openings) : c.openings[i].gen \in Nat
    <3>1. \A i \in 1..Len(c.openings) : c.openings[i] \in Openings
      BY DriverTypes, ElementOf
    <3> QED BY <3>1 DEF Openings
  <2>2. c.gen \in Nat /\ e.gen \in Nat /\ c.gen <= e.gen
    BY DriverTypes DEF Shrinks
  <2>3. \A i \in 1..Len(c.openings) : c.openings[i].gen <= e.gen
    BY <2>1, <2>2 DEF OpeningsOk
  <2> QED BY <2>3 DEF OpeningsOk, Shrinks
<1>2. AppOk(e, a, W, T)
  BY DEF AppOk, Shrinks
<1>3. /\ c.gen \in Nat /\ e.gen \in Nat /\ c.gen <= e.gen
      /\ \A n \in 1..Len(T) : T[n].gen \in Nat
  <2>1. \A n \in 1..Len(T) : T[n] \in Openings
    BY ElementOf DEF AppOk
  <2> QED BY <2>1, DriverTypes DEF Openings, Shrinks
<1>4. TurnsOk(e, T)
  <2>1. \A n \in 1..Len(T) : T[n].gen <= e.gen
    BY <1>3 DEF TurnsOk
  <2>2. e.cur \in 0..Len(T)
    <3>1. Len(T) \in Nat
      BY DEF AppOk
    <3> QED BY <3>1 DEF TurnsOk, Shrinks
  <2>3. e.cur # 0 /\ e.over = "none" => T[e.cur].gen = e.gen
    BY DEF TurnsOk, Shrinks
  <2> QED BY <2>1, <2>2, <2>3 DEF TurnsOk
<1>5. \A i \in Answering(e.micro) : \E k \in Answering(c.micro) : e.micro[i] = c.micro[k]
  BY DEF Shrinks, ThinOn
<1>6. \A i \in 1..Len(e.micro) : e.micro[i].req.kind = "start" =>
        \E k \in 1..Len(c.micro) : e.micro[i] = c.micro[k]
  BY <1>5 DEF Answering
<1>7. AnswersOk(e, W, T)
  BY <1>6 DEF AnswersOk
<1>8. ASSUME ~e.exited
      PROVE  /\ g[Len(W)] = Len(T) - Len(a.queue)
             /\ LinedUp(e.openings, Wanted(T, e.stdin, g[0]))
             /\ MessagesOk(e, W, T) /\ IdleOk(e, T)
  <2>1. /\ g[Len(W)] = Len(T) - Len(a.queue)
        /\ LinedUp(c.openings, Wanted(T, c.stdin, g[0]))
        /\ MessagesOk(c, W, T) /\ IdleOk(c, T)
    BY <1>8 DEF Lively, Shrinks
  <2>2. g[0] \in Nat
    <3>1. Len(W) \in Nat
      BY DEF AppOk
    <3> QED BY <3>1 DEF Trace
  <2>3. LinedUp(e.openings, Wanted(T, e.stdin, g[0]))
    <3>1. c.stdin \in Seq(Reqs) /\ e.stdin \in Seq(Reqs) /\ T \in Seq(Openings)
      BY DriverTypes DEF AppOk
    <3>2. ThinOn(c.stdin, Asking(c.stdin), e.stdin, Asking(e.stdin))
      BY DEF Shrinks
    <3> QED BY <2>1, <2>2, <3>1, <3>2, WantedThin DEF Shrinks
  <2>4. MessagesOk(e, W, T)
    BY <2>1, PlacesShrink
  <2>5. ASSUME e.state = "idle", e.active, e.cur # 0, e.over = "none"
        PROVE  Has(e.openings, T[e.cur])
    BY <2>1, <2>5 DEF IdleOk, Shrinks
  <2>6. ASSUME e.state = "idle", NEW i \in 1..Len(e.micro), e.micro[i].req.kind = "start",
               e.micro[i].ok, e.micro[i].req.gen = e.gen
        PROVE  Has(e.openings, T[e.micro[i].turn])
    <3>1. c.state = "idle"
      BY <2>6 DEF Shrinks, NoneAnswered
    <3>2. PICK k \in 1..Len(c.micro) : e.micro[i] = c.micro[k]
      BY <1>6, <2>6
    <3> DEFINE n == c.micro[k].turn
    <3>3. n \in 1..Len(T) /\ T[n] = Opens(c.micro[k].req)
      BY <2>6, <3>2 DEF AnswersOk
    <3>4. e.gen = c.gen
      <4>1. T[n].gen = e.gen
        BY <2>6, <3>2, <3>3 DEF Opens
      <4> HIDE DEF n
      <4>2. T[n].gen <= c.gen
        BY <3>3 DEF TurnsOk
      <4> QED BY <1>3, <4>1, <4>2
    <3> QED BY <2>1, <2>6, <3>1, <3>2, <3>4 DEF IdleOk, Shrinks
  <2> QED BY <2>1, <2>3, <2>4, <2>5, <2>6 DEF IdleOk
<1> QED BY <1>1, <1>2, <1>4, <1>7, <1>8 DEF Lively

-----------------------------------------------------------------------------
(* Steps that owe no result more or less                                     *)

\* The results of v are all among u's.
ResultsIn(u, v) ==
  \A i \in 1..Len(v) : v[i].kind = "result" =>
    \E k \in 1..Len(u) : u[k].kind = "result" /\ v[i] = u[k]

\* The interrupts of v are all among u's.
StopsIn(u, v) ==
  \A i \in 1..Len(v) : v[i].kind \in {"stop", "late"} => \E k \in 1..Len(u) : v[i] = u[k]

\* e owes the results that c does, or is to end; a turn that was live is.
Mild(c, e) ==
  /\ e.turnGen = c.turnGen /\ e.emitted = c.emitted /\ e.text = c.text /\ e.gen = c.gen
  /\ ResultsIn(c.chain, e.chain) /\ ResultsIn(e.chain, c.chain)
  /\ StopsIn(c.stdin, e.stdin)
  /\ e.sync = "result" <=> c.sync = "result"
  /\ c.finished => e.finished
  /\ Doomed(c) => Doomed(e) \/ e.finished
  /\ c.active /\ c.cur # 0 => (e.active /\ e.cur = c.cur) \/ Doomed(e) \/ e.finished

\* Then what Clean says stays true.
LEMMA MildKeeps ==
  ASSUME NEW c, NEW e, Mild(c, e), NEW a, NEW W, NEW l, NEW h, Clean(c, a, W, l, h)
  PROVE  Clean(e, a, W, l, h)
<1> SUFFICES ASSUME "crossed" \notin l.odd
             PROVE  /\ h <= Len(l.turns)
                    /\ ResultsOk(e, l, h) /\ LastOk(e, l, h) /\ DueOk(e, l, h)
                    /\ StopsOk(e, a, W, l.turns)
  BY DEF Clean
<1>1. /\ h <= Len(l.turns)
      /\ ResultsOk(c, l, h) /\ LastOk(c, l, h) /\ DueOk(c, l, h) /\ StopsOk(c, a, W, l.turns)
  BY DEF Clean
<1>2. ResultsOk(e, l, h)
  <2>1. \A i \in 1..Len(e.chain) : e.chain[i].kind = "result" =>
          /\ e.chain[i].turn = h /\ e.chain[i].gen = e.turnGen
          /\ e.chain[i].gen = e.gen => h \in l.due
    <3> SUFFICES ASSUME NEW i \in 1..Len(e.chain), e.chain[i].kind = "result"
                 PROVE  /\ e.chain[i].turn = h /\ e.chain[i].gen = e.turnGen
                        /\ e.chain[i].gen = e.gen => h \in l.due
      OBVIOUS
    <3>1. PICK k \in 1..Len(c.chain) : c.chain[k].kind = "result" /\ e.chain[i] = c.chain[k]
      BY DEF Mild, ResultsIn
    <3>2. /\ c.chain[k].turn = h /\ c.chain[k].gen = c.turnGen
          /\ c.chain[k].gen = c.gen => h \in l.due
      BY <1>1, <3>1 DEF ResultsOk
    <3> QED BY <3>1, <3>2 DEF Mild
  <2> QED BY <1>1, <2>1 DEF ResultsOk, Mild
<1>3. LastOk(e, l, h)
  <2> SUFFICES ASSUME h # 0
               PROVE  /\ e.turnGen = e.gen <=> l.turns[h].gen = e.gen
                      /\ e.turnGen = e.gen => e.text \in {0, h}
                      /\ e.turnGen = e.gen /\ e.emitted => Out(l, h) \/ e.sync = "result"
                      /\ ~e.finished /\ l.turns[h].gen = e.gen /\ h \notin l.due =>
                           (e.active /\ e.cur = h) \/ Doomed(e)
    BY DEF LastOk
  <2>1. /\ c.turnGen = c.gen <=> l.turns[h].gen = c.gen
        /\ c.turnGen = c.gen => c.text \in {0, h}
        /\ c.turnGen = c.gen /\ c.emitted => Out(l, h) \/ c.sync = "result"
        /\ ~c.finished /\ l.turns[h].gen = c.gen /\ h \notin l.due =>
             (c.active /\ c.cur = h) \/ Doomed(c)
    BY <1>1 DEF LastOk
  <2>2. /\ e.turnGen = e.gen <=> l.turns[h].gen = e.gen
        /\ e.turnGen = e.gen => e.text \in {0, h}
    BY <2>1 DEF Mild
  <2>3. e.turnGen = e.gen /\ e.emitted => Out(l, h) \/ e.sync = "result"
    BY <2>1 DEF Mild
  <2>4. ~e.finished /\ l.turns[h].gen = e.gen /\ h \notin l.due =>
          (e.active /\ e.cur = h) \/ Doomed(e)
    BY <2>1 DEF Mild
  <2> QED BY <2>2, <2>3, <2>4
<1>4. DueOk(e, l, h)
  <2> SUFFICES ASSUME ~e.finished, NEW n \in l.due
               PROVE  \/ Out(l, n) \/ Doomed(e)
                      \/ e.sync = "result" /\ n = h
                      \/ \E i \in 1..Len(e.chain) :
                           /\ e.chain[i].kind = "result" /\ e.chain[i].turn = n
                           /\ e.chain[i].gen = e.gen
    BY DEF DueOk
  <2>1. \/ Out(l, n) \/ Doomed(c)
        \/ c.sync = "result" /\ n = h
        \/ \E i \in 1..Len(c.chain) :
             c.chain[i].kind = "result" /\ c.chain[i].turn = n /\ c.chain[i].gen = c.gen
    BY <1>1 DEF DueOk, Mild
  <2>2. ASSUME NEW i \in 1..Len(c.chain), c.chain[i].kind = "result", c.chain[i].turn = n,
               c.chain[i].gen = c.gen
        PROVE  \E k \in 1..Len(e.chain) :
                 e.chain[k].kind = "result" /\ e.chain[k].turn = n /\ e.chain[k].gen = e.gen
    BY <2>2 DEF Mild, ResultsIn
  <2> QED BY <2>1, <2>2 DEF Mild
<1>5. StopsOk(e, a, W, l.turns)
  <2>1. \A i \in 1..Len(e.stdin) : e.stdin[i].kind \in {"stop", "late"} =>
          Withdrawn(e, l.turns, e.stdin[i].turn)
    BY <1>1 DEF StopsOk, Mild, StopsIn, Withdrawn
  <2> QED BY <1>1, <2>1 DEF StopsOk, Mild, Withdrawn
<1> QED BY <1>1, <1>2, <1>3, <1>4, <1>5

Fine(c, e) == DriverOk(e) /\ Shrinks(c, e) /\ Mild(c, e)

\* So all of the invariant does.
LEMMA FineKeeps ==
  ASSUME NEW g, NEW c, NEW e, NEW a, NEW W, NEW l, Holds(g, c, a, W, l), Fine(c, e)
  PROVE  Holds(g, e, a, W, l)
<1>1. /\ OpeningsOk(e) /\ AppOk(e, a, W, l.turns) /\ TurnsOk(e, l.turns)
      /\ AnswersOk(e, W, l.turns) /\ Lively(e, a, W, l.turns, g)
  BY ShrinksKeeps, Zenon DEF Holds, Fine
<1>2. Clean(e, a, W, l, g[0])
  BY MildKeeps, Zenon DEF Holds, Fine
<1> QED BY <1>1, <1>2 DEF Holds, Fine

\* e is c but for flags the invariant says nothing of.
Same(c, e) ==
  /\ e \in DriverRecord /\ e.chain = c.chain /\ e.sync = c.sync /\ e.micro = c.micro
  /\ e.waiting = c.waiting /\ e.stdin = c.stdin /\ e.chunk = c.chunk /\ e.exited = c.exited
  /\ e.pipe = c.pipe /\ e.finished = c.finished /\ e.over = c.over /\ e.gen = c.gen
  /\ e.turnGen = c.turnGen /\ e.openings = c.openings /\ e.steers = c.steers
  /\ e.said = c.said /\ e.cur = c.cur /\ e.active = c.active /\ e.emitted = c.emitted
  /\ e.text = c.text /\ (e.state = "idle" => c.state = "idle")

\* Which is fine.
LEMMA SameFine ==
  ASSUME NEW c, DriverOk(c), NEW e, Same(c, e)
  PROVE  Fine(c, e)
<1>1. DriverOk(e)
  BY DEF DriverOk, Same
<1>2. /\ ThinOn(c.stdin, Asking(c.stdin), e.stdin, Asking(e.stdin))
      /\ ThinOn(c.waiting, Asking(c.waiting), e.waiting, Asking(e.waiting))
      /\ ThinOn(c.micro, Answering(c.micro), e.micro, Answering(e.micro))
  BY DriverTypes, RequestsThin, MicrosThin DEF Same
<1>3. c.gen <= e.gen
  BY DriverTypes DEF Same
<1>4. Shrinks(c, e)
  BY <1>2, <1>3 DEF Shrinks, Same
<1>5. Mild(c, e)
  BY DEF Mild, Same, ResultsIn, StopsIn, Doomed
<1> QED BY <1>1, <1>4, <1>5 DEF Fine

\* Flags of the driver's.
LEMMA FlagsSame ==
  ASSUME NEW c \in DriverRecord
  PROVE  /\ Same(c, [c EXCEPT !.closed = TRUE]) /\ Same(c, [c EXCEPT !.ending = TRUE])
         /\ Same(c, [c EXCEPT !.retiring = TRUE]) /\ Same(c, [c EXCEPT !.state = "working"])
         /\ Same(c, [c EXCEPT !.gate = TRUE, !.state = "blocked"])
         /\ Same(c, [c EXCEPT !.gate = FALSE]) /\ Same(c, Unblock(c))
<1>1. Same(c, [c EXCEPT !.closed = TRUE]) /\ Same(c, [c EXCEPT !.ending = TRUE])
  BY DEF Same, DriverRecord
<1>2. Same(c, [c EXCEPT !.retiring = TRUE]) /\ Same(c, [c EXCEPT !.state = "working"])
  BY DEF Same, DriverRecord
<1>3. Same(c, [c EXCEPT !.gate = TRUE, !.state = "blocked"])
  <2> DEFINE e == [c EXCEPT !.gate = TRUE, !.state = "blocked"]
  <2>1. e \in DriverRecord /\ e.state = "blocked"
    BY DEF DriverRecord
  <2>2. /\ e.chain = c.chain /\ e.sync = c.sync /\ e.micro = c.micro
        /\ e.waiting = c.waiting /\ e.stdin = c.stdin /\ e.chunk = c.chunk
        /\ e.exited = c.exited /\ e.pipe = c.pipe /\ e.finished = c.finished
        /\ e.over = c.over /\ e.gen = c.gen
    BY DEF DriverRecord
  <2>3. /\ e.turnGen = c.turnGen /\ e.openings = c.openings /\ e.steers = c.steers
        /\ e.said = c.said /\ e.cur = c.cur /\ e.active = c.active
        /\ e.emitted = c.emitted /\ e.text = c.text
    BY DEF DriverRecord
  <2> HIDE DEF e
  <2>4. Same(c, e)
    BY <2>1, <2>2, <2>3, Zenon DEF Same
  <2> QED BY <2>4 DEF e
<1>4. Same(c, [c EXCEPT !.gate = FALSE])
  BY DEF Same, DriverRecord
<1>5. Same(c, Unblock(c))
  <2>1. Same(c, c)
    BY DEF Same
  <2>2. Unblock(c) = c \/ Unblock(c) = [c EXCEPT !.state = "working"]
    BY DEF Unblock
  <2> QED BY <1>2, <2>1, <2>2
<1> QED BY <1>1, <1>2, <1>3, <1>4, <1>5

\* A reaction is chained.
LEMMA ChainShrinks ==
  ASSUME NEW c, DriverOk(c), NEW k \in {"result", "finish", "fail", "exit"}, NEW t \in Nat,
         NEW y \in Nat, y <= c.gen
  PROVE  LET e == Chain(c, k, t, y)
             r == [kind |-> k, turn |-> t, gen |-> y]
         IN  /\ DriverOk(e) /\ Shrinks(c, e) /\ e.chain = Append(c.chain, r)
             /\ e.sync = c.sync /\ e.stdin = c.stdin /\ e.finished = c.finished
             /\ e.gen = c.gen /\ e.turnGen = c.turnGen /\ e.cur = c.cur
             /\ e.active = c.active /\ e.emitted = c.emitted /\ e.text = c.text
<1> DEFINE r == [kind |-> k, turn |-> t, gen |-> y]
           q == Append(c.chain, r)
           n == Len(c.chain)
           p == IF c.chain = <<>> THEN Append(c.micro, ChainRuns) ELSE c.micro
           e == Chain(c, k, t, y)
<1>1. /\ c \in DriverRecord /\ c.chain \in Seq(Reactions) /\ c.micro \in Seq(Micros)
      /\ c.gen \in Nat
  BY DriverTypes
<1>2. r \in Reactions /\ r.kind = k /\ r.gen = y
  BY DEF Reactions
<1>3. /\ q \in Seq(Reactions) /\ n \in Nat /\ Len(q) = n + 1 /\ q[n + 1] = r /\ q # <<>>
      /\ \A i \in 1..n : q[i] = c.chain[i]
      /\ \A i \in 1..Len(q) : i \in 1..n \/ i = n + 1
  BY <1>1, <1>2, AppendAt
<1>4. ChainRuns \in Micros /\ ChainRuns.req.kind = "chain"
  BY DEF ChainRuns, Micro, Req, Micros, Reqs, Asks
<1>5. p \in Seq(Micros) /\ ThinOn(c.micro, Answering(c.micro), p, Answering(p))
  <2>1. Append(c.micro, ChainRuns) \in Seq(Micros)
    BY <1>1, <1>4, AppendAt
  <2> QED BY <1>1, <1>4, <2>1, MicrosThin
<1>6. e = [c EXCEPT !.chain = q, !.micro = p]
  BY <1>1 DEF Chain, Later, DriverRecord
<1> HIDE DEF e, q, p, r
<1>7. e \in DriverRecord
  BY <1>1, <1>3, <1>5, <1>6 DEF DriverRecord
<1>8. /\ e.chain = q /\ e.micro = p /\ e.sync = c.sync /\ e.waiting = c.waiting
      /\ e.stdin = c.stdin /\ e.chunk = c.chunk /\ e.exited = c.exited /\ e.pipe = c.pipe
      /\ e.finished = c.finished /\ e.over = c.over /\ e.gen = c.gen
      /\ e.turnGen = c.turnGen /\ e.openings = c.openings /\ e.steers = c.steers
      /\ e.said = c.said /\ e.cur = c.cur /\ e.active = c.active /\ e.emitted = c.emitted
      /\ e.text = c.text /\ e.state = c.state
  BY <1>1, <1>6 DEF DriverRecord
<1>9. DriverOk(e)
  <2>1. \A i \in 1..Len(p) : p[i].req.kind = "chain" =>
          /\ c.sync = "none"
          /\ \A j \in 1..Len(p) : p[j].req.kind = "chain" => i = j
    <3>1. CASE c.chain = <<>>
      <4>1. \A i \in 1..Len(c.micro) : c.micro[i].req.kind # "chain"
        BY <3>1 DEF DriverOk
      <4>2. /\ \A i \in 1..Len(p) : i \in 1..Len(c.micro) \/ i = Len(c.micro) + 1
            /\ \A i \in 1..Len(c.micro) : p[i] = c.micro[i]
        BY <1>1, <1>4, <3>1, AppendAt DEF p
      <4>3. \A i \in 1..Len(p) : p[i].req.kind = "chain" => i = Len(c.micro) + 1
        BY <4>1, <4>2
      <4>4. c.sync = "none"
        BY <3>1 DEF DriverOk
      <4> QED BY <4>3, <4>4
    <3>2. CASE c.chain # <<>>
      BY <3>2 DEF DriverOk, p
    <3> QED BY <3>1, <3>2
  <2>2. c.sync = "result" => q[1].kind = "result"
    <3>1. c.chain # <<>> => 1 \in 1..n
      BY <1>1, <1>3, EmptyByLength
    <3> QED BY <1>3, <3>1 DEF DriverOk
  <2>3. \A i \in 1..Len(q) : q[i].gen <= c.gen
    <3>1. \A i \in 1..n : q[i].gen <= c.gen
      BY <1>3 DEF DriverOk, n
    <3>2. r.gen <= c.gen
      BY <1>1, <1>2
    <3> QED BY <1>3, <3>1, <3>2
  <2>4. c.chunk => p # <<>>
    <3>1. Append(c.micro, ChainRuns) # <<>>
      BY <1>1, <1>4, AppendAt
    <3> QED BY <3>1 DEF p, DriverOk
  <2> QED BY <1>3, <1>7, <1>8, <2>1, <2>2, <2>3, <2>4 DEF DriverOk
<1>10. Shrinks(c, e)
  <2>1. /\ ThinOn(c.stdin, Asking(c.stdin), e.stdin, Asking(e.stdin))
        /\ ThinOn(c.waiting, Asking(c.waiting), e.waiting, Asking(e.waiting))
    BY <1>8, DriverTypes, RequestsThin
  <2>2. c.gen <= c.gen
    BY <1>1
  <2> QED BY <1>5, <1>8, <2>1, <2>2 DEF Shrinks
<1> QED BY <1>8, <1>9, <1>10 DEF e, q, r

\* It is one that is no result.
LEMMA ChainFine ==
  ASSUME NEW c, DriverOk(c), NEW k \in {"finish", "fail", "exit"}
  PROVE  Fine(c, Chain(c, k, 0, 0)) /\ Doomed(Chain(c, k, 0, 0))
<1> DEFINE r == [kind |-> k, turn |-> 0, gen |-> 0]
           e == Chain(c, k, 0, 0)
           n == Len(c.chain)
<1>1. c.chain \in Seq(Reactions) /\ c.gen \in Nat /\ r \in Reactions /\ r.kind = k
  BY DriverTypes DEF Reactions
<1>2. 0 <= c.gen /\ 0 \in Nat /\ k \in {"result", "finish", "fail", "exit"}
  BY <1>1
<1>3. /\ DriverOk(e) /\ Shrinks(c, e) /\ e.chain = Append(c.chain, r)
      /\ e.sync = c.sync /\ e.stdin = c.stdin /\ e.finished = c.finished
      /\ e.gen = c.gen /\ e.turnGen = c.turnGen /\ e.cur = c.cur
      /\ e.active = c.active /\ e.emitted = c.emitted /\ e.text = c.text
  BY <1>2, ChainShrinks, Zenon
<1>4. /\ n \in Nat /\ Len(e.chain) = n + 1 /\ e.chain[n + 1] = r
      /\ \A i \in 1..n : e.chain[i] = c.chain[i]
      /\ \A i \in 1..Len(e.chain) : i \in 1..n \/ i = n + 1
  BY <1>1, <1>3, AppendAt
<1> HIDE DEF e, r
<1>5. \A i \in 1..n : i \in 1..Len(e.chain)
  BY <1>4
<1>6. n + 1 \in 1..Len(e.chain)
  BY <1>4
<1>7. Doomed(e)
  BY <1>1, <1>4, <1>6 DEF Doomed
<1>8. ResultsIn(c.chain, e.chain)
  BY <1>1, <1>4 DEF ResultsIn, n
<1>9. ResultsIn(e.chain, c.chain)
  BY <1>4, <1>5 DEF ResultsIn, n
<1>10. StopsIn(c.stdin, e.stdin)
  BY <1>3 DEF StopsIn
<1>11. Mild(c, e)
  BY <1>3, <1>7, <1>8, <1>9, <1>10 DEF Mild
<1> QED BY <1>3, <1>7, <1>11 DEF Fine, e
-----------------------------------------------------------------------------
(* The reactions                                                             *)

NoneChained(Q) == \A i \in 1..Len(Q) : Q[i].req.kind # "chain"

\* Nothing but some fields of no concern to what is shared is changed.
Alike(c, e) ==
  /\ e.stdin = c.stdin /\ e.waiting = c.waiting /\ e.openings = c.openings
  /\ e.said = c.said /\ e.exited = c.exited /\ e.turnGen = c.turnGen
  /\ e.steers = c.steers /\ e.gen = c.gen

\* So nothing is opened if the microtasks are no more.
LEMMA AlikeShrinks ==
  ASSUME NEW c, DriverOk(c), NEW e, Alike(c, e),
         ThinOn(c.micro, Answering(c.micro), e.micro, Answering(e.micro)),
         e.cur \in {c.cur, 0}, e.active => c.active, e.over = "none" => c.over = "none",
         e.state = "idle" => c.state = "idle" \/ (~e.active /\ NoneAnswered(e.micro))
  PROVE  Shrinks(c, e)
<1>1. /\ ThinOn(c.stdin, Asking(c.stdin), e.stdin, Asking(e.stdin))
      /\ ThinOn(c.waiting, Asking(c.waiting), e.waiting, Asking(e.waiting))
  BY DriverTypes, RequestsThin DEF Alike
<1>2. c.gen <= e.gen
  BY DriverTypes DEF Alike
<1> QED BY <1>1, <1>2 DEF Shrinks, Alike

\* The next microtask is taken.
LEMMA MicroTaken ==
  ASSUME NEW c, DriverOk(c), c.micro # <<>>
  PROVE  LET e == [c EXCEPT !.micro = Tail(@), !.chunk = FALSE]
         IN  /\ Fine(c, e) /\ e.micro = Tail(c.micro) /\ Alike(c, e) /\ e.chain = c.chain
             /\ e.finished = c.finished /\ e.active = c.active /\ e.cur = c.cur
             /\ Head(c.micro).req.kind = "chain" =>
                  e.chain # <<>> /\ e.sync = "none" /\ NoneChained(e.micro)
<1> DEFINE e == [c EXCEPT !.micro = Tail(@), !.chunk = FALSE]
           p == Tail(c.micro)
<1>1. /\ c \in DriverRecord /\ c.micro \in Seq(Micros) /\ p \in Seq(Micros)
      /\ Head(c.micro) = c.micro[1] /\ 1 \in 1..Len(c.micro)
      /\ \A i \in 1..Len(p) :
           i \in Nat /\ i + 1 \in 1..Len(c.micro) /\ p[i] = c.micro[i + 1]
  BY DriverTypes, TailAt
<1>2. e = [c EXCEPT !.micro = p, !.chunk = FALSE]
  BY <1>1 DEF DriverRecord
<1> HIDE DEF e, p
<1>3. e \in DriverRecord /\ e.micro = p /\ e.chunk = FALSE
  BY <1>1, <1>2 DEF DriverRecord
<1>4. Alike(c, e)
  BY <1>1, <1>2 DEF DriverRecord, Alike
<1>5. /\ e.chain = c.chain /\ e.sync = c.sync /\ e.pipe = c.pipe /\ e.finished = c.finished
      /\ e.over = c.over /\ e.cur = c.cur /\ e.active = c.active /\ e.emitted = c.emitted
      /\ e.text = c.text /\ e.state = c.state
  BY <1>1, <1>2 DEF DriverRecord
<1>6. DriverOk(e)
  <2>1. \A i \in 1..Len(p) : p[i].req.kind = "chain" =>
          /\ c.chain # <<>> /\ c.sync = "none"
          /\ \A j \in 1..Len(p) : p[j].req.kind = "chain" => i = j
    <3>1. \A i \in 1..Len(c.micro) : c.micro[i].req.kind = "chain" =>
            /\ c.chain # <<>> /\ c.sync = "none"
            /\ \A j \in 1..Len(c.micro) : c.micro[j].req.kind = "chain" => i = j
      BY DEF DriverOk
    <3>2. \A i, j \in Nat : i + 1 = j + 1 => i = j
      OBVIOUS
    <3> SUFFICES ASSUME NEW i \in 1..Len(p), p[i].req.kind = "chain"
                 PROVE  /\ c.chain # <<>> /\ c.sync = "none"
                        /\ \A j \in 1..Len(p) : p[j].req.kind = "chain" => i = j
      OBVIOUS
    <3>3. c.chain # <<>> /\ c.sync = "none"
      BY <1>1, <3>1
    <3>4. ASSUME NEW j \in 1..Len(p), p[j].req.kind = "chain" PROVE i = j
      <4>1. i + 1 = j + 1
        BY <1>1, <3>1, <3>4
      <4> QED BY <1>1, <3>2, <4>1
    <3> QED BY <3>3, <3>4
  <2> QED BY <1>3, <1>4, <1>5, <2>1 DEF DriverOk, Alike
<1>7. Shrinks(c, e)
  <2>1. ThinOn(c.micro, Answering(c.micro), e.micro, Answering(e.micro))
    BY <1>1, <1>3, MicrosThin DEF p
  <2> QED BY <1>4, <1>5, <2>1, AlikeShrinks
<1>8. Mild(c, e)
  BY <1>4, <1>5 DEF Mild, Alike, ResultsIn, StopsIn, Doomed
<1>9. Head(c.micro).req.kind = "chain" =>
        e.chain # <<>> /\ e.sync = "none" /\ NoneChained(e.micro)
  <2> SUFFICES ASSUME c.micro[1].req.kind = "chain"
               PROVE  e.chain # <<>> /\ e.sync = "none" /\ NoneChained(p)
    BY <1>1, <1>3
  <2>1. /\ c.chain # <<>> /\ c.sync = "none"
        /\ \A j \in 1..Len(c.micro) : c.micro[j].req.kind = "chain" => 1 = j
    BY <1>1 DEF DriverOk
  <2>2. \A i \in Nat : i + 1 = 1 => i = 0
    OBVIOUS
  <2>3. \A i \in 1..Len(p) : i # 0
    OBVIOUS
  <2> QED BY <1>1, <1>5, <2>1, <2>2, <2>3 DEF NoneChained
<1> QED BY <1>3, <1>4, <1>5, <1>6, <1>7, <1>8, <1>9 DEF Fine, e, p

\* A wind-down begins its sync.
LEMMA WindDownFine ==
  ASSUME NEW c, DriverOk(c), c.chain # <<>>, c.sync = "none", NoneChained(c.micro),
         NEW s \in {"finish", "fail"}
  PROVE  Fine(c, [c EXCEPT !.finished = TRUE, !.pipe = FALSE, !.sync = s])
<1> DEFINE e == [c EXCEPT !.finished = TRUE, !.pipe = FALSE, !.sync = s]
<1>1. c \in DriverRecord
  BY DEF DriverOk
<1>2. e \in DriverRecord /\ e.finished = TRUE /\ e.pipe = FALSE /\ e.sync = s
  <2>1. CASE s = "finish"
    BY <1>1, <2>1 DEF DriverRecord
  <2>2. CASE s = "fail"
    BY <1>1, <2>2 DEF DriverRecord
  <2> QED BY <2>1, <2>2
<1>3. Alike(c, e)
  BY <1>1 DEF DriverRecord, Alike
<1>4. /\ e.chain = c.chain /\ e.micro = c.micro /\ e.chunk = c.chunk
      /\ e.over = c.over /\ e.cur = c.cur /\ e.active = c.active /\ e.emitted = c.emitted
      /\ e.text = c.text /\ e.state = c.state
  BY <1>1 DEF DriverRecord
<1> HIDE DEF e
<1>5. DriverOk(e)
  BY <1>2, <1>3, <1>4 DEF DriverOk, Alike, NoneChained
<1>6. Shrinks(c, e)
  <2>1. ThinOn(c.micro, Answering(c.micro), e.micro, Answering(e.micro))
    BY <1>4, DriverTypes, MicrosThin
  <2> QED BY <1>3, <1>4, <2>1, AlikeShrinks
<1>7. Mild(c, e)
  BY <1>2, <1>3, <1>4 DEF Mild, Alike, ResultsIn, StopsIn, Doomed
<1> QED BY <1>5, <1>6, <1>7 DEF Fine, e

\* The chain goes on, of the driver.
LEMMA GoOnShrinks ==
  ASSUME NEW c, DriverOk(c), c.chain # <<>>, NoneChained(c.micro)
  PROVE  LET e == GoOn(c)
         IN  /\ DriverOk(e) /\ Shrinks(c, e) /\ Alike(c, e)
             /\ e.chain = Tail(c.chain) /\ e.sync = "none" /\ e.finished = c.finished
             /\ e.emitted = c.emitted /\ e.text = c.text /\ e.active = c.active
             /\ e.cur = c.cur
<1> DEFINE q == Tail(c.chain)
           p == IF q = <<>> THEN c.micro ELSE Append(c.micro, ChainRuns)
           e == GoOn(c)
<1>1. /\ c \in DriverRecord /\ c.chain \in Seq(Reactions) /\ c.micro \in Seq(Micros)
      /\ q \in Seq(Reactions)
      /\ \A i \in 1..Len(q) : i \in Nat /\ i + 1 \in 1..Len(c.chain) /\ q[i] = c.chain[i + 1]
  BY DriverTypes, TailAt
<1>2. ChainRuns \in Micros /\ ChainRuns.req.kind = "chain"
  BY DEF ChainRuns, Micro, Req, Micros, Reqs, Asks
<1>3. p \in Seq(Micros) /\ ThinOn(c.micro, Answering(c.micro), p, Answering(p))
  <2>1. Append(c.micro, ChainRuns) \in Seq(Micros)
    BY <1>1, <1>2, AppendAt
  <2> QED BY <1>1, <1>2, <2>1, MicrosThin
<1>4. e = [c EXCEPT !.chain = q, !.sync = "none", !.micro = p]
  BY <1>1 DEF GoOn, Later, DriverRecord
<1> HIDE DEF e, q, p
<1>5. e \in DriverRecord /\ e.chain = q /\ e.sync = "none" /\ e.micro = p
  BY <1>1, <1>3, <1>4 DEF DriverRecord
<1>6. Alike(c, e)
  BY <1>1, <1>4 DEF DriverRecord, Alike
<1>7. /\ e.chunk = c.chunk /\ e.finished = c.finished /\ e.pipe = c.pipe
      /\ e.over = c.over /\ e.cur = c.cur /\ e.active = c.active /\ e.emitted = c.emitted
      /\ e.text = c.text /\ e.state = c.state
  BY <1>1, <1>4 DEF DriverRecord
<1>8. DriverOk(e)
  <2>1. \A i \in 1..Len(p) : p[i].req.kind = "chain" =>
          /\ q # <<>>
          /\ \A j \in 1..Len(p) : p[j].req.kind = "chain" => i = j
    <3>1. CASE q = <<>>
      BY <3>1 DEF NoneChained, p
    <3>2. CASE q # <<>>
      <4>1. /\ \A i \in 1..Len(p) : i \in 1..Len(c.micro) \/ i = Len(c.micro) + 1
            /\ \A i \in 1..Len(c.micro) : p[i] = c.micro[i]
        BY <1>1, <1>2, <3>2, AppendAt DEF p
      <4>2. \A i \in 1..Len(p) : p[i].req.kind = "chain" => i = Len(c.micro) + 1
        BY <4>1 DEF NoneChained
      <4> QED BY <3>2, <4>2
    <3> QED BY <3>1, <3>2
  <2>2. c.chunk => p # <<>>
    <3>1. Append(c.micro, ChainRuns) # <<>>
      BY <1>1, <1>2, AppendAt
    <3> QED BY <3>1 DEF p, DriverOk
  <2>3. \A i \in 1..Len(q) : q[i].gen <= c.gen
    BY <1>1 DEF DriverOk
  <2> QED BY <1>5, <1>6, <1>7, <2>1, <2>2, <2>3 DEF DriverOk, Alike
<1>9. Shrinks(c, e)
  BY <1>3, <1>5, <1>6, <1>7, AlikeShrinks
<1> QED BY <1>5, <1>6, <1>7, <1>8, <1>9 DEF e, q

\* The first reaction is done with.
Passed(c, l, h) ==
  /\ c.sync # "result"
  /\ c.finished \/ ( /\ c.chain[1].kind = "result"
                     /\ c.chain[1].gen # c.gen \/ Out(l, h))

\* Then the chain goes on.
LEMMA GoOnHolds ==
  ASSUME NEW g, NEW c, NEW a, NEW W, NEW l, Holds(g, c, a, W, l), c.chain # <<>>,
         NoneChained(c.micro), "crossed" \notin l.odd => Passed(c, l, g[0])
  PROVE  Holds(g, GoOn(c), a, W, l)
<1> DEFINE e == GoOn(c)
           q == Tail(c.chain)
           h == g[0]
<1>1. /\ DriverOk(e) /\ Shrinks(c, e) /\ Alike(c, e)
      /\ e.chain = q /\ e.sync = "none" /\ e.finished = c.finished
      /\ e.emitted = c.emitted /\ e.text = c.text /\ e.active = c.active /\ e.cur = c.cur
  BY GoOnShrinks DEF Holds
<1>2. /\ \A i \in 1..Len(q) : i \in Nat /\ i + 1 \in 1..Len(c.chain) /\ q[i] = c.chain[i + 1]
      /\ \A i \in 1..Len(c.chain) : i = 1 \/ i - 1 \in 1..Len(q)
      /\ \A i \in 1..Len(c.chain) : i \in Nat /\ (i - 1) + 1 = i
  <2>1. c.chain \in Seq(Reactions)
    BY DriverTypes DEF Holds
  <2> QED BY <2>1, TailAt
<1> HIDE DEF e, q
<1>3. /\ OpeningsOk(e) /\ AppOk(e, a, W, l.turns) /\ TurnsOk(e, l.turns)
      /\ AnswersOk(e, W, l.turns) /\ Lively(e, a, W, l.turns, g)
  BY <1>1, ShrinksKeeps, Zenon DEF Holds
<1>4. ASSUME "crossed" \notin l.odd
      PROVE  ResultsOk(e, l, h) /\ LastOk(e, l, h) /\ DueOk(e, l, h) /\ StopsOk(e, a, W, l.turns)
  <2>1. ResultsOk(c, l, h) /\ LastOk(c, l, h) /\ DueOk(c, l, h) /\ StopsOk(c, a, W, l.turns)
    BY <1>4 DEF Holds, Clean
  <2>2. Passed(c, l, h)
    BY <1>4
  <2>3. ResultsOk(e, l, h)
    <3>1. \A i \in 1..Len(q) : q[i].kind = "result" =>
            /\ q[i].turn = h /\ q[i].gen = e.turnGen
            /\ q[i].gen = e.gen => h \in l.due
      BY <1>1, <1>2, <2>1 DEF ResultsOk, Alike
    <3> QED BY <1>1, <2>1, <3>1 DEF ResultsOk
  <2>4. ~c.finished /\ Doomed(c) => Doomed(e)
    <3> SUFFICES ASSUME ~c.finished, NEW i \in 1..Len(c.chain), c.chain[i].kind # "result"
                 PROVE  Doomed(e)
      BY DEF Doomed
    <3>1. i # 1
      BY <2>2 DEF Passed
    <3>2. i - 1 \in 1..Len(q) /\ q[i - 1] = c.chain[i]
      BY <1>2, <3>1
    <3> QED BY <1>1, <3>2 DEF Doomed
  <2>5. LastOk(e, l, h)
    BY <1>1, <2>1, <2>2, <2>4 DEF LastOk, Passed, Alike
  <2>6. DueOk(e, l, h)
    <3> SUFFICES ASSUME ~e.finished, NEW n \in l.due
                 PROVE  \/ Out(l, n) \/ Doomed(e)
                        \/ \E i \in 1..Len(q) :
                             q[i].kind = "result" /\ q[i].turn = n /\ q[i].gen = e.gen
      BY <1>1 DEF DueOk
    <3>1. \/ Out(l, n) \/ Doomed(c)
          \/ \E i \in 1..Len(c.chain) :
               c.chain[i].kind = "result" /\ c.chain[i].turn = n /\ c.chain[i].gen = c.gen
      BY <1>1, <2>1, <2>2 DEF DueOk, Passed
    <3>2. ASSUME NEW i \in 1..Len(c.chain), c.chain[i].kind = "result",
                 c.chain[i].turn = n, c.chain[i].gen = c.gen
          PROVE  \/ Out(l, n)
                 \/ \E j \in 1..Len(q) :
                      q[j].kind = "result" /\ q[j].turn = n /\ q[j].gen = e.gen
      <4>1. CASE i = 1
        <5>1. n = h
          BY <2>1, <3>2 DEF ResultsOk
        <5> QED BY <1>1, <2>2, <3>2, <4>1, <5>1 DEF Passed
      <4>2. CASE i # 1
        <5>1. i - 1 \in 1..Len(q) /\ q[i - 1] = c.chain[i]
          BY <1>2, <4>2
        <5> QED BY <1>1, <3>2, <5>1 DEF Alike
      <4> QED BY <4>1, <4>2
    <3> QED BY <1>1, <2>4, <3>1, <3>2
  <2>7. StopsOk(e, a, W, l.turns)
    BY <1>1, <2>1 DEF StopsOk, Withdrawn, Alike
  <2> QED BY <2>3, <2>5, <2>6, <2>7
<1>5. Clean(e, a, W, l, h)
  BY <1>4 DEF Clean, Holds
<1> QED BY <1>1, <1>3, <1>5 DEF Holds, e


\* Nothing is opened, and no result owed more or less unless turns crossed.
LEMMA ShrunkHolds ==
  ASSUME NEW g, NEW c, NEW e, NEW a, NEW W, NEW l, Holds(g, c, a, W, l), DriverOk(e),
         Shrinks(c, e), "crossed" \notin l.odd => Mild(c, e)
  PROVE  Holds(g, e, a, W, l)
<1>1. /\ OpeningsOk(e) /\ AppOk(e, a, W, l.turns) /\ TurnsOk(e, l.turns)
      /\ AnswersOk(e, W, l.turns) /\ Lively(e, a, W, l.turns, g)
  BY ShrinksKeeps, Zenon DEF Holds
<1>2. Clean(e, a, W, l, g[0])
  <2>1. Clean(c, a, W, l, g[0])
    BY DEF Holds
  <2>2. CASE "crossed" \in l.odd
    BY <2>2 DEF Clean
  <2>3. CASE "crossed" \notin l.odd
    BY <2>1, <2>3, MildKeeps
  <2> QED BY <2>2, <2>3
<1> QED BY <1>1, <1>2 DEF Holds

\* finish() and fail() up to their sync.
LEMMA WindDownHolds ==
  ASSUME NEW g, NEW c, NEW a, NEW W, NEW l, Holds(g, c, a, W, l), c.chain # <<>>,
         c.sync = "none", NoneChained(c.micro)
  PROVE  Holds(g, Finish(c), a, W, l) /\ Holds(g, Fail(c), a, W, l)
<1>1. ASSUME c.finished PROVE Holds(g, GoOn(c), a, W, l)
  <2>1. Passed(c, l, g[0])
    BY <1>1 DEF Passed
  <2> QED BY <2>1, GoOnHolds
<1>2. ASSUME NEW s \in {"finish", "fail"}
      PROVE  Holds(g, [c EXCEPT !.finished = TRUE, !.pipe = FALSE, !.sync = s], a, W, l)
  <2>1. DriverOk(c)
    BY DEF Holds
  <2>2. Fine(c, [c EXCEPT !.finished = TRUE, !.pipe = FALSE, !.sync = s])
    BY <2>1, WindDownFine
  <2> QED BY <2>2, FineKeeps
<1>3. Holds(g, Finish(c), a, W, l)
  <2>1. CASE c.finished
    BY <1>1, <2>1 DEF Finish
  <2>2. CASE ~c.finished
    <3>1. Finish(c) = [c EXCEPT !.finished = TRUE, !.pipe = FALSE, !.sync = "finish"]
      BY <2>2 DEF Finish
    <3> QED BY <1>2, <3>1
  <2> QED BY <2>1, <2>2
<1>4. Holds(g, Fail(c), a, W, l)
  <2>1. CASE c.finished
    BY <1>1, <2>1 DEF Fail
  <2>2. CASE ~c.finished
    <3>1. Fail(c) = [c EXCEPT !.finished = TRUE, !.pipe = FALSE, !.sync = "fail"]
      BY <2>2 DEF Fail
    <3> QED BY <1>2, <3>1
  <2> QED BY <2>1, <2>2
<1> QED BY <1>3, <1>4

\* A result is on its way.
LEMMA ResultSyncs ==
  ASSUME NEW g, NEW c, NEW a, NEW W, NEW l, Holds(g, c, a, W, l), c.chain # <<>>,
         c.sync = "none", NoneChained(c.micro), c.chain[1].kind = "result",
         c.chain[1].gen = c.gen, ~c.finished, ~c.emitted
  PROVE  Holds(g, [c EXCEPT !.emitted = TRUE, !.sync = "result"], a, W, l)
<1> DEFINE e == [c EXCEPT !.emitted = TRUE, !.sync = "result"]
           h == g[0]
<1>1. DriverOk(c) /\ c \in DriverRecord /\ c.chain \in Seq(Reactions) /\ 1 \in 1..Len(c.chain)
  BY DriverTypes, TailAt DEF Holds
<1>2. e \in DriverRecord /\ e.emitted = TRUE /\ e.sync = "result"
  BY <1>1 DEF DriverRecord
<1>3. Alike(c, e)
  BY <1>1 DEF DriverRecord, Alike
<1>4. /\ e.chain = c.chain /\ e.micro = c.micro /\ e.chunk = c.chunk /\ e.pipe = c.pipe
      /\ e.finished = c.finished /\ e.over = c.over /\ e.cur = c.cur /\ e.active = c.active
      /\ e.text = c.text /\ e.state = c.state
  BY <1>1 DEF DriverRecord
<1> HIDE DEF e
<1>5. DriverOk(e)
  BY <1>1, <1>2, <1>3, <1>4 DEF DriverOk, Alike, NoneChained
<1>6. Shrinks(c, e)
  <2>1. ThinOn(c.micro, Answering(c.micro), e.micro, Answering(e.micro))
    BY <1>1, <1>4, DriverTypes, MicrosThin
  <2> QED BY <1>1, <1>3, <1>4, <2>1, AlikeShrinks
<1>7. /\ OpeningsOk(e) /\ AppOk(e, a, W, l.turns) /\ TurnsOk(e, l.turns)
      /\ AnswersOk(e, W, l.turns) /\ Lively(e, a, W, l.turns, g)
  BY <1>5, <1>6, ShrinksKeeps, Zenon DEF Holds
<1>8. ASSUME "crossed" \notin l.odd
      PROVE  ResultsOk(e, l, h) /\ LastOk(e, l, h) /\ DueOk(e, l, h) /\ StopsOk(e, a, W, l.turns)
  <2>1. ResultsOk(c, l, h) /\ LastOk(c, l, h) /\ DueOk(c, l, h) /\ StopsOk(c, a, W, l.turns)
    BY <1>8 DEF Holds, Clean
  <2>2. c.chain[1].turn = h /\ c.turnGen = c.gen /\ h \in l.due
    BY <1>1, <2>1 DEF ResultsOk
  <2>3. h # 0
    BY <2>2 DEF Holds, LogOk
  <2>4. c.text \in {0, h}
    BY <2>1, <2>2, <2>3 DEF LastOk
  <2>5. ~Out(l, h)
    BY <2>1 DEF ResultsOk, Out
  <2>6. ResultsOk(e, l, h)
    <3>1. \A i \in 1..Len(e.chain) : e.chain[i].kind = "result" =>
            /\ e.chain[i].turn = h /\ e.chain[i].gen = e.turnGen
            /\ e.chain[i].gen = e.gen => h \in l.due
      BY <1>3, <1>4, <2>1 DEF ResultsOk, Alike
    <3>2. \A k \in 1..Len(l.results) : l.results[k].turn # h
      BY <2>5 DEF Out
    <3> QED BY <1>2, <1>4, <2>1, <2>2, <2>4, <3>1, <3>2 DEF ResultsOk
  <2>7. LastOk(e, l, h)
    BY <1>2, <1>3, <1>4, <2>1 DEF LastOk, Alike, Doomed
  <2>8. DueOk(e, l, h)
    BY <1>2, <1>3, <1>4, <2>1 DEF DueOk, Alike, Doomed
  <2>9. StopsOk(e, a, W, l.turns)
    BY <1>3, <2>1 DEF StopsOk, Alike, Withdrawn
  <2> QED BY <2>6, <2>7, <2>8, <2>9
<1>9. Clean(e, a, W, l, h)
  BY <1>8 DEF Clean, Holds
<1> QED BY <1>5, <1>7, <1>9 DEF Holds, e

\* A reaction runs.
LEMMA ReactHolds ==
  ASSUME NEW g, NEW c, NEW a, NEW W, NEW l, Holds(g, c, a, W, l), c.chain # <<>>,
         c.sync = "none", NoneChained(c.micro)
  PROVE  Holds(g, React(c), a, W, l)
<1>1. /\ c.chain \in Seq(Reactions) /\ 1 \in 1..Len(c.chain) /\ Head(c.chain) = c.chain[1]
      /\ c.chain[1] \in Reactions /\ DriverOk(c)
  BY DriverTypes, TailAt DEF Holds
<1>2. CASE c.chain[1].kind = "result"
  <2>1. CASE c.chain[1].gen # c.gen \/ c.finished \/ c.emitted
    <3>1. ASSUME "crossed" \notin l.odd PROVE Passed(c, l, g[0])
      <4>1. ResultsOk(c, l, g[0]) /\ LastOk(c, l, g[0])
        BY <3>1 DEF Holds, Clean
      <4>2. ASSUME c.chain[1].gen = c.gen, c.emitted PROVE Out(l, g[0])
        <5>1. c.turnGen = c.gen /\ g[0] \in l.due
          BY <1>1, <1>2, <4>1, <4>2 DEF ResultsOk
        <5>2. g[0] # 0
          BY <5>1 DEF Holds, LogOk
        <5> QED BY <4>1, <4>2, <5>1, <5>2 DEF LastOk
      <4> QED BY <1>2, <2>1, <4>2 DEF Passed
    <3>2. React(c) = GoOn(c)
      BY <1>1, <1>2, <2>1 DEF React
    <3> QED BY <3>1, <3>2, GoOnHolds
  <2>2. CASE ~(c.chain[1].gen # c.gen \/ c.finished \/ c.emitted)
    <3>1. React(c) = [c EXCEPT !.emitted = TRUE, !.sync = "result"]
      BY <1>1, <1>2, <2>2 DEF React
    <3>2. c.chain[1].gen = c.gen /\ ~c.finished /\ ~c.emitted
      BY <2>2
    <3>3. Holds(g, [c EXCEPT !.emitted = TRUE, !.sync = "result"], a, W, l)
      BY <1>2, <3>2, ResultSyncs
    <3> QED BY <3>1, <3>3
  <2> QED BY <2>1, <2>2
<1>3. CASE c.chain[1].kind # "result"
  <2>1. React(c) = Finish(c) \/ React(c) = Fail(c)
    BY <1>1, <1>3 DEF React, Reactions
  <2> QED BY <2>1, WindDownHolds
<1> QED BY <1>2, <1>3

\* The result of a reaction is out.
LEMMA ResultOut ==
  ASSUME NEW g, NEW c, NEW a, NEW W, NEW l, Holds(g, c, a, W, l), c.sync = "result",
         c.micro = <<>>
  PROVE  LET e == [c EXCEPT !.sync = "none"]
             k == [l EXCEPT !.results =
                     Append(@, [turn |-> Head(c.chain).turn, text |-> c.text])]
         IN  /\ Holds(g, e, a, W, k) /\ e.chain # <<>> /\ e.micro = <<>> /\ e.sync = "none"
             /\ "crossed" \notin k.odd => Passed(e, k, g[0])
<1> DEFINE e == [c EXCEPT !.sync = "none"]
           r == [turn |-> Head(c.chain).turn, text |-> c.text]
           k == [l EXCEPT !.results = Append(@, r)]
           R == Append(l.results, r)
           n == Len(l.results)
           h == g[0]
<1>1. DriverOk(c) /\ c \in DriverRecord /\ c.chain \in Seq(Reactions) /\ c.text \in Nat
  BY DriverTypes DEF Holds
<1>2. /\ 1 \in 1..Len(c.chain) /\ Head(c.chain) = c.chain[1] /\ c.chain[1] \in Reactions
      /\ c.chain # <<>> /\ c.chain[1].kind = "result"
  BY <1>1, TailAt DEF DriverOk
<1>3. r \in Outs /\ r.turn = c.chain[1].turn /\ r.text = c.text
  BY <1>1, <1>2 DEF Outs, Reactions
<1>4. l \in LogRecord /\ l.results \in Seq(Outs) /\ l.due \subseteq 1..Len(l.turns)
  BY DEF Holds, LogOk, LogRecord
<1>5. /\ R \in Seq(Outs) /\ n \in Nat /\ Len(R) = n + 1 /\ R[n + 1] = r
      /\ \A i \in 1..n : R[i] = l.results[i]
      /\ \A i \in 1..Len(R) : i \in 1..n \/ i = n + 1
  BY <1>3, <1>4, AppendAt
<1> HIDE DEF R, r, n
<1>6. k \in LogRecord /\ k.results = R /\ k.turns = l.turns /\ k.due = l.due /\ k.odd = l.odd
  BY <1>4, <1>5 DEF LogRecord, R
<1> HIDE DEF k
<1>7. e \in DriverRecord /\ e.sync = "none" /\ Alike(c, e)
  BY <1>1 DEF DriverRecord, Alike
<1>8. /\ e.chain = c.chain /\ e.micro = c.micro /\ e.chunk = c.chunk /\ e.pipe = c.pipe
      /\ e.finished = c.finished /\ e.over = c.over /\ e.cur = c.cur /\ e.active = c.active
      /\ e.text = c.text /\ e.state = c.state /\ e.emitted = c.emitted
  BY <1>1 DEF DriverRecord
<1> HIDE DEF e
<1>9. DriverOk(e)
  BY <1>1, <1>7, <1>8 DEF DriverOk, Alike
<1>10. Shrinks(c, e)
  <2>1. ThinOn(c.micro, Answering(c.micro), e.micro, Answering(e.micro))
    BY <1>1, <1>8, DriverTypes, MicrosThin
  <2> QED BY <1>1, <1>7, <1>8, <2>1, AlikeShrinks
<1>11. /\ OpeningsOk(e) /\ AppOk(e, a, W, l.turns) /\ TurnsOk(e, l.turns)
       /\ AnswersOk(e, W, l.turns) /\ Lively(e, a, W, l.turns, g)
  BY <1>9, <1>10, ShrinksKeeps, Zenon DEF Holds
<1>12. ASSUME "crossed" \notin l.odd
       PROVE  /\ ResultsOk(e, k, h) /\ LastOk(e, k, h) /\ DueOk(e, k, h)
              /\ StopsOk(e, a, W, l.turns) /\ Out(k, h)
  <2>1. ResultsOk(c, l, h) /\ LastOk(c, l, h) /\ DueOk(c, l, h) /\ StopsOk(c, a, W, l.turns)
    BY <1>12 DEF Holds, Clean
  <2>2. /\ r.turn = h /\ r.text \in {0, h} /\ h \in l.due /\ c.emitted /\ h \in Nat
        /\ \A i \in 1..n : l.results[i].turn # h
    BY <1>2, <1>3, <1>4, <2>1 DEF ResultsOk, n
  <2>3. Out(k, h)
    <3>1. n + 1 \in 1..Len(R)
      BY <1>5
    <3> QED BY <1>5, <1>6, <2>2, <3>1 DEF Out
  <2>4. ResultsOk(e, k, h)
    <3>1. \A i \in 1..Len(e.chain) : e.chain[i].kind = "result" =>
            /\ e.chain[i].turn = h /\ e.chain[i].gen = e.turnGen
            /\ e.chain[i].gen = e.gen => h \in l.due
      BY <1>7, <1>8, <2>1 DEF ResultsOk, Alike
    <3>2. \A i \in 1..Len(R) :
            /\ R[i].turn <= h /\ R[i].turn \in l.due
            /\ R[i].text \in {0, R[i].turn}
            /\ R[i].turn = h => e.emitted
      <4>1. \A i \in 1..n :
            /\ R[i].turn <= h /\ R[i].turn \in l.due
            /\ R[i].text \in {0, R[i].turn}
            /\ R[i].turn = h => e.emitted
        BY <1>5, <2>1, <2>2 DEF ResultsOk, n
      <4>2. h <= h
        BY <2>2
      <4> QED BY <1>5, <1>8, <2>2, <4>1, <4>2
    <3>3. ASSUME NEW i \in 1..Len(R), NEW j \in 1..Len(R), R[i].turn = R[j].turn PROVE i = j
      <4>1. \A x, y \in 1..n : R[x].turn = R[y].turn => x = y
        BY <1>5, <2>1 DEF ResultsOk, n
      <4>2. \A x \in 1..n : R[x].turn # h
        BY <1>5, <2>2
      <4> QED BY <1>5, <2>2, <3>3, <4>1, <4>2
    <3> QED BY <1>6, <1>7, <3>1, <3>2, <3>3 DEF ResultsOk
  <2>5. LastOk(e, k, h)
    BY <1>6, <1>7, <1>8, <2>1, <2>3 DEF LastOk, Alike, Doomed
  <2>6. DueOk(e, k, h)
    <3>1. \A m : Out(l, m) => Out(k, m)
      <4>1. \A i \in 1..n : i \in 1..Len(R)
        BY <1>5
      <4> QED BY <1>5, <1>6, <4>1 DEF Out, n
    <3>2. \A m \in l.due : ~c.finished =>
            \/ Out(k, m) \/ Doomed(c)
            \/ \E i \in 1..Len(c.chain) :
                 c.chain[i].kind = "result" /\ c.chain[i].turn = m /\ c.chain[i].gen = c.gen
      BY <2>1, <2>3, <3>1 DEF DueOk
    <3> QED BY <1>6, <1>7, <1>8, <3>2 DEF DueOk, Alike, Doomed
  <2>7. StopsOk(e, a, W, l.turns)
    BY <1>7, <2>1 DEF StopsOk, Alike, Withdrawn
  <2> QED BY <2>3, <2>4, <2>5, <2>6, <2>7
<1>13. Clean(e, a, W, k, h) /\ ("crossed" \notin k.odd => Passed(e, k, h))
  <2>1. "crossed" \notin l.odd => h <= Len(l.turns)
    BY DEF Holds, Clean
  <2>2. Clean(e, a, W, k, h)
    BY <1>6, <1>12, <2>1 DEF Clean
  <2>3. "crossed" \notin k.odd => Passed(e, k, h)
    BY <1>2, <1>6, <1>7, <1>8, <1>12 DEF Passed
  <2> QED BY <2>2, <2>3
<1>14. LogOk(k) /\ Trace(g, W)
  BY <1>4, <1>6 DEF LogOk, Holds
<1>15. Holds(g, e, a, W, k)
  BY <1>6, <1>9, <1>11, <1>13, <1>14 DEF Holds
<1> QED BY <1>2, <1>7, <1>8, <1>13, <1>15 DEF e, k, r

\* The session is idle, no turn being live.
LEMMA IdleFine ==
  ASSUME NEW c, DriverOk(c), ~c.active, NoneAnswered(c.micro)
  PROVE  LET e == [c EXCEPT !.state = "idle"]
         IN  /\ Fine(c, e) /\ e.chain = c.chain /\ e.micro = c.micro /\ e.sync = c.sync
             /\ e.finished = c.finished /\ e.gen = c.gen
<1> DEFINE e == [c EXCEPT !.state = "idle"]
<1>1. c \in DriverRecord
  BY DriverTypes
<1>2. e \in DriverRecord /\ Alike(c, e)
  BY <1>1 DEF DriverRecord, Alike
<1>3. /\ e.chain = c.chain /\ e.micro = c.micro /\ e.chunk = c.chunk /\ e.pipe = c.pipe
      /\ e.finished = c.finished /\ e.over = c.over /\ e.cur = c.cur /\ e.active = c.active
      /\ e.text = c.text /\ e.emitted = c.emitted /\ e.sync = c.sync
  BY <1>1 DEF DriverRecord
<1> HIDE DEF e
<1>4. DriverOk(e)
  BY <1>2, <1>3 DEF DriverOk, Alike
<1>5. Shrinks(c, e)
  <2>1. ThinOn(c.micro, Answering(c.micro), e.micro, Answering(e.micro))
    BY <1>3, DriverTypes, MicrosThin
  <2> QED BY <1>2, <1>3, <2>1, AlikeShrinks
<1>6. Mild(c, e)
  BY <1>2, <1>3 DEF Mild, Alike, ResultsIn, StopsIn, Doomed
<1> QED BY <1>2, <1>3, <1>4, <1>5, <1>6 DEF Fine, e, Alike

\* The session is over.
LEMMA OverFine ==
  ASSUME NEW c, DriverOk(c), c.finished, NEW x \in {"ended", "error", "retired"}
  PROVE  LET e == [c EXCEPT !.over = IF @ # "none" THEN @ ELSE x]
         IN  /\ Fine(c, e) /\ e.chain = c.chain /\ e.micro = c.micro /\ e.sync = c.sync
             /\ e.finished = c.finished
<1> DEFINE e == [c EXCEPT !.over = IF @ # "none" THEN @ ELSE x]
<1>1. c \in DriverRecord
  BY DriverTypes
<1>2. Alike(c, e)
  BY <1>1 DEF DriverRecord, Alike
<1>3. /\ e.chain = c.chain /\ e.micro = c.micro /\ e.chunk = c.chunk /\ e.pipe = c.pipe
      /\ e.finished = c.finished /\ e.cur = c.cur /\ e.active = c.active /\ e.state = c.state
      /\ e.text = c.text /\ e.emitted = c.emitted /\ e.sync = c.sync
  BY <1>1 DEF DriverRecord
<1>4. e \in DriverRecord /\ e.over # "none"
  <2> DEFINE o == IF c.over # "none" THEN c.over ELSE x
  <2>1. o \in {"none", "ended", "error", "retired"} /\ o # "none"
    BY <1>1 DEF DriverRecord
  <2>2. e = [c EXCEPT !.over = o]
    BY <1>1 DEF DriverRecord
  <2> HIDE DEF o, e
  <2> QED BY <1>1, <2>1, <2>2 DEF DriverRecord
<1> HIDE DEF e
<1>5. DriverOk(e)
  BY <1>2, <1>3, <1>4 DEF DriverOk, Alike
<1>6. Shrinks(c, e)
  <2>1. ThinOn(c.micro, Answering(c.micro), e.micro, Answering(e.micro))
    BY <1>3, DriverTypes, MicrosThin
  <2> QED BY <1>2, <1>3, <1>4, <2>1, AlikeShrinks
<1>7. Mild(c, e)
  BY <1>2, <1>3 DEF Mild, Alike, ResultsIn, StopsIn, Doomed
<1> QED BY <1>3, <1>5, <1>6, <1>7 DEF Fine, e

\* A sync returns.
LEMMA SyncReturnsKeeps == ASSUME Heard, SyncReturns PROVE Heard'
<1>1. PICK g : Holds(g, d, app, stdout, log)
  BY DEF Heard
<1>2. DriverOk(d) /\ d \in DriverRecord /\ d.chain # <<>> /\ NoneChained(d.micro)
      /\ NoneAnswered(d.micro) /\ d.micro = <<>>
  BY <1>1, DriverTypes DEF Holds, SyncReturns, DriverOk, NoneChained, NoneAnswered
<1>3. CASE d.sync = "result"
  <2> DEFINE e == [d EXCEPT !.sync = "none"]
             k == [log EXCEPT !.results =
                     Append(@, [turn |-> Head(d.chain).turn, text |-> d.text])]
  <2>1. d' = AfterResult(d) /\ log' = k /\ app' = app /\ stdout' = stdout
    BY <1>3 DEF SyncReturns
  <2>2. /\ Holds(g, e, app, stdout, k) /\ e.chain # <<>> /\ e.micro = <<>> /\ e.sync = "none"
        /\ "crossed" \notin k.odd => Passed(e, k, g[0])
    BY <1>1, <1>2, <1>3, ResultOut
  <2>3. NoneChained(e.micro) /\ NoneAnswered(e.micro)
    BY <2>2 DEF NoneChained, NoneAnswered
  <2>4. e.finished = d.finished /\ e.active = d.active /\ e.state = d.state
    BY <1>2 DEF DriverRecord
  <2>5. CASE d.finished
    <3>1. AfterResult(d) = GoOn(e)
      BY <1>2, <2>5 DEF AfterResult, GoOn, Later, DriverRecord
    <3>2. Holds(g, GoOn(e), app, stdout, k)
      BY <2>2, <2>3, GoOnHolds
    <3> QED BY <2>1, <3>1, <3>2 DEF Heard
  <2>6. CASE ~d.finished /\ d.closed
    <3>1. AfterResult(d) = Finish(e)
      BY <1>2, <2>6 DEF AfterResult, Finish, DriverRecord
    <3>2. Holds(g, Finish(e), app, stdout, k)
      BY <2>2, <2>3, WindDownHolds
    <3> QED BY <2>1, <3>1, <3>2 DEF Heard
  <2>7. CASE ~d.finished /\ ~d.closed /\ d.active
    <3>1. [d EXCEPT !.state = IF d.active THEN d.state ELSE "idle"] = d
      BY <1>2, <2>7 DEF DriverRecord
    <3>2. AfterResult(d) = GoOn(e)
      <4>1. AfterResult(d) = GoOn(d)
        BY <2>7, <3>1 DEF AfterResult
      <4>2. GoOn(d) = GoOn(e)
        BY <1>2 DEF GoOn, Later, DriverRecord
      <4> QED BY <4>1, <4>2
    <3>3. Holds(g, GoOn(e), app, stdout, k)
      BY <2>2, <2>3, GoOnHolds
    <3> QED BY <2>1, <3>2, <3>3 DEF Heard
  <2>8. CASE ~d.finished /\ ~d.closed /\ ~d.active
    <3> DEFINE f == [e EXCEPT !.state = "idle"]
    <3>1. AfterResult(d) = GoOn(f)
      BY <1>2, <2>8 DEF AfterResult, GoOn, Later, DriverRecord
    <3>2. /\ Fine(e, f) /\ f.chain = e.chain /\ f.micro = e.micro /\ f.sync = e.sync
          /\ f.finished = e.finished /\ f.gen = e.gen
      BY <2>2, <2>3, <2>4, <2>8, IdleFine DEF Holds
    <3> HIDE DEF f, e
    <3>3. Holds(g, f, app, stdout, k)
      BY <2>2, <3>2, FineKeeps
    <3>4. "crossed" \notin k.odd => Passed(f, k, g[0])
      BY <2>2, <3>2 DEF Passed
    <3>5. Holds(g, GoOn(f), app, stdout, k)
      BY <2>2, <2>3, <3>2, <3>3, <3>4, GoOnHolds
    <3> QED BY <2>1, <3>1, <3>5 DEF Heard
  <2> QED BY <2>5, <2>6, <2>7, <2>8
<1>4. CASE d.sync # "result"
  <2> DEFINE x == IF d.retiring THEN "retired" ELSE IF d.sync = "finish" THEN "ended" ELSE "error"
             e == [d EXCEPT !.over = IF @ # "none" THEN @ ELSE x]
  <2>1. d' = GoOn(e) /\ app' = app /\ stdout' = stdout /\ log' = log
    BY <1>2, <1>4 DEF SyncReturns
  <2>2. d.finished
    BY <1>2, <1>4 DEF SyncReturns, DriverOk, DriverRecord
  <2>3. x \in {"ended", "error", "retired"}
    OBVIOUS
  <2> HIDE DEF x
  <2>4. /\ Fine(d, e) /\ e.chain = d.chain /\ e.micro = d.micro /\ e.sync = d.sync
        /\ e.finished = d.finished
    BY <1>2, <2>2, <2>3, OverFine
  <2> HIDE DEF e
  <2>5. Holds(g, e, app, stdout, log)
    BY <1>1, <2>4, FineKeeps
  <2>6. Passed(e, log, g[0])
    BY <1>4, <2>2, <2>4 DEF Passed
  <2>7. Holds(g, GoOn(e), app, stdout, log)
    BY <1>2, <2>4, <2>5, <2>6, GoOnHolds
  <2> QED BY <2>1, <2>7 DEF Heard
<1> QED BY <1>3, <1>4

-----------------------------------------------------------------------------
(* Requests and what settles them                                            *)

\* Where the elements of a sequence that another is appended to come from.
LEMMA JoinAt ==
  ASSUME NEW S, NEW q \in Seq(S), NEW r \in Seq(S)
  PROVE  /\ q \o r \in Seq(S) /\ Len(q) \in Nat /\ Len(r) \in Nat
         /\ \A i \in 1..Len(q) : i \in 1..Len(q \o r) /\ (q \o r)[i] = q[i]
         /\ \A i \in 1..Len(q \o r) : \/ i \in 1..Len(q) /\ (q \o r)[i] = q[i]
                                      \/ /\ i - Len(q) \in 1..Len(r) /\ i \notin 1..Len(q)
                                         /\ (q \o r)[i] = r[i - Len(q)]
         /\ q # <<>> => q \o r # <<>>
<1>1. /\ Len(q \o r) = Len(q) + Len(r) /\ Len(q) \in Nat /\ Len(r) \in Nat
      /\ \A i \in 1..(Len(q) + Len(r)) :
           (q \o r)[i] = IF i <= Len(q) THEN q[i] ELSE r[i - Len(q)]
  BY ConcatAt
<1>2. q \o r \in Seq(S)
  OBVIOUS
<1>3. \A i \in 1..Len(q) : i \in 1..Len(q \o r) /\ (q \o r)[i] = q[i]
  BY <1>1
<1>4. \A i \in 1..Len(q \o r) : \/ i \in 1..Len(q) /\ (q \o r)[i] = q[i]
                                \/ /\ i - Len(q) \in 1..Len(r) /\ i \notin 1..Len(q)
                                   /\ (q \o r)[i] = r[i - Len(q)]
  BY <1>1
<1>5. q # <<>> => q \o r # <<>>
  BY <1>1, <1>2, EmptyByLength
<1> QED BY <1>1, <1>2, <1>3, <1>4, <1>5

\* A microtask that may come: of a start that was answered, or of a message that is
\* nowhere but where it was asked for.
Fits(c, W, T, x) ==
  /\ x \in Micros /\ x.req.kind # "chain"
  /\ x.req.kind = "start" /\ x.ok =>
       /\ x.turn \in 1..Len(T) /\ T[x.turn] = Opens(x.req)
       /\ ~c.exited /\ c.state = "idle" /\ x.req.gen = c.gen => Has(c.openings, T[x.turn])
  /\ ~c.exited /\ x.req.kind = "start" /\ ~x.ok =>
       /\ x.req.m <= c.said /\ x.req.m \notin Steers(c)
       /\ x.req.m \notin Turned(T) \union Started(c.stdin)
  /\ ~c.exited /\ x.req.kind = "steer" =>
       x.req.m <= c.said /\ x.req.m \notin Opened(c, W, T) \union Steers(c)

\* It comes.
LEMMA MicroHolds ==
  ASSUME NEW g, NEW c, NEW a, NEW W, NEW l, Holds(g, c, a, W, l), NEW x,
         Fits(c, W, l.turns, x)
  PROVE  Holds(g, Later(c, x), a, W, l)
<1> DEFINE T == l.turns
           p == Append(c.micro, x)
           n == Len(c.micro)
           e == Later(c, x)
<1>1. DriverOk(c) /\ c \in DriverRecord /\ c.micro \in Seq(Micros) /\ x \in Micros
  BY DriverTypes DEF Holds, Fits
<1>2. /\ p \in Seq(Micros) /\ n \in Nat /\ p[n + 1] = x /\ p # <<>> /\ n + 1 \in 1..Len(p)
      /\ \A i \in 1..n : p[i] = c.micro[i] /\ i \in 1..Len(p)
      /\ \A i \in 1..Len(p) : i \in 1..n \/ i = n + 1
  <2>1. Len(p) = n + 1 /\ n \in Nat
    BY <1>1, AppendAt
  <2>2. n + 1 \in 1..Len(p) /\ \A i \in 1..n : i \in 1..Len(p)
    BY <2>1
  <2> QED BY <1>1, <2>1, <2>2, AppendAt
<1>3. e = [c EXCEPT !.micro = p]
  BY <1>1 DEF Later, DriverRecord
<1> HIDE DEF e, p, n
<1>4. e \in DriverRecord /\ e.micro = p /\ Alike(c, e)
  BY <1>1, <1>2, <1>3 DEF DriverRecord, Alike
<1>5. /\ e.chain = c.chain /\ e.chunk = c.chunk /\ e.pipe = c.pipe
      /\ e.finished = c.finished /\ e.over = c.over /\ e.cur = c.cur /\ e.active = c.active
      /\ e.text = c.text /\ e.state = c.state /\ e.emitted = c.emitted /\ e.sync = c.sync
  BY <1>1, <1>3 DEF DriverRecord
<1>6. DriverOk(e)
  <2>1. \A i \in 1..Len(p) : p[i].req.kind = "chain" => i \in 1..n /\ p[i] = c.micro[i]
    BY <1>2 DEF Fits
  <2>2. \A i \in 1..n : c.micro[i].req.kind = "chain" =>
          /\ c.chain # <<>> /\ c.sync = "none"
          /\ \A j \in 1..n : c.micro[j].req.kind = "chain" => i = j
    BY <1>1 DEF DriverOk, n
  <2>3. \A i \in 1..Len(p) : p[i].req.kind = "chain" =>
          /\ c.chain # <<>> /\ c.sync = "none"
          /\ \A j \in 1..Len(p) : p[j].req.kind = "chain" => i = j
    BY <2>1, <2>2
  <2> QED BY <1>1, <1>2, <1>4, <1>5, <2>3 DEF DriverOk, Alike
<1>7. OpeningsOk(e) /\ AppOk(e, a, W, T) /\ TurnsOk(e, T)
  BY <1>4, <1>5 DEF Holds, OpeningsOk, AppOk, TurnsOk, Alike
<1>8. AnswersOk(e, W, T)
  <2>1. AnswersOk(c, W, T)
    BY DEF Holds
  <2>2. \A i \in 1..Len(p) : p[i].req.kind = "start" /\ p[i].ok =>
          p[i].turn \in 1..Len(T) /\ T[p[i].turn] = Opens(p[i].req)
    BY <1>2, <2>1 DEF AnswersOk, Fits, n
  <2> QED BY <1>4, <2>1, <2>2 DEF AnswersOk
<1>9. Clean(e, a, W, l, g[0])
  <2>1. Mild(c, e)
    BY <1>4, <1>5 DEF Mild, Alike, ResultsIn, StopsIn, Doomed
  <2> QED BY <2>1, MildKeeps DEF Holds
<1>10. ASSUME ~c.exited PROVE MessagesOk(e, W, T) /\ IdleOk(e, T)
  <2>1. MessagesOk(c, W, T) /\ IdleOk(c, T)
    BY <1>10 DEF Holds, Lively
  <2>2. Refused(e, W) \subseteq
          Refused(c, W) \union (IF x.req.kind = "start" /\ ~x.ok THEN {x.req.m} ELSE {})
    <3> DEFINE F(u) == {k \in 1..Len(u) : u[k].req.kind = "start" /\ ~u[k].ok}
    <3>1. \A i \in F(p) : \/ i \in F(c.micro) /\ p[i] = c.micro[i]
                          \/ p[i] = x /\ x.req.kind = "start" /\ ~x.ok
      BY <1>2 DEF n
    <3> QED BY <1>4, <3>1 DEF Refused
  <2>3. \A i \in Settled(p) : \/ i \in Settled(c.micro) /\ p[i] = c.micro[i]
                              \/ p[i] = x /\ i = n + 1 /\ x.req.kind = "steer"
    BY <1>2 DEF Settled, n
  <2>4. Told(p) \subseteq
          Told(c.micro) \union (IF x.req.kind = "steer" THEN {x.req.m} ELSE {})
    BY <2>3 DEF Told
  <2>5. OnePlace(e)
    <3>1. OnePlace(c)
      BY <2>1 DEF MessagesOk
    <3>2. x.req.kind = "steer" =>
            x.req.m \notin Kept(c) \union Steered(c.waiting) \union Told(c.micro)
      BY <1>10 DEF Fits, Steers
    <3>3. ASSUME NEW i \in Settled(p), NEW j \in Settled(p), p[i].req.m = p[j].req.m
          PROVE  i = j
      <4>1. \A k \in Settled(c.micro) : c.micro[k].req.m \in Told(c.micro)
        BY DEF Told
      <4>2. CASE p[i] = x /\ i = n + 1 /\ x.req.kind = "steer"
        BY <2>3, <3>2, <3>3, <4>1, <4>2
      <4>3. CASE i \in Settled(c.micro) /\ p[i] = c.micro[i]
        BY <2>3, <3>1, <3>2, <3>3, <4>1, <4>3 DEF OnePlace
      <4> QED BY <2>3, <4>2, <4>3
    <3>4. Kept(e) = Kept(c)
      BY <1>4 DEF Kept, Alike
    <3>5. Kept(e) \intersect Told(p) = {} /\ Steered(c.waiting) \intersect Told(p) = {}
      BY <2>4, <3>1, <3>2, <3>4 DEF OnePlace
    <3> QED BY <1>4, <3>1, <3>3, <3>4, <3>5 DEF OnePlace, Alike
  <2>6. MessagesOk(e, W, T)
    <3>1. Opened(e, W, T) \subseteq
            Opened(c, W, T) \union (IF x.req.kind = "start" /\ ~x.ok THEN {x.req.m} ELSE {})
      BY <1>4, <2>2 DEF Opened, Alike
    <3>2. Steers(e) \subseteq Steers(c) \union (IF x.req.kind = "steer" THEN {x.req.m} ELSE {})
      BY <1>4, <2>4 DEF Steers, Kept, Alike
    <3>3. \A m \in Opened(e, W, T) \union Steers(e) : m <= e.said
      BY <1>4, <1>10, <2>1, <3>1, <3>2 DEF MessagesOk, Fits, Alike
    <3>4. Opened(e, W, T) \intersect Steers(e) = {}
      BY <1>10, <2>1, <3>1, <3>2 DEF MessagesOk, Fits
    <3>5. Refused(e, W) \intersect (Turned(T) \union Started(e.stdin)) = {}
      BY <1>4, <1>10, <2>1, <2>2 DEF MessagesOk, Fits, Alike
    <3>6. Turned(T) \intersect Started(e.stdin) = {}
      BY <1>4, <2>1 DEF MessagesOk, Alike
    <3> QED BY <2>5, <3>3, <3>4, <3>5, <3>6 DEF MessagesOk
  <2>7. IdleOk(e, T)
    <3>1. ASSUME e.state = "idle"
          PROVE  \A i \in 1..Len(p) :
                   p[i].req.kind = "start" /\ p[i].ok /\ p[i].req.gen = c.gen =>
                     Has(c.openings, T[p[i].turn])
      BY <1>2, <1>5, <1>10, <2>1, <3>1 DEF IdleOk, Fits, n
    <3> QED BY <1>4, <1>5, <2>1, <3>1 DEF IdleOk, Alike
  <2> QED BY <2>6, <2>7
<1>11. Lively(e, a, W, T, g)
  BY <1>4, <1>10 DEF Holds, Lively, Alike
<1> QED BY <1>6, <1>7, <1>8, <1>9, <1>11 DEF Holds, e

\* A sequence of one.
LEMMA OneOf == ASSUME NEW x, NEW f, f = [k \in 1..1 |-> x] PROVE f = <<x>>
<1>1. f \in Seq({x}) /\ Len(f) = 1 /\ f[1] = x
  OBVIOUS
<1>2. <<x>> \in Seq({x}) /\ Len(<<x>>) = 1 /\ <<x>>[1] = x
  OBVIOUS
<1>3. \A i \in 1..Len(f) : f[i] = <<x>>[i]
  BY <1>1, <1>2
<1> QED BY <1>1, <1>2, <1>3, SeqEqual

\* A request is made.
LEMMA RequestIs ==
  ASSUME NEW c \in DriverRecord, NEW r \in Reqs
  PROVE  Request(c, r) = IF c.pipe THEN [c EXCEPT !.waiting = Append(@, r), !.stdin = Append(@, r)]
                         ELSE Later(c, Micro(r, FALSE, 0))
<1>1. c.waiting \in Seq(Reqs) /\ c.stdin \in Seq(Reqs) /\ c.micro \in Seq(Micros)
  BY DEF DriverRecord
<1>2. \A q \in Seq(Reqs) : q \o <<r>> = Append(q, r)
  OBVIOUS
<1>3. Micro(r, FALSE, 0) \in Micros
  BY DEF Micro, Micros
<1>4. Rejections(<<r>>) = <<Micro(r, FALSE, 0)>>
  <2> DEFINE x == Micro(r, FALSE, 0)
             q == <<r>>
  <2>1. q \in Seq(Reqs) /\ Len(q) = 1 /\ q[1] = r
    OBVIOUS
  <2> HIDE DEF q
  <2>2. \A k \in 1..1 : q[k] = r
    BY <2>1
  <2>3. \A k \in 1..1 : Micro(q[k], FALSE, 0) = x
    BY <2>2, Zenon
  <2>4. Rejections(q) = [k \in 1..1 |-> Micro(q[k], FALSE, 0)]
    BY <2>1 DEF Rejections
  <2> HIDE DEF x
  <2>5. Rejections(q) = [k \in 1..1 |-> x]
    BY <2>3, <2>4, Zenon
  <2>6. Rejections(q) = <<x>>
    BY <2>5, OneOf
  <2> QED BY <2>6 DEF q, x
<1>5. \A q \in Seq(Micros), x \in Micros : q \o <<x>> = Append(q, x)
  OBVIOUS
<1>6. CASE c.pipe
  BY <1>1, <1>2, <1>6 DEF Request, Requests, DriverRecord
<1>7. CASE ~c.pipe
  <2>1. c.micro \o Rejections(<<r>>) = Append(c.micro, Micro(r, FALSE, 0))
    BY <1>1, <1>3, <1>4, <1>5
  <2> QED BY <1>7, <2>1 DEF Request, Requests, Later
<1> QED BY <1>6, <1>7

\* What results are judged by is as it was.
Calm(c, e) ==
  /\ e.chain = c.chain /\ e.sync = c.sync /\ e.emitted = c.emitted /\ e.text = c.text
  /\ e.active = c.active /\ e.cur = c.cur /\ e.finished = c.finished /\ e.gen = c.gen
  /\ e.turnGen = c.turnGen

\* So they are due as they were.
LEMMA CalmKeeps ==
  ASSUME NEW c, NEW e, Calm(c, e), NEW l, NEW h
  PROVE  /\ ResultsOk(c, l, h) => ResultsOk(e, l, h)
         /\ LastOk(c, l, h) => LastOk(e, l, h)
         /\ DueOk(c, l, h) => DueOk(e, l, h)
<1>1. ResultsOk(c, l, h) => ResultsOk(e, l, h)
  BY DEF Calm, ResultsOk
<1>2. LastOk(c, l, h) => LastOk(e, l, h)
  BY DEF Calm, LastOk, Doomed
<1>3. DueOk(c, l, h) => DueOk(e, l, h)
  BY DEF Calm, DueOk, Doomed
<1> QED BY <1>1, <1>2, <1>3

\* A turn is to be interrupted.
LEMMA StopHolds ==
  ASSUME NEW g, NEW c, NEW a, NEW W, NEW l, Holds(g, c, a, W, l),
         NEW r \in Reqs, r.kind \in {"stop", "late"}, r.turn # 0,
         "crossed" \notin l.odd => Withdrawn(c, l.turns, r.turn)
  PROVE  Holds(g, Request(c, r), a, W, l)
<1>1. /\ DriverOk(c) /\ c \in DriverRecord /\ c.waiting \in Seq(Reqs) /\ c.stdin \in Seq(Reqs)
      /\ c.micro \in Seq(Micros)
  BY DriverTypes DEF Holds
<1>2. CASE ~c.pipe
  <2> DEFINE x == Micro(r, FALSE, 0)
  <2>1. x \in Micros /\ x.req = r
    BY DEF Micro, Micros
  <2>2. Fits(c, W, l.turns, x)
    BY <2>1 DEF Fits
  <2>3. Request(c, r) = Later(c, x)
    BY <1>1, <1>2, RequestIs
  <2> QED BY <2>2, <2>3, MicroHolds
<1>3. CASE c.pipe
  <2> DEFINE w == Append(c.waiting, r)
             s == Append(c.stdin, r)
             e == Request(c, r)
  <2>1. /\ w \in Seq(Reqs) /\ s \in Seq(Reqs)
        /\ ThinOn(c.stdin, Asking(c.stdin), s, Asking(s))
        /\ ThinOn(c.waiting, Asking(c.waiting), w, Asking(w))
        /\ \A i \in 1..Len(w) : w[i] = r \/ (i \in 1..Len(c.waiting) /\ w[i] = c.waiting[i])
        /\ \A i \in 1..Len(s) : s[i] = r \/ (i \in 1..Len(c.stdin) /\ s[i] = c.stdin[i])
    BY <1>1, AppendAt, RequestsThin
  <2>2. e = [c EXCEPT !.waiting = w, !.stdin = s]
    BY <1>1, <1>3, RequestIs
  <2> HIDE DEF e, w, s
  <2>3. e \in DriverRecord /\ e.waiting = w /\ e.stdin = s
    BY <1>1, <2>1, <2>2 DEF DriverRecord
  <2>4. Calm(c, e)
    BY <1>1, <2>2 DEF DriverRecord, Calm
  <2>5. /\ e.openings = c.openings /\ e.said = c.said /\ e.exited = c.exited
        /\ e.steers = c.steers /\ e.micro = c.micro /\ e.chunk = c.chunk /\ e.pipe = c.pipe
        /\ e.over = c.over /\ e.state = c.state
    BY <1>1, <2>2 DEF DriverRecord
  <2>6. DriverOk(e)
    <3>1. \A i \in 1..Len(w) : w[i].kind \in Asks
      BY <1>1, <2>1 DEF DriverOk, Asks
    <3>2. ~c.exited
      BY <1>1, <1>3 DEF DriverOk
    <3>3. \A i \in 1..Len(s) : s[i].kind \in {"stop", "late"} => s[i].turn # 0
      BY <1>1, <2>1 DEF DriverOk
    <3> QED BY <1>1, <2>3, <2>4, <2>5, <3>1, <3>2, <3>3 DEF DriverOk, Calm
  <2>7. Shrinks(c, e)
    <3>1. ThinOn(c.micro, Answering(c.micro), e.micro, Answering(e.micro))
      BY <1>1, <2>5, MicrosThin
    <3>2. c.gen <= e.gen
      BY <1>1, <2>4, DriverTypes DEF Calm
    <3> QED BY <2>1, <2>3, <2>4, <2>5, <3>1, <3>2 DEF Shrinks, Calm
  <2>8. /\ OpeningsOk(e) /\ AppOk(e, a, W, l.turns) /\ TurnsOk(e, l.turns)
        /\ AnswersOk(e, W, l.turns) /\ Lively(e, a, W, l.turns, g)
    BY <2>6, <2>7, ShrinksKeeps, Zenon DEF Holds
  <2>9. Clean(e, a, W, l, g[0])
    <3> SUFFICES ASSUME "crossed" \notin l.odd
                 PROVE  /\ g[0] <= Len(l.turns)
                        /\ ResultsOk(e, l, g[0]) /\ LastOk(e, l, g[0]) /\ DueOk(e, l, g[0])
                        /\ StopsOk(e, a, W, l.turns)
      BY DEF Clean
    <3>1. /\ g[0] <= Len(l.turns)
          /\ ResultsOk(c, l, g[0]) /\ LastOk(c, l, g[0]) /\ DueOk(c, l, g[0])
          /\ StopsOk(c, a, W, l.turns)
      BY DEF Holds, Clean
    <3>2. StopsOk(e, a, W, l.turns)
      BY <2>1, <2>3, <2>4, <3>1 DEF StopsOk, Calm, Withdrawn
    <3> QED BY <2>4, <3>1, <3>2, CalmKeeps
  <2> QED BY <2>6, <2>8, <2>9 DEF Holds, e
<1> QED BY <1>2, <1>3

\* Messages that may steer: each is nowhere but here.
Fresh(c, W, T, rs) ==
  /\ rs \in Seq(Reqs) /\ \A i \in 1..Len(rs) : rs[i].kind = "steer"
  /\ ~c.exited =>
       /\ \A i, j \in 1..Len(rs) : rs[i].m = rs[j].m => i = j
       /\ \A i \in 1..Len(rs) :
            rs[i].m <= c.said /\ rs[i].m \notin Opened(c, W, T) \union Steers(c)

\* They are asked to, of the app-server.
LEMMA SteersAsk ==
  ASSUME NEW g, NEW c, NEW a, NEW W, NEW l, Holds(g, c, a, W, l), NEW rs,
         Fresh(c, W, l.turns, rs), c.pipe
  PROVE  Holds(g, [c EXCEPT !.waiting = @ \o rs, !.stdin = @ \o rs], a, W, l)
<1> DEFINE T == l.turns
           w == c.waiting \o rs
           s == c.stdin \o rs
           M == {rs[i].m : i \in 1..Len(rs)}
           n == Len(c.waiting)
           e == [c EXCEPT !.waiting = w, !.stdin = s]
<1>1. /\ DriverOk(c) /\ c \in DriverRecord /\ c.waiting \in Seq(Reqs) /\ c.stdin \in Seq(Reqs)
      /\ rs \in Seq(Reqs) /\ \A i \in 1..Len(rs) : rs[i].kind = "steer"
  BY DriverTypes DEF Holds, Fresh
<1>2. /\ w \in Seq(Reqs) /\ s \in Seq(Reqs) /\ n \in Nat
      /\ \A i \in 1..Len(w) : \/ i \in 1..n /\ w[i] = c.waiting[i]
                              \/ i - n \in 1..Len(rs) /\ i \notin 1..n /\ w[i] = rs[i - n]
      /\ \A i \in 1..Len(s) :
           \/ i \in 1..Len(c.stdin) /\ s[i] = c.stdin[i]
           \/ i \notin 1..Len(c.stdin) /\ \E k \in 1..Len(rs) : s[i] = rs[k]
      /\ \A i \in 1..Len(c.stdin) : i \in 1..Len(s) /\ s[i] = c.stdin[i]
  <2>1. /\ w \in Seq(Reqs) /\ n \in Nat
        /\ \A i \in 1..Len(w) : \/ i \in 1..n /\ w[i] = c.waiting[i]
                                \/ i - n \in 1..Len(rs) /\ i \notin 1..n /\ w[i] = rs[i - n]
    BY <1>1, JoinAt
  <2>2. /\ s \in Seq(Reqs)
        /\ \A i \in 1..Len(s) :
             \/ i \in 1..Len(c.stdin) /\ s[i] = c.stdin[i]
             \/ /\ i - Len(c.stdin) \in 1..Len(rs) /\ i \notin 1..Len(c.stdin)
                /\ s[i] = rs[i - Len(c.stdin)]
        /\ \A i \in 1..Len(c.stdin) : i \in 1..Len(s) /\ s[i] = c.stdin[i]
    BY <1>1, JoinAt
  <2> HIDE DEF w, s
  <2> QED BY <2>1, <2>2
<1> HIDE DEF e, w, s, n
<1>3. e \in DriverRecord /\ e.waiting = w /\ e.stdin = s
  BY <1>1, <1>2 DEF DriverRecord, e
<1>4. Calm(c, e)
  BY <1>1 DEF DriverRecord, Calm, e
<1>5. /\ e.openings = c.openings /\ e.said = c.said /\ e.exited = c.exited
      /\ e.steers = c.steers /\ e.micro = c.micro /\ e.chunk = c.chunk /\ e.pipe = c.pipe
      /\ e.over = c.over /\ e.state = c.state
  BY <1>1 DEF DriverRecord, e
<1>6. ~c.exited
  BY <1>1 DEF DriverOk
<1>7. DriverOk(e)
  <2>1. \A i \in 1..Len(w) : w[i].kind \in Asks
    <3>1. \A i \in 1..n : c.waiting[i].kind \in Asks
      BY <1>1 DEF DriverOk, n
    <3>2. \A i \in 1..Len(rs) : rs[i].kind \in Asks
      BY <1>1 DEF Asks
    <3> QED BY <1>2, <3>1, <3>2
  <2>2. \A i \in 1..Len(s) : s[i].kind \in {"stop", "late"} => s[i].turn # 0
    <3>1. \A i \in 1..Len(c.stdin) :
            c.stdin[i].kind \in {"stop", "late"} => c.stdin[i].turn # 0
      BY <1>1 DEF DriverOk
    <3>2. \A i \in 1..Len(rs) : rs[i].kind \notin {"stop", "late"}
      BY <1>1
    <3> QED BY <1>2, <3>1, <3>2
  <2> QED BY <1>1, <1>3, <1>4, <1>5, <1>6, <2>1, <2>2 DEF DriverOk, Calm
<1>8. OpeningsOk(e) /\ AppOk(e, a, W, T) /\ TurnsOk(e, T) /\ AnswersOk(e, W, T) /\ IdleOk(e, T)
  <2>1. OpeningsOk(e)
    BY <1>4, <1>5 DEF Holds, OpeningsOk, Calm
  <2>2. AppOk(e, a, W, T) /\ TurnsOk(e, T)
    BY <1>4, <1>5 DEF Holds, AppOk, TurnsOk, Calm
  <2>3. AnswersOk(e, W, T)
    BY <1>4, <1>5 DEF Holds, AnswersOk, Calm
  <2>4. IdleOk(e, T)
    BY <1>4, <1>5, <1>6 DEF Holds, IdleOk, Calm, Lively
  <2> QED BY <2>1, <2>2, <2>3, <2>4
<1>9. Clean(e, a, W, l, g[0])
  <2> SUFFICES ASSUME "crossed" \notin l.odd
               PROVE  /\ g[0] <= Len(T)
                      /\ ResultsOk(e, l, g[0]) /\ LastOk(e, l, g[0]) /\ DueOk(e, l, g[0])
                      /\ StopsOk(e, a, W, T)
    BY DEF Clean
  <2>1. /\ g[0] <= Len(T)
        /\ ResultsOk(c, l, g[0]) /\ LastOk(c, l, g[0]) /\ DueOk(c, l, g[0])
        /\ StopsOk(c, a, W, T)
    BY DEF Holds, Clean
  <2>2. \A i \in 1..Len(s) : s[i].kind \in {"stop", "late"} =>
          i \in 1..Len(c.stdin) /\ s[i] = c.stdin[i]
    BY <1>1, <1>2
  <2>3. StopsOk(e, a, W, T)
    BY <1>3, <1>4, <2>1, <2>2 DEF StopsOk, Calm, Withdrawn
  <2> QED BY <1>4, <2>1, <2>3, CalmKeeps
<1>10. Starting(s) = Starting(c.stdin) /\ \A k \in Starting(s) : s[k] = c.stdin[k]
  BY <1>1, <1>2 DEF Starting
<1>11. LinedUp(e.openings, Wanted(T, e.stdin, g[0]))
  <2>1. Wanted(T, s, g[0]) = Wanted(T, c.stdin, g[0])
    BY <1>10 DEF Wanted
  <2> QED BY <1>3, <1>5, <1>6, <2>1 DEF Holds, Lively
<1>12. MessagesOk(e, W, T)
  <2>1. MessagesOk(c, W, T)
    BY <1>6 DEF Holds, Lively
  <2>2. Started(s) = Started(c.stdin)
    BY <1>10 DEF Started
  <2>3. Opened(e, W, T) = Opened(c, W, T) /\ Refused(e, W) = Refused(c, W) /\ Kept(e) = Kept(c)
    BY <1>3, <1>5, <2>2 DEF Opened, Refused, Kept
  <2>4. \A i \in Steering(w) : \/ i \in Steering(c.waiting) /\ w[i] = c.waiting[i]
                               \/ i - n \in 1..Len(rs) /\ i \notin 1..n /\ w[i] = rs[i - n]
    BY <1>2 DEF Steering, n
  <2>5. Steered(w) \subseteq Steered(c.waiting) \union M
    BY <2>4 DEF Steered
  <2>6. M \intersect Steers(c) = {} /\ M \intersect Opened(c, W, T) = {} /\ \A m \in M : m <= c.said
    BY <1>6 DEF Fresh
  <2>7. Steers(e) \subseteq Steers(c) \union M
    BY <1>3, <1>5, <2>3, <2>5 DEF Steers
  <2>8. ASSUME NEW i \in Steering(w), NEW j \in Steering(w), w[i].m = w[j].m PROVE i = j
    <3>1. \A x, y \in Steering(c.waiting) : c.waiting[x].m = c.waiting[y].m => x = y
      BY <2>1 DEF MessagesOk, OnePlace
    <3>2. \A x \in Steering(c.waiting) : c.waiting[x].m \notin M
      BY <2>6 DEF Steers, Steered
    <3>3. \A x, y \in 1..Len(rs) : rs[x].m = rs[y].m => x = y
      BY <1>6 DEF Fresh
    <3>4. i \in Nat /\ j \in Nat
      BY DEF Steering
    <3>5. i - n = j - n => i = j
      BY <1>2, <3>4
    <3> QED BY <2>4, <2>8, <3>1, <3>2, <3>3, <3>5
  <2>9. OnePlace(e)
    <3>1. OnePlace(c)
      BY <2>1 DEF MessagesOk
    <3>2. M \intersect Kept(c) = {} /\ M \intersect Told(c.micro) = {}
      BY <2>6 DEF Steers
    <3>3. Kept(c) \intersect Steered(w) = {} /\ Steered(w) \intersect Told(c.micro) = {}
      BY <2>5, <3>1, <3>2 DEF OnePlace
    <3> QED BY <1>3, <1>5, <2>3, <2>8, <3>1, <3>3 DEF OnePlace
  <2> QED BY <1>3, <1>5, <2>1, <2>2, <2>3, <2>6, <2>7, <2>9 DEF MessagesOk
<1>13. Lively(e, a, W, T, g)
  BY <1>5, <1>8, <1>11, <1>12 DEF Holds, Lively
<1> QED BY <1>7, <1>8, <1>9, <1>13 DEF Holds, e, w, s

\* Requests that are rejected.
LEMMA RejectionsAre ==
  ASSUME NEW rs \in Seq(Reqs)
  PROVE  /\ Rejections(rs) \in Seq(Micros) /\ Len(Rejections(rs)) = Len(rs)
         /\ \A i \in 1..Len(rs) : Rejections(rs)[i].req = rs[i] /\ ~Rejections(rs)[i].ok
<1> DEFINE q == Rejections(rs)
<1>1. q = [k \in 1..Len(rs) |-> Micro(rs[k], FALSE, 0)] /\ Len(rs) \in Nat
  BY DEF Rejections
<1>2. \A k \in 1..Len(rs) : rs[k] \in Reqs
  OBVIOUS
<1>3. \A r \in Reqs : Micro(r, FALSE, 0) \in Micros /\ Micro(r, FALSE, 0).req = r
                      /\ ~Micro(r, FALSE, 0).ok
  BY DEF Micro, Micros
<1>4. \A k \in 1..Len(rs) : q[k] \in Micros /\ q[k].req = rs[k] /\ ~q[k].ok
  BY <1>1, <1>2, <1>3
<1>5. q \in [1..Len(rs) -> Micros]
  BY <1>1, <1>4
<1>6. Len(rs) \in Nat
  OBVIOUS
<1> HIDE DEF q
<1>7. q \in Seq(Micros) /\ Len(q) = Len(rs)
  BY <1>5, <1>6
<1> QED BY <1>4, <1>7, Zenon DEF q

\* They are refused at once, the app-server being closed or gone.
LEMMA SteersFail ==
  ASSUME NEW g, NEW c, NEW a, NEW W, NEW l, Holds(g, c, a, W, l), NEW rs,
         Fresh(c, W, l.turns, rs)
  PROVE  Holds(g, [c EXCEPT !.micro = @ \o Rejections(rs)], a, W, l)
<1> DEFINE T == l.turns
           q == Rejections(rs)
           p == c.micro \o q
           M == {rs[i].m : i \in 1..Len(rs)}
           n == Len(c.micro)
           e == [c EXCEPT !.micro = p]
<1>1. /\ DriverOk(c) /\ c \in DriverRecord /\ c.micro \in Seq(Micros)
      /\ rs \in Seq(Reqs) /\ \A i \in 1..Len(rs) : rs[i].kind = "steer"
  BY DriverTypes DEF Holds, Fresh
<1>2. /\ q \in Seq(Micros) /\ Len(q) = Len(rs)
      /\ \A i \in 1..Len(rs) : q[i].req = rs[i] /\ ~q[i].ok
  BY <1>1, RejectionsAre
<1> HIDE DEF q
<1>3. /\ p \in Seq(Micros) /\ n \in Nat
      /\ \A i \in 1..Len(p) :
           \/ i \in 1..n /\ p[i] = c.micro[i]
           \/ /\ i - n \in 1..Len(rs) /\ i \notin 1..n /\ p[i].req = rs[i - n] /\ ~p[i].ok
      /\ c.micro # <<>> => p # <<>>
  BY <1>1, <1>2, JoinAt
<1> HIDE DEF e, p, n
<1>4. e \in DriverRecord /\ e.micro = p /\ Alike(c, e)
  BY <1>1, <1>3 DEF DriverRecord, Alike, e
<1>5. /\ e.chain = c.chain /\ e.chunk = c.chunk /\ e.pipe = c.pipe
      /\ e.finished = c.finished /\ e.over = c.over /\ e.cur = c.cur /\ e.active = c.active
      /\ e.text = c.text /\ e.state = c.state /\ e.emitted = c.emitted /\ e.sync = c.sync
  BY <1>1 DEF DriverRecord, e
<1>6. \A i \in 1..Len(p) : p[i].req.kind # "steer" => i \in 1..n /\ p[i] = c.micro[i]
  BY <1>1, <1>3
<1>7. DriverOk(e)
  <2>1. \A i \in 1..n : c.micro[i].req.kind = "chain" =>
          /\ c.chain # <<>> /\ c.sync = "none"
          /\ \A j \in 1..n : c.micro[j].req.kind = "chain" => i = j
    BY <1>1 DEF DriverOk, n
  <2>2. \A i \in 1..Len(p) : p[i].req.kind = "chain" =>
          /\ c.chain # <<>> /\ c.sync = "none"
          /\ \A j \in 1..Len(p) : p[j].req.kind = "chain" => i = j
    BY <1>6, <2>1
  <2> QED BY <1>1, <1>3, <1>4, <1>5, <2>2 DEF DriverOk, Alike
<1>8. OpeningsOk(e) /\ AppOk(e, a, W, T) /\ TurnsOk(e, T)
  BY <1>4, <1>5 DEF Holds, OpeningsOk, AppOk, TurnsOk, Alike
<1>9. AnswersOk(e, W, T)
  <2>1. AnswersOk(c, W, T)
    BY DEF Holds
  <2>2. \A i \in 1..Len(p) : p[i].req.kind = "start" /\ p[i].ok =>
          p[i].turn \in 1..Len(T) /\ T[p[i].turn] = Opens(p[i].req)
    BY <1>6, <2>1 DEF AnswersOk, n
  <2> QED BY <1>4, <2>1, <2>2 DEF AnswersOk
<1>10. Clean(e, a, W, l, g[0])
  <2>1. Mild(c, e)
    BY <1>4, <1>5 DEF Mild, Alike, ResultsIn, StopsIn, Doomed
  <2> QED BY <2>1, MildKeeps DEF Holds
<1>11. ASSUME ~c.exited PROVE MessagesOk(e, W, T) /\ IdleOk(e, T)
  <2>1. MessagesOk(c, W, T) /\ IdleOk(c, T)
    BY <1>11 DEF Holds, Lively
  <2>2. Refused(e, W) \subseteq Refused(c, W)
    <3> DEFINE F(u) == {k \in 1..Len(u) : u[k].req.kind = "start" /\ ~u[k].ok}
    <3>1. \A i \in F(p) : i \in F(c.micro) /\ p[i] = c.micro[i]
      BY <1>6 DEF n
    <3> QED BY <1>4, <3>1 DEF Refused
  <2>3. Opened(e, W, T) \subseteq Opened(c, W, T) /\ Kept(e) = Kept(c)
    BY <1>4, <2>2 DEF Opened, Kept, Alike
  <2>4. \A i \in Settled(p) :
          \/ i \in Settled(c.micro) /\ p[i] = c.micro[i]
          \/ i - n \in 1..Len(rs) /\ i \notin 1..n /\ p[i].req = rs[i - n]
    BY <1>3 DEF Settled, n
  <2>5. Told(p) \subseteq Told(c.micro) \union M
    BY <2>4 DEF Told
  <2>6. M \intersect Steers(c) = {} /\ M \intersect Opened(c, W, T) = {} /\ \A m \in M : m <= c.said
    BY <1>11 DEF Fresh
  <2>7. Steers(e) \subseteq Steers(c) \union M
    BY <1>4, <2>3, <2>5 DEF Steers, Alike
  <2>8. ASSUME NEW i \in Settled(p), NEW j \in Settled(p), p[i].req.m = p[j].req.m PROVE i = j
    <3>1. \A x, y \in Settled(c.micro) : c.micro[x].req.m = c.micro[y].req.m => x = y
      BY <2>1 DEF MessagesOk, OnePlace
    <3>2. \A x \in Settled(c.micro) : c.micro[x].req.m \notin M
      BY <2>6 DEF Steers, Told
    <3>3. \A x, y \in 1..Len(rs) : rs[x].m = rs[y].m => x = y
      BY <1>11 DEF Fresh
    <3>4. i \in Nat /\ j \in Nat
      BY DEF Settled
    <3>5. i - n = j - n => i = j
      BY <1>3, <3>4
    <3> QED BY <2>4, <2>8, <3>1, <3>2, <3>3, <3>5
  <2>9. OnePlace(e)
    <3>1. OnePlace(c)
      BY <2>1 DEF MessagesOk
    <3>2. M \intersect Kept(c) = {} /\ M \intersect Steered(c.waiting) = {}
      BY <2>6 DEF Steers
    <3>3. Kept(c) \intersect Told(p) = {} /\ Steered(c.waiting) \intersect Told(p) = {}
      BY <2>5, <3>1, <3>2 DEF OnePlace
    <3> QED BY <1>4, <2>3, <2>8, <3>1, <3>3 DEF OnePlace, Alike
  <2>10. MessagesOk(e, W, T)
    <3>1. Started(e.stdin) = Started(c.stdin) /\ e.said = c.said
      BY <1>4 DEF Alike
    <3> QED BY <2>1, <2>2, <2>3, <2>6, <2>7, <2>9, <3>1 DEF MessagesOk
  <2>11. IdleOk(e, T)
    <3>1. ASSUME e.state = "idle"
          PROVE  \A i \in 1..Len(p) :
                   p[i].req.kind = "start" /\ p[i].ok /\ p[i].req.gen = c.gen =>
                     Has(c.openings, T[p[i].turn])
      BY <1>5, <1>6, <2>1, <3>1 DEF IdleOk, n
    <3> QED BY <1>4, <1>5, <2>1, <3>1 DEF IdleOk, Alike
  <2> QED BY <2>10, <2>11
<1>12. Lively(e, a, W, T, g)
  BY <1>4, <1>11 DEF Holds, Lively, Alike
<1> QED BY <1>7, <1>8, <1>9, <1>10, <1>12 DEF Holds, e, p, q

\* So whatever becomes of them.
LEMMA SteersHold ==
  ASSUME NEW g, NEW c, NEW a, NEW W, NEW l, Holds(g, c, a, W, l), NEW rs,
         Fresh(c, W, l.turns, rs)
  PROVE  Holds(g, Requests(c, rs), a, W, l)
<1>1. CASE c.pipe
  BY <1>1, SteersAsk DEF Requests
<1>2. CASE ~c.pipe
  BY <1>2, SteersFail DEF Requests
<1> QED BY <1>1, <1>2

\* The steers kept are asked for, once a turn is live.
LEMMA FlushHolds ==
  ASSUME NEW g, NEW c, NEW a, NEW W, NEW l, Holds(g, c, a, W, l)
  PROVE  Holds(g, FlushSteers(c), a, W, l)
<1> DEFINE e == [c EXCEPT !.steers = <<>>]
           rs == [k \in DOMAIN c.steers |-> Steer(c, c.steers[k])]
<1>1. DriverOk(c) /\ c \in DriverRecord /\ c.steers \in Seq(Nat) /\ c.gen \in Nat /\ c.cur \in Nat
  BY DriverTypes DEF Holds
<1>2. <<>> \in Seq(Nat)
  OBVIOUS
<1>3. e \in DriverRecord /\ e.steers = <<>>
  BY <1>1, <1>2 DEF DriverRecord
<1>4. Calm(c, e)
  BY <1>1 DEF DriverRecord, Calm
<1>5. /\ e.openings = c.openings /\ e.said = c.said /\ e.exited = c.exited
      /\ e.waiting = c.waiting /\ e.stdin = c.stdin /\ e.micro = c.micro
      /\ e.chunk = c.chunk /\ e.pipe = c.pipe /\ e.over = c.over /\ e.state = c.state
  BY <1>1 DEF DriverRecord
<1>6. /\ rs \in Seq(Reqs) /\ Len(rs) = Len(c.steers)
      /\ \A i \in 1..Len(rs) : rs[i].kind = "steer" /\ rs[i].m = c.steers[i]
  <2>1. rs = [k \in 1..Len(c.steers) |-> Steer(c, c.steers[k])] /\ Len(c.steers) \in Nat
    BY <1>1
  <2>2. \A m \in Nat : Steer(c, m) \in Reqs /\ Steer(c, m).kind = "steer" /\ Steer(c, m).m = m
    BY <1>1 DEF Steer, Req, Reqs, Asks
  <2>3. \A k \in 1..Len(c.steers) : c.steers[k] \in Nat
    BY <1>1
  <2>4. \A k \in 1..Len(c.steers) :
          rs[k] \in Reqs /\ rs[k].kind = "steer" /\ rs[k].m = c.steers[k]
    BY <2>1, <2>2, <2>3
  <2>5. rs \in [1..Len(c.steers) -> Reqs]
    BY <2>1, <2>4
  <2> HIDE DEF rs
  <2>6. rs \in Seq(Reqs) /\ Len(rs) = Len(c.steers)
    BY <2>1, <2>5
  <2> QED BY <2>4, <2>6, Zenon
<1> HIDE DEF e, rs
<1>7. DriverOk(e)
  BY <1>1, <1>3, <1>4, <1>5 DEF DriverOk, Calm
<1>8. Shrinks(c, e)
  <2>1. /\ ThinOn(c.stdin, Asking(c.stdin), e.stdin, Asking(e.stdin))
        /\ ThinOn(c.waiting, Asking(c.waiting), e.waiting, Asking(e.waiting))
        /\ ThinOn(c.micro, Answering(c.micro), e.micro, Answering(e.micro))
    BY <1>1, <1>5, DriverTypes, RequestsThin, MicrosThin
  <2>2. c.gen <= e.gen
    BY <1>1, <1>4 DEF Calm
  <2> QED BY <1>3, <1>4, <1>5, <2>1, <2>2 DEF Shrinks, Calm
<1>9. Mild(c, e)
  BY <1>4, <1>5 DEF Mild, Calm, ResultsIn, StopsIn, Doomed
<1>10. Holds(g, e, a, W, l)
  BY <1>7, <1>8, <1>9, FineKeeps DEF Fine
<1>11. Fresh(e, W, l.turns, rs)
  <2>1. ASSUME ~e.exited PROVE \A i, j \in 1..Len(rs) : rs[i].m = rs[j].m => i = j
    <3>1. \A i, j \in 1..Len(c.steers) : c.steers[i] = c.steers[j] => i = j
      BY <1>5, <2>1 DEF Holds, Lively, MessagesOk, OnePlace
    <3> QED BY <1>6, <3>1
  <2>2. ASSUME ~e.exited, NEW i \in 1..Len(rs)
        PROVE  rs[i].m <= e.said /\ rs[i].m \notin Opened(e, W, l.turns) \union Steers(e)
    <3>1. MessagesOk(c, W, l.turns)
      BY <1>5, <2>2 DEF Holds, Lively
    <3>2. rs[i].m \in Kept(c)
      BY <1>6 DEF Kept
    <3>3. Opened(e, W, l.turns) = Opened(c, W, l.turns)
      BY <1>5 DEF Opened, Refused
    <3>4. Steers(e) = Steered(c.waiting) \union Told(c.micro)
      BY <1>3, <1>5 DEF Steers, Kept
    <3> QED BY <1>5, <3>1, <3>2, <3>3, <3>4 DEF MessagesOk, OnePlace, Steers
  <2> QED BY <1>6, <2>1, <2>2 DEF Fresh
<1>12. Holds(g, Requests(e, rs), a, W, l)
  BY <1>10, <1>11, SteersHold
<1>13. CASE c.cur = 0
  BY <1>13 DEF FlushSteers
<1>14. CASE c.cur # 0
  BY <1>12, <1>14 DEF FlushSteers, e, rs
<1> QED BY <1>13, <1>14

\* A message that is nowhere yet.
New(c, W, T, m) ==
  /\ m \in Nat
  /\ ~c.exited => m <= c.said /\ m \notin Opened(c, W, T) \union Steers(c)

\* A turn is about to be asked for.
LEMMA OpeningHolds ==
  ASSUME NEW g, NEW c, NEW a, NEW W, NEW l, Holds(g, c, a, W, l), NEW m,
         New(c, W, l.turns, m), "crossed" \notin l.odd => ~c.active \/ c.cur = 0
  PROVE  Holds(g, [c EXCEPT !.active = TRUE, !.cur = 0,
                            !.openings = Append(@, [m |-> m, gen |-> c.gen])], a, W, l)
<1> DEFINE T == l.turns
           x == [m |-> m, gen |-> c.gen]
           o == Append(c.openings, x)
           n == Len(c.openings)
           e == [c EXCEPT !.active = TRUE, !.cur = 0, !.openings = o]
<1>1. /\ DriverOk(c) /\ c \in DriverRecord /\ c.openings \in Seq(Openings) /\ c.gen \in Nat
      /\ c.turnGen \in Nat /\ c.turnGen <= c.gen /\ m \in Nat
  BY DriverTypes DEF Holds, DriverOk, New
<1>2. x \in Openings /\ x.m = m /\ x.gen = c.gen
  BY <1>1 DEF Openings
<1>3. /\ o \in Seq(Openings) /\ n \in Nat /\ o[n + 1] = x
      /\ \A i \in 1..n : o[i] = c.openings[i] /\ i \in 1..Len(o)
      /\ \A i \in 1..Len(o) : i \in 1..n \/ i = n + 1
  <2>1. Len(o) = n + 1 /\ n \in Nat
    BY <1>1, <1>2, AppendAt
  <2>2. \A i \in 1..n : i \in 1..Len(o)
    BY <2>1
  <2> QED BY <1>1, <1>2, <2>1, <2>2, AppendAt
<1> HIDE DEF e, o, x, n
<1>4. e \in DriverRecord /\ e.active = TRUE /\ e.cur = 0 /\ e.openings = o
  BY <1>1, <1>3 DEF DriverRecord, e
<1>5. /\ e.chain = c.chain /\ e.sync = c.sync /\ e.emitted = c.emitted /\ e.text = c.text
      /\ e.finished = c.finished /\ e.gen = c.gen /\ e.turnGen = c.turnGen /\ e.state = c.state
      /\ e.over = c.over /\ e.said = c.said
  BY <1>1 DEF DriverRecord, e
<1>6. /\ e.waiting = c.waiting /\ e.stdin = c.stdin /\ e.micro = c.micro /\ e.exited = c.exited
      /\ e.chunk = c.chunk /\ e.pipe = c.pipe /\ e.steers = c.steers
  BY <1>1 DEF DriverRecord, e
<1>7. DriverOk(e)
  BY <1>1, <1>4, <1>5, <1>6 DEF DriverOk
<1>8. OpeningsOk(e)
  <2>1. OpeningsOk(c)
    BY DEF Holds
  <2>2. \A i, j \in 1..Len(o) : i <= j => o[i].gen <= o[j].gen
    <3> SUFFICES ASSUME NEW i \in 1..Len(o), NEW j \in 1..Len(o), i <= j
                 PROVE  o[i].gen <= o[j].gen
      OBVIOUS
    <3>1. CASE j = n + 1
      <4>1. o[j].gen = c.gen
        BY <1>2, <1>3, <3>1
      <4>2. o[i].gen <= c.gen
        <5>1. CASE i = n + 1
          BY <1>1, <1>2, <1>3, <5>1
        <5>2. CASE i \in 1..n
          BY <1>3, <2>1, <5>2 DEF OpeningsOk, n
        <5> QED BY <1>3, <5>1, <5>2
      <4> QED BY <4>1, <4>2
    <3>2. CASE j \in 1..n
      <4>1. i \in 1..n
        BY <1>3, <3>2
      <4> QED BY <1>3, <2>1, <3>2, <4>1 DEF OpeningsOk, n
    <3> QED BY <1>3, <3>1, <3>2
  <2>3. \A i \in 1..Len(o) : c.turnGen <= o[i].gen /\ o[i].gen <= c.gen
    <3>1. c.gen <= c.gen
      BY <1>1
    <3> QED BY <1>1, <1>2, <1>3, <2>1, <3>1 DEF OpeningsOk, n
  <2> QED BY <1>4, <1>5, <2>2, <2>3 DEF OpeningsOk
<1>9. AppOk(e, a, W, T) /\ AnswersOk(e, W, T)
  BY <1>6 DEF Holds, AppOk, AnswersOk
<1>10. TurnsOk(e, T)
  <2>1. Len(T) \in Nat
    BY DEF Holds, AppOk
  <2> QED BY <1>4, <1>5, <2>1 DEF Holds, TurnsOk
<1>11. ASSUME ~c.exited
       PROVE  /\ LinedUp(o, Wanted(T, c.stdin, g[0])) /\ MessagesOk(e, W, T) /\ IdleOk(e, T)
  <2>1. /\ LinedUp(c.openings, Wanted(T, c.stdin, g[0])) /\ MessagesOk(c, W, T) /\ IdleOk(c, T)
    BY <1>11 DEF Holds, Lively
  <2>2. m <= c.said /\ m \notin Opened(c, W, T) /\ m \notin Steers(c)
    BY <1>11 DEF New
  <2>3. \A i \in 1..n : c.openings[i].m # m
    BY <2>2 DEF Opened, n
  <2>4. LinedUp(o, Wanted(T, c.stdin, g[0]))
    <3>1. \A v \in Wanted(T, c.stdin, g[0]) : \E i \in 1..n : c.openings[i] = v.o
      BY <2>1 DEF LinedUp, n
    <3>2. \A v \in Wanted(T, c.stdin, g[0]) : \E i \in 1..Len(o) : o[i] = v.o
      BY <1>3, <3>1
    <3>3. \A v \in Wanted(T, c.stdin, g[0]), i \in 1..Len(o) : o[i].m = v.o.m => i \in 1..n
      BY <1>2, <1>3, <2>3, <3>1
    <3>4. ASSUME NEW v \in Wanted(T, c.stdin, g[0]), NEW w \in Wanted(T, c.stdin, g[0]),
                 v.rank < w.rank, NEW i \in 1..Len(o), NEW j \in 1..Len(o),
                 o[i].m = v.o.m, o[j].m = w.o.m
          PROVE  i < j
      <4>1. i \in 1..n /\ j \in 1..n
        BY <3>3, <3>4
      <4>2. c.openings[i].m = v.o.m /\ c.openings[j].m = w.o.m
        BY <1>3, <3>4, <4>1
      <4> QED BY <2>1, <3>4, <4>1, <4>2 DEF LinedUp, n
    <3> QED BY <3>2, <3>4 DEF LinedUp
  <2>5. MessagesOk(e, W, T)
    <3>1. {o[i].m : i \in 1..Len(o)} \subseteq {c.openings[i].m : i \in 1..n} \union {m}
      BY <1>2, <1>3
    <3>2. Opened(e, W, T) \subseteq Opened(c, W, T) \union {m} /\ Refused(e, W) = Refused(c, W)
      <4>1. Refused(e, W) = Refused(c, W) /\ Started(e.stdin) = Started(c.stdin)
        BY <1>6 DEF Refused
      <4>2. {e.openings[i].m : i \in 1..Len(e.openings)}
              \subseteq {c.openings[i].m : i \in 1..Len(c.openings)} \union {m}
        BY <1>4, <3>1 DEF n
      <4> QED BY <4>1, <4>2 DEF Opened
    <3>3. Steers(e) = Steers(c) /\ Started(e.stdin) = Started(c.stdin)
      BY <1>6 DEF Steers, Kept
    <3>4. \A i, j \in 1..Len(o) : o[i].m = o[j].m => i = j
      <4>1. \A i, j \in 1..n : c.openings[i].m = c.openings[j].m => i = j
        BY <2>1 DEF MessagesOk, OnePlace, n
      <4> QED BY <1>2, <1>3, <2>3, <4>1
    <3>5. OnePlace(e)
      BY <1>4, <1>6, <2>1, <3>4 DEF MessagesOk, OnePlace, Kept
    <3> QED BY <1>5, <2>1, <2>2, <3>2, <3>3, <3>5 DEF MessagesOk
  <2>6. IdleOk(e, T)
    <3>1. \A y : Has(c.openings, y) => Has(o, y)
      BY <1>3 DEF Has, n
    <3> QED BY <1>4, <1>5, <1>6, <2>1, <3>1 DEF IdleOk
  <2> QED BY <2>4, <2>5, <2>6
<1>12. Lively(e, a, W, T, g)
  BY <1>4, <1>6, <1>11 DEF Holds, Lively
<1>13. Clean(e, a, W, l, g[0])
  <2> SUFFICES ASSUME "crossed" \notin l.odd
               PROVE  /\ g[0] <= Len(T)
                      /\ ResultsOk(e, l, g[0]) /\ LastOk(e, l, g[0]) /\ DueOk(e, l, g[0])
                      /\ StopsOk(e, a, W, T)
    BY DEF Clean
  <2>1. /\ g[0] <= Len(T)
        /\ ResultsOk(c, l, g[0]) /\ LastOk(c, l, g[0]) /\ DueOk(c, l, g[0])
        /\ StopsOk(c, a, W, T)
    BY DEF Holds, Clean
  <2>2. ResultsOk(e, l, g[0])
    BY <1>5, <2>1 DEF ResultsOk
  <2>3. Doomed(e) <=> Doomed(c)
    BY <1>5 DEF Doomed
  <2>4. g[0] # 0 => ~(c.active /\ c.cur = g[0])
    OBVIOUS
  <2>5. LastOk(e, l, g[0])
    BY <1>5, <2>1, <2>3, <2>4 DEF LastOk
  <2>6. DueOk(e, l, g[0])
    BY <1>5, <2>1, <2>3 DEF DueOk
  <2>7. StopsOk(e, a, W, T)
    BY <1>5, <1>6, <2>1 DEF StopsOk, Withdrawn
  <2> QED BY <2>1, <2>2, <2>5, <2>6, <2>7
<1> QED BY <1>7, <1>8, <1>9, <1>10, <1>12, <1>13 DEF Holds, e, o, x

\* It is asked for, of the app-server.
LEMMA StartAsks ==
  ASSUME NEW g, NEW c, NEW a, NEW W, NEW l, Holds(g, c, a, W, l), c.pipe,
         NEW r \in Reqs, r.kind = "start", c.openings # <<>>,
         c.openings[Len(c.openings)] = Opens(r), r.m <= c.said,
         r.m \notin Steers(c) \union Refused(c, W),
         r.m \notin Turned(l.turns) \union Started(c.stdin)
  PROVE  Holds(g, [c EXCEPT !.waiting = Append(@, r), !.stdin = Append(@, r)], a, W, l)
<1> DEFINE T == l.turns
           w == Append(c.waiting, r)
           s == Append(c.stdin, r)
           n == Len(c.stdin)
           e == [c EXCEPT !.waiting = w, !.stdin = s]
<1>1. /\ DriverOk(c) /\ c \in DriverRecord /\ c.waiting \in Seq(Reqs) /\ c.stdin \in Seq(Reqs)
      /\ c.openings \in Seq(Openings)
  BY DriverTypes DEF Holds
<1>2. /\ w \in Seq(Reqs) /\ s \in Seq(Reqs) /\ n \in Nat /\ s[n + 1] = r /\ n + 1 \in 1..Len(s)
      /\ \A i \in 1..Len(w) : w[i] = r \/ (i \in 1..Len(c.waiting) /\ w[i] = c.waiting[i])
      /\ \A i \in 1..Len(s) : i = n + 1 \/ (i \in 1..n /\ s[i] = c.stdin[i])
      /\ \A i \in 1..n : i \in 1..Len(s) /\ s[i] = c.stdin[i]
  <2>1. Len(s) = n + 1 /\ n \in Nat
    BY <1>1, AppendAt
  <2>2. n + 1 \in 1..Len(s) /\ \A i \in 1..n : i \in 1..Len(s)
    BY <2>1
  <2> QED BY <1>1, <2>1, <2>2, AppendAt
<1> HIDE DEF e, w, s, n
<1>3. e \in DriverRecord /\ e.waiting = w /\ e.stdin = s
  BY <1>1, <1>2 DEF DriverRecord, e
<1>4. Calm(c, e)
  BY <1>1 DEF DriverRecord, Calm, e
<1>5. /\ e.openings = c.openings /\ e.said = c.said /\ e.exited = c.exited
      /\ e.steers = c.steers /\ e.micro = c.micro /\ e.chunk = c.chunk /\ e.pipe = c.pipe
      /\ e.over = c.over /\ e.state = c.state
  BY <1>1 DEF DriverRecord, e
<1>6. ~c.exited
  BY <1>1 DEF DriverOk
<1>7. DriverOk(e)
  <2>1. \A i \in 1..Len(w) : w[i].kind \in Asks
    BY <1>1, <1>2 DEF DriverOk, Asks
  <2>2. \A i \in 1..Len(s) : s[i].kind \in {"stop", "late"} => s[i].turn # 0
    BY <1>1, <1>2 DEF DriverOk, n
  <2> QED BY <1>1, <1>3, <1>4, <1>5, <1>6, <2>1, <2>2 DEF DriverOk, Calm
<1>8. OpeningsOk(e) /\ AppOk(e, a, W, T) /\ TurnsOk(e, T) /\ AnswersOk(e, W, T) /\ IdleOk(e, T)
  <2>1. OpeningsOk(e)
    BY <1>4, <1>5 DEF Holds, OpeningsOk, Calm
  <2>2. AppOk(e, a, W, T) /\ TurnsOk(e, T)
    BY <1>4, <1>5 DEF Holds, AppOk, TurnsOk, Calm
  <2>3. AnswersOk(e, W, T)
    BY <1>4, <1>5 DEF Holds, AnswersOk, Calm
  <2>4. IdleOk(e, T)
    BY <1>4, <1>5, <1>6 DEF Holds, IdleOk, Calm, Lively
  <2> QED BY <2>1, <2>2, <2>3, <2>4
<1>9. Clean(e, a, W, l, g[0])
  <2> SUFFICES ASSUME "crossed" \notin l.odd
               PROVE  /\ g[0] <= Len(T)
                      /\ ResultsOk(e, l, g[0]) /\ LastOk(e, l, g[0]) /\ DueOk(e, l, g[0])
                      /\ StopsOk(e, a, W, T)
    BY DEF Clean
  <2>1. /\ g[0] <= Len(T)
        /\ ResultsOk(c, l, g[0]) /\ LastOk(c, l, g[0]) /\ DueOk(c, l, g[0])
        /\ StopsOk(c, a, W, T)
    BY DEF Holds, Clean
  <2>2. \A i \in 1..Len(s) : s[i].kind \in {"stop", "late"} =>
          i \in 1..Len(c.stdin) /\ s[i] = c.stdin[i]
    BY <1>1, <1>2 DEF n
  <2>3. StopsOk(e, a, W, T)
    BY <1>3, <1>4, <2>1, <2>2 DEF StopsOk, Calm, Withdrawn
  <2> QED BY <1>4, <2>1, <2>3, CalmKeeps
<1>10. LinedUp(c.openings, Wanted(T, c.stdin, g[0])) /\ MessagesOk(c, W, T)
  BY <1>6 DEF Holds, Lively
<1>11. Starting(s) = Starting(c.stdin) \union {n + 1} /\ \A k \in Starting(c.stdin) : s[k] = c.stdin[k]
  BY <1>1, <1>2 DEF Starting, n
<1>12. LinedUp(c.openings, Wanted(T, s, g[0]))
  <2> DEFINE V == Wanted(T, c.stdin, g[0])
             new == [rank |-> Len(T) + (n + 1), o |-> Opens(r)]
             B(S, k) == [rank |-> Len(T) + k, o |-> Opens(S[k])]
             last == Len(c.openings)
  <2>1. Wanted(T, s, g[0]) \subseteq V \union {new}
    <3>1. \A k \in Starting(s) : B(s, k) = new \/ (k \in Starting(c.stdin) /\ B(s, k) = B(c.stdin, k))
      BY <1>2, <1>11
    <3> HIDE DEF new, B
    <3>2. \A S : Wanted(T, S, g[0]) =
            {[rank |-> x, o |-> T[x]] : x \in (g[0] + 1)..Len(T)} \union {B(S, k) : k \in Starting(S)}
      BY DEF Wanted, B
    <3> QED BY <3>1, <3>2
  <2>2. \A v \in V : v.o.m # r.m /\ v.rank \in Nat /\ v.rank < new.rank
    <3>1. Len(T) \in Nat
      BY DEF Holds, AppOk
    <3>2. \A x \in (g[0] + 1)..Len(T) : T[x].m \in Turned(T) /\ x \in Nat /\ x < Len(T) + (n + 1)
      <4>1. g[0] \in Nat
        <5>1. Len(W) \in Nat
          BY DEF Holds, AppOk
        <5> QED BY <5>1 DEF Holds, Trace
      <4>2. \A x \in (g[0] + 1)..Len(T) : x \in 1..Len(T) /\ x < Len(T) + (n + 1)
        <5> DEFINE h == g[0]
                   N == Len(T)
        <5>1. h \in Nat /\ N \in Nat /\ n \in Nat
          BY <1>2, <3>1, <4>1
        <5> HIDE DEF h, N
        <5>2. \A x \in (h + 1)..N : x \in 1..N /\ x < N + (n + 1)
          BY ONLY <5>1
        <5> QED BY <5>2 DEF h, N
      <4> QED BY <4>2 DEF Turned
    <3>3. \A k \in Starting(c.stdin) :
            /\ Opens(c.stdin[k]).m \in Started(c.stdin)
            /\ Len(T) + k \in Nat /\ Len(T) + k < Len(T) + (n + 1)
      <4>1. \A k \in Starting(c.stdin) : Opens(c.stdin[k]).m \in Started(c.stdin)
        BY DEF Started, Opens
      <4>2. \A k \in 1..n : Len(T) + k \in Nat /\ Len(T) + k < Len(T) + (n + 1)
        BY <1>2, <3>1
      <4> QED BY <4>1, <4>2 DEF Starting, n
    <3> QED BY <3>2, <3>3 DEF Wanted
  <2>3. last \in 1..last /\ last \in Nat
    BY <1>1, EmptyByLength
  <2>4. \A i \in 1..last : c.openings[i].m = r.m => i = last
    BY <1>10, <2>3 DEF MessagesOk, OnePlace, Opens
  <2>5. \A v \in V \union {new} : \E i \in 1..last : c.openings[i] = v.o
    <3>1. new.o = Opens(r)
      OBVIOUS
    <3> HIDE DEF new, V
    <3> QED BY <1>10, <2>3, <3>1 DEF LinedUp, V
  <2>6. ASSUME NEW v \in V \union {new}, NEW x \in V \union {new}, v.rank < x.rank,
               NEW i \in 1..last, NEW j \in 1..last, c.openings[i].m = v.o.m,
               c.openings[j].m = x.o.m
        PROVE  i < j
    <3>1. new.o.m = r.m /\ new.rank \in Nat
      <4> DEFINE N == Len(T)
      <4>1. N \in Nat /\ n \in Nat
        BY <1>2 DEF Holds, AppOk
      <4> HIDE DEF N
      <4>2. N + (n + 1) \in Nat
        BY ONLY <4>1
      <4>3. new.o.m = r.m /\ new.rank = N + (n + 1)
        BY DEF Opens, N
      <4> QED BY <4>2, <4>3
    <3> HIDE DEF new, V
    <3>2. CASE v \in V /\ x \in V
      BY <1>10, <2>6, <3>2 DEF LinedUp, V
    <3>3. CASE v \in V /\ x = new
      BY <2>2, <2>3, <2>4, <2>6, <3>1, <3>3
    <3>4. CASE v = new
      <4>1. CASE x = new
        BY <2>6, <3>1, <3>4, <4>1
      <4>2. CASE x \in V
        <5>1. x.rank \in Nat
          BY <2>2, <4>2
        <5> QED BY <2>2, <2>6, <3>1, <3>4, <4>2, <5>1
      <4> QED BY <4>1, <4>2
    <3> QED BY <3>2, <3>3, <3>4
  <2> HIDE DEF V, new
  <2>7. LinedUp(c.openings, V \union {new})
    BY <2>5, <2>6 DEF LinedUp
  <2> QED BY <2>1, <2>7 DEF LinedUp
<1>13. MessagesOk(e, W, T)
  <2>1. Started(s) = Started(c.stdin) \union {r.m}
    <3>1. \A k \in Starting(s) : s[k].m = r.m \/ (k \in Starting(c.stdin) /\ s[k] = c.stdin[k])
      BY <1>2, <1>11
    <3>2. \A k \in Starting(c.stdin) : k \in Starting(s) /\ s[k] = c.stdin[k]
      BY <1>11
    <3>3. n + 1 \in Starting(s) /\ s[n + 1].m = r.m
      BY <1>2, <1>11
    <3> QED BY <3>1, <3>2, <3>3 DEF Started
  <2>2. r.m \in {c.openings[i].m : i \in 1..Len(c.openings)}
    <3>1. Len(c.openings) \in 1..Len(c.openings)
      BY <1>1, EmptyByLength
    <3> QED BY <3>1 DEF Opens
  <2>3. Refused(e, W) = Refused(c, W)
    BY <1>5 DEF Refused
  <2>4. Opened(e, W, T) = Opened(c, W, T)
    BY <1>3, <1>5, <2>1, <2>2, <2>3 DEF Opened
  <2>5. \A i \in Steering(w) : i \in Steering(c.waiting) /\ w[i] = c.waiting[i]
    BY <1>2 DEF Steering
  <2>6. Steered(w) \subseteq Steered(c.waiting)
    BY <2>5 DEF Steered
  <2>7. Steers(e) \subseteq Steers(c)
    BY <1>3, <1>5, <2>6 DEF Steers, Kept
  <2>8. OnePlace(e)
    BY <1>3, <1>5, <1>10, <2>5, <2>6 DEF MessagesOk, OnePlace, Kept
  <2> QED BY <1>3, <1>5, <1>10, <2>1, <2>3, <2>4, <2>7, <2>8 DEF MessagesOk
<1>14. Lively(e, a, W, T, g)
  BY <1>3, <1>5, <1>8, <1>12, <1>13 DEF Holds, Lively
<1> QED BY <1>7, <1>8, <1>9, <1>14 DEF Holds, e, w, s

\* So a turn opens of a message that is nowhere yet.
LEMMA StartHolds ==
  ASSUME NEW g, NEW c, NEW a, NEW W, NEW l, Holds(g, c, a, W, l), NEW m,
         New(c, W, l.turns, m), "crossed" \notin l.odd => ~c.active \/ c.cur = 0
  PROVE  Holds(g, StartTurn(c, m), a, W, l)
<1> DEFINE T == l.turns
           x == [m |-> m, gen |-> c.gen]
           e == [c EXCEPT !.active = TRUE, !.cur = 0, !.openings = Append(@, x)]
           r == Req("start", m, c.gen, 0)
<1>1. /\ DriverOk(c) /\ c \in DriverRecord /\ c.openings \in Seq(Openings) /\ c.gen \in Nat
      /\ m \in Nat
  BY DriverTypes DEF Holds, New
<1>2. Holds(g, e, a, W, l)
  BY OpeningHolds
<1>3. StartTurn(c, m) = Request(e, r)
  BY DEF StartTurn
<1>4. r \in Reqs /\ r.kind = "start" /\ r.m = m /\ r.gen = c.gen /\ x = Opens(r)
  BY <1>1 DEF Req, Reqs, Asks, Opens
<1>5. /\ e.stdin = c.stdin /\ e.steers = c.steers /\ e.waiting = c.waiting
      /\ e.micro = c.micro /\ e.exited = c.exited /\ e.said = c.said /\ e.pipe = c.pipe
  BY <1>1 DEF DriverRecord
<1>6. e.openings = Append(c.openings, x)
  BY <1>1 DEF DriverRecord
<1>7. e.openings # <<>> /\ e.openings[Len(e.openings)] = Opens(r)
  <2>1. x \in Openings
    BY <1>1 DEF Openings
  <2> QED BY <1>1, <1>4, <1>6, <2>1, AppendAt
<1>8. e \in DriverRecord /\ DriverOk(e)
  BY <1>2, DriverTypes DEF Holds
<1> HIDE DEF e, r, x
<1>9. /\ Steers(e) = Steers(c) /\ Started(e.stdin) = Started(c.stdin)
      /\ Refused(e, W) = Refused(c, W)
  BY <1>5 DEF Steers, Kept, Refused
<1>10. ~c.exited => /\ m <= c.said /\ m \notin Steers(c) \union Refused(c, W)
                    /\ m \notin Turned(T) \union Started(c.stdin)
  BY DEF New, Opened
<1>11. CASE c.pipe
  <2>1. ~c.exited
    BY <1>1, <1>11 DEF DriverOk
  <2>2. Request(e, r) = [e EXCEPT !.waiting = Append(@, r), !.stdin = Append(@, r)]
    BY <1>4, <1>5, <1>8, <1>11, RequestIs
  <2>3. Holds(g, [e EXCEPT !.waiting = Append(@, r), !.stdin = Append(@, r)], a, W, l)
    BY <1>2, <1>4, <1>5, <1>7, <1>9, <1>10, <1>11, <2>1, StartAsks
  <2> QED BY <1>3, <2>2, <2>3
<1>12. CASE ~c.pipe
  <2> DEFINE y == Micro(r, FALSE, 0)
  <2>1. Request(e, r) = Later(e, y)
    BY <1>4, <1>5, <1>8, <1>12, RequestIs
  <2>2. y \in Micros /\ y.req = r /\ ~y.ok
    BY <1>4 DEF Micro, Micros
  <2> HIDE DEF y
  <2>3. Fits(e, W, T, y)
    BY <1>4, <1>5, <1>9, <1>10, <2>2 DEF Fits
  <2>4. Holds(g, Later(e, y), a, W, l)
    BY <1>2, <2>3, MicroHolds
  <2> QED BY <1>3, <2>1, <2>4
<1> QED BY <1>11, <1>12

\* A message is kept until a turn is live.
LEMMA KeptHolds ==
  ASSUME NEW g, NEW c, NEW a, NEW W, NEW l, Holds(g, c, a, W, l), NEW m,
         New(c, W, l.turns, m)
  PROVE  Holds(g, [c EXCEPT !.steers = Append(@, m)], a, W, l)
<1> DEFINE T == l.turns
           s == Append(c.steers, m)
           n == Len(c.steers)
           e == [c EXCEPT !.steers = s]
<1>1. DriverOk(c) /\ c \in DriverRecord /\ c.steers \in Seq(Nat) /\ m \in Nat
  BY DriverTypes DEF Holds, New
<1>2. /\ s \in Seq(Nat) /\ n \in Nat /\ s[n + 1] = m
      /\ \A i \in 1..n : s[i] = c.steers[i]
      /\ \A i \in 1..Len(s) : i \in 1..n \/ i = n + 1
  BY <1>1, AppendAt
<1> HIDE DEF e, s, n
<1>3. e \in DriverRecord /\ e.steers = s
  BY <1>1, <1>2 DEF DriverRecord, e
<1>4. Calm(c, e)
  BY <1>1 DEF DriverRecord, Calm, e
<1>5. /\ e.openings = c.openings /\ e.said = c.said /\ e.exited = c.exited
      /\ e.waiting = c.waiting /\ e.stdin = c.stdin /\ e.micro = c.micro
      /\ e.chunk = c.chunk /\ e.pipe = c.pipe /\ e.over = c.over /\ e.state = c.state
  BY <1>1 DEF DriverRecord, e
<1>6. DriverOk(e)
  BY <1>1, <1>3, <1>4, <1>5 DEF DriverOk, Calm
<1>7. OpeningsOk(e) /\ AppOk(e, a, W, T)
  BY <1>4, <1>5 DEF Holds, OpeningsOk, AppOk, Calm
<1>8. TurnsOk(e, T) /\ AnswersOk(e, W, T)
  BY <1>4, <1>5 DEF Holds, TurnsOk, AnswersOk, Calm
<1>9. Clean(e, a, W, l, g[0])
  <2>1. Mild(c, e)
    BY <1>4, <1>5 DEF Mild, Calm, ResultsIn, StopsIn, Doomed
  <2> QED BY <2>1, MildKeeps DEF Holds
<1>10. ASSUME ~c.exited PROVE MessagesOk(e, W, T) /\ IdleOk(e, T)
  <2>1. MessagesOk(c, W, T) /\ IdleOk(c, T)
    BY <1>10 DEF Holds, Lively
  <2>2. m <= c.said /\ m \notin Opened(c, W, T) /\ m \notin Steers(c)
    BY <1>10 DEF New
  <2>3. IdleOk(e, T)
    BY <1>4, <1>5, <2>1 DEF IdleOk, Calm
  <2>4. Refused(e, W) = Refused(c, W) /\ Started(e.stdin) = Started(c.stdin)
    BY <1>5 DEF Refused
  <2>5. Opened(e, W, T) = Opened(c, W, T)
    BY <1>5, <2>4 DEF Opened
  <2>6. Kept(e) \subseteq Kept(c) \union {m}
    BY <1>2, <1>3 DEF Kept, n
  <2>7. Steers(e) \subseteq Steers(c) \union {m}
    BY <1>5, <2>6 DEF Steers
  <2>8. OnePlace(e)
    <3>1. OnePlace(c)
      BY <2>1 DEF MessagesOk
    <3>2. m \notin Kept(c) /\ m \notin Steered(c.waiting) /\ m \notin Told(c.micro)
      BY <2>2 DEF Steers
    <3>3. \A i \in 1..n : c.steers[i] # m
      BY <3>2 DEF Kept, n
    <3>4. \A i, j \in 1..Len(s) : s[i] = s[j] => i = j
      <4>1. \A i, j \in 1..n : c.steers[i] = c.steers[j] => i = j
        BY <3>1 DEF OnePlace, n
      <4> QED BY <1>2, <3>3, <4>1
    <3>5. Kept(e) \intersect Steered(c.waiting) = {} /\ Kept(e) \intersect Told(c.micro) = {}
      BY <2>6, <3>1, <3>2 DEF OnePlace
    <3> QED BY <1>3, <1>5, <3>1, <3>4, <3>5 DEF OnePlace
  <2>9. MessagesOk(e, W, T)
    BY <1>5, <2>1, <2>2, <2>4, <2>5, <2>7, <2>8 DEF MessagesOk
  <2> QED BY <2>3, <2>9
<1>11. Lively(e, a, W, T, g)
  BY <1>5, <1>10 DEF Holds, Lively
<1> QED BY <1>6, <1>7, <1>8, <1>9, <1>11 DEF Holds, e, s

\* A person says something.
LEMMA SpokenHolds ==
  ASSUME NEW g, NEW c, NEW a, NEW W, NEW l, Holds(g, c, a, W, l), c.said < MaxMessages
  PROVE  LET e == [c EXCEPT !.state = "working", !.said = @ + 1]
         IN  /\ Holds(g, e, a, W, l) /\ New(e, W, l.turns, c.said + 1)
             /\ e.active = c.active /\ e.cur = c.cur
<1> DEFINE T == l.turns
           e == [c EXCEPT !.state = "working", !.said = @ + 1]
           m == c.said + 1
<1>1. DriverOk(c) /\ c \in DriverRecord /\ c.said \in Nat /\ MaxMessages \in Nat
  BY DriverTypes, CodexAssumption DEF Holds
<1>2. m \in Nat /\ m <= MaxMessages
  BY <1>1
<1>3. e = [c EXCEPT !.state = "working", !.said = m]
  BY <1>1 DEF DriverRecord
<1> HIDE DEF e
<1>4. e \in DriverRecord /\ e.state = "working" /\ e.said = m
  BY <1>1, <1>2, <1>3 DEF DriverRecord
<1>5. Calm(c, e)
  BY <1>1, <1>3 DEF DriverRecord, Calm
<1>6. /\ e.openings = c.openings /\ e.steers = c.steers /\ e.exited = c.exited
      /\ e.waiting = c.waiting /\ e.stdin = c.stdin /\ e.micro = c.micro
      /\ e.chunk = c.chunk /\ e.pipe = c.pipe /\ e.over = c.over
  BY <1>1, <1>3 DEF DriverRecord
<1>7. DriverOk(e)
  BY <1>1, <1>2, <1>4, <1>5, <1>6 DEF DriverOk, Calm
<1>8. OpeningsOk(e) /\ AppOk(e, a, W, T)
  BY <1>5, <1>6 DEF Holds, OpeningsOk, AppOk, Calm
<1>9. TurnsOk(e, T) /\ AnswersOk(e, W, T)
  BY <1>5, <1>6 DEF Holds, TurnsOk, AnswersOk, Calm
<1>10. Clean(e, a, W, l, g[0])
  <2>1. Mild(c, e)
    BY <1>5, <1>6 DEF Mild, Calm, ResultsIn, StopsIn, Doomed
  <2> QED BY <2>1, MildKeeps DEF Holds
<1>11. IdleOk(e, T)
  BY <1>4 DEF IdleOk
<1>12. ASSUME ~c.exited
       PROVE  MessagesOk(e, W, T) /\ m \notin Opened(e, W, T) \union Steers(e)
  <2>1. MessagesOk(c, W, T)
    BY <1>12 DEF Holds, Lively
  <2>2. Refused(e, W) = Refused(c, W) /\ Started(e.stdin) = Started(c.stdin)
    BY <1>6 DEF Refused
  <2>3. Opened(e, W, T) = Opened(c, W, T)
    BY <1>6, <2>2 DEF Opened
  <2>4. Steers(e) = Steers(c) /\ Kept(e) = Kept(c)
    BY <1>6 DEF Steers, Kept
  <2>5. OnePlace(e)
    BY <1>6, <2>1, <2>4 DEF MessagesOk, OnePlace
  <2>6. \A k \in Opened(c, W, T) \union Steers(c) : k \in Nat
    <3>1. \A q \in Seq(Reqs) : \A i \in 1..Len(q) : q[i].m \in Nat
      <4>1. \A q \in Seq(Reqs) : \A i \in 1..Len(q) : q[i] \in Reqs
        OBVIOUS
      <4> QED BY <4>1 DEF Reqs
    <3>2. \A q \in Seq(Micros) : \A i \in 1..Len(q) : q[i].req.m \in Nat
      <4>1. \A q \in Seq(Micros) : \A i \in 1..Len(q) : q[i] \in Micros
        OBVIOUS
      <4> QED BY <4>1 DEF Micros, Reqs
    <3>3. \A q \in Seq(Lines) : \A i \in 1..Len(q) : q[i].req.m \in Nat
      <4>1. \A q \in Seq(Lines) : \A i \in 1..Len(q) : q[i] \in Lines
        OBVIOUS
      <4> QED BY <4>1 DEF Lines, Reqs
    <3>4. \A q \in Seq(Openings) : \A i \in 1..Len(q) : q[i].m \in Nat
      <4>1. \A q \in Seq(Openings) : \A i \in 1..Len(q) : q[i] \in Openings
        OBVIOUS
      <4> QED BY <4>1 DEF Openings
    <3>5. /\ c.stdin \in Seq(Reqs) /\ c.waiting \in Seq(Reqs) /\ c.micro \in Seq(Micros)
          /\ c.openings \in Seq(Openings) /\ c.steers \in Seq(Nat) /\ W \in Seq(Lines)
          /\ T \in Seq(Openings)
      BY <1>1, DriverTypes DEF Holds, AppOk
    <3>6. \A k \in Refused(c, W) : k \in Nat
      BY <3>2, <3>3, <3>5 DEF Refused
    <3>7. \A k \in Turned(T) \union Started(c.stdin) : k \in Nat
      BY <3>1, <3>4, <3>5 DEF Turned, Started, Starting
    <3>8. \A i \in 1..Len(c.openings) : c.openings[i].m \in Nat
      BY <3>4, <3>5
    <3>9. \A k \in Kept(c) : k \in Nat
      BY <3>5 DEF Kept
    <3>10. \A k \in Steered(c.waiting) \union Told(c.micro) : k \in Nat
      BY <3>1, <3>2, <3>5 DEF Steered, Steering, Told, Settled
    <3> QED BY <3>6, <3>7, <3>8, <3>9, <3>10 DEF Opened, Steers
  <2>7. \A k \in Opened(c, W, T) \union Steers(c) : k <= m /\ k # m
    <3>1. \A k \in Opened(c, W, T) \union Steers(c) : k <= c.said
      BY <2>1 DEF MessagesOk
    <3> QED BY <1>1, <2>6, <3>1
  <2>8. MessagesOk(e, W, T)
    BY <1>4, <2>1, <2>2, <2>3, <2>4, <2>5, <2>7 DEF MessagesOk
  <2>9. m \notin Opened(e, W, T) \union Steers(e)
    BY <2>3, <2>4, <2>7
  <2> QED BY <2>8, <2>9
<1>13. Lively(e, a, W, T, g)
  BY <1>6, <1>11, <1>12 DEF Holds, Lively
<1>14. New(e, W, T, m)
  <2>1. m <= m
    BY <1>2
  <2> QED BY <1>2, <1>4, <1>6, <1>12, <2>1 DEF New
<1>15. Holds(g, e, a, W, l)
  BY <1>7, <1>8, <1>9, <1>10, <1>13 DEF Holds
<1> QED BY <1>5, <1>14, <1>15 DEF e, Calm

-----------------------------------------------------------------------------
(* What people and the daemon ask of the driver                              *)

\* A message opens a turn, steers the one that is live, or is kept.
LEMMA MessageKeeps == ASSUME Heard, Message PROVE Heard'
<1> DEFINE e == [d EXCEPT !.state = "working", !.said = @ + 1]
           m == d.said + 1
<1>1. PICK g : Holds(g, d, app, stdout, log)
  BY DEF Heard
<1>2. /\ d' = Dispatch(e, m) /\ app' = app /\ stdout' = stdout /\ log' = log
      /\ d.said < MaxMessages
  BY DEF Message, Becomes
<1>3. Holds(g, e, app, stdout, log) /\ New(e, stdout, log.turns, m)
  BY <1>1, <1>2, SpokenHolds
<1> HIDE DEF e, m
<1>4. CASE ~e.active
  <2>1. Holds(g, StartTurn(e, m), app, stdout, log)
    BY <1>3, <1>4, StartHolds
  <2> QED BY <1>2, <1>4, <2>1 DEF Dispatch, Heard
<1>5. CASE e.active /\ e.cur # 0
  <2> DEFINE r == Steer(e, m)
  <2>1. m \in Nat /\ e.gen \in Nat /\ e.cur \in Nat
    BY <1>3, DriverTypes DEF Holds, New
  <2>2. r \in Reqs /\ r.kind = "steer" /\ r.m = m
    BY <2>1 DEF Steer, Req, Reqs, Asks
  <2> HIDE DEF r
  <2>3. <<r>> \in Seq(Reqs) /\ Len(<<r>>) = 1 /\ <<r>>[1] = r
    BY <2>2
  <2>4. \A i \in 1..Len(<<r>>) : i = 1
    BY <2>3
  <2>5. Fresh(e, stdout, log.turns, <<r>>)
    BY <1>3, <2>2, <2>3, <2>4 DEF Fresh, New
  <2>6. Holds(g, Request(e, r), app, stdout, log)
    BY <1>3, <2>5, SteersHold DEF Request
  <2> QED BY <1>2, <1>5, <2>6 DEF Dispatch, Heard, r
<1>6. CASE e.active /\ e.cur = 0
  <2>1. Holds(g, [e EXCEPT !.steers = Append(@, m)], app, stdout, log)
    BY <1>3, KeptHolds
  <2> QED BY <1>2, <1>6, <2>1 DEF Dispatch, Heard
<1> QED BY <1>4, <1>5, <1>6

\* What a handler writes in answer to an approval.
LEMMA ReplyFine ==
  ASSUME NEW c, DriverOk(c)
  PROVE  /\ Fine(c, Reply(c)) /\ Reply(c).state = c.state /\ Reply(c).gen = c.gen
         /\ Reply(c).micro = c.micro /\ Reply(c).chain = c.chain /\ Reply(c).cur = c.cur
         /\ Reply(c).active = c.active
<1> DEFINE r == Req("reply", 0, 0, 0)
           s == IF c.pipe THEN Append(c.stdin, r) ELSE c.stdin
           e == Reply(c)
<1>1. c \in DriverRecord /\ c.stdin \in Seq(Reqs)
  BY DriverTypes
<1>2. r \in Reqs /\ r.kind = "reply"
  BY DEF Req, Reqs
<1> HIDE DEF r
<1>3. /\ s \in Seq(Reqs) /\ ThinOn(c.stdin, Asking(c.stdin), s, Asking(s))
      /\ \A i \in 1..Len(s) : s[i].kind # "reply" => i \in 1..Len(c.stdin) /\ s[i] = c.stdin[i]
  <2>1. CASE c.pipe
    <3>1. /\ Append(c.stdin, r) \in Seq(Reqs)
          /\ ThinOn(c.stdin, Asking(c.stdin), Append(c.stdin, r), Asking(Append(c.stdin, r)))
          /\ \A i \in 1..Len(Append(c.stdin, r)) :
               \/ Append(c.stdin, r)[i] = r
               \/ i \in 1..Len(c.stdin) /\ Append(c.stdin, r)[i] = c.stdin[i]
      BY <1>1, <1>2, AppendAt, RequestsThin
    <3> QED BY <1>2, <2>1, <3>1
  <2>2. CASE ~c.pipe
    BY <1>1, <2>2, RequestsThin
  <2> QED BY <2>1, <2>2
<1>4. e = [c EXCEPT !.gate = FALSE, !.stdin = s]
  BY <1>1 DEF Reply, DriverRecord, r
<1> HIDE DEF e, s
<1>5. e \in DriverRecord /\ e.stdin = s
  BY <1>1, <1>3, <1>4 DEF DriverRecord
<1>6. Calm(c, e)
  BY <1>1, <1>4 DEF DriverRecord, Calm
<1>7. /\ e.openings = c.openings /\ e.said = c.said /\ e.exited = c.exited
      /\ e.steers = c.steers /\ e.waiting = c.waiting /\ e.micro = c.micro
      /\ e.chunk = c.chunk /\ e.pipe = c.pipe /\ e.over = c.over /\ e.state = c.state
  BY <1>1, <1>4 DEF DriverRecord
<1>8. DriverOk(e)
  <2>1. c.exited => s = <<>>
    BY DEF DriverOk, s
  <2>2. \A i \in 1..Len(s) : s[i].kind \in {"stop", "late"} => s[i].turn # 0
    BY <1>3 DEF DriverOk
  <2> QED BY <1>5, <1>6, <1>7, <2>1, <2>2 DEF DriverOk, Calm
<1>9. Shrinks(c, e)
  <2>1. /\ ThinOn(c.waiting, Asking(c.waiting), e.waiting, Asking(e.waiting))
        /\ ThinOn(c.micro, Answering(c.micro), e.micro, Answering(e.micro))
    BY <1>7, DriverTypes, RequestsThin, MicrosThin
  <2>2. c.gen <= e.gen
    BY <1>6, DriverTypes DEF Calm
  <2> QED BY <1>3, <1>5, <1>6, <1>7, <2>1, <2>2 DEF Shrinks, Calm
<1>10. Mild(c, e)
  BY <1>3, <1>5, <1>6, <1>7 DEF Mild, Calm, ResultsIn, StopsIn, Doomed
<1> QED BY <1>6, <1>7, <1>8, <1>9, <1>10 DEF Fine, e, Calm

\* Which also cancels an approval.
LEMMA CancelHolds ==
  ASSUME NEW g, NEW c, NEW a, NEW W, NEW l, Holds(g, c, a, W, l)
  PROVE  Holds(g, CancelGate(c), a, W, l) /\ Holds(g, Reply(c), a, W, l)
         /\ Holds(g, Unblock(c), a, W, l)
<1>1. DriverOk(c) /\ c \in DriverRecord
  BY DriverTypes DEF Holds
<1>2. Holds(g, Reply(c), a, W, l)
  BY <1>1, ReplyFine, FineKeeps
<1>3. Holds(g, CancelGate(c), a, W, l)
  BY <1>2 DEF CancelGate
<1>4. Same(c, Unblock(c))
  BY <1>1, FlagsSame
<1>5. Fine(c, Unblock(c))
  BY <1>1, <1>4, SameFine
<1>6. Holds(g, Unblock(c), a, W, l)
  BY <1>5, FineKeeps
<1> QED BY <1>2, <1>3, <1>6

\* A person decides.
LEMMA DecideKeeps == ASSUME Heard, Decide PROVE Heard'
<1>1. PICK g : Holds(g, d, app, stdout, log)
  BY DEF Heard
<1>2. d' = Unblock(Reply(d)) /\ app' = app /\ stdout' = stdout /\ log' = log
  BY DEF Decide, Becomes
<1>3. Holds(g, Unblock(Reply(d)), app, stdout, log)
  BY <1>1, CancelHolds
<1> QED BY <1>2, <1>3 DEF Heard

\* What was live is withdrawn: its generation is over, and so what was due in it.
LEMMA WithdrawnHolds ==
  ASSUME NEW g, NEW c, NEW e, NEW a, NEW W, NEW l, NEW k, Holds(g, c, a, W, l),
         DriverOk(e), Shrinks(c, e), e.gen = c.gen + 1, e.chain = c.chain, e.sync = c.sync,
         e.emitted = c.emitted, e.text = c.text, e.stdin = c.stdin,
         LogOk(k), k.turns = l.turns, k.results = l.results,
         "crossed" \notin k.odd => "crossed" \notin l.odd,
         \A n \in l.due :
           Out(l, n) \/ (c.sync = "result" /\ n = c.chain[1].turn) => n \in k.due,
         \/ e.finished
         \/ \A n \in k.due : Out(l, n) \/ (c.sync = "result" /\ n = c.chain[1].turn)
  PROVE  /\ Holds(g, e, a, W, k)
         /\ \A n \in 1..Len(l.turns) : Withdrawn(e, l.turns, n)
<1> DEFINE T == l.turns
           h == g[0]
<1>1. /\ OpeningsOk(e) /\ AppOk(e, a, W, T) /\ TurnsOk(e, T)
      /\ AnswersOk(e, W, T) /\ Lively(e, a, W, T, g)
  BY ShrinksKeeps, Zenon DEF Holds
<1>2. c.gen \in Nat /\ c.turnGen \in Nat /\ DriverOk(c) /\ c.chain \in Seq(Reactions)
  BY DriverTypes DEF Holds
<1>3. \A n \in 1..Len(T) : T[n].gen \in Nat /\ T[n].gen <= c.gen
  <2>1. \A n \in 1..Len(T) : T[n] \in Openings
    BY ElementOf DEF Holds, AppOk
  <2> QED BY <2>1 DEF Openings, Holds, TurnsOk
<1>4. \A n \in 1..Len(T) : T[n].gen < e.gen
  <2> SUFFICES ASSUME NEW n \in 1..Len(T) PROVE T[n].gen < e.gen
    OBVIOUS
  <2> DEFINE x == T[n].gen
  <2>1. x \in Nat /\ x <= c.gen
    BY <1>3
  <2> HIDE DEF x
  <2>2. x < e.gen
    BY <1>2, <2>1
  <2> QED BY <2>2 DEF x
<1>5. \A n \in 1..Len(T) : Withdrawn(e, T, n)
  BY <1>4 DEF Withdrawn
<1>6. ASSUME "crossed" \notin k.odd
      PROVE  /\ h <= Len(T)
             /\ ResultsOk(e, k, h) /\ LastOk(e, k, h) /\ DueOk(e, k, h) /\ StopsOk(e, a, W, T)
  <2>1. /\ h <= Len(T)
        /\ ResultsOk(c, l, h) /\ LastOk(c, l, h) /\ DueOk(c, l, h) /\ StopsOk(c, a, W, T)
    BY <1>6 DEF Holds, Clean
  <2>2. e.turnGen = c.turnGen /\ c.turnGen <= c.gen
    BY <1>2 DEF Shrinks, DriverOk
  <2>3. e.turnGen # e.gen
    BY <1>2, <2>2
  <2>4. \A i \in 1..Len(c.chain) : c.chain[i].gen # e.gen
    <3>1. \A i \in 1..Len(c.chain) : c.chain[i].gen \in Nat /\ c.chain[i].gen <= c.gen
      <4>1. \A i \in 1..Len(c.chain) : c.chain[i] \in Reactions
        BY <1>2
      <4> QED BY <1>2, <4>1 DEF Reactions, DriverOk
    <3> SUFFICES ASSUME NEW i \in 1..Len(c.chain), c.chain[i].gen = e.gen PROVE FALSE
      OBVIOUS
    <3>2. e.gen <= c.gen
      BY <3>1
    <3> QED BY <1>2, <3>2
  <2>5. \A n : Out(k, n) <=> Out(l, n)
    BY DEF Out
  <2>6. c.sync = "result" => c.chain[1].turn = h /\ h \in l.due /\ h \in k.due
    <3>1. c.sync = "result" => c.chain[1].kind = "result" /\ 1 \in 1..Len(c.chain)
      BY <1>2, TailAt DEF DriverOk
    <3> QED BY <2>1, <3>1 DEF ResultsOk
  <2>7. ResultsOk(e, k, h)
    <3>1. \A i \in 1..Len(k.results) : k.results[i].turn \in k.due
      BY <2>1 DEF ResultsOk, Out
    <3> QED BY <2>1, <2>2, <2>4, <2>6, <3>1 DEF ResultsOk
  <2>8. LastOk(e, k, h)
    <3>1. h # 0 => T[h].gen # e.gen
      <4>1. h \in Nat /\ Len(T) \in Nat
        BY DEF Holds, Trace, AppOk
      <4>2. h # 0 => h \in 1..Len(T)
        BY <2>1, <4>1
      <4>3. \A n \in 1..Len(T) : T[n].gen # e.gen
        <5> SUFFICES ASSUME NEW n \in 1..Len(T) PROVE T[n].gen # e.gen
          OBVIOUS
        <5> DEFINE x == T[n].gen
        <5>1. x \in Nat /\ x < e.gen /\ e.gen \in Nat
          BY <1>2, <1>3, <1>4
        <5> HIDE DEF x
        <5>2. x # e.gen
          BY <5>1
        <5> QED BY <5>2 DEF x
      <4> QED BY <4>2, <4>3
    <3> QED BY <2>3, <3>1 DEF LastOk
  <2>9. DueOk(e, k, h)
    BY <2>5, <2>6 DEF DueOk
  <2>10. StopsOk(e, a, W, T)
    <3>1. \A n : Withdrawn(c, T, n) => Withdrawn(e, T, n)
      BY <1>5 DEF Withdrawn
    <3> QED BY <2>1, <3>1 DEF StopsOk
  <2> QED BY <2>1, <2>7, <2>8, <2>9, <2>10
<1>7. Clean(e, a, W, k, h)
  BY <1>6 DEF Clean
<1> QED BY <1>1, <1>5, <1>7 DEF Holds

\* A generation begins: nothing is opened, and no turn is live in it.
LEMMA GenerationShrinks ==
  ASSUME NEW c, DriverOk(c), NEW e \in DriverRecord, e.gen = c.gen + 1, e.chain = c.chain,
         e.sync = c.sync, e.micro = c.micro, e.waiting = c.waiting, e.stdin = c.stdin,
         e.chunk = c.chunk, e.exited = c.exited, e.pipe = c.pipe, e.said = c.said,
         e.turnGen = c.turnGen, e.openings = c.openings, e.steers \in {c.steers, <<>>},
         e.active => c.active, e.cur \in {c.cur, 0}, e.cur = 0 \/ e.over # "none",
         e.state = c.state, c.finished => e.finished, e.over = "none" => c.over = "none",
         e.over # "none" => e.finished
  PROVE  DriverOk(e) /\ Shrinks(c, e)
<1>1. c.gen \in Nat /\ c.turnGen \in Nat /\ c.chain \in Seq(Reactions)
  BY DriverTypes
<1>2. e.turnGen <= e.gen
  <2>1. c.turnGen <= c.gen
    BY DEF DriverOk
  <2> QED BY <1>1, <2>1
<1>3. \A i \in 1..Len(c.chain) : c.chain[i].gen <= e.gen
  <2> SUFFICES ASSUME NEW i \in 1..Len(c.chain) PROVE c.chain[i].gen <= e.gen
    OBVIOUS
  <2>1. c.chain[i] \in Reactions /\ c.chain[i].gen <= c.gen
    BY <1>1 DEF DriverOk
  <2> DEFINE y == c.chain[i].gen
  <2>2. y \in Nat /\ y <= c.gen
    BY <2>1 DEF Reactions
  <2> HIDE DEF y
  <2>3. y <= e.gen
    BY <1>1, <2>2
  <2> QED BY <2>3 DEF y
<1>4. DriverOk(e)
  <2>1. e.sync \in {"finish", "fail"} => e.finished
    BY DEF DriverOk
  <2>2. e.pipe \/ e.finished \/ e.exited
    BY DEF DriverOk
  <2> QED BY <1>2, <1>3, <2>1, <2>2 DEF DriverOk
<1>5. /\ ThinOn(c.stdin, Asking(c.stdin), e.stdin, Asking(e.stdin))
      /\ ThinOn(c.waiting, Asking(c.waiting), e.waiting, Asking(e.waiting))
      /\ ThinOn(c.micro, Answering(c.micro), e.micro, Answering(e.micro))
  BY DriverTypes, RequestsThin, MicrosThin
<1>6. c.gen <= e.gen
  BY <1>1
<1>7. Shrinks(c, e)
  BY <1>5, <1>6 DEF Shrinks
<1> QED BY <1>4, <1>7

\* What is due after an interrupt: what is out or on its way.
Rest(k) ==
  /\ k \in LogRecord /\ k.turns = log.turns /\ k.results = log.results
  /\ k.due = log.due \intersect Served /\ log.odd \subseteq k.odd

\* So the driver that withdraws what was live owes it.
LEMMA RestHolds ==
  ASSUME NEW g, Holds(g, d, app, stdout, log), NEW k, Rest(k), NEW e \in DriverRecord,
         e.gen = d.gen + 1, e.chain = d.chain,
         e.sync = d.sync, e.micro = d.micro, e.waiting = d.waiting, e.stdin = d.stdin,
         e.chunk = d.chunk, e.exited = d.exited, e.pipe = d.pipe, e.said = d.said,
         e.turnGen = d.turnGen, e.openings = d.openings, e.steers \in {d.steers, <<>>},
         e.active = FALSE, e.cur = 0, e.emitted = d.emitted, e.text = d.text,
         e.state = d.state, e.finished = d.finished, e.over = d.over
  PROVE  /\ Holds(g, e, app, stdout, k)
         /\ \A n \in 1..Len(log.turns) : Withdrawn(e, log.turns, n)
<1>1. DriverOk(d) /\ d.chain \in Seq(Reactions) /\ LogOk(log) /\ log.results \in Seq(Outs)
  BY DriverTypes DEF Holds, LogOk, LogRecord
<1>2. DriverOk(e) /\ Shrinks(d, e)
  <2>1. e.over # "none" => e.finished
    BY <1>1 DEF DriverOk
  <2> QED BY <1>1, <2>1, GenerationShrinks
<1>3. LogOk(k)
  BY <1>1 DEF Rest, LogOk
<1>4. \A n : n \in Served <=> Out(log, n) \/ (d.sync = "result" /\ n = d.chain[1].turn)
  <2>1. d.sync = "result" => Head(d.chain) = d.chain[1]
    BY <1>1, TailAt DEF DriverOk
  <2>2. DOMAIN log.results = 1..Len(log.results)
    BY <1>1
  <2> QED BY <2>1, <2>2 DEF Served, Out
<1>5. \A n \in log.due :
        Out(log, n) \/ (d.sync = "result" /\ n = d.chain[1].turn) => n \in k.due
  BY <1>4 DEF Rest
<1>6. \A n \in k.due : Out(log, n) \/ (d.sync = "result" /\ n = d.chain[1].turn)
  BY <1>4 DEF Rest
<1>7. k.turns = log.turns /\ k.results = log.results /\ ("crossed" \notin k.odd => "crossed" \notin log.odd)
  BY DEF Rest
<1> QED BY <1>2, <1>3, <1>5, <1>6, <1>7, WithdrawnHolds, Zenon

\* A turn is interrupted.
LEMMA InterruptKeeps == ASSUME IInv, NEW i \in DOMAIN stops, Interrupt(i) PROVE Heard'
<1> DEFINE e == Withdraw(d)
<1>1. PICK g : Holds(g, d, app, stdout, log)
  BY DEF Heard, IInv
<1>2. DriverOk(d) /\ d \in DriverRecord /\ d.gen \in Nat /\ LogOk(log)
  BY <1>1, DriverTypes DEF Holds
<1>3. e = [d EXCEPT !.gen = d.gen + 1, !.steers = <<>>, !.active = FALSE, !.cur = 0]
  BY <1>2 DEF Withdraw, DriverRecord
<1> HIDE DEF e
<1>4. <<>> \in Seq(Nat) /\ d.gen + 1 \in Nat
  BY <1>2
<1>5. e \in DriverRecord
  <2> DEFINE y == d.gen + 1
             q == <<>>
  <2>1. e = [d EXCEPT !.gen = y, !.steers = q, !.active = FALSE, !.cur = 0]
    BY <1>3
  <2>2. y \in Nat /\ q \in Seq(Nat)
    BY <1>4
  <2> HIDE DEF y, q
  <2> QED BY <1>2, <2>1, <2>2 DEF DriverRecord
<1>6. /\ e.gen = d.gen + 1 /\ e.steers = <<>> /\ e.active = FALSE /\ e.cur = 0
      /\ e.chain = d.chain /\ e.sync = d.sync /\ e.micro = d.micro /\ e.waiting = d.waiting
      /\ e.stdin = d.stdin /\ e.chunk = d.chunk
  BY <1>2, <1>3 DEF DriverRecord
<1>7. /\ e.exited = d.exited /\ e.pipe = d.pipe /\ e.said = d.said /\ e.turnGen = d.turnGen
      /\ e.openings = d.openings /\ e.emitted = d.emitted /\ e.text = d.text
      /\ e.state = d.state /\ e.finished = d.finished /\ e.over = d.over
  BY <1>2, <1>3 DEF DriverRecord
<1>8. Rest(log')
  <2>1. log' = [log EXCEPT !.due = @ \intersect Served,
                           !.odd = IF d.closed THEN @ \union {"late"} ELSE @]
    BY DEF Interrupt
  <2>2. log \in LogRecord
    BY <1>2 DEF LogOk
  <2>3. (log.due \intersect Served) \subseteq Nat
    BY <2>2 DEF LogRecord
  <2>4. CASE d.closed
    BY <2>1, <2>2, <2>3, <2>4 DEF Rest, LogRecord
  <2>5. CASE ~d.closed
    BY <2>1, <2>2, <2>3, <2>5 DEF Rest, LogRecord
  <2> QED BY <2>4, <2>5
<1>9. /\ Holds(g, e, app, stdout, log')
      /\ \A n \in 1..Len(log.turns) : Withdrawn(e, log.turns, n)
  BY <1>1, <1>5, <1>6, <1>7, <1>8, RestHolds
<1>10. log'.turns = log.turns
  BY <1>8 DEF Rest
<1>11. app' = app /\ stdout' = stdout
  BY DEF Interrupt
<1>12. CASE d.cur = 0
  <2>1. d' = CancelGate(e)
    BY <1>12 DEF Interrupt, e
  <2>2. Holds(g, CancelGate(e), app, stdout, log')
    BY <1>9, CancelHolds
  <2> QED BY <1>11, <2>1, <2>2 DEF Heard
<1>13. CASE d.cur # 0
  <2> DEFINE r == Req("stop", i, e.gen, d.cur)
  <2>1. d' = CancelGate(Request(e, r))
    BY <1>13 DEF Interrupt, e
  <2>2. i \in Nat /\ d.cur \in Nat /\ e.gen \in Nat
    <3>1. i \in Nat
      BY CodexAssumption DEF IInv
    <3> QED BY <1>2, <1>5, <3>1, DriverTypes DEF DriverRecord
  <2>3. r \in Reqs /\ r.kind = "stop" /\ r.turn = d.cur
    BY <2>2 DEF Req, Reqs, Asks
  <2> HIDE DEF r
  <2>4. d.cur \in 1..Len(log.turns)
    <3>1. Len(log.turns) \in Nat
      BY <1>1 DEF Holds, AppOk
    <3> QED BY <1>1, <1>13, <3>1 DEF Holds, TurnsOk
  <2>5. Withdrawn(e, log'.turns, r.turn)
    BY <1>9, <1>10, <2>3, <2>4
  <2>6. Holds(g, Request(e, r), app, stdout, log')
    BY <1>9, <1>13, <2>3, <2>5, StopHolds
  <2>7. Holds(g, CancelGate(Request(e, r)), app, stdout, log')
    BY <2>6, CancelHolds
  <2> QED BY <1>11, <2>1, <2>7 DEF Heard
<1> QED BY <1>12, <1>13

\* A reaction is chained that is no result.
LEMMA ChainHolds ==
  ASSUME NEW g, NEW c, NEW a, NEW W, NEW l, Holds(g, c, a, W, l),
         NEW k \in {"finish", "fail", "exit"}
  PROVE  Holds(g, Chain(c, k, 0, 0), a, W, l)
<1>1. Fine(c, Chain(c, k, 0, 0))
  BY ChainFine DEF Holds
<1> QED BY <1>1, FineKeeps

\* Its end is asked for, by a shutdown.
LEMMA ShutdownKeeps == ASSUME Heard, Shutdown PROVE Heard'
<1> DEFINE y == d.gen + 1
           e == [d EXCEPT !.closed = TRUE, !.gen = @ + 1, !.active = FALSE, !.cur = 0]
           c == CancelGate(e)
<1>1. PICK g : Holds(g, d, app, stdout, log)
  BY DEF Heard
<1>2. DriverOk(d) /\ d \in DriverRecord /\ d.gen \in Nat /\ d.cur \in Nat /\ LogOk(log)
  BY <1>1, DriverTypes DEF Holds
<1>3. e = [d EXCEPT !.closed = TRUE, !.gen = y, !.active = FALSE, !.cur = 0] /\ y \in Nat
  BY <1>2 DEF DriverRecord
<1>4. e \in DriverRecord
  <2> HIDE DEF y, e
  <2> QED BY <1>2, <1>3 DEF DriverRecord
<1>5. /\ e.gen = y /\ e.steers = d.steers /\ e.active = FALSE /\ e.cur = 0
      /\ e.chain = d.chain /\ e.sync = d.sync /\ e.micro = d.micro /\ e.waiting = d.waiting
      /\ e.stdin = d.stdin /\ e.chunk = d.chunk
  <2> HIDE DEF y, e
  <2> QED BY <1>2, <1>3 DEF DriverRecord
<1>6. /\ e.exited = d.exited /\ e.pipe = d.pipe /\ e.said = d.said /\ e.turnGen = d.turnGen
      /\ e.openings = d.openings /\ e.emitted = d.emitted /\ e.text = d.text
      /\ e.state = d.state /\ e.finished = d.finished /\ e.over = d.over
  <2> HIDE DEF y, e
  <2> QED BY <1>2, <1>3 DEF DriverRecord
<1>7. Rest(log') /\ app' = app /\ stdout' = stdout
  <2>1. log' = [log EXCEPT !.due = @ \intersect Served]
    BY DEF Shutdown
  <2>2. log \in LogRecord
    BY <1>2 DEF LogOk
  <2>3. (log.due \intersect Served) \subseteq Nat
    BY <2>2 DEF LogRecord
  <2>4. Rest(log')
    BY <2>1, <2>2, <2>3 DEF Rest, LogRecord
  <2>5. app' = app /\ stdout' = stdout
    BY DEF Shutdown
  <2> QED BY <2>4, <2>5
<1>8. d' = Chain(c, "finish", 0, 0) \/ (d.cur # 0 /\ d' = Request(c, Req("stop", 0, c.gen, d.cur)))
  BY DEF Shutdown
<1> HIDE DEF e
<1>9. /\ Holds(g, e, app, stdout, log')
      /\ \A n \in 1..Len(log.turns) : Withdrawn(e, log.turns, n)
  BY <1>1, <1>4, <1>5, <1>6, <1>7, RestHolds
<1>10. Holds(g, c, app, stdout, log')
  BY <1>9, CancelHolds
<1>11. c.gen = e.gen
  BY <1>9, ReplyFine DEF CancelGate, Holds
<1> HIDE DEF c
<1>12. CASE d' = Chain(c, "finish", 0, 0)
  <2>1. Holds(g, Chain(c, "finish", 0, 0), app, stdout, log')
    BY <1>10, ChainHolds
  <2> QED BY <1>7, <1>12, <2>1 DEF Heard
<1>13. CASE d.cur # 0 /\ d' = Request(c, Req("stop", 0, c.gen, d.cur))
  <2> DEFINE r == Req("stop", 0, c.gen, d.cur)
  <2>1. c.gen \in Nat
    BY <1>2, <1>3, <1>5, <1>11
  <2>2. r \in Reqs /\ r.kind = "stop" /\ r.turn = d.cur
    BY <1>2, <2>1 DEF Req, Reqs, Asks
  <2> HIDE DEF r
  <2>3. d.cur \in 1..Len(log.turns)
    <3>1. Len(log.turns) \in Nat
      BY <1>1 DEF Holds, AppOk
    <3> QED BY <1>1, <1>13, <3>1 DEF Holds, TurnsOk
  <2>4. Withdrawn(c, log'.turns, r.turn)
    BY <1>7, <1>9, <1>11, <2>2, <2>3 DEF Withdrawn, Rest
  <2>5. Holds(g, Request(c, r), app, stdout, log')
    BY <1>10, <1>13, <2>2, <2>4, StopHolds
  <2> QED BY <1>7, <1>13, <2>5 DEF Heard, r
<1> QED BY <1>8, <1>12, <1>13

\* The grace of a retire passes: whatever was due, the driver is done.
LEMMA ForceStopKeeps == ASSUME Heard, ForceStop PROVE Heard'
<1> DEFINE y == d.gen + 1
           e == [d EXCEPT !.gen = @ + 1, !.finished = TRUE, !.over = "retired"]
<1>1. PICK g : Holds(g, d, app, stdout, log)
  BY DEF Heard
<1>2. DriverOk(d) /\ d \in DriverRecord /\ d.gen \in Nat /\ LogOk(log)
  BY <1>1, DriverTypes DEF Holds
<1>3. e = [d EXCEPT !.gen = y, !.finished = TRUE, !.over = "retired"] /\ y \in Nat
  BY <1>2 DEF DriverRecord
<1>4. d' = e /\ log' = log /\ app' = app /\ stdout' = stdout
  BY DEF ForceStop, Becomes
<1> HIDE DEF e
<1>5. e \in DriverRecord
  <2> HIDE DEF y
  <2> QED BY <1>2, <1>3 DEF DriverRecord
<1>6. /\ e.gen = y /\ e.steers = d.steers /\ e.active = d.active /\ e.cur = d.cur
      /\ e.chain = d.chain /\ e.sync = d.sync /\ e.micro = d.micro /\ e.waiting = d.waiting
      /\ e.stdin = d.stdin /\ e.chunk = d.chunk
  <2> HIDE DEF y
  <2> QED BY <1>2, <1>3 DEF DriverRecord
<1>7. /\ e.exited = d.exited /\ e.pipe = d.pipe /\ e.said = d.said /\ e.turnGen = d.turnGen
      /\ e.openings = d.openings /\ e.emitted = d.emitted /\ e.text = d.text
      /\ e.state = d.state /\ e.finished = TRUE /\ e.over = "retired"
  <2> HIDE DEF y
  <2> QED BY <1>2, <1>3 DEF DriverRecord
<1>8. DriverOk(e) /\ Shrinks(d, e)
  BY <1>2, <1>5, <1>6, <1>7, GenerationShrinks
<1>9. Holds(g, e, app, stdout, log)
  BY <1>1, <1>2, <1>6, <1>7, <1>8, WithdrawnHolds, Zenon
<1> QED BY <1>4, <1>9 DEF Heard

\* A wind-down begins.
LEMMA BeginEndHolds ==
  ASSUME NEW g, NEW c, NEW a, NEW W, NEW l, Holds(g, c, a, W, l)
  PROVE  Holds(g, BeginEnd(c), a, W, l)
<1> DEFINE e == [c EXCEPT !.closed = TRUE]
<1>1. DriverOk(c) /\ c \in DriverRecord
  BY DriverTypes DEF Holds
<1>2. Holds(g, e, a, W, l)
  BY <1>1, FlagsSame, SameFine, FineKeeps
<1>3. BeginEnd(c) = e \/ BeginEnd(c) = Chain(e, "finish", 0, 0)
  BY DEF BeginEnd
<1> HIDE DEF e
<1> QED BY <1>2, <1>3, ChainHolds

\* The session is ended.
LEMMA EndKeeps == ASSUME Heard, End PROVE Heard'
<1> DEFINE e == [d EXCEPT !.ending = TRUE]
<1>1. PICK g : Holds(g, d, app, stdout, log)
  BY DEF Heard
<1>2. DriverOk(d) /\ d \in DriverRecord
  BY <1>1, DriverTypes DEF Holds
<1>3. d' = BeginEnd(CancelGate(e)) /\ app' = app /\ stdout' = stdout /\ log' = log
  BY DEF End, Becomes
<1>4. Holds(g, e, app, stdout, log)
  BY <1>1, <1>2, FlagsSame, SameFine, FineKeeps
<1> HIDE DEF e
<1>5. Holds(g, BeginEnd(CancelGate(e)), app, stdout, log)
  BY <1>4, CancelHolds, BeginEndHolds
<1> QED BY <1>3, <1>5 DEF Heard

\* The session retires.
LEMMA RetireKeeps == ASSUME Heard, Retire PROVE Heard'
<1> DEFINE e == [d EXCEPT !.retiring = TRUE]
<1>1. PICK g : Holds(g, d, app, stdout, log)
  BY DEF Heard
<1>2. DriverOk(d) /\ d \in DriverRecord
  BY <1>1, DriverTypes DEF Holds
<1>3. d' = BeginEnd(e) /\ app' = app /\ stdout' = stdout /\ log' = log
  BY DEF Retire, Becomes
<1>4. Holds(g, e, app, stdout, log)
  BY <1>1, <1>2, FlagsSame, SameFine, FineKeeps
<1> HIDE DEF e
<1>5. Holds(g, BeginEnd(e), app, stdout, log)
  BY <1>4, BeginEndHolds
<1> QED BY <1>3, <1>5 DEF Heard

\* The sync of an interrupt returns.
LEMMA StopSyncedKeeps == ASSUME Heard, NEW i, StopSynced(i) PROVE Heard'
<1> DEFINE e == [d EXCEPT !.state = "idle"]
<1>1. PICK g : Holds(g, d, app, stdout, log)
  BY DEF Heard
<1>2. /\ d' = (IF ~d.finished /\ IdleAfter(i) THEN e ELSE d)
      /\ app' = app /\ stdout' = stdout /\ log' = log /\ d.micro = <<>>
  BY DEF StopSynced
<1>3. CASE ~d.finished /\ IdleAfter(i)
  <2>1. DriverOk(d) /\ ~d.active /\ NoneAnswered(d.micro)
    BY <1>1, <1>2, <1>3 DEF Holds, IdleAfter, NoneAnswered
  <2>2. Fine(d, e)
    BY <2>1, IdleFine
  <2>3. Holds(g, e, app, stdout, log)
    BY <1>1, <2>2, FineKeeps
  <2> QED BY <1>2, <1>3, <2>3 DEF Heard
<1>4. CASE ~(~d.finished /\ IdleAfter(i))
  <2>1. d' = d
    BY <1>2, <1>4
  <2> QED BY <1>1, <1>2, <2>1 DEF Heard
<1> QED BY <1>3, <1>4

\* A request is no longer waited for.
LEMMA SettledFine ==
  ASSUME NEW c, DriverOk(c), NEW S
  PROVE  LET e == [c EXCEPT !.waiting = Filter(@, S)]
         IN  /\ Fine(c, e) /\ Calm(c, e) /\ e.waiting = Filter(c.waiting, S)
             /\ e.openings = c.openings /\ e.said = c.said /\ e.exited = c.exited
             /\ e.steers = c.steers /\ e.stdin = c.stdin /\ e.micro = c.micro
             /\ e.state = c.state
<1> DEFINE w == Filter(c.waiting, S)
           e == [c EXCEPT !.waiting = Filter(@, S)]
<1>1. c \in DriverRecord /\ c.waiting \in Seq(Reqs)
  BY DriverTypes
<1>2. PICK h : Embeds(h, c.waiting, S)
  BY <1>1, FilterProperties
<1>3. /\ w \in Seq(Reqs)
      /\ \A j \in 1..Len(w) : h[j] \in 1..Len(c.waiting) /\ w[j] = c.waiting[h[j]]
  BY <1>1, <1>2, FilterProperties DEF Embeds
<1>4. e = [c EXCEPT !.waiting = w]
  BY <1>1 DEF DriverRecord
<1>5. ThinOn(c.waiting, Asking(c.waiting), w, Asking(w))
  BY <1>1, RequestsThin
<1> HIDE DEF e, w
<1>6. e \in DriverRecord /\ e.waiting = w
  BY <1>1, <1>3, <1>4 DEF DriverRecord
<1>7. Calm(c, e)
  BY <1>1, <1>4 DEF DriverRecord, Calm
<1>8. /\ e.openings = c.openings /\ e.said = c.said /\ e.exited = c.exited
      /\ e.steers = c.steers /\ e.stdin = c.stdin /\ e.micro = c.micro
      /\ e.chunk = c.chunk /\ e.pipe = c.pipe /\ e.over = c.over /\ e.state = c.state
  BY <1>1, <1>4 DEF DriverRecord
<1>9. DriverOk(e)
  <2>1. \A j \in 1..Len(w) : w[j].kind \in Asks
    BY <1>3 DEF DriverOk
  <2>2. c.exited => w = <<>>
    <3>1. c.exited => Len(c.waiting) = 0
      BY DEF DriverOk
    <3>2. c.exited => \A j \in 1..Len(w) : FALSE
      BY <1>3, <3>1
    <3>3. Len(w) \in Nat /\ (w = <<>> <=> Len(w) = 0)
      BY <1>3, EmptyByLength
    <3> QED BY <3>2, <3>3
  <2> QED BY <1>6, <1>7, <1>8, <2>1, <2>2 DEF DriverOk, Calm
<1>10. Shrinks(c, e)
  <2>1. /\ ThinOn(c.stdin, Asking(c.stdin), e.stdin, Asking(e.stdin))
        /\ ThinOn(c.micro, Answering(c.micro), e.micro, Answering(e.micro))
    BY <1>8, DriverTypes, RequestsThin, MicrosThin
  <2>2. c.gen <= e.gen
    BY <1>7, DriverTypes DEF Calm
  <2> QED BY <1>5, <1>6, <1>7, <1>8, <2>1, <2>2 DEF Shrinks, Calm
<1>11. Mild(c, e)
  BY <1>7, <1>8 DEF Mild, Calm, ResultsIn, StopsIn, Doomed
<1> QED BY <1>6, <1>7, <1>8, <1>9, <1>10, <1>11 DEF Fine, e, w

\* An interrupt is not waited for any longer.
LEMMA StopTimesOutKeeps == ASSUME Heard, NEW i, StopTimesOut(i) PROVE Heard'
<1>1. PICK g : Holds(g, d, app, stdout, log)
  BY DEF Heard
<1>2. PICK r \in ToSet(d.waiting) :
        /\ r.kind = "stop"
        /\ d' = Later([d EXCEPT !.waiting = Filter(@, ToSet(@) \ {r})], Micro(r, FALSE, 0))
  BY DEF StopTimesOut
<1>3. app' = app /\ stdout' = stdout /\ log' = log
  BY DEF StopTimesOut
<1>4. DriverOk(d) /\ d \in DriverRecord /\ d.waiting \in Seq(Reqs)
  BY <1>1, DriverTypes DEF Holds
<1> DEFINE S == ToSet(d.waiting) \ {r}
           e == [d EXCEPT !.waiting = Filter(@, S)]
           x == Micro(r, FALSE, 0)
<1>5. d' = Later(e, x)
  BY <1>2, <1>4 DEF DriverRecord
<1>6. r \in Reqs
  BY <1>4 DEF ToSet
<1>7. x \in Micros /\ x.req = r /\ x.ok = FALSE
  BY <1>6 DEF Micro, Micros
<1>8. Fine(d, e)
  BY <1>4, SettledFine
<1> HIDE DEF e, x
<1>9. Holds(g, e, app, stdout, log)
  BY <1>1, <1>8, FineKeeps
<1>10. Fits(e, stdout, log.turns, x)
  BY <1>2, <1>7 DEF Fits
<1>11. Holds(g, Later(e, x), app, stdout, log)
  BY <1>9, <1>10, MicroHolds
<1> QED BY <1>3, <1>5, <1>11 DEF Heard

-----------------------------------------------------------------------------
(* The microtasks                                                            *)

\* Turns may have crossed, and less is to hold.
LEMMA OddHolds ==
  ASSUME NEW g, NEW c, NEW a, NEW W, NEW l, Holds(g, c, a, W, l), NEW k \in LogRecord,
         k.turns = l.turns, k.due = l.due, k.results = l.results, l.odd \subseteq k.odd
  PROVE  Holds(g, c, a, W, k)
<1>1. LogOk(k) /\ Clean(c, a, W, k, g[0])
  <2>1. LogOk(k)
    BY DEF Holds, LogOk
  <2>2. ResultsOk(c, l, g[0]) => ResultsOk(c, k, g[0])
    BY DEF ResultsOk
  <2>3. LastOk(c, l, g[0]) => LastOk(c, k, g[0])
    BY DEF LastOk, Out
  <2>4. DueOk(c, l, g[0]) => DueOk(c, k, g[0])
    BY DEF DueOk, Out
  <2> QED BY <2>1, <2>2, <2>3, <2>4 DEF Holds, Clean
<1> QED BY <1>1 DEF Holds

\* What is wanted stays lined up among the openings that are left.
LEMMA LinedEmbedded ==
  ASSUME NEW o, NEW p, NEW h, NEW V, LinedUp(o, V), Len(p) \in Nat,
         \A j \in 1..Len(p) : h[j] \in 1..Len(o) /\ p[j] = o[h[j]],
         \A j, k \in 1..Len(p) : j < k => h[j] < h[k],
         \A v \in V : \A i \in 1..Len(o) : o[i] = v.o => \E j \in 1..Len(p) : h[j] = i
  PROVE  LinedUp(p, V)
<1>1. ASSUME NEW v \in V PROVE \E j \in 1..Len(p) : p[j] = v.o
  <2>1. PICK i \in 1..Len(o) : o[i] = v.o
    BY DEF LinedUp
  <2>2. PICK j \in 1..Len(p) : h[j] = i
    BY <2>1
  <2> QED BY <2>1, <2>2
<1>2. ASSUME NEW v \in V, NEW w \in V, v.rank < w.rank,
             NEW i \in 1..Len(p), NEW j \in 1..Len(p), p[i].m = v.o.m, p[j].m = w.o.m
      PROVE  i < j
  <2> DEFINE x == h[i]
             y == h[j]
  <2>1. x \in 1..Len(o) /\ y \in 1..Len(o) /\ o[x].m = v.o.m /\ o[y].m = w.o.m
    BY <1>2
  <2>2. x < y
    <3>1. \A r, s \in 1..Len(o) : o[r].m = v.o.m /\ o[s].m = w.o.m => r < s
      BY <1>2 DEF LinedUp
    <3> HIDE DEF x, y
    <3> QED BY <2>1, <3>1
  <2>3. j < i => y < x
    OBVIOUS
  <2>4. i = j => x = y
    OBVIOUS
  <2>5. x \in Nat /\ y \in Nat
    BY <2>1
  <2> HIDE DEF x, y
  <2> QED BY <2>2, <2>3, <2>4, <2>5
<1> QED BY <1>1, <1>2 DEF LinedUp

\* An opening is dropped: the openings left are p, each of them where h says it was.
LEMMA DroppedHolds ==
  ASSUME NEW g, NEW c, NEW a, NEW W, NEW l, Holds(g, c, a, W, l), NEW p \in Seq(Openings),
         NEW h, \A j \in 1..Len(p) : h[j] \in 1..Len(c.openings) /\ p[j] = c.openings[h[j]],
         \A j, k \in 1..Len(p) : j < k => h[j] < h[k],
         ~c.exited => \A i \in 1..Len(c.openings) :
           c.openings[i].m \in Turned(l.turns) \union Started(c.stdin) =>
             \E j \in 1..Len(p) : h[j] = i
  PROVE  Holds(g, [c EXCEPT !.openings = p], a, W, l)
<1> DEFINE T == l.turns
           e == [c EXCEPT !.openings = p]
           o == c.openings
<1>1. DriverOk(c) /\ c \in DriverRecord /\ o \in Seq(Openings) /\ Len(p) \in Nat
  BY DriverTypes DEF Holds
<1>2. e \in DriverRecord /\ e.openings = p
  BY <1>1 DEF DriverRecord
<1>3. Calm(c, e)
  BY <1>1 DEF DriverRecord, Calm
<1>4. /\ e.stdin = c.stdin /\ e.said = c.said /\ e.exited = c.exited
      /\ e.steers = c.steers /\ e.waiting = c.waiting /\ e.micro = c.micro
      /\ e.chunk = c.chunk /\ e.pipe = c.pipe /\ e.over = c.over /\ e.state = c.state
  BY <1>1 DEF DriverRecord
<1> HIDE DEF e
<1>5. DriverOk(e)
  BY <1>1, <1>2, <1>3, <1>4 DEF DriverOk, Calm
<1>6. \A j, k \in 1..Len(p) : j <= k => h[j] = h[k] \/ h[j] < h[k]
  <2>1. \A j, k \in 1..Len(p) : j <= k => j = k \/ j < k
    BY <1>1
  <2> QED BY <2>1
<1>7. OpeningsOk(e)
  <2>1. \A i, j \in 1..Len(o) : i <= j => o[i].gen <= o[j].gen
    BY DEF Holds, OpeningsOk
  <2>2. \A i \in 1..Len(o) : c.turnGen <= o[i].gen /\ o[i].gen <= c.gen
    BY DEF Holds, OpeningsOk
  <2>3. \A x, y \in 1..Len(o) : x = y \/ x < y => x <= y
    OBVIOUS
  <2>4. ASSUME NEW i \in 1..Len(p), NEW j \in 1..Len(p), i <= j
        PROVE  p[i].gen <= p[j].gen
    <3>1. h[i] <= h[j] /\ h[i] \in 1..Len(o) /\ h[j] \in 1..Len(o)
      BY <1>6, <2>3, <2>4
    <3> QED BY <2>1, <3>1
  <2> QED BY <1>2, <1>3, <2>2, <2>4 DEF OpeningsOk, Calm
<1>8. AppOk(e, a, W, T) /\ TurnsOk(e, T) /\ AnswersOk(e, W, T)
  <2>1. AppOk(e, a, W, T)
    BY <1>3, <1>4 DEF Holds, AppOk, Calm
  <2> QED BY <1>3, <1>4, <2>1 DEF Holds, TurnsOk, AnswersOk, Calm
<1>9. Clean(e, a, W, l, g[0])
  <2>1. Mild(c, e)
    BY <1>3, <1>4 DEF Mild, Calm, ResultsIn, StopsIn, Doomed
  <2> QED BY <2>1, MildKeeps DEF Holds
<1>10. ASSUME ~c.exited
       PROVE  /\ LinedUp(p, Wanted(T, c.stdin, g[0])) /\ MessagesOk(e, W, T) /\ IdleOk(e, T)
  <2>1. /\ LinedUp(o, Wanted(T, c.stdin, g[0])) /\ MessagesOk(c, W, T) /\ IdleOk(c, T)
    BY <1>10 DEF Holds, Lively
  <2>2. LinedUp(p, Wanted(T, c.stdin, g[0]))
    <3>1. g[0] \in Nat /\ Len(T) \in Nat
      <4>1. Len(W) \in Nat
        BY DEF Holds, AppOk
      <4> QED BY <4>1 DEF Holds, Trace, AppOk
    <3>2. \A n \in (g[0] + 1)..Len(T) : T[n].m \in Turned(T)
      <4>1. \A n \in (g[0] + 1)..Len(T) : n \in 1..Len(T)
        BY <3>1
      <4> QED BY <4>1 DEF Turned
    <3>3. \A k \in Starting(c.stdin) : Opens(c.stdin[k]).m \in Started(c.stdin)
      BY DEF Started, Opens
    <3>4. \A v \in Wanted(T, c.stdin, g[0]) : v.o.m \in Turned(T) \union Started(c.stdin)
      BY <3>2, <3>3 DEF Wanted
    <3>5. \A v \in Wanted(T, c.stdin, g[0]) : \A i \in 1..Len(o) :
            o[i] = v.o => \E j \in 1..Len(p) : h[j] = i
      BY <1>10, <3>4
    <3>6. /\ \A j \in 1..Len(p) : h[j] \in 1..Len(o) /\ p[j] = o[h[j]]
          /\ \A j, k \in 1..Len(p) : j < k => h[j] < h[k]
      OBVIOUS
    <3> DEFINE V == Wanted(T, c.stdin, g[0])
    <3>7. LinedUp(o, V) /\ \A v \in V : \A i \in 1..Len(o) :
            o[i] = v.o => \E j \in 1..Len(p) : h[j] = i
      BY <2>1, <3>5
    <3> HIDE DEF o, V
    <3>8. LinedUp(p, V)
      BY <1>1, <3>6, <3>7, LinedEmbedded
    <3> QED BY <3>8 DEF V
  <2>3. Started(e.stdin) = Started(c.stdin) /\ Refused(e, W) = Refused(c, W) /\ Steers(e) = Steers(c)
    BY <1>4 DEF Refused, Steers, Kept
  <2>4. Opened(e, W, T) \subseteq Opened(c, W, T)
    <3>1. {p[i].m : i \in 1..Len(p)} \subseteq {o[i].m : i \in 1..Len(o)}
      OBVIOUS
    <3> QED BY <1>2, <2>3, <3>1 DEF Opened
  <2>5. OnePlace(e)
    <3>1. \A i, j \in 1..Len(o) : o[i].m = o[j].m => i = j
      BY <2>1 DEF MessagesOk, OnePlace
    <3>2. \A i, j \in 1..Len(p) : i = j \/ i < j \/ j < i
      OBVIOUS
    <3>3. \A x, y \in 1..Len(o) : x < y => x # y
      OBVIOUS
    <3>4. ASSUME NEW i \in 1..Len(p), NEW j \in 1..Len(p), p[i].m = p[j].m PROVE i = j
      <4>1. h[i] \in 1..Len(o) /\ h[j] \in 1..Len(o) /\ o[h[i]].m = o[h[j]].m
        BY <3>4
      <4>2. h[i] = h[j]
        BY <3>1, <4>1
      <4> QED BY <3>2, <3>3, <4>1, <4>2
    <3> QED BY <1>2, <1>4, <2>1, <3>4 DEF MessagesOk, OnePlace, Kept
  <2>6. MessagesOk(e, W, T)
    BY <1>4, <2>1, <2>3, <2>4, <2>5 DEF MessagesOk
  <2>7. IdleOk(e, T)
    <3>1. ASSUME NEW n \in 1..Len(T), Has(o, T[n]) PROVE Has(p, T[n])
      <4>1. PICK i \in 1..Len(o) : o[i] = T[n]
        BY <3>1 DEF Has
      <4>2. o[i].m \in Turned(T)
        BY <4>1 DEF Turned
      <4>3. PICK j \in 1..Len(p) : h[j] = i
        BY <1>10, <4>2
      <4> QED BY <4>1, <4>3 DEF Has
    <3>2. c.cur # 0 => c.cur \in 1..Len(T)
      <4>1. Len(T) \in Nat
        BY DEF Holds, AppOk
      <4> QED BY <4>1 DEF Holds, TurnsOk
    <3>3. \A i \in 1..Len(c.micro) : c.micro[i].req.kind = "start" /\ c.micro[i].ok =>
            c.micro[i].turn \in 1..Len(T)
      BY DEF Holds, AnswersOk
    <3>4. ASSUME e.state = "idle", e.active, e.cur # 0, e.over = "none"
          PROVE  Has(e.openings, T[e.cur])
      <4>1. c.cur \in 1..Len(T) /\ Has(o, T[c.cur])
        BY <1>3, <1>4, <2>1, <3>2, <3>4 DEF IdleOk, Calm
      <4> QED BY <1>2, <1>3, <3>1, <4>1 DEF Calm
    <3>5. ASSUME e.state = "idle", NEW i \in 1..Len(e.micro), e.micro[i].req.kind = "start",
                 e.micro[i].ok, e.micro[i].req.gen = e.gen
          PROVE  Has(e.openings, T[e.micro[i].turn])
      <4>1. c.micro[i].turn \in 1..Len(T) /\ Has(o, T[c.micro[i].turn])
        BY <1>3, <1>4, <2>1, <3>3, <3>5 DEF IdleOk, Calm
      <4> QED BY <1>2, <1>4, <3>1, <4>1
    <3> QED BY <3>4, <3>5 DEF IdleOk
  <2> QED BY <2>2, <2>6, <2>7
<1>11. Lively(e, a, W, T, g)
  BY <1>2, <1>4, <1>10 DEF Holds, Lively
<1> QED BY <1>5, <1>7, <1>8, <1>9, <1>11 DEF Holds, e

\* So is that of a message whose start was refused.
Release(c, m) == [c EXCEPT !.openings = Filter(@, {o \in ToSet(@) : o.m # m})]

\* A start that failed gives its opening back.
LEMMA ReleasedHolds ==
  ASSUME NEW g, NEW c, NEW a, NEW W, NEW l, Holds(g, c, a, W, l), NEW m,
         ~c.exited => m \notin Turned(l.turns) \union Started(c.stdin)
  PROVE  Holds(g, Release(c, m), a, W, l)
<1> DEFINE q == c.openings
           S == {o \in ToSet(q) : o.m # m}
           p == Filter(q, S)
<1>1. c \in DriverRecord /\ q \in Seq(Openings)
  BY DriverTypes DEF Holds
<1>2. p \in Seq(Openings)
  BY <1>1, FilterProperties
<1>3. PICK h : Embeds(h, q, S)
  BY <1>1, FilterProperties
<1>4. /\ \A j \in 1..Len(p) : h[j] \in 1..Len(q) /\ p[j] = q[h[j]]
      /\ \A j, k \in 1..Len(p) : j < k => h[j] < h[k]
      /\ \A i \in 1..Len(q) : q[i] \in S => \E j \in 1..Len(p) : h[j] = i
  BY <1>3 DEF Embeds
<1>5. \A i \in 1..Len(q) : q[i].m # m => q[i] \in S
  BY <1>1 DEF ToSet
<1>6. Release(c, m) = [c EXCEPT !.openings = p]
  BY <1>1 DEF DriverRecord, Release
<1> HIDE DEF p, S
<1>7. ~c.exited => \A i \in 1..Len(q) :
        q[i].m \in Turned(l.turns) \union Started(c.stdin) => \E j \in 1..Len(p) : h[j] = i
  BY <1>4, <1>5
<1>8. Holds(g, [c EXCEPT !.openings = p], a, W, l)
  BY <1>2, <1>4, <1>7, DroppedHolds
<1> QED BY <1>6, <1>8

\* No turn is live any longer.
LEMMA TurnOverShrinks ==
  ASSUME NEW c, DriverOk(c)
  PROVE  LET e == TurnOver(c)
         IN  /\ DriverOk(e) /\ Shrinks(c, e) /\ e.active = FALSE /\ e.cur = 0 /\ Alike(c, e)
             /\ e.chain = c.chain /\ e.finished = c.finished /\ e.sync = c.sync
             /\ e.text = c.text /\ e.emitted = c.emitted
<1> DEFINE e == TurnOver(c)
<1>1. c \in DriverRecord
  BY DriverTypes
<1>2. e \in DriverRecord /\ e.active = FALSE /\ e.cur = 0 /\ Alike(c, e)
  BY <1>1 DEF DriverRecord, Alike, TurnOver
<1>3. /\ e.chain = c.chain /\ e.micro = c.micro /\ e.chunk = c.chunk /\ e.pipe = c.pipe
      /\ e.finished = c.finished /\ e.over = c.over /\ e.sync = c.sync
      /\ e.text = c.text /\ e.state = c.state /\ e.emitted = c.emitted
  BY <1>1 DEF DriverRecord, TurnOver
<1> HIDE DEF e
<1>4. DriverOk(e)
  BY <1>1, <1>2, <1>3 DEF DriverOk, Alike
<1>5. Shrinks(c, e)
  <2>1. ThinOn(c.micro, Answering(c.micro), e.micro, Answering(e.micro))
    BY <1>1, <1>3, DriverTypes, MicrosThin
  <2> QED BY <1>1, <1>2, <1>3, <2>1, AlikeShrinks
<1> QED BY <1>2, <1>3, <1>4, <1>5 DEF e

\* As when a reaction is chained that ends the session.
LEMMA HaltedHolds ==
  ASSUME NEW g, NEW c, NEW a, NEW W, NEW l, Holds(g, c, a, W, l), Doomed(c)
  PROVE  Holds(g, TurnOver(c), a, W, l)
<1>1. DriverOk(c)
  BY DEF Holds
<1>2. Mild(c, TurnOver(c))
  BY <1>1, TurnOverShrinks DEF Mild, Alike, ResultsIn, StopsIn, Doomed
<1> QED BY <1>1, <1>2, TurnOverShrinks, FineKeeps DEF Fine

\* A start is answered.
LEMMA StartAnsweredHolds ==
  ASSUME NEW g, NEW c, NEW a, NEW W, NEW l, Holds(g, c, a, W, l), NEW x,
         x.turn \in 1..Len(l.turns), l.turns[x.turn].gen = x.req.gen,
         ~c.exited /\ c.state = "idle" /\ x.req.gen = c.gen =>
           Has(c.openings, l.turns[x.turn])
  PROVE  Holds(g, StartAnswered(c, x), a, W, l)
<1> DEFINE T == l.turns
           n == x.turn
           e == [c EXCEPT !.cur = x.turn]
           h == g[0]
<1>1. CASE c.gen # x.req.gen \/ c.finished \/ c.cur # 0
  BY <1>1 DEF StartAnswered
<1>2. CASE c.gen = x.req.gen /\ ~c.finished /\ c.cur = 0
  <2>1. DriverOk(c) /\ c \in DriverRecord /\ Len(T) \in Nat /\ n \in Nat
    BY DriverTypes DEF Holds, AppOk
  <2>2. e \in DriverRecord /\ e.cur = n
    BY <2>1 DEF DriverRecord
  <2>3. /\ e.chain = c.chain /\ e.sync = c.sync /\ e.emitted = c.emitted /\ e.text = c.text
        /\ e.active = c.active /\ e.finished = c.finished /\ e.gen = c.gen
        /\ e.turnGen = c.turnGen /\ e.openings = c.openings
    BY <2>1 DEF DriverRecord
  <2>4. /\ e.stdin = c.stdin /\ e.said = c.said /\ e.exited = c.exited
        /\ e.steers = c.steers /\ e.waiting = c.waiting /\ e.micro = c.micro
        /\ e.chunk = c.chunk /\ e.pipe = c.pipe /\ e.over = c.over /\ e.state = c.state
    BY <2>1 DEF DriverRecord
  <2> HIDE DEF e
  <2>5. DriverOk(e)
    BY <2>1, <2>2, <2>3, <2>4 DEF DriverOk
  <2>6. OpeningsOk(e) /\ AppOk(e, a, W, T) /\ AnswersOk(e, W, T)
    <3>1. AppOk(e, a, W, T)
      BY <2>4 DEF Holds, AppOk
    <3> QED BY <2>3, <2>4, <3>1 DEF Holds, OpeningsOk, AnswersOk
  <2>7. TurnsOk(e, T)
    BY <1>2, <2>1, <2>2, <2>3 DEF Holds, TurnsOk
  <2>8. ASSUME ~c.exited PROVE MessagesOk(e, W, T) /\ IdleOk(e, T)
    <3>1. MessagesOk(c, W, T) /\ IdleOk(c, T)
      BY <2>8 DEF Holds, Lively
    <3>2. /\ Opened(e, W, T) = Opened(c, W, T) /\ Refused(e, W) = Refused(c, W)
          /\ Steers(e) = Steers(c)
      BY <2>3, <2>4 DEF Opened, Refused, Steers, Kept
    <3>3. OnePlace(e)
      BY <2>3, <2>4, <3>1 DEF MessagesOk, OnePlace, Kept
    <3>4. MessagesOk(e, W, T)
      BY <2>4, <3>1, <3>2, <3>3 DEF MessagesOk
    <3>5. c.state = "idle" => Has(c.openings, T[n])
      BY <1>2, <2>8
    <3>6. IdleOk(e, T)
      BY <2>2, <2>3, <2>4, <3>1, <3>5 DEF IdleOk
    <3> QED BY <3>4, <3>6
  <2>9. Lively(e, a, W, T, g)
    BY <2>3, <2>4, <2>8 DEF Holds, Lively
  <2>10. Clean(e, a, W, l, h)
    <3> SUFFICES ASSUME "crossed" \notin l.odd
                 PROVE  /\ h <= Len(T)
                        /\ ResultsOk(e, l, h) /\ LastOk(e, l, h) /\ DueOk(e, l, h)
                        /\ StopsOk(e, a, W, T)
      BY DEF Clean
    <3>1. /\ h <= Len(T)
          /\ ResultsOk(c, l, h) /\ LastOk(c, l, h) /\ DueOk(c, l, h) /\ StopsOk(c, a, W, T)
      BY DEF Holds, Clean
    <3>2. ResultsOk(e, l, h)
      BY <2>3, <3>1 DEF ResultsOk
    <3>3. Doomed(e) <=> Doomed(c)
      BY <2>3 DEF Doomed
    <3>4. h # 0 => ~(c.active /\ c.cur = h)
      BY <1>2
    <3>5. LastOk(e, l, h)
      BY <2>3, <3>1, <3>3, <3>4 DEF LastOk
    <3>6. DueOk(e, l, h)
      BY <2>3, <3>1, <3>3 DEF DueOk
    <3>7. StopsOk(e, a, W, T)
      BY <2>3, <2>4, <3>1 DEF StopsOk, Withdrawn
    <3> QED BY <3>1, <3>2, <3>5, <3>6, <3>7
  <2>11. Holds(g, e, a, W, l)
    BY <2>5, <2>6, <2>7, <2>9, <2>10 DEF Holds
  <2>12. StartAnswered(c, x) = FlushSteers(e)
    BY <1>2 DEF StartAnswered, e
  <2> QED BY <2>11, <2>12, FlushHolds
<1> QED BY <1>1, <1>2

\* A start failed: its opening goes, and unless it was withdrawn the session with it.
LEMMA StartFailedHolds ==
  ASSUME NEW g, NEW c, NEW a, NEW W, NEW l, Holds(g, c, a, W, l), NEW x,
         ~c.exited => x.req.m \notin Turned(l.turns) \union Started(c.stdin)
  PROVE  Holds(g, StartFailed(c, x), a, W, l)
<1> DEFINE r == Release(c, x.req.m)
           e == Chain(r, "fail", 0, 0)
<1>1. Holds(g, r, a, W, l)
  BY ReleasedHolds
<1>2. CASE c.gen # x.req.gen \/ c.finished
  BY <1>1, <1>2 DEF StartFailed, Release
<1>3. CASE ~(c.gen # x.req.gen \/ c.finished)
  <2>1. StartFailed(c, x) = Chain([r EXCEPT !.active = FALSE, !.cur = 0], "fail", 0, 0)
    BY <1>3 DEF StartFailed, Release
  <2> HIDE DEF r
  <2>2. DriverOk(r) /\ r \in DriverRecord
    BY <1>1, DriverTypes DEF Holds
  <2>3. Chain([r EXCEPT !.active = FALSE, !.cur = 0], "fail", 0, 0)
          = TurnOver(e)
    BY <2>2 DEF Chain, Later, DriverRecord, TurnOver
  <2>4. Doomed(e) /\ Holds(g, e, a, W, l)
    BY <1>1, <2>2, ChainFine, ChainHolds
  <2> HIDE DEF e
  <2>5. Holds(g, TurnOver(e), a, W, l)
    BY <2>4, HaltedHolds
  <2> QED BY <2>1, <2>3, <2>5
<1> QED BY <1>2, <1>3

\* The next microtask, of the driver that still had it.
LEMMA NextMicro ==
  ASSUME NEW g, NEW c, NEW a, NEW W, NEW l, Holds(g, c, a, W, l), c.micro # <<>>
  PROVE  LET x == Head(c.micro)
             e == [c EXCEPT !.micro = Tail(@), !.chunk = FALSE]
         IN  /\ Holds(g, e, a, W, l) /\ x \in Micros /\ e.gen = c.gen
             /\ x.req.kind = "chain" =>
                  e.chain # <<>> /\ e.sync = "none" /\ NoneChained(e.micro)
             /\ x.req.kind = "start" /\ x.ok =>
                  /\ x.turn \in 1..Len(l.turns) /\ l.turns[x.turn] = Opens(x.req)
                  /\ ~e.exited /\ e.state = "idle" /\ x.req.gen = e.gen =>
                       Has(e.openings, l.turns[x.turn])
             /\ ~e.exited /\ x.req.kind = "start" /\ ~x.ok =>
                  /\ x.req.m <= e.said /\ x.req.m \notin Steers(e)
                  /\ x.req.m \notin Turned(l.turns) \union Started(e.stdin)
             /\ x.req.kind = "steer" => New(e, W, l.turns, x.req.m)
<1> DEFINE x == Head(c.micro)
           e == [c EXCEPT !.micro = Tail(@), !.chunk = FALSE]
           T == l.turns
<1>1. DriverOk(c) /\ c \in DriverRecord /\ c.micro \in Seq(Micros)
  BY DriverTypes DEF Holds
<1>2. x = c.micro[1] /\ 1 \in 1..Len(c.micro) /\ x \in Micros
  BY <1>1, TailAt
<1>3. /\ Fine(c, e) /\ e.micro = Tail(c.micro) /\ Alike(c, e)
      /\ x.req.kind = "chain" => e.chain # <<>> /\ e.sync = "none" /\ NoneChained(e.micro)
  BY <1>1, MicroTaken
<1>4. e.state = c.state
  BY <1>1 DEF DriverRecord
<1> HIDE DEF e, x
<1>5. Holds(g, e, a, W, l)
  BY <1>3, FineKeeps
<1>6. x.req.kind = "start" /\ x.ok =>
        /\ x.turn \in 1..Len(T) /\ T[x.turn] = Opens(x.req)
        /\ ~e.exited /\ e.state = "idle" /\ x.req.gen = e.gen => Has(e.openings, T[x.turn])
  <2>1. AnswersOk(c, W, T) /\ (~c.exited => IdleOk(c, T))
    BY DEF Holds, Lively
  <2>2. x.req.kind = "start" /\ x.ok => x.turn \in 1..Len(T) /\ T[x.turn] = Opens(x.req)
    BY <1>2, <2>1 DEF AnswersOk
  <2>3. ~c.exited /\ c.state = "idle" /\ x.req.kind = "start" /\ x.ok /\ x.req.gen = c.gen =>
          Has(c.openings, T[x.turn])
    BY <1>2, <2>1 DEF IdleOk
  <2> QED BY <1>3, <1>4, <2>2, <2>3 DEF Alike
<1>7. ASSUME ~c.exited PROVE MessagesOk(c, W, T) /\ Steers(e) \subseteq Steers(c)
                             /\ Opened(e, W, T) \subseteq Opened(c, W, T)
  <2>1. \A i \in 1..Len(Tail(c.micro)) :
          i + 1 \in 1..Len(c.micro) /\ Tail(c.micro)[i] = c.micro[i + 1]
    BY <1>1, TailAt
  <2>2. Told(e.micro) \subseteq Told(c.micro)
    <3>1. \A i \in Settled(e.micro) : i + 1 \in Settled(c.micro) /\ e.micro[i] = c.micro[i + 1]
      BY <1>3, <2>1 DEF Settled
    <3> QED BY <3>1 DEF Told
  <2>3. Refused(e, W) \subseteq Refused(c, W)
    <3> DEFINE F(q) == {k \in 1..Len(q) : q[k].req.kind = "start" /\ ~q[k].ok}
    <3>1. \A i \in F(e.micro) : i + 1 \in F(c.micro) /\ e.micro[i] = c.micro[i + 1]
      BY <1>3, <2>1
    <3> QED BY <3>1 DEF Refused
  <2>4. Steers(e) \subseteq Steers(c)
    BY <1>3, <2>2 DEF Steers, Kept, Alike
  <2>5. Opened(e, W, T) \subseteq Opened(c, W, T)
    BY <1>3, <2>3 DEF Opened, Alike
  <2> QED BY <1>7, <2>4, <2>5 DEF Holds, Lively
<1>8. ASSUME ~e.exited, x.req.kind = "start", ~x.ok
      PROVE  /\ x.req.m <= e.said /\ x.req.m \notin Steers(e)
             /\ x.req.m \notin Turned(T) \union Started(e.stdin)
  <2>1. ~c.exited
    BY <1>3, <1>8 DEF Alike
  <2>2. x.req.m \in Refused(c, W) /\ x.req.m \in Opened(c, W, T)
    <3>1. 1 \in {k \in 1..Len(c.micro) : c.micro[k].req.kind = "start" /\ ~c.micro[k].ok}
      BY <1>2, <1>8
    <3>2. x.req.m \in Refused(c, W)
      BY <1>2, <3>1 DEF Refused
    <3> QED BY <3>2 DEF Opened
  <2> QED BY <1>3, <1>7, <2>1, <2>2 DEF MessagesOk, Alike
<1>9. ASSUME x.req.kind = "steer" PROVE New(e, W, T, x.req.m)
  <2>1. x.req.m \in Nat
    BY <1>2 DEF Micros, Reqs
  <2>2. ASSUME ~e.exited
        PROVE  x.req.m <= e.said /\ x.req.m \notin Opened(e, W, T) \union Steers(e)
    <3>1. ~c.exited
      BY <1>3, <2>2 DEF Alike
    <3>2. 1 \in Settled(c.micro) /\ x.req.m \in Told(c.micro) /\ x.req.m \in Steers(c)
      BY <1>2, <1>9 DEF Settled, Told, Steers
    <3>3. MessagesOk(c, W, T) /\ OnePlace(c)
      BY <1>7, <3>1 DEF MessagesOk
    <3>4. x.req.m <= e.said /\ x.req.m \notin Opened(e, W, T)
      BY <1>3, <1>7, <3>1, <3>2, <3>3 DEF MessagesOk, Alike
    <3>5. x.req.m \notin Told(e.micro)
      <4> SUFFICES ASSUME NEW i \in Settled(e.micro), e.micro[i].req.m = x.req.m PROVE FALSE
        BY DEF Told
      <4>1. i \in Nat /\ i \in 1..Len(Tail(c.micro)) /\ i + 1 \in 1..Len(c.micro)
            /\ e.micro[i] = c.micro[i + 1]
        BY <1>1, <1>3, TailAt DEF Settled
      <4>2. i + 1 \in Settled(c.micro)
        BY <4>1 DEF Settled
      <4>3. 1 = i + 1
        BY <1>2, <3>2, <3>3, <4>1, <4>2 DEF OnePlace
      <4> QED BY <4>1, <4>3
    <3>6. x.req.m \notin Kept(e) \union Steered(e.waiting)
      BY <1>3, <3>2, <3>3 DEF OnePlace, Kept, Alike
    <3> QED BY <3>4, <3>5, <3>6 DEF Steers
  <2> QED BY <2>1, <2>2 DEF New
<1> QED BY <1>2, <1>3, <1>5, <1>6, <1>8, <1>9 DEF e, x, Alike

\* A microtask runs.
LEMMA RunMicroKeeps == ASSUME Heard, RunMicro PROVE Heard'
<1> DEFINE x == Head(d.micro)
           c == [d EXCEPT !.micro = Tail(@), !.chunk = FALSE]
           crossed == [log EXCEPT !.odd = @ \union {"crossed"}]
<1>1. PICK g : Holds(g, d, app, stdout, log)
  BY DEF Heard
<1>2. d.micro # <<>> /\ app' = app /\ stdout' = stdout
  BY DEF RunMicro
<1>3. \/ x.req.kind = "chain" /\ d' = React(c)
      \/ x.req.kind = "start" /\ x.ok /\ d' = StartAnswered(c, x)
      \/ /\ x.req.kind = "start" /\ ~x.ok
         /\ d' = IF x.tick = 1 THEN Later(c, [x EXCEPT !.tick = 2]) ELSE StartFailed(c, x)
      \/ x.req.kind = "steer" /\ d' = IF x.ok THEN c ELSE SteerFailed(c, x)
      \/ x.req.kind = "late" /\ d' = c
      \/ x.req.kind = "stop" /\ (d' = Chain(c, "finish", 0, 0) \/ d' = c)
  BY DEF RunMicro
<1>4. log' = [log EXCEPT !.odd = IF Overrides(x) THEN @ \union {"crossed"} ELSE @]
  BY DEF RunMicro
<1>5. DriverOk(d) /\ d \in DriverRecord /\ log \in LogRecord /\ d.micro \in Seq(Micros)
  BY <1>1, DriverTypes DEF Holds, LogOk
<1>6. log' = log \/ log' = crossed
  BY <1>4, <1>5 DEF LogRecord
<1>7. c.active = d.active /\ c.cur = d.cur /\ c.finished = d.finished /\ c.gen = d.gen
  BY <1>5 DEF DriverRecord
<1>8. Overrides(x) => log' = crossed
  BY <1>4
<1>9. /\ Holds(g, c, app, stdout, log) /\ x \in Micros
      /\ x.req.kind = "chain" => c.chain # <<>> /\ c.sync = "none" /\ NoneChained(c.micro)
      /\ x.req.kind = "start" /\ x.ok =>
           /\ x.turn \in 1..Len(log.turns) /\ log.turns[x.turn] = Opens(x.req)
           /\ ~c.exited /\ c.state = "idle" /\ x.req.gen = c.gen =>
                Has(c.openings, log.turns[x.turn])
      /\ ~c.exited /\ x.req.kind = "start" /\ ~x.ok =>
           /\ x.req.m <= c.said /\ x.req.m \notin Steers(c)
           /\ x.req.m \notin Turned(log.turns) \union Started(c.stdin)
      /\ x.req.kind = "steer" => New(c, stdout, log.turns, x.req.m)
  BY <1>1, <1>2, NextMicro
<1> HIDE DEF c, x
<1>10. /\ crossed \in LogRecord /\ crossed.turns = log.turns /\ crossed.due = log.due
       /\ crossed.results = log.results /\ crossed.odd = log.odd \union {"crossed"}
  BY <1>5 DEF LogRecord
<1> HIDE DEF crossed
<1>11. Holds(g, c, app, stdout, crossed)
  BY <1>9, <1>10, OddHolds
<1>12. Holds(g, c, app, stdout, log') /\ log'.turns = log.turns
  BY <1>6, <1>9, <1>10, <1>11
<1>13. CASE x.req.kind = "chain" /\ d' = React(c)
  <2>1. Holds(g, React(c), app, stdout, log')
    BY <1>9, <1>12, <1>13, ReactHolds
  <2> QED BY <1>2, <1>13, <2>1 DEF Heard
<1>14. CASE x.req.kind = "start" /\ x.ok /\ d' = StartAnswered(c, x)
  <2>1. log.turns[x.turn].gen = x.req.gen
    BY <1>9, <1>14 DEF Opens
  <2>2. Holds(g, StartAnswered(c, x), app, stdout, log')
    BY <1>9, <1>12, <1>14, <2>1, StartAnsweredHolds
  <2> QED BY <1>2, <1>14, <2>2 DEF Heard
<1>15. CASE x.req.kind = "start" /\ ~x.ok
            /\ d' = IF x.tick = 1 THEN Later(c, [x EXCEPT !.tick = 2]) ELSE StartFailed(c, x)
  <2> DEFINE y == [x EXCEPT !.tick = 2]
  <2>1. y \in Micros /\ y.req = x.req /\ y.ok = x.ok
    BY <1>9 DEF Micros
  <2> HIDE DEF y
  <2>2. Fits(c, stdout, log'.turns, y)
    BY <1>9, <1>12, <1>15, <2>1 DEF Fits
  <2>3. Holds(g, Later(c, y), app, stdout, log')
    BY <1>12, <2>2, MicroHolds
  <2>4. Holds(g, StartFailed(c, x), app, stdout, log')
    BY <1>9, <1>12, <1>15, StartFailedHolds
  <2> QED BY <1>2, <1>15, <2>3, <2>4 DEF Heard, y
<1>16. CASE x.req.kind = "steer" /\ d' = IF x.ok THEN c ELSE SteerFailed(c, x)
  <2>1. CASE d' = c
    BY <1>2, <1>12, <2>1 DEF Heard
  <2>2. CASE ~x.ok /\ d' = StartTurn(c, x.req.m) /\ c.gen = x.req.gen /\ ~c.finished
    <3>1. d.cur # 0 => Overrides(x)
      <4>1. SUFFICES ASSUME d.cur # 0 PROVE SteerFailed(d, x) # d
        BY <1>16, <2>2 DEF Overrides
      <4> DEFINE m == x.req.m
                 e == [d EXCEPT !.active = TRUE, !.cur = 0,
                                !.openings = Append(@, [m |-> m, gen |-> d.gen])]
                 r == Req("start", m, d.gen, 0)
      <4>2. SteerFailed(d, x) = Request(e, r)
        BY <1>7, <2>2 DEF SteerFailed, StartTurn
      <4>3. e.cur = 0
        BY <1>5 DEF DriverRecord
      <4>4. \A f : f \in DriverRecord /\ f.cur = 0 => Request(f, r).cur = 0
        BY DEF Request, Requests, DriverRecord
      <4>5. e \in DriverRecord
        <5>1. m \in Nat /\ d.gen \in Nat /\ d.openings \in Seq(Openings)
          BY <1>5, <1>9, DriverTypes DEF Micros, Reqs
        <5>2. [m |-> m, gen |-> d.gen] \in Openings
          BY <5>1 DEF Openings
        <5> DEFINE o == Append(d.openings, [m |-> m, gen |-> d.gen])
        <5>3. o \in Seq(Openings)
          BY <5>1, <5>2, AppendAt
        <5>4. e = [d EXCEPT !.active = TRUE, !.cur = 0, !.openings = o]
          BY <1>5 DEF DriverRecord
        <5> HIDE DEF o, e
        <5> QED BY <1>5, <5>3, <5>4 DEF DriverRecord
      <4> HIDE DEF e
      <4> QED BY <4>1, <4>2, <4>3, <4>4, <4>5
    <3>2. "crossed" \notin log'.odd => ~c.active \/ c.cur = 0
      BY <1>7, <1>8, <1>10, <3>1
    <3>3. Holds(g, StartTurn(c, x.req.m), app, stdout, log')
      BY <1>9, <1>12, <1>16, <3>2, StartHolds
    <3> QED BY <1>2, <2>2, <3>3 DEF Heard
  <2> QED BY <1>16, <2>1, <2>2 DEF SteerFailed
<1>17. CASE x.req.kind \in {"late", "stop"} /\ (d' = Chain(c, "finish", 0, 0) \/ d' = c)
  <2>1. Holds(g, Chain(c, "finish", 0, 0), app, stdout, log')
    BY <1>12, ChainHolds
  <2> QED BY <1>2, <1>12, <1>17, <2>1 DEF Heard
<1> QED BY <1>3, <1>13, <1>14, <1>15, <1>16, <1>17

-----------------------------------------------------------------------------
(* The lines of the app-server                                               *)

\* No turn starts before the last one the driver has heard.
LEMMA TraceRises ==
  ASSUME NEW g, NEW W \in Seq(Lines), Trace(g, W)
  PROVE  g[0] \in Nat /\ g[0] <= g[Len(W)]
<1> DEFINE S == {n \in Nat : n <= Len(W) => g[0] <= g[n]}
<1>1. Len(W) \in Nat /\ \A n \in 0..Len(W) : g[n] \in Nat
  BY DEF Trace
<1>2. g[0] \in Nat
  BY <1>1
<1>3. 0 \in S
  BY <1>2
<1>4. ASSUME NEW n \in Nat, n \in S PROVE n + 1 \in S
  <2> SUFFICES ASSUME n + 1 <= Len(W) PROVE g[0] <= g[n + 1]
    OBVIOUS
  <2>1. n \in 0..Len(W) /\ n + 1 \in 1..Len(W) /\ n + 1 \in 0..Len(W) /\ (n + 1) - 1 = n
    BY <1>1
  <2>2. g[0] <= g[n] /\ g[n] \in Nat /\ g[n + 1] \in Nat
    BY <1>1, <1>4, <2>1
  <2>3. g[n + 1] = g[n] + 1 \/ g[n + 1] = g[n]
    BY <2>1 DEF Trace
  <2> QED BY <1>2, <2>2, <2>3
<1> HIDE DEF S
<1>5. Nat \subseteq S
  BY <1>3, <1>4, SetInduction
<1>6. Len(W) \in S
  BY <1>1, <1>5
<1>7. Len(W) <= Len(W)
  BY <1>1
<1> QED BY <1>2, <1>6, <1>7 DEF S

\* What the driver has heard once it has read a line.
Further(g, W) == [j \in 0..Len(Tail(W)) |-> g[j + 1]]

\* It is a trace of the lines left.
LEMMA TraceTail ==
  ASSUME NEW g, NEW W \in Seq(Lines), Trace(g, W), W # <<>>
  PROVE  /\ Trace(Further(g, W), Tail(W)) /\ Further(g, W)[0] = g[1]
         /\ Further(g, W)[Len(Tail(W))] = g[Len(W)]
<1> DEFINE f == Further(g, W)
           V == Tail(W)
<1>1. /\ V \in Seq(Lines) /\ Len(W) \in Nat /\ Len(V) = Len(W) - 1 /\ 1 \in 1..Len(W)
      /\ \A i \in 1..Len(V) : i \in Nat /\ i + 1 \in 1..Len(W) /\ V[i] = W[i + 1]
  BY TailAt
<1>2. \A j \in 0..Len(V) : j + 1 \in 0..Len(W)
  BY <1>1
<1>3. /\ Len(V) \in Nat /\ 0 \in 0..Len(V) /\ Len(V) \in 0..Len(V)
      /\ \A j \in 1..Len(V) : j \in 0..Len(V) /\ j - 1 \in 0..Len(V)
  BY <1>1
<1> HIDE DEF V
<1>4. f = [j \in 0..Len(V) |-> g[j + 1]]
  BY DEF Further, V
<1> HIDE DEF f
<1>5. \A j \in 0..Len(V) : f[j] = g[j + 1]
  BY <1>4
<1>6. f \in [0..Len(V) -> Nat]
  BY <1>2, <1>4 DEF Trace
<1>7. ASSUME NEW j \in 1..Len(V)
      PROVE  /\ f[j] = IF V[j].kind = "started" THEN f[j - 1] + 1 ELSE f[j - 1]
             /\ V[j].kind \in {"started", "completed", "interrupted", "error"} =>
                  V[j].turn = f[j] /\ f[j] # 0
             /\ V[j].kind = "result" /\ V[j].req.kind = "start" => f[j] < V[j].turn
  <2>1. f[j] = g[j + 1] /\ f[j - 1] = g[(j - 1) + 1] /\ (j - 1) + 1 = j /\ (j + 1) - 1 = j
    BY <1>3, <1>5
  <2> QED BY <1>1, <2>1 DEF Trace
<1>8. Trace(f, V)
  BY <1>6, <1>7 DEF Trace
<1>9. f[0] = g[1] /\ f[Len(V)] = g[Len(W)]
  <2>1. Len(V) + 1 = Len(W)
    BY <1>1
  <2>2. f[0] = g[0 + 1] /\ f[Len(V)] = g[Len(V) + 1]
    BY <1>3, <1>5
  <2> QED BY <2>1, <2>2
<1> QED BY <1>8, <1>9 DEF f, V

\* The first line the driver reads.
LEMMA FirstLine ==
  ASSUME NEW g, NEW c, NEW a, NEW W, NEW l, Holds(g, c, a, W, l), W # <<>>
  PROVE  /\ W \in Seq(Lines) /\ Head(W) = W[1] /\ 1 \in 1..Len(W) /\ W[1] \in Lines /\ ~c.exited
         /\ g[0] \in Nat /\ g[1] \in Nat /\ g[1] <= Len(l.turns) /\ Len(l.turns) \in Nat
         /\ g[1] = IF W[1].kind = "started" THEN g[0] + 1 ELSE g[0]
         /\ W[1].kind \in {"started", "completed", "interrupted", "error"} =>
              W[1].turn = g[1] /\ g[1] \in 1..Len(l.turns)
         /\ W[1].kind = "result" /\ W[1].req.kind = "start" => g[1] < W[1].turn
<1>1. /\ W \in Seq(Lines) /\ Len(l.turns) \in Nat /\ a.queue \in Seq(Nat)
      /\ (c.exited => W = <<>>)
  BY DEF Holds, AppOk, AppRecord
<1>2. Head(W) = W[1] /\ 1 \in 1..Len(W) /\ W[1] \in Lines /\ Len(W) \in Nat
  BY <1>1, TailAt
<1>3. ~c.exited
  BY <1>1
<1>4. g[0] \in Nat /\ g[1] \in Nat
  BY <1>2 DEF Holds, Trace
<1>5. g[1] <= Len(l.turns)
  <2> DEFINE f == Further(g, W)
  <2>1. Tail(W) \in Seq(Lines)
    BY <1>1, TailAt
  <2>2. Trace(f, Tail(W)) /\ f[0] = g[1] /\ f[Len(Tail(W))] = g[Len(W)]
    BY <1>1, TraceTail DEF Holds
  <2> HIDE DEF f
  <2>3. g[1] <= g[Len(W)]
    BY <2>1, <2>2, TraceRises
  <2>4. g[Len(W)] = Len(l.turns) - Len(a.queue)
    BY <1>3 DEF Holds, Lively
  <2>5. Len(a.queue) \in Nat
    BY <1>1
  <2> DEFINE t == Len(l.turns)
             q == Len(a.queue)
             z == g[Len(W)]
             y == g[1]
  <2>6. t \in Nat /\ q \in Nat /\ y \in Nat /\ y <= z /\ z = t - q
    BY <1>1, <1>4, <2>3, <2>4, <2>5
  <2> HIDE DEF t, q, y, z
  <2>7. y <= t
    BY <2>6
  <2> QED BY <2>7 DEF t, y
<1>6. /\ g[1] = IF W[1].kind = "started" THEN g[0] + 1 ELSE g[0]
      /\ W[1].kind \in {"started", "completed", "interrupted", "error"} =>
           W[1].turn = g[1] /\ g[1] # 0
      /\ W[1].kind = "result" /\ W[1].req.kind = "start" => g[1] < W[1].turn
  <2>1. 1 - 1 = 0
    OBVIOUS
  <2> QED BY <1>2, <2>1 DEF Holds, Trace
<1>7. g[1] # 0 => g[1] \in 1..Len(l.turns)
  BY <1>1, <1>4, <1>5
<1> QED BY <1>1, <1>2, <1>3, <1>4, <1>5, <1>6, <1>7

\* A line is read, but for what its handler does.
LEMMA LineRead ==
  ASSUME NEW g, NEW c, NEW a, NEW W, NEW l, Holds(g, c, a, W, l), W # <<>>,
         W[1].kind # "started"
  PROVE  Holds(Further(g, W), c, a, Tail(W), l) /\ Further(g, W)[0] = g[0]
<1> DEFINE f == Further(g, W)
           V == Tail(W)
           T == l.turns
<1>1. W \in Seq(Lines) /\ ~c.exited /\ g[1] = g[0]
  BY FirstLine
<1>2. /\ V \in Seq(Lines)
      /\ \A i \in 1..Len(V) : i + 1 \in 1..Len(W) /\ V[i] = W[i + 1]
  BY <1>1, TailAt
<1>3. Trace(f, V) /\ f[0] = g[0] /\ f[Len(V)] = g[Len(W)]
  BY <1>1, TraceTail DEF Holds
<1> HIDE DEF f, V
<1>4. AppOk(c, a, V, T)
  BY <1>1, <1>2 DEF Holds, AppOk
<1>5. AnswersOk(c, V, T)
  BY <1>2 DEF Holds, AnswersOk
<1>6. MessagesOk(c, V, T)
  <2>1. MessagesOk(c, W, T)
    BY <1>1 DEF Holds, Lively
  <2>2. Refused(c, V) \subseteq Refused(c, W)
    <3> DEFINE F(q) == {k \in 1..Len(q) : q[k].kind = "refusal" /\ q[k].req.kind = "start"}
    <3>1. \A i \in F(V) : i + 1 \in F(W) /\ V[i] = W[i + 1]
      BY <1>2
    <3> QED BY <3>1 DEF Refused
  <2>3. Opened(c, V, T) \subseteq Opened(c, W, T)
    BY <2>2 DEF Opened
  <2> QED BY <2>1, <2>2, <2>3 DEF MessagesOk
<1>7. Lively(c, a, V, T, f)
  BY <1>1, <1>3, <1>6 DEF Holds, Lively
<1>8. Clean(c, a, V, l, f[0])
  <2>1. StopsOk(c, a, W, T) => StopsOk(c, a, V, T)
    BY <1>2 DEF StopsOk
  <2> QED BY <1>3, <2>1 DEF Holds, Clean
<1>9. Holds(f, c, a, V, l)
  BY <1>3, <1>4, <1>5, <1>7, <1>8 DEF Holds
<1> QED BY <1>3, <1>9 DEF f, V

\* A line was handled in a chunk with others, or alone.
LEMMA ChunkHolds ==
  ASSUME NEW g, NEW c, NEW a, NEW W, NEW l, Holds(g, c, a, W, l)
  PROVE  Holds(g, [c EXCEPT !.chunk = c.micro # <<>>], a, W, l)
<1> DEFINE b == c.micro # <<>>
           e == [c EXCEPT !.chunk = b]
<1>1. DriverOk(c) /\ c \in DriverRecord
  BY DriverTypes DEF Holds
<1>2. b \in BOOLEAN /\ (b => c.micro # <<>>)
  OBVIOUS
<1> HIDE DEF b
<1>3. e \in DriverRecord /\ e.chunk = b
  BY <1>1, <1>2 DEF DriverRecord
<1>4. /\ Alike(c, e) /\ e.chain = c.chain /\ e.micro = c.micro /\ e.pipe = c.pipe
      /\ e.finished = c.finished
  BY <1>1 DEF DriverRecord, Alike
<1>5. /\ e.over = c.over /\ e.sync = c.sync /\ e.cur = c.cur /\ e.active = c.active
      /\ e.text = c.text /\ e.state = c.state /\ e.emitted = c.emitted
  BY <1>1 DEF DriverRecord
<1> HIDE DEF e
<1>6. DriverOk(e)
  BY <1>1, <1>2, <1>3, <1>4, <1>5 DEF DriverOk, Alike
<1>7. Shrinks(c, e)
  <2>1. ThinOn(c.micro, Answering(c.micro), e.micro, Answering(e.micro))
    BY <1>1, <1>4, DriverTypes, MicrosThin
  <2> QED BY <1>1, <1>4, <1>5, <2>1, AlikeShrinks
<1>8. Mild(c, e)
  BY <1>4, <1>5 DEF Mild, Alike, ResultsIn, StopsIn, Doomed
<1>9. Holds(g, e, a, W, l)
  BY <1>6, <1>7, <1>8, FineKeeps DEF Fine
<1> QED BY <1>9 DEF e, b

\* The last text is that of the turn last heard to start.
LEMMA TextHolds ==
  ASSUME NEW g, NEW c, NEW a, NEW W, NEW l, Holds(g, c, a, W, l), g[0] \in Nat
  PROVE  LET e == [c EXCEPT !.text = g[0]]
         IN  Holds(g, e, a, W, l) /\ Calm([c EXCEPT !.text = g[0]], e)
             /\ e.active = c.active /\ e.cur = c.cur /\ e.gen = c.gen
             /\ e.turnGen = c.turnGen /\ e.finished = c.finished
<1> DEFINE h == g[0]
           e == [c EXCEPT !.text = h]
<1>1. DriverOk(c) /\ c \in DriverRecord
  BY DriverTypes DEF Holds
<1>2. e \in DriverRecord /\ e.text = h
  BY <1>1 DEF DriverRecord
<1>3. /\ Alike(c, e) /\ e.chain = c.chain /\ e.micro = c.micro /\ e.pipe = c.pipe
      /\ e.finished = c.finished
  BY <1>1 DEF DriverRecord, Alike
<1>4. /\ e.over = c.over /\ e.sync = c.sync /\ e.cur = c.cur /\ e.active = c.active
      /\ e.chunk = c.chunk /\ e.state = c.state /\ e.emitted = c.emitted
  BY <1>1 DEF DriverRecord
<1> HIDE DEF e
<1>5. DriverOk(e)
  BY <1>1, <1>2, <1>3, <1>4 DEF DriverOk, Alike
<1>6. Shrinks(c, e)
  <2>1. ThinOn(c.micro, Answering(c.micro), e.micro, Answering(e.micro))
    BY <1>1, <1>3, DriverTypes, MicrosThin
  <2> QED BY <1>1, <1>3, <1>4, <2>1, AlikeShrinks
<1>7. /\ OpeningsOk(e) /\ AppOk(e, a, W, l.turns) /\ TurnsOk(e, l.turns)
      /\ AnswersOk(e, W, l.turns) /\ Lively(e, a, W, l.turns, g)
  BY <1>5, <1>6, ShrinksKeeps, Zenon DEF Holds
<1>8. Clean(e, a, W, l, h)
  <2> SUFFICES ASSUME "crossed" \notin l.odd
               PROVE  /\ h <= Len(l.turns)
                      /\ ResultsOk(e, l, h) /\ LastOk(e, l, h) /\ DueOk(e, l, h)
                      /\ StopsOk(e, a, W, l.turns)
    BY DEF Clean
  <2>1. /\ h <= Len(l.turns)
        /\ ResultsOk(c, l, h) /\ LastOk(c, l, h) /\ DueOk(c, l, h) /\ StopsOk(c, a, W, l.turns)
    BY DEF Holds, Clean
  <2>2. ResultsOk(e, l, h)
    BY <1>2, <1>3, <1>4, <2>1 DEF ResultsOk, Alike
  <2>3. LastOk(e, l, h)
    BY <1>2, <1>3, <1>4, <2>1 DEF LastOk, Alike, Doomed
  <2>4. DueOk(e, l, h) /\ StopsOk(e, a, W, l.turns)
    BY <1>3, <1>4, <2>1 DEF DueOk, StopsOk, Alike, Doomed, Withdrawn
  <2> QED BY <2>1, <2>2, <2>3, <2>4
<1>9. Holds(g, e, a, W, l)
  BY <1>5, <1>7, <1>8 DEF Holds
<1> QED BY <1>3, <1>4, <1>9 DEF e, Alike, Calm

\* What a turn owes that has ended: if it was not withdrawn, a result.
Owes(l, k, h, gen) ==
  /\ k \in LogRecord /\ k.turns = l.turns /\ k.results = l.results /\ k.odd = l.odd
  /\ k.due = IF l.turns[h].gen = gen THEN l.due \union {h} ELSE l.due

\* It is not the live one, so the session is to end.
LEMMA DueHolds ==
  ASSUME NEW g, NEW c, NEW a, NEW W, NEW l, Holds(g, c, a, W, l), NEW k,
         Owes(l, k, g[0], c.gen), g[0] \in 1..Len(l.turns), ~(c.active /\ c.cur = g[0])
  PROVE  Holds(g, c, a, W, k)
<1> DEFINE h == g[0]
<1>1. LogOk(k)
  BY DEF Holds, LogOk, Owes
<1>2. Clean(c, a, W, k, h)
  <2> SUFFICES ASSUME "crossed" \notin l.odd
               PROVE  /\ h <= Len(l.turns)
                      /\ ResultsOk(c, k, h) /\ LastOk(c, k, h) /\ DueOk(c, k, h)
                      /\ StopsOk(c, a, W, l.turns)
    BY DEF Clean, Owes
  <2>1. /\ h <= Len(l.turns)
        /\ ResultsOk(c, l, h) /\ LastOk(c, l, h) /\ DueOk(c, l, h) /\ StopsOk(c, a, W, l.turns)
    BY DEF Holds, Clean
  <2>2. l.due \subseteq k.due /\ (\A n \in k.due : n \in l.due \/ (n = h /\ l.turns[h].gen = c.gen))
    BY DEF Owes
  <2>3. ResultsOk(c, k, h)
    <3>1. /\ \A i \in 1..Len(c.chain) : c.chain[i].kind = "result" =>
               /\ c.chain[i].turn = h /\ c.chain[i].gen = c.turnGen
               /\ c.chain[i].gen = c.gen => h \in k.due
          /\ c.sync = "result" => c.emitted /\ h \in k.due /\ c.text \in {0, h}
      BY <2>1, <2>2 DEF ResultsOk
    <3>2. k.results = l.results
      BY DEF Owes
    <3>3. /\ \A j \in 1..Len(l.results) :
               /\ l.results[j].turn <= h /\ l.results[j].turn \in k.due
               /\ l.results[j].text \in {0, l.results[j].turn}
               /\ l.results[j].turn = h => c.emitted /\ c.sync # "result"
          /\ \A i, j \in 1..Len(l.results) : l.results[i].turn = l.results[j].turn => i = j
      BY <2>1, <2>2 DEF ResultsOk
    <3> QED BY <3>1, <3>2, <3>3 DEF ResultsOk
  <2>4. LastOk(c, k, h)
    BY <2>1, <2>2 DEF LastOk, Owes, Out
  <2>5. h # 0
    OBVIOUS
  <2>6. DueOk(c, k, h)
    <3>1. ~c.finished /\ l.turns[h].gen = c.gen /\ h \notin l.due => Doomed(c)
      BY <2>1, <2>5 DEF LastOk
    <3>2. \A n : Out(k, n) <=> Out(l, n)
      BY DEF Out, Owes
    <3> QED BY <2>1, <2>2, <3>1, <3>2 DEF DueOk
  <2> QED BY <2>1, <2>3, <2>4, <2>6
<1> QED BY <1>1, <1>2 DEF Holds, Owes

\* It was the live one, and its result is chained.
LEMMA ResultChained ==
  ASSUME NEW g, NEW c, NEW a, NEW W, NEW l, Holds(g, c, a, W, l), NEW k,
         Owes(l, k, g[0], c.gen), g[0] \in 1..Len(l.turns)
  PROVE  Holds(g, Chain(TurnOver(c), "result", g[0], c.turnGen), a, W, k)
<1> DEFINE h == g[0]
           f == TurnOver(c)
           e == Chain(f, "result", h, c.turnGen)
           r == [kind |-> "result", turn |-> h, gen |-> c.turnGen]
           n == Len(c.chain)
           T == l.turns
<1>1. /\ DriverOk(c) /\ c.turnGen \in Nat /\ c.gen \in Nat /\ c.turnGen <= c.gen /\ h \in Nat
      /\ c.chain \in Seq(Reactions) /\ "result" \in {"result", "finish", "fail", "exit"}
  BY DriverTypes DEF Holds, DriverOk
<1>2. /\ DriverOk(f) /\ Shrinks(c, f) /\ f.active = FALSE /\ f.cur = 0 /\ Alike(c, f)
      /\ f.chain = c.chain /\ f.finished = c.finished /\ f.sync = c.sync
      /\ f.text = c.text /\ f.emitted = c.emitted
  BY <1>1, TurnOverShrinks
<1> HIDE DEF f, h
<1>3. c.turnGen <= f.gen
  BY <1>1, <1>2 DEF Alike
<1>4. /\ DriverOk(e) /\ Shrinks(f, e) /\ e.chain = Append(f.chain, r)
      /\ e.sync = f.sync /\ e.stdin = f.stdin /\ e.finished = f.finished
      /\ e.gen = f.gen /\ e.turnGen = f.turnGen /\ e.cur = f.cur
      /\ e.active = f.active /\ e.emitted = f.emitted /\ e.text = f.text
  <2>1. DriverOk(f) /\ h \in Nat /\ c.turnGen \in Nat
    BY <1>1, <1>2
  <2>2. "result" \in {"result", "finish", "fail", "exit"}
    OBVIOUS
  <2> QED BY <1>3, <2>1, <2>2, ChainShrinks
<1> USE DEF h
<1>5. r \in Reactions /\ r.kind = "result" /\ r.turn = h /\ r.gen = c.turnGen
  BY <1>1 DEF Reactions
<1> HIDE DEF e, r
<1>6. /\ n \in Nat /\ Len(e.chain) = n + 1 /\ e.chain[n + 1] = r
      /\ \A i \in 1..n : e.chain[i] = c.chain[i]
      /\ \A i \in 1..Len(e.chain) : i \in 1..n \/ i = n + 1
  BY <1>1, <1>2, <1>4, <1>5, AppendAt
<1>7. /\ OpeningsOk(f) /\ AppOk(f, a, W, T) /\ TurnsOk(f, T)
      /\ AnswersOk(f, W, T) /\ Lively(f, a, W, T, g)
  BY <1>1, <1>2, ShrinksKeeps, Zenon DEF Holds
<1>8. /\ OpeningsOk(e) /\ AppOk(e, a, W, T) /\ TurnsOk(e, T)
      /\ AnswersOk(e, W, T) /\ Lively(e, a, W, T, g) /\ Trace(g, W)
  <2>1. Trace(g, W)
    BY DEF Holds
  <2> QED BY <1>2, <1>4, <1>7, <2>1, ShrinksKeeps, Zenon
<1>9. /\ e.sync = c.sync /\ e.stdin = c.stdin /\ e.finished = c.finished /\ e.gen = c.gen
      /\ e.turnGen = c.turnGen /\ e.emitted = c.emitted /\ e.text = c.text
  BY <1>2, <1>4 DEF Alike
<1>10. LogOk(k) /\ k.turns = T /\ k.odd = l.odd
  BY DEF Holds, LogOk, Owes
<1>11. Clean(e, a, W, k, h)
  <2> SUFFICES ASSUME "crossed" \notin l.odd
               PROVE  /\ h <= Len(T)
                      /\ ResultsOk(e, k, h) /\ LastOk(e, k, h) /\ DueOk(e, k, h)
                      /\ StopsOk(e, a, W, T)
    BY <1>10 DEF Clean
  <2>1. /\ h <= Len(T)
        /\ ResultsOk(c, l, h) /\ LastOk(c, l, h) /\ DueOk(c, l, h) /\ StopsOk(c, a, W, T)
    BY DEF Holds, Clean
  <2>2. l.due \subseteq k.due /\ (T[h].gen = c.gen => h \in k.due)
    BY DEF Owes
  <2>3. h # 0 /\ (c.turnGen = c.gen <=> T[h].gen = c.gen)
    BY <2>1 DEF LastOk
  <2>4. ResultsOk(e, k, h)
    <3>1. \A i \in 1..Len(e.chain) : e.chain[i].kind = "result" =>
            /\ e.chain[i].turn = h /\ e.chain[i].gen = e.turnGen
            /\ e.chain[i].gen = e.gen => h \in k.due
      <4>1. \A i \in 1..n : c.chain[i].kind = "result" =>
              c.chain[i].turn = h /\ c.chain[i].gen = c.turnGen
        BY <2>1 DEF ResultsOk, n
      <4> QED BY <1>5, <1>6, <1>9, <2>2, <2>3, <4>1
    <3> QED BY <1>9, <2>1, <2>2, <3>1 DEF ResultsOk, Owes
  <2>5. LastOk(e, k, h)
    <3>1. \A m : Out(k, m) <=> Out(l, m)
      BY DEF Out, Owes
    <3> QED BY <1>9, <1>10, <2>1, <2>2, <2>3, <3>1 DEF LastOk
  <2>6. DueOk(e, k, h)
    <3> SUFFICES ASSUME ~c.finished, NEW m \in k.due
                 PROVE  \/ Out(k, m) \/ Doomed(e)
                        \/ c.sync = "result" /\ m = h
                        \/ \E i \in 1..Len(e.chain) :
                             /\ e.chain[i].kind = "result" /\ e.chain[i].turn = m
                             /\ e.chain[i].gen = c.gen
      BY <1>9 DEF DueOk
    <3>1. \A i \in 1..n : i \in 1..Len(e.chain)
      BY <1>6
    <3>2. CASE m \in l.due
      <4>1. \/ Out(l, m) \/ Doomed(c)
            \/ c.sync = "result" /\ m = h
            \/ \E i \in 1..n :
                 c.chain[i].kind = "result" /\ c.chain[i].turn = m /\ c.chain[i].gen = c.gen
        BY <2>1, <3>2 DEF DueOk, n
      <4>2. Doomed(c) => Doomed(e)
        BY <1>6, <3>1 DEF Doomed, n
      <4>3. Out(l, m) => Out(k, m)
        BY DEF Out, Owes
      <4> QED BY <1>6, <3>1, <4>1, <4>2, <4>3
    <3>3. CASE m \notin l.due
      <4>1. m = h /\ T[h].gen = c.gen
        BY <3>3 DEF Owes
      <4>2. n + 1 \in 1..Len(e.chain)
        BY <1>6
      <4> QED BY <1>5, <1>6, <2>3, <4>1, <4>2
    <3> QED BY <3>2, <3>3
  <2>7. StopsOk(e, a, W, T)
    BY <1>9, <2>1 DEF StopsOk, Withdrawn
  <2> QED BY <2>1, <2>4, <2>5, <2>6, <2>7
<1> QED BY <1>4, <1>8, <1>10, <1>11 DEF Holds, e, f

\* The turn that ran is over, of what was not live, or of what is withdrawn.
LEMMA TurnOverHolds ==
  ASSUME NEW g, NEW c, NEW a, NEW W, NEW l, Holds(g, c, a, W, l),
         "crossed" \notin l.odd => ~c.active \/ c.cur = 0 \/ c.finished
  PROVE  Holds(g, TurnOver(c), a, W, l)
<1> DEFINE e == TurnOver(c)
<1>1. /\ DriverOk(e) /\ Shrinks(c, e) /\ e.active = FALSE /\ e.cur = 0 /\ Alike(c, e)
      /\ e.chain = c.chain /\ e.finished = c.finished /\ e.sync = c.sync
      /\ e.text = c.text /\ e.emitted = c.emitted
  BY TurnOverShrinks DEF Holds
<1> HIDE DEF e
<1>2. ASSUME "crossed" \notin l.odd PROVE Mild(c, e)
  BY <1>1, <1>2 DEF Mild, Alike, ResultsIn, StopsIn, Doomed
<1>3. Holds(g, e, a, W, l)
  BY <1>1, <1>2, ShrunkHolds
<1> QED BY <1>3 DEF e

\* A turn ended by itself.
LEMMA EndedHolds ==
  ASSUME NEW g, NEW c, NEW a, NEW W, NEW l, Holds(g, c, a, W, l), W # <<>>,
         W[1].kind \in {"completed", "error"}, NEW k, Owes(l, k, W[1].turn, c.gen)
  PROVE  Holds(Further(g, W), Handled(c, W[1]), a, Tail(W), k)
<1> DEFINE f == Further(g, W)
           X == Tail(W)
           h == f[0]
           n == W[1].turn
<1>1. /\ h = g[0] /\ n = g[0] /\ n \in 1..Len(l.turns) /\ h \in Nat /\ h # 0
  <2>1. g[1] = g[0] /\ W[1].turn = g[1] /\ g[1] \in 1..Len(l.turns) /\ g[0] \in Nat
    BY FirstLine
  <2>2. f[0] = g[0]
    BY LineRead
  <2> HIDE DEF f
  <2> QED BY <2>1, <2>2
<1>2. Holds(f, c, a, X, l)
  BY LineRead
<1> SUFFICES Holds(f, Handled(c, W[1]), a, X, k)
  OBVIOUS
<1> HIDE DEF f, X
<1>3. Owes(l, k, h, c.gen) /\ h \in 1..Len(l.turns) /\ n = h
  BY <1>1
<1> HIDE DEF n
<1>4. CASE W[1].kind = "completed"
  <2> DEFINE e == [c EXCEPT !.text = h]
  <2>1. /\ Holds(f, e, a, X, l) /\ e.active = c.active /\ e.cur = c.cur /\ e.gen = c.gen
        /\ e.turnGen = c.turnGen
    BY <1>1, <1>2, TextHolds
  <2>2. Handled(c, W[1]) =
          IF Stale(c, h) THEN e ELSE Chain(TurnOver(e), "result", h, c.turnGen)
    BY <1>3, <1>4 DEF Handled, OnCompleted, n
  <2> HIDE DEF e, h
  <2>3. CASE Stale(c, h)
    <3>1. c.cur # h
      BY <1>1, <2>3 DEF Stale
    <3>2. Holds(f, e, a, X, k)
      BY <1>3, <2>1, <3>1, DueHolds DEF h
    <3> QED BY <2>2, <2>3, <3>2
  <2>4. CASE ~Stale(c, h)
    <3>1. Holds(f, Chain(TurnOver(e), "result", h, e.turnGen), a, X, k)
      BY <1>3, <2>1, ResultChained DEF h
    <3> QED BY <2>1, <2>2, <2>4, <3>1
  <2> QED BY <2>3, <2>4
<1>5. CASE W[1].kind = "error"
  <2>1. Handled(c, W[1]) =
          IF c.cur # 0 /\ h # c.cur THEN c
          ELSE IF c.active THEN Chain(TurnOver(c), "result", h, c.turnGen) ELSE TurnOver(c)
    BY <1>3, <1>5 DEF Handled, OnError, n
  <2>2. CASE c.cur # 0 /\ h # c.cur
    <3>1. Holds(f, c, a, X, k)
      BY <1>2, <1>3, <2>2, DueHolds
    <3> QED BY <2>1, <2>2, <3>1
  <2>3. CASE ~(c.cur # 0 /\ h # c.cur) /\ c.active
    <3>1. Holds(f, Chain(TurnOver(c), "result", h, c.turnGen), a, X, k)
      BY <1>2, <1>3, ResultChained
    <3> QED BY <2>1, <2>3, <3>1
  <2>4. CASE ~(c.cur # 0 /\ h # c.cur) /\ ~c.active
    <3> DEFINE e == TurnOver(c)
    <3>1. Holds(f, e, a, X, l)
      BY <1>2, <2>4, TurnOverHolds
    <3>2. e.active = FALSE /\ e.gen = c.gen
      BY TurnOverShrinks DEF Holds, Alike
    <3> HIDE DEF e
    <3>3. Holds(f, e, a, X, k)
      BY <1>3, <3>1, <3>2, DueHolds
    <3> QED BY <2>1, <2>4, <3>3 DEF e
  <2> QED BY <2>2, <2>3, <2>4
<1> QED BY <1>4, <1>5

\* A turn was interrupted.
LEMMA InterruptedHolds ==
  ASSUME NEW g, NEW c, NEW a, NEW W, NEW l, Holds(g, c, a, W, l), W # <<>>,
         W[1].kind = "interrupted"
  PROVE  Holds(Further(g, W), Handled(c, W[1]), a, Tail(W), l)
<1> DEFINE f == Further(g, W)
           X == Tail(W)
           n == W[1].turn
<1>1. Holds(f, c, a, X, l)
  BY LineRead
<1> HIDE DEF f, X
<1>2. Handled(c, W[1]) = IF Stale(c, n) THEN c ELSE TurnOver(c)
  BY DEF Handled, OnInterrupted
<1>3. 1 \in 1..Len(W)
  BY FirstLine
<1>4. ASSUME ~Stale(c, n), "crossed" \notin l.odd
      PROVE  ~c.active \/ c.cur = 0 \/ c.finished
  <2>1. Withdrawn(c, l.turns, n)
    BY <1>3, <1>4 DEF Holds, Clean, StopsOk
  <2> HIDE DEF n
  <2>2. c.cur # 0 => c.cur = n
    BY <1>4 DEF Stale
  <2>3. c.cur # 0 /\ c.over = "none" => l.turns[c.cur].gen = c.gen
    BY DEF Holds, TurnsOk
  <2> DEFINE x == l.turns[n].gen
  <2>4. x < c.gen /\ c.gen \in Nat
    BY <2>1, DriverTypes DEF Withdrawn, Holds
  <2>5. c.cur # 0 /\ c.over = "none" => x = c.gen
    BY <2>2, <2>3
  <2> HIDE DEF x
  <2>6. ~(c.cur # 0 /\ c.over = "none")
    BY <2>4, <2>5
  <2> QED BY <2>6 DEF Holds, DriverOk
<1>5. Holds(f, TurnOver(c), a, X, l) \/ Stale(c, n)
  BY <1>1, <1>4, TurnOverHolds
<1> QED BY <1>1, <1>2, <1>5 DEF f, X

\* An approval is asked for, or no longer.
LEMMA AskedHolds ==
  ASSUME NEW g, NEW c, NEW a, NEW W, NEW l, Holds(g, c, a, W, l), W # <<>>,
         W[1].kind \in {"ask", "resolved"}
  PROVE  Holds(Further(g, W), Handled(c, W[1]), a, Tail(W), l)
<1> DEFINE f == Further(g, W)
           X == Tail(W)
<1>1. Holds(f, c, a, X, l)
  BY LineRead
<1> HIDE DEF f, X
<1>2. CASE W[1].kind = "ask"
  <2>1. Holds(f, Reply(c), a, X, l)
    BY <1>1, CancelHolds
  <2> DEFINE e == [c EXCEPT !.gate = TRUE, !.state = "blocked"]
  <2>2. Same(c, e)
    BY FlagsSame DEF Holds, DriverOk
  <2>3. Handled(c, W[1]) = IF c.ending THEN Reply(c) ELSE e
    BY <1>2 DEF Handled, OnAsk
  <2> HIDE DEF e
  <2>4. Holds(f, e, a, X, l)
    BY <1>1, <2>2, SameFine, FineKeeps DEF Holds
  <2> QED BY <2>1, <2>3, <2>4 DEF f, X
<1>3. CASE W[1].kind = "resolved"
  <2>1. Handled(c, W[1]) = IF c.gate THEN Unblock(Reply(c)) ELSE c
    BY <1>3 DEF Handled, OnResolved
  <2>2. Holds(f, Reply(c), a, X, l)
    BY <1>1, CancelHolds
  <2>3. Holds(f, Unblock(Reply(c)), a, X, l)
    BY <2>2, CancelHolds
  <2> QED BY <1>1, <2>1, <2>3 DEF f, X
<1> QED BY <1>2, <1>3

\* A request is answered, or its answer comes too late.
LEMMA AnsweredHolds ==
  ASSUME NEW g, NEW c, NEW a, NEW W, NEW l, Holds(g, c, a, W, l), W # <<>>,
         W[1].kind \in {"result", "refusal"}
  PROVE  Holds(Further(g, W), Handled(c, W[1]), a, Tail(W), l)
<1> DEFINE f == Further(g, W)
           X == Tail(W)
           r == W[1].req
           S == ToSet(c.waiting) \ {r}
           e == [c EXCEPT !.waiting = Filter(@, S)]
           x == Micro(r, W[1].kind = "result", W[1].turn)
           T == l.turns
<1>1. Holds(f, c, a, X, l)
  BY LineRead
<1> SUFFICES Holds(f, Handled(c, W[1]), a, X, l)
  OBVIOUS
<1> HIDE DEF f, X
<1>2. Handled(c, W[1]) = IF r \notin ToSet(c.waiting) THEN c ELSE Later(e, x)
  BY DEF Handled, OnAnswer
<1>3. CASE r \notin ToSet(c.waiting)
  BY <1>1, <1>2, <1>3
<1>4. CASE r \in ToSet(c.waiting)
  <2>1. /\ Fine(c, e) /\ Calm(c, e) /\ e.waiting = Filter(c.waiting, S)
        /\ e.openings = c.openings /\ e.said = c.said /\ e.exited = c.exited
        /\ e.steers = c.steers /\ e.stdin = c.stdin /\ e.micro = c.micro
        /\ e.state = c.state
    BY SettledFine DEF Holds
  <2> HIDE DEF e
  <2>2. Holds(f, e, a, X, l)
    BY <1>1, <2>1, FineKeeps
  <2>3. /\ 1 \in 1..Len(W) /\ W[1] \in Lines /\ ~c.exited /\ g[0] = g[1] /\ g[0] \in Nat
        /\ W[1].kind = "result" /\ r.kind = "start" => g[1] < W[1].turn
    BY FirstLine
  <2>4. c.waiting \in Seq(Reqs)
    BY DriverTypes DEF Holds
  <2>5. PICK i \in 1..Len(c.waiting) : c.waiting[i] = r
    BY <1>4, <2>4 DEF ToSet
  <2>6. /\ r \in Reqs /\ r.kind \in Asks /\ r.kind # "chain" /\ x \in Micros /\ x.req = r
        /\ x.ok = (W[1].kind = "result") /\ x.turn = W[1].turn
    <3>1. r.kind \in Asks
      BY <2>5 DEF Holds, DriverOk
    <3>2. r.kind # "chain"
      BY <3>1 DEF Asks
    <3>3. r \in Reqs /\ W[1].turn \in Nat
      BY <2>3 DEF Lines
    <3> HIDE DEF r
    <3> QED BY <3>1, <3>2, <3>3 DEF Micro, Micros
  <2> HIDE DEF x
  <2>7. MessagesOk(c, W, T) /\ LinedUp(c.openings, Wanted(T, c.stdin, g[0]))
    BY <2>3 DEF Holds, Lively
  <2>8. ASSUME r.kind = "start", W[1].kind = "result"
        PROVE  /\ W[1].turn \in 1..Len(T) /\ T[W[1].turn] = Opens(r)
               /\ Has(c.openings, T[W[1].turn])
    <3> DEFINE n == W[1].turn
    <3>1. n \in 1..Len(T) /\ T[n] = Opens(r)
      BY <2>3, <2>8 DEF Holds, AnswersOk
    <3>2. g[0] < n
      BY <2>3, <2>8
    <3> HIDE DEF n
    <3>3. n \in (g[0] + 1)..Len(T)
      BY <2>3, <3>1, <3>2
    <3> DEFINE v == [rank |-> n, o |-> T[n]]
    <3>4. v \in Wanted(T, c.stdin, g[0])
      BY <3>3 DEF Wanted
    <3>5. v.o = T[n]
      OBVIOUS
    <3> HIDE DEF v
    <3>6. Has(c.openings, T[n])
      BY <2>7, <3>4, <3>5 DEF LinedUp, Has
    <3> QED BY <3>1, <3>6 DEF n
  <2>9. \A j \in 1..Len(e.waiting) :
          e.waiting[j] # r /\ \E k \in 1..Len(c.waiting) : e.waiting[j] = c.waiting[k]
    <3>1. PICK h : Embeds(h, c.waiting, S)
      BY <2>4, FilterProperties
    <3>2. r \notin S
      OBVIOUS
    <3> HIDE DEF S, r
    <3>3. \A j \in 1..Len(Filter(c.waiting, S)) :
            /\ Filter(c.waiting, S)[j] \in S
            /\ \E k \in 1..Len(c.waiting) : Filter(c.waiting, S)[j] = c.waiting[k]
      BY <3>1 DEF Embeds
    <3> QED BY <2>1, <3>2, <3>3
  <2>10. Steers(e) \subseteq Steers(c)
    <3>1. Steered(e.waiting) \subseteq Steered(c.waiting)
      <4>1. \A j \in Steering(e.waiting) : \E k \in Steering(c.waiting) :
              e.waiting[j] = c.waiting[k]
        BY <2>9 DEF Steering
      <4> QED BY <4>1 DEF Steered
    <3> QED BY <2>1, <3>1 DEF Steers, Kept
  <2>11. ASSUME r.kind = "start", W[1].kind = "refusal"
         PROVE  /\ r.m <= c.said /\ r.m \notin Steers(e)
                /\ r.m \notin Turned(T) \union Started(c.stdin)
    <3>1. r.m \in Refused(c, W)
      BY <2>3, <2>11 DEF Refused
    <3>2. r.m \in Opened(c, W, T)
      BY <3>1 DEF Opened
    <3> QED BY <2>7, <2>10, <3>1, <3>2 DEF MessagesOk
  <2>12. ASSUME r.kind = "steer"
         PROVE  r.m <= c.said /\ r.m \notin Opened(e, X, T) \union Steers(e)
    <3>1. i \in Steering(c.waiting)
      BY <2>5, <2>12 DEF Steering
    <3>2. r.m \in Steered(c.waiting)
      BY <2>5, <3>1 DEF Steered
    <3>3. r.m \in Steers(c)
      BY <3>2 DEF Steers
    <3>4. MessagesOk(c, X, T)
      BY <1>1, <2>3 DEF Holds, Lively
    <3>5. Opened(e, X, T) = Opened(c, X, T)
      BY <2>1 DEF Opened, Refused
    <3>6. r.m <= c.said /\ r.m \notin Opened(e, X, T)
      BY <3>3, <3>4, <3>5 DEF MessagesOk
    <3>7. OnePlace(c)
      BY <2>7 DEF MessagesOk
    <3>8. r.m \notin Kept(e) /\ r.m \notin Told(e.micro)
      BY <2>1, <3>2, <3>7 DEF OnePlace, Kept
    <3>9. ASSUME NEW j \in Steering(e.waiting), e.waiting[j].m = r.m PROVE FALSE
      <4>1. j \in 1..Len(e.waiting) /\ e.waiting[j].kind = "steer"
        BY DEF Steering
      <4>2. PICK k \in 1..Len(c.waiting) : e.waiting[j] = c.waiting[k]
        BY <2>9, <4>1
      <4>3. k \in Steering(c.waiting) /\ c.waiting[k].m = c.waiting[i].m
        BY <2>5, <3>9, <4>1, <4>2 DEF Steering
      <4>4. k = i
        BY <3>1, <3>7, <4>3 DEF OnePlace
      <4> QED BY <2>5, <2>9, <4>1, <4>2, <4>4
    <3>10. r.m \notin Steered(e.waiting)
      BY <3>9 DEF Steered
    <3> QED BY <3>6, <3>8, <3>10 DEF Steers
  <2> HIDE DEF r
  <2>13. Fits(e, X, T, x)
    <3>1. x.req.kind = "start" /\ x.ok =>
            /\ x.turn \in 1..Len(T) /\ T[x.turn] = Opens(x.req)
            /\ ~e.exited /\ e.state = "idle" /\ x.req.gen = e.gen => Has(e.openings, T[x.turn])
      BY <2>1, <2>6, <2>8
    <3>2. W[1].kind = "refusal" <=> ~(W[1].kind = "result")
      OBVIOUS
    <3>3. ~e.exited /\ x.req.kind = "start" /\ ~x.ok =>
            /\ x.req.m <= e.said /\ x.req.m \notin Steers(e)
            /\ x.req.m \notin Turned(T) \union Started(e.stdin)
      BY <2>1, <2>6, <2>11, <3>2
    <3>4. ~e.exited /\ x.req.kind = "steer" =>
            x.req.m <= e.said /\ x.req.m \notin Opened(e, X, T) \union Steers(e)
      BY <2>1, <2>6, <2>12
    <3> QED BY <2>6, <3>1, <3>3, <3>4 DEF Fits
  <2>14. Holds(f, Later(e, x), a, X, l)
    BY <2>2, <2>13, MicroHolds
  <2> QED BY <1>2, <1>4, <2>14
<1> QED BY <1>3, <1>4

-----------------------------------------------------------------------------
(* A turn starts                                                             *)

\* The rest of what lines up, behind the first that is wanted, does.
LEMMA LinedTail ==
  ASSUME NEW o \in Seq(Openings), NEW V, NEW U \in SUBSET V, NEW v \in V, LinedUp(o, V),
         \A w \in U : v.rank < w.rank
  PROVE  LinedUp(Tail(o), U) /\ o # <<>>
<1> DEFINE q == Tail(o)
<1>1. PICK i \in 1..Len(o) : o[i] = v.o
  BY DEF LinedUp
<1>2. o # <<>> /\ i >= 1
  BY <1>1
<1>3. /\ \A j \in 1..Len(q) : j \in Nat /\ j + 1 \in 1..Len(o) /\ q[j] = o[j + 1]
      /\ \A j \in 1..Len(o) : j = 1 \/ j - 1 \in 1..Len(q)
      /\ \A j \in 1..Len(o) : j \in Nat /\ (j - 1) + 1 = j
  <2>1. \A j \in 1..Len(o) : j \in Nat /\ (j - 1) + 1 = j
    OBVIOUS
  <2> QED BY <1>2, <2>1, TailAt
<1> HIDE DEF q
<1>4. ASSUME NEW w \in U PROVE \E j \in 1..Len(q) : q[j] = w.o
  <2>1. PICK j \in 1..Len(o) : o[j] = w.o
    BY DEF LinedUp
  <2>2. i < j
    BY <1>1, <2>1 DEF LinedUp
  <2>3. j - 1 \in 1..Len(q)
    BY <1>2, <1>3, <2>2
  <2> QED BY <1>3, <2>1, <2>3
<1>5. ASSUME NEW w \in U, NEW x \in U, w.rank < x.rank, NEW j \in 1..Len(q),
             NEW k \in 1..Len(q), q[j].m = w.o.m, q[k].m = x.o.m
      PROVE  j < k
  <2>1. /\ j + 1 \in 1..Len(o) /\ k + 1 \in 1..Len(o) /\ j \in Nat /\ k \in Nat
        /\ o[j + 1].m = w.o.m /\ o[k + 1].m = x.o.m
    BY <1>3, <1>5
  <2>2. w \in V /\ x \in V
    OBVIOUS
  <2>3. j + 1 < k + 1
    BY <1>5, <2>1, <2>2 DEF LinedUp
  <2> QED BY <2>1, <2>3
<1> QED BY <1>2, <1>4, <1>5 DEF LinedUp, q

\* The turn that starts was wanted; what is wanted further is behind the first opening.
LEMMA StartWanted ==
  ASSUME NEW g, NEW c, NEW a, NEW W, NEW l, Holds(g, c, a, W, l), W # <<>>,
         W[1].kind = "started"
  PROVE  LET n == W[1].turn
             o == c.openings
         IN  /\ n = g[0] + 1 /\ g[0] \in Nat /\ n \in 1..Len(l.turns) /\ n = g[1]
             /\ o # <<>> /\ Has(o, l.turns[n]) /\ ~c.exited
             /\ LinedUp(Tail(o), Wanted(l.turns, c.stdin, n))
             /\ o[1].m = l.turns[n].m => o[1] = l.turns[n]
<1> DEFINE n == W[1].turn
           o == c.openings
           T == l.turns
           h == g[0]
           v == [rank |-> n, o |-> T[n]]
           V == Wanted(T, c.stdin, h)
           U == Wanted(T, c.stdin, n)
<1>1. n = h + 1 /\ h \in Nat /\ n \in 1..Len(T) /\ n = g[1] /\ ~c.exited /\ Len(T) \in Nat
  BY FirstLine
<1>2. /\ o \in Seq(Openings) /\ LinedUp(o, V)
      /\ \A i, j \in 1..Len(o) : o[i].m = o[j].m => i = j
  BY <1>1, DriverTypes DEF Holds, Lively, MessagesOk, OnePlace
<1> HIDE DEF n, h, o
<1>3. n \in (h + 1)..Len(T)
  BY <1>1
<1>4. v \in V
  BY <1>3 DEF Wanted
<1>5. (n + 1)..Len(T) \subseteq (h + 1)..Len(T)
  BY <1>1
<1>6. U \subseteq V
  BY <1>5 DEF Wanted
<1>7. ASSUME NEW w \in U PROVE v.rank < w.rank
  <2>1. CASE \E m \in (n + 1)..Len(T) : w = [rank |-> m, o |-> T[m]]
    <3>1. PICK m \in (n + 1)..Len(T) : w = [rank |-> m, o |-> T[m]]
      BY <2>1
    <3>2. w.rank = m
      BY <3>1
    <3> QED BY <1>1, <3>2
  <2>2. CASE \E k \in Starting(c.stdin) : w = [rank |-> Len(T) + k, o |-> Opens(c.stdin[k])]
    <3>1. PICK k \in Starting(c.stdin) : w = [rank |-> Len(T) + k, o |-> Opens(c.stdin[k])]
      BY <2>2
    <3>2. w.rank = Len(T) + k
      BY <3>1
    <3>3. k \in Nat /\ k > 0
      BY DEF Starting
    <3> QED BY <1>1, <3>2, <3>3
  <2> QED BY <2>1, <2>2 DEF Wanted
<1>8. v.o = T[n]
  OBVIOUS
<1> HIDE DEF v, U, V
<1>9. LinedUp(Tail(o), U) /\ o # <<>>
  BY <1>2, <1>4, <1>6, <1>7, LinedTail
<1>10. PICK i \in 1..Len(o) : o[i] = T[n]
  BY <1>2, <1>4, <1>8 DEF LinedUp
<1>11. o[1].m = T[n].m => o[1] = T[n]
  <2>1. 1 \in 1..Len(o)
    BY <1>10
  <2> QED BY <1>2, <1>10, <2>1
<1>12. Has(o, T[n])
  BY <1>10 DEF Has
<1> QED BY <1>1, <1>9, <1>11, <1>12 DEF n, o, h, U

\* The driver has heard it, having taken its first opening for the turn's.
Takes(c, e) ==
  /\ e.openings = Tail(c.openings) /\ e.stdin = c.stdin /\ e.waiting = c.waiting
  /\ e.micro = c.micro /\ e.steers = c.steers /\ e.said = c.said /\ e.exited = c.exited
  /\ e.gen = c.gen /\ e.chain = c.chain /\ e.sync = c.sync /\ e.finished = c.finished

Heeds(c, l, k) ==
  /\ k \in LogRecord /\ k.turns = l.turns /\ k.results = l.results /\ k.due = l.due
  /\ l.odd \subseteq k.odd
  /\ "crossed" \notin k.odd => \A i \in 1..Len(c.chain) : c.chain[i].kind # "result"

\* Then all of the invariant holds but for what is the live turn.
LEMMA StartHeard ==
  ASSUME NEW g, NEW c, NEW a, NEW W, NEW l, Holds(g, c, a, W, l), W # <<>>,
         W[1].kind = "started", NEW k, Heeds(c, l, k), NEW e, DriverOk(e), Takes(c, e),
         OpeningsOk(e), TurnsOk(e, l.turns), IdleOk(e, l.turns),
         "crossed" \notin k.odd => LastOk(e, k, W[1].turn)
  PROVE  Holds(Further(g, W), e, a, Tail(W), k)
<1> DEFINE n == W[1].turn
           o == c.openings
           q == Tail(o)
           T == l.turns
           h == g[0]
           X == Tail(W)
           f == Further(g, W)
<1>1. /\ n = h + 1 /\ h \in Nat /\ n \in 1..Len(T) /\ n = g[1] /\ o # <<>> /\ ~c.exited
      /\ LinedUp(q, Wanted(T, c.stdin, n))
  BY StartWanted
<1>2. /\ \A i \in 1..Len(X) : i \in Nat /\ i + 1 \in 1..Len(W) /\ X[i] = W[i + 1]
      /\ X \in Seq(Lines) /\ W \in Seq(Lines) /\ 1 \in 1..Len(W)
  <2>1. W \in Seq(Lines)
    BY FirstLine
  <2> QED BY <2>1, TailAt
<1>3. Trace(f, X) /\ f[0] = n /\ f[Len(X)] = g[Len(W)]
  <2>1. Trace(g, W)
    BY DEF Holds
  <2> QED BY <1>1, <1>2, <2>1, TraceTail
<1>4. /\ \A i \in 1..Len(q) : i \in Nat /\ i + 1 \in 1..Len(o) /\ q[i] = o[i + 1]
  <2>1. o \in Seq(Openings)
    BY DriverTypes DEF Holds
  <2> QED BY <1>1, <2>1, TailAt
<1> SUFFICES Holds(f, e, a, X, k)
  OBVIOUS
<1> HIDE DEF f, X, q
<1>5. AppOk(e, a, X, T) /\ AnswersOk(e, X, T)
  <2>1. AppOk(e, a, X, T)
    BY <1>1, <1>2 DEF Holds, AppOk, Takes
  <2>2. AnswersOk(e, X, T)
    BY <1>2 DEF Holds, AnswersOk, Takes
  <2> QED BY <2>1, <2>2
<1>6. MessagesOk(e, X, T)
  <2>1. MessagesOk(c, W, T)
    BY <1>1 DEF Holds, Lively
  <2>2. Refused(e, X) \subseteq Refused(c, W)
    <3>1. \A i \in 1..Len(X) : \E j \in 1..Len(W) : X[i] = W[j]
      BY <1>2
    <3> QED BY <3>1 DEF Refused, Takes
  <2>3. \A i \in 1..Len(q) : \E j \in 1..Len(o) : q[i] = o[j]
    BY <1>4
  <2>4. Opened(e, X, T) \subseteq Opened(c, W, T)
    BY <2>2, <2>3 DEF Opened, Takes, q
  <2>5. Steers(e) = Steers(c) /\ e.said = c.said /\ e.stdin = c.stdin
    BY DEF Steers, Kept, Takes
  <2>6. \A i, j \in 1..Len(q) : q[i].m = q[j].m => i = j
    <3>1. \A i, j \in Nat : i + 1 = j + 1 => i = j
      OBVIOUS
    <3>2. \A i, j \in 1..Len(o) : o[i].m = o[j].m => i = j
      BY <2>1 DEF MessagesOk, OnePlace
    <3> HIDE DEF o
    <3>3. ASSUME NEW i \in 1..Len(q), NEW j \in 1..Len(q), q[i].m = q[j].m PROVE i = j
      <4>1. i + 1 = j + 1
        BY <1>4, <3>2, <3>3
      <4> QED BY <1>4, <3>1, <4>1
    <3> QED BY <3>3
  <2>7. OnePlace(e)
    BY <2>1, <2>6 DEF MessagesOk, OnePlace, Takes, q, Kept
  <2> QED BY <2>1, <2>2, <2>4, <2>5, <2>7 DEF MessagesOk
<1>7. Lively(e, a, X, T, f)
  BY <1>1, <1>3, <1>6 DEF Holds, Lively, Takes, q
<1>8. Clean(e, a, X, k, n)
  <2> SUFFICES ASSUME "crossed" \notin k.odd
               PROVE  /\ n <= Len(T)
                      /\ ResultsOk(e, k, n) /\ LastOk(e, k, n) /\ DueOk(e, k, n)
                      /\ StopsOk(e, a, X, T)
    BY DEF Clean, Heeds
  <2>1. ResultsOk(c, l, h) /\ DueOk(c, l, h) /\ StopsOk(c, a, W, T)
    BY DEF Holds, Clean, Heeds
  <2>2. \A i \in 1..Len(c.chain) : c.chain[i].kind # "result"
    BY DEF Heeds
  <2>3. c.sync # "result"
    <3>1. c.sync = "result" => c.chain # <<>> /\ c.chain[1].kind = "result"
      BY DEF Holds, DriverOk
    <3>2. c.chain \in Seq(Reactions)
      BY DriverTypes DEF Holds
    <3>3. c.chain # <<>> => 1 \in 1..Len(c.chain)
      BY <3>2
    <3> QED BY <2>2, <3>1, <3>3
  <2>4. ResultsOk(e, k, n)
    <3>1. \A i \in 1..Len(l.results) : l.results[i].turn \in Nat
      <4>1. \A i \in 1..Len(l.results) : l.results[i] \in Outs
        BY ElementOf DEF Holds, LogOk, LogRecord
      <4> QED BY <4>1 DEF Outs
    <3>2. \A x \in Nat : x <= h => x <= n /\ x # n
      BY <1>1
    <3> HIDE DEF n, h
    <3>3. \A i \in 1..Len(l.results) :
            /\ l.results[i].turn <= n /\ l.results[i].turn # n /\ l.results[i].turn \in k.due
            /\ l.results[i].text \in {0, l.results[i].turn}
      BY <2>1, <3>1, <3>2 DEF ResultsOk, Heeds
    <3>4. \A i, j \in 1..Len(l.results) : l.results[i].turn = l.results[j].turn => i = j
      BY <2>1 DEF ResultsOk
    <3>5. /\ e.chain = c.chain /\ e.sync = c.sync /\ k.results = l.results
      BY DEF Takes, Heeds
    <3> QED BY <2>2, <2>3, <3>3, <3>4, <3>5 DEF ResultsOk
  <2>5. DueOk(e, k, n)
    <3>1. ~c.finished => \A m \in l.due : Out(l, m) \/ Doomed(c)
      BY <2>1, <2>2, <2>3 DEF DueOk
    <3>2. \A m : Out(l, m) => Out(k, m)
      BY DEF Out, Heeds
    <3> QED BY <3>1, <3>2 DEF DueOk, Doomed, Takes, Heeds
  <2>6. StopsOk(e, a, X, T)
    BY <1>2, <2>1 DEF StopsOk, Withdrawn, Takes
  <2>7. n <= Len(T)
    BY <1>1
  <2> QED BY <2>4, <2>5, <2>6, <2>7
<1>9. LogOk(k) /\ k.turns = T
  BY DEF Holds, LogOk, Heeds
<1> QED BY <1>3, <1>5, <1>7, <1>8, <1>9 DEF Holds

\* A withdrawn turn starts, and is to be cancelled.
LEMMA LateStarted ==
  ASSUME NEW g, NEW c, NEW a, NEW W, NEW l, Holds(g, c, a, W, l), W # <<>>,
         W[1].kind = "started", NEW k, Heeds(c, l, k), c.openings[1].gen # c.gen,
         "crossed" \notin k.odd => c.openings[1].m = l.turns[W[1].turn].m
  PROVE  Holds(Further(g, W), Request([c EXCEPT !.openings = Tail(@)],
                                      Req("late", 0, c.gen, W[1].turn)), a, Tail(W), k)
<1> DEFINE n == W[1].turn
           o == c.openings
           q == Tail(o)
           T == l.turns
           e == [c EXCEPT !.openings = q]
           r == Req("late", 0, c.gen, n)
<1>1. /\ n \in 1..Len(T) /\ n \in Nat /\ o # <<>> /\ (o[1].m = T[n].m => o[1] = T[n])
  BY StartWanted
<1>2. /\ DriverOk(c) /\ c \in DriverRecord /\ o \in Seq(Openings) /\ c.gen \in Nat
      /\ c.turnGen \in Nat /\ OpeningsOk(c) /\ TurnsOk(c, T)
  BY DriverTypes DEF Holds
<1>3. /\ q \in Seq(Openings) /\ 1 \in 1..Len(o) /\ o[1] \in Openings
      /\ \A i \in 1..Len(q) : i \in Nat /\ i + 1 \in 1..Len(o) /\ q[i] = o[i + 1]
      /\ \A i \in 1..Len(o) : i = 1 \/ i - 1 \in 1..Len(q)
      /\ \A i \in 1..Len(o) : (i - 1) + 1 = i
  <2>1. \A i \in 1..Len(o) : (i - 1) + 1 = i
    OBVIOUS
  <2> QED BY <1>1, <1>2, <2>1, TailAt
<1> HIDE DEF q
<1>4. e \in DriverRecord /\ e.openings = q
  BY <1>2, <1>3 DEF DriverRecord
<1>5. /\ e.stdin = c.stdin /\ e.waiting = c.waiting /\ e.micro = c.micro
      /\ e.steers = c.steers /\ e.said = c.said /\ e.exited = c.exited /\ e.gen = c.gen
      /\ e.chain = c.chain /\ e.sync = c.sync /\ e.finished = c.finished
  BY <1>2 DEF DriverRecord
<1>6. /\ e.turnGen = c.turnGen /\ e.cur = c.cur /\ e.active = c.active /\ e.over = c.over
      /\ e.state = c.state /\ e.chunk = c.chunk /\ e.pipe = c.pipe
  BY <1>2 DEF DriverRecord
<1> SUFFICES Holds(Further(g, W), Request(e, r), a, Tail(W), k)
  BY DEF q
<1> HIDE DEF e
<1>7. DriverOk(e)
  BY <1>2, <1>4, <1>5, <1>6 DEF DriverOk
<1>8. Takes(c, e)
  BY <1>4, <1>5 DEF Takes, q
<1>9. OpeningsOk(e)
  <2>1. \A i, j \in 1..Len(q) : i <= j => i + 1 <= j + 1
    OBVIOUS
  <2>2. \A i, j \in 1..Len(o) : i <= j => o[i].gen <= o[j].gen
    BY <1>2 DEF OpeningsOk
  <2>3. \A i \in 1..Len(o) : c.turnGen <= o[i].gen /\ o[i].gen <= c.gen
    BY <1>2 DEF OpeningsOk
  <2> HIDE DEF o
  <2>4. \A i, j \in 1..Len(q) : i <= j => q[i].gen <= q[j].gen
    BY <1>3, <2>1, <2>2
  <2>5. \A i \in 1..Len(q) : c.turnGen <= q[i].gen /\ q[i].gen <= c.gen
    BY <1>3, <2>3
  <2> QED BY <1>4, <1>5, <1>6, <2>4, <2>5 DEF OpeningsOk
<1>10. TurnsOk(e, T)
  BY <1>2, <1>5, <1>6 DEF TurnsOk
<1>11. ASSUME NEW x, Has(o, x), x.gen = c.gen PROVE Has(q, x)
  <2>1. PICK i \in 1..Len(o) : o[i] = x
    BY <1>11 DEF Has
  <2>2. i # 1
    BY <1>11, <2>1
  <2>3. i - 1 \in 1..Len(q) /\ q[i - 1] = x
    BY <1>3, <2>1, <2>2
  <2> QED BY <2>3 DEF Has
<1>12. IdleOk(e, T)
  <2> SUFFICES ASSUME c.state = "idle"
               PROVE  /\ c.active /\ c.cur # 0 /\ c.over = "none" => Has(q, T[c.cur])
                      /\ \A i \in 1..Len(c.micro) :
                           c.micro[i].req.kind = "start" /\ c.micro[i].ok
                             /\ c.micro[i].req.gen = c.gen => Has(q, T[c.micro[i].turn])
    BY <1>4, <1>5, <1>6 DEF IdleOk
  <2>1. /\ c.active /\ c.cur # 0 /\ c.over = "none" => Has(o, T[c.cur])
        /\ \A i \in 1..Len(c.micro) :
             c.micro[i].req.kind = "start" /\ c.micro[i].ok /\ c.micro[i].req.gen = c.gen =>
               Has(o, T[c.micro[i].turn])
    <3>1. ~c.exited
      BY StartWanted
    <3> QED BY <3>1 DEF Holds, Lively, IdleOk
  <2>2. c.cur # 0 /\ c.over = "none" => T[c.cur].gen = c.gen
    BY <1>2 DEF TurnsOk
  <2>3. ASSUME NEW i \in 1..Len(c.micro), c.micro[i].req.kind = "start", c.micro[i].ok,
               c.micro[i].req.gen = c.gen
        PROVE  T[c.micro[i].turn].gen = c.gen
    <3>1. T[c.micro[i].turn] = Opens(c.micro[i].req)
      BY <2>3 DEF Holds, AnswersOk
    <3> QED BY <2>3, <3>1 DEF Opens
  <2> HIDE DEF o
  <2> QED BY <1>11, <2>1, <2>2, <2>3
<1>13. c.turnGen # c.gen
  <2> DEFINE y == o[1].gen
  <2>1. y \in Nat /\ c.turnGen <= y /\ y <= c.gen /\ y # c.gen
    BY <1>2, <1>3 DEF OpeningsOk, Openings
  <2> HIDE DEF y
  <2> QED BY <1>2, <2>1
<1>14. "crossed" \notin k.odd => Withdrawn(c, T, n)
  <2> DEFINE y == T[n].gen
  <2>1. y <= c.gen
    BY <1>1, <1>2 DEF TurnsOk
  <2>2. "crossed" \notin k.odd => y # c.gen
    BY <1>1
  <2>3. y \in Nat
    <3>1. T[n] \in Openings
      BY <1>1, ElementOf DEF Holds, AppOk
    <3> QED BY <3>1 DEF Openings
  <2>4. "crossed" \notin k.odd => y < c.gen
    <3> HIDE DEF y
    <3> QED BY <1>2, <2>1, <2>2, <2>3
  <2> QED BY <1>1, <2>4 DEF Withdrawn
<1>15. "crossed" \notin k.odd => LastOk(e, k, n)
  <2>1. "crossed" \notin k.odd => k.turns[n].gen # c.gen
    <3>1. k.turns = T
      BY DEF Heeds
    <3> QED BY <1>1, <3>1
  <2> QED BY <1>5, <1>6, <1>13, <2>1 DEF LastOk
<1> HIDE DEF n
<1>16. Holds(Further(g, W), e, a, Tail(W), k)
  BY <1>7, <1>8, <1>9, <1>10, <1>12, <1>15, StartHeard DEF n
<1>17. r \in Reqs /\ r.kind = "late" /\ r.turn = n /\ r.turn # 0
  <2>1. r.turn = n /\ n # 0
    BY <1>1 DEF Req
  <2> QED BY <1>1, <1>2, <2>1 DEF Req, Reqs, Asks
<1>18. "crossed" \notin k.odd => Withdrawn(e, k.turns, n)
  BY <1>5, <1>14 DEF Withdrawn, Heeds
<1> HIDE DEF r
<1> QED BY <1>16, <1>17, <1>18, StopHolds

\* A turn starts that was not withdrawn, and is the live one.
LEMMA TurnStarted ==
  ASSUME NEW g, NEW c, NEW a, NEW W, NEW l, Holds(g, c, a, W, l), W # <<>>,
         W[1].kind = "started", NEW k, Heeds(c, l, k), c.openings[1].gen = c.gen
  PROVE  Holds(Further(g, W),
               [c EXCEPT !.openings = Tail(@), !.active = TRUE, !.cur = W[1].turn,
                         !.turnGen = c.gen, !.emitted = FALSE, !.text = 0,
                         !.state = "working"], a, Tail(W), k)
<1> DEFINE n == W[1].turn
           o == c.openings
           q == Tail(o)
           T == l.turns
           y == c.gen
           e == [c EXCEPT !.openings = q, !.active = TRUE, !.cur = n, !.turnGen = y,
                          !.emitted = FALSE, !.text = 0, !.state = "working"]
<1>1. n \in 1..Len(T) /\ n \in Nat /\ o # <<>> /\ Has(o, T[n])
  BY StartWanted
<1>2. /\ DriverOk(c) /\ c \in DriverRecord /\ o \in Seq(Openings) /\ c.gen \in Nat
      /\ OpeningsOk(c) /\ TurnsOk(c, T)
  BY DriverTypes DEF Holds
<1>3. /\ q \in Seq(Openings) /\ 1 \in 1..Len(o)
      /\ \A i \in 1..Len(q) : i \in Nat /\ i + 1 \in 1..Len(o) /\ q[i] = o[i + 1]
  BY <1>1, <1>2, TailAt
<1>4. y = c.gen /\ y \in Nat /\ y <= y
  BY <1>2
<1>5. e = [c EXCEPT !.openings = Tail(@), !.active = TRUE, !.cur = W[1].turn,
                    !.turnGen = c.gen, !.emitted = FALSE, !.text = 0, !.state = "working"]
  OBVIOUS
<1> SUFFICES Holds(Further(g, W), e, a, Tail(W), k)
  BY <1>5
<1> HIDE DEF q, n, y
<1>6. e \in DriverRecord
  BY <1>1, <1>2, <1>3, <1>4 DEF DriverRecord
<1>7. /\ e.openings = q /\ e.stdin = c.stdin /\ e.waiting = c.waiting /\ e.micro = c.micro
      /\ e.steers = c.steers /\ e.said = c.said /\ e.exited = c.exited /\ e.gen = c.gen
      /\ e.chain = c.chain /\ e.sync = c.sync /\ e.finished = c.finished
  BY <1>2 DEF DriverRecord
<1>8. /\ e.turnGen = y /\ e.cur = n /\ e.active = TRUE /\ e.emitted = FALSE /\ e.text = 0
      /\ e.state = "working"
  BY <1>2 DEF DriverRecord
<1>9. e.over = c.over /\ e.chunk = c.chunk /\ e.pipe = c.pipe
  BY <1>2 DEF DriverRecord
<1> HIDE DEF e
<1>10. DriverOk(e)
  BY <1>2, <1>4, <1>6, <1>7, <1>8, <1>9 DEF DriverOk
<1>11. Takes(c, e)
  BY <1>7 DEF Takes, q
<1>12. \A i \in 1..Len(o) : o[i].gen = y
  <2> SUFFICES ASSUME NEW i \in 1..Len(o) PROVE o[i].gen = y
    OBVIOUS
  <2> DEFINE z == o[i].gen
  <2>1. 1 <= i /\ o[i] \in Openings
    BY <1>2, ElementOf
  <2>2. o[1].gen <= z /\ z <= c.gen
    BY <1>2, <1>3, <2>1 DEF OpeningsOk
  <2>3. z \in Nat /\ y <= z /\ z <= y
    BY <1>4, <2>1, <2>2 DEF Openings
  <2> HIDE DEF z
  <2>4. z = y
    BY <1>4, <2>3
  <2> QED BY <2>4 DEF z
<1>13. OpeningsOk(e)
  <2> HIDE DEF o
  <2>1. \A i \in 1..Len(q) : q[i].gen = y
    BY <1>3, <1>12
  <2> QED BY <1>4, <1>7, <1>8, <2>1 DEF OpeningsOk
<1>14. T[n].gen = y
  BY <1>1, <1>12 DEF Has
<1>15. TurnsOk(e, T)
  <2>1. n \in 0..Len(T)
    <3>1. Len(T) \in Nat
      BY DEF Holds, AppOk
    <3> QED BY <1>1, <3>1
  <2> QED BY <1>2, <1>4, <1>7, <1>8, <1>14, <2>1 DEF TurnsOk
<1>16. IdleOk(e, T)
  BY <1>8 DEF IdleOk
<1>17. LastOk(e, k, n)
  <2>1. k.turns = T
    BY DEF Heeds
  <2> QED BY <1>4, <1>7, <1>8, <1>14, <2>1 DEF LastOk
<1> QED BY <1>10, <1>11, <1>13, <1>15, <1>16, <1>17, StartHeard DEF n

\* So the driver hears a turn start.
LEMMA StartedHolds ==
  ASSUME NEW g, NEW c, NEW a, NEW W, NEW l, Holds(g, c, a, W, l), W # <<>>,
         W[1].kind = "started", NEW k, Heeds(c, l, k),
         "crossed" \notin k.odd => c.openings[1].m = l.turns[W[1].turn].m
  PROVE  Holds(Further(g, W), Handled(c, W[1]), a, Tail(W), k)
<1> DEFINE n == W[1].turn
           x == [c EXCEPT !.openings = Tail(@)]
           e == [c EXCEPT !.openings = Tail(@), !.active = TRUE, !.cur = n,
                          !.turnGen = c.gen, !.emitted = FALSE, !.text = 0,
                          !.state = "working"]
           f == Further(g, W)
           X == Tail(W)
<1>1. c.openings # <<>> /\ Head(c.openings) = c.openings[1]
  <2>1. c.openings # <<>>
    BY StartWanted
  <2>2. c.openings \in Seq(Openings)
    BY DriverTypes DEF Holds
  <2> QED BY <2>1, <2>2
<1>2. Handled(c, W[1]) = OnStarted(c, n)
  BY DEF Handled
<1>3. CASE c.openings[1].gen # c.gen
  <2>1. OnStarted(c, n) = Request(x, Req("late", 0, c.gen, n))
    BY <1>1, <1>3 DEF OnStarted
  <2>2. Holds(f, Request(x, Req("late", 0, c.gen, n)), a, X, k)
    BY <1>3, LateStarted
  <2> QED BY <1>2, <2>1, <2>2
<1>4. CASE c.openings[1].gen = c.gen
  <2>1. OnStarted(c, n) = FlushSteers(e)
    BY <1>1, <1>4 DEF OnStarted
  <2>2. Holds(f, e, a, X, k)
    BY <1>4, TurnStarted
  <2> HIDE DEF e, f, X
  <2>3. Holds(f, FlushSteers(e), a, X, k)
    BY <2>2, FlushHolds
  <2> QED BY <1>2, <2>1, <2>3 DEF f, X
<1> QED BY <1>3, <1>4

\* A line is read.
LEMMA ReadLineKeeps == ASSUME Heard, ReadLine PROVE Heard'
<1>1. PICK g : Holds(g, d, app, stdout, log)
  BY DEF Heard
<1> DEFINE W == stdout
           x == W[1]
           f == Further(g, W)
           X == Tail(W)
           c == Handled(d, x)
           k == [log EXCEPT !.due = IF Ends(x) THEN @ \union {x.turn} ELSE @,
                            !.odd = @ \union Oddities(x)]
<1>2. W # <<>> /\ Head(W) = x /\ x \in Lines
  <2>1. W # <<>>
    BY DEF ReadLine
  <2> QED BY <1>1, <2>1, FirstLine
<1>3. /\ stdout' = X /\ d' = [c EXCEPT !.chunk = c.micro # <<>>] /\ log' = k /\ app' = app
  BY <1>2 DEF ReadLine
<1>4. /\ log \in LogRecord /\ log.odd \subseteq {"crossed", "late", "orphan"}
      /\ log.due \subseteq Nat /\ Oddities(x) \subseteq {"crossed", "late", "orphan"}
      /\ x.turn \in Nat
  <2>1. Oddities(x) \subseteq {"crossed", "late", "orphan"}
    BY DEF Oddities
  <2>2. x.turn \in Nat
    BY <1>2 DEF Lines
  <2> QED BY <1>1, <2>1, <2>2 DEF Holds, LogOk, LogRecord
<1> HIDE DEF c, f, X, x
<1>5. /\ k \in LogRecord /\ k.turns = log.turns /\ k.results = log.results
      /\ k.due = IF Ends(x) THEN log.due \union {x.turn} ELSE log.due
      /\ k.odd = log.odd \union Oddities(x)
  BY <1>4 DEF LogRecord
<1> HIDE DEF k
<1>6. Holds(f, c, app, X, k)
  <2>1. CASE x.kind \in {"completed", "error"}
    <3>1. Oddities(x) = {}
      BY <2>1 DEF Oddities, Crosses
    <3>2. Owes(log, k, x.turn, d.gen)
      BY <1>5, <2>1, <3>1 DEF Owes, Ends
    <3> QED BY <1>1, <1>2, <2>1, <3>2, EndedHolds DEF f, c, X, x
  <2>2. CASE x.kind = "started"
    <3>1. k.due = log.due
      BY <1>5, <2>2 DEF Ends
    <3>2. ASSUME "crossed" \notin k.odd
          PROVE  /\ \A i \in 1..Len(d.chain) : d.chain[i].kind # "result"
                 /\ d.openings[1].m = log.turns[x.turn].m
      <4>1. ~Crosses(x)
        BY <1>5, <3>2 DEF Oddities
      <4>2. d.openings # <<>> /\ d.openings \in Seq(Openings) /\ d.chain \in Seq(Reactions)
        BY <1>1, DriverTypes, <4>1, <2>2 DEF Holds, Crosses
      <4>3. Head(d.openings) = d.openings[1] /\ DOMAIN d.chain = 1..Len(d.chain)
        BY <4>2
      <4> QED BY <2>2, <4>1, <4>3 DEF Crosses
    <3>3. Heeds(d, log, k)
      BY <1>5, <3>1, <3>2 DEF Heeds
    <3> QED BY <1>1, <1>2, <2>2, <3>2, <3>3, StartedHolds DEF f, c, X, x
  <2>3. CASE x.kind \in {"interrupted", "ask", "resolved", "result", "refusal"}
    <3>1. Holds(f, c, app, X, log)
      <4>1. CASE x.kind = "interrupted"
        BY <1>1, <1>2, <4>1, InterruptedHolds DEF f, c, X, x
      <4>2. CASE x.kind \in {"ask", "resolved"}
        BY <1>1, <1>2, <4>2, AskedHolds DEF f, c, X, x
      <4>3. CASE x.kind \in {"result", "refusal"}
        BY <1>1, <1>2, <4>3, AnsweredHolds DEF f, c, X, x
      <4> QED BY <2>3, <4>1, <4>2, <4>3
    <3>2. k.due = log.due /\ log.odd \subseteq k.odd
      BY <1>5, <2>3 DEF Ends
    <3> QED BY <1>5, <3>1, <3>2, OddHolds
  <2> QED BY <1>2, <2>1, <2>2, <2>3 DEF Lines
<1>7. Holds(f, [c EXCEPT !.chunk = c.micro # <<>>], app, X, k)
  BY <1>6, ChunkHolds
<1>8. Holds(f, d', app', stdout', log')
  BY <1>3, <1>7
<1> QED BY <1>8 DEF Heard

-----------------------------------------------------------------------------
(* The app-server says something                                             *)

\* What the driver will have heard once it has heard X, z being the last turn then.
Said(g, W, X, z) == [j \in 0..Len(W \o X) |-> IF j <= Len(W) THEN g[j] ELSE z]

\* That a turn starts, or what is of the last turn that did.
Says1(g, W, X, z) ==
  /\ X \in Seq(Lines) /\ z \in Nat
  /\ \/ z = g[Len(W)] /\ \A i \in 1..Len(X) : X[i].kind # "started"
     \/ z = g[Len(W)] + 1 /\ Len(X) = 1 /\ X[1].kind = "started"
  /\ \A i \in 1..Len(X) :
       /\ X[i].kind \in {"started", "completed", "interrupted", "error"} =>
            X[i].turn = z /\ z # 0
       /\ X[i].kind = "result" /\ X[i].req.kind = "start" => z < X[i].turn

\* It is a trace of the lines there are then.
LEMMA TraceSaid ==
  ASSUME NEW g, NEW W \in Seq(Lines), Trace(g, W), NEW X, NEW z, Says1(g, W, X, z)
  PROVE  LET f == Said(g, W, X, z)
         IN  Trace(f, W \o X) /\ f[0] = g[0] /\ f[Len(W \o X)] = z
<1> DEFINE f == Said(g, W, X, z)
           V == W \o X
           n == Len(W)
<1>1. /\ n \in Nat /\ Len(X) \in Nat /\ Len(V) = n + Len(X) /\ X \in Seq(Lines) /\ z \in Nat
      /\ \A i \in 1..n : V[i] = W[i]
      /\ \A i \in 1..Len(X) : V[n + i] = X[i]
  BY DEF Says1
<1>2. f = [j \in 0..Len(V) |-> IF j <= n THEN g[j] ELSE z]
  BY DEF Said
<1>3. g \in [0..n -> Nat]
  BY DEF Trace
<1> HIDE DEF f, V, n
<1>4. /\ f \in [0..Len(V) -> Nat]
      /\ \A j \in 0..n : f[j] = g[j]
      /\ \A j \in (n + 1)..Len(V) : f[j] = z
  BY <1>1, <1>2, <1>3
<1>5. ASSUME NEW j \in 1..Len(V)
      PROVE  /\ f[j] = IF V[j].kind = "started" THEN f[j - 1] + 1 ELSE f[j - 1]
             /\ V[j].kind \in {"started", "completed", "interrupted", "error"} =>
                  V[j].turn = f[j] /\ f[j] # 0
             /\ V[j].kind = "result" /\ V[j].req.kind = "start" => f[j] < V[j].turn
  <2>1. CASE j \in 1..n
    <3>1. /\ g[j] = IF W[j].kind = "started" THEN g[j - 1] + 1 ELSE g[j - 1]
          /\ W[j].kind \in {"started", "completed", "interrupted", "error"} =>
               W[j].turn = g[j] /\ g[j] # 0
          /\ W[j].kind = "result" /\ W[j].req.kind = "start" => g[j] < W[j].turn
      BY <2>1 DEF Trace, n
    <3>2. f[j] = g[j] /\ f[j - 1] = g[j - 1] /\ V[j] = W[j]
      <4>1. j \in 0..n /\ j - 1 \in 0..n
        BY <1>1, <2>1
      <4> QED BY <1>1, <1>4, <2>1, <4>1
    <3> QED BY <3>1, <3>2
  <2>2. CASE j \notin 1..n
    <3> DEFINE i == j - n
    <3>1. i \in 1..Len(X) /\ j = n + i /\ j \in (n + 1)..Len(V) /\ j - 1 \in n..Len(V)
      BY <1>1, <2>2
    <3> HIDE DEF i
    <3>2. f[j] = z /\ V[j] = X[i]
      BY <1>1, <1>4, <3>1
    <3>3. /\ X[i].kind \in {"started", "completed", "interrupted", "error"} =>
               X[i].turn = z /\ z # 0
          /\ X[i].kind = "result" /\ X[i].req.kind = "start" => z < X[i].turn
      BY <3>1 DEF Says1
    <3>4. f[n] = g[n]
      <4>1. n \in 0..n
        BY <1>1
      <4> QED BY <1>4, <4>1
    <3>5. z = IF X[i].kind = "started" THEN f[j - 1] + 1 ELSE f[j - 1]
      <4>1. CASE z = g[n] /\ \A k \in 1..Len(X) : X[k].kind # "started"
        <5>1. f[j - 1] = z
          <6>1. j - 1 = n \/ j - 1 \in (n + 1)..Len(V)
            BY <1>1, <3>1
          <6> QED BY <1>4, <3>4, <4>1, <6>1
        <5> QED BY <3>1, <4>1, <5>1
      <4>2. CASE z = g[n] + 1 /\ Len(X) = 1 /\ X[1].kind = "started"
        <5>1. i = 1 /\ j - 1 = n
          BY <1>1, <3>1, <4>2
        <5> QED BY <3>4, <4>2, <5>1
      <4> QED BY <4>1, <4>2 DEF Says1, n
    <3> QED BY <3>2, <3>3, <3>5
  <2> QED BY <2>1, <2>2
<1>6. f[0] = g[0]
  BY <1>1, <1>4
<1>7. f[Len(V)] = z
  <2>1. CASE Len(X) = 0
    <3>1. Len(V) = n /\ z = g[n]
      BY <1>1, <2>1 DEF Says1, n
    <3> QED BY <1>1, <1>4, <3>1
  <2>2. CASE Len(X) # 0
    <3>1. Len(V) \in (n + 1)..Len(V)
      BY <1>1, <2>2
    <3> QED BY <1>4, <3>1
  <2> QED BY <2>1, <2>2
<1> QED BY <1>4, <1>5, <1>6, <1>7 DEF Trace, f, V

\* What it says fits what it has taken.
Suits(c, a, l, X) ==
  \A i \in 1..Len(X) :
    /\ X[i].kind = "result" /\ X[i].req.kind = "start" =>
         X[i].turn \in 1..Len(l.turns) /\ l.turns[X[i].turn] = Opens(X[i].req)
    /\ X[i].kind = "refusal" /\ X[i].req.kind = "start" =>
         /\ X[i].req.m <= c.said /\ X[i].req.m \notin Steers(c)
         /\ X[i].req.m \notin Turned(l.turns) \union Started(c.stdin)
    /\ "crossed" \notin l.odd /\ X[i].kind = "interrupted" =>
         Withdrawn(c, l.turns, X[i].turn)

\* How it is then: it has started as many turns as it says.
Goes(c, b, l, z) ==
  /\ b \in AppRecord /\ b.running \in 0..Len(l.turns)
  /\ b.running # 0 => b.running = Len(l.turns) - Len(b.queue)
  /\ Len(b.queue) <= Len(l.turns)
  /\ \A k \in 1..Len(b.queue) : b.queue[k] = (Len(l.turns) - Len(b.queue)) + k
  /\ b.stopping # <<>> => b.running # 0
  /\ \A i \in 1..Len(b.stopping) : b.stopping[i].kind \in {"stop", "late"}
  /\ "crossed" \notin l.odd /\ b.stopping # <<>> => Withdrawn(c, l.turns, b.running)
  /\ z = Len(l.turns) - Len(b.queue)

\* The invariant holds of what is said then.
LEMMA SaidHolds ==
  ASSUME NEW g, NEW c, NEW a, NEW W, NEW l, Holds(g, c, a, W, l), ~c.exited,
         NEW X, NEW z, Says1(g, W, X, z), NEW b, Suits(c, b, l, X), Goes(c, b, l, z)
  PROVE  Holds(Said(g, W, X, z), c, b, W \o X, l)
<1> DEFINE f == Said(g, W, X, z)
           V == W \o X
           n == Len(W)
           T == l.turns
<1>1. /\ W \in Seq(Lines) /\ X \in Seq(Lines) /\ V \in Seq(Lines) /\ n \in Nat
      /\ \A i \in 1..Len(V) : \/ i \in 1..n /\ V[i] = W[i]
                              \/ i - n \in 1..Len(X) /\ V[i] = X[i - n]
      /\ T \in Seq(Openings)
  <2>1. W \in Seq(Lines) /\ X \in Seq(Lines) /\ T \in Seq(Openings)
    BY DEF Holds, AppOk, Says1
  <2> QED BY <2>1, JoinAt
<1>2. Trace(f, V) /\ f[0] = g[0] /\ f[Len(V)] = z
  BY <1>1, TraceSaid DEF Holds
<1> SUFFICES Holds(f, c, b, V, l)
  OBVIOUS
<1> HIDE DEF f, V, n
<1>3. \A i \in 1..Len(V) : (\E j \in 1..n : V[i] = W[j]) \/ (\E j \in 1..Len(X) : V[i] = X[j])
  BY <1>1
<1>4. AppOk(c, b, V, T)
  BY <1>1 DEF Goes, AppOk
<1>5. AnswersOk(c, V, T)
  <2>1. \A i \in 1..Len(V) : V[i].kind = "result" /\ V[i].req.kind = "start" =>
          V[i].turn \in 1..Len(T) /\ T[V[i].turn] = Opens(V[i].req)
    BY <1>3 DEF Holds, AnswersOk, Suits, n
  <2> QED BY <2>1 DEF Holds, AnswersOk
<1>6. MessagesOk(c, V, T)
  <2>1. MessagesOk(c, W, T)
    BY DEF Holds, Lively
  <2>2. \A m \in Refused(c, V) :
          m \in Refused(c, W)
            \/ (m <= c.said /\ m \notin Steers(c) /\ m \notin Turned(T) \union Started(c.stdin))
    BY <1>3 DEF Refused, Suits, n
  <2>3. \A m \in Opened(c, V, T) : m \in Opened(c, W, T) \/ (m <= c.said /\ m \notin Steers(c))
    BY <2>2 DEF Opened
  <2> QED BY <2>1, <2>2, <2>3 DEF MessagesOk
<1>7. Lively(c, b, V, T, f)
  BY <1>2, <1>6 DEF Holds, Lively, Goes
<1>8. Clean(c, b, V, l, f[0])
  <2> SUFFICES ASSUME "crossed" \notin l.odd PROVE StopsOk(c, b, V, T)
    BY <1>2 DEF Holds, Clean
  <2>1. StopsOk(c, a, W, T)
    BY DEF Holds, Clean
  <2>2. \A i \in 1..Len(V) : V[i].kind = "interrupted" => Withdrawn(c, T, V[i].turn)
    BY <1>3, <2>1 DEF StopsOk, Suits, n
  <2> QED BY <2>1, <2>2 DEF StopsOk, Goes
<1> QED BY <1>2, <1>4, <1>5, <1>7, <1>8 DEF Holds

-----------------------------------------------------------------------------
(* The app-server                                                            *)

\* What the invariant says of the app-server while it is there.
LEMMA AppFacts ==
  ASSUME NEW g, NEW c, NEW a, NEW W, NEW l, Holds(g, c, a, W, l)
  PROVE  /\ a \in AppRecord /\ W \in Seq(Lines) /\ l.turns \in Seq(Openings)
         /\ Len(l.turns) \in Nat /\ a.queue \in Seq(Nat) /\ Len(a.queue) \in Nat
         /\ a.stopping \in Seq(Reqs) /\ a.running \in Nat
         /\ a.running # 0 \/ a.queue # <<>> \/ a.asking => ~c.exited
         /\ a.stopping # <<>> => a.running # 0
         /\ \A i \in 1..Len(a.stopping) : a.stopping[i].kind \in {"stop", "late"}
         /\ ~c.exited =>
              /\ g[Len(W)] = Len(l.turns) - Len(a.queue) /\ Goes(c, a, l, g[Len(W)])
              /\ Len(a.queue) <= Len(l.turns) /\ g[Len(W)] \in Nat
<1>1. /\ a \in AppRecord /\ W \in Seq(Lines) /\ l.turns \in Seq(Openings)
      /\ a.stopping # <<>> => a.running # 0
      /\ \A i \in 1..Len(a.stopping) : a.stopping[i].kind \in {"stop", "late"}
  BY DEF Holds, AppOk
<1>2. /\ a.queue \in Seq(Nat) /\ a.stopping \in Seq(Reqs) /\ a.running \in Nat
      /\ Len(l.turns) \in Nat
  BY <1>1 DEF AppRecord
<1>3. Len(a.queue) \in Nat
  BY <1>2
<1>4. a.running # 0 \/ a.queue # <<>> \/ a.asking => ~c.exited
  BY DEF Holds, AppOk
<1>5. ASSUME ~c.exited
      PROVE  /\ g[Len(W)] = Len(l.turns) - Len(a.queue) /\ Len(a.queue) <= Len(l.turns)
  BY <1>5 DEF Holds, Lively, AppOk
<1>6. ASSUME ~c.exited PROVE Goes(c, a, l, g[Len(W)])
  <2>1. "crossed" \notin l.odd /\ a.stopping # <<>> => Withdrawn(c, l.turns, a.running)
    BY DEF Holds, Clean, StopsOk
  <2> QED BY <1>5, <1>6, <2>1 DEF Holds, AppOk, Goes
<1>7. ASSUME ~c.exited PROVE g[Len(W)] \in Nat
  <2>1. Len(W) \in Nat
    BY <1>1
  <2>2. Len(W) \in 0..Len(W)
    BY <2>1
  <2>3. g \in [0..Len(W) -> Nat]
    BY DEF Holds, Trace
  <2> QED BY <2>2, <2>3
<1> QED BY <1>1, <1>2, <1>3, <1>4, <1>5, <1>6, <1>7

\* A line of its own accord.
LEMMA LineIs ==
  ASSUME NEW k \in {"started", "completed", "interrupted", "error", "ask", "resolved"},
         NEW n \in Nat
  PROVE  /\ Line(k, n) \in Lines /\ Line(k, n).kind = k /\ Line(k, n).turn = n
         /\ <<Line(k, n)>> \in Seq(Lines) /\ Len(<<Line(k, n)>>) = 1
         /\ <<Line(k, n)>>[1] = Line(k, n)
<1> DEFINE x == Line(k, n)
<1>1. x \in Lines /\ x.kind = k /\ x.turn = n
  BY DEF Line, Lines, Req, Reqs
<1> HIDE DEF x
<1>2. <<x>> \in Seq(Lines) /\ Len(<<x>>) = 1 /\ <<x>>[1] = x
  BY <1>1
<1> QED BY <1>1, <1>2 DEF x

\* An answer.
LEMMA AnswerIs ==
  ASSUME NEW r \in Reqs, NEW b \in BOOLEAN, NEW n \in Nat
  PROVE  /\ Answer(r, b, n) \in Lines /\ Answer(r, b, n).req = r
         /\ Answer(r, b, n).kind = (IF b THEN "result" ELSE "refusal")
         /\ Answer(r, b, n).turn = n
         /\ <<Answer(r, b, n)>> \in Seq(Lines) /\ Len(<<Answer(r, b, n)>>) = 1
         /\ <<Answer(r, b, n)>>[1] = Answer(r, b, n)
<1> DEFINE x == Answer(r, b, n)
<1>1. x \in Lines /\ x.req = r /\ x.kind = (IF b THEN "result" ELSE "refusal") /\ x.turn = n
  <2>1. CASE b
    BY <2>1 DEF Answer, Lines
  <2>2. CASE ~b
    BY <2>2 DEF Answer, Lines
  <2> QED BY <2>1, <2>2
<1> HIDE DEF x
<1>2. <<x>> \in Seq(Lines) /\ Len(<<x>>) = 1 /\ <<x>>[1] = x
  BY <1>1
<1> QED BY <1>1, <1>2 DEF x

\* The next turn starts.
LEMMA AppStartsKeeps == ASSUME Heard, AppStarts PROVE Heard'
<1>1. PICK g : Holds(g, d, app, stdout, log)
  BY DEF Heard
<1> DEFINE T == log.turns
           n == Head(app.queue)
           q == Tail(app.queue)
           b == [app EXCEPT !.running = n, !.queue = q]
           X == <<Line("started", n)>>
           z == g[Len(stdout)]
<1>2. /\ app.running = 0 /\ app.queue # <<>> /\ app' = b /\ stdout' = stdout \o X
      /\ d' = d /\ log' = log
  BY DEF AppStarts, Says
<1>3. /\ app \in AppRecord /\ Len(T) \in Nat /\ app.queue \in Seq(Nat) /\ ~d.exited
      /\ z = Len(T) - Len(app.queue) /\ Goes(d, app, log, z)
      /\ Len(app.queue) <= Len(T) /\ z \in Nat /\ app.stopping = <<>>
  BY <1>1, <1>2, AppFacts, Zenon
<1>4. /\ q \in Seq(Nat) /\ Len(q) = Len(app.queue) - 1 /\ Len(app.queue) \in Nat
      /\ n = app.queue[1] /\ 1 \in 1..Len(app.queue) /\ n \in Nat
      /\ \A i \in 1..Len(q) : i \in Nat /\ i + 1 \in 1..Len(app.queue) /\ q[i] = app.queue[i + 1]
  BY <1>2, <1>3, TailAt
<1>5. \A i \in 1..Len(app.queue) : app.queue[i] = (Len(T) - Len(app.queue)) + i
  BY <1>3 DEF Goes
<1> HIDE DEF n, q, z
<1>6. n = z + 1 /\ n = Len(T) - Len(q) /\ n \in 1..Len(T) /\ Len(q) <= Len(T) /\ Len(q) \in Nat
  <2> DEFINE N == Len(T)
             M == Len(app.queue)
  <2>1. /\ N \in Nat /\ M \in Nat /\ M <= N /\ M >= 1 /\ Len(q) = M - 1 /\ z = N - M
        /\ n = (N - M) + 1
    <3>1. N \in Nat /\ M \in Nat /\ M <= N /\ Len(q) = M - 1 /\ z = N - M
      BY <1>3, <1>4
    <3>2. 1 \in 1..M /\ n = (N - M) + 1
      BY <1>4, <1>5
    <3> HIDE DEF N, M
    <3> QED BY <3>1, <3>2
  <2> HIDE DEF N, M
  <2>2. n = z + 1 /\ n = N - Len(q) /\ n \in 1..N /\ Len(q) <= N /\ Len(q) \in Nat
    BY <2>1
  <2> QED BY <2>2 DEF N
<1>7. \A i \in 1..Len(q) : q[i] = (Len(T) - Len(q)) + i
  <2> DEFINE N == Len(T)
             M == Len(app.queue)
  <2>1. /\ N \in Nat /\ M \in Nat /\ Len(q) = M - 1
        /\ \A i \in 1..Len(q) : i \in Nat /\ q[i] = (N - M) + (i + 1)
    BY <1>3, <1>4, <1>5
  <2> HIDE DEF N, M
  <2>2. \A i \in 1..Len(q) : q[i] = (N - Len(q)) + i
    BY <2>1
  <2> QED BY <2>2 DEF N
<1>8. b \in AppRecord /\ b.running = n /\ b.queue = q /\ b.stopping = app.stopping
  BY <1>3, <1>4 DEF AppRecord
<1> HIDE DEF b
<1>9. Goes(d, b, log, n)
  <2>1. n \in 0..Len(T) /\ n # 0
    <3>1. \A i \in 1..Len(T) : i \in 0..Len(T) /\ i # 0
      BY <1>3
    <3> QED BY <1>6, <3>1
  <2>2. b.stopping = <<>> /\ Len(b.stopping) = 0
    BY <1>3, <1>8
  <2> QED BY <1>3, <1>6, <1>7, <1>8, <2>1, <2>2 DEF Goes
<1>10. X \in Seq(Lines) /\ Len(X) = 1 /\ X[1].kind = "started" /\ X[1].turn = n
  BY <1>4, LineIs
<1> HIDE DEF X
<1>11. \A i \in 1..Len(X) : X[i].kind = "started" /\ X[i].turn = n
  BY <1>10
<1>12. Says1(g, stdout, X, n)
  BY <1>4, <1>6, <1>10, <1>11 DEF Says1, z
<1>13. Suits(d, b, log, X)
  BY <1>11 DEF Suits
<1>14. Holds(Said(g, stdout, X, n), d, b, stdout \o X, log)
  BY <1>1, <1>3, <1>9, <1>12, <1>13, SaidHolds
<1>15. Holds(Said(g, stdout, X, n), d', app', stdout', log')
  BY <1>2, <1>14
<1> QED BY <1>15 DEF Heard

\* What it says of the turn that runs: nothing else changes but that it may end.
LEMMA RunningHolds ==
  ASSUME NEW g, NEW c, NEW a, NEW W, NEW l, Holds(g, c, a, W, l), ~c.exited,
         NEW X \in Seq(Lines), NEW b \in AppRecord, b.queue = a.queue,
         b.running = a.running \/ (b.running = 0 /\ b.stopping = <<>>),
         b.stopping \in {a.stopping, <<>>},
         \A i \in 1..Len(X) :
           \/ /\ X[i].kind \in {"completed", "interrupted", "error"} /\ a.running # 0
              /\ X[i].turn = a.running
              /\ X[i].kind = "interrupted" => a.stopping # <<>>
           \/ X[i].kind \in {"ask", "resolved"}
           \/ X[i].kind \in {"result", "refusal"} /\ X[i].req.kind # "start"
  PROVE  \E f : Holds(f, c, b, W \o X, l)
<1> DEFINE z == g[Len(W)]
           T == l.turns
<1>1. /\ Len(T) \in Nat /\ z = Len(T) - Len(a.queue) /\ Goes(c, a, l, z)
      /\ z \in Nat
  <2>1. g[Len(W)] = Len(l.turns) - Len(a.queue) /\ Goes(c, a, l, g[Len(W)])
    <3>1. Holds(g, c, a, W, l) /\ ~c.exited
      OBVIOUS
    <3> QED BY ONLY <3>1, AppFacts, Zenon
  <2>2. Len(l.turns) \in Nat /\ g[Len(W)] \in Nat
    BY AppFacts
  <2> QED BY <2>1, <2>2
<1> HIDE DEF z
<1>2. Goes(c, b, l, z)
  <2>1. b.running \in 0..Len(T)
    BY <1>1 DEF Goes
  <2>2. b.stopping # <<>> => b.running # 0 /\ b.running = a.running /\ b.stopping = a.stopping
    BY <1>1 DEF Goes
  <2>3. \A i \in 1..Len(b.stopping) : b.stopping[i].kind \in {"stop", "late"}
    <3>1. CASE b.stopping = <<>>
      <4>1. Len(b.stopping) = 0
        BY <3>1
      <4> QED BY <4>1
    <3>2. CASE b.stopping = a.stopping
      BY <1>1, <3>2 DEF Goes
    <3> QED BY <3>1, <3>2
  <2>4. b.running # 0 => b.running = Len(T) - Len(b.queue)
    BY <1>1 DEF Goes
  <2> QED BY <1>1, <2>1, <2>2, <2>3, <2>4 DEF Goes
<1>3. a.running # 0 => a.running = z
  BY <1>1 DEF Goes
<1>4. Says1(g, W, X, z)
  <2>1. \A i \in 1..Len(X) : X[i].kind # "started"
    OBVIOUS
  <2>2. \A i \in 1..Len(X) :
          X[i].kind \in {"started", "completed", "interrupted", "error"} =>
            X[i].turn = z /\ z # 0
    BY <1>3
  <2>3. \A i \in 1..Len(X) : ~(X[i].kind = "result" /\ X[i].req.kind = "start")
    OBVIOUS
  <2> QED BY <1>1, <2>1, <2>2, <2>3 DEF Says1, z
<1>5. Suits(c, b, l, X)
  <2>1. "crossed" \notin l.odd /\ a.stopping # <<>> => Withdrawn(c, T, a.running)
    BY <1>1 DEF Goes
  <2> QED BY <2>1 DEF Suits
<1>6. Holds(Said(g, W, X, z), c, b, W \o X, l)
  BY <1>2, <1>4, <1>5, SaidHolds
<1> QED BY <1>6

\* A turn ends by itself.
LEMMA AppEndsKeeps == ASSUME Heard, AppEnds PROVE Heard'
<1>1. PICK g : Holds(g, d, app, stdout, log)
  BY DEF Heard
<1> DEFINE n == app.running
           ended == [app EXCEPT !.running = 0]
           one == Line("completed", n)
           two == Line("error", n)
<1>2. app.running # 0 /\ app.stopping = <<>> /\ d' = d /\ log' = log
  BY DEF AppEnds
<1>3. app \in AppRecord /\ ~d.exited /\ n \in Nat
  BY <1>1, <1>2, AppFacts, Zenon
<1>4. \/ app' = ended /\ stdout' = stdout \o <<one>>
      \/ app' = Troubled(ended) /\ stdout' = stdout \o <<two>>
      \/ app' = Troubled(ended) /\ stdout' = stdout \o <<two, one>>
  BY DEF AppEnds, Says
<1>5. /\ one \in Lines /\ one.kind = "completed" /\ one.turn = n
      /\ two \in Lines /\ two.kind = "error" /\ two.turn = n
  BY <1>3, LineIs
<1> HIDE DEF one, two
<1>6. /\ app' \in AppRecord /\ app'.queue = app.queue /\ app'.running = 0
      /\ app'.stopping = app.stopping
  <2>1. /\ ended \in AppRecord /\ ended.queue = app.queue /\ ended.running = 0
        /\ ended.stopping = app.stopping
    BY <1>3 DEF AppRecord
  <2> HIDE DEF ended
  <2>2. /\ Troubled(ended) \in AppRecord /\ Troubled(ended).queue = ended.queue
        /\ Troubled(ended).running = ended.running
        /\ Troubled(ended).stopping = ended.stopping
    BY <2>1 DEF AppRecord, Troubled
  <2> QED BY <1>4, <2>1, <2>2
<1>7. PICK X \in Seq(Lines) :
        /\ stdout' = stdout \o X
        /\ \A i \in 1..Len(X) : X[i].kind \in {"completed", "error"} /\ X[i].turn = n
  <2>1. /\ <<one>> \in Seq(Lines)
        /\ \A i \in 1..Len(<<one>>) : <<one>>[i] = one
    BY <1>5
  <2>2. /\ <<two>> \in Seq(Lines)
        /\ \A i \in 1..Len(<<two>>) : <<two>>[i] = two
    BY <1>5
  <2>3. /\ <<two, one>> \in Seq(Lines)
        /\ \A i \in 1..Len(<<two, one>>) : <<two, one>>[i] = two \/ <<two, one>>[i] = one
    BY <1>5
  <2>4. CASE stdout' = stdout \o <<one>>
    <3>1. \A i \in 1..Len(<<one>>) : <<one>>[i].kind \in {"completed", "error"} /\ <<one>>[i].turn = n
      BY <1>5, <2>1
    <3> QED BY <2>1, <2>4, <3>1
  <2>5. CASE stdout' = stdout \o <<two>>
    <3>1. \A i \in 1..Len(<<two>>) : <<two>>[i].kind \in {"completed", "error"} /\ <<two>>[i].turn = n
      BY <1>5, <2>2
    <3> QED BY <2>2, <2>5, <3>1
  <2>6. CASE stdout' = stdout \o <<two, one>>
    <3> DEFINE X == <<two, one>>
    <3>1. \A i \in 1..Len(X) : X[i].kind \in {"completed", "error"} /\ X[i].turn = n
      BY <1>5, <2>3
    <3> QED BY <2>3, <2>6, <3>1
  <2> QED BY <1>4, <2>4, <2>5, <2>6
<1>8. \E f : Holds(f, d, app', stdout \o X, log)
  <2>1. \A i \in 1..Len(X) :
          /\ X[i].kind \in {"completed", "interrupted", "error"} /\ app.running # 0
          /\ X[i].turn = app.running /\ X[i].kind # "interrupted"
    BY <1>2, <1>7
  <2> QED BY <1>1, <1>2, <1>3, <1>6, <2>1, RunningHolds
<1> QED BY <1>2, <1>7, <1>8 DEF Heard

\* A turn is interrupted.
LEMMA AppStopsKeeps == ASSUME Heard, AppStops PROVE Heard'
<1>1. PICK g : Holds(g, d, app, stdout, log)
  BY DEF Heard
<1> DEFINE n == app.running
           s == app.stopping
           b == [app EXCEPT !.running = 0, !.stopping = <<>>]
           x == Line("interrupted", n)
           r == [i \in DOMAIN s |-> Answer(s[i], TRUE, 0)]
           X == <<x>> \o r
<1>2. s # <<>> /\ app' = b /\ stdout' = stdout \o X /\ d' = d /\ log' = log
  BY DEF AppStops, Says
<1>3. /\ app \in AppRecord /\ n # 0 /\ n \in Nat /\ s \in Seq(Reqs)
      /\ \A i \in 1..Len(s) : s[i].kind \in {"stop", "late"}
  BY <1>1, <1>2, AppFacts, Zenon
<1>4. ~d.exited
  BY <1>1, <1>3, AppFacts
<1>5. b \in AppRecord /\ b.queue = app.queue /\ b.running = 0 /\ b.stopping = <<>>
  <2>1. <<>> \in Seq(Reqs)
    OBVIOUS
  <2> QED BY <1>3, <2>1 DEF AppRecord
<1>6. x \in Lines /\ x.kind = "interrupted" /\ x.turn = n /\ <<x>> \in Seq(Lines)
      /\ Len(<<x>>) = 1 /\ <<x>>[1] = x
  BY <1>3, LineIs
<1>7. /\ r \in Seq(Lines)
      /\ \A i \in 1..Len(r) : r[i].kind = "result" /\ r[i].req.kind # "start"
  <2>1. DOMAIN s = 1..Len(s) /\ Len(s) \in Nat
    BY <1>3
  <2>2. \A i \in 1..Len(s) :
          /\ Answer(s[i], TRUE, 0) \in Lines /\ Answer(s[i], TRUE, 0).kind = "result"
          /\ Answer(s[i], TRUE, 0).req = s[i]
    <3> SUFFICES ASSUME NEW i \in 1..Len(s)
                 PROVE  /\ Answer(s[i], TRUE, 0) \in Lines
                        /\ Answer(s[i], TRUE, 0).kind = "result"
                        /\ Answer(s[i], TRUE, 0).req = s[i]
      OBVIOUS
    <3> DEFINE u == s[i]
    <3>1. u \in Reqs
      BY <1>3, ElementOf
    <3> HIDE DEF u
    <3>2. TRUE \in BOOLEAN /\ 0 \in Nat
      OBVIOUS
    <3>3. Answer(u, TRUE, 0) \in Lines /\ Answer(u, TRUE, 0).req = u
      BY <3>1, <3>2 DEF Answer, Lines
    <3>4. Answer(u, TRUE, 0).kind = "result"
      BY DEF Answer
    <3> QED BY <3>3, <3>4 DEF u
  <2>3. r = [i \in 1..Len(s) |-> Answer(s[i], TRUE, 0)]
    BY <2>1
  <2> HIDE DEF r, s
  <2>4. r \in Seq(Lines) /\ Len(r) = Len(s)
    <3> DEFINE N == Len(s)
    <3>1. r \in [1..N -> Lines] /\ N \in Nat
      BY <2>1, <2>2, <2>3
    <3> HIDE DEF N
    <3>2. r \in Seq(Lines) /\ Len(r) = N
      BY <3>1
    <3> QED BY <3>2 DEF N
  <2>5. \A i \in 1..Len(r) : r[i] = Answer(s[i], TRUE, 0)
    BY <2>3, <2>4
  <2> USE DEF s
  <2> QED BY <1>3, <2>2, <2>4, <2>5
<1> HIDE DEF b, r, x
<1>8. /\ X \in Seq(Lines)
      /\ \A i \in 1..Len(X) : X[i] = x \/ \E j \in 1..Len(r) : X[i] = r[j]
  <2> DEFINE u == <<x>>
  <2>1. u \in Seq(Lines) /\ \A i \in 1..Len(u) : u[i] = x
    BY <1>6
  <2> HIDE DEF u
  <2>2. /\ u \o r \in Seq(Lines)
        /\ \A i \in 1..Len(u \o r) :
             \/ i \in 1..Len(u) /\ (u \o r)[i] = u[i]
             \/ i - Len(u) \in 1..Len(r) /\ (u \o r)[i] = r[i - Len(u)]
    BY <1>7, <2>1, JoinAt
  <2>3. \A i \in 1..Len(u \o r) : (u \o r)[i] = x \/ \E j \in 1..Len(r) : (u \o r)[i] = r[j]
    BY <2>1, <2>2
  <2> QED BY <2>2, <2>3 DEF u
<1> HIDE DEF X
<1>9. \E f : Holds(f, d, b, stdout \o X, log)
  <2>1. \A i \in 1..Len(X) :
          \/ /\ X[i].kind = "interrupted" /\ app.running # 0 /\ X[i].turn = app.running
             /\ app.stopping # <<>>
          \/ X[i].kind \in {"result", "refusal"} /\ X[i].req.kind # "start"
    BY <1>2, <1>3, <1>6, <1>7, <1>8
  <2> QED BY <1>1, <1>4, <1>5, <1>8, <2>1, RunningHolds
<1> QED BY <1>2, <1>9 DEF Heard

\* An approval is asked for.
LEMMA AppAsksKeeps == ASSUME Heard, AppAsks PROVE Heard'
<1>1. PICK g : Holds(g, d, app, stdout, log)
  BY DEF Heard
<1> DEFINE b == [app EXCEPT !.asking = TRUE, !.asked = @ + 1]
           X == <<Line("ask", app.running)>>
           y == app.asked + 1
<1>2. app.running # 0 /\ app' = b /\ stdout' = stdout \o X /\ d' = d /\ log' = log
  BY DEF AppAsks, Says
<1>3. app \in AppRecord /\ ~d.exited /\ app.running \in Nat
  BY <1>1, <1>2, AppFacts, Zenon
<1>4. /\ b \in AppRecord /\ b.queue = app.queue /\ b.running = app.running
      /\ b.stopping = app.stopping
  <2>1. y \in Nat
    BY <1>3 DEF AppRecord
  <2>2. b = [app EXCEPT !.asking = TRUE, !.asked = y]
    BY <1>3 DEF AppRecord
  <2> HIDE DEF b, y
  <2> QED BY <1>3, <2>1, <2>2 DEF AppRecord
<1>5. X \in Seq(Lines) /\ Len(X) = 1 /\ X[1].kind = "ask"
  BY <1>3, LineIs
<1> HIDE DEF b, X
<1>6. \A i \in 1..Len(X) : X[i].kind = "ask"
  BY <1>5
<1>7. \E f : Holds(f, d, b, stdout \o X, log)
  BY <1>1, <1>3, <1>4, <1>5, <1>6, RunningHolds
<1> QED BY <1>2, <1>7 DEF Heard

\* An approval is withdrawn.
LEMMA AppWithdrawsKeeps == ASSUME Heard, AppWithdraws PROVE Heard'
<1>1. PICK g : Holds(g, d, app, stdout, log)
  BY DEF Heard
<1> DEFINE b == [app EXCEPT !.asking = FALSE]
           X == <<Line("resolved", app.running)>>
<1>2. app.asking /\ app' = b /\ stdout' = stdout \o X /\ d' = d /\ log' = log
  BY DEF AppWithdraws, Says
<1>3. app \in AppRecord /\ ~d.exited /\ app.running \in Nat
  BY <1>1, <1>2, AppFacts, Zenon
<1>4. /\ b \in AppRecord /\ b.queue = app.queue /\ b.running = app.running
      /\ b.stopping = app.stopping
  BY <1>3 DEF AppRecord
<1>5. X \in Seq(Lines) /\ Len(X) = 1 /\ X[1].kind = "resolved"
  BY <1>3, LineIs
<1> HIDE DEF b, X
<1>6. \A i \in 1..Len(X) : X[i].kind = "resolved"
  BY <1>5
<1>7. \E f : Holds(f, d, b, stdout \o X, log)
  BY <1>1, <1>3, <1>4, <1>5, <1>6, RunningHolds
<1> QED BY <1>2, <1>7 DEF Heard

\* A start that is taken is wanted as the turn it is.
LEMMA WantedTaken ==
  ASSUME NEW T \in Seq(Openings), NEW S \in Seq(Reqs), S # <<>>, S[1].kind = "start",
         NEW h \in Nat
  PROVE  Wanted(Append(T, Opens(S[1])), Tail(S), h) \subseteq Wanted(T, S, h)
<1> DEFINE x == Opens(S[1])
           U == Append(T, x)
           R == Tail(S)
           N == Len(T)
           A(n) == [rank |-> n, o |-> T[n]]
           B(k) == [rank |-> N + k, o |-> Opens(S[k])]
<1>1. x \in Openings
  <2>1. S[1] \in Reqs
    BY EmptyByLength
  <2> QED BY <2>1 DEF Opens, Openings, Reqs
<1> HIDE DEF x
<1>2. /\ N \in Nat /\ Len(U) = N + 1 /\ U[N + 1] = x
      /\ \A i \in 1..N : U[i] = T[i]
      /\ \A i \in 1..Len(U) : i \in 1..N \/ i = N + 1
  BY <1>1, AppendAt
<1>3. /\ 1 \in 1..Len(S)
      /\ \A i \in 1..Len(R) : i \in Nat /\ i + 1 \in 1..Len(S) /\ R[i] = S[i + 1]
  BY TailAt
<1>4. /\ Wanted(T, S, h) = {A(n) : n \in (h + 1)..N} \union {B(k) : k \in Starting(S)}
      /\ Wanted(U, R, h) = {[rank |-> n, o |-> U[n]] : n \in (h + 1)..Len(U)}
           \union {[rank |-> Len(U) + k, o |-> Opens(R[k])] : k \in Starting(R)}
  BY DEF Wanted
<1> HIDE DEF U, R, N
<1>5. ASSUME NEW n \in (h + 1)..Len(U) PROVE [rank |-> n, o |-> U[n]] \in Wanted(T, S, h)
  <2>1. CASE n = N + 1
    <3>1. 1 \in Starting(S)
      BY <1>3 DEF Starting
    <3>2. [rank |-> n, o |-> U[n]] = B(1)
      BY <1>2, <2>1 DEF x
    <3> QED BY <1>4, <3>1, <3>2
  <2>2. CASE n # N + 1
    <3>1. n \in 1..N /\ n \in (h + 1)..N
      BY <1>2, <2>2
    <3>2. [rank |-> n, o |-> U[n]] = A(n)
      BY <1>2, <3>1
    <3> QED BY <1>4, <3>1, <3>2
  <2> QED BY <2>1, <2>2
<1>6. ASSUME NEW k \in Starting(R)
      PROVE  [rank |-> Len(U) + k, o |-> Opens(R[k])] \in Wanted(T, S, h)
  <2>1. k + 1 \in Starting(S) /\ R[k] = S[k + 1] /\ k \in Nat
    BY <1>3 DEF Starting
  <2>2. Len(U) + k = N + (k + 1)
    BY <1>2, <2>1
  <2>3. [rank |-> Len(U) + k, o |-> Opens(R[k])] = B(k + 1)
    BY <2>1, <2>2
  <2> QED BY <1>4, <2>1, <2>3
<1>7. Wanted(U, R, h) \subseteq Wanted(T, S, h)
  BY <1>4, <1>5, <1>6
<1> QED BY <1>7 DEF U, R, x

\* Of two starts asked for, each is for a message of its own, of a generation there has been.
LEMMA StartIsNew ==
  ASSUME NEW g, NEW c, NEW a, NEW W, NEW l, Holds(g, c, a, W, l), ~c.exited,
         c.stdin # <<>>, c.stdin[1].kind = "start"
  PROVE  LET r == c.stdin[1]
         IN  /\ Opens(r).gen \in Nat /\ Opens(r).gen <= c.gen
             /\ r.m \notin Started(Tail(c.stdin)) /\ r.m \in Started(c.stdin)
<1> DEFINE S == c.stdin
           r == S[1]
           T == l.turns
           h == g[0]
           V == Wanted(T, S, h)
           N == Len(T)
           B(k) == [rank |-> N + k, o |-> Opens(S[k])]
<1>1. S \in Seq(Reqs) /\ c.openings \in Seq(Openings) /\ LinedUp(c.openings, V) /\ N \in Nat
  BY DriverTypes, AppFacts DEF Holds, Lively
<1>2. /\ 1 \in 1..Len(S)
      /\ \A i \in 1..Len(Tail(S)) : i \in Nat /\ i + 1 \in 1..Len(S) /\ Tail(S)[i] = S[i + 1]
  BY <1>1, TailAt
<1>3. 1 \in Starting(S)
  BY <1>2 DEF Starting
<1>4. \A k \in Starting(S) : B(k) \in V /\ B(k).rank = N + k /\ B(k).o = Opens(S[k])
  BY DEF Wanted
<1> HIDE DEF V, B, N
<1>5. PICK i \in 1..Len(c.openings) : c.openings[i] = Opens(r)
  BY <1>1, <1>3, <1>4 DEF LinedUp
<1>6. Opens(r).gen \in Nat /\ Opens(r).gen <= c.gen
  <2>1. c.openings[i].gen <= c.gen
    BY DEF Holds, OpeningsOk
  <2>2. c.openings[i] \in Openings
    BY <1>1, ElementOf
  <2> QED BY <1>5, <2>1, <2>2 DEF Openings
<1>7. ASSUME NEW k \in Starting(Tail(S)), Tail(S)[k].m = r.m PROVE FALSE
  <2>1. k + 1 \in Starting(S) /\ S[k + 1].m = r.m /\ k \in Nat /\ k > 0
    BY <1>2, <1>7 DEF Starting
  <2>2. B(1).rank < B(k + 1).rank
    <3>1. N + 1 < N + (k + 1)
      BY <1>1, <2>1
    <3> QED BY <1>3, <1>4, <2>1, <3>1
  <2>3. Opens(r).m = r.m /\ Opens(S[k + 1]).m = r.m
    BY <2>1 DEF Opens
  <2>4. /\ c.openings[i].m = B(1).o.m /\ c.openings[i].m = B(k + 1).o.m
        /\ B(1) \in V /\ B(k + 1) \in V
    <3>1. c.openings[i].m = r.m
      BY <1>5, <2>3
    <3> QED BY <1>3, <1>4, <2>1, <2>3, <3>1
  <2>5. i < i
    BY <1>1, <2>2, <2>4 DEF LinedUp
  <2> QED BY <1>5, <2>5
<1>8. r.m \notin Started(Tail(S))
  BY <1>7 DEF Started
<1>9. r.m \in Started(S)
  BY <1>3 DEF Started
<1> QED BY <1>6, <1>8, <1>9

\* The app-server reads a request.
LEMMA PoppedFine ==
  ASSUME NEW c, DriverOk(c), c.stdin # <<>>
  PROVE  LET e == [c EXCEPT !.stdin = Tail(@)]
         IN  /\ Fine(c, e) /\ e.stdin = Tail(c.stdin) /\ e.said = c.said /\ e.waiting = c.waiting
             /\ e.steers = c.steers /\ e.micro = c.micro /\ e.gen = c.gen
             /\ e.exited = c.exited /\ ~c.exited /\ e.openings = c.openings
             /\ Head(c.stdin) = c.stdin[1] /\ c.stdin[1] \in Reqs
             /\ 1 \in 1..Len(c.stdin)
<1> DEFINE s == Tail(c.stdin)
           e == [c EXCEPT !.stdin = Tail(@)]
<1>1. c \in DriverRecord /\ c.stdin \in Seq(Reqs)
  BY DriverTypes
<1>2. /\ s \in Seq(Reqs) /\ Head(c.stdin) = c.stdin[1] /\ 1 \in 1..Len(c.stdin)
      /\ c.stdin[1] \in Reqs
      /\ \A i \in 1..Len(s) : i + 1 \in 1..Len(c.stdin) /\ s[i] = c.stdin[i + 1]
  BY <1>1, TailAt
<1>3. ThinOn(c.stdin, Asking(c.stdin), s, Asking(s))
  BY <1>1, RequestsThin
<1>4. e = [c EXCEPT !.stdin = s]
  BY <1>1 DEF DriverRecord
<1> HIDE DEF e, s
<1>5. e \in DriverRecord /\ e.stdin = s
  BY <1>1, <1>2, <1>4 DEF DriverRecord
<1>6. Calm(c, e)
  BY <1>1, <1>4 DEF DriverRecord, Calm
<1>7. /\ e.openings = c.openings /\ e.said = c.said /\ e.exited = c.exited
      /\ e.steers = c.steers /\ e.waiting = c.waiting /\ e.micro = c.micro
      /\ e.chunk = c.chunk /\ e.pipe = c.pipe /\ e.over = c.over /\ e.state = c.state
  BY <1>1, <1>4 DEF DriverRecord
<1>8. ~c.exited
  BY DEF DriverOk
<1>9. DriverOk(e)
  <2>1. \A i \in 1..Len(s) : s[i].kind \in {"stop", "late"} => s[i].turn # 0
    BY <1>2 DEF DriverOk
  <2> QED BY <1>5, <1>6, <1>7, <1>8, <2>1 DEF DriverOk, Calm
<1>10. Shrinks(c, e)
  <2>1. /\ ThinOn(c.waiting, Asking(c.waiting), e.waiting, Asking(e.waiting))
        /\ ThinOn(c.micro, Answering(c.micro), e.micro, Answering(e.micro))
    BY <1>7, DriverTypes, RequestsThin, MicrosThin
  <2>2. c.gen <= e.gen
    BY <1>6, DriverTypes DEF Calm
  <2> QED BY <1>3, <1>5, <1>6, <1>7, <2>1, <2>2 DEF Shrinks, Calm
<1>11. Mild(c, e)
  BY <1>2, <1>5, <1>6, <1>7 DEF Mild, Calm, ResultsIn, StopsIn, Doomed
<1>12. e.gen = c.gen
  BY <1>6 DEF Calm
<1> QED BY <1>2, <1>5, <1>7, <1>8, <1>9, <1>10, <1>11, <1>12 DEF Fine, e, s

\* A start it reads is a turn, queued behind the others.
LEMMA TakenHolds ==
  ASSUME NEW g, NEW c, NEW a, NEW W, NEW l, Holds(g, c, a, W, l),
         c.stdin # <<>>, c.stdin[1].kind = "start"
  PROVE  Holds(g, [c EXCEPT !.stdin = Tail(@)],
               [a EXCEPT !.queue = Append(@, Len(l.turns) + 1)], W,
               [l EXCEPT !.turns = Append(@, Opens(c.stdin[1]))])
<1> DEFINE e == [c EXCEPT !.stdin = Tail(@)]
           r == c.stdin[1]
           o == Opens(r)
           T == l.turns
           U == Append(T, o)
           N == Len(T)
           q == Append(a.queue, N + 1)
           b == [a EXCEPT !.queue = Append(@, Len(l.turns) + 1)]
           k == [l EXCEPT !.turns = Append(@, Opens(c.stdin[1]))]
           h == g[0]
<1>1. /\ Fine(c, e) /\ e.stdin = Tail(c.stdin) /\ e.said = c.said /\ e.waiting = c.waiting
      /\ e.steers = c.steers /\ e.micro = c.micro /\ e.gen = c.gen
      /\ e.exited = c.exited /\ ~c.exited /\ e.openings = c.openings
      /\ r \in Reqs /\ DriverOk(c)
  BY PoppedFine DEF Holds
<1>2. c.stdin \in Seq(Reqs) /\ c.gen \in Nat
  BY <1>1, DriverTypes
<1>3. Holds(g, e, a, W, l)
  BY <1>1, FineKeeps
<1>4. /\ o.gen \in Nat /\ o.gen <= c.gen /\ r.m \notin Started(Tail(c.stdin))
      /\ r.m \in Started(c.stdin) /\ o.m = r.m
  BY <1>1, StartIsNew DEF Opens
<1>5. /\ a \in AppRecord /\ W \in Seq(Lines) /\ T \in Seq(Openings) /\ N \in Nat
      /\ a.queue \in Seq(Nat) /\ Len(a.queue) \in Nat /\ a.running \in Nat
      /\ l \in LogRecord /\ Len(W) \in Nat
  <2>1. l \in LogRecord
    BY DEF Holds, LogOk
  <2>2. /\ a \in AppRecord /\ W \in Seq(Lines) /\ T \in Seq(Openings) /\ N \in Nat
        /\ a.queue \in Seq(Nat) /\ Len(a.queue) \in Nat /\ a.running \in Nat
    BY AppFacts
  <2>3. Len(W) \in Nat
    BY <2>2
  <2> QED BY <2>1, <2>2, <2>3
<1>6. o \in Openings
  BY <1>1 DEF Opens, Openings, Reqs
<1>7. h \in Nat
  BY <1>5 DEF Holds, Trace
<1>8. Wanted(U, Tail(c.stdin), h) \subseteq Wanted(T, c.stdin, h)
  BY <1>2, <1>5, <1>7, WantedTaken
<1>9. /\ b = [a EXCEPT !.queue = q] /\ k = [l EXCEPT !.turns = U]
  BY <1>5 DEF AppRecord, LogRecord
<1> SUFFICES Holds(g, e, b, W, k)
  OBVIOUS
<1> HIDE DEF e, r, o, b, k, h
<1>10. /\ U \in Seq(Openings) /\ Len(U) = N + 1 /\ U[N + 1] = o /\ N + 1 \in Nat
       /\ \A i \in 1..N : U[i] = T[i]
       /\ \A i \in 1..Len(U) : i \in 1..N \/ i = N + 1
       /\ \A i \in 1..N : i \in 1..Len(U)
       /\ \A i \in 0..N : i \in 0..Len(U)
  <2>1. /\ U \in Seq(Openings) /\ Len(U) = N + 1 /\ U[N + 1] = o /\ N + 1 \in Nat
        /\ \A i \in 1..N : U[i] = T[i]
        /\ \A i \in 1..Len(U) : i \in 1..N \/ i = N + 1
    BY <1>5, <1>6, AppendAt
  <2> QED BY <1>5, <2>1
<1>11. /\ q \in Seq(Nat) /\ Len(q) = Len(a.queue) + 1 /\ q[Len(a.queue) + 1] = N + 1
       /\ \A i \in 1..Len(a.queue) : q[i] = a.queue[i]
       /\ \A i \in 1..Len(q) : i \in 1..Len(a.queue) \/ i = Len(a.queue) + 1
  BY <1>5, <1>10, AppendAt
<1> HIDE DEF U, q
<1>12. /\ b \in AppRecord /\ b.queue = q /\ b.running = a.running /\ b.stopping = a.stopping
       /\ b.asking = a.asking
  BY <1>5, <1>9, <1>11 DEF AppRecord
<1>13. /\ k \in LogRecord /\ k.turns = U /\ k.results = l.results /\ k.due = l.due
       /\ k.odd = l.odd
  BY <1>5, <1>9, <1>10 DEF LogRecord
<1>14. LogOk(k)
  BY <1>10, <1>13 DEF Holds, LogOk
<1>15. AppOk(e, b, W, U)
  <2>1. /\ a.running \in 0..N /\ (a.running # 0 => a.running = N - Len(a.queue))
        /\ Len(a.queue) <= N
        /\ \A i \in 1..Len(a.queue) : a.queue[i] = (N - Len(a.queue)) + i
        /\ a.stopping # <<>> => a.running # 0
        /\ \A i \in 1..Len(a.stopping) : a.stopping[i].kind \in {"stop", "late"}
    BY <1>1 DEF Holds, AppOk
  <2>2. /\ a.running \in 0..Len(U) /\ (a.running # 0 => a.running = Len(U) - Len(q))
        /\ Len(q) <= Len(U)
    <3> DEFINE M == Len(a.queue)
    <3>1. /\ a.running \in 0..N /\ (a.running # 0 => a.running = N - M)
          /\ M <= N /\ M \in Nat /\ N \in Nat /\ Len(U) = N + 1 /\ Len(q) = M + 1
      BY <1>5, <1>10, <1>11, <2>1
    <3> HIDE DEF M, N
    <3> QED BY <3>1
  <2>3. \A i \in 1..Len(q) : q[i] = (Len(U) - Len(q)) + i
    <3> DEFINE M == Len(a.queue)
    <3>1. /\ M <= N /\ M \in Nat /\ N \in Nat /\ Len(U) = N + 1 /\ Len(q) = M + 1
          /\ \A i \in 1..Len(q) : i \in 1..M \/ i = M + 1
          /\ \A i \in 1..M : q[i] = (N - M) + i
          /\ q[M + 1] = N + 1
      BY <1>5, <1>10, <1>11, <2>1
    <3> HIDE DEF M, N
    <3>2. Len(U) - Len(q) = N - M /\ N + 1 = (N - M) + (M + 1)
      BY <3>1
    <3> QED BY <3>1, <3>2
  <2> QED BY <1>1, <1>5, <1>10, <1>12, <2>1, <2>2, <2>3 DEF AppOk
<1>16. TurnsOk(e, U)
  <2>1. /\ \A n \in 1..N : T[n].gen <= e.gen
        /\ e.cur \in 0..N
        /\ e.cur # 0 /\ e.over = "none" => T[e.cur].gen = e.gen
    BY <1>3 DEF Holds, TurnsOk
  <2>2. \A n \in 1..Len(U) : U[n].gen <= e.gen
    BY <1>1, <1>4, <1>10, <2>1
  <2>3. e.cur # 0 => e.cur \in 1..N
    BY <1>5, <2>1
  <2> QED BY <1>10, <2>1, <2>2, <2>3 DEF TurnsOk
<1>17. AnswersOk(e, W, U)
  BY <1>3, <1>10 DEF Holds, AnswersOk
<1>18. g[Len(W)] = Len(U) - Len(q)
  <2> DEFINE M == Len(a.queue)
  <2>1. g[Len(W)] = N - M /\ M \in Nat /\ N \in Nat /\ Len(U) = N + 1 /\ Len(q) = M + 1
    BY <1>1, <1>5, <1>10, <1>11 DEF Holds, Lively
  <2> HIDE DEF M, N
  <2> QED BY <2>1
<1>19. LinedUp(e.openings, Wanted(U, e.stdin, h))
  <2>1. LinedUp(c.openings, Wanted(T, c.stdin, h))
    BY <1>1 DEF Holds, Lively, h
  <2> QED BY <1>1, <1>8, <2>1 DEF LinedUp, U
<1>20. MessagesOk(e, W, U)
  <2>1. MessagesOk(e, W, T) /\ MessagesOk(c, W, T)
    BY <1>1, <1>3 DEF Holds, Lively
  <2>2. Turned(U) = Turned(T) \union {r.m}
    <3>1. \A n \in 1..Len(U) : U[n].m \in Turned(T) \union {r.m}
      BY <1>4, <1>10 DEF Turned
    <3>2. N + 1 \in 1..Len(U)
      BY <1>5, <1>10
    <3>3. r.m \in Turned(U)
      BY <1>4, <1>10, <3>2 DEF Turned
    <3>4. \A n \in 1..N : T[n].m \in Turned(U)
      BY <1>10 DEF Turned
    <3>5. Turned(T) \subseteq Turned(U)
      BY <3>4 DEF Turned, N
    <3>6. Turned(U) \subseteq Turned(T) \union {r.m}
      BY <3>1 DEF Turned
    <3> QED BY <3>3, <3>5, <3>6
  <2>3. Refused(e, W) = Refused(c, W) /\ Steers(e) = Steers(c)
    BY <1>1 DEF Refused, Steers, Kept, Told, Settled
  <2>4. Opened(e, W, U) = Opened(e, W, T) \union {r.m}
    BY <2>2 DEF Opened
  <2>5. r.m <= c.said /\ r.m \notin Steers(c) /\ r.m \notin Refused(c, W)
    BY <1>4, <2>1 DEF MessagesOk, Opened
  <2>6. r.m \notin Started(e.stdin)
    BY <1>1, <1>4
  <2>7. /\ \A m \in Opened(e, W, U) \union Steers(e) : m <= e.said
        /\ Opened(e, W, U) \intersect Steers(e) = {}
    BY <1>1, <2>1, <2>3, <2>4, <2>5 DEF MessagesOk
  <2>8. /\ Refused(e, W) \intersect (Turned(U) \union Started(e.stdin)) = {}
        /\ Turned(U) \intersect Started(e.stdin) = {}
        /\ OnePlace(e)
    BY <2>1, <2>2, <2>3, <2>5, <2>6 DEF MessagesOk
  <2> QED BY <2>7, <2>8 DEF MessagesOk
<1>21. IdleOk(e, U)
  <2>1. IdleOk(e, T) /\ e.cur \in 0..N
    BY <1>1, <1>3 DEF Holds, Lively, TurnsOk
  <2>2. e.cur # 0 => e.cur \in 1..N
    BY <1>5, <2>1
  <2>3. \A i \in 1..Len(e.micro) : e.micro[i].req.kind = "start" /\ e.micro[i].ok =>
          e.micro[i].turn \in 1..N
    BY <1>3 DEF Holds, AnswersOk
  <2> QED BY <1>10, <2>1, <2>2, <2>3 DEF IdleOk
<1>22. Lively(e, b, W, U, g)
  BY <1>12, <1>18, <1>19, <1>20, <1>21 DEF Lively, h
<1>23. Clean(e, b, W, k, h)
  <2> SUFFICES ASSUME "crossed" \notin l.odd
               PROVE  /\ h <= Len(U) /\ ResultsOk(e, k, h) /\ LastOk(e, k, h)
                      /\ DueOk(e, k, h) /\ StopsOk(e, b, W, U)
    BY <1>13 DEF Clean
  <2>1. /\ h <= N /\ ResultsOk(e, l, h) /\ LastOk(e, l, h)
        /\ DueOk(e, l, h) /\ StopsOk(e, a, W, T)
    BY <1>3 DEF Holds, Clean, h
  <2>2. h <= Len(U) /\ (h # 0 => h \in 1..N)
    BY <1>5, <1>7, <1>10, <2>1
  <2>3. ResultsOk(e, k, h)
    BY <1>13, <2>1 DEF ResultsOk
  <2>4. LastOk(e, k, h)
    <3>1. h # 0 => U[h] = T[h]
      BY <1>10, <2>2
    <3> QED BY <1>13, <2>1, <3>1 DEF LastOk, Out
  <2>5. DueOk(e, k, h)
    BY <1>13, <2>1 DEF DueOk, Out
  <2>6. \A n : Withdrawn(e, T, n) => Withdrawn(e, U, n)
    BY <1>10 DEF Withdrawn
  <2>7. StopsOk(e, b, W, U)
    BY <1>12, <2>1, <2>6 DEF StopsOk
  <2> QED BY <2>2, <2>3, <2>4, <2>5, <2>7
<1> QED BY <1>3, <1>13, <1>14, <1>15, <1>16, <1>17, <1>22, <1>23 DEF Holds, h

\* What is left to read, what is queued, and the turns there are.
Popped(c) == [c EXCEPT !.stdin = Tail(@)]
Queued(a, n) == [a EXCEPT !.queue = Append(@, n)]
Turning(l, r) == [l EXCEPT !.turns = Append(@, Opens(r))]

\* A start that is taken is answered with its turn.
LEMMA StartTaken ==
  ASSUME NEW g, NEW c, NEW a, NEW W, NEW l, Holds(g, c, a, W, l),
         c.stdin # <<>>, NEW r, r = c.stdin[1], r.kind = "start",
         NEW k, k = Turning(l, r), NEW n, n = Len(k.turns)
  PROVE  \E f : Holds(f, Popped(c), Queued(a, n), W \o <<Answer(r, TRUE, n)>>, k)
<1> DEFINE e == [c EXCEPT !.stdin = Tail(@)]
           b == [a EXCEPT !.queue = Append(@, Len(l.turns) + 1)]
           z == g[Len(W)]
<1>1. /\ Holds(g, e, b, W, k)
  BY TakenHolds DEF Turning
<1>2. r \in Reqs /\ e.exited = c.exited /\ ~c.exited /\ Opens(r) \in Openings
  <2>1. r \in Reqs /\ e.exited = c.exited /\ ~c.exited
    BY PoppedFine DEF Holds
  <2> QED BY <2>1 DEF Opens, Openings, Reqs
<1>3. /\ l \in LogRecord /\ l.turns \in Seq(Openings)
  BY DEF Holds, LogOk, LogRecord
<1>4. /\ k.turns = Append(l.turns, Opens(r))
  BY <1>3 DEF LogRecord, Turning
<1>5. n = Len(l.turns) + 1 /\ k.turns[n] = Opens(r) /\ n \in Nat /\ n \in 1..n
  <2>1. Len(l.turns) \in Nat /\ n = Len(l.turns) + 1 /\ k.turns[n] = Opens(r)
    BY <1>2, <1>3, <1>4, AppendAt
  <2> QED BY <2>1
<1> DEFINE y == TRUE
           X == <<Answer(r, y, n)>>
<1>6. /\ X \in Seq(Lines) /\ Len(X) = 1 /\ X[1].kind = "result" /\ X[1].req = r
      /\ X[1].turn = n
  <2>1. y \in BOOLEAN /\ y
    OBVIOUS
  <2>2. r \in Reqs /\ n \in Nat /\ y \in BOOLEAN
    BY <1>2, <1>5
  <2> HIDE DEF y
  <2>3. /\ <<Answer(r, y, n)>> \in Seq(Lines) /\ Len(<<Answer(r, y, n)>>) = 1
        /\ <<Answer(r, y, n)>>[1] = Answer(r, y, n) /\ Answer(r, y, n).req = r
        /\ Answer(r, y, n).kind = (IF y THEN "result" ELSE "refusal")
        /\ Answer(r, y, n).turn = n
    BY ONLY <2>2, AnswerIs
  <2> QED BY <2>1, <2>3
<1>7. b.queue \in Seq(Nat) /\ b.queue # <<>>
  <2>1. a \in AppRecord /\ a.queue \in Seq(Nat)
    BY AppFacts
  <2>2. b.queue = Append(a.queue, n)
    BY <1>5, <2>1 DEF AppRecord
  <2> HIDE DEF b
  <2>3. Append(a.queue, n) \in Seq(Nat) /\ Append(a.queue, n) # <<>>
    BY <1>5, <2>1, AppendAt
  <2> QED BY <2>2, <2>3
<1> SUFFICES \E f : Holds(f, e, b, W \o X, k)
  BY <1>5 DEF Popped, Queued
<1> HIDE DEF e, b, X
<1>8. /\ z = Len(k.turns) - Len(b.queue) /\ Goes(e, b, k, z) /\ z \in Nat
      /\ Len(b.queue) \in Nat
  <2>1. Holds(g, e, b, W, k) /\ ~e.exited
    BY <1>1, <1>2
  <2> QED BY ONLY <2>1, AppFacts, Zenon
<1>9. z < n
  <2> DEFINE M == Len(b.queue)
  <2>1. z = n - M /\ M \in Nat /\ n \in Nat /\ M # 0
    BY <1>5, <1>7, <1>8, EmptyByLength
  <2> HIDE DEF M, z
  <2> QED BY <2>1
<1> HIDE DEF z
<1>10. \A i \in 1..Len(X) : i = 1
  BY <1>6
<1>11. Says1(g, W, X, z)
  BY <1>6, <1>8, <1>9, <1>10 DEF Says1, z
<1>12. Suits(e, b, k, X)
  BY <1>5, <1>6, <1>10 DEF Suits
<1>13. Holds(Said(g, W, X, z), e, b, W \o X, k)
  BY <1>1, <1>2, <1>8, <1>11, <1>12, SaidHolds
<1> QED BY <1>13

\* A start that is refused.
LEMMA StartRefused ==
  ASSUME NEW g, NEW c, NEW a, NEW W, NEW l, Holds(g, c, a, W, l),
         c.stdin # <<>>, NEW r, r = c.stdin[1], r.kind = "start"
  PROVE  \E f : Holds(f, [c EXCEPT !.stdin = Tail(@)], Troubled(a),
                      W \o <<Answer(r, FALSE, 0)>>, l)
<1> DEFINE e == [c EXCEPT !.stdin = Tail(@)]
           b == Troubled(a)
           z == g[Len(W)]
           T == l.turns
<1>1. /\ Fine(c, e) /\ e.stdin = Tail(c.stdin) /\ e.said = c.said /\ e.waiting = c.waiting
      /\ e.steers = c.steers /\ e.micro = c.micro /\ e.exited = c.exited /\ ~c.exited
      /\ r \in Reqs
  BY PoppedFine DEF Holds
<1>2. Holds(g, e, a, W, l)
  BY <1>1, FineKeeps
<1>3. r.m \notin Started(e.stdin) /\ r.m \in Started(c.stdin)
  BY <1>1, StartIsNew
<1> DEFINE y == FALSE
           n == 0
           X == <<Answer(r, y, n)>>
<1>4. /\ X \in Seq(Lines) /\ Len(X) = 1 /\ X[1].kind = "refusal" /\ X[1].req = r
  <2>1. y \in BOOLEAN /\ ~y /\ n \in Nat
    OBVIOUS
  <2> HIDE DEF y, n
  <2> QED BY <1>1, <2>1, AnswerIs
<1> SUFFICES \E f : Holds(f, e, b, W \o X, l)
  OBVIOUS
<1> HIDE DEF e, X
<1>5. /\ a \in AppRecord /\ z = Len(T) - Len(a.queue) /\ Goes(e, a, l, z) /\ z \in Nat
  <2>1. Holds(g, e, a, W, l) /\ ~e.exited
    BY <1>1, <1>2
  <2> QED BY ONLY <2>1, AppFacts, Zenon
<1>6. /\ b \in AppRecord /\ b.queue = a.queue /\ b.running = a.running
      /\ b.stopping = a.stopping
  <2> DEFINE v == a.failures + 1
  <2>1. b = [a EXCEPT !.failures = v] /\ v \in Nat
    BY <1>5 DEF Troubled, AppRecord
  <2> HIDE DEF b, v
  <2> QED BY <1>5, <2>1 DEF AppRecord
<1> HIDE DEF b, z
<1>7. Goes(e, b, l, z)
  BY <1>5, <1>6 DEF Goes
<1>8. \A i \in 1..Len(X) : i = 1
  BY <1>4
<1>9. Says1(g, W, X, z)
  BY <1>4, <1>5, <1>8 DEF Says1, z
<1>10. r.m <= e.said /\ r.m \notin Steers(e) /\ r.m \notin Turned(T) \union Started(e.stdin)
  <2>1. MessagesOk(c, W, T)
    BY <1>1 DEF Holds, Lively
  <2>2. Steers(e) = Steers(c)
    BY <1>1 DEF Steers, Kept, Told, Settled
  <2> QED BY <1>1, <1>3, <2>1, <2>2 DEF MessagesOk, Opened
<1>11. Suits(e, b, l, X)
  BY <1>4, <1>8, <1>10 DEF Suits
<1>12. Holds(Said(g, W, X, z), e, b, W \o X, l)
  BY <1>1, <1>2, <1>7, <1>9, <1>11, SaidHolds
<1> QED BY <1>12

\* What it answers to a steer, or to an interrupt of a turn that does not run.
LEMMA OtherAnswered ==
  ASSUME NEW g, NEW c, NEW a, NEW W, NEW l, Holds(g, c, a, W, l),
         c.stdin # <<>>, NEW r, r = c.stdin[1], r.kind # "start", NEW y \in BOOLEAN
  PROVE  \E f : Holds(f, [c EXCEPT !.stdin = Tail(@)], a, W \o <<Answer(r, y, 0)>>, l)
<1> DEFINE e == [c EXCEPT !.stdin = Tail(@)]
           n == 0
           X == <<Answer(r, y, n)>>
<1>1. Fine(c, e) /\ e.exited = c.exited /\ ~c.exited /\ r \in Reqs
  BY PoppedFine DEF Holds
<1>2. Holds(g, e, a, W, l) /\ a \in AppRecord
  BY <1>1, FineKeeps, AppFacts
<1>3. /\ X \in Seq(Lines) /\ Len(X) = 1 /\ X[1].kind \in {"result", "refusal"}
      /\ X[1].req = r
  <2>1. n \in Nat
    OBVIOUS
  <2> HIDE DEF n
  <2> QED BY <1>1, <2>1, AnswerIs
<1> SUFFICES \E f : Holds(f, e, a, W \o X, l)
  OBVIOUS
<1> HIDE DEF e, X
<1>4. \A i \in 1..Len(X) : X[i].kind \in {"result", "refusal"} /\ X[i].req.kind # "start"
  <2>1. \A i \in 1..Len(X) : i = 1
    BY <1>3
  <2> QED BY <1>3, <2>1
<1> QED BY <1>1, <1>2, <1>3, <1>4, RunningHolds

\* Nothing is said.
LEMMA NothingSaid == ASSUME NEW W \in Seq(Lines) PROVE W \o <<>> = W /\ <<>> \in Seq(Lines)
  OBVIOUS

\* An interrupt of the turn that runs waits.
LEMMA StopTaken ==
  ASSUME NEW g, NEW c, NEW a, NEW W, NEW l, Holds(g, c, a, W, l),
         c.stdin # <<>>, NEW r, r = c.stdin[1], r.kind \in {"stop", "late"},
         a.running = r.turn
  PROVE  \E f : Holds(f, [c EXCEPT !.stdin = Tail(@)],
                      [a EXCEPT !.stopping = Append(@, r)], W, l)
<1> DEFINE e == [c EXCEPT !.stdin = Tail(@)]
           q == Append(a.stopping, r)
           b == [a EXCEPT !.stopping = Append(@, r)]
           z == g[Len(W)]
           T == l.turns
           X == <<>>
<1>1. /\ Fine(c, e) /\ e.exited = c.exited /\ ~c.exited /\ r \in Reqs /\ e.gen = c.gen
      /\ 1 \in 1..Len(c.stdin) /\ DriverOk(c)
  BY PoppedFine DEF Holds
<1>2. Holds(g, e, a, W, l)
  BY <1>1, FineKeeps
<1>3. r.turn # 0
  BY <1>1 DEF DriverOk
<1>4. "crossed" \notin l.odd => Withdrawn(e, T, r.turn)
  <2>1. "crossed" \notin l.odd => Withdrawn(c, T, r.turn)
    BY <1>1 DEF Holds, Clean, StopsOk
  <2> QED BY <1>1, <2>1 DEF Withdrawn
<1> HIDE DEF e
<1>5. /\ a \in AppRecord /\ a.stopping \in Seq(Reqs) /\ Goes(e, a, l, z) /\ z \in Nat
      /\ W \in Seq(Lines)
  BY <1>1, <1>2, AppFacts
<1>6. /\ q \in Seq(Reqs) /\ \A i \in 1..Len(q) : q[i].kind \in {"stop", "late"}
  <2>1. /\ q \in Seq(Reqs) /\ Len(q) = Len(a.stopping) + 1 /\ q[Len(a.stopping) + 1] = r
        /\ \A i \in 1..Len(a.stopping) : q[i] = a.stopping[i]
        /\ \A i \in 1..Len(q) : i \in 1..Len(a.stopping) \/ i = Len(a.stopping) + 1
    BY <1>1, <1>5, AppendAt
  <2>2. \A i \in 1..Len(a.stopping) : a.stopping[i].kind \in {"stop", "late"}
    BY <1>5 DEF Goes
  <2> HIDE DEF q
  <2> QED BY <2>1, <2>2
<1>7. b = [a EXCEPT !.stopping = q]
  BY <1>5 DEF AppRecord
<1> HIDE DEF b, q, z
<1>8. /\ b \in AppRecord /\ b.queue = a.queue /\ b.running = a.running /\ b.stopping = q
  BY <1>5, <1>6, <1>7 DEF AppRecord
<1>9. Goes(e, b, l, z)
  BY <1>3, <1>4, <1>5, <1>6, <1>8 DEF Goes
<1>10. W \o X = W /\ X \in Seq(Lines) /\ Len(X) = 0
  BY <1>5, NothingSaid
<1> HIDE DEF X
<1>11. \A i \in 1..Len(X) : FALSE
  BY <1>10
<1>12. Says1(g, W, X, z)
  BY <1>5, <1>10, <1>11 DEF Says1, z
<1>13. Suits(e, b, l, X)
  BY <1>11 DEF Suits
<1>14. Holds(Said(g, W, X, z), e, b, W \o X, l)
  BY <1>1, <1>2, <1>9, <1>12, <1>13, SaidHolds
<1> QED BY <1>10, <1>14 DEF b, e, q

\* The answer to an approval.
LEMMA ReplyTaken ==
  ASSUME NEW g, NEW c, NEW a, NEW W, NEW l, Holds(g, c, a, W, l), c.stdin # <<>>
  PROVE  \E f : Holds(f, [c EXCEPT !.stdin = Tail(@)], [a EXCEPT !.asking = FALSE], W, l)
<1> DEFINE e == [c EXCEPT !.stdin = Tail(@)]
           b == [a EXCEPT !.asking = FALSE]
           X == <<>>
<1>1. Fine(c, e) /\ e.exited = c.exited /\ ~c.exited
  BY PoppedFine DEF Holds
<1>2. Holds(g, e, a, W, l) /\ a \in AppRecord /\ W \in Seq(Lines)
  BY <1>1, FineKeeps, AppFacts
<1>3. /\ b \in AppRecord /\ b.queue = a.queue /\ b.running = a.running
      /\ b.stopping = a.stopping
  BY <1>2 DEF AppRecord
<1>4. W \o X = W /\ X \in Seq(Lines) /\ Len(X) = 0
  BY <1>2, NothingSaid
<1> HIDE DEF X, e, b
<1>5. \A i \in 1..Len(X) : FALSE
  BY <1>4
<1>6. \E f : Holds(f, e, b, W \o X, l)
  BY <1>1, <1>2, <1>3, <1>4, <1>5, RunningHolds
<1> QED BY <1>4, <1>6 DEF e, b

\* The app-server reads what was asked of it.
LEMMA AppReadsKeeps == ASSUME Heard, AppReads PROVE Heard'
<1> DEFINE r == Head(d.stdin)
           e == [d EXCEPT !.stdin = Tail(@)]
<1>1. PICK g : Holds(g, d, app, stdout, log)
  BY DEF Heard
<1>2. d.stdin # <<>> /\ d' = e
  BY DEF AppReads
<1>3. r = d.stdin[1] /\ r \in Reqs
  BY <1>1, <1>2, PoppedFine DEF Holds
<1>4. \/ AppTakesStart(r) \/ AppTakesSteer(r) \/ AppTakesStop(r)
      \/ r.kind = "reply" /\ app' = [app EXCEPT !.asking = FALSE] /\ UNCHANGED <<stdout, log>>
  BY DEF AppReads
<1> HIDE DEF r, e
<1>5. CASE AppTakesStart(r)
  <2>1. r.kind = "start"
    BY <1>5 DEF AppTakesStart
  <2>2. \/ /\ log' = [log EXCEPT !.turns = Append(@, Opens(r))]
           /\ app' = [app EXCEPT !.queue = Append(@, Len(log'.turns))]
           /\ stdout' = stdout \o <<Answer(r, TRUE, Len(log'.turns))>>
        \/ app' = Troubled(app) /\ stdout' = stdout \o <<Answer(r, FALSE, 0)>> /\ log' = log
    BY <1>5 DEF AppTakesStart, Says, Opens
  <2>3. CASE /\ log' = [log EXCEPT !.turns = Append(@, Opens(r))]
             /\ app' = [app EXCEPT !.queue = Append(@, Len(log'.turns))]
             /\ stdout' = stdout \o <<Answer(r, TRUE, Len(log'.turns))>>
    <3> DEFINE k == log'
               n == Len(log'.turns)
    <3>1. k = Turning(log, r) /\ n = Len(k.turns)
      BY <2>3 DEF Turning
    <3>2. app' = Queued(app, n) /\ stdout' = stdout \o <<Answer(r, TRUE, n)>> /\ d' = Popped(d)
      BY <1>2, <2>3 DEF Queued, Popped, e
    <3> HIDE DEF k, n
    <3>3. \E f : Holds(f, Popped(d), Queued(app, n), stdout \o <<Answer(r, TRUE, n)>>, k)
      <4>1. /\ Holds(g, d, app, stdout, log) /\ d.stdin # <<>> /\ r = d.stdin[1]
            /\ r.kind = "start"
        BY <1>1, <1>2, <1>3, <2>1
      <4> QED BY ONLY <3>1, <4>1, StartTaken, Zenon
    <3> QED BY <3>2, <3>3 DEF Heard, k
  <2>4. CASE app' = Troubled(app) /\ stdout' = stdout \o <<Answer(r, FALSE, 0)>> /\ log' = log
    <3>1. \E f : Holds(f, e, app', stdout', log')
      BY <1>1, <1>2, <1>3, <2>1, <2>4, StartRefused DEF e
    <3> QED BY <1>2, <3>1 DEF Heard
  <2> QED BY <2>2, <2>3, <2>4
<1>6. CASE AppTakesSteer(r)
  <2> DEFINE y == app.running = r.turn /\ app.stopping = <<>>
  <2>1. /\ r.kind = "steer" /\ stdout' = stdout \o <<Answer(r, y, 0)>> /\ app' = app
        /\ log' = log
    BY <1>6 DEF AppTakesSteer, Says
  <2>2. y \in BOOLEAN
    OBVIOUS
  <2> HIDE DEF y
  <2>3. \E f : Holds(f, e, app, stdout \o <<Answer(r, y, 0)>>, log)
    BY <1>1, <1>2, <1>3, <2>1, <2>2, OtherAnswered DEF e
  <2> QED BY <1>2, <2>1, <2>3 DEF Heard
<1>7. CASE AppTakesStop(r)
  <2> DEFINE y == FALSE
  <2>1. /\ r.kind \in {"stop", "late"} /\ log' = log
        /\ \/ /\ app.running = r.turn /\ app' = [app EXCEPT !.stopping = Append(@, r)]
              /\ stdout' = stdout
           \/ stdout' = stdout \o <<Answer(r, y, 0)>> /\ app' = app
    BY <1>7 DEF AppTakesStop, Says
  <2>2. y \in BOOLEAN
    OBVIOUS
  <2> HIDE DEF y
  <2>3. CASE /\ app.running = r.turn /\ app' = [app EXCEPT !.stopping = Append(@, r)]
             /\ stdout' = stdout
    <3>1. \E f : Holds(f, e, app', stdout, log)
      BY <1>1, <1>2, <1>3, <2>1, <2>3, StopTaken DEF e
    <3> QED BY <1>2, <2>1, <2>3, <3>1 DEF Heard
  <2>4. CASE stdout' = stdout \o <<Answer(r, y, 0)>> /\ app' = app
    <3>1. \E f : Holds(f, e, app, stdout \o <<Answer(r, y, 0)>>, log)
      BY <1>1, <1>2, <1>3, <2>1, <2>2, OtherAnswered DEF e
    <3> QED BY <1>2, <2>1, <2>4, <3>1 DEF Heard
  <2> QED BY <2>1, <2>3, <2>4
<1>8. CASE r.kind = "reply" /\ app' = [app EXCEPT !.asking = FALSE] /\ UNCHANGED <<stdout, log>>
  <2>1. \E f : Holds(f, e, app', stdout, log)
    BY <1>1, <1>2, <1>8, ReplyTaken DEF e
  <2> QED BY <1>2, <1>8, <2>1 DEF Heard
<1> QED BY <1>4, <1>5, <1>6, <1>7, <1>8

-----------------------------------------------------------------------------
(* The app-server exits                                                      *)

\* What is waited for is rejected, and what was to be read or heard is lost.
LEMMA GoneHolds ==
  ASSUME NEW g, NEW c, NEW a, NEW W, NEW l, Holds(g, c, a, W, l), c.micro = <<>>,
         NEW e, e = [RejectAll(c) EXCEPT !.exited = TRUE, !.pipe = FALSE, !.stdin = <<>>],
         NEW b \in AppRecord, b.running = 0, b.queue = <<>>, b.stopping = <<>>, ~b.asking
  PROVE  Holds([j \in 0..0 |-> g[0]], e, b, <<>>, l) /\ e.finished = c.finished
<1> DEFINE q == Rejections(c.waiting)
           T == l.turns
           V == <<>>
           f == [j \in 0..0 |-> g[0]]
<1>1. /\ DriverOk(c) /\ c \in DriverRecord /\ c.waiting \in Seq(Reqs) /\ T \in Seq(Openings)
      /\ g[0] \in Nat /\ V \in Seq(Lines) /\ Len(V) = 0 /\ V = <<>>
  <2>1. T \in Seq(Openings) /\ Len(W) \in Nat
    BY DEF Holds, AppOk
  <2>2. g[0] \in Nat
    BY <2>1 DEF Holds, Trace
  <2> QED BY <2>1, <2>2, DriverTypes DEF Holds
<1>2. /\ q \in Seq(Micros) /\ Len(q) = Len(c.waiting)
      /\ \A i \in 1..Len(c.waiting) : q[i].req = c.waiting[i] /\ ~q[i].ok
  BY <1>1, RejectionsAre
<1>3. e = [c EXCEPT !.waiting = <<>>, !.micro = q, !.exited = TRUE, !.pipe = FALSE,
                    !.stdin = <<>>]
  <2>1. c.micro \o q = q
    BY <1>2
  <2> HIDE DEF q
  <2>2. RejectAll(c) = [c EXCEPT !.waiting = <<>>, !.micro = q]
    BY <1>1, <2>1 DEF RejectAll, DriverRecord, q
  <2> QED BY <1>1, <2>2 DEF DriverRecord
<1> HIDE DEF q
<1>4. /\ e \in DriverRecord /\ e.waiting = <<>> /\ e.micro = q /\ e.exited = TRUE
      /\ e.pipe = FALSE /\ e.stdin = <<>>
  <2> DEFINE none == <<>>
  <2>1. none \in Seq(Reqs)
    OBVIOUS
  <2>2. e = [c EXCEPT !.waiting = none, !.micro = q, !.exited = TRUE, !.pipe = FALSE,
                      !.stdin = none]
    BY <1>3
  <2> HIDE DEF none
  <2>3. e \in DriverRecord
    <3> DEFINE x == [c EXCEPT !.waiting = none, !.micro = q]
    <3>1. x \in DriverRecord
      BY <1>1, <1>2, <2>1 DEF DriverRecord
    <3>2. e = [x EXCEPT !.exited = TRUE, !.pipe = FALSE, !.stdin = none]
      BY <1>1, <2>2 DEF DriverRecord
    <3> HIDE DEF x
    <3> QED BY ONLY <2>1, <3>1, <3>2 DEF DriverRecord
  <2>4. /\ e.waiting = none /\ e.micro = q /\ e.exited = TRUE /\ e.pipe = FALSE
        /\ e.stdin = none
    BY <1>1, <2>2 DEF DriverRecord
  <2> QED BY <2>3, <2>4 DEF none
<1>5. Calm(c, e)
  BY <1>1, <1>3 DEF DriverRecord, Calm
<1>6. /\ e.openings = c.openings /\ e.said = c.said /\ e.steers = c.steers
      /\ e.chunk = c.chunk /\ e.over = c.over /\ e.state = c.state
  BY <1>1, <1>3 DEF DriverRecord
<1> SUFFICES Holds(f, e, b, V, l) /\ e.finished = c.finished
  OBVIOUS
<1> HIDE DEF V
<1>7. f[0] = g[0] /\ f \in [0..0 -> Nat]
  BY <1>1
<1> HIDE DEF f
<1>8. \A i \in 1..Len(V) : FALSE
  BY <1>1
<1>9. DriverOk(e)
  <2>1. \A i \in 1..Len(q) : q[i].req.kind # "chain"
    <3>1. \A i \in 1..Len(c.waiting) : c.waiting[i].kind \in Asks
      BY <1>1 DEF DriverOk
    <3> QED BY <1>2, <3>1 DEF Asks
  <2>2. ~e.chunk
    BY <1>1, <1>6 DEF DriverOk
  <2>3. \A i \in 1..Len(e.waiting) : FALSE
    BY <1>4
  <2>4. \A i \in 1..Len(e.stdin) : FALSE
    BY <1>4
  <2>5. /\ \A i \in 1..Len(e.micro) : e.micro[i].req.kind = "chain" =>
             /\ e.chain # <<>> /\ e.sync = "none"
             /\ \A j \in 1..Len(e.micro) : e.micro[j].req.kind = "chain" => i = j
        /\ \A i \in 1..Len(e.waiting) : e.waiting[i].kind \in Asks
        /\ \A i \in 1..Len(e.stdin) : e.stdin[i].kind \in {"stop", "late"} => e.stdin[i].turn # 0
    BY <1>4, <2>1, <2>3, <2>4
  <2>6. /\ e.said <= MaxMessages
        /\ e.sync # "none" => e.chain # <<>>
        /\ e.sync = "result" => e.chain[1].kind = "result"
        /\ e.sync \in {"finish", "fail"} => e.finished
        /\ e.over # "none" => e.finished
        /\ e.turnGen <= e.gen
        /\ \A i \in 1..Len(e.chain) : e.chain[i].gen <= e.gen
    BY <1>1, <1>5, <1>6 DEF DriverOk, Calm
  <2> QED BY <1>4, <2>2, <2>5, <2>6 DEF DriverOk
<1>10. OpeningsOk(e)
  BY <1>5, <1>6 DEF Holds, OpeningsOk, Calm
<1>11. AppOk(e, b, V, T)
  <2>1. \A i \in 1..Len(b.stopping) : FALSE
    BY DEF AppRecord
  <2>2. b.running \in 0..Len(T)
    <3>1. Len(T) \in Nat
      BY <1>1
    <3> QED BY <3>1
  <2> QED BY <1>1, <1>4, <2>1, <2>2 DEF AppOk
<1>12. TurnsOk(e, T)
  BY <1>5, <1>6 DEF Holds, TurnsOk, Calm
<1>13. AnswersOk(e, V, T)
  BY <1>2, <1>4, <1>8 DEF AnswersOk
<1>14. Trace(f, V)
  BY <1>1, <1>7, <1>8 DEF Trace
<1>15. Lively(e, b, V, T, f)
  BY <1>4 DEF Lively
<1>16. Clean(e, b, V, l, f[0])
  <2> SUFFICES ASSUME "crossed" \notin l.odd
               PROVE  /\ g[0] <= Len(T) /\ ResultsOk(e, l, g[0]) /\ LastOk(e, l, g[0])
                      /\ DueOk(e, l, g[0]) /\ StopsOk(e, b, V, T)
    BY <1>7 DEF Clean
  <2>1. /\ g[0] <= Len(T) /\ ResultsOk(c, l, g[0]) /\ LastOk(c, l, g[0])
        /\ DueOk(c, l, g[0])
    BY DEF Holds, Clean
  <2>2. \A i \in 1..Len(e.stdin) : FALSE
    BY <1>4
  <2>3. StopsOk(e, b, V, T)
    BY <1>8, <2>2 DEF StopsOk
  <2> QED BY <1>5, <2>1, <2>3, CalmKeeps
<1> QED BY <1>5, <1>9, <1>10, <1>11, <1>12, <1>13, <1>14, <1>15, <1>16 DEF Holds, Calm

\* Which a reaction is to tell, unless the session is ending.
LEMMA ExitKeeps == ASSUME Heard, Exit PROVE Heard'
<1> DEFINE e == [RejectAll(d) EXCEPT !.exited = TRUE, !.pipe = FALSE, !.stdin = <<>>]
           b == app'
<1>1. PICK g : Holds(g, d, app, stdout, log)
  BY DEF Heard
<1>2. /\ d.micro = <<>> /\ d' = (IF e.finished THEN e ELSE Chain(e, "exit", 0, 0))
      /\ stdout' = <<>> /\ log' = log
      /\ app' = [NoApp EXCEPT !.asked = app.asked,
                   !.failures = IF d.finished THEN app.failures ELSE app.failures + 1]
  BY DEF Exit
<1>3. /\ b \in AppRecord /\ b.running = 0 /\ b.queue = <<>> /\ b.stopping = <<>> /\ ~b.asking
  <2>1. app \in AppRecord
    BY <1>1, AppFacts
  <2> DEFINE y == IF d.finished THEN app.failures ELSE app.failures + 1
  <2>2. y \in Nat /\ app.asked \in Nat
    BY <2>1 DEF AppRecord
  <2> HIDE DEF y
  <2>3. b = [running |-> 0, queue |-> <<>>, stopping |-> <<>>, asking |-> FALSE,
             asked |-> app.asked, failures |-> y]
    BY <1>2 DEF NoApp, y
  <2> HIDE DEF b
  <2>4. <<>> \in Seq(Nat) /\ <<>> \in Seq(Reqs)
    OBVIOUS
  <2> QED BY <2>2, <2>3, <2>4 DEF AppRecord
<1> HIDE DEF e, b
<1>4. Holds([j \in 0..0 |-> g[0]], e, b, <<>>, log)
  BY <1>1, <1>2, <1>3, GoneHolds DEF e
<1>5. \E f : Holds(f, e, b, <<>>, log)
  BY <1>4
<1>6. PICK f : Holds(f, e, b, <<>>, log)
  BY <1>5
<1>7. Holds(f, Chain(e, "exit", 0, 0), b, <<>>, log)
  BY <1>6, ChainHolds
<1>8. d' = e \/ d' = Chain(e, "exit", 0, 0)
  BY <1>2
<1>9. Holds(f, d', app', stdout', log')
  BY <1>2, <1>6, <1>7, <1>8 DEF b
<1> QED BY <1>9 DEF Heard

-----------------------------------------------------------------------------
(* The invariant holds                                                       *)

\* At the start nothing is asked for.
LEMMA InitHolds == Init => IInv
<1> SUFFICES ASSUME Init PROVE IInv
  OBVIOUS
<1> DEFINE f == [j \in 0..0 |-> 0]
           T == log.turns
<1>1. DOMAIN stops = 0..MaxInterrupts
  BY DEF Init
<1>2. /\ d.state = "idle" /\ d.said = 0 /\ ~d.closed /\ ~d.ending /\ ~d.retiring
      /\ ~d.finished /\ d.over = "none" /\ d.gen = 0 /\ ~d.active /\ d.cur = 0
      /\ d.turnGen = 0 /\ d.openings = <<>>
  BY DEF Init
<1>3. /\ d.steers = <<>> /\ ~d.emitted /\ d.text = 0
      /\ ~d.gate /\ d.chain = <<>> /\ d.sync = "none" /\ d.micro = <<>> /\ ~d.chunk
      /\ d.waiting = <<>> /\ d.stdin = <<>> /\ d.pipe /\ ~d.exited
  BY DEF Init
<1>4. /\ app.running = 0 /\ app.queue = <<>> /\ app.stopping = <<>> /\ ~app.asking
      /\ stdout = <<>> /\ T = <<>> /\ log.results = <<>> /\ log.due = {} /\ log.odd = {}
  BY DEF Init, NoApp
<1>5. /\ <<>> \in Seq(Openings) /\ <<>> \in Seq(Nat) /\ <<>> \in Seq(Reactions)
      /\ <<>> \in Seq(Micros) /\ <<>> \in Seq(Reqs) /\ <<>> \in Seq(Lines) /\ <<>> \in Seq(Outs)
      /\ Len(<<>>) = 0 /\ \A i \in 1..0 : FALSE
  OBVIOUS
<1>6. d \in DriverRecord
  BY <1>5 DEF Init, DriverRecord
<1>7. app \in AppRecord
  BY <1>5 DEF Init, NoApp, AppRecord
<1>8. LogOk(log)
  BY <1>5 DEF Init, LogRecord, LogOk
<1>9. /\ Len(d.micro) = 0 /\ Len(d.chain) = 0 /\ Len(d.waiting) = 0 /\ Len(d.stdin) = 0
      /\ Len(d.openings) = 0 /\ Len(d.steers) = 0 /\ Len(app.queue) = 0
      /\ Len(app.stopping) = 0 /\ Len(stdout) = 0 /\ Len(T) = 0 /\ Len(log.results) = 0
  BY <1>2, <1>3, <1>4, <1>5
<1> HIDE DEF T
<1>10. f[0] = 0 /\ f \in [0..0 -> Nat]
  OBVIOUS
<1> HIDE DEF f
<1>11. DriverOk(d)
  <2>1. d.said <= MaxMessages /\ d.turnGen <= d.gen
    BY <1>2, CodexAssumption
  <2> QED BY <1>2, <1>3, <1>5, <1>6, <1>9, <2>1 DEF DriverOk
<1>12. OpeningsOk(d)
  BY <1>5, <1>9 DEF OpeningsOk
<1>13. AppOk(d, app, stdout, T)
  <2>1. stdout \in Seq(Lines) /\ T \in Seq(Openings)
    BY <1>4, <1>5
  <2>2. app.running \in 0..Len(T) /\ Len(app.queue) <= Len(T)
    BY <1>4, <1>9
  <2> QED BY <1>3, <1>4, <1>5, <1>7, <1>9, <2>1, <2>2 DEF AppOk
<1>14. TurnsOk(d, T)
  <2>1. d.cur \in 0..Len(T)
    BY <1>2, <1>9
  <2> QED BY <1>2, <1>5, <1>9, <2>1 DEF TurnsOk
<1>15. AnswersOk(d, stdout, T)
  BY <1>5, <1>9 DEF AnswersOk
<1>16. Trace(f, stdout)
  BY <1>5, <1>9, <1>10 DEF Trace
<1>17. Lively(d, app, stdout, T, f)
  <2>1. Wanted(T, d.stdin, f[0]) = {}
    <3>1. (f[0] + 1)..Len(T) = {} /\ 1..Len(d.stdin) = {}
      BY <1>9, <1>10
    <3>2. Starting(d.stdin) = {}
      BY <3>1 DEF Starting
    <3> QED BY <3>1, <3>2 DEF Wanted
  <2>2. LinedUp(d.openings, Wanted(T, d.stdin, f[0]))
    BY <2>1 DEF LinedUp
  <2>3. 1..Len(d.openings) = {} /\ 1..Len(d.stdin) = {} /\ 1..Len(T) = {}
        /\ 1..Len(stdout) = {} /\ 1..Len(d.micro) = {} /\ 1..Len(d.steers) = {}
        /\ 1..Len(d.waiting) = {}
    BY <1>5, <1>9
  <2>4. Opened(d, stdout, T) = {} /\ Refused(d, stdout) = {} /\ Turned(T) = {}
    BY <2>3 DEF Opened, Refused, Turned, Started, Starting
  <2>5. Kept(d) = {} /\ Steered(d.waiting) = {} /\ Told(d.micro) = {}
        /\ Steering(d.waiting) = {} /\ Settled(d.micro) = {}
    BY <2>3 DEF Kept, Steered, Told, Steering, Settled
  <2>6. OnePlace(d)
    BY <2>3, <2>5 DEF OnePlace
  <2>7. MessagesOk(d, stdout, T)
    BY <2>4, <2>5, <2>6 DEF MessagesOk, Steers
  <2>8. IdleOk(d, T)
    BY <1>2, <2>3 DEF IdleOk
  <2>9. f[Len(stdout)] = Len(T) - Len(app.queue)
    BY <1>9, <1>10
  <2> QED BY <2>2, <2>7, <2>8, <2>9 DEF Lively
<1>18. Clean(d, app, stdout, log, f[0])
  <2>1. 0 <= Len(T)
    BY <1>9
  <2>2. ResultsOk(d, log, 0)
    BY <1>3, <1>5, <1>9 DEF ResultsOk
  <2>3. LastOk(d, log, 0) /\ DueOk(d, log, 0)
    BY <1>4 DEF LastOk, DueOk
  <2>4. StopsOk(d, app, stdout, T)
    BY <1>4, <1>5, <1>9 DEF StopsOk
  <2> QED BY <1>10, <2>1, <2>2, <2>3, <2>4 DEF Clean, T
<1>19. Holds(f, d, app, stdout, log)
  BY <1>8, <1>11, <1>12, <1>13, <1>14, <1>15, <1>16, <1>17, <1>18 DEF Holds, T
<1> QED BY <1>1, <1>19 DEF IInv, Heard

\* Interrupts are as many as there are.
LEMMA StopsStay == ASSUME DOMAIN stops = 0..MaxInterrupts, Next PROVE DOMAIN stops' = 0..MaxInterrupts
<1>1. CASE ReadLine \/ SyncReturns \/ Message \/ Decide \/ End \/ Retire \/ ForceStop
  BY <1>1 DEF ReadLine, SyncReturns, Message, Decide, End, Retire, ForceStop, Becomes
<1>2. CASE RunMicro
  <2> DEFINE x == Head(d.micro)
  <2>1. \/ UNCHANGED stops \/ stops' = [stops EXCEPT ![0].at = "done"]
        \/ stops' = [stops EXCEPT ![x.req.m].at = "syncing"]
    BY <1>2 DEF RunMicro
  <2> HIDE DEF x
  <2> QED BY <2>1
<1>3. CASE Shutdown
  <2>1. \E s \in {"done", "asking"} : stops' = [stops EXCEPT ![0].at = s]
    BY <1>3 DEF Shutdown
  <2> QED BY <2>1
<1>4. ASSUME NEW i, Interrupt(i) PROVE DOMAIN stops' = 0..MaxInterrupts
  <2>1. \E s : stops' = [stops EXCEPT ![i] = s]
    BY <1>4 DEF Interrupt
  <2> QED BY <2>1
<1>5. ASSUME NEW i, StopTimesOut(i) \/ StopSynced(i) PROVE DOMAIN stops' = 0..MaxInterrupts
  <2>1. UNCHANGED stops \/ stops' = [stops EXCEPT ![i].at = "done"]
    BY <1>5 DEF StopTimesOut, StopSynced
  <2> QED BY <2>1
<1>6. CASE App \/ Exit
  BY <1>6 DEF App, AppReads, AppStarts, AppEnds, AppStops, AppAsks, AppWithdraws, Exit
<1> QED BY <1>1, <1>2, <1>3, <1>4, <1>5, <1>6 DEF Next

\* Every step keeps it.
LEMMA Inductive == IInv /\ [Next]_vars => IInv'
<1> SUFFICES ASSUME IInv, [Next]_vars PROVE IInv'
  OBVIOUS
<1>1. Heard /\ DOMAIN stops = 0..MaxInterrupts
  BY DEF IInv
<1>2. CASE UNCHANGED vars
  BY <1>1, <1>2 DEF IInv, Heard, vars
<1>3. ASSUME Next PROVE Heard'
  <2>1. CASE ReadLine
    BY <1>1, <2>1, ReadLineKeeps
  <2>2. CASE RunMicro
    BY <1>1, <2>2, RunMicroKeeps
  <2>3. CASE SyncReturns
    BY <1>1, <2>3, SyncReturnsKeeps
  <2>4. CASE Message
    BY <1>1, <2>4, MessageKeeps
  <2>5. CASE Decide
    BY <1>1, <2>5, DecideKeeps
  <2>6. CASE Shutdown
    BY <1>1, <2>6, ShutdownKeeps
  <2>7. CASE End
    BY <1>1, <2>7, EndKeeps
  <2>8. CASE Retire
    BY <1>1, <2>8, RetireKeeps
  <2>9. CASE ForceStop
    BY <1>1, <2>9, ForceStopKeeps
  <2>10. ASSUME NEW i \in DOMAIN stops, Interrupt(i) PROVE Heard'
    BY <2>10, InterruptKeeps
  <2>11. ASSUME NEW i \in DOMAIN stops, StopTimesOut(i) PROVE Heard'
    BY <1>1, <2>11, StopTimesOutKeeps
  <2>12. ASSUME NEW i \in DOMAIN stops, StopSynced(i) PROVE Heard'
    BY <1>1, <2>12, StopSyncedKeeps
  <2>13. CASE App
    <3>1. CASE AppReads
      BY <1>1, <3>1, AppReadsKeeps
    <3>2. CASE AppStarts
      BY <1>1, <3>2, AppStartsKeeps
    <3>3. CASE AppEnds
      BY <1>1, <3>3, AppEndsKeeps
    <3>4. CASE AppStops
      BY <1>1, <3>4, AppStopsKeeps
    <3>5. CASE AppAsks
      BY <1>1, <3>5, AppAsksKeeps
    <3>6. CASE AppWithdraws
      BY <1>1, <3>6, AppWithdrawsKeeps
    <3> QED BY <2>13, <3>1, <3>2, <3>3, <3>4, <3>5, <3>6 DEF App
  <2>14. CASE Exit
    BY <1>1, <2>14, ExitKeeps
  <2> QED BY <1>3, <2>1, <2>2, <2>3, <2>4, <2>5, <2>6, <2>7, <2>8, <2>9, <2>10, <2>11, <2>12,
             <2>13, <2>14 DEF Next
<1>4. ASSUME Next PROVE IInv'
  <2>1. DOMAIN stops' = 0..MaxInterrupts
    BY <1>1, <1>4, StopsStay
  <2> QED BY <1>3, <1>4, <2>1 DEF IInv
<1> QED BY <1>2, <1>4

-----------------------------------------------------------------------------
(* What follows                                                              *)

\* The driver, the app-server and the history are of their types: an awaited sync is a
\* reaction's, and an app-server that is gone has no request to answer.
THEOREM TypeCorrect == Spec => []TypeOK
<1>1. IInv => TypeOK
  <2> SUFFICES ASSUME IInv PROVE TypeOK
    OBVIOUS
  <2>1. PICK g : Holds(g, d, app, stdout, log)
    BY DEF IInv, Heard
  <2>2. DriverOk(d) /\ LogOk(log) /\ AppOk(d, app, stdout, log.turns) /\ TurnsOk(d, log.turns)
    BY <2>1 DEF Holds
  <2>3. /\ d.state \in {"idle", "working", "blocked"}
        /\ d.over \in {"none", "ended", "error", "retired"}
        /\ d.sync \in {"none", "result", "finish", "fail"}
        /\ (d.sync # "none" => d.chain # <<>>)
        /\ d.chunk => d.micro # <<>>
        /\ d.exited => d.waiting = <<>> /\ ~d.pipe
    BY <2>2 DEF DriverOk, DriverRecord
  <2>4. d.cur \in 0..Len(log.turns) /\ app.running \in 0..Len(log.turns)
    BY <2>2 DEF TurnsOk, AppOk
  <2>5. d.said \in 0..MaxMessages
    <3>1. d.said \in Nat /\ d.said <= MaxMessages
      BY <2>2, DriverTypes DEF DriverOk
    <3> QED BY <3>1, CodexAssumption
  <2>6. log.due \subseteq Turns
    <3>1. log.turns \in Seq(Openings)
      BY <2>2 DEF AppOk
    <3>2. DOMAIN log.turns = 1..Len(log.turns)
      BY <3>1
    <3> QED BY <2>2, <3>2 DEF LogOk, Turns
  <2>7. log.odd \subseteq {"crossed", "late", "orphan"}
    BY <2>2 DEF LogOk, LogRecord
  <2> QED BY <2>3, <2>4, <2>5, <2>6, <2>7 DEF TypeOK
<1> QED BY <1>1, InitHolds, Inductive, PTL DEF Spec

\* A turn that an interrupt withdrew is never taken for the live one, however many messages
\* are sent, withdrawn and refused while it opens.
THEOREM WithdrawnNeverLive == Spec => []CancelledNeverLive
<1>1. IInv => CancelledNeverLive
  <2> SUFFICES ASSUME IInv, d.cur # 0, ~d.finished PROVE log.turns[d.cur].gen = d.gen
    BY DEF CancelledNeverLive
  <2>1. PICK g : Holds(g, d, app, stdout, log)
    BY DEF IInv, Heard
  <2>2. d.over = "none"
    BY <2>1 DEF Holds, DriverOk
  <2> QED BY <2>1, <2>2 DEF Holds, TurnsOk
<1> QED BY <1>1, InitHolds, Inductive, PTL DEF Spec

\* A session is not idle over a turn that runs and that the driver has heard start.
THEOREM WorkingWhileLive == Spec => []IdleNotOverLive
<1>1. IInv => IdleNotOverLive
  <2> SUFFICES ASSUME IInv, d.state = "idle", ~Over, d.active, d.cur # 0, app.running = d.cur,
                      d.openings = <<>>
               PROVE  FALSE
    BY DEF IdleNotOverLive
  <2>1. PICK g : Holds(g, d, app, stdout, log)
    BY DEF IInv, Heard
  <2>2. ~d.exited
    BY <2>1 DEF Holds, AppOk
  <2>3. Has(d.openings, log.turns[d.cur])
    BY <2>1, <2>2 DEF Holds, Lively, IdleOk, Over
  <2>4. \A i \in 1..Len(d.openings) : FALSE
    OBVIOUS
  <2> QED BY <2>3, <2>4 DEF Has
<1> QED BY <1>1, InitHolds, Inductive, PTL DEF Spec

\* While turns do not cross, a turn that ended by itself has exactly one result, with no
\* text but its own, and others have none.
THEOREM ResultOncePerTurn == Spec => []OneResult
<1>1. IInv => OneResult
  <2> SUFFICES ASSUME IInv, "crossed" \notin log.odd
               PROVE  /\ \A n \in Turns : Cardinality(Results(n)) <= 1
                      /\ \A k \in DOMAIN log.results :
                           LET r == log.results[k] IN r.turn \in log.due /\ r.text \in {0, r.turn}
                      /\ Quiet /\ ~d.finished => \A n \in log.due : Results(n) # {}
    BY DEF OneResult
  <2>1. PICK g : Holds(g, d, app, stdout, log)
    BY DEF IInv, Heard
  <2>2. ResultsOk(d, log, g[0]) /\ DueOk(d, log, g[0])
    BY <2>1 DEF Holds, Clean
  <2>3. DOMAIN log.results = 1..Len(log.results)
    <3>1. log.results \in Seq(Outs)
      BY <2>1 DEF Holds, LogOk, LogRecord
    <3> QED BY <3>1
  <2>4. ASSUME NEW n PROVE Cardinality(Results(n)) <= 1
    <3>1. \A j, k \in Results(n) : j = k
      BY <2>2, <2>3 DEF Results, ResultsOk
    <3>2. CASE Results(n) = {}
      <4>1. Cardinality(Results(n)) = 0
        BY <3>2, FS_EmptySet
      <4> QED BY <4>1
    <3>3. CASE Results(n) # {}
      <4>1. PICK k \in Results(n) : TRUE
        BY <3>3
      <4>2. Results(n) = {k}
        BY <3>1, <4>1
      <4>3. Cardinality(Results(n)) = 1
        BY <4>2, FS_Singleton
      <4> QED BY <4>3
    <3> QED BY <3>2, <3>3
  <2>5. ASSUME NEW k \in DOMAIN log.results
        PROVE  log.results[k].turn \in log.due /\ log.results[k].text \in {0, log.results[k].turn}
    BY <2>2, <2>3 DEF ResultsOk
  <2>6. ASSUME Quiet, ~d.finished, NEW n \in log.due PROVE Results(n) # {}
    <3>1. Len(d.chain) = 0 /\ d.sync = "none"
      BY <2>1, <2>6 DEF Quiet, Holds, DriverOk
    <3>2. ~Doomed(d) /\ \A i \in 1..Len(d.chain) : FALSE
      BY <3>1 DEF Doomed
    <3>3. Out(log, n)
      BY <2>2, <2>6, <3>1, <3>2 DEF DueOk
    <3> QED BY <2>3, <3>3 DEF Out, Results
  <2> QED BY <2>4, <2>5, <2>6
<1> QED BY <1>1, InitHolds, Inductive, PTL DEF Spec
=============================================================================
