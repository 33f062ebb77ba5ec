--------------------------- MODULE OpenCodeTurnsProofs ---------------------------
(***************************************************************************)
(* Proofs about OpenCodeTurns: the types of every variable, that results   *)
(* are of one turn after the other and no run's text is in two of them,    *)
(* and that a withdrawn run is not taken up again, for every number of     *)
(* messages, interrupts and drops of the event stream.                     *)
(***************************************************************************)
EXTENDS OpenCodeTurns, QueueLemmas, TLAPS

-----------------------------------------------------------------------------
(* The driver's invariant                                                    *)

Reactions ==
  [kind : {"result", "finish", "fail", "exit"}, seq : Nat, gen : Nat, text : Nat, run : Nat]

DriverRecord ==
  [state : {"idle", "working", "blocked"}, said : Nat, commands : Nat, closed : BOOLEAN,
   ending : BOOLEAN, retiring : BOOLEAN, finished : BOOLEAN,
   over : {"none", "ended", "error", "retired"}, gen : Nat, active : BOOLEAN, seq : Nat,
   emitted : Nat, turnGen : Nat, lastGen : Nat, text : Nat, gate : BOOLEAN,
   awaiting : BOOLEAN, ctl : {"none", "command"}, listing : BOOLEAN, held : BOOLEAN, chain : Seq(Reactions),
   sync : {"none", "due", "result", "finish", "fail"}, chunk : BOOLEAN]

\* A reaction is due or under way exactly while the chain is not empty; a result under
\* way is its first; what is chained is of turns and generations there have been, and
\* of the live turn there is nothing yet.
DriverOk(c) ==
  /\ c \in DriverRecord /\ (c.sync = "none" <=> c.chain = <<>>)
  /\ c.sync = "result" => c.chain[1].kind = "result" /\ c.emitted = c.chain[1].seq
  /\ \A i \in 1..Len(c.chain) : c.chain[i].kind = "result" =>
       /\ c.chain[i].seq <= c.seq /\ c.chain[i].gen <= c.gen
       /\ c.active => c.chain[i].seq < c.seq
  /\ c.active => c.emitted < c.seq
  /\ c.emitted <= c.seq /\ c.lastGen <= c.gen /\ c.turnGen <= c.gen

\* The results that are still to go out, or just going.
Owed(c) ==
  {i \in 1..Len(c.chain) :
     c.chain[i].kind = "result" /\ ~(i = 1 /\ c.sync \in {"finish", "fail"})}

\* The results e owes are some of those c owed, in the same order.
KeepsOwed(c, e) ==
  \A i, j \in Owed(e) : \E a, b \in Owed(c) :
    e.chain[i] = c.chain[a] /\ e.chain[j] = c.chain[b] /\ (i < j => a < b)

\* No turn is live and the last prompt's result is under way, or out: the next run of
\* the server's opens a turn.
Ready(c) == c.lastGen = c.gen /\ ~c.active /\ c.seq <= c.emitted

\* The text e has is the one c had, and not that of a turn armed since.
Hears(c, e) == e.text \in {0, c.text} /\ (e.active /\ e.text # 0 => c.active)

\* What e owes and has under way is not less than c's was; it has heard no more.
Keeps(c, e) ==
  /\ KeepsOwed(c, e) /\ c.emitted <= e.emitted /\ Hears(c, e)
  /\ e.sync = "result" =>
       c.emitted < e.emitted \/ (c.sync = "result" /\ e.emitted = c.emitted)

\* e is ready only where c was, or owed the result of a turn no interrupt came after.
StaysReady(c, e) ==
  /\ e.gen = c.gen
  /\ Ready(e) => Ready(c) \/ \E i \in Owed(c) : c.chain[i].gen = c.gen

\* e comes of c without a prompt, an interrupt or a run.
Follows(c, e) == Keeps(c, e) /\ StaysReady(c, e) /\ e.said = c.said /\ e.seq = c.seq

\* e is c in what the invariant is about.
Core(c, e) ==
  /\ e \in DriverRecord /\ e.chain = c.chain /\ e.sync = c.sync /\ e.gen = c.gen
  /\ e.said = c.said /\ e.active = c.active /\ e.seq = c.seq /\ e.emitted = c.emitted
  /\ e.turnGen = c.turnGen /\ e.lastGen = c.lastGen /\ e.text = c.text

\* What the invariant says of the types.
LEMMA DriverTypes ==
  ASSUME NEW c, DriverOk(c)
  PROVE  /\ c \in DriverRecord /\ c.chain \in Seq(Reactions) /\ Len(c.chain) \in Nat
         /\ c.gen \in Nat /\ c.said \in Nat /\ c.seq \in Nat /\ c.emitted \in Nat
         /\ c.turnGen \in Nat /\ c.lastGen \in Nat /\ c.text \in Nat /\ c.active \in BOOLEAN
         /\ c.sync \in {"none", "due", "result", "finish", "fail"}
  BY DEF DriverOk, DriverRecord

\* A sequence is empty by its length.
LEMMA EmptyByLength == ASSUME NEW S, NEW q \in Seq(S) PROVE q = <<>> <=> Len(q) = 0
  OBVIOUS

\* Where a sequence is defined.
LEMMA DomainOf == ASSUME NEW S, NEW q \in Seq(S) PROVE DOMAIN q = 1..Len(q)
  OBVIOUS

\* What is in a sequence.
LEMMA ElementOf == ASSUME NEW S, NEW q \in Seq(S), NEW i \in 1..Len(q) PROVE q[i] \in S
  OBVIOUS

\* Follows is a preorder.
LEMMA FollowsTransitive ==
  ASSUME NEW c, DriverOk(c), NEW e, DriverOk(e), NEW u, DriverOk(u), Follows(c, e), Follows(e, u)
  PROVE  Follows(c, u)
<1>1. KeepsOwed(c, u)
  <2> SUFFICES ASSUME NEW i \in Owed(u), NEW j \in Owed(u)
               PROVE  \E a, b \in Owed(c) :
                        /\ u.chain[i] = c.chain[a] /\ u.chain[j] = c.chain[b]
                        /\ i < j => a < b
    BY DEF KeepsOwed
  <2>1. PICK k \in Owed(e), l \in Owed(e) :
          /\ u.chain[i] = e.chain[k] /\ u.chain[j] = e.chain[l] /\ (i < j => k < l)
    BY DEF Follows, Keeps, StaysReady, KeepsOwed
  <2>2. PICK a \in Owed(c), b \in Owed(c) :
          /\ e.chain[k] = c.chain[a] /\ e.chain[l] = c.chain[b] /\ (k < l => a < b)
    BY <2>1 DEF Follows, Keeps, StaysReady, KeepsOwed
  <2> QED BY <2>1, <2>2
<1>2. ASSUME Ready(u) PROVE Ready(c) \/ \E i \in Owed(c) : c.chain[i].gen = c.gen
  <2>1. CASE Ready(e)
    BY <2>1 DEF Follows, Keeps, StaysReady
  <2>2. ASSUME NEW i \in Owed(e), e.chain[i].gen = e.gen
        PROVE  \E a \in Owed(c) : c.chain[a].gen = c.gen
    BY <2>2 DEF Follows, Keeps, StaysReady, KeepsOwed
  <2> QED BY <1>2, <2>1, <2>2 DEF Follows, Keeps, StaysReady
<1>3. /\ c.emitted <= u.emitted
      /\ u.sync = "result" =>
           c.emitted < u.emitted \/ (c.sync = "result" /\ u.emitted = c.emitted)
  BY DriverTypes DEF Follows, Keeps, StaysReady
<1>4. Hears(c, u)
  BY DEF Follows, Keeps, Hears
<1> QED BY <1>1, <1>2, <1>3, <1>4 DEF Follows, Keeps, StaysReady

\* What leaves the core alone keeps the invariant.
LEMMA CoreEffect ==
  ASSUME NEW c, DriverOk(c), NEW e, Core(c, e)
  PROVE  DriverOk(e) /\ Follows(c, e)
<1>1. DriverOk(e)
  BY DEF DriverOk, Core
<1>2. Owed(e) = Owed(c)
  BY DEF Owed, Core
<1>3. KeepsOwed(c, e)
  BY <1>2 DEF KeepsOwed, Core
<1>4. Hears(c, e)
  BY DEF Hears, Core
<1>5. Follows(c, e)
  BY <1>3, <1>4, DriverTypes DEF Follows, Keeps, StaysReady, Core, Ready
<1> QED BY <1>1, <1>5

-----------------------------------------------------------------------------
(* The synchronous parts                                                     *)

\* A reaction is chained that is no result.
LEMMA ChainEffect ==
  ASSUME NEW c, DriverOk(c), NEW k \in {"finish", "fail", "exit"}
  PROVE  DriverOk(Chain(c, Reaction(k))) /\ Follows(c, Chain(c, Reaction(k)))
<1> DEFINE r == Reaction(k)
           q == Append(c.chain, r)
           s == IF c.chain = <<>> THEN "due" ELSE c.sync
           e == Chain(c, r)
           n == Len(c.chain)
<1>1. c \in DriverRecord /\ c.chain \in Seq(Reactions) /\ n \in Nat
  BY DriverTypes
<1>2. r \in Reactions /\ r.kind = k
  BY DEF Reaction, Reactions
<1>3. /\ q \in Seq(Reactions) /\ Len(q) = n + 1 /\ q # <<>> /\ q[n + 1] = r
      /\ \A i \in 1..n : q[i] = c.chain[i]
  BY <1>1, <1>2
<1>4. s \in {"due", "result", "finish", "fail"} /\ (n = 0 => s = "due") /\ (n # 0 => s = c.sync)
  BY <1>1, EmptyByLength, DriverTypes DEF DriverOk
<1>5. e = [c EXCEPT !.chain = q, !.sync = s]
  BY DEF Chain
<1> HIDE DEF r, q, s, e
<1>6. /\ e \in DriverRecord /\ e.chain = q /\ e.sync = s /\ e.gen = c.gen
      /\ e.said = c.said /\ e.active = c.active /\ e.seq = c.seq /\ e.emitted = c.emitted
      /\ e.turnGen = c.turnGen /\ e.lastGen = c.lastGen /\ e.text = c.text
  BY <1>1, <1>3, <1>4, <1>5 DEF DriverRecord
<1> HIDE DEF n
<1>7. \A i \in 1..Len(q) : q[i].kind = "result" => i \in 1..n /\ q[i] = c.chain[i]
  <2>1. \A i \in 1..(n + 1) : i \in 1..n \/ i = n + 1
    BY <1>1
  <2> QED BY <1>2, <1>3, <2>1
<1>8. DriverOk(e)
  <2>1. s = "result" => n # 0 /\ c.sync = "result"
    BY <1>4
  <2>2. n # 0 => q[1] = c.chain[1]
    BY <1>1, <1>3
  <2>3. e.sync = "result" => e.chain[1].kind = "result" /\ e.emitted = e.chain[1].seq
    BY <1>6, <2>1, <2>2 DEF DriverOk
  <2>4. \A i \in 1..Len(e.chain) : e.chain[i].kind = "result" =>
          /\ e.chain[i].seq <= e.seq /\ e.chain[i].gen <= e.gen
          /\ e.active => e.chain[i].seq < e.seq
    BY <1>6, <1>7 DEF DriverOk, n
  <2> QED BY <1>3, <1>4, <1>6, <2>3, <2>4 DEF DriverOk
<1>9. KeepsOwed(c, e)
  <2>1. \A i \in Owed(e) : i \in Owed(c) /\ e.chain[i] = c.chain[i]
    BY <1>1, <1>4, <1>6, <1>7 DEF Owed, n
  <2> QED BY <2>1 DEF KeepsOwed
<1>10. Follows(c, e)
  <2>1. c.emitted <= c.emitted
    BY DriverTypes
  <2>2. s = "result" => c.sync = "result"
    BY <1>4
  <2> QED BY <1>6, <1>9, <2>1, <2>2 DEF Follows, Keeps, StaysReady, Ready, Hears
<1> QED BY <1>8, <1>10 DEF e, r

\* The chain goes on.
LEMMA GoOnEffect ==
  ASSUME NEW c, DriverOk(c), c.chain # <<>>
  PROVE  DriverOk(GoOn(c)) /\ Follows(c, GoOn(c)) /\ GoOn(c).sync \in {"none", "due"}
<1> DEFINE q == Tail(c.chain)
           s == IF Len(c.chain) = 1 THEN "none" ELSE "due"
           e == GoOn(c)
           n == Len(c.chain)
<1>1. c \in DriverRecord /\ c.chain \in Seq(Reactions) /\ n \in Nat /\ n # 0
  BY DriverTypes, EmptyByLength
<1>2. q \in Seq(Reactions) /\ Len(q) = n - 1 /\ \A i \in 1..(n - 1) : q[i] = c.chain[i + 1]
  BY <1>1
<1>3. s \in {"due", "none"} /\ (s = "none" <=> q = <<>>)
  <2>1. q = <<>> <=> Len(q) = 0
    BY <1>2, EmptyByLength
  <2> QED BY <1>1, <1>2, <2>1
<1>4. e = [c EXCEPT !.chain = q, !.sync = s]
  BY DEF GoOn
<1> HIDE DEF q, s, e, n
<1>5. /\ e \in DriverRecord /\ e.chain = q /\ e.sync = s /\ e.gen = c.gen
      /\ e.said = c.said /\ e.active = c.active /\ e.seq = c.seq /\ e.emitted = c.emitted
      /\ e.turnGen = c.turnGen /\ e.lastGen = c.lastGen /\ e.text = c.text
  BY <1>1, <1>2, <1>3, <1>4 DEF DriverRecord
<1>6. \A i \in 1..Len(q) : i + 1 \in 1..n /\ q[i] = c.chain[i + 1] /\ i + 1 # 1
  BY <1>1, <1>2
<1>7. DriverOk(e)
  BY <1>3, <1>5, <1>6 DEF DriverOk, n
<1>8. KeepsOwed(c, e)
  <2>1. \A i \in Owed(e) : i \in Nat /\ i + 1 \in Owed(c) /\ e.chain[i] = c.chain[i + 1]
    BY <1>5, <1>6 DEF Owed, n
  <2>2. \A i, j \in Nat : i < j => i + 1 < j + 1
    OBVIOUS
  <2> QED BY <2>1, <2>2 DEF KeepsOwed
<1>9. Follows(c, e)
  <2>1. c.emitted <= c.emitted
    BY DriverTypes
  <2> QED BY <1>3, <1>5, <1>8, <2>1 DEF Follows, Keeps, StaysReady, Ready, Hears
<1> QED BY <1>3, <1>5, <1>7, <1>9 DEF e

\* A command's reservation is given back, what a person is asked is withdrawn.
LEMMA FreeEffect ==
  ASSUME NEW c, DriverOk(c)
  PROVE  /\ Core(c, ReleaseControl(c)) /\ Core(c, CancelGate(c)) /\ Core(c, Unblock(c))
<1>1. c \in DriverRecord
  BY DEF DriverOk
<1>2. Core(c, ReleaseControl(c))
  <2> DEFINE x == IF c.held THEN "none" ELSE c.ctl
             e == ReleaseControl(c)
  <2>1. x \in {"none", "command"}
    BY <1>1 DEF DriverRecord
  <2>2. e = [c EXCEPT !.held = FALSE, !.ctl = x]
    BY <1>1 DEF ReleaseControl, DriverRecord
  <2> HIDE DEF x, e
  <2>3. Core(c, e)
    BY <1>1, <2>1, <2>2 DEF Core, DriverRecord
  <2> QED BY <2>3 DEF e
<1>3. Core(c, CancelGate(c))
  BY <1>1 DEF CancelGate, Core, DriverRecord
<1>4. Core(c, Unblock(c))
  BY <1>1 DEF Unblock, Core, DriverRecord
<1> QED BY <1>2, <1>3, <1>4

\* A flag of the driver's.
LEMMA FlagEffects ==
  ASSUME NEW c \in DriverRecord
  PROVE  /\ Core(c, [c EXCEPT !.chunk = FALSE]) /\ Core(c, [c EXCEPT !.state = "idle"])
         /\ Core(c, [c EXCEPT !.closed = TRUE]) /\ Core(c, [c EXCEPT !.ending = TRUE])
         /\ Core(c, [c EXCEPT !.retiring = TRUE]) /\ Core(c, [c EXCEPT !.listing = FALSE])
         /\ Core(c, [c EXCEPT !.listing = FALSE, !.ctl = "none"])
         /\ Core(c, [c EXCEPT !.listing = FALSE, !.held = TRUE])
         /\ Core(c, [c EXCEPT !.awaiting = TRUE]) /\ Core(c, [c EXCEPT !.awaiting = FALSE])
         /\ Core(c, Parked(c))
         /\ \A b \in BOOLEAN : Core(c, [c EXCEPT !.chunk = b])
         /\ \A x \in {"none", "ended", "error", "retired"} : Core(c, [c EXCEPT !.over = x])
         /\ \A x \in {"idle", "working", "blocked"} : Core(c, [c EXCEPT !.state = x])
<1>1. /\ Core(c, [c EXCEPT !.chunk = FALSE]) /\ Core(c, [c EXCEPT !.state = "idle"])
      /\ Core(c, [c EXCEPT !.closed = TRUE]) /\ Core(c, [c EXCEPT !.ending = TRUE])
  BY DEF Core, DriverRecord
<1>2. /\ Core(c, [c EXCEPT !.retiring = TRUE]) /\ Core(c, [c EXCEPT !.listing = FALSE])
      /\ Core(c, [c EXCEPT !.listing = FALSE, !.ctl = "none"])
  BY DEF Core, DriverRecord
<1>3. /\ Core(c, [c EXCEPT !.listing = FALSE, !.held = TRUE])
      /\ Core(c, [c EXCEPT !.awaiting = TRUE]) /\ Core(c, [c EXCEPT !.awaiting = FALSE])
  BY DEF Core, DriverRecord
<1>4. Core(c, Parked(c))
  <2> DEFINE x == IF c.over = "none" THEN "blocked" ELSE c.state
  <2>1. x \in {"idle", "working", "blocked"}
    BY DEF DriverRecord
  <2>2. Parked(c) = [c EXCEPT !.gate = TRUE, !.state = x]
    BY DEF Parked, DriverRecord
  <2> HIDE DEF x
  <2> QED BY <2>1, <2>2 DEF Core, DriverRecord
<1>5. \A b \in BOOLEAN : Core(c, [c EXCEPT !.chunk = b])
  BY DEF Core, DriverRecord
<1>6. \A x \in {"none", "ended", "error", "retired"} : Core(c, [c EXCEPT !.over = x])
  BY DEF Core, DriverRecord
<1>7. \A x \in {"idle", "working", "blocked"} : Core(c, [c EXCEPT !.state = x])
  BY DEF Core, DriverRecord
<1> QED BY <1>1, <1>2, <1>3, <1>4, <1>5, <1>6, <1>7

\* A wind-down begins its sync: the result that led to it is out.
LEMMA WindDownEffect ==
  ASSUME NEW c, DriverOk(c), c.chain # <<>>, NEW s \in {"finish", "fail"}
  PROVE  LET e == [c EXCEPT !.finished = TRUE, !.sync = s]
         IN  DriverOk(e) /\ Follows(c, e)
<1> DEFINE e == [c EXCEPT !.finished = TRUE, !.sync = s]
<1>1. /\ e \in DriverRecord /\ e.chain = c.chain /\ e.sync = s /\ e.gen = c.gen
      /\ e.said = c.said /\ e.active = c.active /\ e.seq = c.seq /\ e.emitted = c.emitted
      /\ e.turnGen = c.turnGen /\ e.lastGen = c.lastGen /\ e.text = c.text
  <2>1. c \in DriverRecord
    BY DEF DriverOk
  <2>2. CASE s = "finish"
    BY <2>1, <2>2 DEF DriverRecord
  <2>3. CASE s = "fail"
    BY <2>1, <2>3 DEF DriverRecord
  <2> QED BY <2>2, <2>3
<1> HIDE DEF e
<1>2. DriverOk(e)
  BY <1>1 DEF DriverOk
<1>3. KeepsOwed(c, e)
  <2>1. \A i \in Owed(e) : i \in Owed(c) /\ e.chain[i] = c.chain[i]
    BY <1>1 DEF Owed
  <2> QED BY <2>1 DEF KeepsOwed
<1>4. Follows(c, e)
  <2>1. c.emitted <= c.emitted
    BY DriverTypes
  <2> QED BY <1>1, <1>3, <2>1 DEF Follows, Keeps, StaysReady, Ready, Hears
<1> QED BY <1>2, <1>4 DEF e

\* It finishes, or fails, in a sync or already.
LEMMA FinishEffect ==
  ASSUME NEW c, DriverOk(c), c.chain # <<>>
  PROVE  /\ DriverOk(Finish(c)) /\ Follows(c, Finish(c))
         /\ DriverOk(Fail(c)) /\ Follows(c, Fail(c))
<1>1. DriverOk(Finish(c)) /\ Follows(c, Finish(c))
  BY WindDownEffect, GoOnEffect, Zenon DEF Finish
<1>2. DriverOk(Fail(c)) /\ Follows(c, Fail(c))
  <2> DEFINE e == [c EXCEPT !.finished = TRUE, !.sync = "fail"]
             u == ReleaseControl(e)
  <2>1. DriverOk(e) /\ Follows(c, e)
    BY WindDownEffect, Zenon
  <2> HIDE DEF e
  <2>2. DriverOk(u) /\ Follows(e, u)
    BY <2>1, FreeEffect, CoreEffect
  <2>3. Fail(c) = u \/ Fail(c) = GoOn(c)
    BY DEF Fail, e
  <2> HIDE DEF u
  <2>4. DriverOk(u) /\ Follows(c, u)
    BY <2>1, <2>2, FollowsTransitive
  <2> QED BY <2>3, <2>4, GoOnEffect
<1> QED BY <1>1, <1>2

\* A result goes out, of the generation there is: it is the last turn's at most.
LEMMA ResultEffect ==
  ASSUME NEW c, DriverOk(c), c.chain # <<>>, c.sync = "due", c.chain[1].kind = "result",
         c.chain[1].gen = c.gen, c.emitted < c.chain[1].seq
  PROVE  LET e == [c EXCEPT !.emitted = c.chain[1].seq, !.sync = "result"]
         IN  DriverOk(e) /\ Follows(c, e)
<1> DEFINE m == c.chain[1].seq
           e == [c EXCEPT !.emitted = m, !.sync = "result"]
<1>1. c \in DriverRecord /\ 1 \in 1..Len(c.chain) /\ m \in Nat
  <2>1. c \in DriverRecord /\ c.chain \in Seq(Reactions) /\ Len(c.chain) # 0
        /\ Len(c.chain) \in Nat
    BY DriverTypes, EmptyByLength
  <2>2. 1 \in 1..Len(c.chain)
    BY <2>1
  <2>3. c.chain[1] \in Reactions
    BY <2>1, <2>2
  <2> QED BY <2>1, <2>2, <2>3 DEF Reactions
<1>2. m <= c.seq /\ (c.active => m < c.seq)
  BY <1>1 DEF DriverOk
<1>3. e = [c EXCEPT !.emitted = m, !.sync = "result"]
  OBVIOUS
<1> HIDE DEF e
<1>4. /\ e \in DriverRecord /\ e.chain = c.chain /\ e.sync = "result" /\ e.gen = c.gen
      /\ e.said = c.said /\ e.active = c.active /\ e.seq = c.seq /\ e.emitted = m
      /\ e.turnGen = c.turnGen /\ e.lastGen = c.lastGen /\ e.text = c.text
  <2> HIDE DEF m
  <2> QED BY <1>1, <1>3 DEF DriverRecord
<1>5. DriverOk(e)
  BY <1>2, <1>4 DEF DriverOk
<1>6. KeepsOwed(c, e) /\ 1 \in Owed(c)
  <2>1. \A i \in Owed(e) : i \in Owed(c) /\ e.chain[i] = c.chain[i]
    BY <1>4 DEF Owed
  <2> QED BY <1>1, <2>1 DEF KeepsOwed, Owed
<1>7. c.emitted <= m
  BY <1>1, DriverTypes
<1>8. Follows(c, e)
  BY <1>4, <1>6, <1>7 DEF Follows, Keeps, StaysReady, Hears
<1> QED BY <1>5, <1>8 DEF e

\* A reaction runs.
LEMMA ReactEffect ==
  ASSUME NEW c, DriverOk(c), c.sync = "due"
  PROVE  DriverOk(React(c)) /\ Follows(c, React(c))
<1>1. c.chain # <<>> /\ c.chain \in Seq(Reactions)
  BY DriverTypes DEF DriverOk
<1>2. Head(c.chain) = c.chain[1] /\ c.chain[1] \in Reactions
  <2>1. Len(c.chain) \in Nat /\ Len(c.chain) # 0
    BY <1>1, EmptyByLength
  <2> QED BY <1>1, <2>1
<1>3. CASE c.chain[1].kind = "result"
  <2>1. CASE c.chain[1].gen # c.gen \/ c.finished \/ c.emitted >= c.chain[1].seq
    BY <1>1, <1>2, <1>3, <2>1, GoOnEffect DEF React
  <2>2. CASE c.chain[1].gen = c.gen /\ ~c.finished /\ ~(c.emitted >= c.chain[1].seq)
    <3>1. c.emitted < c.chain[1].seq
      BY <1>2, <2>2, DriverTypes DEF Reactions
    <3>2. React(c) = [c EXCEPT !.emitted = c.chain[1].seq, !.sync = "result"]
      BY <1>2, <1>3, <2>2 DEF React
    <3> QED BY <1>1, <1>3, <2>2, <3>1, <3>2, ResultEffect, Zenon
  <2> QED BY <2>1, <2>2
<1>4. CASE c.chain[1].kind = "finish"
  BY <1>1, <1>2, <1>4, FinishEffect DEF React
<1>5. CASE c.chain[1].kind = "fail"
  BY <1>1, <1>2, <1>5, FinishEffect DEF React
<1>6. CASE c.chain[1].kind = "exit"
  BY <1>1, <1>2, <1>6, FinishEffect DEF React
<1> QED BY <1>2, <1>3, <1>4, <1>5, <1>6 DEF Reactions

\* What comes after a result, before the next reaction.
LEMMA AfterResultEffect ==
  ASSUME NEW c, DriverOk(c), c.chain # <<>>
  PROVE  DriverOk(AfterResult(c)) /\ Follows(c, AfterResult(c))
         /\ AfterResult(c).sync # "result"
<1> DEFINE free == ReleaseControl(c)
           x == IF free.active THEN free.state ELSE "idle"
           e == [free EXCEPT !.state = x]
<1>1. DriverOk(free) /\ Follows(c, free) /\ free.chain # <<>>
  BY FreeEffect, CoreEffect DEF Core
<1>2. \/ AfterResult(c) = GoOn(free) \/ AfterResult(c) = Finish(free)
      \/ AfterResult(c) = GoOn(e)
  <2>1. free.finished = c.finished /\ free.closed = c.closed /\ free.ending = c.ending
        /\ free.active = c.active
    BY DriverTypes DEF ReleaseControl, DriverRecord
  <2>2. CASE c.finished
    BY <2>2 DEF AfterResult
  <2>3. CASE ~c.finished /\ (c.closed \/ c.ending)
    BY <2>3 DEF AfterResult
  <2>4. CASE ~c.finished /\ ~(c.closed \/ c.ending)
    <3>1. e = [free EXCEPT !.state = IF c.active THEN @ ELSE "idle"]
      BY <2>1
    <3> QED BY <2>4, <3>1 DEF AfterResult
  <2> QED BY <2>2, <2>3, <2>4
<1>3. Finish(free).sync # "result"
  BY <1>1, GoOnEffect, DriverTypes DEF Finish, DriverRecord
<1> HIDE DEF free
<1>4. x \in {"idle", "working", "blocked"} /\ free \in DriverRecord
  BY <1>1, DriverTypes DEF DriverRecord
<1> HIDE DEF x
<1>5. Core(free, e)
  BY <1>4, FlagEffects, Zenon
<1>6. DriverOk(e) /\ Follows(free, e) /\ e.chain # <<>>
  BY <1>1, <1>5, CoreEffect DEF Core
<1> HIDE DEF e
<1>7. DriverOk(e) /\ Follows(c, e)
  BY <1>1, <1>6, FollowsTransitive
<1>8. DriverOk(GoOn(e)) /\ Follows(c, GoOn(e)) /\ GoOn(e).sync # "result"
  BY <1>6, <1>7, GoOnEffect, FollowsTransitive
<1>9. DriverOk(GoOn(free)) /\ Follows(c, GoOn(free)) /\ GoOn(free).sync # "result"
  BY <1>1, GoOnEffect, FollowsTransitive
<1>10. DriverOk(Finish(free)) /\ Follows(c, Finish(free))
  BY <1>1, FinishEffect, FollowsTransitive
<1> QED BY <1>2, <1>3, <1>8, <1>9, <1>10

\* A result under way is out: it is owed no more, and what follows it keeps the rest.
LEMMA ResultOutEffect ==
  ASSUME NEW c, DriverOk(c), c.sync = "result"
  PROVE  LET e == [c EXCEPT !.sync = "finish"]
         IN  /\ DriverOk(e) /\ Owed(e) = Owed(c) \ {1} /\ 1 \in Owed(c)
             /\ e.chain = c.chain /\ e.emitted = c.emitted /\ e.sync = "finish"
             /\ e.gen = c.gen /\ e.said = c.said /\ e.seq = c.seq /\ Ready(e) = Ready(c)
             /\ e.text = c.text /\ e.active = c.active
             /\ DriverOk(AfterResult(c)) /\ Follows(e, AfterResult(c))
<1> DEFINE e == [c EXCEPT !.sync = "finish"]
<1>1. c \in DriverRecord
  BY DEF DriverOk
<1>2. /\ e \in DriverRecord /\ e.chain = c.chain /\ e.sync = "finish" /\ e.gen = c.gen
      /\ e.said = c.said /\ e.active = c.active /\ e.seq = c.seq /\ e.emitted = c.emitted
      /\ e.turnGen = c.turnGen /\ e.lastGen = c.lastGen /\ e.text = c.text
  BY <1>1 DEF DriverRecord
<1>3. AfterResult(e) = AfterResult(c)
  <2>1. ASSUME NEW u \in DriverRecord
        PROVE  LET v == [u EXCEPT !.sync = "finish"] IN GoOn(v) = GoOn(u) /\ Finish(v) = Finish(u)
    <3> DEFINE v == [u EXCEPT !.sync = "finish"]
               q == Tail(u.chain)
               s == IF Len(u.chain) = 1 THEN "none" ELSE "due"
    <3>1. v.chain = u.chain /\ v.finished = u.finished
      BY DEF DriverRecord
    <3>2. GoOn(v) = [v EXCEPT !.chain = q, !.sync = s] /\ GoOn(u) = [u EXCEPT !.chain = q, !.sync = s]
      BY <3>1 DEF GoOn
    <3>3. GoOn(v) = GoOn(u)
      <4> HIDE DEF q, s
      <4> QED BY <3>2 DEF DriverRecord
    <3>4. [v EXCEPT !.finished = TRUE, !.sync = "finish"] = [u EXCEPT !.finished = TRUE, !.sync = "finish"]
      BY DEF DriverRecord
    <3> QED BY <3>1, <3>3, <3>4 DEF Finish
  <2> DEFINE x == IF c.held THEN "none" ELSE c.ctl
             free == ReleaseControl(c)
             y == IF c.active THEN free.state ELSE "idle"
             idle == [free EXCEPT !.state = y]
  <2>2. ReleaseControl(e) = [free EXCEPT !.sync = "finish"]
    <3>1. /\ free = [c EXCEPT !.held = FALSE, !.ctl = x]
          /\ ReleaseControl(e) = [e EXCEPT !.held = FALSE, !.ctl = x]
      BY <1>1 DEF ReleaseControl, DriverRecord
    <3> HIDE DEF x, free
    <3> QED BY <1>1, <3>1 DEF DriverRecord
  <2>3. free \in DriverRecord /\ free.state \in {"idle", "working", "blocked"}
    BY FreeEffect DEF Core, DriverRecord
  <2> HIDE DEF free
  <2>4. idle \in DriverRecord
    <3>1. y \in {"idle", "working", "blocked"}
      BY <2>3
    <3> HIDE DEF y
    <3> QED BY <2>3, <3>1 DEF DriverRecord
  <2>5. [[free EXCEPT !.sync = "finish"] EXCEPT !.state = IF c.active THEN @ ELSE "idle"]
          = [idle EXCEPT !.sync = "finish"]
    <3>1. [[free EXCEPT !.sync = "finish"] EXCEPT !.state = IF c.active THEN @ ELSE "idle"]
            = [[free EXCEPT !.sync = "finish"] EXCEPT !.state = y]
      BY <2>3 DEF DriverRecord
    <3> HIDE DEF y
    <3> QED BY <2>3, <3>1 DEF DriverRecord
  <2>6. e.finished = c.finished /\ e.closed = c.closed /\ e.ending = c.ending
        /\ e.active = c.active
    BY <1>1 DEF DriverRecord
  <2>7. AfterResult(c) = IF c.finished THEN GoOn(free)
                         ELSE IF c.closed \/ c.ending THEN Finish(free) ELSE GoOn(idle)
    <3>1. idle = [free EXCEPT !.state = IF c.active THEN @ ELSE "idle"]
      OBVIOUS
    <3> QED BY <3>1 DEF AfterResult, free
  <2> DEFINE g == [free EXCEPT !.sync = "finish"]
  <2>8. AfterResult(e) = IF c.finished THEN GoOn(g)
                         ELSE IF c.closed \/ c.ending THEN Finish(g)
                         ELSE GoOn([idle EXCEPT !.sync = "finish"])
    BY <2>2, <2>5, <2>6 DEF AfterResult
  <2>9. GoOn(g) = GoOn(free) /\ Finish(g) = Finish(free)
        /\ GoOn([idle EXCEPT !.sync = "finish"]) = GoOn(idle)
    BY <2>1, <2>3, <2>4
  <2> QED BY <2>7, <2>8, <2>9
<1> HIDE DEF e
<1>4. c.chain # <<>> /\ 1 \in 1..Len(c.chain) /\ c.chain[1].kind = "result"
  <2>1. c.chain # <<>> /\ Len(c.chain) \in Nat /\ c.chain \in Seq(Reactions)
    BY DriverTypes DEF DriverOk
  <2>2. Len(c.chain) # 0
    BY <2>1, EmptyByLength
  <2> QED BY <2>1, <2>2 DEF DriverOk
<1>5. DriverOk(e)
  BY <1>2, <1>4 DEF DriverOk
<1>6. Owed(e) = Owed(c) \ {1} /\ 1 \in Owed(c)
  BY <1>2, <1>4 DEF Owed
<1>7. DriverOk(AfterResult(e)) /\ Follows(e, AfterResult(e))
  BY <1>2, <1>4, <1>5, AfterResultEffect
<1>8. Ready(e) = Ready(c)
  BY <1>2 DEF Ready
<1> QED BY <1>2, <1>3, <1>5, <1>6, <1>7, <1>8 DEF e

\* The same chain, as far.
LEMMA SameChain ==
  ASSUME NEW c, DriverOk(c), NEW e, e.chain = c.chain, e.sync = c.sync, e.emitted = c.emitted,
         Hears(c, e)
  PROVE  Keeps(c, e) /\ Owed(e) = Owed(c)
<1>1. Owed(e) = Owed(c)
  BY DEF Owed
<1>2. c.emitted <= c.emitted
  BY DriverTypes
<1> QED BY <1>1, <1>2 DEF Keeps, KeepsOwed

\* A turn is armed.
LEMMA ArmedEffect ==
  ASSUME NEW c, DriverOk(c)
  PROVE  LET e == Armed(c)
         IN  /\ DriverOk(e) /\ Keeps(c, e) /\ e.gen = c.gen /\ e.said = c.said
             /\ e.seq = c.seq + 1 /\ e.active /\ e.chain = c.chain /\ e.sync = c.sync
             /\ e.emitted = c.emitted /\ e.text = 0
<1> DEFINE m == c.seq + 1
           g == c.gen
           e == [c EXCEPT !.active = TRUE, !.seq = m, !.turnGen = g, !.text = 0,
                          !.state = "working"]
<1>1. c \in DriverRecord /\ m \in Nat /\ g \in Nat
  BY DriverTypes
<1>2. Armed(c) = e
  BY DEF Armed
<1> HIDE DEF m, g
<1>3. e \in DriverRecord
  BY <1>1 DEF DriverRecord
<1>4. /\ e.chain = c.chain /\ e.sync = c.sync /\ e.gen = c.gen /\ e.said = c.said
      /\ e.active = TRUE /\ e.seq = m /\ e.emitted = c.emitted /\ e.turnGen = g
      /\ e.lastGen = c.lastGen /\ e.text = 0
  BY <1>1 DEF DriverRecord
<1> HIDE DEF e
<1>5. c.seq \in Nat /\ c.emitted \in Nat /\ c.emitted <= c.seq /\ c.gen <= c.gen
  BY DriverTypes DEF DriverOk
<1>6. \A i \in 1..Len(c.chain) : c.chain[i].kind = "result" =>
        c.chain[i].seq <= m /\ c.chain[i].seq < m /\ c.chain[i].gen <= c.gen
  <2> SUFFICES ASSUME NEW i \in 1..Len(c.chain), c.chain[i].kind = "result"
               PROVE  c.chain[i].seq <= m /\ c.chain[i].seq < m /\ c.chain[i].gen <= c.gen
    OBVIOUS
  <2>1. c.chain[i] \in Reactions
    BY DriverTypes
  <2> QED BY <1>5, <2>1 DEF DriverOk, Reactions, m
<1>7. c.emitted <= m /\ c.emitted < m
  BY <1>5 DEF m
<1>8. DriverOk(e)
  BY <1>3, <1>4, <1>5, <1>6, <1>7 DEF DriverOk, g
<1> QED BY <1>2, <1>4, <1>8, SameChain DEF m, Hears

\* A run is taken up: only by a ready driver.
LEMMA OnBusyEffect ==
  ASSUME NEW c, DriverOk(c)
  PROVE  LET e == OnBusy(c)
         IN  /\ DriverOk(e) /\ Keeps(c, e) /\ StaysReady(c, e) /\ e.said = c.said
             /\ e.seq = c.seq \/ (e.seq = c.seq + 1 /\ Ready(c))
<1>1. CASE OnBusy(c) = c
  BY <1>1, SameChain DEF StaysReady, Hears
<1>2. CASE OnBusy(c) = Armed(c) /\ c.lastGen = c.gen /\ ~c.active /\ ~(c.emitted < c.seq)
  <2>1. Ready(c)
    BY <1>2, DriverTypes DEF Ready
  <2> QED BY <1>2, <2>1, ArmedEffect DEF StaysReady
<1> QED BY <1>1, <1>2 DEF OnBusy

\* A message is sent: its turn is live.
LEMMA PromptedEffect ==
  ASSUME NEW c, DriverOk(c)
  PROVE  LET e == Prompted(c)
         IN  /\ DriverOk(e) /\ Keeps(c, e) /\ StaysReady(c, e) /\ e.said = c.said + 1
<1> DEFINE m == c.said + 1
           g == c.gen
           s == [c EXCEPT !.said = m, !.lastGen = g, !.state = "working"]
<1>1. c \in DriverRecord /\ m \in Nat /\ g \in Nat
  BY DriverTypes
<1>2. Prompted(c) = IF c.active THEN s ELSE Armed(s)
  BY DEF Prompted
<1> HIDE DEF m, g
<1>3. s \in DriverRecord
  BY <1>1 DEF DriverRecord
<1>4. /\ s.chain = c.chain /\ s.sync = c.sync /\ s.gen = c.gen /\ s.said = m
      /\ s.active = c.active /\ s.seq = c.seq /\ s.emitted = c.emitted
      /\ s.turnGen = c.turnGen /\ s.lastGen = g /\ s.text = c.text
  BY <1>1 DEF DriverRecord
<1> HIDE DEF s
<1>5. DriverOk(s)
  <2>1. g <= c.gen
    BY DriverTypes DEF g
  <2> QED BY <1>3, <1>4, <2>1 DEF DriverOk
<1>6. CASE c.active
  BY <1>2, <1>4, <1>5, <1>6, SameChain DEF StaysReady, Ready, Hears, m
<1>7. CASE ~c.active
  <2>1. LET e == Armed(s)
        IN  /\ DriverOk(e) /\ e.gen = s.gen /\ e.said = s.said /\ e.active
            /\ e.chain = s.chain /\ e.sync = s.sync /\ e.emitted = s.emitted /\ e.text = 0
    BY <1>5, ArmedEffect
  <2>2. Keeps(c, Armed(s))
    BY <1>4, <2>1, SameChain DEF Hears
  <2> QED BY <1>2, <1>4, <1>7, <2>1, <2>2 DEF StaysReady, Ready, m
<1> QED BY <1>6, <1>7

\* A live turn's run is idle: its result is chained, of the text heard.
LEMMA OnIdleEffect ==
  ASSUME NEW c, DriverOk(c), NEW run \in Nat
  PROVE  LET e == OnIdle(c, run)
             r == [kind |-> "result", seq |-> c.seq, gen |-> c.turnGen, text |-> c.text,
                   run |-> run]
         IN  /\ DriverOk(e) /\ e.seq = c.seq /\ e.said = c.said /\ e.gen = c.gen
             /\ ~c.active => Follows(c, e)
             /\ c.active =>
                  /\ e.chain = Append(c.chain, r) /\ e.emitted = c.emitted /\ ~Ready(e)
                  /\ e.sync = c.sync \/ (c.chain = <<>> /\ e.sync = "due")
                  /\ e.text = c.text /\ ~e.active
<1> DEFINE r == [kind |-> "result", seq |-> c.seq, gen |-> c.turnGen, text |-> c.text,
                 run |-> run]
           q == Append(c.chain, r)
           s == IF c.chain = <<>> THEN "due" ELSE c.sync
           n == Len(c.chain)
           e == [c EXCEPT !.active = FALSE, !.chain = q, !.sync = s]
<1>1. CASE ~c.active
  <2>1. OnIdle(c, run) = c /\ Follows(c, c)
    BY <1>1, SameChain DEF OnIdle, Follows, StaysReady, Hears
  <2> QED BY <1>1, <2>1
<1>2. CASE c.active
  <2>1. /\ c \in DriverRecord /\ c.chain \in Seq(Reactions)
        /\ n \in Nat /\ c.seq \in Nat /\ c.turnGen \in Nat /\ c.text \in Nat
    BY DriverTypes
  <2>2. OnIdle(c, run) = e
    <3> DEFINE u == [c EXCEPT !.active = FALSE]
    <3>1. u.chain = c.chain /\ u.sync = c.sync
      BY <2>1 DEF DriverRecord
    <3>2. Chain(u, r) = [u EXCEPT !.chain = q, !.sync = s]
      BY <3>1 DEF Chain
    <3>3. OnIdle(c, run) = Chain(u, r)
      BY <1>2 DEF OnIdle
    <3> HIDE DEF q, s, r
    <3> QED BY <2>1, <3>2, <3>3 DEF DriverRecord
  <2>3. r \in Reactions /\ r.kind = "result" /\ r.seq = c.seq /\ r.gen = c.turnGen
    BY <2>1 DEF Reactions
  <2> HIDE DEF r
  <2>4. /\ q \in Seq(Reactions) /\ Len(q) = n + 1 /\ q # <<>> /\ q[n + 1] = r
        /\ \A i \in 1..n : q[i] = c.chain[i]
    BY <2>1, <2>3
  <2>5. /\ s \in {"due", "result", "finish", "fail"} /\ (n = 0 => s = "due")
        /\ (n # 0 => s = c.sync) /\ (s = c.sync \/ (c.chain = <<>> /\ s = "due"))
    BY <2>1, EmptyByLength, DriverTypes DEF DriverOk
  <2> HIDE DEF q, s
  <2>6. e \in DriverRecord
    <3>1. s \in {"none", "due", "result", "finish", "fail"} /\ q \in Seq(Reactions)
      BY <2>4, <2>5
    <3> QED BY <2>1, <3>1 DEF DriverRecord
  <2>7. /\ e.chain = q /\ e.sync = s /\ e.gen = c.gen /\ e.said = c.said /\ e.active = FALSE
        /\ e.seq = c.seq /\ e.emitted = c.emitted /\ e.turnGen = c.turnGen
        /\ e.lastGen = c.lastGen /\ e.text = c.text
    BY <2>1 DEF DriverRecord
  <2> HIDE DEF e, n
  <2>8. DriverOk(e)
    <3>1. s = "result" => n # 0 /\ c.sync = "result"
      BY <2>5
    <3>2. n # 0 => q[1] = c.chain[1]
      BY <2>1, <2>4
    <3>3. e.sync = "result" => e.chain[1].kind = "result" /\ e.emitted = e.chain[1].seq
      BY <2>7, <3>1, <3>2 DEF DriverOk
    <3>4. \A i \in 1..n : c.chain[i].kind = "result" =>
            c.chain[i].seq <= c.seq /\ c.chain[i].gen <= c.gen
      BY DEF DriverOk, n
    <3>5. c.seq <= c.seq /\ c.turnGen <= c.gen
      BY <2>1 DEF DriverOk
    <3>6. \A i \in 1..Len(q) : i \in 1..n \/ i = n + 1
      BY <2>1, <2>4
    <3>7. \A i \in 1..Len(e.chain) : e.chain[i].kind = "result" =>
            /\ e.chain[i].seq <= e.seq /\ e.chain[i].gen <= e.gen
            /\ e.active => e.chain[i].seq < e.seq
      BY <2>3, <2>4, <2>7, <3>4, <3>5, <3>6
    <3> QED BY <2>4, <2>5, <2>6, <2>7, <3>3, <3>7 DEF DriverOk
  <2>9. ~Ready(e)
    BY <1>2, <2>7, DriverTypes DEF Ready, DriverOk
  <2>10. /\ e.chain = q /\ e.emitted = c.emitted
         /\ e.sync = c.sync \/ (c.chain = <<>> /\ e.sync = "due")
    BY <2>5, <2>7
  <2> QED BY <1>2, <2>2, <2>7, <2>8, <2>9, <2>10 DEF q, r
<1> QED BY <1>1, <1>2

\* A text is heard: nothing else changes.
LEMMA OnTextEffect ==
  ASSUME NEW c, DriverOk(c), NEW run \in Nat
  PROVE  LET e == OnText(c, run)
         IN  /\ DriverOk(e) /\ KeepsOwed(c, e) /\ StaysReady(c, e) /\ Owed(e) = Owed(c)
             /\ e.text = run /\ e.chain = c.chain /\ e.sync = c.sync /\ e.seq = c.seq
             /\ e.gen = c.gen /\ e.said = c.said /\ e.emitted = c.emitted
             /\ e.active = c.active
<1> DEFINE e == [c EXCEPT !.text = run]
<1>1. c \in DriverRecord /\ OnText(c, run) = e
  BY DriverTypes DEF OnText
<1>2. e \in DriverRecord
  BY <1>1 DEF DriverRecord
<1>3. /\ e.chain = c.chain /\ e.sync = c.sync /\ e.gen = c.gen /\ e.said = c.said
      /\ e.active = c.active /\ e.seq = c.seq /\ e.emitted = c.emitted
      /\ e.turnGen = c.turnGen /\ e.lastGen = c.lastGen /\ e.text = run
  BY <1>1 DEF DriverRecord
<1> HIDE DEF e
<1>4. DriverOk(e)
  BY <1>2, <1>3 DEF DriverOk
<1>5. Owed(e) = Owed(c)
  BY <1>3 DEF Owed
<1>6. KeepsOwed(c, e) /\ StaysReady(c, e)
  BY <1>3, <1>5 DEF KeepsOwed, StaysReady, Ready
<1> QED BY <1>1, <1>3, <1>4, <1>5, <1>6

\* An interrupt, a shutdown or a forced stop: what went before is withdrawn.
LEMMA WithdrawnEffect ==
  ASSUME NEW c, DriverOk(c), NEW e \in DriverRecord, e.chain = c.chain, e.sync = c.sync,
         e.said = c.said, e.seq = c.seq, e.emitted = c.emitted, e.turnGen = c.turnGen,
         e.lastGen = c.lastGen, e.text = c.text, e.gen = c.gen + 1, e.active => c.active
  PROVE  /\ DriverOk(e) /\ Keeps(c, e) /\ ~Ready(e)
         /\ \A i \in Owed(e) : e.chain[i].gen # e.gen
<1>1. /\ c.gen \in Nat /\ c.lastGen \in Nat /\ c.turnGen \in Nat /\ c.lastGen <= c.gen
      /\ c.turnGen <= c.gen
  BY DriverTypes DEF DriverOk
<1>2. \A i \in 1..Len(c.chain) : c.chain[i].kind = "result" =>
        c.chain[i].gen <= e.gen /\ c.chain[i].gen # e.gen
  <2> SUFFICES ASSUME NEW i \in 1..Len(c.chain), c.chain[i].kind = "result"
               PROVE  c.chain[i].gen <= e.gen /\ c.chain[i].gen # e.gen
    OBVIOUS
  <2>1. c.chain[i] \in Reactions
    BY DriverTypes
  <2> QED BY <1>1, <2>1 DEF DriverOk, Reactions
<1>3. c.lastGen <= e.gen /\ c.turnGen <= e.gen /\ c.lastGen # e.gen
  BY <1>1
<1>4. DriverOk(e)
  BY <1>2, <1>3 DEF DriverOk
<1>5. \A i \in Owed(e) : e.chain[i].gen # e.gen
  BY <1>2 DEF Owed
<1> QED BY <1>3, <1>4, <1>5, SameChain DEF Ready, Hears

\* A turn is withdrawn with its prompt.
LEMMA StandDownEffect ==
  ASSUME NEW c, DriverOk(c)
  PROVE  LET e == [c EXCEPT !.active = FALSE] IN DriverOk(e) /\ Follows(c, e)
<1> DEFINE e == [c EXCEPT !.active = FALSE]
<1>1. c \in DriverRecord
  BY DEF DriverOk
<1>2. e \in DriverRecord
  BY <1>1 DEF DriverRecord
<1>3. /\ e.chain = c.chain /\ e.sync = c.sync /\ e.gen = c.gen /\ e.said = c.said
      /\ e.active = FALSE /\ e.seq = c.seq /\ e.emitted = c.emitted /\ e.turnGen = c.turnGen
      /\ e.lastGen = c.lastGen /\ e.text = c.text
  BY <1>1 DEF DriverRecord
<1> HIDE DEF e
<1>4. DriverOk(e)
  BY <1>2, <1>3 DEF DriverOk
<1>5. Ready(e) => Ready(c)
  <2>1. c.active => ~(c.seq <= c.emitted)
    BY DriverTypes DEF DriverOk
  <2> QED BY <1>3, <2>1 DEF Ready
<1> QED BY <1>3, <1>4, <1>5, SameChain DEF Follows, StaysReady, Hears, e

\* A prompt is refused.
LEMMA RefusedEffect ==
  ASSUME NEW c, DriverOk(c), NEW p, p.kind \in {"prompt", "follow", "command"}
  PROVE  DriverOk(Refused(c, p)) /\ Follows(c, Refused(c, p))
<1> DEFINE down == [c EXCEPT !.active = FALSE]
           free == ReleaseControl(down)
<1>1. DriverOk(down) /\ Follows(c, down)
  BY StandDownEffect
<1>2. \/ Refused(c, p) = c \/ Refused(c, p) = Chain(down, Reaction("fail"))
      \/ Refused(c, p) = Chain(free, Reaction("fail"))
      \/ Refused(c, p) = Chain(c, Reaction("fail"))
  BY DEF Refused
<1> HIDE DEF down
<1>3. DriverOk(free) /\ Follows(c, free)
  BY <1>1, FreeEffect, CoreEffect, FollowsTransitive
<1> HIDE DEF free
<1>4. Follows(c, c)
  BY SameChain DEF Follows, StaysReady, Hears
<1> QED BY <1>1, <1>2, <1>3, <1>4, ChainEffect, FollowsTransitive

\* Its input ends.
LEMMA BeginEndEffect ==
  ASSUME NEW c, DriverOk(c)
  PROVE  DriverOk(BeginEnd(c)) /\ Follows(c, BeginEnd(c))
<1> DEFINE e == [c EXCEPT !.closed = TRUE]
<1>1. DriverOk(e) /\ Follows(c, e)
  BY DriverTypes, FlagEffects, CoreEffect, Zenon
<1>2. BeginEnd(c) = e \/ BeginEnd(c) = Chain(e, Reaction("finish"))
  BY DEF BeginEnd
<1> HIDE DEF e
<1> QED BY <1>1, <1>2, ChainEffect, FollowsTransitive

-----------------------------------------------------------------------------
(* The inductive invariant                                                   *)

Frames == [kind : {"busy", "text", "idle", "ask"}, run : Nat]

\* Of a run's frames, those that have to do with its result.
Tells(f) == f.kind \in {"idle", "text"}

Results == [seq : Nat, text : Nat, gen : Nat, run : Nat]

\* Of the posts, the prompts: an abort has no place in the queue.
Asked(P) == {p \in P : p.kind # "abort"}

\* The runs that have ended.
Ended(s, runs) == IF s.running = 0 THEN Len(runs) ELSE Len(runs) - 1

\* The server runs the last run there is, or none.
ServerOk(s, runs) ==
  /\ s \in [up : BOOLEAN, running : Nat, queue : Seq(Nat), asking : BOOLEAN, asked : Nat,
            failures : Nat]
  /\ s.running = 0 \/ s.running = Len(runs)

\* An open stream has not failed too often.
ConnOk(s) ==
  /\ s \in [up : BOOLEAN, delivered : BOOLEAN, failures : Nat, closed : BOOLEAN, drops : Nat]
  /\ s.failures <= MAX_SSE_FAILURES /\ (s.up => ~s.closed)
  /\ ~s.closed => s.failures < MAX_SSE_FAILURES

StopsOk(f) ==
  f \in [0..MaxInterrupts -> [at : {"none", "asking", "syncing", "done"}, gen : Nat]]

PostsOk(P) ==
  P \subseteq [kind : {"prompt", "follow", "command", "abort"}, n : Nat, gen : Nat]

LogOk(l) ==
  l \in [runs : Seq(Nat), results : Seq(Results), wrote : SUBSET Nat, dry : Nat,
         odd : SUBSET {"stale", "early", "lost", "unheard", "orphan"}]

\* The stream tells of the m runs there have been in their order: that one of the first
\* z is idle once, and its text before.
WireOk(w, m, z) ==
  /\ w \in Seq(Frames)
  /\ \A i \in 1..Len(w) :
       w[i].run \in 1..m /\ (w[i].kind = "idle" => w[i].run <= z)
  /\ \A i, j \in 1..Len(w) : i < j =>
       /\ w[i].run <= w[j].run
       /\ w[i].kind = "idle" /\ Tells(w[j]) => w[i].run < w[j].run

\* Result r is of a later run than n, and so is its text.
Past(n, r) == n < r.run /\ (r.text # 0 => n < r.text)

\* The results that are out, then those owed, then what is still on the stream: each of
\* a later run than the one before, its text too and not after its run; and those out
\* are of one turn after the other.
TextsOk(c, w, z, res) ==
  /\ \A i \in Owed(c) : /\ c.chain[i].run \in 1..z /\ c.chain[i].text <= c.chain[i].run
                        /\ \A k \in 1..Len(w) : Tells(w[k]) => c.chain[i].run < w[k].run
  /\ \A i, j \in Owed(c) : i < j => Past(c.chain[i].run, c.chain[j])
  /\ \A k \in 1..Len(res) :
       /\ res[k].run \in 1..z /\ res[k].text <= res[k].run /\ res[k].seq <= c.emitted
       /\ c.sync = "result" => res[k].seq < c.emitted
       /\ \A i \in Owed(c) : Past(res[k].run, c.chain[i])
       /\ \A j \in 1..Len(w) : Tells(w[j]) => res[k].run < w[j].run
  /\ \A k, l \in 1..Len(res) : k < l =>
       res[k].seq < res[l].seq /\ Past(res[k].run, res[l])

\* What the driver heard last is not of a run the stream has yet to begin, and a live
\* turn's is of a later run than all the results.
HeardOk(c, w, m, res) ==
  /\ c.text <= m
  /\ \A j \in 1..Len(w) : c.text <= w[j].run
  /\ c.active /\ c.text # 0 => /\ \A i \in Owed(c) : c.chain[i].run < c.text
                               /\ \A k \in 1..Len(res) : res[k].run < c.text

\* What has run, what is queued, what is on its way, what will be sent: each was sent in
\* a generation not before the one ahead of it.
PlacesOk(c, P, q, runs) ==
  /\ \A i, j \in 1..Len(runs) : i <= j => runs[i] <= runs[j]
  /\ \A i \in 1..Len(runs) : /\ runs[i] <= c.gen
                             /\ \A j \in 1..Len(q) : runs[i] <= q[j]
                             /\ \A p \in Asked(P) : runs[i] <= p.gen
  /\ \A i, j \in 1..Len(q) : i <= j => q[i] <= q[j]
  /\ \A i \in 1..Len(q) : q[i] <= c.gen /\ \A p \in Asked(P) : q[i] <= p.gen
  /\ \A p, r \in Asked(P) : p.n <= r.n => p.gen <= r.gen
  /\ \A p \in Asked(P) : p.n <= c.said /\ p.gen <= c.gen

\* Nothing is under way of a prompt that was not sent in generation g.
Fresh(g, P, w, q, runs) ==
  /\ \A i \in 1..Len(w) : w[i].kind = "busy" => runs[w[i].run] = g
  /\ \A i \in 1..Len(q) : q[i] = g
  /\ \A p \in Asked(P) : p.gen = g

\* A driver that is ready for the server's next run, or will be by a result it owes,
\* has nothing withdrawn under way.
FreshOk(c, P, w, q, l) ==
  "stale" \notin l.odd =>
    ((Ready(c) \/ \E i \in Owed(c) : c.chain[i].gen = c.gen) => Fresh(c.gen, P, w, q, l.runs))

\* The inductive invariant, of what it depends on.
Holds(c, P, s, w, l) ==
  /\ DriverOk(c) /\ PostsOk(P) /\ ServerOk(s, l.runs) /\ LogOk(l)
  /\ WireOk(w, Len(l.runs), Ended(s, l.runs))
  /\ TextsOk(c, w, Ended(s, l.runs), l.results)
  /\ HeardOk(c, w, Len(l.runs), l.results)
  /\ PlacesOk(c, P, s.queue, l.runs)
  /\ FreshOk(c, P, w, s.queue, l)

IInv == Holds(d, posts, srv, wire, log) /\ StopsOk(stops) /\ ConnOk(conn)

-----------------------------------------------------------------------------
(* The driver moves on, and what is under way shrinks                        *)

\* What is left of v are members of u, in their order.
Within(u, v) ==
  \A i, j \in 1..Len(v) : \E a, b \in 1..Len(u) : v[i] = u[a] /\ v[j] = u[b] /\ (i <= j => a <= b)
                                                  /\ (i < j => a < b)

\* All of it, nothing of it, or all but the first.
LEMMA WithinCases ==
  ASSUME NEW S, NEW u \in Seq(S)
  PROVE  Within(u, u) /\ Within(u, <<>>) /\ (u # <<>> => Within(u, Tail(u)))
<1>1. Within(u, u) /\ Within(u, <<>>)
  BY DEF Within
<1>2. ASSUME u # <<>> PROVE Within(u, Tail(u))
  <2> DEFINE n == Len(u)
             v == Tail(u)
  <2>1. n \in Nat /\ n # 0 /\ Len(v) = n - 1 /\ \A i \in 1..(n - 1) : v[i] = u[i + 1]
    BY <1>2, EmptyByLength
  <2> HIDE DEF v, n
  <2>2. \A i \in 1..Len(v) : i \in Nat /\ i + 1 \in 1..n /\ v[i] = u[i + 1]
    BY <2>1
  <2>3. \A i, j \in Nat : (i < j => i + 1 < j + 1) /\ (i <= j => i + 1 <= j + 1)
    OBVIOUS
  <2>4. Within(u, v)
    BY <2>2, <2>3 DEF Within, n
  <2> QED BY <2>4 DEF v
<1> QED BY <1>1, <1>2

\* The texts keep their order.
LEMMA TextsKept ==
  ASSUME NEW c, NEW e, DriverOk(c), DriverOk(e), Keeps(c, e),
         NEW w \in Seq(Frames), NEW v \in Seq(Frames), Within(w, v),
         NEW z \in Int, NEW y \in Int, z <= y,
         NEW res \in Seq(Results), TextsOk(c, w, z, res)
  PROVE  TextsOk(e, v, y, res)
<1>1. \A i \in 1..z : i \in 1..y
  OBVIOUS
<1>2. \A i \in Owed(e) : \E a \in Owed(c) : e.chain[i] = c.chain[a]
  BY DEF Keeps, KeepsOwed
<1>3. \A k \in 1..Len(v) : \E b \in 1..Len(w) : v[k] = w[b]
  BY DEF Within
<1>4. \A i \in Owed(e) : /\ e.chain[i].run \in 1..y /\ e.chain[i].text <= e.chain[i].run
                         /\ \A k \in 1..Len(v) : Tells(v[k]) => e.chain[i].run < v[k].run
  <2> TAKE i \in Owed(e)
  <2>1. PICK a \in Owed(c) : e.chain[i] = c.chain[a]
    BY <1>2
  <2>2. /\ c.chain[a].run \in 1..z /\ c.chain[a].text <= c.chain[a].run
        /\ \A k \in 1..Len(w) : Tells(w[k]) => c.chain[a].run < w[k].run
    BY DEF TextsOk
  <2>3. \A k \in 1..Len(v) : Tells(v[k]) => c.chain[a].run < v[k].run
    BY <1>3, <2>2
  <2> QED BY <1>1, <2>1, <2>2, <2>3
<1>5. \A i, j \in Owed(e) : i < j => Past(e.chain[i].run, e.chain[j])
  <2> SUFFICES ASSUME NEW i \in Owed(e), NEW j \in Owed(e), i < j
               PROVE  Past(e.chain[i].run, e.chain[j])
    OBVIOUS
  <2>1. PICK a \in Owed(c), b \in Owed(c) :
          e.chain[i] = c.chain[a] /\ e.chain[j] = c.chain[b] /\ a < b
    BY DEF Keeps, KeepsOwed
  <2>2. Past(c.chain[a].run, c.chain[b])
    BY <2>1 DEF TextsOk
  <2> QED BY <2>1, <2>2
<1>6. ASSUME NEW k \in 1..Len(res)
      PROVE  /\ res[k].run \in 1..y /\ res[k].text <= res[k].run /\ res[k].seq <= e.emitted
             /\ e.sync = "result" => res[k].seq < e.emitted
             /\ \A i \in Owed(e) : Past(res[k].run, e.chain[i])
             /\ \A j \in 1..Len(v) : Tells(v[j]) => res[k].run < v[j].run
  <2>1. /\ res[k].run \in 1..z /\ res[k].text <= res[k].run /\ res[k].seq <= c.emitted
        /\ c.sync = "result" => res[k].seq < c.emitted
        /\ \A i \in Owed(c) : Past(res[k].run, c.chain[i])
        /\ \A j \in 1..Len(w) : Tells(w[j]) => res[k].run < w[j].run
    BY DEF TextsOk
  <2>2. c.emitted \in Nat /\ e.emitted \in Nat /\ res[k].seq \in Nat
    <3>1. res[k] \in Results
      BY ElementOf, Zenon
    <3>2. c.emitted \in Nat /\ e.emitted \in Nat
      BY DriverTypes
    <3> QED BY <3>1, <3>2 DEF Results
  <2>3. res[k].seq <= e.emitted /\ (e.sync = "result" => res[k].seq < e.emitted)
    <3> DEFINE x == res[k].seq
               a == c.emitted
               b == e.emitted
    <3>1. x \in Nat /\ a \in Nat /\ b \in Nat /\ x <= a /\ a <= b
      BY <2>1, <2>2 DEF Keeps
    <3>2. e.sync = "result" => a < b \/ x < b
      BY <2>1 DEF Keeps
    <3> HIDE DEF x, a, b
    <3>3. x <= b /\ (a < b => x < b)
      BY <3>1
    <3>4. x <= b /\ (e.sync = "result" => x < b)
      BY <3>2, <3>3
    <3> QED BY <3>4 DEF x, b
  <2>4. \A i \in Owed(e) : Past(res[k].run, e.chain[i])
    BY <1>2, <2>1
  <2>5. \A j \in 1..Len(v) : Tells(v[j]) => res[k].run < v[j].run
    BY <1>3, <2>1
  <2> QED BY <1>1, <2>1, <2>3, <2>4, <2>5
<1>7. \A k, l \in 1..Len(res) : k < l =>
        res[k].seq < res[l].seq /\ Past(res[k].run, res[l])
  BY DEF TextsOk
<1> QED BY <1>4, <1>5, <1>6, <1>7 DEF TextsOk

\* The driver has heard no more.
LEMMA HeardKept ==
  ASSUME NEW c, NEW e, DriverOk(c), Keeps(c, e), NEW w, NEW v, Within(w, v),
         NEW m \in Nat, NEW n \in Nat, m <= n, NEW z, WireOk(w, m, z),
         NEW res, HeardOk(c, w, m, res)
  PROVE  HeardOk(e, v, n, res)
<1>1. e.text = 0 \/ e.text = c.text
  BY DEF Keeps, Hears
<1>2. e.text <= n /\ \A j \in 1..Len(v) : e.text <= v[j].run
  <2>1. \A j \in 1..Len(v) : \E b \in 1..Len(w) : v[j] = w[b]
    BY DEF Within
  <2>2. \A b \in 1..Len(w) : w[b].run \in 1..m /\ 0 <= w[b].run /\ c.text <= w[b].run
    BY DEF WireOk, HeardOk
  <2>3. c.text \in Nat /\ c.text <= m
    BY DriverTypes DEF HeardOk
  <2>4. c.text <= n /\ 0 <= n
    BY <2>3
  <2> QED BY <1>1, <2>1, <2>2, <2>4
<1>3. ASSUME e.active, e.text # 0
      PROVE  /\ \A i \in Owed(e) : e.chain[i].run < e.text
             /\ \A k \in 1..Len(res) : res[k].run < e.text
  <2>1. c.active /\ e.text = c.text /\ c.text # 0
    BY <1>1, <1>3 DEF Keeps, Hears
  <2>2. \A i \in Owed(e) : \E a \in Owed(c) : e.chain[i] = c.chain[a]
    BY DEF Keeps, KeepsOwed
  <2> QED BY <2>1, <2>2 DEF HeardOk
<1> QED BY <1>2, <1>3 DEF HeardOk

\* The stream's frames keep theirs.
LEMMA WireKept ==
  ASSUME NEW w, NEW v \in Seq(Frames), Within(w, v), NEW m \in Nat, NEW n \in Nat, m <= n,
         NEW z \in Int, NEW y \in Int, z <= y, WireOk(w, m, z)
  PROVE  WireOk(v, n, y)
<1>1. w \in Seq(Frames)
  BY DEF WireOk
<1>2. ASSUME NEW i \in 1..Len(v)
      PROVE  v[i].run \in 1..n /\ (v[i].kind = "idle" => v[i].run <= y)
  <2>1. PICK a \in 1..Len(w) : v[i] = w[a]
    BY DEF Within
  <2>2. w[a].run \in 1..m /\ (w[a].kind = "idle" => w[a].run <= z)
    BY DEF WireOk
  <2> QED BY <2>1, <2>2
<1>3. \A i, j \in 1..Len(v) : i < j =>
        /\ v[i].run <= v[j].run
        /\ v[i].kind = "idle" /\ Tells(v[j]) => v[i].run < v[j].run
  <2> SUFFICES ASSUME NEW i \in 1..Len(v), NEW j \in 1..Len(v), i < j
               PROVE  /\ v[i].run <= v[j].run
                      /\ v[i].kind = "idle" /\ Tells(v[j]) => v[i].run < v[j].run
    OBVIOUS
  <2>1. PICK a \in 1..Len(w), b \in 1..Len(w) : v[i] = w[a] /\ v[j] = w[b] /\ (i < j => a < b)
    BY DEF Within
  <2>2. /\ w[a].run <= w[b].run
        /\ w[a].kind = "idle" /\ Tells(w[b]) => w[a].run < w[b].run
    BY <2>1 DEF WireOk
  <2> QED BY <2>1, <2>2
<1> QED BY <1>2, <1>3 DEF WireOk

\* The prompts keep their places.
LEMMA PlacesKept ==
  ASSUME NEW c, NEW e, c.gen \in Nat, e.gen \in Nat, c.said \in Nat, e.said \in Nat,
         c.gen <= e.gen, c.said <= e.said,
         NEW P, NEW R, PostsOk(P), Asked(R) \subseteq Asked(P),
         NEW q \in Seq(Nat), NEW r \in Seq(Nat), Within(q, r), NEW runs \in Seq(Nat),
         PlacesOk(c, P, q, runs)
  PROVE  PlacesOk(e, R, r, runs)
<1>1. \A g \in Nat : g <= c.gen => g <= e.gen
  OBVIOUS
<1>2. \A n \in Nat : n <= c.said => n <= e.said
  OBVIOUS
<1>3. \A p \in Asked(R) : p \in Asked(P) /\ p.n \in Nat /\ p.gen \in Nat
  BY DEF Asked, PostsOk
<1>4. \A i \in 1..Len(r) : r[i] \in Nat /\ \E a \in 1..Len(q) : r[i] = q[a]
  <2>1. \A i \in 1..Len(r) : \E a \in 1..Len(q) : r[i] = q[a]
    BY DEF Within
  <2> QED BY <2>1, ElementOf
<1>5. \A i \in 1..Len(runs) : runs[i] \in Nat
  OBVIOUS
<1>6. \A i, j \in 1..Len(runs) : i <= j => runs[i] <= runs[j]
  BY DEF PlacesOk
<1>7. \A i \in 1..Len(runs) : /\ runs[i] <= e.gen
                              /\ \A j \in 1..Len(r) : runs[i] <= r[j]
                              /\ \A p \in Asked(R) : runs[i] <= p.gen
  BY <1>1, <1>3, <1>4, <1>5 DEF PlacesOk
<1>8. \A i, j \in 1..Len(r) : i <= j => r[i] <= r[j]
  BY DEF PlacesOk, Within
<1>9. \A i \in 1..Len(r) : r[i] <= e.gen /\ \A p \in Asked(R) : r[i] <= p.gen
  BY <1>1, <1>3, <1>4 DEF PlacesOk
<1>10. \A p, s \in Asked(R) : p.n <= s.n => p.gen <= s.gen
  BY <1>3 DEF PlacesOk
<1>11. \A p \in Asked(R) : p.n <= e.said /\ p.gen <= e.gen
  BY <1>1, <1>2, <1>3 DEF PlacesOk
<1> QED BY <1>6, <1>7, <1>8, <1>9, <1>10, <1>11 DEF PlacesOk

\* Nothing withdrawn gets under way.
LEMMA FreshKept ==
  ASSUME NEW c, NEW e, KeepsOwed(c, e), StaysReady(c, e),
         NEW P, NEW R, Asked(R) \subseteq Asked(P),
         NEW w, NEW v, Within(w, v), NEW q, NEW r, Within(q, r),
         NEW l, NEW k, k.runs = l.runs, l.odd \subseteq k.odd, FreshOk(c, P, w, q, l)
  PROVE  FreshOk(e, R, v, r, k)
<1>1. ASSUME Fresh(c.gen, P, w, q, l.runs) PROVE Fresh(e.gen, R, v, r, k.runs)
  <2>1. \A i \in 1..Len(v) : \E a \in 1..Len(w) : v[i] = w[a]
    BY DEF Within
  <2>2. \A i \in 1..Len(r) : \E a \in 1..Len(q) : r[i] = q[a]
    BY DEF Within
  <2> QED BY <1>1, <2>1, <2>2 DEF Fresh, StaysReady
<1>2. (\E i \in Owed(e) : e.chain[i].gen = e.gen) => \E i \in Owed(c) : c.chain[i].gen = c.gen
  BY DEF KeepsOwed, StaysReady
<1> QED BY <1>1, <1>2 DEF FreshOk, StaysReady

\* How many runs have ended.
LEMMA EndedRange ==
  ASSUME NEW l, LogOk(l), NEW s, ServerOk(s, l.runs)
  PROVE  /\ Len(l.runs) \in Nat /\ Ended(s, l.runs) \in Int /\ Ended(s, l.runs) <= Len(l.runs)
         /\ s.queue \in Seq(Nat) /\ l.runs \in Seq(Nat)
         /\ l.results \in Seq(Results)
<1>1. l.runs \in Seq(Nat) /\ l.results \in Seq(Results)
  BY DEF LogOk
<1>2. Len(l.runs) \in Nat
  BY <1>1
<1>3. s.queue \in Seq(Nat)
  BY DEF ServerOk
<1> QED BY <1>1, <1>2, <1>3 DEF Ended

\* The driver moves on, posts and what is queued are dropped, the server ends its run
\* unheard, frames are read or lost.
LEMMA Moves ==
  ASSUME NEW c, NEW P, NEW s, NEW w, NEW l, Holds(c, P, s, w, l),
         NEW e, DriverOk(e), Keeps(c, e), StaysReady(c, e), e.said = c.said,
         NEW R, R \subseteq P,
         NEW t, ServerOk(t, l.runs), t.running = s.running \/ t.running = 0,
         Within(s.queue, t.queue),
         NEW v \in Seq(Frames), Within(w, v),
         NEW k, LogOk(k), k.runs = l.runs, k.results = l.results, l.odd \subseteq k.odd
  PROVE  Holds(e, R, t, v, k)
<1> DEFINE m == Len(l.runs)
           z == Ended(s, l.runs)
           y == Ended(t, l.runs)
<1>1. /\ DriverOk(c) /\ PostsOk(P) /\ ServerOk(s, l.runs) /\ LogOk(l)
      /\ WireOk(w, m, z) /\ TextsOk(c, w, z, l.results) /\ HeardOk(c, w, m, l.results)
      /\ PlacesOk(c, P, s.queue, l.runs) /\ FreshOk(c, P, w, s.queue, l)
  BY DEF Holds
<1>2. m \in Nat /\ z \in Int /\ y \in Int /\ z <= y /\ m <= m
  BY <1>1, EndedRange DEF Ended
<1>3. /\ l.runs \in Seq(Nat) /\ s.queue \in Seq(Nat) /\ t.queue \in Seq(Nat)
      /\ l.results \in Seq(Results) /\ w \in Seq(Frames)
  BY <1>1, EndedRange DEF WireOk
<1> HIDE DEF m, z, y
<1>4. WireOk(v, m, y)
  BY <1>1, <1>2, WireKept
<1>5. TextsOk(e, v, y, l.results)
  BY <1>1, <1>2, <1>3, TextsKept
<1>6. Asked(R) \subseteq Asked(P) /\ PostsOk(R)
  BY <1>1 DEF Asked, PostsOk
<1>7. PlacesOk(e, R, t.queue, l.runs)
  <2>1. /\ c.gen \in Nat /\ e.gen \in Nat /\ c.said \in Nat /\ e.said \in Nat
        /\ c.gen <= e.gen /\ c.said <= e.said
    BY <1>1, DriverTypes DEF StaysReady
  <2> QED BY <1>1, <1>3, <1>6, <2>1, PlacesKept
<1>8. FreshOk(e, R, v, t.queue, k)
  <2>1. KeepsOwed(c, e)
    BY DEF Keeps
  <2> QED BY <1>1, <1>6, <2>1, FreshKept
<1>9. HeardOk(e, v, m, l.results)
  BY <1>1, <1>2, HeardKept
<1> QED BY <1>4, <1>5, <1>6, <1>7, <1>8, <1>9 DEF Holds, m, y

\* Only the driver moves on.
LEMMA DriverMoves ==
  ASSUME NEW c, NEW P, NEW s, NEW w, NEW l, Holds(c, P, s, w, l),
         NEW e, DriverOk(e), Follows(c, e)
  PROVE  Holds(e, P, s, w, l)
<1>1. /\ ServerOk(s, l.runs) /\ LogOk(l) /\ w \in Seq(Frames)
  BY DEF Holds, WireOk
<1>2. Within(s.queue, s.queue) /\ Within(w, w)
  BY <1>1, EndedRange, WithinCases
<1> QED BY <1>1, <1>2, Moves DEF Follows

-----------------------------------------------------------------------------
(* People and the daemon                                                     *)

\* A message is sent.
LEMMA Sends ==
  ASSUME NEW c, NEW P, NEW s, NEW w, NEW l, Holds(c, P, s, w, l),
         NEW e, DriverOk(e), Keeps(c, e), StaysReady(c, e), e.said = c.said + 1,
         NEW k \in {"prompt", "follow", "command"}
  PROVE  Holds(e, P \union {Post(k, c.said + 1, c.gen)}, s, w, l)
<1> DEFINE p == Post(k, c.said + 1, c.gen)
           R == P \union {p}
           z == Ended(s, l.runs)
<1>1. /\ DriverOk(c) /\ PostsOk(P) /\ ServerOk(s, l.runs) /\ LogOk(l)
      /\ WireOk(w, Len(l.runs), z) /\ TextsOk(c, w, z, l.results)
      /\ HeardOk(c, w, Len(l.runs), l.results)
      /\ PlacesOk(c, P, s.queue, l.runs) /\ FreshOk(c, P, w, s.queue, l)
  BY DEF Holds
<1>2. /\ l.runs \in Seq(Nat) /\ s.queue \in Seq(Nat) /\ z \in Int /\ z <= z
      /\ l.results \in Seq(Results) /\ w \in Seq(Frames)
      /\ Within(w, w) /\ Within(s.queue, s.queue)
  BY <1>1, EndedRange, WithinCases DEF WireOk
<1>3. c.gen \in Nat /\ c.said \in Nat /\ e.gen = c.gen
  BY <1>1, DriverTypes DEF StaysReady
<1>4. p.kind = k /\ p.n = c.said + 1 /\ p.gen = c.gen
  BY DEF Post
<1>5. p \in [kind : {"prompt", "follow", "command", "abort"}, n : Nat, gen : Nat]
  BY <1>3 DEF Post
<1> HIDE DEF p, z
<1>6. PostsOk(R) /\ Asked(R) = Asked(P) \union {p}
  BY <1>1, <1>4, <1>5 DEF PostsOk, Asked
<1>7. TextsOk(e, w, z, l.results)
  BY <1>1, <1>2, TextsKept
<1>8. PlacesOk(e, R, s.queue, l.runs)
  <2>1. c.gen <= e.gen /\ c.said <= e.said /\ e.gen \in Nat /\ e.said \in Nat
    BY <1>3
  <2>2. PlacesOk(e, P, s.queue, l.runs)
    BY <1>1, <1>2, <1>3, <2>1, PlacesKept
  <2>3. \A r \in Asked(P) : r.n \in Nat /\ r.n <= c.said /\ r.gen <= c.gen /\ r.gen \in Nat
    BY <1>1 DEF PlacesOk, PostsOk, Asked
  <2>4. \A r \in Asked(P) : ~(p.n <= r.n) /\ r.gen <= p.gen
    BY <1>3, <1>4, <2>3
  <2>5. p.n <= e.said /\ p.gen <= e.gen /\ p.gen <= p.gen
    BY <1>3, <1>4
  <2>6. \A i \in 1..Len(l.runs) : /\ l.runs[i] <= e.gen
                                  /\ \A j \in 1..Len(s.queue) : l.runs[i] <= s.queue[j]
                                  /\ \A r \in Asked(R) : l.runs[i] <= r.gen
    BY <1>3, <1>4, <1>6, <2>2 DEF PlacesOk
  <2>7. \A i \in 1..Len(s.queue) : s.queue[i] <= e.gen
                                   /\ \A r \in Asked(R) : s.queue[i] <= r.gen
    BY <1>3, <1>4, <1>6, <2>2 DEF PlacesOk
  <2>8. \A r, x \in Asked(R) : r.n <= x.n => r.gen <= x.gen
    BY <1>6, <2>2, <2>4, <2>5 DEF PlacesOk
  <2>9. \A r \in Asked(R) : r.n <= e.said /\ r.gen <= e.gen
    BY <1>6, <2>2, <2>5 DEF PlacesOk
  <2> QED BY <2>2, <2>6, <2>7, <2>8, <2>9 DEF PlacesOk
<1>9. FreshOk(e, R, w, s.queue, l)
  <2>1. FreshOk(e, P, w, s.queue, l)
    <3>1. KeepsOwed(c, e) /\ l.odd \subseteq l.odd /\ Asked(P) \subseteq Asked(P)
      BY DEF Keeps
    <3> QED BY <1>1, <1>2, <3>1, FreshKept
  <2> QED BY <1>3, <1>4, <1>6, <2>1 DEF FreshOk, Fresh
<1>10. HeardOk(e, w, Len(l.runs), l.results)
  <2>1. Len(l.runs) \in Nat /\ Len(l.runs) <= Len(l.runs)
    BY <1>1, EndedRange
  <2> QED BY <1>1, <1>2, <2>1, HeardKept
<1> QED BY <1>1, <1>6, <1>7, <1>8, <1>9, <1>10 DEF Holds, p, z

\* What was sent is withdrawn.
LEMMA Withdraws ==
  ASSUME NEW c, NEW P, NEW s, NEW w, NEW l, Holds(c, P, s, w, l),
         NEW e, DriverOk(e), Keeps(c, e), ~Ready(e), \A i \in Owed(e) : e.chain[i].gen # e.gen,
         c.gen <= e.gen, e.said = c.said,
         NEW R, PostsOk(R), Asked(R) \subseteq Asked(P),
         NEW t, ServerOk(t, l.runs), t.running = s.running, t.queue = s.queue
  PROVE  Holds(e, R, t, w, l)
<1> DEFINE z == Ended(s, l.runs)
<1>1. /\ DriverOk(c) /\ PostsOk(P) /\ ServerOk(s, l.runs) /\ LogOk(l)
      /\ WireOk(w, Len(l.runs), z) /\ TextsOk(c, w, z, l.results)
      /\ HeardOk(c, w, Len(l.runs), l.results)
      /\ PlacesOk(c, P, s.queue, l.runs) /\ FreshOk(c, P, w, s.queue, l)
  BY DEF Holds
<1>2. /\ l.runs \in Seq(Nat) /\ s.queue \in Seq(Nat) /\ z \in Int /\ z <= z
      /\ l.results \in Seq(Results) /\ w \in Seq(Frames)
      /\ Within(w, w) /\ Within(s.queue, s.queue)
  BY <1>1, EndedRange, WithinCases DEF WireOk
<1>3. c.gen \in Nat /\ c.said \in Nat /\ e.gen \in Nat /\ c.said <= e.said /\ e.said \in Nat
  BY <1>1, DriverTypes
<1>4. Ended(t, l.runs) = z
  BY DEF Ended
<1> HIDE DEF z
<1>5. TextsOk(e, w, z, l.results)
  BY <1>1, <1>2, TextsKept
<1>6. PlacesOk(e, R, s.queue, l.runs)
  BY <1>1, <1>2, <1>3, PlacesKept
<1>7. FreshOk(e, R, w, s.queue, l)
  BY DEF FreshOk
<1>8. HeardOk(e, w, Len(l.runs), l.results)
  <2>1. Len(l.runs) \in Nat /\ Len(l.runs) <= Len(l.runs)
    BY <1>1, EndedRange
  <2> QED BY <1>1, <1>2, <2>1, HeardKept
<1> QED BY <1>1, <1>4, <1>5, <1>6, <1>7, <1>8 DEF Holds

-----------------------------------------------------------------------------
(* The server                                                                *)

\* One more in a sequence.
LEMMA AppendAt ==
  ASSUME NEW S, NEW q \in Seq(S), NEW x \in S
  PROVE  /\ Append(q, x) \in Seq(S) /\ Len(Append(q, x)) = Len(q) + 1 /\ Len(q) \in Nat
         /\ Append(q, x)[Len(q) + 1] = x /\ \A i \in 1..Len(q) : Append(q, x)[i] = q[i]
         /\ \A i \in 1..(Len(q) + 1) : i \in 1..Len(q) \/ i = Len(q) + 1
  OBVIOUS

\* A frame joins the stream, of the last run there is, or of a new one.
LEMMA WireGrows ==
  ASSUME NEW w, NEW m \in Nat, NEW z \in Int, WireOk(w, m, z), NEW f \in Frames,
         NEW n \in Nat, m <= n, NEW y \in Int, z <= y,
         m <= f.run, f.run \in 1..n, Tells(f) => z < f.run, f.kind = "idle" => f.run <= y
  PROVE  WireOk(Append(w, f), n, y)
<1> DEFINE v == Append(w, f)
           h == Len(w)
<1>1. w \in Seq(Frames)
  BY DEF WireOk
<1>2. /\ v \in Seq(Frames) /\ Len(v) = h + 1 /\ h \in Nat /\ v[h + 1] = f
      /\ \A i \in 1..h : v[i] = w[i]
      /\ \A i \in 1..(h + 1) : i \in 1..h \/ i = h + 1
  BY <1>1, AppendAt
<1>3. \A i \in 1..h : /\ w[i].run \in 1..m /\ w[i].run \in Nat
                      /\ w[i].kind = "idle" => w[i].run <= z
  BY <1>1 DEF WireOk
<1>4. \A i, j \in 1..h : i < j =>
        /\ w[i].run <= w[j].run
        /\ w[i].kind = "idle" /\ Tells(w[j]) => w[i].run < w[j].run
  BY DEF WireOk
<1> HIDE DEF v, h
<1>5. \A i \in 1..Len(v) : v[i].run \in 1..n /\ (v[i].kind = "idle" => v[i].run <= y)
  <2> SUFFICES ASSUME NEW i \in 1..(h + 1)
               PROVE  v[i].run \in 1..n /\ (v[i].kind = "idle" => v[i].run <= y)
    BY <1>2
  <2>1. CASE i \in 1..h
    <3>1. w[i].run \in 1..m /\ (w[i].kind = "idle" => w[i].run <= z)
      BY <1>3, <2>1
    <3>2. w[i].run \in 1..n /\ (w[i].kind = "idle" => w[i].run <= y)
      BY <3>1
    <3> QED BY <1>2, <2>1, <3>2
  <2>2. CASE i = h + 1
    BY <1>2, <2>2
  <2> QED BY <1>2, <2>1, <2>2
<1>6. ASSUME NEW i \in 1..Len(v), NEW j \in 1..Len(v), i < j
      PROVE  /\ v[i].run <= v[j].run
             /\ v[i].kind = "idle" /\ Tells(v[j]) => v[i].run < v[j].run
  <2>1. i \in 1..h
    BY <1>2, <1>6
  <2>2. CASE j \in 1..h
    BY <1>2, <1>4, <1>6, <2>1, <2>2
  <2>3. CASE j = h + 1
    <3>1. w[i].run \in 1..m /\ (w[i].kind = "idle" => w[i].run <= z)
      BY <1>3, <2>1
    <3>2. v[i] = w[i] /\ v[j] = f
      BY <1>2, <2>1, <2>3
    <3>3. w[i].run <= f.run
      BY <3>1
    <3>4. w[i].kind = "idle" /\ Tells(f) => w[i].run < f.run
      BY <3>1
    <3> QED BY <3>2, <3>3, <3>4
  <2> QED BY <1>2, <2>2, <2>3
<1> QED BY <1>2, <1>5, <1>6 DEF WireOk, v

\* No result is of a run the stream tells of only now.
LEMMA TextsGrow ==
  ASSUME NEW c, NEW w \in Seq(Frames), NEW z \in Int, NEW res \in Seq(Results),
         TextsOk(c, w, z, res), NEW f \in Frames, NEW y \in Int, z <= y,
         Tells(f) => z < f.run
  PROVE  TextsOk(c, Append(w, f), y, res)
<1> DEFINE v == Append(w, f)
           h == Len(w)
<1>1. /\ v \in Seq(Frames) /\ Len(v) = h + 1 /\ h \in Nat /\ v[h + 1] = f
      /\ \A i \in 1..h : v[i] = w[i]
      /\ \A i \in 1..(h + 1) : i \in 1..h \/ i = h + 1
  BY AppendAt
<1>2. \A n \in 1..z : n \in 1..y /\ (Tells(f) => n < f.run)
  BY DEF Frames
<1> HIDE DEF v, h
<1>3. \A n \in 1..z : (\A k \in 1..h : Tells(w[k]) => n < w[k].run)
                       => \A k \in 1..Len(v) : Tells(v[k]) => n < v[k].run
  BY <1>1, <1>2
<1>4. \A i \in Owed(c) : /\ c.chain[i].run \in 1..y /\ c.chain[i].text <= c.chain[i].run
                         /\ \A k \in 1..Len(v) : Tells(v[k]) => c.chain[i].run < v[k].run
  BY <1>2, <1>3 DEF TextsOk, h
<1>5. \A k \in 1..Len(res) :
        /\ res[k].run \in 1..y /\ res[k].text <= res[k].run
        /\ \A j \in 1..Len(v) : Tells(v[j]) => res[k].run < v[j].run
  BY <1>2, <1>3 DEF TextsOk, h
<1>6. \A k \in 1..Len(res) :
       /\ res[k].seq <= c.emitted
       /\ c.sync = "result" => res[k].seq < c.emitted
       /\ \A i \in Owed(c) : Past(res[k].run, c.chain[i])
  BY DEF TextsOk
<1>7. /\ \A i, j \in Owed(c) : i < j => Past(c.chain[i].run, c.chain[j])
      /\ \A k, l \in 1..Len(res) : k < l =>
           res[k].seq < res[l].seq /\ Past(res[k].run, res[l])
  BY DEF TextsOk
<1> QED BY <1>4, <1>5, <1>6, <1>7 DEF TextsOk, v

\* What was heard is not after a frame of the last run, or of a new one.
LEMMA HeardGrows ==
  ASSUME NEW c, DriverOk(c), NEW w \in Seq(Frames), NEW m \in Nat, NEW res,
         HeardOk(c, w, m, res), NEW f \in Frames, m <= f.run, NEW n \in Nat, m <= n
  PROVE  HeardOk(c, Append(w, f), n, res) /\ HeardOk(c, w, n, res)
<1> DEFINE v == Append(w, f)
           h == Len(w)
<1>1. /\ Len(v) = h + 1 /\ v[h + 1] = f /\ \A i \in 1..h : v[i] = w[i]
      /\ \A i \in 1..(h + 1) : i \in 1..h \/ i = h + 1
  BY AppendAt
<1>2. c.text \in Nat /\ c.text <= m /\ f.run \in Nat
  BY DriverTypes DEF HeardOk, Frames
<1>3. c.text <= n /\ c.text <= f.run
  BY <1>2
<1> HIDE DEF v, h
<1>4. \A j \in 1..Len(v) : c.text <= v[j].run
  BY <1>1, <1>3 DEF HeardOk, h
<1> QED BY <1>3, <1>4 DEF HeardOk, v

\* A later bound on the runs that have ended.
LEMMA TextsBound ==
  ASSUME NEW c, NEW w, NEW z \in Int, NEW res, TextsOk(c, w, z, res), NEW y \in Int, z <= y
  PROVE  TextsOk(c, w, y, res)
<1>1. \A n \in 1..z : n \in 1..y
  OBVIOUS
<1> QED BY <1>1 DEF TextsOk

\* The run that is going on asks a person, or writes.
LEMMA SaysHolds ==
  ASSUME NEW c, NEW P, NEW s, NEW w, NEW l, Holds(c, P, s, w, l), s.running # 0,
         NEW t, ServerOk(t, l.runs), t.running = s.running, t.queue = s.queue,
         NEW x \in {"ask", "text"}, NEW v, v = w \/ v = Append(w, Frame(x, s.running)),
         NEW k, LogOk(k), k.runs = l.runs, k.results = l.results, l.odd \subseteq k.odd
  PROVE  Holds(c, P, t, v, k)
<1> DEFINE m == Len(l.runs)
           z == Ended(s, l.runs)
           f == Frame(x, s.running)
<1>1. /\ DriverOk(c) /\ PostsOk(P) /\ ServerOk(s, l.runs) /\ LogOk(l)
      /\ WireOk(w, m, z) /\ TextsOk(c, w, z, l.results) /\ HeardOk(c, w, m, l.results)
      /\ PlacesOk(c, P, s.queue, l.runs) /\ FreshOk(c, P, w, s.queue, l)
  BY DEF Holds
<1>2. /\ m \in Nat /\ z \in Int /\ w \in Seq(Frames) /\ s.running = m /\ m # 0 /\ z <= z /\ m <= m
      /\ z < m /\ l.results \in Seq(Results)
  BY <1>1, EndedRange DEF WireOk, ServerOk, Ended
<1>3. /\ f \in Frames /\ f.kind = x /\ f.kind \notin {"idle", "busy"}
      /\ f.run = m /\ f.run \in 1..m /\ m <= f.run
  BY <1>2 DEF Frames, Frame
<1>4. Ended(t, l.runs) = z
  BY DEF Ended
<1> HIDE DEF m, z, f
<1>5. WireOk(v, m, z)
  BY <1>1, <1>2, <1>3, WireGrows DEF f
<1>6. TextsOk(c, v, z, l.results)
  BY <1>1, <1>2, <1>3, TextsGrow DEF f
<1>7. FreshOk(c, P, v, s.queue, k)
  <2>1. CASE v = w
    BY <1>1, <2>1 DEF FreshOk
  <2>2. CASE v = Append(w, f)
    <3>1. \A i \in 1..Len(v) : v[i] = f \/ (i \in 1..Len(w) /\ v[i] = w[i])
      BY <1>2, <1>3, <2>2, AppendAt
    <3>2. \A g : Fresh(g, P, w, s.queue, l.runs) => Fresh(g, P, v, s.queue, l.runs)
      BY <1>3, <3>1 DEF Fresh
    <3> QED BY <1>1, <3>2 DEF FreshOk
  <2> QED BY <2>1, <2>2 DEF f
<1>8. HeardOk(c, v, m, l.results)
  BY <1>1, <1>2, <1>3, HeardGrows DEF f
<1> QED BY <1>1, <1>4, <1>5, <1>6, <1>7, <1>8 DEF Holds, m

\* The run that is going on ends.
LEMMA RunEnds ==
  ASSUME NEW c, NEW P, NEW s, NEW w, NEW l, Holds(c, P, s, w, l), s.running # 0,
         NEW v, v = w \/ v = Append(w, Frame("idle", s.running)),
         NEW k, LogOk(k), k.runs = l.runs, k.results = l.results, l.odd \subseteq k.odd
  PROVE  Holds(c, P, [s EXCEPT !.running = 0], v, k)
<1> DEFINE m == Len(l.runs)
           z == Ended(s, l.runs)
           f == Frame("idle", s.running)
           t == [s EXCEPT !.running = 0]
<1>1. /\ DriverOk(c) /\ PostsOk(P) /\ ServerOk(s, l.runs) /\ LogOk(l)
      /\ WireOk(w, m, z) /\ TextsOk(c, w, z, l.results) /\ HeardOk(c, w, m, l.results)
      /\ PlacesOk(c, P, s.queue, l.runs) /\ FreshOk(c, P, w, s.queue, l)
  BY DEF Holds
<1>2. /\ m \in Nat /\ z \in Int /\ w \in Seq(Frames) /\ s.running = m /\ m # 0 /\ m <= m
      /\ z = m - 1 /\ z <= m /\ z < m
      /\ l.results \in Seq(Results)
  BY <1>1, EndedRange DEF WireOk, ServerOk, Ended
<1>3. f \in Frames /\ f.kind = "idle" /\ f.run = m /\ f.run \in 1..m /\ m <= f.run
  BY <1>2 DEF Frames, Frame
<1>4. t.running = 0 /\ t.queue = s.queue /\ ServerOk(t, l.runs)
  BY <1>1 DEF ServerOk
<1> HIDE DEF t
<1>5. Ended(t, l.runs) = m
  BY <1>4 DEF Ended
<1> HIDE DEF m, z, f
<1>6. WireOk(v, m, m)
  <2>1. Within(w, w)
    BY <1>2, WithinCases
  <2>2. WireOk(w, m, m)
    BY <1>1, <1>2, <2>1, WireKept
  <2>3. WireOk(Append(w, f), m, m)
    BY <1>1, <1>2, <1>3, WireGrows
  <2> QED BY <2>2, <2>3 DEF f
<1>7. TextsOk(c, v, m, l.results)
  <2>1. TextsOk(c, w, m, l.results)
    BY <1>1, <1>2, TextsBound
  <2>2. TextsOk(c, Append(w, f), m, l.results)
    BY <1>1, <1>2, <1>3, TextsGrow
  <2> QED BY <2>1, <2>2 DEF f
<1>8. FreshOk(c, P, v, s.queue, k)
  <2>1. CASE v = w
    BY <1>1, <2>1 DEF FreshOk
  <2>2. CASE v = Append(w, f)
    <3>1. \A i \in 1..Len(v) : v[i] = f \/ (i \in 1..Len(w) /\ v[i] = w[i])
      BY <1>2, <1>3, <2>2, AppendAt
    <3>2. \A g : Fresh(g, P, w, s.queue, l.runs) => Fresh(g, P, v, s.queue, l.runs)
      BY <1>3, <3>1 DEF Fresh
    <3> QED BY <1>1, <3>2 DEF FreshOk
  <2> QED BY <2>1, <2>2 DEF f
<1>9. HeardOk(c, v, m, l.results)
  BY <1>1, <1>2, <1>3, HeardGrows DEF f
<1> QED BY <1>1, <1>4, <1>5, <1>6, <1>7, <1>8, <1>9 DEF Holds, m, t

\* The next of the queued prompts runs.
LEMMA RunBegins ==
  ASSUME NEW c, NEW P, NEW s, NEW w, NEW l, Holds(c, P, s, w, l), s.running = 0, s.queue # <<>>,
         NEW v, v = w \/ v = Append(w, Frame("busy", Len(l.runs) + 1)),
         NEW k, LogOk(k), k.runs = Append(l.runs, Head(s.queue)), k.results = l.results,
         l.odd \subseteq k.odd
  PROVE  Holds(c, P, [s EXCEPT !.running = Len(l.runs) + 1, !.queue = Tail(@)], v, k)
<1> DEFINE m == Len(l.runs)
           q == s.queue
           r == Tail(q)
           n == m + 1
           f == Frame("busy", n)
           t == [s EXCEPT !.running = n, !.queue = r]
           h == Head(q)
           runs == Append(l.runs, h)
<1>1. /\ DriverOk(c) /\ PostsOk(P) /\ ServerOk(s, l.runs) /\ LogOk(l)
      /\ WireOk(w, m, m) /\ TextsOk(c, w, m, l.results) /\ HeardOk(c, w, m, l.results)
      /\ PlacesOk(c, P, q, l.runs) /\ FreshOk(c, P, w, q, l)
  BY DEF Holds, Ended
<1>2. /\ m \in Nat /\ w \in Seq(Frames) /\ q \in Seq(Nat) /\ l.runs \in Seq(Nat)
      /\ l.results \in Seq(Results)
  BY <1>1, EndedRange DEF WireOk
<1>3. /\ Len(q) \in Nat /\ 1 \in 1..Len(q) /\ r \in Seq(Nat) /\ h = q[1] /\ h \in Nat
      /\ Len(r) = Len(q) - 1
      /\ \A i \in 1..Len(r) : i + 1 \in 1..Len(q) /\ r[i] = q[i + 1] /\ 1 <= i + 1
  <2>1. Len(q) \in Nat /\ Len(q) # 0 /\ q # <<>>
    BY <1>2, EmptyByLength
  <2>2. 1 \in 1..Len(q)
    BY <2>1
  <2>3. h = q[1] /\ h \in Nat
    BY <1>2, <2>1, <2>2
  <2>4. r \in Seq(Nat) /\ Len(r) = Len(q) - 1 /\ \A i \in 1..Len(r) : r[i] = q[i + 1]
    BY <1>2, <2>1
  <2>5. \A i \in 1..Len(r) : i + 1 \in 1..Len(q) /\ 1 <= i + 1
    BY <2>1, <2>4
  <2> QED BY <2>1, <2>2, <2>3, <2>4, <2>5
<1>4. /\ runs \in Seq(Nat) /\ Len(runs) = n /\ runs[n] = h /\ n \in Nat
      /\ \A i \in 1..m : runs[i] = l.runs[i]
      /\ \A i \in 1..n : i \in 1..m \/ i = n
  BY <1>2, <1>3, AppendAt
<1>5. m <= n /\ n # 0 /\ n - 1 = m /\ m <= m /\ m \in Int /\ n \in 1..n
  BY <1>2
<1>6. f \in Frames /\ f.kind = "busy" /\ f.run = n
  BY <1>4 DEF Frames, Frame
<1>7. t.running = n /\ t.queue = r /\ ServerOk(t, runs)
  <2> HIDE DEF n, r, runs, m
  <2> QED BY <1>1, <1>3, <1>4 DEF ServerOk
<1> HIDE DEF t, h, runs
<1>8. Ended(t, runs) = m
  BY <1>4, <1>5, <1>7 DEF Ended
<1> HIDE DEF m, n, f, r
<1>9. WireOk(v, n, m)
  <2>1. Within(w, w)
    BY <1>2, WithinCases
  <2>2. WireOk(w, n, m)
    BY <1>1, <1>2, <1>4, <1>5, <2>1, WireKept
  <2>3. m <= f.run /\ f.run \in 1..n /\ ~Tells(f) /\ f.kind # "idle"
    BY <1>5, <1>6 DEF Tells
  <2>4. WireOk(Append(w, f), n, m)
    BY <1>1, <1>2, <1>4, <1>5, <1>6, <2>3, WireGrows
  <2> QED BY <2>2, <2>4 DEF f, n, m
<1>10. TextsOk(c, v, m, l.results)
  <2>1. TextsOk(c, Append(w, f), m, l.results)
    BY <1>1, <1>2, <1>5, <1>6, TextsGrow DEF Tells
  <2> QED BY <1>1, <2>1 DEF f, n, m
<1>11. PlacesOk(c, P, r, runs)
  <2>1. /\ \A i, j \in 1..m : i <= j => l.runs[i] <= l.runs[j]
        /\ \A i \in 1..m : /\ l.runs[i] <= c.gen
                           /\ \A j \in 1..Len(q) : l.runs[i] <= q[j]
                           /\ \A p \in Asked(P) : l.runs[i] <= p.gen
        /\ \A i, j \in 1..Len(q) : i <= j => q[i] <= q[j]
        /\ \A i \in 1..Len(q) : q[i] <= c.gen /\ \A p \in Asked(P) : q[i] <= p.gen
        /\ \A p, x \in Asked(P) : p.n <= x.n => p.gen <= x.gen
        /\ \A p \in Asked(P) : p.n <= c.said /\ p.gen <= c.gen
    BY <1>1 DEF PlacesOk, m
  <2>2. \A i, j \in 1..Len(runs) : i <= j => runs[i] <= runs[j]
    <3> SUFFICES ASSUME NEW i \in 1..n, NEW j \in 1..n, i <= j PROVE runs[i] <= runs[j]
      BY <1>4
    <3>1. CASE j \in 1..m
      <4>1. i \in 1..m
        BY <1>2, <3>1
      <4> QED BY <1>4, <2>1, <3>1, <4>1
    <3>2. CASE j = n /\ i = n
      BY <1>3, <1>4, <3>2
    <3>3. CASE j = n /\ i \in 1..m
      BY <1>3, <1>4, <2>1, <3>3
    <3> QED BY <1>4, <3>1, <3>2, <3>3
  <2>3. \A i \in 1..Len(runs) : /\ runs[i] <= c.gen
                                /\ \A j \in 1..Len(r) : runs[i] <= r[j]
                                /\ \A p \in Asked(P) : runs[i] <= p.gen
    <3> SUFFICES ASSUME NEW i \in 1..n
                 PROVE  /\ runs[i] <= c.gen
                        /\ \A j \in 1..Len(r) : runs[i] <= r[j]
                        /\ \A p \in Asked(P) : runs[i] <= p.gen
      BY <1>4
    <3>1. CASE i \in 1..m
      BY <1>3, <1>4, <2>1, <3>1
    <3>2. CASE i = n
      BY <1>3, <1>4, <2>1, <3>2
    <3> QED BY <1>4, <3>1, <3>2
  <2>4. \A i, j \in 1..Len(r) : i <= j => r[i] <= r[j]
    <3> SUFFICES ASSUME NEW i \in 1..Len(r), NEW j \in 1..Len(r), i <= j PROVE r[i] <= r[j]
      OBVIOUS
    <3>1. i + 1 <= j + 1
      OBVIOUS
    <3> QED BY <1>3, <2>1, <3>1
  <2>5. \A i \in 1..Len(r) : r[i] <= c.gen /\ \A p \in Asked(P) : r[i] <= p.gen
    BY <1>3, <2>1
  <2> QED BY <2>1, <2>2, <2>3, <2>4, <2>5 DEF PlacesOk
<1>12. FreshOk(c, P, v, r, k)
  <2> SUFFICES ASSUME Fresh(c.gen, P, w, q, l.runs) PROVE Fresh(c.gen, P, v, r, runs)
    BY <1>1 DEF FreshOk, runs, h
  <2>1. \A i \in 1..Len(v) : v[i] = f \/ (i \in 1..Len(w) /\ v[i] = w[i])
    <3>1. \A i \in 1..Len(Append(w, f)) :
            \/ Append(w, f)[i] = f
            \/ i \in 1..Len(w) /\ Append(w, f)[i] = w[i]
      BY <1>2, <1>6, AppendAt
    <3> QED BY <3>1 DEF f, n, m
  <2>2. \A i \in 1..Len(w) : w[i].run \in 1..m
    BY <1>1 DEF WireOk
  <2>3. \A i \in 1..Len(v) : v[i].kind = "busy" => runs[v[i].run] = c.gen
    <3> SUFFICES ASSUME NEW i \in 1..Len(v), v[i].kind = "busy" PROVE runs[v[i].run] = c.gen
      OBVIOUS
    <3>1. CASE v[i] = f
      BY <1>3, <1>4, <1>6, <3>1 DEF Fresh
    <3>2. CASE i \in 1..Len(w) /\ v[i] = w[i]
      <4>1. l.runs[w[i].run] = c.gen
        BY <3>2 DEF Fresh
      <4> QED BY <1>4, <2>2, <3>2, <4>1
    <3> QED BY <2>1, <3>1, <3>2
  <2>4. \A i \in 1..Len(r) : r[i] = c.gen
    BY <1>3 DEF Fresh
  <2> QED BY <2>3, <2>4 DEF Fresh
<1>13. HeardOk(c, v, n, l.results)
  <2>1. HeardOk(c, Append(w, f), n, l.results) /\ HeardOk(c, w, n, l.results)
    BY <1>1, <1>2, <1>4, <1>5, <1>6, HeardGrows
  <2> QED BY <2>1 DEF f, n, m
<1>14. Holds(c, P, t, v, k)
  BY <1>1, <1>4, <1>7, <1>8, <1>9, <1>10, <1>11, <1>12, <1>13 DEF Holds, runs, h
<1>15. t = [s EXCEPT !.running = Len(l.runs) + 1, !.queue = Tail(@)]
  BY DEF t, n, m, r
<1> QED BY <1>14, <1>15

\* The first prompt of those on their way is queued.
LEMMA PromptTaken ==
  ASSUME NEW c, NEW P, NEW s, NEW w, NEW l, Holds(c, P, s, w, l),
         NEW p \in Asked(P), \A x \in Asked(P) : p.n <= x.n
  PROVE  Holds(c, P \ {p}, [s EXCEPT !.queue = Append(@, p.gen)], w, l)
<1> DEFINE q == s.queue
           r == Append(q, p.gen)
           t == [s EXCEPT !.queue = r]
           R == P \ {p}
           n == Len(q)
<1>1. /\ DriverOk(c) /\ PostsOk(P) /\ ServerOk(s, l.runs) /\ LogOk(l)
      /\ WireOk(w, Len(l.runs), Ended(s, l.runs)) /\ TextsOk(c, w, Ended(s, l.runs), l.results)
      /\ HeardOk(c, w, Len(l.runs), l.results)
      /\ PlacesOk(c, P, q, l.runs) /\ FreshOk(c, P, w, q, l)
  BY DEF Holds
<1>2. p.gen \in Nat /\ p.n \in Nat /\ q \in Seq(Nat)
  BY <1>1, EndedRange DEF Asked, PostsOk
<1>3. /\ r \in Seq(Nat) /\ Len(r) = n + 1 /\ n \in Nat /\ r[n + 1] = p.gen
      /\ \A i \in 1..n : r[i] = q[i]
      /\ \A i \in 1..(n + 1) : i \in 1..n \/ i = n + 1
  BY <1>2, AppendAt
<1>4. PostsOk(R) /\ \A x \in Asked(R) : x \in Asked(P)
  BY <1>1 DEF Asked, PostsOk
<1>5. ServerOk(t, l.runs) /\ t.queue = r /\ t.running = s.running
  <2> HIDE DEF r
  <2> QED BY <1>1, <1>3 DEF ServerOk
<1> HIDE DEF r, t, R, n
<1>6. \A x \in Asked(P) : p.gen <= x.gen
  BY <1>1 DEF PlacesOk
<1>7. PlacesOk(c, R, r, l.runs)
  <2>1. /\ \A i \in 1..Len(l.runs) : /\ l.runs[i] <= c.gen
                                     /\ \A j \in 1..n : l.runs[i] <= q[j]
                                     /\ \A x \in Asked(P) : l.runs[i] <= x.gen
        /\ \A i, j \in 1..n : i <= j => q[i] <= q[j]
        /\ \A i \in 1..n : q[i] <= c.gen /\ \A x \in Asked(P) : q[i] <= x.gen
        /\ \A x \in Asked(P) : x.n <= c.said /\ x.gen <= c.gen
    BY <1>1 DEF PlacesOk, n
  <2>2. \A i \in 1..Len(l.runs) : /\ l.runs[i] <= c.gen
                                  /\ \A j \in 1..Len(r) : l.runs[i] <= r[j]
                                  /\ \A x \in Asked(R) : l.runs[i] <= x.gen
    BY <1>3, <1>4, <2>1
  <2>3. \A i, j \in 1..Len(r) : i <= j => r[i] <= r[j]
    <3> SUFFICES ASSUME NEW i \in 1..(n + 1), NEW j \in 1..(n + 1), i <= j PROVE r[i] <= r[j]
      BY <1>3
    <3>1. CASE j \in 1..n
      <4>1. i \in 1..n
        BY <1>3, <3>1
      <4> QED BY <1>3, <2>1, <3>1, <4>1
    <3>2. CASE j = n + 1 /\ i = n + 1
      BY <1>2, <1>3, <3>2
    <3>3. CASE j = n + 1 /\ i \in 1..n
      BY <1>3, <2>1, <3>3
    <3> QED BY <1>3, <3>1, <3>2, <3>3
  <2>4. \A i \in 1..Len(r) : r[i] <= c.gen /\ \A x \in Asked(R) : r[i] <= x.gen
    BY <1>3, <1>4, <1>6, <2>1
  <2>5. /\ \A i, j \in 1..Len(l.runs) : i <= j => l.runs[i] <= l.runs[j]
        /\ \A x, y \in Asked(R) : x.n <= y.n => x.gen <= y.gen
        /\ \A x \in Asked(R) : x.n <= c.said /\ x.gen <= c.gen
    BY <1>1, <1>4 DEF PlacesOk
  <2> QED BY <2>2, <2>3, <2>4, <2>5 DEF PlacesOk
<1>8. FreshOk(c, R, w, r, l)
  <2>1. \A g : Fresh(g, P, w, q, l.runs) => Fresh(g, R, w, r, l.runs)
    BY <1>3, <1>4 DEF Fresh, n
  <2> QED BY <1>1, <2>1 DEF FreshOk
<1>9. Ended(t, l.runs) = Ended(s, l.runs)
  BY <1>5 DEF Ended
<1> QED BY <1>1, <1>4, <1>5, <1>7, <1>8, <1>9 DEF Holds, r, t, R

\* The server goes on to the next queued prompt, after what it says of the last run.
LEMMA StartsHolds ==
  ASSUME NEW c, NEW P, NEW s, Holds(c, P, s, wire, log), NEW said,
         \/ said = <<>> /\ s.running = 0
         \/ said = <<Frame("idle", s.running)>> /\ s.running # 0,
         Starts(s, said)
  PROVE  Holds(c, P, srv', wire', log')
<1> DEFINE t == [s EXCEPT !.running = 0]
           w == IF conn.up THEN wire \o said ELSE wire
           n == Len(log.runs) + 1
           f == Frame("busy", n)
           i == Frame("idle", s.running)
<1>1. /\ ServerOk(s, log.runs) /\ LogOk(log) /\ wire \in Seq(Frames) /\ s.queue \in Seq(Nat)
      /\ s.running \in Nat /\ n \in Nat /\ log.runs \in Seq(Nat)
  BY EndedRange DEF Holds, WireOk, ServerOk
<1>2. i \in Frames /\ f \in Frames
  BY <1>1 DEF Frames, Frame
<1>3. \/ said = <<>> /\ w = wire
      \/ said = <<i>> /\ (w = wire \/ w = Append(wire, i))
  <2>1. wire \o <<>> = wire /\ wire \o <<i>> = Append(wire, i)
    BY <1>1, <1>2
  <2>2. CASE said = <<>>
    BY <2>1, <2>2
  <2>3. CASE said = <<i>>
    BY <2>1, <2>3
  <2> QED BY <2>2, <2>3
<1>4. said \in Seq(Frames) /\ w \in Seq(Frames)
  <2>1. <<>> \in Seq(Frames) /\ <<i>> \in Seq(Frames) /\ Append(wire, i) \in Seq(Frames)
    BY <1>1, <1>2
  <2> HIDE DEF i, w
  <2> QED BY <1>1, <1>3, <2>1
<1>5. ASSUME NEW frames PROVE LostBy(frames) \subseteq {"lost", "unheard"}
  BY DEF LostBy, Losing
<1>6. \A k : LogOk(k) /\ k.runs = log.runs /\ k.results = log.results /\ log.odd \subseteq k.odd
               => Holds(c, P, t, w, k)
  <2> TAKE k
  <2> HAVE LogOk(k) /\ k.runs = log.runs /\ k.results = log.results /\ log.odd \subseteq k.odd
  <2>1. CASE s.running = 0
    <3>1. w = wire /\ t = s
      BY <1>1, <1>3, <2>1 DEF ServerOk
    <3>2. Holds(c, P, s, wire, k)
      <4>1. FreshOk(c, P, wire, s.queue, k)
        BY DEF Holds, FreshOk
      <4> QED BY <4>1 DEF Holds
    <3> QED BY <3>1, <3>2
  <2>2. CASE s.running # 0
    BY <1>3, <2>2, RunEnds
  <2> QED BY <2>1, <2>2
<1>7. CASE s.queue = <<>>
  <2> DEFINE o == log.odd \union LostBy(said)
  <2>1. srv' = t /\ wire' = w /\ log' = [log EXCEPT !.odd = o]
    BY <1>7 DEF Starts, Says
  <2>2. o \subseteq {"stale", "early", "lost", "unheard", "orphan"} /\ log.odd \subseteq o
    BY <1>1, <1>5 DEF LogOk
  <2> HIDE DEF o, t, w
  <2>3. LogOk(log') /\ log'.runs = log.runs /\ log'.results = log.results /\ log.odd \subseteq log'.odd
    BY <1>1, <2>1, <2>2 DEF LogOk
  <2> QED BY <1>6, <2>1, <2>3
<1>8. CASE s.queue # <<>>
  <2> DEFINE frames == said \o <<f>>
             o == log.odd \union LostBy(frames)
             runs == Append(log.runs, Head(s.queue))
             v == IF conn.up THEN wire \o frames ELSE wire
  <2>1. /\ srv' = [s EXCEPT !.running = n, !.queue = Tail(@)] /\ wire' = v
        /\ log' = [log EXCEPT !.runs = runs, !.odd = o]
    BY <1>8 DEF Starts, Says
  <2>2. o \subseteq {"stale", "early", "lost", "unheard", "orphan"} /\ log.odd \subseteq o
    BY <1>1, <1>5 DEF LogOk
  <2>3. runs \in Seq(Nat)
    <3>1. Head(s.queue) \in Nat
      BY <1>1, <1>8
    <3> QED BY <1>1, <3>1, AppendAt
  <2>4. v = w \/ v = Append(w, f)
    <3>1. CASE conn.up
      <4>1. v = Append(w, f)
        BY <1>1, <1>2, <1>4, <3>1
      <4> QED BY <4>1
    <3>2. CASE ~conn.up
      BY <3>2
    <3> QED BY <3>1, <3>2
  <2> HIDE DEF o, v, runs
  <2>5. /\ LogOk(log') /\ log'.runs = runs /\ log'.results = log.results
        /\ log.odd \subseteq log'.odd
    BY <1>1, <2>1, <2>2, <2>3 DEF LogOk
  <2>6. Holds(c, P, t, w, log)
    BY <1>1, <1>6
  <2>7. /\ t.running = 0 /\ t.queue = s.queue
        /\ [t EXCEPT !.running = n, !.queue = Tail(@)] = [s EXCEPT !.running = n, !.queue = Tail(@)]
    BY <1>1 DEF ServerOk
  <2> HIDE DEF t, w
  <2>8. Holds(c, P, [t EXCEPT !.running = n, !.queue = Tail(@)], v, log')
    BY <1>8, <2>4, <2>5, <2>6, <2>7, RunBegins, Zenon DEF runs
  <2> QED BY <2>1, <2>7, <2>8
<1> QED BY <1>7, <1>8

-----------------------------------------------------------------------------
(* The actions                                                               *)

\* What the invariant says of the types.
LEMMA StateTypes ==
  ASSUME IInv
  PROVE  /\ DriverOk(d) /\ d \in DriverRecord /\ PostsOk(posts) /\ ServerOk(srv, log.runs)
         /\ LogOk(log) /\ wire \in Seq(Frames) /\ srv.queue \in Seq(Nat)
         /\ Holds(d, posts, srv, wire, log)
BY DriverTypes, EndedRange DEF IInv, Holds, WireOk

\* The driver moves on, and no more of what is under way is told apart.
LEMMA Quiet ==
  ASSUME IInv, DriverOk(d'), Follows(d, d'), posts' \subseteq posts,
         ServerOk(srv', log.runs), srv'.running = srv.running, srv'.queue = srv.queue,
         wire' = wire, log' = log, StopsOk(stops'), ConnOk(conn')
  PROVE  IInv'
<1>1. Within(wire, wire) /\ Within(srv.queue, srv'.queue)
  BY StateTypes, WithinCases
<1>2. Holds(d', posts', srv', wire', log')
  BY <1>1, StateTypes, Moves DEF Follows
<1> QED BY <1>2 DEF IInv

\* What a person was asked is answered; a request fails.
LEMMA ServerFlags ==
  ASSUME NEW s, NEW runs, ServerOk(s, runs)
  PROVE  \A t \in {s, [s EXCEPT !.asking = FALSE], [s EXCEPT !.failures = @ + 1]} :
           ServerOk(t, runs) /\ t.running = s.running /\ t.queue = s.queue
<1>1. LET t == [s EXCEPT !.asking = FALSE]
      IN  ServerOk(t, runs) /\ t.running = s.running /\ t.queue = s.queue
  BY DEF ServerOk
<1>2. LET t == [s EXCEPT !.failures = @ + 1]
      IN  ServerOk(t, runs) /\ t.running = s.running /\ t.queue = s.queue
  BY DEF ServerOk
<1> QED BY <1>1, <1>2

\* A driver follows itself.
LEMMA FollowsItself == ASSUME NEW c, DriverOk(c) PROVE Follows(c, c)
BY SameChain DEF Follows, StaysReady, Hears

\* Two steps on.
LEMMA CoreThen ==
  ASSUME NEW c, DriverOk(c), NEW e, Core(c, e), NEW u, DriverOk(e) => DriverOk(u) /\ Follows(e, u)
  PROVE  DriverOk(u) /\ Follows(c, u)
BY CoreEffect, FollowsTransitive

LEMMA ReactionRunsKeeps == ASSUME IInv, ReactionRuns PROVE IInv' /\ d'.seq = d.seq
<1> DEFINE e == [d EXCEPT !.chunk = FALSE]
<1>1. DriverOk(d) /\ d \in DriverRecord /\ d.sync = "due"
  BY StateTypes DEF ReactionRuns, NotDue
<1>2. Core(d, e)
  BY <1>1, FlagEffects, Zenon
<1>3. e.sync = "due" /\ d' = React(e)
  BY <1>1, <1>2 DEF Core, ReactionRuns
<1> HIDE DEF e
<1>4. DriverOk(d') /\ Follows(d, d')
  BY <1>1, <1>2, <1>3, CoreThen, ReactEffect
<1>5. IInv'
  BY <1>4, StateTypes, Quiet DEF ReactionRuns, IInv
<1> QED BY <1>4, <1>5 DEF Follows

LEMMA CommandKeeps == ASSUME IInv, Command PROVE IInv' /\ d'.seq = d.seq
<1> DEFINE n == d.commands + 1
<1>1. d \in DriverRecord /\ DriverOk(d) /\ n \in Nat
  BY StateTypes DEF DriverRecord
<1>2. d' = [d EXCEPT !.ctl = "command", !.listing = TRUE, !.commands = n]
  BY DEF Command
<1> HIDE DEF n
<1>3. Core(d, d')
  BY <1>1, <1>2 DEF Core, DriverRecord
<1>4. DriverOk(d') /\ Follows(d, d')
  BY <1>1, <1>3, CoreEffect
<1>5. IInv'
  BY <1>4, StateTypes, Quiet DEF Command, IInv
<1> QED BY <1>4, <1>5 DEF Follows

LEMMA AskParksKeeps == ASSUME IInv, AskParks PROVE IInv' /\ d'.seq = d.seq
<1> DEFINE e == [d EXCEPT !.awaiting = FALSE]
           o == IF d.active THEN log.odd ELSE log.odd \union {"orphan"}
<1>1. /\ DriverOk(d) /\ d \in DriverRecord /\ LogOk(log) /\ ServerOk(srv, log.runs)
      /\ wire \in Seq(Frames) /\ srv.queue \in Seq(Nat) /\ Holds(d, posts, srv, wire, log)
  BY StateTypes
<1>2. Core(d, e)
  BY <1>1, FlagEffects, Zenon
<1>3. d' = Parked(e) /\ UNCHANGED <<stops, posts, srv, conn, wire>>
  BY DEF AskParks
<1> HIDE DEF e
<1>4. DriverOk(e) /\ Core(e, Parked(e))
  BY <1>1, <1>2, CoreEffect, FlagEffects, Zenon DEF Core
<1>5. DriverOk(d') /\ Follows(d, d')
  BY <1>1, <1>2, <1>3, <1>4, CoreEffect, CoreThen
<1>6. log' = [log EXCEPT !.odd = o]
  BY DEF AskParks
<1>7. o \subseteq {"stale", "early", "lost", "unheard", "orphan"} /\ log.odd \subseteq o
  BY <1>1 DEF LogOk
<1> HIDE DEF o
<1>8. LogOk(log') /\ log'.runs = log.runs /\ log'.results = log.results /\ log.odd \subseteq log'.odd
  BY <1>1, <1>6, <1>7 DEF LogOk
<1>9. Holds(d', posts, srv, wire, log')
  <2>1. Within(wire, wire) /\ Within(srv.queue, srv.queue)
    BY <1>1, WithinCases
  <2> QED BY <1>1, <1>5, <1>8, <2>1, Moves DEF Follows
<1> QED BY <1>3, <1>5, <1>9 DEF IInv, Follows

LEMMA DecideKeeps == ASSUME IInv, Decide PROVE IInv' /\ d'.seq = d.seq
<1> DEFINE e == CancelGate(d)
<1>1. DriverOk(d) /\ Core(d, e)
  BY StateTypes, FreeEffect
<1>2. d' = Unblock(e)
  BY DEF Decide
<1> HIDE DEF e
<1>3. DriverOk(d') /\ Follows(d, d')
  BY <1>1, <1>2, CoreThen, FreeEffect, CoreEffect
<1>4. ServerOk(srv', log.runs) /\ srv'.running = srv.running /\ srv'.queue = srv.queue
  BY StateTypes, ServerFlags DEF Decide
<1>5. IInv'
  BY <1>3, <1>4, Quiet DEF Decide, IInv
<1> QED BY <1>3, <1>5 DEF Follows

LEMMA EndKeeps == ASSUME IInv, End PROVE IInv' /\ d'.seq = d.seq
<1> DEFINE e == [d EXCEPT !.ending = TRUE]
           u == CancelGate(e)
<1>1. DriverOk(d) /\ Core(d, e)
  BY StateTypes, FlagEffects, Zenon
<1>2. d' = BeginEnd(u)
  BY DEF End
<1> HIDE DEF e
<1>3. DriverOk(e) /\ Core(e, u)
  BY <1>1, CoreEffect, FreeEffect
<1> HIDE DEF u
<1>4. DriverOk(d') /\ Follows(e, d')
  BY <1>2, <1>3, CoreThen, BeginEndEffect
<1>5. DriverOk(d') /\ Follows(d, d')
  BY <1>1, <1>4, CoreThen
<1>6. ServerOk(srv', log.runs) /\ srv'.running = srv.running /\ srv'.queue = srv.queue
  BY StateTypes, ServerFlags DEF End
<1>7. IInv'
  BY <1>5, <1>6, Quiet DEF End, IInv
<1> QED BY <1>5, <1>7 DEF Follows

LEMMA RetireKeeps == ASSUME IInv, Retire PROVE IInv' /\ d'.seq = d.seq
<1> DEFINE e == [d EXCEPT !.retiring = TRUE]
<1>1. DriverOk(d) /\ Core(d, e)
  BY StateTypes, FlagEffects, Zenon
<1>2. d' = BeginEnd(e)
  BY DEF Retire
<1> HIDE DEF e
<1>3. DriverOk(d') /\ Follows(d, d')
  BY <1>1, <1>2, CoreThen, BeginEndEffect
<1>4. IInv'
  BY <1>3, StateTypes, Quiet DEF Retire, IInv
<1> QED BY <1>3, <1>4 DEF Follows

LEMMA StopSyncedKeeps ==
  ASSUME IInv, NEW i \in DOMAIN stops, StopSynced(i) PROVE IInv' /\ d'.seq = d.seq
<1> DEFINE e == ReleaseControl(d)
<1>1. DriverOk(d) /\ Core(d, e)
  BY StateTypes, FreeEffect
<1>2. d' = e \/ d' = [e EXCEPT !.state = "idle"]
  BY DEF StopSynced
<1> HIDE DEF e
<1>3. DriverOk(e) /\ Follows(d, e) /\ e \in DriverRecord
  BY <1>1, CoreEffect DEF Core
<1>4. DriverOk(d') /\ Follows(e, d')
  BY <1>2, <1>3, FollowsItself, FlagEffects, CoreEffect, Zenon
<1>5. DriverOk(d') /\ Follows(d, d')
  BY <1>1, <1>4, CoreThen
<1>6. StopsOk(stops')
  BY DEF StopSynced, StopsOk, IInv
<1>7. IInv'
  BY <1>5, <1>6, StateTypes, Quiet DEF StopSynced, IInv
<1> QED BY <1>5, <1>7 DEF Follows

LEMMA ConnectsKeeps == ASSUME IInv, Connects PROVE IInv' /\ d'.seq = d.seq
<1>1. ConnOk(conn')
  BY DEF Connects, Connected, Listening, ConnOk, IInv
<1>2. DriverOk(d') /\ Follows(d, d')
  BY StateTypes, FollowsItself DEF Connects
<1>3. IInv'
  BY <1>1, <1>2, StateTypes, Quiet DEF Connects, IInv
<1> QED BY <1>3 DEF Connects

\* A result is out: it is of a later run than those before, and of an earlier one than
\* those still owed.
LEMMA ResultOutHolds ==
  ASSUME NEW c, NEW P, NEW s, NEW w, NEW l, Holds(c, P, s, w, l), c.sync = "result",
         NEW k, k = [l EXCEPT !.results = Append(@, Result(c))]
  PROVE  Holds([c EXCEPT !.sync = "finish"], P, s, w, k)
<1> DEFINE e == [c EXCEPT !.sync = "finish"]
           r == Result(c)
           z == Ended(s, l.runs)
           h == Len(l.results)
           res == Append(l.results, r)
<1>1. /\ DriverOk(c) /\ PostsOk(P) /\ ServerOk(s, l.runs) /\ LogOk(l)
      /\ WireOk(w, Len(l.runs), z) /\ TextsOk(c, w, z, l.results)
      /\ HeardOk(c, w, Len(l.runs), l.results)
      /\ PlacesOk(c, P, s.queue, l.runs) /\ FreshOk(c, P, w, s.queue, l)
  BY DEF Holds
<1>2. /\ DriverOk(e) /\ Owed(e) = Owed(c) \ {1} /\ 1 \in Owed(c)
      /\ e.chain = c.chain /\ e.emitted = c.emitted /\ e.sync = "finish"
      /\ e.gen = c.gen /\ e.said = c.said /\ e.seq = c.seq /\ Ready(e) = Ready(c)
      /\ e.text = c.text /\ e.active = c.active
  BY <1>1, ResultOutEffect
<1> HIDE DEF e
<1>3. c.chain \in Seq(Reactions) /\ 1 \in 1..Len(c.chain) /\ c.emitted \in Nat
  BY <1>1, <1>2, DriverTypes DEF Owed
<1>4. c.chain[1] \in Reactions /\ Head(c.chain) = c.chain[1]
  <2>1. c.chain[1] \in Reactions
    BY <1>3, ElementOf
  <2> QED BY <1>3, <2>1
<1>5. /\ r.seq = c.emitted /\ r.text = c.chain[1].text /\ r.run = c.chain[1].run
      /\ r.text \in Nat /\ r.run \in Nat /\ r \in Results
  BY <1>1, <1>4 DEF Result, Reactions, Results, DriverOk
<1>6. /\ l.results \in Seq(Results)
      /\ res \in Seq(Results)
      /\ Len(res) = h + 1 /\ h \in Nat /\ res[h + 1] = r
      /\ \A i \in 1..h : res[i] = l.results[i]
      /\ \A i \in 1..(h + 1) : i \in 1..h \/ i = h + 1
  <2>1. l.results \in Seq(Results)
    BY <1>1, EndedRange
  <2> QED BY <1>5, <2>1, AppendAt
<1>7. k = [l EXCEPT !.results = res]
  OBVIOUS
<1> HIDE DEF r, res
<1>8. LogOk(k) /\ k.runs = l.runs /\ k.results = res /\ k.odd = l.odd
  BY <1>1, <1>6, <1>7 DEF LogOk
<1>9. /\ \A i \in Owed(c) : /\ c.chain[i].run \in 1..z /\ c.chain[i].text <= c.chain[i].run
                            /\ \A j \in 1..Len(w) : Tells(w[j]) => c.chain[i].run < w[j].run
      /\ \A i, j \in Owed(c) : i < j => Past(c.chain[i].run, c.chain[j])
      /\ \A i \in 1..h :
           /\ l.results[i].run \in 1..z /\ l.results[i].text <= l.results[i].run
           /\ l.results[i].seq <= c.emitted
           /\ c.sync = "result" => l.results[i].seq < c.emitted
           /\ \A j \in Owed(c) : Past(l.results[i].run, c.chain[j])
           /\ \A j \in 1..Len(w) : Tells(w[j]) => l.results[i].run < w[j].run
      /\ \A i, j \in 1..h : i < j =>
           l.results[i].seq < l.results[j].seq /\ Past(l.results[i].run, l.results[j])
  BY <1>1 DEF TextsOk
<1> HIDE DEF h, z
<1>10. \A i \in Owed(e) : i \in Owed(c) /\ 1 < i
  BY <1>2 DEF Owed
<1>11. \A i \in Owed(e) : Past(r.run, c.chain[i])
  BY <1>2, <1>5, <1>9, <1>10
<1>12. \A i \in 1..Len(res) :
         /\ res[i].run \in 1..z /\ res[i].text <= res[i].run /\ res[i].seq <= e.emitted
         /\ e.sync = "result" => res[i].seq < e.emitted
         /\ \A j \in Owed(e) : Past(res[i].run, e.chain[j])
         /\ \A j \in 1..Len(w) : Tells(w[j]) => res[i].run < w[j].run
  <2> SUFFICES ASSUME NEW i \in 1..(h + 1)
               PROVE  /\ res[i].run \in 1..z /\ res[i].text <= res[i].run
                      /\ res[i].seq <= e.emitted
                      /\ \A j \in Owed(e) : Past(res[i].run, e.chain[j])
                      /\ \A j \in 1..Len(w) : Tells(w[j]) => res[i].run < w[j].run
    BY <1>2, <1>6
  <2>1. CASE i \in 1..h
    BY <1>2, <1>6, <1>9, <1>10, <2>1
  <2>2. CASE i = h + 1
    <3>1. res[i] = r
      BY <1>6, <2>2
    <3>2. c.emitted <= c.emitted
      BY <1>3
    <3>3. /\ r.run \in 1..z /\ r.text <= r.run
          /\ \A j \in 1..Len(w) : Tells(w[j]) => r.run < w[j].run
      BY <1>2, <1>5, <1>9
    <3> QED BY <1>2, <1>5, <1>11, <3>1, <3>2, <3>3
  <2> QED BY <1>6, <2>1, <2>2
<1>13. \A i, j \in 1..Len(res) : i < j =>
         res[i].seq < res[j].seq /\ Past(res[i].run, res[j])
  <2> SUFFICES ASSUME NEW i \in 1..(h + 1), NEW j \in 1..(h + 1), i < j
               PROVE  res[i].seq < res[j].seq /\ Past(res[i].run, res[j])
    BY <1>6
  <2>1. i \in 1..h
    BY <1>6
  <2>2. CASE j \in 1..h
    BY <1>6, <1>9, <2>1, <2>2
  <2>3. CASE j = h + 1
    <3>1. Past(l.results[i].run, r)
      BY <1>2, <1>5, <1>9, <2>1 DEF Past
    <3>2. l.results[i].seq < r.seq
      BY <1>5, <1>9, <2>1
    <3> QED BY <1>6, <2>1, <2>3, <3>1, <3>2
  <2> QED BY <1>6, <2>2, <2>3
<1>14. TextsOk(e, w, z, res)
  <2>1. \A i \in Owed(e) : /\ e.chain[i].run \in 1..z /\ e.chain[i].text <= e.chain[i].run
                           /\ \A j \in 1..Len(w) : Tells(w[j]) => e.chain[i].run < w[j].run
    BY <1>2, <1>9, <1>10
  <2>2. \A i, j \in Owed(e) : i < j => Past(e.chain[i].run, e.chain[j])
    BY <1>2, <1>9, <1>10
  <2> QED BY <1>12, <1>13, <2>1, <2>2 DEF TextsOk
<1>15. PlacesOk(e, P, s.queue, l.runs)
  BY <1>1, <1>2 DEF PlacesOk
<1>16. FreshOk(e, P, w, s.queue, k)
  BY <1>1, <1>2, <1>8, <1>10 DEF FreshOk
<1>17. HeardOk(e, w, Len(l.runs), res)
  <2>1. HeardOk(c, w, Len(l.runs), l.results)
    BY <1>1
  <2>2. ASSUME c.active, c.text # 0
        PROVE  /\ \A i \in Owed(e) : e.chain[i].run < e.text
               /\ \A i \in 1..Len(res) : res[i].run < e.text
    <3>1. /\ \A i \in Owed(c) : c.chain[i].run < c.text
          /\ \A i \in 1..h : l.results[i].run < c.text
      BY <2>1, <2>2 DEF HeardOk, h
    <3>2. r.run < c.text
      BY <1>2, <1>5, <3>1
    <3> QED BY <1>2, <1>6, <1>10, <3>1, <3>2
  <2> QED BY <1>2, <2>1, <2>2 DEF HeardOk
<1>18. Holds(e, P, s, w, k)
  BY <1>1, <1>2, <1>8, <1>14, <1>15, <1>16, <1>17 DEF Holds, z
<1> QED BY <1>18 DEF e

LEMMA SyncReturnsKeeps == ASSUME IInv, SyncReturns PROVE IInv' /\ d'.seq = d.seq
<1>1. DriverOk(d) /\ d \in DriverRecord /\ Holds(d, posts, srv, wire, log)
  BY StateTypes
<1>2. CASE d.sync = "result" /\ d' = AfterResult(d)
             /\ log' = [log EXCEPT !.results = Append(@, Result(d))]
  <2> DEFINE e == [d EXCEPT !.sync = "finish"]
  <2>1. Holds(e, posts, srv, wire, log')
    BY <1>1, <1>2, ResultOutHolds
  <2>2. DriverOk(d') /\ Follows(e, d') /\ e.seq = d.seq
    BY <1>1, <1>2, ResultOutEffect
  <2> HIDE DEF e
  <2>3. Holds(d', posts, srv, wire, log')
    BY <2>1, <2>2, DriverMoves
  <2> QED BY <2>2, <2>3 DEF SyncReturns, IInv, Follows
<1>3. CASE d.sync \in {"finish", "fail"} /\ UNCHANGED log
             /\ d' = GoOn([d EXCEPT !.over =
                  IF @ # "none" THEN @ ELSE IF d.retiring THEN "retired"
                  ELSE IF d.sync = "finish" THEN "ended" ELSE "error"])
  <2> DEFINE x == IF d.over # "none" THEN d.over ELSE IF d.retiring THEN "retired"
                  ELSE IF d.sync = "finish" THEN "ended" ELSE "error"
             e == [d EXCEPT !.over = x]
  <2>1. x \in {"none", "ended", "error", "retired"}
    BY <1>1 DEF DriverRecord
  <2>2. d' = GoOn(e)
    BY <1>3
  <2> HIDE DEF x
  <2>3. Core(d, e) /\ d.chain # <<>>
    BY <1>1, <1>3, <2>1, FlagEffects, Zenon DEF DriverOk
  <2> HIDE DEF e
  <2>4. e.chain # <<>>
    BY <2>3 DEF Core
  <2>5. DriverOk(d') /\ Follows(d, d')
    BY <1>1, <2>2, <2>3, <2>4, CoreThen, GoOnEffect
  <2>6. Holds(d', posts, srv, wire, log)
    BY <1>1, <2>5, DriverMoves
  <2> QED BY <1>3, <2>5, <2>6 DEF SyncReturns, IInv, Follows
<1> QED BY <1>2, <1>3 DEF SyncReturns

LEMMA FailsKeeps ==
  ASSUME IInv, NEW n \in {0, 1}, ~conn.closed, Fails(n) PROVE IInv' /\ d'.seq = d.seq
<1> DEFINE m == conn.failures + n
           o == conn.drops + 1
           f == [conn EXCEPT !.failures = m, !.up = FALSE, !.drops = o]
           x == log.odd \union Losing(wire)
           y == log.dry + n
<1>1. /\ DriverOk(d) /\ LogOk(log) /\ ConnOk(conn) /\ wire \in Seq(Frames)
      /\ ServerOk(srv, log.runs) /\ Holds(d, posts, srv, wire, log) /\ srv.queue \in Seq(Nat)
  BY StateTypes DEF IInv
<1>2. m \in Nat /\ o \in Nat /\ m <= MAX_SSE_FAILURES
  BY <1>1, OpenCodeAssumption DEF ConnOk
<1>3. /\ \/ m < MAX_SSE_FAILURES /\ conn' = f /\ d' = d
         \/ conn' = [f EXCEPT !.closed = TRUE] /\ d' = Chain(d, Reaction("exit"))
      /\ log' = [log EXCEPT !.odd = x, !.dry = y] /\ wire' = <<>>
      /\ UNCHANGED <<stops, posts, srv>>
  <2>1. f.failures = m
    BY <1>1 DEF ConnOk
  <2>2. log' = [log EXCEPT !.odd = x, !.dry = y]
    BY DEF Fails
  <2> QED BY <2>1, <2>2 DEF Fails
<1> HIDE DEF m, o
<1>4. ConnOk(conn')
  <2>1. CASE m < MAX_SSE_FAILURES /\ conn' = f
    BY <1>1, <1>2, <2>1 DEF ConnOk
  <2>2. CASE conn' = [f EXCEPT !.closed = TRUE]
    BY <1>1, <1>2, <2>2 DEF ConnOk
  <2> QED BY <1>3, <2>1, <2>2
<1>5. DriverOk(d') /\ Follows(d, d')
  BY <1>1, <1>3, ChainEffect, FollowsItself
<1>6. x \subseteq {"stale", "early", "lost", "unheard", "orphan"} /\ log.odd \subseteq x /\ y \in Nat
  BY <1>1 DEF LogOk, Losing
<1> HIDE DEF x, y
<1>7. LogOk(log') /\ log'.runs = log.runs /\ log'.results = log.results /\ log.odd \subseteq log'.odd
  BY <1>1, <1>3, <1>6 DEF LogOk
<1>8. wire' \in Seq(Frames) /\ Within(wire, wire') /\ Within(srv.queue, srv.queue)
  BY <1>1, <1>3, WithinCases
<1>9. Holds(d', posts, srv, wire', log')
  BY <1>1, <1>5, <1>7, <1>8, Moves DEF Follows
<1> QED BY <1>3, <1>4, <1>5, <1>9 DEF IInv, Follows

LEMMA MessageKeeps == ASSUME IInv, Message PROVE IInv'
<1>1. DriverOk(d) /\ Holds(d, posts, srv, wire, log)
  BY StateTypes
<1>2. LET e == Prompted(d)
      IN  DriverOk(e) /\ Keeps(d, e) /\ StaysReady(d, e) /\ e.said = d.said + 1
  BY <1>1, PromptedEffect
<1>3. PICK k \in {"prompt", "follow", "command"} :
        posts' = posts \union {Post(k, d.said + 1, d.gen)}
  BY DEF Message
<1>4. Holds(Prompted(d), posts', srv, wire, log)
  BY <1>1, <1>2, <1>3, Sends
<1> QED BY <1>4 DEF Message, IInv

LEMMA CommandOpensKeeps == ASSUME IInv, CommandOpens PROVE IInv'
<1>1. DriverOk(d) /\ d \in DriverRecord /\ Holds(d, posts, srv, wire, log)
  BY StateTypes
<1>2. CASE /\ d' = Prompted([d EXCEPT !.listing = FALSE, !.held = TRUE])
           /\ posts' = posts \union {Post("command", d.said + 1, d.gen)}
  <2> DEFINE e == [d EXCEPT !.listing = FALSE, !.held = TRUE]
  <2>1. Core(d, e)
    BY <1>1, FlagEffects, Zenon
  <2> HIDE DEF e
  <2>2. DriverOk(e) /\ Follows(d, e) /\ e.said = d.said /\ e.gen = d.gen
    BY <1>1, <2>1, CoreEffect DEF Core
  <2>3. Holds(e, posts, srv, wire, log)
    BY <1>1, <2>2, DriverMoves
  <2>4. LET u == Prompted(e)
        IN  DriverOk(u) /\ Keeps(e, u) /\ StaysReady(e, u) /\ u.said = e.said + 1
    BY <2>2, PromptedEffect
  <2>5. Holds(Prompted(e), posts \union {Post("command", e.said + 1, e.gen)}, srv, wire, log)
    BY <2>3, <2>4, Sends
  <2> QED BY <1>2, <2>2, <2>5 DEF e, CommandOpens, IInv
<1>3. CASE d' = [d EXCEPT !.listing = FALSE, !.ctl = "none"] /\ posts' = posts
  <2>1. Core(d, d')
    BY <1>1, <1>3, FlagEffects, Zenon
  <2>2. DriverOk(d') /\ Follows(d, d')
    BY <1>1, <2>1, CoreEffect
  <2>3. Holds(d', posts, srv, wire, log)
    BY <1>1, <2>2, DriverMoves
  <2> QED BY <1>3, <2>3 DEF CommandOpens, IInv
<1>4. /\ [[d EXCEPT !.listing = FALSE] EXCEPT !.held = TRUE]
           = [d EXCEPT !.listing = FALSE, !.held = TRUE]
      /\ [[d EXCEPT !.listing = FALSE] EXCEPT !.ctl = "none"]
           = [d EXCEPT !.listing = FALSE, !.ctl = "none"]
  BY <1>1 DEF DriverRecord
<1> QED BY <1>2, <1>3, <1>4 DEF CommandOpens

\* A live turn's run is idle: its result is owed, of a later run than all before.  If no
\* withdrawn run's idle is taken for it, a turn of this generation has nothing withdrawn
\* behind it.
LEMMA IdleHolds ==
  ASSUME NEW c, NEW P, NEW s, NEW w, NEW l, Holds(c, P, s, w, l), c.active,
         w # <<>>, w[1].kind = "idle",
         NEW k, LogOk(k), k.runs = l.runs, k.results = l.results, l.odd \subseteq k.odd,
         l.runs[w[1].run] # c.turnGen => "stale" \in k.odd
  PROVE  Holds(OnIdle(c, w[1].run), P, s, Tail(w), k)
<1> DEFINE run == w[1].run
           e == OnIdle(c, run)
           r == [kind |-> "result", seq |-> c.seq, gen |-> c.turnGen, text |-> c.text,
                 run |-> run]
           z == Ended(s, l.runs)
           m == Len(l.runs)
           n == Len(c.chain)
           v == Tail(w)
           h == Len(w)
           q == s.queue
           res == l.results
<1>1. /\ DriverOk(c) /\ PostsOk(P) /\ ServerOk(s, l.runs) /\ LogOk(l)
      /\ WireOk(w, m, z) /\ TextsOk(c, w, z, res) /\ HeardOk(c, w, m, res)
      /\ PlacesOk(c, P, q, l.runs) /\ FreshOk(c, P, w, q, l)
  BY DEF Holds
<1>2. /\ l.runs \in Seq(Nat) /\ q \in Seq(Nat) /\ z \in Int /\ m \in Nat
      /\ res \in Seq(Results) /\ w \in Seq(Frames)
  BY <1>1, EndedRange DEF WireOk
<1>3. /\ h \in Nat /\ 1 \in 1..h /\ v \in Seq(Frames) /\ Len(v) = h - 1
      /\ \A j \in 1..Len(v) : j + 1 \in 1..h /\ 1 < j + 1 /\ v[j] = w[j + 1]
  <2>1. h \in Nat /\ h # 0
    BY <1>2, EmptyByLength
  <2>2. v \in Seq(Frames) /\ Len(v) = h - 1 /\ \A j \in 1..(h - 1) : v[j] = w[j + 1]
    BY <1>2, <2>1
  <2> QED BY <2>1, <2>2
<1>4. run \in 1..m /\ run <= z /\ run \in 1..z /\ run \in Nat
  BY <1>1, <1>2, <1>3 DEF WireOk
<1>5. \A j \in 1..Len(v) : /\ run <= v[j].run /\ v[j].run \in 1..m
                           /\ Tells(v[j]) => run < v[j].run
  BY <1>1, <1>3 DEF WireOk
<1>6. /\ DriverOk(e) /\ e.seq = c.seq /\ e.said = c.said /\ e.gen = c.gen
      /\ e.chain = Append(c.chain, r) /\ e.emitted = c.emitted /\ ~Ready(e)
      /\ e.sync = c.sync \/ (c.chain = <<>> /\ e.sync = "due")
      /\ e.text = c.text /\ ~e.active
  BY <1>1, <1>4, OnIdleEffect
<1>7. /\ c.gen \in Nat /\ c.said \in Nat /\ c.seq \in Nat /\ c.turnGen \in Nat
      /\ c.chain \in Seq(Reactions) /\ n \in Nat /\ c.gen <= c.gen /\ c.said <= c.said
  BY <1>1, DriverTypes
<1>8. /\ r \in Reactions /\ r.run = run /\ r.text = c.text /\ r.gen = c.turnGen
      /\ r.text <= r.run
  <2>1. c.text \in Nat
    BY <1>1, DriverTypes
  <2>2. c.text <= run
    BY <1>1, <1>3 DEF HeardOk
  <2> QED BY <1>4, <1>7, <2>1, <2>2 DEF Reactions
<1> HIDE DEF r, e, run
<1>9. /\ Len(e.chain) = n + 1 /\ e.chain[n + 1] = r
      /\ \A i \in 1..n : e.chain[i] = c.chain[i]
      /\ \A i \in 1..(n + 1) : i \in 1..n \/ i = n + 1
  BY <1>6, <1>7, <1>8, AppendAt
<1>10. \A i \in Owed(e) : (i \in Owed(c) /\ i < n + 1 /\ e.chain[i] = c.chain[i])
                          \/ (i = n + 1 /\ e.chain[i] = r)
  <2> SUFFICES ASSUME NEW i \in Owed(e), i # n + 1
               PROVE  i \in Owed(c) /\ i < n + 1 /\ e.chain[i] = c.chain[i]
    BY <1>9 DEF Owed
  <2>1. i \in 1..n /\ i < n + 1 /\ e.chain[i] = c.chain[i]
    BY <1>7, <1>9 DEF Owed
  <2>2. c.chain # <<>>
    BY <1>7, <2>1, EmptyByLength
  <2>3. e.sync = c.sync
    BY <1>6, <2>2
  <2> QED BY <2>1, <2>3 DEF Owed
<1> HIDE DEF n, v, h, z, m
<1>11. WireOk(v, m, z)
  <2>1. Within(w, v)
    BY <1>2, WithinCases DEF v
  <2>2. m <= m /\ z <= z
    BY <1>2
  <2> QED BY <1>1, <1>2, <1>3, <2>1, <2>2, WireKept
<1>12. TextsOk(e, v, z, res)
  <2>1. /\ \A i \in Owed(c) : /\ c.chain[i].run \in 1..z /\ c.chain[i].text <= c.chain[i].run
                              /\ \A j \in 1..h : Tells(w[j]) => c.chain[i].run < w[j].run
        /\ \A i, j \in Owed(c) : i < j => Past(c.chain[i].run, c.chain[j])
        /\ \A i \in 1..Len(res) :
             /\ res[i].run \in 1..z /\ res[i].text <= res[i].run /\ res[i].seq <= c.emitted
             /\ c.sync = "result" => res[i].seq < c.emitted
             /\ \A j \in Owed(c) : Past(res[i].run, c.chain[j])
             /\ \A j \in 1..h : Tells(w[j]) => res[i].run < w[j].run
        /\ \A i, j \in 1..Len(res) : i < j =>
             res[i].seq < res[j].seq /\ Past(res[i].run, res[j])
    BY <1>1 DEF TextsOk, h
  <2>2. Tells(w[1])
    BY DEF Tells
  <2>3. /\ \A i \in Owed(c) : Past(c.chain[i].run, r)
        /\ \A i \in 1..Len(res) : Past(res[i].run, r)
    <3>1. /\ \A i \in Owed(c) : c.chain[i].run < run
          /\ \A i \in 1..Len(res) : res[i].run < run
      BY <1>3, <2>1, <2>2 DEF run
    <3>2. c.text # 0 => /\ \A i \in Owed(c) : c.chain[i].run < c.text
                        /\ \A i \in 1..Len(res) : res[i].run < c.text
      BY <1>1 DEF HeardOk
    <3> QED BY <1>8, <3>1, <3>2 DEF Past
  <2>4. \A i \in Owed(e) : /\ e.chain[i].run \in 1..z /\ e.chain[i].text <= e.chain[i].run
                           /\ \A j \in 1..Len(v) : Tells(v[j]) => e.chain[i].run < v[j].run
    <3> TAKE i \in Owed(e)
    <3>1. CASE i \in Owed(c) /\ e.chain[i] = c.chain[i]
      BY <1>3, <2>1, <3>1
    <3>2. CASE e.chain[i] = r
      BY <1>4, <1>5, <1>8, <3>2
    <3> QED BY <1>10, <3>1, <3>2
  <2>5. \A i, j \in Owed(e) : i < j => Past(e.chain[i].run, e.chain[j])
    <3> SUFFICES ASSUME NEW i \in Owed(e), NEW j \in Owed(e), i < j
                 PROVE  Past(e.chain[i].run, e.chain[j])
      OBVIOUS
    <3>1. CASE j \in Owed(c) /\ j < n + 1 /\ e.chain[j] = c.chain[j]
      <4>1. i \in Nat /\ j \in Nat
        BY DEF Owed
      <4>2. i # n + 1
        BY <1>7, <3>1, <4>1
      <4> QED BY <1>10, <2>1, <3>1, <4>2
    <3>2. CASE j = n + 1 /\ e.chain[j] = r
      <4>1. i # n + 1
        BY <1>7, <3>2 DEF Owed
      <4> QED BY <1>10, <2>3, <3>2, <4>1
    <3> QED BY <1>10, <3>1, <3>2
  <2>6. \A i \in 1..Len(res) :
          /\ res[i].run \in 1..z /\ res[i].text <= res[i].run /\ res[i].seq <= e.emitted
          /\ e.sync = "result" => res[i].seq < e.emitted
          /\ \A j \in Owed(e) : Past(res[i].run, e.chain[j])
          /\ \A j \in 1..Len(v) : Tells(v[j]) => res[i].run < v[j].run
    <3> TAKE i \in 1..Len(res)
    <3>1. \A j \in Owed(e) : Past(res[i].run, e.chain[j])
      BY <1>10, <2>1, <2>3
    <3>2. \A j \in 1..Len(v) : Tells(v[j]) => res[i].run < v[j].run
      BY <1>3, <2>1
    <3>3. /\ res[i].run \in 1..z /\ res[i].text <= res[i].run /\ res[i].seq <= e.emitted
          /\ e.sync = "result" => res[i].seq < e.emitted
      BY <1>6, <2>1
    <3> QED BY <3>1, <3>2, <3>3
  <2> QED BY <2>1, <2>4, <2>5, <2>6 DEF TextsOk
<1>13. PlacesOk(e, P, q, l.runs)
  BY <1>1, <1>6 DEF PlacesOk
<1>14. FreshOk(e, P, v, q, k)
  <2> SUFFICES ASSUME "stale" \notin k.odd, NEW i \in Owed(e), e.chain[i].gen = e.gen
               PROVE  Fresh(c.gen, P, v, q, l.runs)
    BY <1>6 DEF FreshOk
  <2>1. CASE i \in Owed(c) /\ e.chain[i] = c.chain[i]
    <3>1. Fresh(c.gen, P, w, q, l.runs)
      BY <1>1, <1>6, <2>1 DEF FreshOk
    <3> QED BY <1>3, <3>1 DEF Fresh, h
  <2>2. CASE e.chain[i] = r
    <3>1. l.runs[run] = c.gen
      BY <1>6, <1>8, <2>2 DEF run
    <3>2. /\ \A a, b \in 1..m : a <= b => l.runs[a] <= l.runs[b]
          /\ \A a \in 1..m : l.runs[a] <= c.gen /\ l.runs[a] \in Nat
          /\ \A j \in 1..Len(q) : l.runs[run] <= q[j] /\ q[j] <= c.gen /\ q[j] \in Nat
          /\ \A p \in Asked(P) : l.runs[run] <= p.gen /\ p.gen <= c.gen /\ p.gen \in Nat
      <4>1. \A a \in 1..m : l.runs[a] \in Nat
        BY <1>2, ElementOf DEF m
      <4>2. \A j \in 1..Len(q) : q[j] \in Nat
        BY <1>2, ElementOf
      <4>3. \A p \in Asked(P) : p.gen \in Nat
        BY <1>1 DEF PostsOk, Asked
      <4>4. \A a, b \in 1..m : a <= b => l.runs[a] <= l.runs[b]
        BY <1>1 DEF PlacesOk, m
      <4>5. /\ \A j \in 1..Len(q) : l.runs[run] <= q[j]
            /\ \A p \in Asked(P) : l.runs[run] <= p.gen
        BY <1>1, <1>4 DEF PlacesOk, m
      <4>6. /\ \A a \in 1..m : l.runs[a] <= c.gen
            /\ \A j \in 1..Len(q) : q[j] <= c.gen
            /\ \A p \in Asked(P) : p.gen <= c.gen
        BY <1>1 DEF PlacesOk, m
      <4> QED BY <4>1, <4>2, <4>3, <4>4, <4>5, <4>6
    <3>3. \A j \in 1..Len(v) : l.runs[v[j].run] = c.gen
      <4> TAKE j \in 1..Len(v)
      <4>1. l.runs[run] <= l.runs[v[j].run] /\ l.runs[v[j].run] <= c.gen /\ l.runs[v[j].run] \in Nat
        BY <1>4, <1>5, <3>2
      <4> QED BY <1>7, <3>1, <4>1
    <3>4. \A j \in 1..Len(q) : q[j] = c.gen
      BY <1>7, <3>1, <3>2
    <3>5. \A p \in Asked(P) : p.gen = c.gen
      BY <1>7, <3>1, <3>2
    <3> QED BY <3>3, <3>4, <3>5 DEF Fresh
  <2> QED BY <1>10, <2>1, <2>2
<1>15. HeardOk(e, v, m, res)
  BY <1>1, <1>3, <1>6 DEF HeardOk, h
<1> QED BY <1>1, <1>6, <1>11, <1>12, <1>13, <1>14, <1>15 DEF Holds, e, run, v, z, m

\* A run's text is heard: it is of a later run than all results so far.
LEMMA TextHolds ==
  ASSUME NEW c, NEW P, NEW s, NEW w, NEW l, Holds(c, P, s, w, l), w # <<>>, w[1].kind = "text",
         NEW k, LogOk(k), k.runs = l.runs, k.results = l.results, l.odd \subseteq k.odd
  PROVE  Holds(OnText(c, w[1].run), P, s, Tail(w), k)
<1> DEFINE run == w[1].run
           e == OnText(c, run)
           z == Ended(s, l.runs)
           m == Len(l.runs)
           v == Tail(w)
           h == Len(w)
           res == l.results
<1>1. /\ DriverOk(c) /\ PostsOk(P) /\ ServerOk(s, l.runs) /\ LogOk(l)
      /\ WireOk(w, m, z) /\ TextsOk(c, w, z, res)
      /\ PlacesOk(c, P, s.queue, l.runs) /\ FreshOk(c, P, w, s.queue, l)
  BY DEF Holds
<1>2. z \in Int /\ m \in Nat /\ w \in Seq(Frames) /\ z <= z /\ m <= m
  BY <1>1, EndedRange DEF WireOk
<1>3. /\ h \in Nat /\ 1 \in 1..h /\ v \in Seq(Frames) /\ Len(v) = h - 1
      /\ \A j \in 1..Len(v) : j + 1 \in 1..h /\ 1 < j + 1 /\ v[j] = w[j + 1]
  <2>1. h \in Nat /\ h # 0
    BY <1>2, EmptyByLength
  <2>2. v \in Seq(Frames) /\ Len(v) = h - 1 /\ \A j \in 1..(h - 1) : v[j] = w[j + 1]
    BY <1>2, <2>1
  <2> QED BY <2>1, <2>2
<1>4. run \in 1..m /\ run \in Nat /\ run <= m
  BY <1>1, <1>2, <1>3 DEF WireOk
<1>5. \A j \in 1..Len(v) : run <= v[j].run
  BY <1>1, <1>3 DEF WireOk
<1>6. /\ DriverOk(e) /\ KeepsOwed(c, e) /\ StaysReady(c, e) /\ Owed(e) = Owed(c)
      /\ e.text = run /\ e.chain = c.chain /\ e.sync = c.sync /\ e.seq = c.seq
      /\ e.gen = c.gen /\ e.said = c.said /\ e.emitted = c.emitted /\ e.active = c.active
  BY <1>1, <1>4, OnTextEffect
<1> HIDE DEF run, e, z, m, v
<1>7. Within(w, v) /\ Within(s.queue, s.queue)
  BY <1>1, <1>2, <1>3, EndedRange, WithinCases DEF v
<1>8. WireOk(v, m, z)
  BY <1>1, <1>2, <1>3, <1>7, WireKept
<1>9. TextsOk(e, v, z, res)
  <2>1. \A j \in 1..Len(v) : \E b \in 1..Len(w) : v[j] = w[b]
    BY <1>7 DEF Within
  <2>2. TextsOk(c, v, z, res)
    BY <1>1, <2>1 DEF TextsOk
  <2> QED BY <1>6, <2>2 DEF TextsOk
<1>10. HeardOk(e, v, m, res)
  <2>1. Tells(w[1])
    BY DEF Tells
  <2>2. /\ \A i \in Owed(c) : c.chain[i].run < run
        /\ \A i \in 1..Len(res) : res[i].run < run
    BY <1>1, <1>3, <2>1 DEF TextsOk, h, run
  <2> QED BY <1>4, <1>5, <1>6, <2>2 DEF HeardOk
<1>11. PlacesOk(e, P, s.queue, l.runs)
  BY <1>1, <1>6 DEF PlacesOk
<1>12. FreshOk(e, P, v, s.queue, k)
  <2>1. Asked(P) \subseteq Asked(P)
    OBVIOUS
  <2> QED BY <1>1, <1>6, <1>7, <2>1, FreshKept
<1> QED BY <1>1, <1>6, <1>8, <1>9, <1>10, <1>11, <1>12 DEF Holds, e, run, v, z, m

\* A frame is read.  A turn is opened only by a run of this generation.
LEMMA ReadFrameKeeps ==
  ASSUME IInv, ReadFrame
  PROVE  /\ IInv'
         /\ d'.seq = d.seq \/ (Head(wire).kind = "busy" /\ Ready(d))
<1>0. PICK mcp \in BOOLEAN :
       LET ev == Head(wire)
           c == CASE ev.kind = "busy" -> OnBusy(d)
                  [] ev.kind = "text" -> OnText(d, ev.run)
                  [] ev.kind = "idle" -> OnIdle(d, ev.run)
                  [] ev.kind = "ask"  -> OnAsk(d, mcp)
       IN  /\ d' = [c EXCEPT !.chunk = (c.sync = "due")]
           /\ srv' = IF ev.kind = "ask" /\ d.ending THEN [srv EXCEPT !.asking = FALSE] ELSE srv
           /\ log' = [log EXCEPT !.odd = @ \union Oddities(ev, mcp), !.dry = 0]
  BY DEF ReadFrame
<1> DEFINE ev == Head(wire)
           c == CASE ev.kind = "busy" -> OnBusy(d)
                  [] ev.kind = "text" -> OnText(d, ev.run)
                  [] ev.kind = "idle" -> OnIdle(d, ev.run)
                  [] ev.kind = "ask"  -> OnAsk(d, mcp)
           x == log.odd \union Oddities(ev, mcp)
           v == Tail(wire)
<1>1. /\ DriverOk(d) /\ d \in DriverRecord /\ LogOk(log) /\ ServerOk(srv, log.runs)
      /\ ConnOk(conn) /\ wire \in Seq(Frames) /\ srv.queue \in Seq(Nat)
      /\ Holds(d, posts, srv, wire, log)
  BY StateTypes DEF IInv
<1>2. wire # <<>> /\ ev = wire[1] /\ ev \in Frames /\ v \in Seq(Frames)
  <2>1. wire # <<>>
    BY DEF ReadFrame
  <2>2. Len(wire) \in Nat /\ Len(wire) # 0
    BY <1>1, <2>1, EmptyByLength
  <2>3. wire[1] \in Frames
    BY <1>1, <2>2
  <2> QED BY <1>1, <2>1, <2>2, <2>3
<1>3. /\ d' = [c EXCEPT !.chunk = (c.sync = "due")]
      /\ srv' = IF ev.kind = "ask" /\ d.ending THEN [srv EXCEPT !.asking = FALSE] ELSE srv
      /\ log' = [log EXCEPT !.odd = x, !.dry = 0] /\ wire' = v
      /\ conn' = [conn EXCEPT !.delivered = TRUE, !.failures = IF conn.delivered THEN @ ELSE 0]
      /\ UNCHANGED <<stops, posts>>
  BY <1>0 DEF ReadFrame
<1>4. Within(wire, v) /\ Within(srv.queue, srv.queue)
  BY <1>1, <1>2, WithinCases
<1>5. ServerOk(srv', log.runs) /\ srv'.running = srv.running /\ srv'.queue = srv.queue
  BY <1>1, <1>3, ServerFlags
<1>6. /\ x \subseteq {"stale", "early", "lost", "unheard", "orphan"} /\ log.odd \subseteq x
      /\ ev.kind = "idle" /\ d.active /\ log.runs[ev.run] # d.turnGen => "stale" \in x
  BY <1>1 DEF LogOk, Oddities
<1> HIDE DEF x, v
<1>7. /\ LogOk(log') /\ log'.runs = log.runs /\ log'.results = log.results /\ log'.odd = x
  BY <1>1, <1>3, <1>6 DEF LogOk
<1>8. ConnOk(conn')
  <2> DEFINE y == IF conn.delivered THEN conn.failures ELSE 0
  <2>1. y \in Nat /\ y <= MAX_SSE_FAILURES /\ (~conn.closed => y < MAX_SSE_FAILURES)
    BY <1>1, OpenCodeAssumption DEF ConnOk
  <2>2. conn' = [conn EXCEPT !.delivered = TRUE, !.failures = y]
    BY <1>3
  <2> HIDE DEF y
  <2> QED BY <1>1, <2>1, <2>2 DEF ConnOk
<1>9. /\ DriverOk(c) /\ Holds(c, posts, srv', v, log')
      /\ c.seq = d.seq \/ (ev.kind = "busy" /\ Ready(d))
  <2>1. ASSUME DriverOk(c), Keeps(d, c), StaysReady(d, c), c.said = d.said
        PROVE  Holds(c, posts, srv', v, log')
    <3>1. posts \subseteq posts /\ log.odd \subseteq log'.odd
      BY <1>6, <1>7
    <3> HIDE DEF c
    <3> QED BY <1>1, <1>2, <1>4, <1>5, <1>7, <2>1, <3>1, Moves
  <2>2. CASE ev.kind = "busy"
    <3>1. c = OnBusy(d)
      BY <2>2
    <3> HIDE DEF c
    <3> QED BY <1>1, <2>1, <2>2, <3>1, OnBusyEffect
  <2>3. CASE ev.kind = "ask"
    <3>1. c = d \/ c = [d EXCEPT !.awaiting = TRUE] \/ c = Parked(d)
      BY <2>3 DEF OnAsk
    <3> HIDE DEF c
    <3>2. DriverOk(c) /\ Follows(d, c)
      BY <1>1, <3>1, FlagEffects, CoreEffect, FollowsItself, Zenon
    <3> QED BY <2>1, <3>2 DEF Follows
  <2>4. CASE ev.kind = "idle"
    <3>1. c = OnIdle(d, ev.run) /\ ev.run \in Nat /\ srv' = srv
      BY <1>2, <1>3, <2>4 DEF Frames
    <3> HIDE DEF c, ev
    <3>2. DriverOk(c) /\ c.seq = d.seq /\ (~d.active => Follows(d, c))
      BY <1>1, <3>1, OnIdleEffect
    <3>3. CASE ~d.active
      BY <2>1, <3>2, <3>3 DEF Follows
    <3>4. CASE d.active
      <4>1. Holds(c, posts, srv, v, log')
        BY <1>1, <1>2, <1>6, <1>7, <2>4, <3>1, <3>4, IdleHolds DEF v
      <4> QED BY <3>1, <3>2, <4>1
    <3> QED BY <3>3, <3>4
  <2>5. CASE ev.kind = "text"
    <3>1. c = OnText(d, ev.run) /\ ev.run \in Nat /\ srv' = srv
      BY <1>2, <1>3, <2>5 DEF Frames
    <3> HIDE DEF c, ev
    <3>2. DriverOk(c) /\ c.seq = d.seq
      BY <1>1, <3>1, OnTextEffect
    <3>3. Holds(c, posts, srv, v, log')
      BY <1>1, <1>2, <1>6, <1>7, <2>5, <3>1, TextHolds DEF v
    <3> QED BY <3>1, <3>2, <3>3
  <2> QED BY <1>2, <2>2, <2>3, <2>4, <2>5 DEF Frames
<1> HIDE DEF c, ev
<1>10. DriverOk(d') /\ Follows(c, d')
  <2> DEFINE b == (c.sync = "due")
  <2>1. b \in BOOLEAN /\ c \in DriverRecord
    BY <1>9, DriverTypes
  <2> HIDE DEF b
  <2>2. Core(c, [c EXCEPT !.chunk = b])
    BY <2>1, FlagEffects, Zenon
  <2> QED BY <1>3, <1>9, <2>2, CoreEffect DEF b
<1>11. Holds(d', posts, srv', v, log')
  BY <1>9, <1>10, DriverMoves
<1>12. IInv'
  BY <1>3, <1>8, <1>11 DEF IInv
<1>13. d'.seq = c.seq
  BY <1>10 DEF Follows
<1> QED BY <1>9, <1>12, <1>13 DEF ev

\* A stop begins: its number and the generation it opens, its abort on the way.
LEMMA StopBegins ==
  ASSUME IInv, NEW i \in DOMAIN stops,
         stops' = [stops EXCEPT ![i] = [at |-> "asking", gen |-> d.gen + 1]],
         posts' = posts \union {Post("abort", i, d.gen + 1)}
  PROVE  StopsOk(stops') /\ PostsOk(posts') /\ Asked(posts') \subseteq Asked(posts)
<1>1. d.gen + 1 \in Nat /\ i \in Nat /\ i \in 0..MaxInterrupts
  BY StateTypes, DriverTypes, OpenCodeAssumption DEF IInv, StopsOk
<1>2. StopsOk(stops')
  BY <1>1 DEF IInv, StopsOk
<1>3. Post("abort", i, d.gen + 1) \in [kind : {"prompt", "follow", "command", "abort"}, n : Nat, gen : Nat]
      /\ Post("abort", i, d.gen + 1).kind = "abort"
  BY <1>1 DEF Post
<1>4. PostsOk(posts') /\ Asked(posts') \subseteq Asked(posts)
  BY <1>3, StateTypes DEF PostsOk, Asked
<1> QED BY <1>2, <1>4

LEMMA InterruptKeeps ==
  ASSUME IInv, NEW i \in DOMAIN stops, Interrupt(i) PROVE IInv' /\ d'.seq = d.seq
<1> DEFINE g == d.gen + 1
           e == [d EXCEPT !.gen = g, !.active = FALSE]
<1>1. DriverOk(d) /\ d \in DriverRecord /\ g \in Nat /\ d.gen <= g
  BY StateTypes, DriverTypes
<1>2. d' = CancelGate(e)
  BY DEF Interrupt
<1>3. /\ e \in DriverRecord /\ e.chain = d.chain /\ e.sync = d.sync /\ e.gen = g
      /\ e.said = d.said /\ e.active = FALSE /\ e.seq = d.seq /\ e.emitted = d.emitted
      /\ e.turnGen = d.turnGen /\ e.lastGen = d.lastGen /\ e.text = d.text
  <2> HIDE DEF g
  <2> QED BY <1>1 DEF DriverRecord
<1> HIDE DEF e
<1>4. /\ d' \in DriverRecord /\ d'.chain = d.chain /\ d'.sync = d.sync /\ d'.gen = g
      /\ d'.said = d.said /\ d'.active = FALSE /\ d'.seq = d.seq /\ d'.emitted = d.emitted
      /\ d'.turnGen = d.turnGen /\ d'.lastGen = d.lastGen /\ d'.text = d.text
  <2> HIDE DEF g
  <2> QED BY <1>2, <1>3 DEF CancelGate, DriverRecord
<1>5. /\ DriverOk(d') /\ Keeps(d, d') /\ ~Ready(d')
      /\ \A j \in Owed(d') : d'.chain[j].gen # d'.gen
  BY <1>1, <1>4, WithdrawnEffect
<1>6. StopsOk(stops') /\ PostsOk(posts') /\ Asked(posts') \subseteq Asked(posts)
  BY StopBegins DEF Interrupt
<1>7. ServerOk(srv', log.runs) /\ srv'.running = srv.running /\ srv'.queue = srv.queue
  BY StateTypes, ServerFlags DEF Interrupt
<1>8. Holds(d', posts', srv', wire, log)
  BY <1>1, <1>4, <1>5, <1>6, <1>7, StateTypes, Withdraws
<1> QED BY <1>4, <1>6, <1>8 DEF Interrupt, IInv

LEMMA ShutdownKeeps == ASSUME IInv, Shutdown PROVE IInv' /\ d'.seq = d.seq
<1> DEFINE g == d.gen + 1
           e == [d EXCEPT !.closed = TRUE, !.gen = g, !.active = FALSE]
<1>1. DriverOk(d) /\ d \in DriverRecord /\ g \in Nat /\ d.gen <= g
  BY StateTypes, DriverTypes
<1>2. d' = CancelGate(e)
  BY DEF Shutdown
<1>3. /\ e \in DriverRecord /\ e.chain = d.chain /\ e.sync = d.sync /\ e.gen = g
      /\ e.said = d.said /\ e.active = FALSE /\ e.seq = d.seq /\ e.emitted = d.emitted
      /\ e.turnGen = d.turnGen /\ e.lastGen = d.lastGen /\ e.text = d.text
  <2> HIDE DEF g
  <2> QED BY <1>1 DEF DriverRecord
<1> HIDE DEF e
<1>4. /\ d' \in DriverRecord /\ d'.chain = d.chain /\ d'.sync = d.sync /\ d'.gen = g
      /\ d'.said = d.said /\ d'.active = FALSE /\ d'.seq = d.seq /\ d'.emitted = d.emitted
      /\ d'.turnGen = d.turnGen /\ d'.lastGen = d.lastGen /\ d'.text = d.text
  <2> HIDE DEF g
  <2> QED BY <1>2, <1>3 DEF CancelGate, DriverRecord
<1>5. /\ DriverOk(d') /\ Keeps(d, d') /\ ~Ready(d')
      /\ \A j \in Owed(d') : d'.chain[j].gen # d'.gen
  BY <1>1, <1>4, WithdrawnEffect
<1>6. StopsOk(stops') /\ PostsOk(posts') /\ Asked(posts') \subseteq Asked(posts)
  <2>1. 0 \in DOMAIN stops
    BY OpenCodeAssumption DEF IInv, StopsOk
  <2> QED BY <2>1, StopBegins DEF Shutdown
<1>7. ServerOk(srv', log.runs) /\ srv'.running = srv.running /\ srv'.queue = srv.queue
  BY StateTypes, ServerFlags DEF Shutdown
<1>8. Holds(d', posts', srv', wire, log)
  BY <1>1, <1>4, <1>5, <1>6, <1>7, StateTypes, Withdraws
<1> QED BY <1>4, <1>6, <1>8 DEF Shutdown, IInv

LEMMA ForceStopKeeps == ASSUME IInv, ForceStop PROVE IInv' /\ d'.seq = d.seq
<1> DEFINE g == d.gen + 1
<1>1. /\ DriverOk(d) /\ d \in DriverRecord /\ g \in Nat /\ d.gen <= g
      /\ PostsOk(posts) /\ ServerOk(srv, log.runs) /\ Holds(d, posts, srv, wire, log)
  BY StateTypes, DriverTypes
<1>2. d' = [d EXCEPT !.gen = g, !.finished = TRUE, !.over = "retired"]
  BY DEF ForceStop
<1>3. /\ d' \in DriverRecord /\ d'.chain = d.chain /\ d'.sync = d.sync /\ d'.gen = g
      /\ d'.said = d.said /\ d'.active = d.active /\ d'.seq = d.seq /\ d'.emitted = d.emitted
      /\ d'.turnGen = d.turnGen /\ d'.lastGen = d.lastGen /\ d'.text = d.text
  <2> HIDE DEF g
  <2> QED BY <1>1, <1>2 DEF DriverRecord
<1>4. /\ DriverOk(d') /\ Keeps(d, d') /\ ~Ready(d')
      /\ \A j \in Owed(d') : d'.chain[j].gen # d'.gen
  BY <1>1, <1>3, WithdrawnEffect
<1>5. Holds(d', posts, srv, wire, log)
  <2>1. Asked(posts) \subseteq Asked(posts)
    OBVIOUS
  <2> QED BY <1>1, <1>3, <1>4, <2>1, Withdraws
<1> QED BY <1>3, <1>5 DEF ForceStop, IInv

\* An abort is answered.
LEMMA StopAnsweredEffect ==
  ASSUME IInv, NEW p \in posts, p.kind = "abort", StopAnswered(p.n)
  PROVE  DriverOk(d') /\ Follows(d, d') /\ StopsOk(stops')
<1>1. DriverOk(d) /\ StopsOk(stops)
  BY StateTypes DEF IInv
<1>2. DriverOk(d') /\ Follows(d, d')
  BY <1>1, ChainEffect, FollowsItself DEF StopAnswered
<1>3. StopsOk(stops')
  <2>1. PICK x \in {"done", "syncing"}, i \in Nat : stops' = [stops EXCEPT ![i].at = x]
    BY StateTypes DEF StopAnswered, PostsOk
  <2> QED BY <1>1, <2>1 DEF StopsOk
<1> QED BY <1>2, <1>3

LEMMA SrvTakesKeeps ==
  ASSUME IInv, NEW p \in posts, SrvTakes(p) PROVE IInv' /\ d'.seq = d.seq
<1> DEFINE t == [srv EXCEPT !.queue = Append(@, p.gen)]
           P == posts \ {p}
<1>1. p \in Asked(posts) /\ \A x \in Asked(posts) : p.n <= x.n
  BY DEF SrvTakes, Asked
<1>2. Holds(d, P, t, wire, log)
  BY <1>1, StateTypes, PromptTaken
<1>3. t.running = srv.running
  BY StateTypes DEF ServerOk
<1>4. /\ \/ srv.running = 0 /\ Starts(t, <<>>)
         \/ srv' = t /\ UNCHANGED <<wire, log>>
      /\ posts' = P /\ UNCHANGED <<d, stops, conn>>
  BY DEF SrvTakes
<1> HIDE DEF t, P
<1>5. Holds(d, P, srv', wire', log')
  BY <1>2, <1>3, <1>4, StartsHolds
<1> QED BY <1>4, <1>5 DEF IInv

LEMMA SrvFoldsKeeps == ASSUME IInv, SrvFolds PROVE IInv' /\ d'.seq = d.seq
<1> DEFINE r == Tail(srv.queue)
<1>1. /\ DriverOk(d) /\ ServerOk(srv, log.runs) /\ LogOk(log) /\ wire \in Seq(Frames)
      /\ srv.queue \in Seq(Nat) /\ Holds(d, posts, srv, wire, log)
  BY StateTypes
<1>2. r \in Seq(Nat) /\ Within(srv.queue, r) /\ Within(wire, wire)
  BY <1>1, WithinCases DEF SrvFolds
<1>3. srv' = [srv EXCEPT !.queue = r] /\ UNCHANGED <<d, stops, posts, conn, wire, log>>
  BY DEF SrvFolds
<1> HIDE DEF r
<1>4. ServerOk(srv', log.runs) /\ srv'.queue = r /\ srv'.running = srv.running
  BY <1>1, <1>2, <1>3 DEF ServerOk
<1>5. Holds(d, posts, srv', wire, log)
  <2>1. Keeps(d, d) /\ StaysReady(d, d)
    BY <1>1, FollowsItself DEF Follows
  <2> QED BY <1>1, <1>2, <1>4, <2>1, Moves
<1> QED BY <1>3, <1>5 DEF IInv

LEMMA SrvEndsKeeps == ASSUME IInv, SrvEnds PROVE IInv' /\ d'.seq = d.seq
<1>1. Holds(d, posts, srv', wire', log')
  BY StateTypes, StartsHolds DEF SrvEnds
<1> QED BY <1>1 DEF SrvEnds, IInv

LEMMA SrvAsksKeeps == ASSUME IInv, SrvAsks PROVE IInv' /\ d'.seq = d.seq
<1> DEFINE f == Frame("ask", srv.running)
           n == srv.asked + 1
           o == log.odd \union LostBy(<<f>>)
<1>1. /\ ServerOk(srv, log.runs) /\ LogOk(log) /\ wire \in Seq(Frames) /\ srv.running # 0
      /\ Holds(d, posts, srv, wire, log)
  BY StateTypes DEF SrvAsks
<1>2. /\ srv' = [srv EXCEPT !.asking = TRUE, !.asked = n] /\ log' = [log EXCEPT !.odd = o]
      /\ Says(<<f>>) /\ UNCHANGED <<d, stops, posts, conn>>
  BY DEF SrvAsks
<1>3. f \in Frames /\ n \in Nat
  BY <1>1 DEF ServerOk, Frame, Frames
<1>4. o \subseteq {"stale", "early", "lost", "unheard", "orphan"} /\ log.odd \subseteq o
  BY <1>1 DEF LogOk, LostBy, Losing
<1>5. wire' = wire \/ wire' = Append(wire, f)
  <2>1. wire \o <<f>> = Append(wire, f)
    BY <1>1, <1>3
  <2> QED BY <1>2, <2>1 DEF Says
<1> HIDE DEF n, o
<1>6. ServerOk(srv', log.runs) /\ srv'.queue = srv.queue /\ srv'.running = srv.running
  BY <1>1, <1>2, <1>3 DEF ServerOk
<1>7. LogOk(log') /\ log'.runs = log.runs /\ log'.results = log.results /\ log.odd \subseteq log'.odd
  BY <1>1, <1>2, <1>4 DEF LogOk
<1>8. Holds(d, posts, srv', wire', log')
  BY <1>1, <1>5, <1>6, <1>7, SaysHolds
<1> QED BY <1>2, <1>8 DEF IInv

LEMMA SrvWritesKeeps == ASSUME IInv, SrvWrites PROVE IInv' /\ d'.seq = d.seq
<1> DEFINE f == Frame("text", srv.running)
           n == log.wrote \union {srv.running}
           o == log.odd \union LostBy(<<f>>)
<1>1. /\ ServerOk(srv, log.runs) /\ LogOk(log) /\ wire \in Seq(Frames) /\ srv.running # 0
      /\ Holds(d, posts, srv, wire, log)
  BY StateTypes DEF SrvWrites
<1>2. /\ log' = [log EXCEPT !.wrote = n, !.odd = o]
      /\ Says(<<f>>) /\ UNCHANGED <<d, stops, posts, srv, conn>>
  BY DEF SrvWrites
<1>3. f \in Frames /\ n \subseteq Nat
  BY <1>1 DEF ServerOk, LogOk, Frame, Frames
<1>4. o \subseteq {"stale", "early", "lost", "unheard", "orphan"} /\ log.odd \subseteq o
  BY <1>1 DEF LogOk, LostBy, Losing
<1>5. wire' = wire \/ wire' = Append(wire, f)
  <2>1. wire \o <<f>> = Append(wire, f)
    BY <1>1, <1>3
  <2> QED BY <1>2, <2>1 DEF Says
<1> HIDE DEF n, o
<1>6. LogOk(log') /\ log'.runs = log.runs /\ log'.results = log.results /\ log.odd \subseteq log'.odd
  BY <1>1, <1>2, <1>3, <1>4 DEF LogOk
<1>7. Holds(d, posts, srv, wire', log')
  BY <1>1, <1>5, <1>6, SaysHolds
<1> QED BY <1>2, <1>7 DEF IInv

LEMMA SrvAbortsKeeps ==
  ASSUME IInv, NEW p \in posts, SrvAborts(p) PROVE IInv' /\ d'.seq = d.seq
<1> DEFINE t == [srv EXCEPT !.queue = <<>>, !.asking = FALSE]
           P == posts \ {p}
<1>1. /\ DriverOk(d) /\ ServerOk(srv, log.runs) /\ LogOk(log) /\ wire \in Seq(Frames)
      /\ srv.queue \in Seq(Nat) /\ Holds(d, posts, srv, wire, log)
  BY StateTypes
<1>2. DriverOk(d') /\ Follows(d, d') /\ StopsOk(stops')
  BY StopAnsweredEffect DEF SrvAborts
<1>3. /\ \/ UNCHANGED <<srv, wire, log>>
         \/ srv.running # 0 /\ Starts(t, <<Frame("idle", srv.running)>>)
      /\ posts' = P /\ P \subseteq posts /\ UNCHANGED conn
  BY DEF SrvAborts
<1>4. /\ Within(wire, wire) /\ Within(srv.queue, srv.queue) /\ Within(srv.queue, <<>>)
      /\ log.odd \subseteq log.odd
  BY <1>1, WithinCases
<1>5. ServerOk(t, log.runs) /\ t.queue = <<>> /\ t.running = srv.running
  <2>1. <<>> \in Seq(Nat)
    OBVIOUS
  <2> QED BY <1>1, <2>1 DEF ServerOk
<1> HIDE DEF t, P
<1>6. Holds(d', P, srv, wire, log)
  BY <1>1, <1>2, <1>3, <1>4, Moves DEF Follows
<1>7. Holds(d', P, t, wire, log)
  BY <1>1, <1>2, <1>3, <1>4, <1>5, Moves DEF Follows
<1>8. Holds(d', P, srv', wire', log')
  BY <1>3, <1>5, <1>6, <1>7, StartsHolds
<1> QED BY <1>2, <1>3, <1>8 DEF IInv, Follows

LEMMA PostFailsKeeps ==
  ASSUME IInv, NEW p \in posts, PostFails(p) PROVE IInv' /\ d'.seq = d.seq
<1>1. DriverOk(d) /\ PostsOk(posts) /\ StopsOk(stops)
  BY StateTypes DEF IInv
<1>2. DriverOk(d') /\ Follows(d, d') /\ StopsOk(stops')
  <2>1. CASE p.kind = "abort"
    BY <2>1, StopAnsweredEffect DEF PostFails
  <2>2. CASE p.kind # "abort"
    <3>1. p.kind \in {"prompt", "follow", "command"}
      BY <1>1, <2>2 DEF PostsOk
    <3> QED BY <1>1, <2>2, <3>1, RefusedEffect DEF PostFails
  <2> QED BY <2>1, <2>2
<1>3. ServerOk(srv', log.runs) /\ srv'.running = srv.running /\ srv'.queue = srv.queue
  BY StateTypes, ServerFlags DEF PostFails
<1>4. IInv'
  BY <1>2, <1>3, Quiet DEF PostFails, IInv
<1> QED BY <1>2, <1>4 DEF Follows

LEMMA SrvExitsKeeps == ASSUME IInv, SrvExits PROVE IInv' /\ d'.seq = d.seq
<1> DEFINE n == IF d.finished THEN srv.failures ELSE srv.failures + 1
<1>1. /\ DriverOk(d) /\ ServerOk(srv, log.runs) /\ LogOk(log) /\ wire \in Seq(Frames)
      /\ srv.queue \in Seq(Nat) /\ ConnOk(conn) /\ Holds(d, posts, srv, wire, log)
  BY StateTypes DEF IInv
<1>2. /\ srv' = [srv EXCEPT !.up = FALSE, !.running = 0, !.queue = <<>>, !.asking = FALSE,
                            !.failures = n]
      /\ wire' = <<>> /\ conn' = [conn EXCEPT !.closed = TRUE, !.up = FALSE]
      /\ d' = d \/ d' = Chain(d, Reaction("exit"))
      /\ UNCHANGED <<stops, posts, log>>
  BY DEF SrvExits
<1>3. n \in Nat
  BY <1>1 DEF ServerOk
<1> HIDE DEF n
<1>4. ServerOk(srv', log.runs) /\ srv'.queue = <<>> /\ srv'.running = 0
  <2>1. <<>> \in Seq(Nat)
    OBVIOUS
  <2> QED BY <1>1, <1>2, <1>3, <2>1 DEF ServerOk
<1>5. ConnOk(conn')
  BY <1>1, <1>2 DEF ConnOk
<1>6. DriverOk(d') /\ Follows(d, d')
  BY <1>1, <1>2, ChainEffect, FollowsItself
<1>7. wire' \in Seq(Frames) /\ Within(wire, wire') /\ Within(srv.queue, srv'.queue)
  BY <1>1, <1>2, <1>4, WithinCases
<1>8. Holds(d', posts, srv', wire', log)
  BY <1>1, <1>4, <1>6, <1>7, Moves DEF Follows
<1> QED BY <1>2, <1>5, <1>6, <1>8 DEF IInv, Follows

-----------------------------------------------------------------------------
(* The theorems                                                              *)

LEMMA InitHolds == Init => IInv
<1> SUFFICES ASSUME Init PROVE IInv
  OBVIOUS
<1>1. d \in DriverRecord /\ d.chain = <<>> /\ d.sync = "none" /\ d.emitted = 0 /\ d.seq = 0
      /\ d.gen = 0 /\ d.lastGen = 0 /\ d.turnGen = 0 /\ ~d.active /\ d.text = 0
  BY DEF Init, DriverRecord
<1>2. DriverOk(d) /\ Owed(d) = {}
  BY <1>1 DEF DriverOk, Owed
<1>3. /\ ServerOk(srv, log.runs) /\ log.runs = <<>> /\ log.results = <<>>
      /\ srv.queue = <<>> /\ wire = <<>> /\ posts = {}
  BY DEF Init, ServerOk
<1>4. LogOk(log) /\ ConnOk(conn)
  BY OpenCodeAssumption DEF Init, LogOk, ConnOk
<1>5. StopsOk(stops)
  BY DEF Init, StopsOk
<1>6. PostsOk(posts) /\ Asked(posts) = {}
  BY <1>3 DEF PostsOk, Asked
<1>7. WireOk(wire, Len(log.runs), Ended(srv, log.runs))
  BY <1>3 DEF WireOk
<1>8. TextsOk(d, wire, Ended(srv, log.runs), log.results)
  BY <1>2, <1>3 DEF TextsOk
<1>9. PlacesOk(d, posts, srv.queue, log.runs)
  BY <1>3, <1>6 DEF PlacesOk
<1>10. FreshOk(d, posts, wire, srv.queue, log)
  BY <1>3, <1>6 DEF FreshOk, Fresh
<1>11. HeardOk(d, wire, Len(log.runs), log.results)
  BY <1>1, <1>3 DEF HeardOk
<1> QED BY <1>2, <1>3, <1>4, <1>5, <1>6, <1>7, <1>8, <1>9, <1>10, <1>11 DEF IInv, Holds

LEMMA Inductive == IInv /\ [Next]_vars => IInv'
<1> SUFFICES ASSUME IInv, [Next]_vars PROVE IInv'
  OBVIOUS
<1>1. CASE ReadFrame
  BY <1>1, ReadFrameKeeps
<1>2. CASE ReactionRuns
  BY <1>2, ReactionRunsKeeps
<1>3. CASE SyncReturns
  BY <1>3, SyncReturnsKeeps
<1>4. CASE StreamEnds
  BY <1>4, FailsKeeps DEF StreamEnds, Listening
<1>5. CASE ConnectFails
  BY <1>5, FailsKeeps DEF ConnectFails, Listening
<1>6. CASE Connects
  BY <1>6, ConnectsKeeps
<1>7. CASE Message
  BY <1>7, MessageKeeps
<1>8. CASE Command
  BY <1>8, CommandKeeps
<1>9. CASE CommandOpens
  BY <1>9, CommandOpensKeeps
<1>10. CASE Decide
  BY <1>10, DecideKeeps
<1>11. CASE Shutdown
  BY <1>11, ShutdownKeeps
<1>12. CASE End
  BY <1>12, EndKeeps
<1>13. CASE Retire
  BY <1>13, RetireKeeps
<1>14. CASE ForceStop
  BY <1>14, ForceStopKeeps
<1>15. CASE \E i \in DOMAIN stops : Interrupt(i) \/ StopSynced(i)
  BY <1>15, InterruptKeeps, StopSyncedKeeps
<1>16. CASE \E p \in posts : SrvTakes(p) \/ SrvAborts(p) \/ PostFails(p)
  BY <1>16, SrvTakesKeeps, SrvAbortsKeeps, PostFailsKeeps
<1>17. CASE SrvFolds
  BY <1>17, SrvFoldsKeeps
<1>18. CASE SrvEnds
  BY <1>18, SrvEndsKeeps
<1>19. CASE SrvAsks
  BY <1>19, SrvAsksKeeps
<1>20. CASE SrvExits
  BY <1>20, SrvExitsKeeps
<1>21. CASE AskParks
  BY <1>21, AskParksKeeps
<1>22. CASE SrvWrites
  BY <1>22, SrvWritesKeeps
<1>23. CASE UNCHANGED vars
  BY <1>23 DEF vars, IInv
<1> QED BY <1>1, <1>2, <1>3, <1>4, <1>5, <1>6, <1>7, <1>8, <1>9, <1>10, <1>11, <1>12, <1>13,
           <1>14, <1>15, <1>16, <1>17, <1>18, <1>19, <1>20, <1>21, <1>22, <1>23 DEF Next

\* A turn is opened by a prompt, or by a run of this generation as it is read.
LEMMA OpensByPromptOrRun ==
  ASSUME IInv, Next
  PROVE  \/ d'.seq = d.seq \/ UNCHANGED wire
         \/ ReadFrame /\ Head(wire).kind = "busy" /\ Ready(d)
<1>1. CASE ReadFrame
  BY <1>1, ReadFrameKeeps
<1>2. CASE \/ ReactionRuns \/ SyncReturns \/ Connects \/ Command \/ AskParks \/ Decide \/ End
          \/ Retire
  BY <1>2 DEF ReactionRuns, Connects, Command, AskParks, Decide, End, Retire, SyncReturns
<1>3. CASE StreamEnds \/ ConnectFails
  BY <1>3, FailsKeeps DEF StreamEnds, ConnectFails, Listening
<1>4. CASE Message \/ CommandOpens
  BY <1>4 DEF Message, CommandOpens
<1>5. CASE Shutdown \/ ForceStop \/ SrvFolds
  BY <1>5 DEF Shutdown, ForceStop, SrvFolds
<1>6. CASE SrvEnds \/ SrvAsks \/ SrvWrites
  BY <1>6 DEF SrvEnds, SrvAsks, SrvWrites
<1>7. CASE SrvExits
  BY <1>7, SrvExitsKeeps
<1>8. CASE \E i \in DOMAIN stops : Interrupt(i) \/ StopSynced(i)
  BY <1>8 DEF Interrupt, StopSynced
<1>9. CASE \E p \in posts : SrvTakes(p) \/ SrvAborts(p) \/ PostFails(p)
  BY <1>9, SrvAbortsKeeps DEF SrvTakes, PostFails
<1> QED BY <1>1, <1>2, <1>3, <1>4, <1>5, <1>6, <1>7, <1>8, <1>9 DEF Next

\* Every variable keeps its type; the chain of reactions and its sync agree, a stream
\* that is open has not failed MAX_SSE_FAILURES times, and no result is emitted of a turn
\* that was not opened.
THEOREM TypeCorrect == Spec => []TypeOK
<1>1. IInv => TypeOK
  <2> SUFFICES ASSUME IInv PROVE TypeOK
    OBVIOUS
  <2>1. DriverOk(d) /\ d \in DriverRecord /\ ServerOk(srv, log.runs) /\ LogOk(log) /\ ConnOk(conn)
    BY StateTypes DEF IInv
  <2>2. /\ d.state \in {"idle", "working", "blocked"}
        /\ d.over \in {"none", "ended", "error", "retired"}
        /\ d.sync \in {"none", "due", "result", "finish", "fail"}
        /\ d.ctl \in {"none", "command"} /\ d.emitted \in Nat /\ d.seq \in Nat
    BY <2>1 DEF DriverRecord
  <2>3. d.sync = "none" <=> d.chain = <<>>
    BY <2>1 DEF DriverOk
  <2>4. d.emitted \in 0..d.seq
    BY <2>1, <2>2 DEF DriverOk
  <2>5. conn.failures \in 0..MAX_SSE_FAILURES /\ (conn.up => ~conn.closed)
    BY <2>1, OpenCodeAssumption DEF ConnOk
  <2>6. srv.running \in 0..Len(log.runs)
    BY <2>1, EndedRange DEF ServerOk
  <2>7. log.odd \subseteq {"stale", "early", "lost", "unheard", "orphan"}
    BY <2>1 DEF LogOk
  <2> QED BY <2>2, <2>3, <2>4, <2>5, <2>6, <2>7 DEF TypeOK
<1> QED BY <1>1, InitHolds, Inductive, PTL DEF Spec

\* Results are of one turn after the other, and what a run said is in one of them at
\* most and before what later runs said: a turn is armed with no text, and all that its
\* snapshot can hold was heard after the last result's run was idle, however prompts,
\* interrupts, syncs and lost events fall.
THEOREM ResultsAreInOrder == Spec => []ResultsInOrder
<1>1. IInv => ResultsInOrder
  <2> DEFINE a(k) == log.results[k]
  <2> SUFFICES ASSUME IInv, NEW k \in DOMAIN log.results, NEW l \in DOMAIN log.results, k < l
               PROVE  a(k).seq < a(l).seq /\ (a(l).text # 0 => a(k).text < a(l).text)
    BY DEF ResultsInOrder
  <2>1. log.results \in Seq(Results)
    BY StateTypes, EndedRange
  <2>2. k \in 1..Len(log.results) /\ l \in 1..Len(log.results)
    <3>1. DOMAIN log.results = 1..Len(log.results)
      BY <2>1, DomainOf
    <3> QED BY <3>1
  <2>3. a(k).text \in Nat /\ a(k).run \in Nat /\ a(l).text \in Nat
    <3>1. a(k) \in Results /\ a(l) \in Results
      BY <2>1, <2>2, ElementOf
    <3> QED BY <3>1 DEF Results
  <2>4. a(k).text <= a(k).run /\ a(k).seq < a(l).seq /\ Past(a(k).run, a(l))
    BY <2>2 DEF IInv, Holds, TextsOk
  <2>5. a(l).text # 0 => a(k).run < a(l).text
    BY <2>4 DEF Past
  <2> HIDE DEF a
  <2> QED BY <2>3, <2>4, <2>5
<1> QED BY <1>1, InitHolds, Inductive, PTL DEF Spec

\* A run whose prompt an interrupt withdrew is not taken up as a turn again: whoever is
\* ready for a run has only runs of its own generation to come.
THEOREM WithdrawnStaysWithdrawn == Spec => NeverResurrected
<1> DEFINE Step == \A n \in 1..Len(log.runs) :
              wire # <<>> /\ Head(wire) = Frame("busy", n) /\ wire' = Tail(wire) /\ d'.seq > d.seq
                /\ "stale" \notin log.odd => log.runs[n] = d.gen
<1>1. IInv /\ [Next]_vars => [Step]_vars
  <2> SUFFICES ASSUME IInv, Next, NEW n \in 1..Len(log.runs), wire # <<>>,
                      Head(wire) = Frame("busy", n), wire' = Tail(wire), d'.seq > d.seq,
                      "stale" \notin log.odd
               PROVE  log.runs[n] = d.gen
    OBVIOUS
  <2>1. /\ DriverOk(d) /\ wire \in Seq(Frames) /\ FreshOk(d, posts, wire, srv.queue, log)
    BY StateTypes DEF Holds
  <2>2. Len(wire) \in Nat /\ Len(wire) # 0 /\ wire[1] = Frame("busy", n) /\ 1 \in 1..Len(wire)
    <3>1. Len(wire) \in Nat /\ Len(wire) # 0
      BY <2>1, EmptyByLength
    <3> QED BY <2>1, <3>1
  <2>3. wire' # wire
    <3>1. Len(Tail(wire)) = Len(wire) - 1
      BY <2>1
    <3>2. Len(wire) # Len(wire) - 1
      BY <2>2
    <3> QED BY <3>1, <3>2, Zenon
  <2>4. d'.seq # d.seq
    BY <2>1, DriverTypes
  <2>5. Ready(d)
    BY <2>3, <2>4, OpensByPromptOrRun
  <2>6. \A i \in 1..Len(wire) : wire[i].kind = "busy" => log.runs[wire[i].run] = d.gen
    BY <2>1, <2>5 DEF FreshOk, Fresh
  <2> QED BY <2>2, <2>6 DEF Frame
<1>2. Spec => []IInv
  BY InitHolds, Inductive, PTL DEF Spec
<1>3. Spec => [][Step]_vars
  BY <1>1, <1>2, PTL DEF Spec
<1> QED BY <1>3 DEF NeverResurrected
=============================================================================
