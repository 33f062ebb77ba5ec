--------------------------- MODULE LiveSetupProofs ---------------------------
(***************************************************************************)
(* Proofs about LiveSetup for any members, messages and sequence of        *)
(* set-ups.  The handlers are compositions of operators on the session     *)
(* record, and the proofs follow them: for each operator a lemma says what *)
(* it keeps, for each action one puts those together.                      *)
(***************************************************************************)
EXTENDS LiveSetup, QueueLemmas

\* Who may be named: a member or nobody.
Whose == Members \union {NoOne}
\* A held message and, below, one handed to a harness, see Item and Heard.
HeldItem == [m : Messages, n : Nat, said : Nat]
HeardItem == [m : Messages, n : Nat, said : Nat, spec : Nat, filter : Whose]

\* What the session record holds.
Session ==
  [state : States, setup : SetupRec \union {NoSetup},
   swapping : SetupRec \union {NoSetup}, applied : Nat, latest : Nat,
   timer : BOOLEAN, held : Seq(HeldItem), taken : SUBSET Messages,
   takenCount : Nat, authorFilter : Whose, answersFrom : Whose, owner : Whose,
   busy : {"none", "call", "setup"}, ending : BOOLEAN, asks : BOOLEAN,
   park : {"none", "task", "sleep"}, background : BOOLEAN, settled : BOOLEAN,
   selfTurns : Nat, harness : Nat, closed : BOOLEAN, spec : Nat]

\* What neither an end nor a drop of the held input touches.
SameBase(t, u) ==
  /\ u.swapping = t.swapping /\ u.latest = t.latest /\ u.takenCount = t.takenCount
  /\ u.authorFilter = t.authorFilter /\ u.owner = t.owner
  /\ u.harness = t.harness /\ u.spec = t.spec
  /\ u.busy = t.busy /\ u.selfTurns = t.selfTurns

\* Parts of the record that one operator leaves alone and another changes.
SameHeld(t, u) == u.held = t.held /\ u.taken = t.taken
SameSetup(t, u) == u.setup = t.setup /\ u.answersFrom = t.answersFrom
SameEnd(t, u) == u.ending = t.ending /\ u.closed = t.closed

Same(t, u) == SameBase(t, u) /\ SameHeld(t, u) /\ SameSetup(t, u) /\ SameEnd(t, u)

HeldDropped(t, u) == u.held = <<>> /\ u.taken = Forget(t, ToSet(t.held))

\* resumeIfUnblocked() moves at most from blocked to working.
LEMMA ResumeEffect ==
  ASSUME NEW t \in Session
  PROVE  LET u == ResumeIfUnblocked(t)
         IN  /\ u \in Session /\ Same(t, u)
             /\ u.asks = t.asks /\ u.park = t.park
             /\ Done(u) = Done(t) /\ (Done(t) => u.state = t.state)
BY DEF ResumeIfUnblocked, Session, Same, SameBase, SameHeld, SameSetup, SameEnd,
       Done, States

\* cancelPending() leaves nothing asked or parked and touches no set-up or input.
LEMMA CancelPendingEffect ==
  ASSUME NEW t \in Session
  PROVE  LET u == CancelPending(t)
         IN  /\ u \in Session /\ Same(t, u) /\ ~u.asks /\ u.park = "none"
             /\ Done(u) = Done(t) /\ (Done(t) => u.state = t.state)
<1> USE DEF Same, SameBase, SameHeld, SameSetup, SameEnd
<1>1. CASE t.park = "none"
  BY <1>1 DEF CancelPending, Session, Done, States
<1>2. CASE t.park # "none"
  <2> DEFINE v == [t EXCEPT !.asks = FALSE, !.park = "none"]
  <2>1. v \in Session /\ Same(t, v) /\ ~v.asks /\ v.park = "none" /\ v.state = t.state
    BY DEF Session
  <2>2. CancelPending(t) = ResumeIfUnblocked(v)
    BY <1>2 DEF CancelPending, Session
  <2> HIDE DEF v
  <2> QED BY <2>1, <2>2, ResumeEffect DEF Done
<1> QED BY <1>1, <1>2

\* dropHeld() empties the held input and touches nothing else.
LEMMA DropHeldEffect ==
  ASSUME NEW t \in Session
  PROVE  LET u == DropHeld(t)
         IN  /\ u \in Session /\ SameBase(t, u) /\ SameSetup(t, u) /\ SameEnd(t, u)
             /\ HeldDropped(t, u) /\ u.state = t.state /\ u.asks = t.asks
<1>1. Forget(t, ToSet(t.held)) \in SUBSET Messages /\ <<>> \in Seq(HeldItem)
  BY DEF Forget, Session
<1> QED
  BY <1>1 DEF DropHeld, Session, SameBase, SameSetup, SameEnd, HeldDropped

\* abandonSetup() drops the set-up with what it holds, and nothing else.
LEMMA AbandonSetupEffect ==
  ASSUME NEW t \in Session
  PROVE  LET u == AbandonSetup(t)
         IN  /\ u \in Session /\ SameBase(t, u) /\ SameEnd(t, u) /\ HeldDropped(t, u)
             /\ u.setup = NoSetup /\ u.answersFrom = NoOne
             /\ u.state = t.state /\ u.asks = t.asks
<1> DEFINE v == [t EXCEPT !.setup = NoSetup, !.answersFrom = NoOne, !.timer = FALSE]
<1>1. /\ v \in Session /\ v.setup = NoSetup /\ v.answersFrom = NoOne
      /\ SameBase(t, v) /\ SameHeld(t, v) /\ SameEnd(t, v)
      /\ v.state = t.state /\ v.asks = t.asks
  BY DEF Session, Whose, SameBase, SameHeld, SameEnd
<1>2. AbandonSetup(t) = DropHeld(v)
  BY DEF AbandonSetup
<1> HIDE DEF v
<1>3. Forget(v, ToSet(v.held)) = Forget(t, ToSet(t.held))
  BY <1>1 DEF Forget, SameHeld
<1> QED
  BY <1>1, <1>2, <1>3, DropHeldEffect
     DEF SameBase, SameHeld, SameSetup, SameEnd, HeldDropped

\* beginEnd() ends the session without a harness at once; with one it only closes
\* the harness's input.
LEMMA BeginEndEffect ==
  ASSUME NEW t \in Session
  PROVE  LET u == BeginEnd(t)
         IN  /\ u \in Session /\ SameBase(t, u) /\ SameHeld(t, u) /\ SameSetup(t, u)
             /\ u.ending = t.ending /\ u.asks = t.asks
             /\ Done(t) => u.state = t.state
             /\ t.harness = 0 => Done(u) /\ u.closed = t.closed
             /\ t.harness # 0 => u.state = t.state /\ u.closed
<1> USE DEF SameBase, SameHeld, SameSetup
<1>1. CASE t.harness = 0
  BY <1>1 DEF BeginEnd, EndNeverStarted, Session, Done, States
<1>2. CASE t.harness # 0
  BY <1>2 DEF BeginEnd, EndNeverStarted, Session, Done, States
<1> QED BY <1>1, <1>2

\* What endSession() adds up to: ending is set, nothing is asked, pending or held,
\* and a session with a harness is not over yet.
LEMMA EndSessionEffect ==
  ASSUME NEW t \in Session
  PROVE  LET u == EndSession(t)
         IN  /\ u \in Session /\ SameBase(t, u) /\ HeldDropped(t, u)
             /\ u.setup = NoSetup /\ u.ending /\ ~u.asks
             /\ Done(t) => u.state = t.state
             /\ t.harness = 0 => Done(u) /\ u.closed = t.closed
             /\ t.harness # 0 => Done(u) = Done(t) /\ u.closed
<1> DEFINE v == [t EXCEPT !.ending = TRUE]
           w == CancelPending(v)
           x == AbandonSetup(w)
           y == BeginEnd(x)
<1>1. /\ v \in Session /\ v.ending /\ v.state = t.state /\ v.closed = t.closed
      /\ SameBase(t, v) /\ SameHeld(t, v)
  BY DEF Session, SameBase, SameHeld
<1>2. EndSession(t) = y
  BY DEF EndSession
<1> HIDE DEF v
<1>3. /\ w \in Session /\ Same(v, w) /\ ~w.asks
      /\ Done(w) = Done(v) /\ (Done(v) => w.state = v.state)
  BY <1>1, CancelPendingEffect
<1> HIDE DEF w
<1>4. /\ x \in Session /\ SameBase(w, x) /\ SameEnd(w, x) /\ HeldDropped(w, x)
      /\ x.setup = NoSetup /\ x.state = w.state /\ x.asks = w.asks
  BY <1>3, AbandonSetupEffect
<1> HIDE DEF x
<1>5. /\ y \in Session /\ SameBase(x, y) /\ SameHeld(x, y) /\ SameSetup(x, y)
      /\ y.ending = x.ending /\ y.asks = x.asks
      /\ Done(x) => y.state = x.state
      /\ x.harness = 0 => Done(y) /\ y.closed = x.closed
      /\ x.harness # 0 => y.state = x.state /\ y.closed
  BY <1>4, BeginEndEffect
<1> HIDE DEF y
<1>6. SameBase(t, y)
  BY <1>1, <1>3, <1>4, <1>5 DEF Same, SameBase
<1>7. HeldDropped(t, y)
  BY <1>1, <1>3, <1>4, <1>5 DEF Same, SameHeld, HeldDropped, Forget
<1>8. x.harness = t.harness /\ x.closed = t.closed /\ x.ending /\ ~x.asks
  BY <1>1, <1>3, <1>4 DEF Same, SameBase, SameEnd
<1>9. Done(x) = Done(t) /\ (Done(t) => x.state = t.state)
  BY <1>1, <1>3, <1>4 DEF Done
<1> QED
  BY <1>2, <1>4, <1>5, <1>6, <1>7, <1>8, <1>9 DEF Done, SameSetup

\* Of the swap: it reserves the session and has closed the input of the harness it
\* retires, a pending set-up is the newest one, and so is the one being applied
\* unless the session ends.  With no change under way the harness runs on the
\* newest set-up: this is what makes a delivery, and a replay, safe.
SwapOk(t) ==
  /\ (t.busy = "setup") = (t.swapping # NoSetup)
  /\ t.swapping # NoSetup => t.closed /\ t.harness # 0
  /\ t.harness = 0 => ~t.closed
  /\ t.ending => t.closed \/ Done(t)
  /\ t.ending => ~t.asks
  /\ t.setup # NoSetup => t.setup.n = t.latest
  /\ t.swapping # NoSetup /\ t.setup = NoSetup =>
       t.swapping.n = t.latest \/ t.ending \/ Done(t)
  /\ ~InputHeld(t) /\ ~t.closed /\ ~Done(t) => t.latest <= t.spec

\* Of the owner, the member who alone answers what harnesses now ask: the code's
\* answersFrom names her as long as the session may still ask.
OwnerOk(t) ==
  /\ t.owner # NoOne /\ ~t.ending /\ ~Done(t) => t.answersFrom = t.owner
  /\ ~InputHeld(t) /\ ~t.ending /\ ~Done(t) => t.owner = NoOne
  /\ t.setup # NoSetup /\ t.setup.answers # NoOne => t.answersFrom = t.setup.answers

\* Of the held input: all of it may still be heard, and without a set-up there is
\* none but that of a session that takes no more messages.
HeldOk(t) ==
  /\ \A i \in 1..Len(t.held) :
       t.held[i].said <= t.latest /\ Keeps(t.authorFilter, t.held[i].m)
  /\ ~InputHeld(t) /\ t.held # <<>> => t.closed \/ Done(t)

\* Of the messages: those heard, then those held, are in the order they were
\* taken, no two are the same, and they are just those known as taken.
OrderOk(t, g) ==
  /\ \A i, j \in 1..Len(g) : i < j => g[i].n < g[j].n /\ g[i].m # g[j].m
  /\ \A i, j \in 1..Len(t.held) :
       i < j => t.held[i].n < t.held[j].n /\ t.held[i].m # t.held[j].m
  /\ \A i \in 1..Len(g), j \in 1..Len(t.held) :
       g[i].n < t.held[j].n /\ g[i].m # t.held[j].m
  /\ \A i \in 1..Len(g) : g[i].n <= t.takenCount /\ g[i].m \in t.taken
  /\ \A j \in 1..Len(t.held) : t.held[j].n <= t.takenCount /\ t.held[j].m \in t.taken
  /\ \A m \in t.taken : \/ \E i \in 1..Len(g) : g[i].m = m
                        \/ \E j \in 1..Len(t.held) : t.held[j].m = m

\* The invariant of the session record, with g for what harnesses have heard.
SessionOk(t, g) == t \in Session /\ SwapOk(t) /\ OwnerOk(t) /\ HeldOk(t) /\ OrderOk(t, g)

\* Dropping what is held forgets just those messages.
LEMMA ForgetHeld ==
  ASSUME NEW t \in Session, NEW m
  PROVE  m \in Forget(t, ToSet(t.held)) <=>
           m \in t.taken /\ \A j \in 1..Len(t.held) : t.held[j].m # m
<1>1. DOMAIN t.held = 1..Len(t.held)
  BY DEF Session
<1>2. m \in {i.m : i \in ToSet(t.held)} <=> \E j \in 1..Len(t.held) : t.held[j].m = m
  BY <1>1 DEF ToSet
<1> QED BY <1>2 DEF Forget

\* A step that carries the session on: it may end it, close its input and drop
\* what is held or pending, but begins no swap.
Onward(t, u) ==
  /\ u.swapping = t.swapping /\ u.latest = t.latest /\ u.takenCount = t.takenCount
  /\ u.authorFilter = t.authorFilter /\ u.owner = t.owner
  /\ u.harness = t.harness /\ u.spec = t.spec
  /\ (u.busy = "setup") = (t.busy = "setup")
  /\ SameHeld(t, u) \/ HeldDropped(t, u)
  /\ \/ u.setup = NoSetup /\ t.setup = NoSetup /\ u.answersFrom = t.answersFrom
     \/ u.setup = NoSetup /\ (u.ending \/ Done(u))
     \/ /\ u.setup # NoSetup /\ t.setup # NoSetup /\ u.setup.n = t.setup.n
        /\ u.setup.answers = t.setup.answers /\ u.answersFrom = t.answersFrom
  /\ t.ending => u.ending
  /\ t.closed => u.closed
  /\ Done(t) => u.state = t.state
  /\ u.ending => (u.closed \/ Done(u)) /\ ~u.asks
  /\ u.harness = 0 => u.closed = t.closed

\* Dropping the held input, or leaving it, keeps the messages in order.
LEMMA OrderDrops ==
  ASSUME NEW t \in Session, NEW u \in Session, NEW g \in Seq(HeardItem),
         OrderOk(t, g), u.takenCount = t.takenCount,
         SameHeld(t, u) \/ HeldDropped(t, u)
  PROVE  OrderOk(u, g)
<1>1. CASE SameHeld(t, u)
  BY <1>1 DEF OrderOk, SameHeld
<1>2. CASE HeldDropped(t, u)
  <2>1. \A m : m \in u.taken <=>
          m \in t.taken /\ \A j \in 1..Len(t.held) : t.held[j].m # m
    BY <1>2, ForgetHeld DEF HeldDropped
  <2>2. Len(u.held) = 0 /\ u.takenCount = t.takenCount
    BY <1>2 DEF HeldDropped
  <2>3. ASSUME NEW i \in 1..Len(g) PROVE g[i].m \in u.taken
    BY <2>1 DEF OrderOk
  <2>4. ASSUME NEW m \in u.taken PROVE \E i \in 1..Len(g) : g[i].m = m
    BY <2>1 DEF OrderOk
  <2> QED BY <2>2, <2>3, <2>4 DEF OrderOk
<1> QED BY <1>1, <1>2

\* Such a step keeps the record's invariant.
LEMMA OnwardKeeps ==
  ASSUME NEW t, NEW u \in Session, NEW g \in Seq(HeardItem),
         SessionOk(t, g), Onward(t, u)
  PROVE  SessionOk(u, g)
<1>1. t \in Session /\ (Done(t) => Done(u))
  BY DEF SessionOk, Onward, Done
<1>2. SwapOk(u)
  BY <1>1 DEF SessionOk, Onward, SwapOk, InputHeld, Pending
<1>3. OwnerOk(u)
  BY <1>1 DEF SessionOk, Onward, OwnerOk, SwapOk, InputHeld, Pending
<1>4. HeldOk(u)
  BY <1>1 DEF SessionOk, Onward, HeldOk, SwapOk, InputHeld, Pending, SameHeld, HeldDropped
<1>5. OrderOk(u, g)
  BY <1>1, OrderDrops DEF SessionOk, Onward
<1> QED BY <1>2, <1>3, <1>4, <1>5 DEF SessionOk

\* What every handler that may start a swap keeps of the session.
Later(t, u) ==
  /\ u.harness = t.harness
  /\ Done(t) => u.state = t.state
  /\ Done(u) => Done(t) \/ t.harness = 0
  /\ u.swapping = t.swapping \/ (t.swapping = NoSetup /\ t.harness # 0)
  /\ t.swapping # NoSetup /\ u.setup = NoSetup /\ ~u.ending /\ ~Done(u) =>
       t.setup = NoSetup /\ ~t.ending /\ ~Done(t) /\ u.owner = t.owner

\* The counters that the model's bound is about.
SameCounts(t, u) == u.takenCount = t.takenCount /\ u.selfTurns = t.selfTurns

\* applySetup(), up to its first await, takes the pending set-up over.
LEMMA StartSwapKeeps ==
  ASSUME NEW t, NEW g \in Seq(HeardItem), SessionOk(t, g),
         Pending(t), ~Done(t), t.swapping = NoSetup, t.harness # 0
  PROVE  LET u == StartSwap(t)
         IN  SessionOk(u, g) /\ Later(t, u) /\ SameCounts(t, u)
<1> DEFINE u == StartSwap(t)
<1>1. t \in Session
  BY DEF SessionOk
<1>2. /\ u \in Session /\ u.swapping = t.setup /\ u.setup = NoSetup
      /\ u.busy = "setup" /\ u.closed
      /\ SameHeld(t, u) /\ SameCounts(t, u) /\ u.latest = t.latest
      /\ u.authorFilter = t.authorFilter /\ u.owner = t.owner
      /\ u.answersFrom = t.answersFrom /\ u.harness = t.harness /\ u.spec = t.spec
      /\ u.ending = t.ending /\ u.asks = t.asks /\ u.state = t.state
  <2>1. t.setup \in SetupRec \union {NoSetup}
    BY <1>1 DEF Session
  <2>2. u = [t EXCEPT !.swapping = t.setup, !.setup = NoSetup, !.timer = FALSE,
                      !.busy = "setup", !.closed = TRUE]
    BY DEF StartSwap
  <2> HIDE DEF u
  <2>3. u \in Session
    <3> DEFINE v == [t EXCEPT !.swapping = t.setup]
               w == [v EXCEPT !.setup = NoSetup, !.timer = FALSE]
    <3>1. v \in Session
      BY <1>1, <2>1 DEF Session
    <3>2. u = [w EXCEPT !.busy = "setup", !.closed = TRUE]
      BY <1>1, <2>2 DEF Session
    <3> HIDE DEF v
    <3>3. w \in Session
      BY <3>1 DEF Session
    <3> HIDE DEF w
    <3> QED BY <3>2, <3>3 DEF Session
  <2>4. /\ u.swapping = t.setup /\ u.setup = NoSetup /\ u.busy = "setup" /\ u.closed
        /\ u.held = t.held /\ u.taken = t.taken
    BY <1>1, <2>2 DEF Session
  <2>5. /\ u.takenCount = t.takenCount /\ u.selfTurns = t.selfTurns
        /\ u.latest = t.latest /\ u.authorFilter = t.authorFilter
        /\ u.owner = t.owner /\ u.answersFrom = t.answersFrom
    BY <1>1, <2>2 DEF Session
  <2>6. /\ u.harness = t.harness /\ u.spec = t.spec /\ u.ending = t.ending
        /\ u.asks = t.asks /\ u.state = t.state
    BY <1>1, <2>2 DEF Session
  <2> QED BY <2>3, <2>4, <2>5, <2>6 DEF SameHeld, SameCounts
<1> HIDE DEF u
<1>3. SwapOk(u)
  BY <1>2 DEF SessionOk, SwapOk, InputHeld, Pending, Done
<1>4. OwnerOk(u)
  BY <1>2 DEF SessionOk, OwnerOk, InputHeld, Pending, Done
<1>5. HeldOk(u)
  BY <1>2 DEF SessionOk, HeldOk, InputHeld, Pending, Done, SameHeld
<1>6. OrderOk(u, g)
  BY <1>2 DEF SessionOk, OrderOk, SameHeld, SameCounts
<1> QED
  BY <1>2, <1>3, <1>4, <1>5, <1>6 DEF SessionOk, Later, Done, u

\* maybeApplySetup(), whichever of its branches it takes.
LEMMA MaybeApplyKeeps ==
  ASSUME NEW t, NEW g \in Seq(HeardItem), SessionOk(t, g)
  PROVE  LET u == MaybeApply(t)
         IN  SessionOk(u, g) /\ Later(t, u) /\ SameCounts(t, u)
<1> DEFINE u == MaybeApply(t)
<1>1. t \in Session /\ SwapOk(t)
  BY DEF SessionOk
<1>2. SUFFICES \/ u \in Session /\ Onward(t, u) /\ Later(t, u) /\ SameCounts(t, u)
               \/ SessionOk(u, g) /\ Later(t, u) /\ SameCounts(t, u)
  BY OnwardKeeps
<1>3. CASE ~Pending(t)
  <2>1. u = [t EXCEPT !.timer = FALSE]
    BY <1>3 DEF MaybeApply
  <2>2. /\ u \in Session /\ Same(t, u) /\ u.state = t.state /\ u.asks = t.asks
    BY <1>1, <2>1 DEF Session, Same, SameBase, SameHeld, SameSetup, SameEnd
  <2> HIDE DEF u
  <2>3. Onward(t, u)
    BY <1>1, <1>3, <2>2
       DEF Onward, Same, SameBase, SameHeld, SameSetup, SameEnd, SwapOk, Done, Pending
  <2>4. Later(t, u) /\ SameCounts(t, u)
    BY <2>2 DEF Later, SameCounts, Same, SameBase, SameSetup, SameEnd, Done
  <2> QED BY <2>2, <2>3, <2>4
<1>4. CASE Pending(t) /\ (Done(t) \/ t.ending)
  <2>1. u = AbandonSetup(t)
    BY <1>4 DEF MaybeApply
  <2>2. /\ u \in Session /\ SameBase(t, u) /\ SameEnd(t, u) /\ HeldDropped(t, u)
        /\ u.setup = NoSetup /\ u.answersFrom = NoOne
        /\ u.state = t.state /\ u.asks = t.asks
    BY <1>1, <2>1, AbandonSetupEffect
  <2> HIDE DEF u
  <2>3. Onward(t, u)
    BY <1>1, <1>4, <2>2 DEF Onward, SameBase, SameEnd, SwapOk, Done
  <2>4. Later(t, u) /\ SameCounts(t, u)
    BY <1>4, <2>2 DEF Later, SameCounts, SameBase, SameEnd, Done
  <2> QED BY <2>2, <2>3, <2>4
<1>5. CASE Pending(t) /\ ~Done(t) /\ ~t.ending /\ Expired(t.setup)
  <2>1. u = EndSession(t)
    BY <1>5 DEF MaybeApply
  <2>2. /\ u \in Session /\ SameBase(t, u) /\ HeldDropped(t, u)
        /\ u.setup = NoSetup /\ u.ending /\ ~u.asks
        /\ Done(t) => u.state = t.state
        /\ t.harness = 0 => Done(u) /\ u.closed = t.closed
        /\ t.harness # 0 => Done(u) = Done(t) /\ u.closed
    BY <1>1, <2>1, EndSessionEffect
  <2> HIDE DEF u
  <2>3. Onward(t, u)
    BY <1>1, <1>5, <2>2 DEF Onward, SameBase, SwapOk
  <2>4. Later(t, u) /\ SameCounts(t, u)
    BY <2>2 DEF Later, SameCounts, SameBase
  <2> QED BY <2>2, <2>3, <2>4
<1>6. CASE /\ Pending(t) /\ ~Done(t) /\ ~t.ending /\ ~Expired(t.setup)
           /\ t.swapping = NoSetup /\ t.setup.signaled
           /\ t.harness # 0 /\ ReadyToSwap(t)
  <2>1. u = StartSwap(t)
    BY <1>6 DEF MaybeApply
  <2> HIDE DEF u
  <2> QED BY <1>6, <2>1, StartSwapKeeps
<1>7. CASE /\ Pending(t) /\ ~Done(t) /\ ~t.ending /\ ~Expired(t.setup)
           /\ ~(/\ t.swapping = NoSetup /\ t.setup.signaled
                /\ t.harness # 0 /\ ReadyToSwap(t))
  <2>1. u = t
    BY <1>7 DEF MaybeApply
  <2> HIDE DEF u
  <2>2. Later(t, u) /\ SameCounts(t, u)
    BY <2>1 DEF Later, SameCounts
  <2> QED BY <2>1, <2>2
<1> QED BY <1>3, <1>4, <1>5, <1>6, <1>7

\* The session with the swap taken off it, as Finally begins.
Over(t) ==
  [t EXCEPT !.swapping = NoSetup, !.busy = IF @ = "setup" THEN "none" ELSE @]

\* The end of applySetup(), which may begin the next swap.
LEMMA FinallyKeeps ==
  ASSUME NEW t \in Session, NEW g \in Seq(HeardItem), SessionOk(Over(t), g)
  PROVE  LET u == Finally(t)
         IN  /\ SessionOk(u, g) /\ SameCounts(t, u) /\ u.harness = t.harness
             /\ Done(t) => u.state = t.state
             /\ Done(u) => Done(t) \/ t.harness = 0
             /\ u.swapping # NoSetup => t.harness # 0
<1> DEFINE o == Over(t)
           u == Finally(t)
<1>1. /\ o \in Session /\ o.swapping = NoSetup /\ SameCounts(t, o)
      /\ o.harness = t.harness /\ o.state = t.state /\ o.setup = t.setup
  BY DEF Over, Session, SameCounts
<1>2. CASE Pending(o)
  <2> DEFINE v == [o EXCEPT !.timer = TRUE]
  <2>1. /\ v \in Session /\ Onward(o, v) /\ SameCounts(o, v)
        /\ v.harness = o.harness /\ v.state = o.state /\ v.swapping = NoSetup
    <3>1. v \in Session
      BY <1>1 DEF Session
    <3>2. /\ v.swapping = o.swapping /\ v.latest = o.latest
          /\ v.takenCount = o.takenCount /\ v.selfTurns = o.selfTurns
          /\ v.authorFilter = o.authorFilter /\ v.owner = o.owner
          /\ v.harness = o.harness /\ v.spec = o.spec /\ v.busy = o.busy
      BY <1>1 DEF Session
    <3>3. /\ SameHeld(o, v) /\ v.setup = o.setup /\ v.answersFrom = o.answersFrom
          /\ v.ending = o.ending /\ v.closed = o.closed /\ v.asks = o.asks
          /\ v.state = o.state
      BY <1>1 DEF Session, SameHeld
    <3>4. SwapOk(o) /\ o.swapping = NoSetup
      BY <1>1 DEF SessionOk
    <3> HIDE DEF o, v
    <3> QED
      BY <3>1, <3>2, <3>3, <3>4 DEF Onward, SameCounts, SwapOk, Done
  <2>2. u = MaybeApply(v)
    BY <1>2 DEF Finally, Over
  <2> HIDE DEF o, u, v
  <2>3. SessionOk(v, g)
    BY <2>1, OnwardKeeps DEF o
  <2>4. SessionOk(u, g) /\ Later(v, u) /\ SameCounts(v, u)
    BY <2>2, <2>3, MaybeApplyKeeps
  <2> QED BY <1>1, <2>1, <2>4 DEF Later, SameCounts, Done, u
<1>3. CASE ~Pending(o)
  <2>1. u = [o EXCEPT !.answersFrom = NoOne]
    BY <1>3 DEF Finally, Over
  <2>2. /\ u \in Session /\ SameBase(o, u) /\ SameHeld(o, u) /\ SameEnd(o, u)
        /\ u.setup = NoSetup /\ u.answersFrom = NoOne /\ u.asks = o.asks
        /\ u.state = o.state
    <3>1. NoOne \in Whose /\ o.setup = NoSetup
      BY <1>1, <1>3 DEF Whose, Pending
    <3> HIDE DEF o, u
    <3>2. u \in Session
      BY <1>1, <2>1, <3>1 DEF Session
    <3>3. SameBase(o, u) /\ SameHeld(o, u)
      BY <1>1, <2>1 DEF Session, SameBase, SameHeld
    <3>4. /\ SameEnd(o, u) /\ u.setup = o.setup /\ u.answersFrom = NoOne
          /\ u.asks = o.asks /\ u.state = o.state
      BY <1>1, <2>1 DEF Session, SameEnd
    <3> QED BY <3>1, <3>2, <3>3, <3>4
  <2> HIDE DEF o, u
  <2>3. SwapOk(o) /\ OwnerOk(o) /\ HeldOk(o) /\ OrderOk(o, g)
    BY DEF SessionOk, o
  <2>4. SwapOk(u)
    BY <1>1, <1>3, <2>2, <2>3
       DEF SwapOk, InputHeld, Pending, Done, SameBase, SameEnd
  <2>5. OwnerOk(u)
    BY <1>1, <1>3, <2>2, <2>3
       DEF OwnerOk, InputHeld, Pending, Done, SameBase, SameEnd
  <2>6. HeldOk(u)
    BY <1>1, <1>3, <2>2, <2>3
       DEF HeldOk, InputHeld, Pending, Done, SameBase, SameEnd, SameHeld
  <2>7. OrderOk(u, g)
    BY <2>2, <2>3 DEF OrderOk, SameBase, SameHeld
  <2> QED
    BY <1>1, <2>2, <2>4, <2>5, <2>6, <2>7
       DEF SessionOk, SameCounts, SameBase, Done, u
<1> QED BY <1>2, <1>3

\* A member's message ends a wait for a task and leaves the rest alone.
LEMMA CancelTaskWaitEffect ==
  ASSUME NEW t \in Session, NEW m
  PROVE  LET u == CancelTaskWait(t, m)
         IN  /\ u \in Session /\ Same(t, u) /\ u.asks = t.asks
             /\ Done(u) = Done(t) /\ (Done(t) => u.state = t.state)
<1>1. CASE Author[m] # Platform /\ t.park = "task"
  <2> DEFINE v == [t EXCEPT !.park = "none"]
  <2>1. v \in Session /\ Same(t, v) /\ v.asks = t.asks /\ v.state = t.state
    BY DEF Session, Same, SameBase, SameHeld, SameSetup, SameEnd
  <2>2. CancelTaskWait(t, m) = ResumeIfUnblocked(v)
    BY <1>1 DEF CancelTaskWait
  <2> HIDE DEF v
  <2> QED
    BY <2>1, <2>2, ResumeEffect
       DEF Done, Same, SameBase, SameHeld, SameSetup, SameEnd
<1>2. CASE ~(Author[m] # Platform /\ t.park = "task")
  <2>1. CancelTaskWait(t, m) = t
    BY <1>2 DEF CancelTaskWait
  <2> QED BY <2>1 DEF Same, SameBase, SameHeld, SameSetup, SameEnd
<1> QED BY <1>1, <1>2

\* A change of the turn's state alone carries the session on.
LEMMA SameKeeps ==
  ASSUME NEW t, NEW u \in Session, NEW g \in Seq(HeardItem), SessionOk(t, g),
         Same(t, u), u.asks => t.asks \/ ~t.ending, Done(t) => u.state = t.state
  PROVE  /\ SessionOk(u, g) /\ Onward(t, u)
         /\ (Done(u) => Done(t) \/ t.harness = 0) => Later(t, u)
<1>1. Onward(t, u)
  BY DEF Onward, Same, SameBase, SameHeld, SameSetup, SameEnd, SessionOk, SwapOk, Done
<1>2. ASSUME Done(u) => Done(t) \/ t.harness = 0 PROVE Later(t, u)
  BY <1>2 DEF Later, Same, SameBase, SameSetup, SameEnd, Done
<1> QED BY <1>1, <1>2, OnwardKeeps

\* The held messages a take-back drops are forgotten, the others stay.
LEMMA DropHeldFromEffect ==
  ASSUME NEW t \in Session, NEW keep \in Whose, NEW g \in Seq(HeardItem),
         OrderOk(t, g)
  PROVE  LET u == DropHeldFrom(t, keep)
         IN  /\ u \in Session /\ SameBase(t, u) /\ SameSetup(t, u) /\ SameEnd(t, u)
             /\ u.state = t.state /\ u.asks = t.asks
             /\ OrderOk(u, g)
             /\ \A i \in 1..Len(u.held) :
                  /\ Keeps(keep, u.held[i].m)
                  /\ \E j \in 1..Len(t.held) : u.held[i] = t.held[j]
<1> DEFINE S == {i \in ToSet(t.held) : Keeps(keep, i.m)}
           kept == Filter(t.held, S)
           left == Forget(t, ToSet(t.held) \ ToSet(kept))
           u == DropHeldFrom(t, keep)
<1>1. t.held \in Seq(HeldItem) /\ t.taken \in SUBSET Messages
  BY DEF Session
<1>2. PICK h : Embeds(h, t.held, S)
  <2> HIDE DEF S
  <2> QED BY <1>1, FilterProperties
<1>21. /\ h \in [1..Len(kept) -> 1..Len(t.held)]
       /\ \A j \in 1..Len(kept) : kept[j] = t.held[h[j]] /\ t.held[h[j]] \in S
       /\ \A j, k \in 1..Len(kept) : j < k => h[j] < h[k]
       /\ \A i \in 1..Len(t.held) : t.held[i] \in S =>
            \E j \in 1..Len(kept) : h[j] = i
  <2> HIDE DEF S
  <2> QED BY <1>2 DEF Embeds
<1>3. kept \in Seq(HeldItem)
  <2> HIDE DEF S
  <2> QED BY <1>1, FilterProperties
<1>4. left \in SUBSET Messages
  BY <1>1 DEF Forget
<1>5. u = [t EXCEPT !.taken = left, !.held = kept]
  BY DEF DropHeldFrom
<1> HIDE DEF kept
<1> HIDE DEF left
<1>6. /\ u \in Session /\ SameBase(t, u) /\ SameSetup(t, u) /\ SameEnd(t, u)
      /\ u.state = t.state /\ u.asks = t.asks /\ u.held = kept /\ u.taken = left
  <2> HIDE DEF u
  <2>1. u \in Session
    BY <1>3, <1>4, <1>5 DEF Session
  <2>2. u.held = kept /\ u.taken = left /\ u.state = t.state /\ u.asks = t.asks
    BY <1>5 DEF Session
  <2>3. SameBase(t, u)
    BY <1>5 DEF Session, SameBase
  <2>4. SameSetup(t, u) /\ SameEnd(t, u)
    BY <1>5 DEF Session, SameSetup, SameEnd
  <2> QED BY <2>1, <2>2, <2>3, <2>4
<1> HIDE DEF u
<1>7. \A m : m \in left <=>
        m \in t.taken /\ ~\E x \in ToSet(t.held) \ ToSet(kept) : x.m = m
  BY DEF left, Forget
<1>8. \A x : x \in ToSet(t.held) <=> \E j \in 1..Len(t.held) : t.held[j] = x
  BY <1>1 DEF ToSet
<1>9. \A x : x \in ToSet(kept) <=> \E j \in 1..Len(kept) : kept[j] = x
  BY <1>3 DEF ToSet
<1>10. ASSUME NEW i \in 1..Len(g) PROVE g[i].m \in left /\ g[i].n <= u.takenCount
  BY <1>6, <1>7, <1>8, SMTT(40) DEF OrderOk, SameBase
<1>11. ASSUME NEW j \in 1..Len(kept)
       PROVE  kept[j].m \in left /\ kept[j].n <= u.takenCount
  <2>1. h[j] \in 1..Len(t.held) /\ kept[j] = t.held[h[j]]
    BY <1>21
  <2>2. kept[j].m \in t.taken /\ kept[j].n <= t.takenCount
    BY <2>1 DEF OrderOk
  <2>3. ASSUME NEW x \in ToSet(t.held) \ ToSet(kept), x.m = kept[j].m PROVE FALSE
    <3>1. PICK k \in 1..Len(t.held) : t.held[k] = x
      BY <1>8, <2>3
    <3>2. k = h[j]
      BY <2>1, <2>3, <3>1 DEF OrderOk
    <3> QED BY <3>1, <3>2, <2>1, <1>9, <2>3
  <2> QED BY <2>2, <2>3, <1>7, <1>6 DEF SameBase
<1>12. ASSUME NEW m \in left
       PROVE  \/ \E i \in 1..Len(g) : g[i].m = m
              \/ \E j \in 1..Len(kept) : kept[j].m = m
  <2>1. m \in t.taken
    BY <1>7
  <2>2. CASE \E i \in 1..Len(g) : g[i].m = m
    BY <2>2
  <2>3. CASE \E j \in 1..Len(t.held) : t.held[j].m = m
    <3>1. PICK j \in 1..Len(t.held) : t.held[j].m = m
      BY <2>3
    <3>2. t.held[j] \in ToSet(kept)
      BY <3>1, <1>7, <1>8
    <3> QED BY <3>1, <3>2, <1>9
  <2> QED BY <2>1, <2>2, <2>3 DEF OrderOk
<1>13. ASSUME NEW i \in 1..Len(kept), NEW j \in 1..Len(kept), i < j
       PROVE  kept[i].n < kept[j].n /\ kept[i].m # kept[j].m
  <2>1. /\ h[i] \in 1..Len(t.held) /\ h[j] \in 1..Len(t.held) /\ h[i] < h[j]
        /\ kept[i] = t.held[h[i]] /\ kept[j] = t.held[h[j]]
    BY <1>21, <1>13
  <2> QED BY <2>1 DEF OrderOk
<1>14. ASSUME NEW i \in 1..Len(g), NEW j \in 1..Len(kept)
       PROVE  g[i].n < kept[j].n /\ g[i].m # kept[j].m
  <2>1. h[j] \in 1..Len(t.held) /\ kept[j] = t.held[h[j]]
    BY <1>21
  <2> QED BY <2>1 DEF OrderOk
<1>15. OrderOk(u, g)
  <2>1. /\ \A i, j \in 1..Len(g) : i < j => g[i].n < g[j].n /\ g[i].m # g[j].m
    BY DEF OrderOk
  <2> QED BY <2>1, <1>6, <1>10, <1>11, <1>12, <1>13, <1>14 DEF OrderOk
<1>16. ASSUME NEW i \in 1..Len(kept)
       PROVE  /\ Keeps(keep, kept[i].m)
              /\ \E j \in 1..Len(t.held) : kept[i] = t.held[j]
  BY <1>21
<1> QED BY <1>6, <1>15, <1>16 DEF u

\* What a harness refuses of the replay is forgotten, what it took before stays held.
LEMMA RefusedKeeps ==
  ASSUME NEW t, NEW g \in Seq(HeardItem), SessionOk(t, g), NEW k \in 0..Len(t.held)
  PROVE  LET u == Refused(t, k)
         IN  /\ SessionOk(u, g) /\ SameBase(t, u) /\ SameSetup(t, u) /\ SameEnd(t, u)
             /\ u.state = t.state /\ u.asks = t.asks
<1> DEFINE kept == SubSeq(t.held, 1, k)
           left == Forget(t, ToSet(t.held) \ ToSet(kept))
           u == Refused(t, k)
<1>1. /\ t \in Session /\ t.held \in Seq(HeldItem) /\ t.taken \in SUBSET Messages
      /\ SwapOk(t) /\ OwnerOk(t) /\ HeldOk(t) /\ OrderOk(t, g)
  BY DEF SessionOk, Session
<1>2. CASE Pending(t)
  <2>1. u = t
    BY <1>2 DEF Refused
  <2> HIDE DEF u
  <2>2. SameBase(t, u) /\ SameSetup(t, u) /\ SameEnd(t, u)
    BY <2>1 DEF SameBase, SameSetup, SameEnd
  <2> QED BY <2>1, <2>2 DEF u
<1>3. CASE ~Pending(t)
  <2>1. /\ kept \in Seq(HeldItem) /\ Len(kept) = k /\ k <= Len(t.held)
        /\ \A j \in 1..k : kept[j] = t.held[j] /\ j \in 1..Len(t.held)
    <3> DEFINE H == t.held
    <3>1. H \in Seq(HeldItem) /\ k \in 0..Len(H) /\ kept = SubSeq(H, 1, k)
      BY <1>1
    <3> HIDE DEF H, kept
    <3>2. kept \in Seq(HeldItem) /\ Len(kept) = k /\ k <= Len(H)
          /\ \A j \in 1..k : kept[j] = H[j] /\ j \in 1..Len(H)
      BY <3>1
    <3> QED BY <3>2 DEF H
  <2>2. left \in SUBSET Messages
    BY <1>1 DEF Forget
  <2>3. u = [t EXCEPT !.taken = left, !.held = kept]
    BY <1>3 DEF Refused
  <2>4. \A m : m \in left <=>
          m \in t.taken /\ ~\E x \in ToSet(t.held) \ ToSet(kept) : x.m = m
    BY DEF Forget
  <2>5. \A x : x \in ToSet(t.held) <=> \E j \in 1..Len(t.held) : t.held[j] = x
    BY <1>1 DEF ToSet
  <2>6. \A x : x \in ToSet(kept) <=> \E j \in 1..k : kept[j] = x
    <3> HIDE DEF kept
    <3>1. DOMAIN kept = 1..k
      BY <2>1
    <3> QED BY <3>1 DEF ToSet
  <2> HIDE DEF kept, left, u
  <2>7. u \in Session
    BY <1>1, <2>1, <2>2, <2>3 DEF Session
  <2>8. u.held = kept /\ u.taken = left /\ u.state = t.state /\ u.asks = t.asks
    BY <1>1, <2>3 DEF Session
  <2>9. SameBase(t, u)
    BY <1>1, <2>3 DEF Session, SameBase
  <2>10. SameSetup(t, u) /\ SameEnd(t, u)
    BY <1>1, <2>3 DEF Session, SameSetup, SameEnd
  <2>11. ASSUME NEW i \in 1..Len(g) PROVE g[i].m \in left
    <3>1. g[i].m \in t.taken /\ \A j \in 1..Len(t.held) : g[i].m # t.held[j].m
      BY <1>1 DEF OrderOk
    <3> QED BY <3>1, <2>4, <2>5
  <2>12. ASSUME NEW j \in 1..k PROVE kept[j].m \in left
    <3>1. j \in 1..Len(t.held) /\ kept[j] = t.held[j]
      BY <2>1
    <3>2. kept[j].m \in t.taken
      BY <3>1, <1>1 DEF OrderOk
    <3>3. ASSUME NEW x \in ToSet(t.held) \ ToSet(kept), x.m = kept[j].m PROVE FALSE
      <4>1. PICK l \in 1..Len(t.held) : t.held[l] = x
        BY <2>5, <3>3
      <4>2. l = j
        BY <3>1, <3>3, <4>1, <1>1 DEF OrderOk
      <4> QED BY <4>1, <4>2, <3>1, <2>6, <3>3
    <3> QED BY <3>2, <3>3, <2>4
  <2>13. ASSUME NEW m \in left
         PROVE  \/ \E i \in 1..Len(g) : g[i].m = m
                \/ \E j \in 1..k : kept[j].m = m
    <3>1. m \in t.taken
      BY <2>4
    <3>2. CASE \E i \in 1..Len(g) : g[i].m = m
      BY <3>2
    <3>3. CASE \E j \in 1..Len(t.held) : t.held[j].m = m
      <4>1. PICK j \in 1..Len(t.held) : t.held[j].m = m
        BY <3>3
      <4>2. t.held[j] \in ToSet(kept)
        BY <4>1, <2>4, <2>5
      <4> QED BY <4>1, <4>2, <2>6
    <3> QED BY <3>1, <3>2, <3>3, <1>1 DEF OrderOk
  <2>14. u.takenCount = t.takenCount
    BY <2>9 DEF SameBase
  <2>15. OrderOk(u, g)
    <3>1. /\ \A i, j \in 1..Len(g) : i < j => g[i].n < g[j].n /\ g[i].m # g[j].m
          /\ \A i \in 1..Len(g) : g[i].n <= t.takenCount
      BY <1>1 DEF OrderOk
    <3>2. ASSUME NEW i \in 1..k, NEW j \in 1..k, i < j
          PROVE  kept[i].n < kept[j].n /\ kept[i].m # kept[j].m
      <4>1. /\ i \in 1..Len(t.held) /\ kept[i] = t.held[i]
            /\ j \in 1..Len(t.held) /\ kept[j] = t.held[j]
        BY <2>1
      <4> QED BY <4>1, <3>2, <1>1 DEF OrderOk
    <3>3. ASSUME NEW i \in 1..Len(g), NEW j \in 1..k
          PROVE  g[i].n < kept[j].n /\ g[i].m # kept[j].m
      BY <2>1, <1>1 DEF OrderOk
    <3>4. ASSUME NEW j \in 1..k PROVE kept[j].n <= t.takenCount
      BY <2>1, <1>1 DEF OrderOk
    <3>5. u.held = kept /\ Len(kept) = k /\ u.taken = left
      BY <2>1, <2>8
    <3> QED
      BY ONLY <3>1, <3>2, <3>3, <3>4, <3>5, <2>11, <2>12, <2>13, <2>14 DEF OrderOk
  <2>16. SwapOk(u)
    BY <1>1, <2>8, <2>9, <2>10
       DEF SwapOk, InputHeld, Pending, Done, SameBase, SameSetup, SameEnd
  <2>17. OwnerOk(u)
    BY <1>1, <2>8, <2>9, <2>10
       DEF OwnerOk, InputHeld, Pending, Done, SameBase, SameSetup, SameEnd
  <2>18. HeldOk(u)
    <3>1. kept # <<>> => t.held # <<>>
      BY <2>1, <1>1
    <3>2. \A i \in 1..k : kept[i].said <= t.latest /\ Keeps(t.authorFilter, kept[i].m)
      BY <2>1, <1>1 DEF HeldOk
    <3> QED
      BY <3>1, <3>2, <1>1, <2>1, <2>8, <2>9, <2>10
         DEF HeldOk, InputHeld, Pending, Done, SameBase, SameSetup, SameEnd
  <2> QED BY <2>7, <2>8, <2>9, <2>10, <2>15, <2>16, <2>17, <2>18 DEF SessionOk, u
<1> QED BY <1>2, <1>3

\* The swap's phase and the harness processes: at most the successor while it is
\* built, else at most the session's own.  A session is not over while a
\* successor is built, which is why a swap's outcome never overwrites an end.
PhaseOk(t, ph, al) ==
  /\ ph \in Swapping \union {"none", "seeding"}
  /\ (t.swapping # NoSetup) = (ph \in Swapping /\ t.harness # 0)
  /\ al \subseteq IF ph = "building" THEN {t.harness + 1} ELSE {t.harness}
  /\ 0 \notin al
  /\ ph = "seeding" => t.harness = 0
  /\ t.harness = 0 => ph \in {"seeding", "building", "none"}
  /\ ph = "building" /\ t.harness # 0 => ~Done(t)
  /\ ph = "stopping" /\ t.setup = NoSetup /\ ~t.ending /\ ~Done(t) => t.owner = NoOne

\* What the histories of the heard messages promise.
GotOk(g) ==
  \A i \in 1..Len(g) : g[i].said <= g[i].spec /\ Keeps(g[i].filter, g[i].m)

\* The model's bound on the messages and turns.
CountsOk(t) == t.takenCount + t.selfTurns <= MaxTurns

\* The inductive invariant.
IInv ==
  /\ got \in Seq(HeardItem) /\ GotOk(got)
  /\ SessionOk(s, got) /\ CountsOk(s)
  /\ PhaseOk(s, phase, alive)
  /\ OwnerAnswers

\* Steps of a handler follow each other.
LEMMA Later2 ==
  ASSUME NEW t, NEW u, NEW v, Later(t, u), Later(u, v) PROVE Later(t, v)
BY DEF Later, Done

\* A step that only carries the session on.
LEMMA QuietStep ==
  ASSUME IInv, s' \in Session, Onward(s, s'), CountsOk(s'),
         Done(s') => Done(s) \/ phase # "building" \/ s.harness = 0,
         phase' = phase \/ (Retiring /\ phase' \in {"aborting", "leaving"}),
         alive' \subseteq alive, got' = got, allowed' = allowed \/ OwnerAnswers'
  PROVE  IInv' /\ (Done(s) => s'.state = s.state)
<1>1. SessionOk(s', got)
  BY OnwardKeeps DEF IInv
<1>2. PhaseOk(s', phase', alive')
  BY DEF IInv, PhaseOk, Onward, Done, Retiring, Swapping
<1> QED BY <1>1, <1>2 DEF IInv, OwnerAnswers, Onward

\* A step after which a swap may have begun.
LEMMA BecomesStep ==
  ASSUME IInv, NEW u, NEW g \in Seq(HeardItem), SessionOk(u, g), Later(s, u),
         CountsOk(u), GotOk(g),
         Becomes(u), alive' = alive, got' = g, allowed' = allowed
  PROVE  IInv' /\ (Done(s) => s'.state = s.state)
<1>1. SessionOk(s, got) /\ PhaseOk(s, phase, alive)
  BY DEF IInv
<1>2. s' = u /\ phase' = IF u.swapping # NoSetup /\ s.swapping = NoSetup
                         THEN "retiring" ELSE phase
  BY DEF Becomes, PhaseOf
<1>3. CASE u.swapping # NoSetup /\ s.swapping = NoSetup
  <2>1. s.harness # 0 /\ phase = "none" /\ u.harness = s.harness
    BY <1>1, <1>3 DEF Later, PhaseOk
  <2>2. PhaseOk(u, "retiring", alive)
    BY <1>1, <1>3, <2>1 DEF PhaseOk, Swapping
  <2> QED BY <1>2, <1>3, <2>2 DEF IInv, Later, OwnerAnswers
<1>4. CASE ~(u.swapping # NoSetup /\ s.swapping = NoSetup)
  <2>1. (u.swapping # NoSetup) = (s.swapping # NoSetup)
    BY <1>4 DEF Later
  <2>2. PhaseOk(u, phase, alive)
    BY <1>1, <2>1 DEF PhaseOk, Later, Swapping
  <2> QED BY <1>2, <1>4, <2>2 DEF IInv, Later, OwnerAnswers
<1> QED BY <1>3, <1>4
-----------------------------------------------------------------------------

\* A new message is known as taken and counted.
LEMMA TakeEffect ==
  ASSUME s \in Session, NEW m \in Messages
  PROVE  LET t == Take(m)
         IN  /\ t \in Session /\ t.held = s.held /\ t.taken = s.taken \union {m}
             /\ t.takenCount = s.takenCount + 1 /\ t.selfTurns = s.selfTurns
             /\ SameSetup(s, t) /\ SameEnd(s, t)
             /\ t.swapping = s.swapping /\ t.latest = s.latest
             /\ t.authorFilter = s.authorFilter /\ t.owner = s.owner
             /\ t.harness = s.harness /\ t.spec = s.spec /\ t.busy = s.busy
             /\ t.state = s.state /\ t.asks = s.asks
<1>1. s.taken \union {m} \in SUBSET Messages /\ s.takenCount + 1 \in Nat
  BY DEF Session
<1>2. Take(m) \in Session
  BY <1>1 DEF Take, Session
<1> QED BY <1>2 DEF Take, Session, SameSetup, SameEnd

\* A new message, held after all that is held.
LEMMA OrderHolds ==
  ASSUME NEW t \in Session, NEW u \in Session, NEW g \in Seq(HeardItem),
         OrderOk(t, g), NEW i \in HeldItem, i.n = t.takenCount + 1,
         i.m \notin t.taken, u.taken = t.taken \union {i.m},
         u.takenCount = t.takenCount + 1, u.held = Append(t.held, i)
  PROVE  OrderOk(u, g)
<1> DEFINE L == Len(t.held)
           h == t.held
           k == u.held
<1>1. /\ L \in Nat /\ Len(k) = L + 1 /\ k[L + 1] = i
      /\ \A j \in 1..L : k[j] = h[j]
  <2>1. h \in Seq(HeldItem) /\ k = Append(h, i) /\ L = Len(h)
    BY DEF Session
  <2> HIDE DEF h, k, L
  <2> QED BY <2>1
<1>2. /\ \A j \in 1..L : h[j].n \in Nat
      /\ \A j \in 1..Len(g) : g[j].n \in Nat
      /\ t.takenCount \in Nat /\ Len(g) \in Nat
  <2>1. t.held \in Seq(HeldItem) /\ t.takenCount \in Nat
    BY DEF Session
  <2>2. \A j \in 1..L : h[j] \in HeldItem
    BY <2>1
  <2>3. \A j \in 1..Len(g) : g[j] \in HeardItem
    OBVIOUS
  <2> QED BY <2>1, <2>2, <2>3, SMTT(40) DEF HeldItem, HeardItem
<1>3. /\ \A j, l \in 1..Len(g) : j < l => g[j].n < g[l].n /\ g[j].m # g[l].m
      /\ \A j, l \in 1..L : j < l => h[j].n < h[l].n /\ h[j].m # h[l].m
      /\ \A j \in 1..Len(g), l \in 1..L : g[j].n < h[l].n /\ g[j].m # h[l].m
      /\ \A j \in 1..Len(g) : g[j].n <= t.takenCount /\ g[j].m \in t.taken
      /\ \A j \in 1..L : h[j].n <= t.takenCount /\ h[j].m \in t.taken
      /\ \A m \in t.taken : \/ \E j \in 1..Len(g) : g[j].m = m
                            \/ \E j \in 1..L : h[j].m = m
  BY DEF OrderOk
<1> HIDE DEF L, h
<1>4. \A j \in 1..(L + 1) : j \in 1..L \/ j = L + 1
  BY <1>1
<1>5. ASSUME NEW j \in 1..(L + 1), NEW l \in 1..(L + 1), j < l
      PROVE  k[j].n < k[l].n /\ k[j].m # k[l].m
  <2>1. j \in 1..L /\ k[j] = h[j] /\ h[j].n \in Nat
    BY <1>1, <1>2, <1>5
  <2>2. CASE l = L + 1
    BY <2>1, <2>2, <1>1, <1>2, <1>3
  <2>3. CASE l \in 1..L
    <3>1. k[l] = h[l]
      BY <2>3, <1>1
    <3>2. h[j].n < h[l].n /\ h[j].m # h[l].m
      BY <2>1, <2>3, <1>3, <1>5
    <3> QED BY <2>1, <3>1, <3>2
  <2> QED BY <2>2, <2>3, <1>4
<1>6. ASSUME NEW j \in 1..Len(g), NEW l \in 1..(L + 1)
      PROVE  g[j].n < k[l].n /\ g[j].m # k[l].m
  <2>1. CASE l = L + 1
    BY <2>1, <1>1, <1>2, <1>3
  <2>2. CASE l \in 1..L
    BY <2>2, <1>1, <1>3
  <2> QED BY <2>1, <2>2, <1>4
<1>7. ASSUME NEW j \in 1..Len(g) PROVE g[j].n <= u.takenCount /\ g[j].m \in u.taken
  BY <1>2, <1>3
<1>8. ASSUME NEW j \in 1..(L + 1)
      PROVE  k[j].n <= u.takenCount /\ k[j].m \in u.taken
  <2>1. CASE j = L + 1
    BY <2>1, <1>1, <1>2
  <2>2. CASE j \in 1..L
    BY <2>2, <1>1, <1>2, <1>3, SMTT(40)
  <2> QED BY <2>1, <2>2, <1>4
<1>9. ASSUME NEW m \in u.taken
      PROVE  \/ \E j \in 1..Len(g) : g[j].m = m
             \/ \E j \in 1..(L + 1) : k[j].m = m
  <2>1. CASE m = i.m
    <3>1. L + 1 \in 1..(L + 1)
      BY <1>1
    <3> QED BY <3>1, <2>1, <1>1
  <2>2. CASE \E j \in 1..L : h[j].m = m
    <3>1. PICK j \in 1..L : h[j].m = m
      BY <2>2
    <3>2. j \in 1..(L + 1) /\ k[j].m = m
      BY <3>1, <1>1
    <3> QED BY <3>2
  <2> QED BY <2>1, <2>2, <1>3
<1> QED BY <1>1, <1>3, <1>5, <1>6, <1>7, <1>8, <1>9 DEF OrderOk

\* holdMessage(): held input stays in order, and may still be heard.
LEMMA HoldKeeps ==
  ASSUME IInv, NEW m \in Messages,
         s.takenCount + s.selfTurns < MaxTurns, m \notin s.taken,
         Keeps(s.authorFilter, m), InputHeld(s), Hold(m), UNCHANGED alive, Untouched
  PROVE  IInv' /\ (Done(s) => s'.state = s.state)
<1> DEFINE i == Item(m)
           t == [Take(m) EXCEPT !.held = Append(@, i)]
           u == CancelTaskWait(t, m)
           v == MaybeApply(u)
<1>1. s \in Session /\ SessionOk(s, got) /\ ~Done(s) /\ ~s.ending
  BY DEF IInv, SessionOk, Hold
<1>2. i \in HeldItem /\ i.m = m /\ i.n = s.takenCount + 1 /\ i.said = s.latest
  BY <1>1 DEF Item, HeldItem, Session
<1> HIDE DEF i
<1>3. /\ t \in Session /\ t.held = Append(s.held, i) /\ t.taken = s.taken \union {m}
      /\ t.takenCount = s.takenCount + 1 /\ t.selfTurns = s.selfTurns
      /\ SameSetup(s, t) /\ SameEnd(s, t)
      /\ t.swapping = s.swapping /\ t.latest = s.latest
      /\ t.authorFilter = s.authorFilter /\ t.owner = s.owner
      /\ t.harness = s.harness /\ t.spec = s.spec /\ t.busy = s.busy
      /\ t.state = s.state /\ t.asks = s.asks
  <2>1. /\ Take(m) \in Session /\ Take(m).held = s.held
        /\ Take(m).taken = s.taken \union {m}
        /\ Take(m).takenCount = s.takenCount + 1 /\ Take(m).selfTurns = s.selfTurns
        /\ SameSetup(s, Take(m)) /\ SameEnd(s, Take(m))
        /\ Take(m).swapping = s.swapping /\ Take(m).latest = s.latest
        /\ Take(m).authorFilter = s.authorFilter /\ Take(m).owner = s.owner
        /\ Take(m).harness = s.harness /\ Take(m).spec = s.spec
        /\ Take(m).busy = s.busy /\ Take(m).state = s.state
        /\ Take(m).asks = s.asks
    BY <1>1, TakeEffect
  <2>2. Append(s.held, i) \in Seq(HeldItem)
    BY <1>1, <1>2 DEF Session
  <2> QED BY <2>1, <2>2 DEF Session, SameSetup, SameEnd
<1> HIDE DEF t
<1>4. s.held \in Seq(HeldItem) /\ Len(t.held) = Len(s.held) + 1
      /\ \A j \in 1..Len(t.held) :
           t.held[j] = IF j = Len(s.held) + 1 THEN i ELSE s.held[j]
  BY <1>1, <1>2, <1>3 DEF Session
<1>5. SwapOk(t)
  BY <1>1, <1>3 DEF SessionOk, SwapOk, InputHeld, Pending, Done, SameSetup, SameEnd
<1>6. OwnerOk(t)
  BY <1>1, <1>3 DEF SessionOk, OwnerOk, InputHeld, Pending, Done, SameSetup, SameEnd
<1>7. HeldOk(t)
  <2>1. InputHeld(t)
    BY <1>3 DEF InputHeld, Pending, SameSetup
  <2>2. ASSUME NEW j \in 1..Len(t.held)
        PROVE  t.held[j].said <= t.latest /\ Keeps(t.authorFilter, t.held[j].m)
    <3>1. CASE j = Len(s.held) + 1
      BY <3>1, <1>1, <1>2, <1>3, <1>4 DEF Session
    <3>2. CASE j # Len(s.held) + 1
      <4>1. j \in 1..Len(s.held)
        BY <3>2, <1>4
      <4> QED BY <3>2, <4>1, <1>1, <1>3, <1>4 DEF SessionOk, HeldOk
    <3> QED BY <3>1, <3>2
  <2> QED BY <2>1, <2>2 DEF HeldOk
<1>8. OrderOk(t, got)
  <2>1. OrderOk(s, got) /\ s.takenCount + 1 = t.takenCount
    BY <1>1, <1>3 DEF SessionOk
  <2> QED
    BY <1>1, <1>2, <1>3, <2>1, OrderHolds DEF IInv
<1>9. SessionOk(t, got) /\ Later(s, t)
  BY <1>1, <1>3, <1>5, <1>6, <1>7, <1>8
     DEF SessionOk, Later, SameSetup, SameEnd, Done
<1>10. u \in Session /\ Same(t, u) /\ u.asks = t.asks
       /\ Done(u) = Done(t) /\ (Done(t) => u.state = t.state)
  BY <1>3, CancelTaskWaitEffect
<1> HIDE DEF u
<1>11. got \in Seq(HeardItem)
  BY DEF IInv
<1>12. SessionOk(u, got) /\ Later(t, u)
  BY <1>9, <1>10, <1>11, SameKeeps
<1>13. SessionOk(v, got) /\ Later(u, v) /\ SameCounts(u, v)
  BY <1>12, <1>11, MaybeApplyKeeps
<1>14. Becomes(v) /\ got' = got /\ alive' = alive /\ allowed' = allowed
  BY DEF Hold, Untouched, v, u, t, i
<1> HIDE DEF v
<1>15. Later(s, v)
  BY <1>9, <1>12, <1>13, Later2
<1>16. CountsOk(v)
  BY <1>1, <1>3, <1>10, <1>13, SetupAssumption
     DEF CountsOk, SameCounts, Same, SameBase, Session
<1>17. GotOk(got)
  BY DEF IInv
<1> QED BY <1>11, <1>13, <1>14, <1>15, <1>16, <1>17, BecomesStep

\* A message handed over while nothing is held.
LEMMA OrderHears ==
  ASSUME NEW t \in Session, NEW u \in Session, NEW g \in Seq(HeardItem),
         OrderOk(t, g), NEW x \in HeardItem, x.n = t.takenCount + 1,
         x.m \notin t.taken, u.taken = t.taken \union {x.m},
         u.takenCount = t.takenCount + 1, t.held = <<>>, u.held = <<>>
  PROVE  OrderOk(u, Append(g, x))
<1> DEFINE L == Len(g)
           k == Append(g, x)
<1>1. /\ L \in Nat /\ Len(k) = L + 1 /\ k[L + 1] = x
      /\ \A j \in 1..L : k[j] = g[j]
  OBVIOUS
<1>2. /\ \A j \in 1..L : g[j].n \in Nat
      /\ t.takenCount \in Nat /\ Len(u.held) = 0 /\ Len(t.held) = 0
  <2>1. \A j \in 1..L : g[j] \in HeardItem
    OBVIOUS
  <2> QED BY <2>1 DEF HeardItem, Session
<1>3. /\ \A j, l \in 1..L : j < l => g[j].n < g[l].n /\ g[j].m # g[l].m
      /\ \A j \in 1..L : g[j].n <= t.takenCount /\ g[j].m \in t.taken
      /\ \A m \in t.taken : \E j \in 1..L : g[j].m = m
  BY <1>2 DEF OrderOk
<1> HIDE DEF L, k
<1>4. \A j \in 1..(L + 1) : j \in 1..L \/ j = L + 1
  BY <1>1
<1>5. ASSUME NEW j \in 1..(L + 1), NEW l \in 1..(L + 1), j < l
      PROVE  k[j].n < k[l].n /\ k[j].m # k[l].m
  <2>1. j \in 1..L /\ k[j] = g[j] /\ g[j].n \in Nat
    BY <1>1, <1>2, <1>5
  <2>2. CASE l = L + 1
    BY <2>1, <2>2, <1>1, <1>2, <1>3
  <2>3. CASE l \in 1..L
    <3>1. k[l] = g[l]
      BY <2>3, <1>1
    <3>2. g[j].n < g[l].n /\ g[j].m # g[l].m
      BY <2>1, <2>3, <1>3, <1>5
    <3> QED BY <2>1, <3>1, <3>2
  <2> QED BY <2>2, <2>3, <1>4
<1>6. ASSUME NEW j \in 1..(L + 1)
      PROVE  k[j].n <= u.takenCount /\ k[j].m \in u.taken
  <2>1. CASE j = L + 1
    BY <2>1, <1>1, <1>2
  <2>2. CASE j \in 1..L
    <3>1. k[j] = g[j] /\ g[j].n \in Nat /\ g[j].n <= t.takenCount /\ g[j].m \in t.taken
      BY <2>2, <1>1, <1>2, <1>3
    <3> QED BY <3>1, <1>2
  <2> QED BY <2>1, <2>2, <1>4
<1>7. ASSUME NEW m \in u.taken PROVE \E j \in 1..(L + 1) : k[j].m = m
  <2>1. CASE m = x.m
    <3>1. L + 1 \in 1..(L + 1)
      BY <1>1
    <3> QED BY <3>1, <2>1, <1>1
  <2>2. CASE m \in t.taken
    <3>1. PICK j \in 1..L : g[j].m = m
      BY <2>2, <1>3
    <3>2. j \in 1..(L + 1) /\ k[j].m = m
      BY <3>1, <1>1
    <3> QED BY <3>2
  <2> QED BY <2>1, <2>2
<1>8. OrderOk(u, k)
  BY <1>1, <1>2, <1>5, <1>6, <1>7 DEF OrderOk
<1> QED BY <1>8 DEF k

\* What is said when no set-up is pending is heard on the newest one.
LEMMA DeliverKeeps ==
  ASSUME IInv, NEW m \in Messages,
         s.takenCount + s.selfTurns < MaxTurns, m \notin s.taken,
         Keeps(s.authorFilter, m), ~InputHeld(s), Deliver(m), UNCHANGED alive, Untouched
  PROVE  IInv' /\ (Done(s) => s'.state = s.state)
<1> DEFINE x == Heard(s, Item(m))
           t == IF s.harness = 0 THEN Take(m)
                ELSE [Take(m) EXCEPT !.state = IF @ = "idle" THEN "working" ELSE @]
           u == CancelTaskWait(t, m)
           g == Append(got, x)
<1>1. /\ s \in Session /\ SessionOk(s, got) /\ ~Done(s) /\ ~s.closed /\ s.held = <<>>
      /\ s.busy = "none"
  BY DEF IInv, SessionOk, HeldOk, Deliver, InputHeld
<1>2. /\ x \in HeardItem /\ x.m = m /\ x.n = s.takenCount + 1 /\ x.said = s.latest
      /\ x.spec = s.spec /\ x.filter = s.authorFilter
  BY <1>1 DEF Heard, Item, HeardItem, Session
<1> HIDE DEF x
<1>3. /\ t \in Session /\ t.held = s.held /\ t.taken = s.taken \union {m}
      /\ t.takenCount = s.takenCount + 1 /\ t.selfTurns = s.selfTurns
      /\ SameSetup(s, t) /\ SameEnd(s, t)
      /\ t.swapping = s.swapping /\ t.latest = s.latest
      /\ t.authorFilter = s.authorFilter /\ t.owner = s.owner
      /\ t.harness = s.harness /\ t.spec = s.spec /\ t.busy = s.busy
      /\ t.asks = s.asks /\ ~Done(t)
  <2>1. /\ Take(m) \in Session /\ Take(m).held = s.held
        /\ Take(m).taken = s.taken \union {m}
        /\ Take(m).takenCount = s.takenCount + 1 /\ Take(m).selfTurns = s.selfTurns
        /\ SameSetup(s, Take(m)) /\ SameEnd(s, Take(m))
        /\ Take(m).swapping = s.swapping /\ Take(m).latest = s.latest
        /\ Take(m).authorFilter = s.authorFilter /\ Take(m).owner = s.owner
        /\ Take(m).harness = s.harness /\ Take(m).spec = s.spec
        /\ Take(m).busy = s.busy /\ Take(m).state = s.state
        /\ Take(m).asks = s.asks
    BY <1>1, TakeEffect
  <2>2. CASE s.harness = 0
    BY <2>1, <2>2, <1>1 DEF Done
  <2>3. CASE s.harness # 0
    BY <2>1, <2>3, <1>1, SMTT(40) DEF Session, SameSetup, SameEnd, Done, States
  <2> QED BY <2>2, <2>3
<1> HIDE DEF t
<1>4. SwapOk(t)
  BY <1>1, <1>3 DEF SessionOk, SwapOk, InputHeld, Pending, Done, SameSetup, SameEnd
<1>5. OwnerOk(t)
  BY <1>1, <1>3 DEF SessionOk, OwnerOk, InputHeld, Pending, Done, SameSetup, SameEnd
<1>6. HeldOk(t)
  BY <1>1, <1>3 DEF SessionOk, HeldOk
<1>7. g \in Seq(HeardItem) /\ OrderOk(t, g)
  BY <1>1, <1>2, <1>3, OrderHears DEF IInv, SessionOk
<1>8. s.latest <= s.spec
  BY <1>1 DEF SessionOk, SwapOk
<1>9. GotOk(g)
  <2>1. ASSUME NEW i \in 1..Len(g)
        PROVE  g[i].said <= g[i].spec /\ Keeps(g[i].filter, g[i].m)
    <3>1. CASE i = Len(got) + 1
      <4>1. g[i] = x
        BY <3>1 DEF IInv
      <4> QED BY <4>1, <1>2, <1>8
    <3>2. CASE i # Len(got) + 1
      <4>1. i \in 1..Len(got) /\ g[i] = got[i]
        BY <3>2 DEF IInv
      <4> QED BY <4>1 DEF IInv, GotOk
    <3> QED BY <3>1, <3>2
  <2> QED BY <2>1 DEF GotOk
<1>10. u \in Session /\ Same(t, u) /\ u.asks = t.asks
       /\ Done(u) = Done(t) /\ (Done(t) => u.state = t.state)
  BY <1>3, CancelTaskWaitEffect
<1>11. Becomes(u) /\ got' = g /\ alive' = alive /\ allowed' = allowed
  BY DEF Deliver, Untouched, x, t
<1> HIDE DEF u, g
<1>12. SessionOk(t, g) /\ Later(s, t)
  BY <1>1, <1>3, <1>4, <1>5, <1>6, <1>7
     DEF SessionOk, Later, SameSetup, SameEnd, Done, InputHeld, Pending
<1>13. SessionOk(u, g) /\ Later(t, u)
  BY <1>7, <1>10, <1>12, SameKeeps
<1>14. Later(s, u)
  BY <1>12, <1>13, Later2
<1>15. CountsOk(u)
  BY <1>1, <1>3, <1>10, SetupAssumption
     DEF CountsOk, Same, SameBase, Session
<1> QED BY <1>7, <1>9, <1>11, <1>13, <1>14, <1>15, BecomesStep

\* handleMessage(), whether the message is held or delivered.
LEMMA MessageKeeps ==
  ASSUME IInv, NEW m \in Messages, Message(m)
  PROVE  IInv' /\ (Done(s) => s'.state = s.state)
BY HoldKeeps, DeliverKeeps DEF Message

\* A set-up the control plane decided is one the session can hold.
LEMMA ReceivedEffect ==
  ASSUME NEW n \in DOMAIN Setups
  PROVE  /\ Received(n) \in SetupRec /\ Received(n) # NoSetup
         /\ Received(n).n = n /\ Received(n).answers = Setups[n].answers
         /\ Setups[n].keep \in Whose /\ Setups[n].answers \in Whose /\ n \in Nat
<1>1. /\ Setups[n].keep \in Whose /\ Setups[n].answers \in Whose
      /\ Setups[n].stop \in BOOLEAN /\ n \in Nat
  <2> DEFINE R == [keep : Members \union {NoOne}, answers : Members \union {NoOne},
                   stop : BOOLEAN]
  <2>1. Setups \in Seq(R)
    BY SetupAssumption
  <2>2. n \in 1..Len(Setups) /\ Setups[n] \in R
    <3> HIDE DEF R
    <3> QED BY <2>1
  <2> QED BY <2>2 DEF Whose
<1>2. Received(n) \in SetupRec
  BY <1>1 DEF Received, SetupRec, Whose
<1> QED BY <1>1, <1>2, SetupAssumption DEF Received

\* handleSetup(): what the new sharing excludes is dropped, and the owner of the
\* turn still running is not lifted.
LEMMA SetupKeeps ==
  ASSUME IInv, NEW n \in DOMAIN Setups, Setup(n)
  PROVE  IInv' /\ (Done(s) => s'.state = s.state)
<1> DEFINE t == [s EXCEPT !.answersFrom = AnswersFrom(n), !.setup = Received(n),
                          !.latest = n, !.authorFilter = Setups[n].keep,
                          !.timer = TRUE,
                          !.owner = IF Setups[n].answers = NoOne THEN @
                                    ELSE Setups[n].answers]
           d == DropHeldFrom(t, Setups[n].keep)
           u == MaybeApply(d)
<1>1. /\ s \in Session /\ SessionOk(s, got) /\ ~Done(s) /\ ~s.ending /\ n >= s.latest
      /\ got \in Seq(HeardItem) /\ GotOk(got) /\ CountsOk(s)
  BY DEF IInv, SessionOk, Setup
<1>2. /\ Received(n) \in SetupRec /\ Received(n) # NoSetup
      /\ Received(n).n = n /\ Received(n).answers = Setups[n].answers
      /\ Setups[n].keep \in Whose /\ Setups[n].answers \in Whose /\ n \in Nat
  BY ReceivedEffect
<1>3. AnswersFrom(n) \in Whose
  BY <1>1, <1>2 DEF AnswersFrom, Session, Whose
<1>4. /\ t \in Session /\ SameHeld(s, t) /\ SameCounts(s, t) /\ SameEnd(s, t)
      /\ t.setup = Received(n) /\ t.latest = n /\ t.authorFilter = Setups[n].keep
      /\ t.answersFrom = AnswersFrom(n)
      /\ t.owner = IF Setups[n].answers = NoOne THEN s.owner ELSE Setups[n].answers
      /\ t.swapping = s.swapping /\ t.harness = s.harness /\ t.spec = s.spec
      /\ t.busy = s.busy /\ t.state = s.state /\ t.asks = s.asks
  BY <1>1, <1>2, <1>3 DEF Session, SameHeld, SameCounts, SameEnd
<1> HIDE DEF t
<1>5. OrderOk(t, got)
  BY <1>1, <1>4 DEF SessionOk, OrderOk, SameHeld, SameCounts
<1>6. /\ d \in Session /\ SameBase(t, d) /\ SameSetup(t, d) /\ SameEnd(t, d)
      /\ d.state = t.state /\ d.asks = t.asks /\ OrderOk(d, got)
      /\ \A i \in 1..Len(d.held) :
           /\ Keeps(Setups[n].keep, d.held[i].m)
           /\ \E j \in 1..Len(t.held) : d.held[i] = t.held[j]
  BY <1>1, <1>2, <1>4, <1>5, DropHeldFromEffect
<1> HIDE DEF d
<1>7. SwapOk(d)
  BY <1>1, <1>2, <1>4, <1>6
     DEF SessionOk, SwapOk, InputHeld, Pending, Done, SameBase, SameSetup, SameEnd
<1>8. OwnerOk(d)
  BY <1>1, <1>2, <1>4, <1>6
     DEF SessionOk, OwnerOk, AnswersFrom, InputHeld, Pending, Done, SameBase, SameSetup,
         SameEnd
<1>9. HeldOk(d)
  <2>1. ASSUME NEW i \in 1..Len(d.held) PROVE d.held[i].said <= d.latest
    <3>1. PICK j \in 1..Len(s.held) : d.held[i] = s.held[j]
      BY <1>4, <1>6 DEF SameHeld
    <3>2. s.held[j].said <= s.latest /\ s.held[j] \in HeldItem
      BY <1>1 DEF SessionOk, HeldOk, Session
    <3>3. s.held[j].said \in Nat /\ s.latest \in Nat /\ d.latest = n
      BY <3>2, <1>1, <1>4, <1>6 DEF HeldItem, Session, SameBase
    <3> QED BY <3>1, <3>2, <3>3, <1>1, <1>2
  <2>2. InputHeld(d)
    BY <1>2, <1>4, <1>6 DEF InputHeld, Pending, SameSetup
  <2> QED BY <2>1, <2>2, <1>4, <1>6 DEF HeldOk, SameBase
<1>10. SessionOk(d, got) /\ Later(s, d)
  BY <1>1, <1>2, <1>4, <1>6, <1>7, <1>8, <1>9
     DEF SessionOk, Later, SameBase, SameSetup, SameEnd, Done
<1>11. SessionOk(u, got) /\ Later(d, u) /\ SameCounts(d, u)
  BY <1>1, <1>10, MaybeApplyKeeps
<1>12. Becomes(u) /\ got' = got /\ alive' = alive /\ allowed' = allowed
  BY DEF Setup, TakeSetup, Untouched, t, d
<1> HIDE DEF u
<1>13. Later(s, u)
  BY <1>10, <1>11, Later2
<1>14. CountsOk(u)
  BY <1>1, <1>4, <1>6, <1>11 DEF CountsOk, SameCounts, SameBase
<1> QED BY <1>1, <1>11, <1>12, <1>13, <1>14, BecomesStep

\* The set-up's flags change, or nothing does, before maybeApplySetup().
LEMMA MaybeApplyStep ==
  ASSUME IInv, NEW t \in Session, Onward(s, t), Later(s, t), SameCounts(s, t),
         Becomes(MaybeApply(t)), UNCHANGED <<alive, got>>, Untouched
  PROVE  IInv' /\ (Done(s) => s'.state = s.state)
<1> DEFINE u == MaybeApply(t)
<1>1. got \in Seq(HeardItem) /\ GotOk(got) /\ CountsOk(s) /\ SessionOk(s, got)
  BY DEF IInv
<1>2. SessionOk(t, got)
  BY <1>1, OnwardKeeps
<1>3. SessionOk(u, got) /\ Later(t, u) /\ SameCounts(t, u)
  BY <1>1, <1>2, MaybeApplyKeeps
<1> HIDE DEF u
<1>4. Later(s, u) /\ CountsOk(u)
  BY <1>1, <1>3, Later2 DEF CountsOk, SameCounts
<1>5. Becomes(u) /\ got' = got /\ alive' = alive /\ allowed' = allowed
  BY DEF Untouched, u
<1> QED BY <1>1, <1>3, <1>4, <1>5, BecomesStep

\* handleSetupApply(), and a call the pending set-up refuses.
LEMMA SetupApplyKeeps ==
  ASSUME IInv, SetupApply \/ RefusedCall
  PROVE  IInv' /\ (Done(s) => s'.state = s.state)
<1>1. s \in Session /\ SwapOk(s) /\ s.setup \in SetupRec /\ s.setup # NoSetup
  BY DEF IInv, SessionOk, SetupApply, RefusedCall, Pending, Session
<1>2. ASSUME NEW x \in SetupRec, x.n = s.setup.n, x.answers = s.setup.answers,
             Becomes(MaybeApply([s EXCEPT !.setup = x])),
             UNCHANGED <<alive, got>>, Untouched
      PROVE  IInv' /\ (Done(s) => s'.state = s.state)
  <2> DEFINE t == [s EXCEPT !.setup = x]
  <2>1. /\ t \in Session /\ SameBase(s, t) /\ SameHeld(s, t) /\ SameEnd(s, t)
        /\ t.setup = x /\ x # NoSetup /\ t.answersFrom = s.answersFrom
        /\ t.state = s.state /\ t.asks = s.asks
    BY <1>1, SetupAssumption DEF Session, SameBase, SameHeld, SameEnd
  <2>2. Becomes(MaybeApply(t))
    BY <1>2
  <2> HIDE DEF t
  <2>3. Onward(s, t)
    BY <1>1, <1>2, <2>1 DEF Onward, SameBase, SameEnd, SwapOk, Done
  <2>4. Later(s, t) /\ SameCounts(s, t)
    BY <2>1 DEF Later, SameBase, SameEnd, SameCounts, Done
  <2> QED BY <2>1, <2>2, <2>3, <2>4, <1>2, MaybeApplyStep
<1>3. CASE SetupApply
  <2> DEFINE x == [s.setup EXCEPT !.signaled = TRUE]
  <2>1. x \in SetupRec /\ x.n = s.setup.n /\ x.answers = s.setup.answers
    BY <1>1 DEF SetupRec
  <2>2. Becomes(MaybeApply([s EXCEPT !.setup = x]))
    BY <1>3 DEF SetupApply
  <2> HIDE DEF x
  <2> QED BY <1>2, <1>3, <2>1, <2>2 DEF SetupApply
<1>4. CASE RefusedCall
  <2> DEFINE x == [s.setup EXCEPT !.urgent = TRUE]
  <2>1. x \in SetupRec /\ x.n = s.setup.n /\ x.answers = s.setup.answers
    BY <1>1 DEF SetupRec
  <2>2. Becomes(MaybeApply([s EXCEPT !.setup = x]))
    BY <1>4 DEF RefusedCall
  <2> HIDE DEF x
  <2> QED BY <1>2, <1>4, <2>1, <2>2 DEF RefusedCall
<1> QED BY <1>3, <1>4

\* The poll of a pending set-up.
LEMMA TickKeeps ==
  ASSUME IInv, Tick PROVE IInv' /\ (Done(s) => s'.state = s.state)
<1>1. s \in Session /\ SwapOk(s)
  BY DEF IInv, SessionOk
<1>2. Onward(s, s) /\ Later(s, s) /\ SameCounts(s, s)
  BY <1>1 DEF Onward, Later, SameCounts, SameHeld, SwapOk
<1> QED BY <1>1, <1>2, MaybeApplyStep DEF Tick

\* The fallback for a set-up whose apply does not come.
LEMMA ApplyOverdueKeeps ==
  ASSUME IInv, ApplyOverdue
  PROVE  IInv' /\ (Done(s) => s'.state = s.state)
<1>1. s \in Session /\ SwapOk(s) /\ s.setup \in SetupRec /\ s.setup # NoSetup /\ CountsOk(s)
  BY DEF IInv, SessionOk, ApplyOverdue, Pending, Session
<1> DEFINE x == [s.setup EXCEPT !.overdue = TRUE]
<1>2. x \in SetupRec /\ x.n = s.setup.n /\ x.answers = s.setup.answers /\ x # NoSetup
  BY <1>1, SetupAssumption DEF SetupRec
<1>3. s' = [s EXCEPT !.setup = x]
  BY DEF ApplyOverdue
<1> HIDE DEF x
<1>4. /\ s' \in Session /\ SameBase(s, s') /\ SameHeld(s, s') /\ SameEnd(s, s')
      /\ s'.setup = x /\ s'.answersFrom = s.answersFrom
      /\ s'.state = s.state /\ s'.asks = s.asks
  BY <1>1, <1>2, <1>3 DEF Session, SameBase, SameHeld, SameEnd
<1>5. Onward(s, s') /\ CountsOk(s')
  BY <1>1, <1>2, <1>4 DEF Onward, SameBase, SameEnd, SwapOk, Done, CountsOk
<1>6. /\ Done(s') = Done(s) /\ phase' = phase /\ alive' = alive /\ got' = got
      /\ allowed' = allowed
  BY <1>4 DEF ApplyOverdue, Untouched, Done
<1> QED BY <1>4, <1>5, <1>6, QuietStep
-----------------------------------------------------------------------------

\* The phase a swap's end leaves, over the session Finally hands back.
LEMMA FinallyStep ==
  ASSUME IInv, NEW t \in Session, NEW g \in Seq(HeardItem), GotOk(g),
         SessionOk(Over(t), g), CountsOk(t),
         s' = Finally(t), phase' = PhaseAfterSwap(s'), got' = g,
         t.harness # 0, alive' \subseteq {t.harness}, 0 \notin alive',
         allowed' = allowed, Done(s) => t.state = s.state
  PROVE  IInv' /\ (Done(s) => s'.state = s.state)
<1> DEFINE u == Finally(t)
<1>1. /\ SessionOk(u, g) /\ SameCounts(t, u) /\ u.harness = t.harness
      /\ Done(t) => u.state = t.state
      /\ u.swapping # NoSetup => t.harness # 0
  BY FinallyKeeps
<1> HIDE DEF u
<1>2. s' = u
  BY DEF u
<1>3. PhaseOk(s', phase', alive')
  <2>1. phase' = IF u.swapping = NoSetup THEN "none" ELSE "retiring"
    BY <1>2 DEF PhaseAfterSwap
  <2> QED BY <1>1, <1>2, <2>1 DEF PhaseOk, Swapping
<1>4. CountsOk(s') /\ (Done(s) => s'.state = s.state)
  BY <1>1, <1>2 DEF CountsOk, SameCounts, Done
<1> QED BY <1>1, <1>2, <1>3, <1>4 DEF IInv, OwnerAnswers

\* The record as Finally begins.
LEMMA OverEffect ==
  ASSUME NEW t \in Session
  PROVE  LET o == Over(t)
         IN  /\ o \in Session /\ o.swapping = NoSetup /\ o.busy # "setup"
             /\ SameHeld(t, o) /\ SameSetup(t, o) /\ SameEnd(t, o) /\ SameCounts(t, o)
             /\ o.latest = t.latest /\ o.authorFilter = t.authorFilter
             /\ o.owner = t.owner /\ o.harness = t.harness /\ o.spec = t.spec
             /\ o.state = t.state /\ o.asks = t.asks
BY DEF Over, Session, SameHeld, SameSetup, SameEnd, SameCounts

\* Taking the swap off a session that is over, has its input closed or has
\* another set-up pending keeps it in order.
LEMMA OverKeeps ==
  ASSUME NEW t, NEW g \in Seq(HeardItem), SessionOk(t, g),
         \/ Done(t) \/ t.ending \/ Pending(t)
         \/ t.closed /\ t.owner = NoOne
  PROVE  SessionOk(Over(t), g)
<1> DEFINE o == Over(t)
<1>1. t \in Session /\ SwapOk(t) /\ OwnerOk(t) /\ HeldOk(t) /\ OrderOk(t, g)
  BY DEF SessionOk
<1>2. /\ o \in Session /\ o.swapping = NoSetup /\ o.busy # "setup"
      /\ SameHeld(t, o) /\ SameSetup(t, o) /\ SameEnd(t, o) /\ SameCounts(t, o)
      /\ o.latest = t.latest /\ o.authorFilter = t.authorFilter
      /\ o.owner = t.owner /\ o.harness = t.harness /\ o.spec = t.spec
      /\ o.state = t.state /\ o.asks = t.asks
  BY <1>1, OverEffect
<1> HIDE DEF o
<1>3. SwapOk(o)
  BY <1>1, <1>2 DEF SwapOk, InputHeld, Pending, Done, SameSetup, SameEnd
<1>4. OwnerOk(o)
  BY <1>1, <1>2 DEF SwapOk, OwnerOk, InputHeld, Pending, Done, SameSetup, SameEnd
<1>5. HeldOk(o)
  BY <1>1, <1>2 DEF SwapOk, HeldOk, InputHeld, Pending, Done, SameSetup, SameEnd, SameHeld
<1>6. OrderOk(o, g)
  BY <1>1, <1>2 DEF OrderOk, SameHeld, SameCounts
<1> QED BY <1>2, <1>3, <1>4, <1>5, <1>6 DEF SessionOk, o

\* dropHeld() carries the session on.
LEMMA DropHeldKeeps ==
  ASSUME NEW t, NEW g \in Seq(HeardItem), SessionOk(t, g)
  PROVE  LET u == DropHeld(t)
         IN  /\ SessionOk(u, g) /\ Onward(t, u)
             /\ SameBase(t, u) /\ SameEnd(t, u) /\ u.state = t.state
<1> DEFINE u == DropHeld(t)
<1>1. t \in Session /\ SwapOk(t)
  BY DEF SessionOk
<1>2. /\ u \in Session /\ SameBase(t, u) /\ SameSetup(t, u) /\ SameEnd(t, u)
      /\ HeldDropped(t, u) /\ u.state = t.state /\ u.asks = t.asks
  BY <1>1, DropHeldEffect
<1> HIDE DEF u
<1>3. Onward(t, u)
  BY <1>1, <1>2 DEF Onward, SameBase, SameSetup, SameEnd, SwapOk, Done
<1> QED BY <1>2, <1>3, OnwardKeeps DEF u

\* setIdle() leaves an ended session, and all but the turn's state, alone.
LEMMA SetIdleEffect ==
  ASSUME NEW t \in Session
  PROVE  LET u == SetIdle(t)
         IN  /\ u \in Session /\ Same(t, u) /\ Done(u) = Done(t)
             /\ (Done(t) => u.state = t.state) /\ u.asks = t.asks
<1> USE DEF Same, SameBase, SameHeld, SameSetup, SameEnd
<1>1. CASE Done(t) \/ t.state = "idle"
  BY <1>1 DEF SetIdle
<1>2. CASE ~(Done(t) \/ t.state = "idle")
  <2>1. SetIdle(t) = [t EXCEPT !.state = "idle", !.settled = FALSE]
    BY <1>2 DEF SetIdle
  <2>2. SetIdle(t) \in Session /\ SetIdle(t).state = "idle"
    <3> DEFINE v == [t EXCEPT !.state = "idle"]
    <3>1. "idle" \in States
      BY DEF States
    <3>2. v \in Session /\ v.state = "idle"
      BY <3>1 DEF Session
    <3>3. SetIdle(t) = [v EXCEPT !.settled = FALSE]
      BY <2>1 DEF Session
    <3> HIDE DEF v
    <3> QED BY <3>2, <3>3 DEF Session
  <2>3. Same(t, SetIdle(t)) /\ SetIdle(t).asks = t.asks
    BY <2>1 DEF Session
  <2> QED BY <1>2, <2>2, <2>3 DEF Done
<1> QED BY <1>1, <1>2

\* Whatever a killed harness asked, winding it down carries the session on.
LEMMA WoundDownKeeps ==
  ASSUME IInv, NEW t \in WoundDown
  PROVE  /\ t \in Session /\ SessionOk(t, got) /\ Onward(s, t) /\ SameCounts(s, t)
         /\ Done(t) = Done(s) /\ (Done(s) => t.state = s.state)
<1>1. s \in Session /\ SwapOk(s) /\ SessionOk(s, got) /\ got \in Seq(HeardItem)
  BY DEF IInv, SessionOk
<1>2. PICK a \in {FALSE, s.asks} : t = [SetIdle(s) EXCEPT !.background = FALSE, !.asks = a]
  BY DEF WoundDown
<1>3. SetIdle(s) \in Session /\ Same(s, SetIdle(s)) /\ Done(SetIdle(s)) = Done(s)
      /\ (Done(s) => SetIdle(s).state = s.state)
  BY <1>1, SetIdleEffect
<1>4. /\ t \in Session /\ Same(s, t) /\ Done(t) = Done(s) /\ t.asks = a
      /\ Done(s) => t.state = s.state
  BY <1>1, <1>2, <1>3
     DEF Session, Same, SameBase, SameHeld, SameSetup, SameEnd, Done
<1>5. SessionOk(t, got) /\ Onward(s, t)
  BY <1>1, <1>4, SameKeeps
<1> QED BY <1>4, <1>5 DEF SameCounts, Same, SameBase

\* The old harness is gone: the swap ends with the session, or the successor is
\* built while no process runs.
LEMMA RetiredKeeps ==
  ASSUME IInv, Retired PROVE IInv' /\ (Done(s) => s'.state = s.state)
<1>1. /\ SessionOk(s, got) /\ got \in Seq(HeardItem) /\ GotOk(got) /\ CountsOk(s)
      /\ PhaseOk(s, phase, alive) /\ got' = got /\ allowed' = allowed
      /\ phase \in {"retiring", "aborting"} /\ s.harness \notin alive
  BY DEF IInv, Retired, OldGone, Untouched
<1>2. /\ s.harness # 0 /\ s.swapping # NoSetup /\ alive = {}
      /\ s.harness \in Nat
  BY <1>1 DEF PhaseOk, Swapping, SessionOk, Session
<1>3. PICK t \in WoundDown :
        IF s.ending \/ shutting \/ Done(s)
        THEN /\ s' = Finally(EndNeverStarted(DropHeld(t)))
             /\ phase' = PhaseAfterSwap(s') /\ UNCHANGED alive
        ELSE /\ s' = t
             /\ phase' = "building" /\ alive' = alive \union {s.harness + 1}
  BY DEF Retired
<1>4. /\ t \in Session /\ SessionOk(t, got) /\ Onward(s, t) /\ SameCounts(s, t)
      /\ Done(t) = Done(s) /\ (Done(s) => t.state = s.state)
  BY <1>3, WoundDownKeeps
<1>5. CASE s.ending \/ shutting \/ Done(s)
  <2> DEFINE d == DropHeld(t)
             e == EndNeverStarted(d)
  <2>1. /\ SessionOk(d, got) /\ Onward(t, d)
        /\ SameBase(t, d) /\ SameEnd(t, d) /\ d.state = t.state
    BY <1>1, <1>4, DropHeldKeeps
  <2>2. s' = Finally(e) /\ phase' = PhaseAfterSwap(s') /\ alive' = alive
    BY <1>3, <1>5
  <2> HIDE DEF d
  <2>3. d \in Session /\ SwapOk(d)
    BY <2>1 DEF SessionOk
  <2>4. /\ e \in Session /\ Same(d, e) /\ e.asks = d.asks
        /\ Done(e) /\ (Done(d) => e.state = d.state)
    BY <2>3 DEF EndNeverStarted, Session, Same, SameBase, SameHeld, SameSetup, SameEnd,
                Done, States
  <2> HIDE DEF e
  <2>5. SessionOk(e, got)
    BY <1>1, <2>1, <2>4, SameKeeps
  <2>6. SessionOk(Over(e), got)
    BY <1>1, <2>4, <2>5, OverKeeps
  <2>7. CountsOk(e) /\ e.harness = s.harness
    BY <1>1, <1>4, <2>1, <2>4 DEF CountsOk, SameCounts, Same, SameBase, Onward
  <2>8. Done(s) => e.state = s.state
    BY <1>4, <2>1, <2>4 DEF Done
  <2> QED BY <1>1, <1>2, <2>2, <2>4, <2>6, <2>7, <2>8, FinallyStep
<1>6. CASE ~(s.ending \/ shutting \/ Done(s))
  <2>1. s' = t /\ phase' = "building" /\ alive' = {s.harness + 1}
    BY <1>2, <1>3, <1>6
  <2>2. t.harness = s.harness /\ t.swapping = s.swapping /\ ~Done(t)
    BY <1>4, <1>6 DEF Onward
  <2>3. PhaseOk(s', phase', alive')
    BY <1>2, <2>1, <2>2 DEF PhaseOk, Swapping
  <2> QED
    BY <1>1, <1>4, <1>6, <2>1, <2>3
       DEF IInv, OwnerAnswers, CountsOk, SameCounts
<1> QED BY <1>5, <1>6

\* fail() of a session that is not over yet.
LEMMA StateErrorKeeps ==
  ASSUME NEW t, NEW g \in Seq(HeardItem), SessionOk(t, g)
  PROVE  LET u == [t EXCEPT !.state = IF Done(t) THEN @ ELSE "error"]
         IN  /\ u \in Session /\ SessionOk(u, g) /\ Same(t, u) /\ Onward(t, u)
             /\ Done(u) /\ (Done(t) => u.state = t.state)
<1> DEFINE u == [t EXCEPT !.state = IF Done(t) THEN @ ELSE "error"]
<1>1. t \in Session
  BY DEF SessionOk
<1>2. /\ u \in Session /\ Same(t, u) /\ u.asks = t.asks
      /\ Done(u) /\ (Done(t) => u.state = t.state)
  BY <1>1 DEF Session, Same, SameBase, SameHeld, SameSetup, SameEnd, Done, States
<1> HIDE DEF u
<1>3. SessionOk(u, g) /\ Onward(t, u)
  BY <1>2, SameKeeps
<1> QED BY <1>2, <1>3 DEF u

\* abandonDaemon(): the harness may still run, but the session is over.
LEMMA AbandonDaemonKeeps ==
  ASSUME IInv, AbandonDaemon PROVE IInv' /\ (Done(s) => s'.state = s.state)
<1> DEFINE d == DropHeld(s)
<1>1. /\ SessionOk(s, got) /\ got \in Seq(HeardItem) /\ CountsOk(s)
      /\ phase = "aborting" /\ phase' = "leaving" /\ alive' = alive /\ got' = got
      /\ allowed' = allowed
  BY DEF IInv, AbandonDaemon, Untouched
<1>2. /\ SessionOk(d, got) /\ Onward(s, d)
      /\ SameBase(s, d) /\ SameEnd(s, d) /\ d.state = s.state
  BY <1>1, DropHeldKeeps
<1>3. s' = [d EXCEPT !.state = IF Done(d) THEN @ ELSE "error"]
  <2>1. Done(d) = Done(s)
    BY <1>2 DEF Done
  <2> QED BY <2>1 DEF AbandonDaemon
<1> HIDE DEF d
<1>4. /\ s' \in Session /\ SessionOk(s', got) /\ Same(d, s') /\ Onward(d, s')
      /\ Done(s') /\ (Done(d) => s'.state = d.state)
  BY <1>1, <1>2, <1>3, StateErrorKeeps
<1>5. Done(s) => s'.state = s.state
  BY <1>2, <1>4 DEF Done
<1>6. PhaseOk(s', phase', alive')
  BY <1>1, <1>2, <1>4 DEF IInv, PhaseOk, Swapping, Same, SameBase
<1> QED
  BY <1>1, <1>2, <1>4, <1>5, <1>6
     DEF IInv, OwnerAnswers, CountsOk, Same, SameBase

\* The grace of a retiring harness passes.
LEMMA GraceOverKeeps ==
  ASSUME IInv, GraceOver PROVE IInv' /\ (Done(s) => s'.state = s.state)
BY DEF IInv, GraceOver, Untouched, OwnerAnswers, PhaseOk, Swapping

\* A swap that met a shutdown ends once the harness it built has stopped.
LEMMA StopReturnsKeeps ==
  ASSUME IInv, StopReturns PROVE IInv' /\ (Done(s) => s'.state = s.state)
<1>1. /\ SessionOk(s, got) /\ got \in Seq(HeardItem) /\ GotOk(got) /\ CountsOk(s)
      /\ s \in Session /\ PhaseOk(s, phase, alive) /\ phase = "stopping"
      /\ s' = Finally(s) /\ phase' = PhaseAfterSwap(s') /\ got' = got
      /\ alive' = alive /\ allowed' = allowed
  BY DEF IInv, SessionOk, StopReturns, Untouched
<1>2. s.harness # 0 /\ s.closed /\ alive \subseteq {s.harness} /\ 0 \notin alive
  BY <1>1 DEF PhaseOk, Swapping, SessionOk, SwapOk
<1>3. SessionOk(Over(s), got)
  BY <1>1, <1>2, OverKeeps DEF PhaseOk, Pending
<1> QED BY <1>1, <1>2, <1>3, FinallyStep

\* failSetup(): the session is over, and so is the process that was built.
LEMMA BuildFailsKeeps ==
  ASSUME IInv, BuildFails PROVE IInv' /\ (Done(s) => s'.state = s.state)
<1> DEFINE d == DropHeld(s)
           e == [d EXCEPT !.state = IF Done(d) THEN @ ELSE "error"]
<1>1. /\ SessionOk(s, got) /\ got \in Seq(HeardItem) /\ GotOk(got) /\ CountsOk(s)
      /\ PhaseOk(s, phase, alive) /\ phase = "building" /\ s.harness # 0
      /\ alive' = alive \ {s.harness + 1} /\ got' = got /\ allowed' = allowed
      /\ phase' = PhaseAfterSwap(s')
  BY DEF IInv, BuildFails, Untouched
<1>2. /\ SessionOk(d, got) /\ Onward(s, d)
      /\ SameBase(s, d) /\ SameEnd(s, d) /\ d.state = s.state
  BY <1>1, DropHeldKeeps
<1>3. s' = Finally(e)
  <2>1. Done(d) = Done(s)
    BY <1>2 DEF Done
  <2> QED BY <2>1 DEF BuildFails
<1> HIDE DEF d
<1>4. /\ e \in Session /\ SessionOk(e, got) /\ Same(d, e)
      /\ Done(e) /\ (Done(d) => e.state = d.state)
  BY <1>1, <1>2, StateErrorKeeps
<1> HIDE DEF e
<1>5. SessionOk(Over(e), got)
  BY <1>1, <1>4, OverKeeps
<1>6. CountsOk(e) /\ e.harness # 0 /\ alive' = {} /\ (Done(s) => e.state = s.state)
  BY <1>1, <1>2, <1>4 DEF CountsOk, Same, SameBase, PhaseOk, Done
<1> QED BY <1>1, <1>3, <1>4, <1>5, <1>6, FinallyStep

\* What was held is heard after all that was heard before, in its order.
LEMMA OrderReplays ==
  ASSUME NEW t \in Session, NEW u \in Session, NEW g \in Seq(HeardItem),
         NEW r \in Seq(HeardItem), OrderOk(t, g), Len(r) = Len(t.held),
         \A j \in 1..Len(r) : r[j].n = t.held[j].n /\ r[j].m = t.held[j].m,
         u.held = <<>>, u.taken = t.taken, u.takenCount = t.takenCount
  PROVE  OrderOk(u, g \o r)
<1> DEFINE L == Len(g)
           R == Len(r)
           k == g \o r
<1>1. /\ L \in Nat /\ R \in Nat /\ Len(k) = L + R /\ Len(u.held) = 0
      /\ \A j \in 1..L : k[j] = g[j]
      /\ \A j \in (L + 1)..(L + R) : k[j] = r[j - L] /\ j - L \in 1..R
  <2>1. Len(g) \in Nat /\ Len(r) \in Nat /\ Len(u.held) = 0
    OBVIOUS
  <2>2. /\ Len(g \o r) = Len(g) + Len(r)
        /\ \A j \in 1..(Len(g) + Len(r)) :
             (g \o r)[j] = IF j <= Len(g) THEN g[j] ELSE r[j - Len(g)]
    <3> HIDE DEF L, R, k
    <3> QED BY ConcatAt, Zenon
  <2> QED BY <2>1, <2>2
<1>2. /\ \A j, l \in 1..L : j < l => g[j].n < g[l].n /\ g[j].m # g[l].m
      /\ \A j, l \in 1..R : j < l => r[j].n < r[l].n /\ r[j].m # r[l].m
      /\ \A j \in 1..L, l \in 1..R : g[j].n < r[l].n /\ g[j].m # r[l].m
      /\ \A j \in 1..L : g[j].n <= u.takenCount /\ g[j].m \in u.taken
      /\ \A j \in 1..R : r[j].n <= u.takenCount /\ r[j].m \in u.taken
      /\ \A m \in u.taken : \/ \E j \in 1..L : g[j].m = m
                            \/ \E j \in 1..R : r[j].m = m
  <2> DEFINE h == t.held
  <2>1. /\ \A j, l \in 1..L : j < l => g[j].n < g[l].n /\ g[j].m # g[l].m
        /\ \A j, l \in 1..R : j < l => h[j].n < h[l].n /\ h[j].m # h[l].m
        /\ \A j \in 1..L, l \in 1..R : g[j].n < h[l].n /\ g[j].m # h[l].m
        /\ \A j \in 1..L : g[j].n <= t.takenCount /\ g[j].m \in t.taken
        /\ \A j \in 1..R : h[j].n <= t.takenCount /\ h[j].m \in t.taken
        /\ \A m \in t.taken : \/ \E j \in 1..L : g[j].m = m
                              \/ \E j \in 1..R : h[j].m = m
    BY SMTT(40) DEF OrderOk
  <2>2. \A j \in 1..R : r[j].n = h[j].n /\ r[j].m = h[j].m
    OBVIOUS
  <2> HIDE DEF L, R, h
  <2> QED BY <2>1, <2>2
<1> HIDE DEF L, R, k
<1>3. \A j \in 1..(L + R) : j \in 1..L \/ j \in (L + 1)..(L + R)
  BY <1>1
<1>4. ASSUME NEW j \in 1..(L + R), NEW l \in 1..(L + R), j < l
      PROVE  k[j].n < k[l].n /\ k[j].m # k[l].m
  <2>1. CASE l \in 1..L
    <3>1. j \in 1..L
      BY <2>1, <1>4, <1>1
    <3> QED BY <2>1, <3>1, <1>4, <1>1, <1>2
  <2>2. CASE j \in 1..L /\ l \in (L + 1)..(L + R)
    BY <2>2, <1>1, <1>2
  <2>3. CASE j \in (L + 1)..(L + R) /\ l \in (L + 1)..(L + R)
    <3>1. j - L < l - L
      BY <2>3, <1>4, <1>1
    <3> QED BY <2>3, <3>1, <1>1, <1>2
  <2> QED BY <2>1, <2>2, <2>3, <1>3
<1>5. ASSUME NEW j \in 1..(L + R)
      PROVE  k[j].n <= u.takenCount /\ k[j].m \in u.taken
  <2>1. CASE j \in 1..L
    BY <2>1, <1>1, <1>2
  <2>2. CASE j \in (L + 1)..(L + R)
    BY <2>2, <1>1, <1>2
  <2> QED BY <2>1, <2>2, <1>3
<1>6. ASSUME NEW m \in u.taken PROVE \E j \in 1..(L + R) : k[j].m = m
  <2>1. CASE \E j \in 1..L : g[j].m = m
    <3>1. PICK j \in 1..L : g[j].m = m
      BY <2>1
    <3>2. j \in 1..(L + R) /\ k[j].m = m
      BY <3>1, <1>1
    <3> QED BY <3>2
  <2>2. CASE \E j \in 1..R : r[j].m = m
    <3>1. PICK j \in 1..R : r[j].m = m
      BY <2>2
    <3>2. /\ L + j \in (L + 1)..(L + R) /\ L + j \in 1..(L + R)
          /\ (L + j) - L = j
      BY <3>1, <1>1
    <3>3. k[L + j].m = m
      BY <3>1, <3>2, <1>1
    <3> QED BY <3>2, <3>3
  <2> QED BY <2>1, <2>2, <1>2
<1>7. OrderOk(u, k)
  BY <1>1, <1>4, <1>5, <1>6 DEF OrderOk
<1> QED BY <1>7 DEF k

\* The successor runs on the set-up being applied, for its owner.
LEMMA NewHarnessEffect ==
  ASSUME NEW t \in Session, t.swapping # NoSetup
  PROVE  LET u == NewHarness(t)
         IN  /\ u \in Session /\ SameHeld(t, u) /\ SameSetup(t, u) /\ SameCounts(t, u)
             /\ u.swapping = t.swapping /\ u.latest = t.latest
             /\ u.authorFilter = t.authorFilter /\ u.busy = t.busy
             /\ u.ending = t.ending /\ u.asks = t.asks /\ u.state = t.state
             /\ u.harness = t.harness + 1 /\ ~u.closed /\ u.spec = t.swapping.n
             /\ u.owner = IF t.setup # NoSetup THEN t.setup.answers ELSE NoOne
<1>1. /\ t.swapping \in SetupRec /\ t.swapping.n \in Nat
      /\ t.setup # NoSetup => t.setup.answers \in Whose
      /\ t.harness + 1 \in Nat /\ NoOne \in Whose
  <2>1. DOMAIN Setups \subseteq Nat
    BY SetupAssumption
  <2>2. t.swapping \in SetupRec /\ (t.setup # NoSetup => t.setup \in SetupRec)
    BY DEF Session
  <2> QED BY <2>1, <2>2 DEF Session, SetupRec, Whose
<1>2. NewHarness(t) \in Session
  BY <1>1 DEF NewHarness, Pending, Session
<1> QED
  BY <1>2 DEF NewHarness, Pending, Session, SameHeld, SameSetup, SameCounts

\* A successor built after an end or a shutdown takes no input.
LEMMA BuiltTooLateKeeps ==
  ASSUME IInv, phase = "building", s.harness # 0,
         s.ending \/ shutting, BuiltTooLate(NewHarness(s)),
         UNCHANGED <<alive, shutting, exited, allowed>>
  PROVE  IInv' /\ (Done(s) => s'.state = s.state)
<1> DEFINE t == NewHarness(s)
           d == DropHeld(t)
           u == [d EXCEPT !.closed = TRUE]
<1>1. /\ SessionOk(s, got) /\ got \in Seq(HeardItem) /\ GotOk(got) /\ CountsOk(s)
      /\ PhaseOk(s, phase, alive) /\ s \in Session /\ got' = got
      /\ s.swapping # NoSetup /\ SwapOk(s) /\ OwnerOk(s)
  BY DEF IInv, SessionOk, BuiltTooLate, PhaseOk, Swapping
<1>2. /\ t \in Session /\ SameHeld(s, t) /\ SameSetup(s, t) /\ SameCounts(s, t)
      /\ t.swapping = s.swapping /\ t.latest = s.latest
      /\ t.authorFilter = s.authorFilter /\ t.busy = s.busy
      /\ t.ending = s.ending /\ t.asks = s.asks /\ t.state = s.state
      /\ t.harness = s.harness + 1 /\ t.spec = s.swapping.n
      /\ t.owner = IF s.setup # NoSetup THEN s.setup.answers ELSE NoOne
  BY <1>1, NewHarnessEffect
<1>3. \/ s' = u /\ phase' = "stopping"
      \/ /\ s' = Finally(u) /\ phase' = PhaseAfterSwap(s') /\ ~shutting
  BY DEF BuiltTooLate
<1> HIDE DEF t
<1>4. /\ d \in Session /\ SameBase(t, d) /\ SameSetup(t, d) /\ SameEnd(t, d)
      /\ HeldDropped(t, d) /\ d.state = t.state /\ d.asks = t.asks
  BY <1>2, DropHeldEffect
<1> HIDE DEF d
<1>5. /\ u \in Session /\ SameBase(t, u) /\ SameSetup(t, u) /\ u.ending = t.ending
      /\ HeldDropped(t, u) /\ u.state = t.state /\ u.asks = t.asks /\ u.closed
  BY <1>4 DEF Session, SameBase, SameSetup, SameEnd, HeldDropped
<1> HIDE DEF u
<1>6. SwapOk(u)
  BY <1>1, <1>2, <1>5 DEF SwapOk, InputHeld, Pending, SameBase, SameSetup, Done, Session
<1>7. OwnerOk(u)
  BY <1>1, <1>2, <1>5
     DEF OwnerOk, InputHeld, Pending, SameBase, SameSetup, Done
<1>8. HeldOk(u)
  BY <1>5 DEF HeldOk, HeldDropped
<1>9. OrderOk(u, got)
  <2>1. HeldDropped(s, u) /\ u.takenCount = s.takenCount
    BY <1>2, <1>5 DEF HeldDropped, SameHeld, SameCounts, SameBase, Forget
  <2> QED BY <1>1, <1>5, <2>1, OrderDrops DEF SessionOk
<1>10. SessionOk(u, got) /\ CountsOk(u)
  BY <1>1, <1>2, <1>5, <1>6, <1>7, <1>8, <1>9
     DEF SessionOk, CountsOk, SameCounts, SameBase
<1>11. /\ u.harness = s.harness + 1 /\ u.harness # 0 /\ u.state = s.state
       /\ alive' = alive /\ alive \subseteq {u.harness} /\ 0 \notin alive
       /\ allowed' = allowed /\ s.harness \in Nat
  <2>1. s.harness \in Nat /\ alive \subseteq {s.harness + 1} /\ 0 \notin alive
    BY <1>1 DEF PhaseOk, Session
  <2>2. u.harness = s.harness + 1 /\ u.state = s.state
    BY <1>2, <1>5 DEF SameBase
  <2> QED BY <2>1, <2>2
<1>12. CASE s' = u /\ phase' = "stopping"
  <2>1. u.setup = NoSetup => u.owner = NoOne
    BY <1>2, <1>5 DEF SameBase, SameSetup
  <2>2. PhaseOk(s', phase', alive')
    BY <1>1, <1>2, <1>5, <1>11, <1>12, <2>1
       DEF PhaseOk, Swapping, SameBase
  <2> QED
    BY <1>1, <1>10, <1>11, <1>12, <2>2 DEF IInv, OwnerAnswers
<1>13. CASE s' = Finally(u) /\ phase' = PhaseAfterSwap(s') /\ ~shutting
  <2>1. u.ending
    BY <1>2, <1>5, <1>13
  <2>2. SessionOk(Over(u), got)
    BY <1>1, <1>10, <2>1, OverKeeps
  <2> QED BY <1>1, <1>5, <1>10, <1>11, <1>13, <2>2, FinallyStep
<1> QED BY <1>3, <1>12, <1>13

\* What a successor is handed was said before the set-up it runs on.
LEMMA ReplayEffect ==
  ASSUME NEW t \in Session,
         \A i \in 1..Len(t.held) :
           t.held[i].said <= t.spec /\ Keeps(t.authorFilter, t.held[i].m)
  PROVE  /\ Replay(t) \in Seq(HeardItem) /\ Len(Replay(t)) = Len(t.held)
         /\ GotOk(Replay(t))
         /\ \A j \in 1..Len(Replay(t)) :
              Replay(t)[j].n = t.held[j].n /\ Replay(t)[j].m = t.held[j].m
<1> DEFINE r == Replay(t)
<1>1. /\ t.held \in Seq(HeldItem) /\ DOMAIN t.held = 1..Len(t.held)
      /\ Len(t.held) \in Nat /\ t.spec \in Nat /\ t.authorFilter \in Whose
      /\ \A j \in 1..Len(t.held) : t.held[j] \in HeldItem
  BY DEF Session
<1>2. ASSUME NEW j \in 1..Len(t.held)
      PROVE  /\ Heard(t, t.held[j]) \in HeardItem
             /\ Heard(t, t.held[j]).n = t.held[j].n
             /\ Heard(t, t.held[j]).m = t.held[j].m
             /\ Heard(t, t.held[j]).said = t.held[j].said
             /\ Heard(t, t.held[j]).spec = t.spec
             /\ Heard(t, t.held[j]).filter = t.authorFilter
  <2>1. /\ t.held[j].m \in Messages /\ t.held[j].n \in Nat /\ t.held[j].said \in Nat
    BY <1>1 DEF HeldItem
  <2> QED BY <1>1, <2>1 DEF Heard, HeardItem
<1>3. r = [j \in 1..Len(t.held) |-> Heard(t, t.held[j])]
  BY <1>1 DEF Replay
<1>4. r \in Seq(HeardItem) /\ Len(r) = Len(t.held)
  BY <1>1, <1>2, <1>3
<1>5. \A j \in 1..Len(r) : r[j] = Heard(t, t.held[j])
  BY <1>3, <1>4
<1> HIDE DEF r
<1>6. GotOk(r)
  BY <1>2, <1>4, <1>5 DEF GotOk
<1>7. \A j \in 1..Len(r) : r[j].n = t.held[j].n /\ r[j].m = t.held[j].m
  BY <1>2, <1>4, <1>5
<1> QED BY <1>4, <1>6, <1>7 DEF r

\* Two sequences of heard messages, one after the other.
LEMMA GotOkConcat ==
  ASSUME NEW g \in Seq(HeardItem), NEW r \in Seq(HeardItem), GotOk(g), GotOk(r)
  PROVE  GotOk(g \o r)
<1> DEFINE k == g \o r
<1>1. Len(k) = Len(g) + Len(r) /\ Len(g) \in Nat /\ Len(r) \in Nat
  OBVIOUS
<1>2. ASSUME NEW i \in 1..Len(k)
      PROVE  k[i].said <= k[i].spec /\ Keeps(k[i].filter, k[i].m)
  <2>1. CASE i \in 1..Len(g)
    <3>1. k[i] = g[i]
      BY <2>1
    <3> QED BY <2>1, <3>1 DEF GotOk
  <2>2. CASE i \notin 1..Len(g)
    <3>1. k[i] = r[i - Len(g)] /\ i - Len(g) \in 1..Len(r)
      BY <2>2, <1>1
    <3> QED BY <3>1 DEF GotOk
  <2> QED BY <2>1, <2>2
<1> QED BY <1>2 DEF GotOk

\* The successor hears what was held unless a later set-up holds it.
LEMMA AppliedKeeps ==
  ASSUME IInv, phase = "building", s.harness # 0, ~(s.ending \/ shutting),
         NEW k \in 0..Len(s.held), Applied(NewHarness(Refused(s, k))),
         UNCHANGED <<alive, shutting, exited, allowed>>
  PROVE  IInv' /\ (Done(s) => s'.state = s.state)
<1> DEFINE x == Refused(s, k)
           t == NewHarness(x)
           a == [t EXCEPT !.applied = t.swapping.n]
           v == IF Pending(t) \/ t.held = <<>> THEN a
                ELSE [a EXCEPT !.held = <<>>, !.state = "working"]
           o == Over(v)
           g == IF Pending(t) THEN got ELSE got \o Replay(t)
<1>0. /\ SessionOk(s, got) /\ got \in Seq(HeardItem) /\ CountsOk(s)
      /\ PhaseOk(s, phase, alive) /\ ~Done(s)
  BY DEF IInv, PhaseOk
<1>01. /\ SessionOk(x, got) /\ SameBase(s, x) /\ SameSetup(s, x) /\ SameEnd(s, x)
       /\ x.state = s.state /\ x.asks = s.asks
  BY <1>0, RefusedKeeps
<1>3. s' = Finally(v) /\ phase' = PhaseAfterSwap(s') /\ got' = g
  BY DEF Applied
<1> HIDE DEF x
<1>1. /\ SessionOk(x, got) /\ got \in Seq(HeardItem) /\ GotOk(got) /\ CountsOk(x)
      /\ PhaseOk(x, phase, alive) /\ x \in Session /\ x.swapping # NoSetup
      /\ SwapOk(x) /\ OwnerOk(x) /\ HeldOk(x) /\ OrderOk(x, got)
      /\ ~Done(x) /\ ~x.ending /\ x.harness # 0
  BY <1>0, <1>01
     DEF IInv, SessionOk, PhaseOk, CountsOk, Swapping, Done, SameBase, SameSetup, SameEnd
<1>2. /\ t \in Session /\ SameHeld(x, t) /\ SameSetup(x, t) /\ SameCounts(x, t)
      /\ t.swapping = x.swapping /\ t.latest = x.latest
      /\ t.authorFilter = x.authorFilter /\ t.busy = x.busy
      /\ t.ending = x.ending /\ t.asks = x.asks /\ t.state = x.state
      /\ t.harness = x.harness + 1 /\ ~t.closed /\ t.spec = x.swapping.n
      /\ t.owner = IF x.setup # NoSetup THEN x.setup.answers ELSE NoOne
  BY <1>1, NewHarnessEffect
<1> HIDE DEF t
<1>4. t.swapping.n \in Nat
  <2>1. DOMAIN Setups \subseteq Nat
    BY SetupAssumption
  <2>2. t.swapping \in SetupRec
    BY <1>1, <1>2 DEF Session
  <2> QED BY <2>1, <2>2 DEF SetupRec
<1>5. /\ a \in Session /\ Same(t, a) /\ a.state = t.state /\ a.asks = t.asks
  BY <1>2, <1>4 DEF Session, Same, SameBase, SameHeld, SameSetup, SameEnd
<1> HIDE DEF a
<1>6. /\ v \in Session /\ SameBase(t, v) /\ SameSetup(t, v) /\ SameEnd(t, v)
      /\ v.asks = t.asks /\ v.taken = t.taken /\ ~Done(v)
      /\ v.held = IF Pending(t) THEN t.held ELSE <<>>
  <2>1. CASE Pending(t) \/ t.held = <<>>
    BY <2>1, <1>1, <1>2, <1>5
       DEF Same, SameBase, SameHeld, SameSetup, SameEnd, Done
  <2>2. CASE ~(Pending(t) \/ t.held = <<>>)
    <3>1. v = [a EXCEPT !.held = <<>>, !.state = "working"]
      BY <2>2
    <3> HIDE DEF v
    <3>2. <<>> \in Seq(HeldItem) /\ a \in Session
      BY <1>5
    <3>3. v \in Session
      BY <3>1, <3>2 DEF Session, States
    <3>4. v.held = <<>> /\ v.state = "working" /\ v.taken = a.taken /\ v.asks = a.asks
          /\ SameBase(a, v) /\ SameSetup(a, v) /\ SameEnd(a, v)
      BY <3>1, <3>2 DEF Session, SameBase, SameSetup, SameEnd
    <3> QED
      BY <2>2, <3>3, <3>4, <1>5
         DEF Same, SameBase, SameHeld, SameSetup, SameEnd, Done
  <2> QED BY <2>1, <2>2
<1> HIDE DEF v
<1>7. /\ o \in Session /\ o.swapping = NoSetup /\ o.busy # "setup"
      /\ SameHeld(v, o) /\ SameSetup(v, o) /\ SameEnd(v, o) /\ SameCounts(v, o)
      /\ o.latest = v.latest /\ o.authorFilter = v.authorFilter
      /\ o.owner = v.owner /\ o.harness = v.harness /\ o.spec = v.spec
      /\ o.state = v.state /\ o.asks = v.asks
  BY <1>6, OverEffect
<1> HIDE DEF o
<1>8. /\ o.setup = x.setup /\ o.answersFrom = x.answersFrom /\ o.latest = x.latest
      /\ o.authorFilter = x.authorFilter /\ o.taken = x.taken
      /\ o.takenCount = x.takenCount /\ o.selfTurns = x.selfTurns
      /\ o.harness = x.harness + 1 /\ o.spec = x.swapping.n /\ ~o.closed /\ ~o.ending
      /\ ~Done(o) /\ o.held = (IF Pending(x) THEN x.held ELSE <<>>)
      /\ o.owner = IF x.setup # NoSetup THEN x.setup.answers ELSE NoOne
  BY <1>1, <1>2, <1>6, <1>7
     DEF SameBase, SameHeld, SameSetup, SameEnd, SameCounts, Done, Pending
<1>9. ~Pending(x) => x.latest = x.swapping.n
  BY <1>1 DEF SwapOk, Pending
<1>10. SwapOk(o)
  BY <1>1, <1>7, <1>8, <1>9 DEF SwapOk, InputHeld, Pending, Session
<1>11. OwnerOk(o)
  BY <1>1, <1>7, <1>8 DEF OwnerOk, InputHeld, Pending
<1>12. HeldOk(o)
  <2>1. CASE Pending(x)
    BY <2>1, <1>1, <1>8 DEF HeldOk, InputHeld, Pending
  <2>2. CASE ~Pending(x)
    BY <2>2, <1>8 DEF HeldOk
  <2> QED BY <2>1, <2>2
<1>13. g \in Seq(HeardItem) /\ GotOk(g) /\ OrderOk(o, g)
  <2>1. CASE Pending(x)
    <3>1. g = got /\ SameHeld(x, o) /\ o.takenCount = x.takenCount
      BY <2>1, <1>2, <1>8 DEF Pending, SameSetup, SameHeld
    <3> QED BY <3>1, <1>1, <1>7, OrderDrops
  <2>2. CASE ~Pending(x)
    <3>1. g = got \o Replay(t)
      BY <2>2, <1>2 DEF Pending, SameSetup
    <3>2. ASSUME NEW i \in 1..Len(t.held)
          PROVE  t.held[i].said <= t.spec /\ Keeps(t.authorFilter, t.held[i].m)
      BY <2>2, <1>1, <1>2, <1>9 DEF HeldOk, SameHeld
    <3>3. /\ Replay(t) \in Seq(HeardItem) /\ Len(Replay(t)) = Len(t.held)
          /\ GotOk(Replay(t))
          /\ \A j \in 1..Len(Replay(t)) :
               Replay(t)[j].n = t.held[j].n /\ Replay(t)[j].m = t.held[j].m
      BY <1>2, <3>2, ReplayEffect
    <3>4. t.held = x.held
      BY <1>2 DEF SameHeld
    <3>5. o.held = <<>>
      BY <2>2, <1>8
    <3>6. OrderOk(o, got \o Replay(t))
      BY <1>1, <1>7, <1>8, <3>3, <3>4, <3>5, OrderReplays
    <3>7. GotOk(got \o Replay(t)) /\ got \o Replay(t) \in Seq(HeardItem)
      BY <1>1, <3>3, GotOkConcat
    <3> QED BY <3>1, <3>6, <3>7
  <2> QED BY <2>1, <2>2
<1>14. SessionOk(Over(v), g)
  BY <1>7, <1>10, <1>11, <1>12, <1>13 DEF SessionOk, o
<1>15. /\ CountsOk(v) /\ v.harness = x.harness + 1 /\ v.harness # 0
       /\ alive' \subseteq {v.harness} /\ 0 \notin alive' /\ allowed' = allowed
  <2>1. CountsOk(v) /\ v.harness = x.harness + 1 /\ v.harness # 0
    BY <1>1, <1>2, <1>6 DEF CountsOk, SameCounts, SameBase, Session
  <2>2. alive \subseteq {x.harness + 1} /\ 0 \notin alive
    BY <1>1 DEF PhaseOk
  <2> QED BY <2>1, <2>2
<1> HIDE DEF g
<1>16. v \in Session /\ g \in Seq(HeardItem) /\ GotOk(g) /\ (Done(s) => v.state = s.state)
  BY <1>0, <1>6, <1>13
<1> QED BY <1>3, <1>14, <1>15, <1>16, FinallyStep

\* The successor's build, in time or too late.
LEMMA BuiltKeeps ==
  ASSUME IInv, Built
  PROVE  IInv' /\ (Done(s) => s'.state = s.state)
BY BuiltTooLateKeeps, AppliedKeeps DEF Built
-----------------------------------------------------------------------------

\* The first start, deferred while the home volume seeds.
LEMMA StartKeeps ==
  ASSUME IInv, StartStep PROVE IInv' /\ (Done(s) => s'.state = s.state)
<1>1. /\ SessionOk(s, got) /\ got \in Seq(HeardItem) /\ CountsOk(s)
      /\ s \in Session /\ SwapOk(s) /\ PhaseOk(s, phase, alive)
  BY DEF IInv, SessionOk
<1>2. CASE Seeded
  <2>0. s.harness = 0 /\ alive = {} /\ s.swapping = NoSetup
    BY <1>1, <1>2 DEF PhaseOk, Seeded, Swapping
  <2>2. ASSUME Done(s) PROVE PhaseOk(s, phase', alive')
    BY <2>0, <2>2, <1>2 DEF PhaseOk, Seeded, Swapping
  <2>3. ASSUME ~Done(s) PROVE PhaseOk(s, phase', alive')
    <3>1. phase' = "building" /\ alive' = {1}
      BY <2>0, <2>3, <1>2 DEF Seeded
    <3> QED BY <2>0, <2>3, <3>1 DEF PhaseOk, Swapping
  <2>1. PhaseOk(s, phase', alive')
    BY <2>2, <2>3
  <2> QED BY <2>1, <1>2 DEF IInv, Seeded, Untouched, OwnerAnswers
<1>3. CASE SeedFails \/ FirstFails
  <2>1. /\ s' = [s EXCEPT !.state = IF Done(s) THEN @ ELSE "error"]
        /\ phase' = "none" /\ got' = got /\ allowed' = allowed /\ s.harness = 0
        /\ alive' \subseteq {}
    BY <1>1, <1>3 DEF SeedFails, FirstFails, Untouched, PhaseOk
  <2>2. /\ s' \in Session /\ SessionOk(s', got) /\ Same(s, s')
        /\ Done(s) => s'.state = s.state
    BY <1>1, <2>1, StateErrorKeeps
  <2>3. PhaseOk(s', phase', alive')
    BY <1>1, <2>1, <2>2 DEF PhaseOk, Swapping, Same, SameBase
  <2> QED
    BY <2>1, <2>2, <2>3 DEF IInv, OwnerAnswers, CountsOk, Same, SameBase
<1>4. CASE FirstBuilt
  <2>1. /\ phase = "building" /\ s.harness = 0 /\ phase' = "none"
        /\ alive' = alive /\ got' = got /\ allowed' = allowed
        /\ s' = [s EXCEPT !.harness = 1, !.closed = Done(s),
                   !.state = IF Done(s) THEN @
                             ELSE IF got = <<>> THEN "idle" ELSE "working"]
    BY <1>4 DEF FirstBuilt, Untouched
  <2>2. Done(s) \in BOOLEAN
    BY DEF Done
  <2>3. /\ s' \in Session /\ s'.harness = 1 /\ s'.closed = Done(s)
        /\ Done(s') = Done(s) /\ (Done(s) => s'.state = s.state)
        /\ SameHeld(s, s') /\ SameSetup(s, s') /\ SameCounts(s, s')
        /\ s'.swapping = s.swapping /\ s'.latest = s.latest
        /\ s'.authorFilter = s.authorFilter /\ s'.owner = s.owner
        /\ s'.spec = s.spec /\ s'.busy = s.busy /\ s'.ending = s.ending
        /\ s'.asks = s.asks
    <3>1. s' \in Session
      <4>1. (IF Done(s) THEN s.state ELSE IF got = <<>> THEN "idle" ELSE "working")
              \in States
        BY <1>1 DEF Session, States
      <4> DEFINE v == [s EXCEPT !.harness = 1]
                 w == [v EXCEPT !.closed = Done(s)]
      <4>2. v \in Session
        BY <1>1 DEF Session
      <4>3. s' = [w EXCEPT !.state = IF Done(s) THEN s.state
                                     ELSE IF got = <<>> THEN "idle" ELSE "working"]
        BY <1>1, <2>1 DEF Session
      <4> HIDE DEF v
      <4>4. w \in Session
        BY <2>2, <4>2 DEF Session
      <4> HIDE DEF w
      <4> QED BY <4>1, <4>3, <4>4 DEF Session
    <3>2. Done(s') = Done(s) /\ (Done(s) => s'.state = s.state)
      BY <1>1, <2>1, <3>1 DEF Session, Done
    <3> QED
      BY <1>1, <2>1, <3>1, <3>2 DEF Session, SameHeld, SameSetup, SameCounts
  <2>4. s.swapping = NoSetup /\ ~s.closed /\ (s.ending => Done(s))
    BY <1>1, <2>1 DEF SwapOk
  <2>5. SwapOk(s')
    BY <1>1, <2>3, <2>4 DEF SwapOk, InputHeld, Pending, SameSetup
  <2>6. OwnerOk(s')
    BY <1>1, <2>3 DEF SessionOk, OwnerOk, InputHeld, Pending, SameSetup
  <2>7. HeldOk(s')
    BY <1>1, <2>3, <2>4 DEF SessionOk, HeldOk, InputHeld, Pending, SameSetup, SameHeld
  <2>8. OrderOk(s', got)
    BY <1>1, <2>3 DEF SessionOk, OrderOk, SameHeld, SameCounts
  <2>9. PhaseOk(s', phase', alive')
    BY <1>1, <2>1, <2>3, <2>4 DEF PhaseOk, Swapping
  <2> QED
    BY <1>1, <2>1, <2>3, <2>5, <2>6, <2>7, <2>8, <2>9
       DEF IInv, SessionOk, OwnerAnswers, CountsOk, SameCounts
<1> QED BY <1>2, <1>3, <1>4 DEF StartStep
-----------------------------------------------------------------------------

\* A step of the session record alone.
LEMMA RecordStep ==
  ASSUME IInv, s' \in Session, Onward(s, s'), CountsOk(s'),
         Done(s') => Done(s) \/ phase # "building" \/ s.harness = 0,
         UNCHANGED <<phase, alive, got>>, Untouched
  PROVE  IInv' /\ (Done(s) => s'.state = s.state)
BY QuietStep DEF Untouched

\* Of those, one that only moves the turn of the harness on.
LEMMA TurnStep ==
  ASSUME IInv, s' \in Session, Same(s, s'), s'.asks => s.asks \/ ~s.ending,
         Done(s') => Done(s), Done(s) => s'.state = s.state,
         UNCHANGED <<phase, alive, got>>, Untouched
  PROVE  IInv' /\ (Done(s) => s'.state = s.state)
<1>1. SessionOk(s, got) /\ got \in Seq(HeardItem) /\ CountsOk(s)
  BY DEF IInv
<1>2. Onward(s, s')
  BY <1>1, SameKeeps
<1>3. CountsOk(s')
  BY <1>1 DEF CountsOk, Same, SameBase
<1> QED BY <1>2, <1>3, RecordStep

\* What the harness does of its own, and timers.
LEMMA HarnessKeeps ==
  ASSUME IInv, Harness \/ IdleSettles \/ ControlReturns
  PROVE  IInv' /\ (Done(s) => s'.state = s.state)
<1>1. /\ SessionOk(s, got) /\ got \in Seq(HeardItem) /\ CountsOk(s)
      /\ s \in Session /\ SwapOk(s) /\ PhaseOk(s, phase, alive)
  BY DEF IInv, SessionOk
<1>2. CASE TurnEnds
  <2>1. PICK b \in {s.background, TRUE} : HarnessStep([SetIdle(s) EXCEPT !.background = b])
    BY <1>2 DEF TurnEnds
  <2> DEFINE i == SetIdle(s)
  <2>2. /\ i \in Session /\ Same(s, i) /\ Done(i) = Done(s)
        /\ (Done(s) => i.state = s.state) /\ i.asks = s.asks
    BY <1>1, SetIdleEffect
  <2>3. s' = [i EXCEPT !.background = b] /\ UNCHANGED <<phase, alive, got>> /\ Untouched
    BY <2>1 DEF HarnessStep
  <2> HIDE DEF i
  <2>4. b \in BOOLEAN
    BY <1>1 DEF Session
  <2>5. /\ s' \in Session /\ Same(s, s') /\ s'.asks = s.asks
        /\ Done(s') = Done(s) /\ (Done(s) => s'.state = s.state)
    BY <2>2, <2>3, <2>4 DEF Session, Same, SameBase, SameHeld, SameSetup, SameEnd, Done
  <2> QED BY <2>3, <2>5, TurnStep
<1>3. CASE SelfTurn
  <2>1. /\ s' = [s EXCEPT !.state = "working", !.selfTurns = @ + 1]
        /\ UNCHANGED <<phase, alive, got>> /\ Untouched /\ ~Done(s)
        /\ s.takenCount + s.selfTurns < MaxTurns
    BY <1>3 DEF SelfTurn, HarnessStep, Running
  <2>2. s' \in Session
    <3>1. s.selfTurns + 1 \in Nat
      BY <1>1 DEF Session
    <3> QED BY <1>1, <2>1, <3>1 DEF Session, States
  <2>3. Onward(s, s') /\ ~Done(s')
    BY <1>1, <2>1 DEF Session, Onward, SameHeld, SwapOk, Done
  <2>4. CountsOk(s')
    BY <1>1, <2>1, SetupAssumption DEF Session, CountsOk
  <2> QED BY <2>1, <2>2, <2>3, <2>4, RecordStep
<1>4. CASE Ask
  <2>1. /\ s' = [s EXCEPT !.asks = TRUE, !.state = "blocked"] /\ ~s.ending
        /\ UNCHANGED <<phase, alive, got>> /\ Untouched /\ ~Done(s)
    BY <1>4 DEF Ask, HarnessStep, Running
  <2>2. s' \in Session /\ Same(s, s') /\ ~Done(s')
    BY <1>1, <2>1
       DEF Session, States, Same, SameBase, SameHeld, SameSetup, SameEnd, Done
  <2> QED BY <2>1, <2>2, TurnStep
<1>5. CASE Park
  <2>1. PICK kind \in {"task", "sleep"} :
          HarnessStep([s EXCEPT !.park = kind, !.state = "blocked"])
    BY <1>5 DEF Park
  <2>2. /\ s' = [s EXCEPT !.park = kind, !.state = "blocked"]
        /\ UNCHANGED <<phase, alive, got>> /\ Untouched /\ ~Done(s)
    BY <1>5, <2>1 DEF Park, HarnessStep, Running
  <2>3. s' \in Session /\ Same(s, s') /\ ~Done(s') /\ s'.asks = s.asks
    BY <1>1, <2>2
       DEF Session, States, Same, SameBase, SameHeld, SameSetup, SameEnd, Done
  <2> QED BY <2>2, <2>3, TurnStep
<1>6. CASE ParkResolves
  <2> DEFINE v == [s EXCEPT !.park = "none"]
  <2>1. v \in Session /\ Same(s, v) /\ v.asks = s.asks /\ v.state = s.state
    BY <1>1 DEF Session, Same, SameBase, SameHeld, SameSetup, SameEnd
  <2>2. s' = ResumeIfUnblocked(v) /\ UNCHANGED <<phase, alive, got>> /\ Untouched
    BY <1>6 DEF ParkResolves, HarnessStep
  <2> HIDE DEF v
  <2>3. /\ s' \in Session /\ Same(s, s') /\ s'.asks = s.asks
        /\ Done(s') = Done(s) /\ (Done(s) => s'.state = s.state)
    BY <2>1, <2>2, ResumeEffect DEF Same, SameBase, SameHeld, SameSetup, SameEnd, Done
  <2> QED BY <2>2, <2>3, TurnStep
<1>7. CASE BackgroundEnds \/ IdleSettles
  <2>1. /\ \/ s' = [s EXCEPT !.background = FALSE]
           \/ s' = [s EXCEPT !.settled = TRUE]
        /\ UNCHANGED <<phase, alive, got>> /\ Untouched
    BY <1>7 DEF BackgroundEnds, IdleSettles, HarnessStep
  <2>2. /\ s' \in Session /\ Same(s, s') /\ s'.asks = s.asks
        /\ Done(s') = Done(s) /\ s'.state = s.state
    <3>1. CASE s' = [s EXCEPT !.background = FALSE]
      BY <1>1, <3>1
         DEF Session, Same, SameBase, SameHeld, SameSetup, SameEnd, Done
    <3>2. CASE s' = [s EXCEPT !.settled = TRUE]
      BY <1>1, <3>2
         DEF Session, Same, SameBase, SameHeld, SameSetup, SameEnd, Done
    <3> QED BY <2>1, <3>1, <3>2
  <2> QED BY <2>1, <2>2, TurnStep
<1>8. CASE HarnessGone
  <2>1. Onward(s, s)
    BY <1>1 DEF Onward, SameHeld, SwapOk
  <2> QED BY <1>1, <1>8, <2>1, QuietStep DEF HarnessGone, Untouched
<1>9. CASE HarnessEnds \/ HarnessFails
  <2>1. /\ \/ s' = EndNeverStarted(s)
           \/ s' = [s EXCEPT !.state = "error"] /\ ~Done(s)
        /\ alive' \subseteq alive /\ s.harness \in alive
        /\ UNCHANGED <<phase, got>> /\ allowed' = allowed
    BY <1>9 DEF HarnessEnds, HarnessFails, Running, Untouched
  <2>2. phase # "building"
    BY <1>1, <2>1 DEF PhaseOk, Session
  <2>3. s' \in Session
    <3>1. CASE s' = s
      BY <1>1, <3>1
    <3>2. CASE s' = [s EXCEPT !.state = "error"]
      BY <1>1, <3>2 DEF Session, States
    <3>3. CASE s' = [s EXCEPT !.state = "ended"]
      BY <1>1, <3>3 DEF Session, States
    <3> QED BY <2>1, <3>1, <3>2, <3>3 DEF EndNeverStarted
  <2>4. Same(s, s') /\ s'.asks = s.asks /\ (Done(s) => s'.state = s.state)
    BY <1>1, <2>1
       DEF EndNeverStarted, Session, Same, SameBase, SameHeld, SameSetup, SameEnd
  <2>5. Onward(s, s') /\ CountsOk(s')
    BY <1>1, <2>3, <2>4, SameKeeps DEF CountsOk, Same, SameBase
  <2> QED BY <2>1, <2>2, <2>3, <2>5, QuietStep
<1>10. CASE ControlReturns
  <2>1. /\ s' = [s EXCEPT !.busy = "none"] /\ s.busy = "call"
        /\ UNCHANGED <<phase, alive, got>> /\ Untouched
    BY <1>10 DEF ControlReturns, HarnessStep
  <2>2. /\ s' \in Session /\ SameHeld(s, s') /\ SameCounts(s, s') /\ s'.state = s.state
        /\ Onward(s, s')
    BY <1>1, <2>1 DEF Session, SameHeld, SameCounts, Onward, SwapOk, Done
  <2>3. CountsOk(s') /\ Done(s') = Done(s)
    BY <1>1, <2>2 DEF CountsOk, SameCounts, Done
  <2> QED BY <2>1, <2>2, <2>3, RecordStep
<1> QED
  BY <1>2, <1>3, <1>4, <1>5, <1>6, <1>7, <1>8, <1>9, <1>10 DEF Harness

\* End, a dead delivery and a shutdown.
LEMMA EndKeeps ==
  ASSUME IInv, End \/ Undeliverable \/ Shutdown
  PROVE  IInv' /\ (Done(s) => s'.state = s.state)
<1>1. /\ SessionOk(s, got) /\ got \in Seq(HeardItem) /\ CountsOk(s)
      /\ s \in Session /\ SwapOk(s) /\ PhaseOk(s, phase, alive)
  BY DEF IInv, SessionOk
<1>2. CASE End
  <2>1. s' = EndSession(s) /\ UNCHANGED <<phase, alive, got>> /\ Untouched
    BY <1>2 DEF End, HarnessStep
  <2>2. /\ s' \in Session /\ SameBase(s, s') /\ HeldDropped(s, s')
        /\ s'.setup = NoSetup /\ s'.ending /\ ~s'.asks
        /\ Done(s) => s'.state = s.state
        /\ s.harness = 0 => Done(s') /\ s'.closed = s.closed
        /\ s.harness # 0 => Done(s') = Done(s) /\ s'.closed
    BY <1>1, <2>1, EndSessionEffect
  <2>3. Onward(s, s') /\ CountsOk(s')
    BY <1>1, <2>2 DEF Onward, SameBase, SwapOk, CountsOk
  <2> QED BY <2>1, <2>2, <2>3, RecordStep
<1>3. ASSUME NEW v \in Session, SameBase(s, v), SameHeld(s, v), SameSetup(s, v),
             v.closed = s.closed, s.ending => v.ending, v.state = s.state,
             s' = BeginEnd(CancelPending(v))
      PROVE  /\ s' \in Session /\ Onward(s, s') /\ CountsOk(s')
             /\ Done(s') => Done(s) \/ s.harness = 0
  <2> DEFINE w == CancelPending(v)
  <2>1. /\ w \in Session /\ Same(v, w) /\ ~w.asks
        /\ Done(w) = Done(v) /\ (Done(v) => w.state = v.state)
    BY <1>3, CancelPendingEffect
  <2>2. s' = BeginEnd(w)
    BY <1>3
  <2> HIDE DEF w
  <2>3. /\ s' \in Session /\ SameBase(w, s') /\ SameHeld(w, s') /\ SameSetup(w, s')
        /\ s'.ending = w.ending /\ s'.asks = w.asks
        /\ Done(w) => s'.state = w.state
        /\ w.harness = 0 => Done(s') /\ s'.closed = w.closed
        /\ w.harness # 0 => s'.state = w.state /\ s'.closed
    BY <2>1, <2>2, BeginEndEffect
  <2>4. /\ SameBase(s, s') /\ SameHeld(s, s') /\ SameSetup(s, s') /\ ~s'.asks
        /\ s.ending => s'.ending
        /\ Done(s) => s'.state = s.state
        /\ s.harness = 0 => Done(s') /\ s'.closed = s.closed
        /\ s.harness # 0 => Done(s') = Done(s) /\ s'.closed
    BY <1>3, <2>1, <2>3 DEF Same, SameBase, SameHeld, SameSetup, SameEnd, Done
  <2>5. Onward(s, s') /\ CountsOk(s')
    BY <1>1, <2>4 DEF Onward, SameBase, SameHeld, SameSetup, SwapOk, CountsOk
  <2> QED BY <2>3, <2>4, <2>5
<1>4. CASE Undeliverable
  <2> DEFINE v == [s EXCEPT !.ending = TRUE]
  <2>1. /\ v \in Session /\ SameBase(s, v) /\ SameHeld(s, v) /\ SameSetup(s, v)
        /\ v.closed = s.closed /\ v.ending /\ v.state = s.state
    BY <1>1 DEF Session, SameBase, SameHeld, SameSetup
  <2>2. /\ s' = BeginEnd(CancelPending(v))
        /\ UNCHANGED <<phase, alive, got>> /\ Untouched
    BY <1>4 DEF Undeliverable, HarnessStep
  <2> HIDE DEF v
  <2> QED BY <1>3, <2>1, <2>2, RecordStep
<1>5. CASE Shutdown
  <2>1. UNCHANGED <<phase, alive, got>> /\ allowed' = allowed
    BY <1>5 DEF Shutdown
  <2>2. CASE Done(s)
    <3>1. s' = s
      BY <1>5, <2>2 DEF Shutdown
    <3>2. Onward(s, s')
      BY <1>1, <3>1 DEF Onward, SameHeld, SwapOk
    <3> QED BY <1>1, <2>1, <3>1, <3>2, QuietStep
  <2>3. CASE ~Done(s)
    <3>1. s' = BeginEnd(CancelPending(s))
      BY <1>5, <2>3 DEF Shutdown
    <3>2. /\ s' \in Session /\ Onward(s, s') /\ CountsOk(s')
          /\ Done(s') => Done(s) \/ s.harness = 0
      BY <1>1, <1>3, <3>1 DEF SameBase, SameHeld, SameSetup
    <3> QED BY <2>1, <3>2, QuietStep
  <2> QED BY <2>2, <2>3
<1> QED BY <1>2, <1>4, <1>5

\* What people decide, and calls that reserve the session.
LEMMA PeopleKeep ==
  ASSUME IInv, Deny \/ (\E by \in Members : Allow(by)) \/ ControlCall
  PROVE  IInv' /\ (Done(s) => s'.state = s.state)
<1>1. /\ SessionOk(s, got) /\ got \in Seq(HeardItem) /\ CountsOk(s)
      /\ s \in Session /\ SwapOk(s) /\ OwnerOk(s) /\ PhaseOk(s, phase, alive)
  BY DEF IInv, SessionOk
<1> DEFINE v == [s EXCEPT !.asks = FALSE]
<1>2. v \in Session /\ Same(s, v) /\ ~v.asks /\ v.state = s.state
  BY <1>1 DEF Session, Same, SameBase, SameHeld, SameSetup, SameEnd
<1>3. ASSUME s' = ResumeIfUnblocked(v)
      PROVE  /\ s' \in Session /\ Same(s, s') /\ ~s'.asks
             /\ Done(s') = Done(s) /\ (Done(s) => s'.state = s.state)
  <2> HIDE DEF v
  <2> QED
    BY <1>2, <1>3, ResumeEffect DEF Same, SameBase, SameHeld, SameSetup, SameEnd, Done
<1>4. CASE Deny
  <2>1. s' = ResumeIfUnblocked(v) /\ UNCHANGED <<phase, alive, got>> /\ Untouched
    BY <1>4 DEF Deny, HarnessStep
  <2> HIDE DEF v
  <2> QED BY <1>3, <2>1, TurnStep
<1>5. CASE \E by \in Members : Allow(by)
  <2>1. PICK by \in Members : Allow(by)
    BY <1>5
  <2>2. /\ s.asks /\ s.answersFrom \in {NoOne, by} /\ s' = ResumeIfUnblocked(v)
        /\ UNCHANGED <<phase, alive, got>>
        /\ \/ allowed' = allowed
           \/ ~Done(s) /\ allowed' = allowed \union {[by |-> by, owner |-> s.owner]}
    BY <2>1 DEF Allow, Running
  <2> HIDE DEF v
  <2>3. s.owner \in {NoOne, by} \/ Done(s)
    BY <1>1, <2>2 DEF OwnerOk, SwapOk
  <2>4. OwnerAnswers'
    BY <2>2, <2>3 DEF IInv, OwnerAnswers
  <2>5. /\ s' \in Session /\ Same(s, s') /\ ~s'.asks
        /\ Done(s') = Done(s) /\ (Done(s) => s'.state = s.state)
    BY <1>3, <2>2
  <2>6. Onward(s, s') /\ CountsOk(s')
    BY <1>1, <2>5, SameKeeps DEF CountsOk, Same, SameBase
  <2> QED BY <2>2, <2>4, <2>5, <2>6, QuietStep
<1>6. CASE ControlCall
  <2>1. /\ s' = [s EXCEPT !.busy = "call"] /\ s.busy = "none"
        /\ UNCHANGED <<phase, alive, got>> /\ Untouched
    BY <1>6 DEF ControlCall, HarnessStep
  <2>2. /\ s' \in Session /\ SameHeld(s, s') /\ SameCounts(s, s') /\ s'.state = s.state
        /\ Onward(s, s')
    BY <1>1, <2>1 DEF Session, SameHeld, SameCounts, Onward, SwapOk, Done
  <2>3. CountsOk(s') /\ Done(s') = Done(s)
    BY <1>1, <2>2 DEF CountsOk, SameCounts, Done
  <2> QED BY <2>1, <2>2, <2>3, RecordStep
<1> QED BY <1>4, <1>5, <1>6
-----------------------------------------------------------------------------

\* Every session starts in order, seeding or not.
LEMMA InitIInv == ASSUME Init PROVE IInv
<1>1. PICK seeding \in Seeding : s =
        [state |-> IF seeding THEN "starting" ELSE "idle",
         setup |-> NoSetup, swapping |-> NoSetup, applied |-> 0, latest |-> 0,
         timer |-> FALSE, held |-> <<>>, taken |-> {}, takenCount |-> 0,
         authorFilter |-> NoOne, answersFrom |-> NoOne, owner |-> NoOne,
         busy |-> "none", ending |-> FALSE, asks |-> FALSE, park |-> "none",
         background |-> FALSE, settled |-> FALSE, selfTurns |-> 0,
         harness |-> IF seeding THEN 0 ELSE 1, closed |-> FALSE, spec |-> 0]
      /\ phase = (IF seeding THEN "seeding" ELSE "none")
      /\ alive = IF seeding THEN {} ELSE {1}
  BY DEF Init
<1>2. /\ s \in Session /\ s.setup = NoSetup /\ s.swapping = NoSetup /\ s.latest = 0
      /\ s.held = <<>> /\ s.taken = {} /\ s.takenCount = 0 /\ s.selfTurns = 0
      /\ s.owner = NoOne /\ s.busy = "none" /\ ~s.ending /\ ~s.asks /\ ~s.closed
      /\ s.spec = 0 /\ s.harness = (IF seeding THEN 0 ELSE 1) /\ ~Done(s)
  BY <1>1 DEF Session, Whose, States, Done
<1>3. got = <<>> /\ allowed = {} /\ MaxTurns \in Nat
  BY SetupAssumption DEF Init
<1>4. SwapOk(s) /\ OwnerOk(s) /\ HeldOk(s)
  BY <1>2 DEF SwapOk, OwnerOk, HeldOk, InputHeld, Pending
<1>5. OrderOk(s, got) /\ got \in Seq(HeardItem) /\ GotOk(got)
  BY <1>2, <1>3 DEF OrderOk, GotOk
<1>6. PhaseOk(s, phase, alive)
  BY <1>1, <1>2 DEF PhaseOk, Swapping
<1> QED
  BY <1>2, <1>3, <1>4, <1>5, <1>6 DEF IInv, SessionOk, CountsOk, OwnerAnswers

\* No step breaks the inductive invariant, or the outcome of a session that is over.
LEMMA StepKeeps ==
  ASSUME IInv, [Next]_vars PROVE IInv' /\ (Done(s) => s'.state = s.state)
<1>1. CASE UNCHANGED vars
  BY <1>1 DEF vars, IInv, OwnerAnswers
<1>2. CASE Next
  <2>1. CASE \E m \in Messages : Message(m)
    BY <2>1, MessageKeeps
  <2>2. CASE \E n \in DOMAIN Setups : Setup(n)
    BY <2>2, SetupKeeps
  <2>3. CASE SetupApply \/ RefusedCall
    BY <2>3, SetupApplyKeeps
  <2>4. CASE Deny \/ (\E by \in Members : Allow(by)) \/ ControlCall
    BY <2>4, PeopleKeep
  <2>5. CASE End \/ Undeliverable \/ Shutdown
    BY <2>5, EndKeeps
  <2>6. CASE Harness \/ IdleSettles \/ ControlReturns
    BY <2>6, HarnessKeeps
  <2>7. CASE SwapStep
    BY <2>7, RetiredKeeps, GraceOverKeeps, AbandonDaemonKeeps, BuiltKeeps,
       BuildFailsKeeps, StopReturnsKeeps DEF SwapStep
  <2>8. CASE StartStep
    BY <2>8, StartKeeps
  <2>9. CASE ApplyOverdue
    BY <2>9, ApplyOverdueKeeps
  <2>10. CASE Tick
    BY <2>10, TickKeeps
  <2>11. CASE Exit
    BY <2>11 DEF Exit, IInv, OwnerAnswers
  <2> QED
    BY <1>2, <2>1, <2>2, <2>3, <2>4, <2>5, <2>6, <2>7, <2>8, <2>9, <2>10, <2>11
       DEF Next, Requests
<1> QED BY <1>1, <1>2

\* The inductive invariant holds throughout.
LEMMA Invariant == Spec => []IInv
<1>1. Init => IInv
  BY InitIInv
<1>2. IInv /\ [Next]_vars => IInv'
  BY StepKeeps
<1> QED BY <1>1, <1>2, PTL DEF Spec

\* It implies the type invariant.
LEMMA IInvTypeOK == ASSUME IInv PROVE TypeOK
<1>1. /\ s \in Session /\ SwapOk(s) /\ CountsOk(s) /\ PhaseOk(s, phase, alive)
  BY DEF IInv, SessionOk
<1>2. s.takenCount + s.selfTurns \in 0..MaxTurns
  BY <1>1, SetupAssumption DEF CountsOk, Session
<1>3. alive \subseteq 0..(s.harness + 1)
  BY <1>1 DEF PhaseOk, Session
<1> QED
  BY <1>1, <1>2, <1>3 DEF TypeOK, PhaseOk, SwapOk, Session

\* Type correctness for any members, messages and set-ups: the record, the swap's
\* phase and its reservation fit each other.
THEOREM TypeCorrect == Spec => []TypeOK
BY Invariant, IInvTypeOK, PTL

\* It leaves room for one process only.
LEMMA IInvOneHarness == ASSUME IInv PROVE OneHarness
<1>1. PICK h : alive \subseteq {h}
  BY DEF IInv, PhaseOk
<1>2. CASE alive = {}
  BY <1>2, FS_EmptySet DEF OneHarness
<1>3. CASE alive = {h}
  <2>1. Cardinality({h}) = 1
    BY FS_Singleton
  <2> QED BY <1>3, <2>1 DEF OneHarness
<1> QED BY <1>1, <1>2, <1>3

\* Never two harnesses on one transcript, however many set-ups, ends, timeouts and
\* failures meet during a swap (retireDriver).
THEOREM OneHarnessRuns == Spec => []OneHarness
BY Invariant, IInvOneHarness, PTL

\* It says how each message was heard.
LEMMA IInvHeard == ASSUME IInv PROVE NeverOnOldSetup /\ OnlyItsMember
<1>1. DOMAIN got = 1..Len(got) /\ GotOk(got)
  BY DEF IInv
<1> QED BY <1>1 DEF GotOk, NeverOnOldSetup, OnlyItsMember

\* What is said once the sharing changed never reaches a harness on an older
\* set-up, for any sequence of set-ups (holdMessage, replayHeld).
THEOREM NeverHeardOnOldSetup == Spec => []NeverOnOldSetup
BY Invariant, IInvHeard, PTL

\* In a chat taken back nobody but its member is heard, for any members and any
\* messages held before (dropHeldFrom).
THEOREM OnlyItsMemberHeard == Spec => []OnlyItsMember
BY Invariant, IInvHeard, PTL

\* It counts each message once.
LEMMA IInvTakenOnce == ASSUME IInv PROVE TakenOnce
<1>1. /\ s \in Session /\ OrderOk(s, got) /\ got \in Seq(HeardItem)
      /\ DOMAIN got = 1..Len(got) /\ DOMAIN s.held = 1..Len(s.held)
      /\ Len(got) \in Nat /\ Len(s.held) \in Nat
  BY DEF IInv, SessionOk, Session
<1>2. ASSUME NEW m \in Messages
      PROVE  Cardinality(Places(m))
               + Cardinality({i \in DOMAIN s.held : s.held[i].m = m})
             = IF m \in s.taken THEN 1 ELSE 0
  <2> DEFINE G == {i \in 1..Len(got) : got[i].m = m}
             H == {i \in 1..Len(s.held) : s.held[i].m = m}
  <2>1. \A i, j \in G : i = j
    <3>1. ASSUME NEW i \in G, NEW j \in G, i < j PROVE FALSE
      BY <3>1, <1>1 DEF OrderOk
    <3> QED BY <3>1
  <2>2. \A i, j \in H : i = j
    <3>1. ASSUME NEW i \in H, NEW j \in H, i < j PROVE FALSE
      BY <3>1, <1>1 DEF OrderOk
    <3> QED BY <3>1
  <2>3. G = {} \/ H = {}
    BY <1>1 DEF OrderOk
  <2>4. m \in s.taken <=> G # {} \/ H # {}
    BY <1>1 DEF OrderOk
  <2>5. Cardinality(G) = IF G = {} THEN 0 ELSE 1
    <3> HIDE DEF G
    <3>1. CASE G = {}
      BY <3>1, FS_EmptySet
    <3>2. CASE G # {}
      <4>1. PICK i \in G : TRUE
        BY <3>2
      <4>2. G = {i}
        BY <4>1, <2>1
      <4> QED BY <3>2, <4>2, FS_Singleton
    <3> QED BY <3>1, <3>2
  <2>6. Cardinality(H) = IF H = {} THEN 0 ELSE 1
    <3> HIDE DEF H
    <3>1. CASE H = {}
      BY <3>1, FS_EmptySet
    <3>2. CASE H # {}
      <4>1. PICK i \in H : TRUE
        BY <3>2
      <4>2. H = {i}
        BY <4>1, <2>2
      <4> QED BY <3>2, <4>2, FS_Singleton
    <3> QED BY <3>1, <3>2
  <2>7. Places(m) = G /\ {i \in DOMAIN s.held : s.held[i].m = m} = H
    BY <1>1 DEF Places
  <2> HIDE DEF G, H
  <2> QED BY <2>3, <2>4, <2>5, <2>6, <2>7
<1> QED BY <1>2 DEF TakenOnce

\* A message is known as taken exactly while it is held or was heard, and then once:
\* holding, dropping and replaying neither double nor lose one.
THEOREM MessagesTakenOnce == Spec => []TakenOnce
BY Invariant, IInvTakenOnce, PTL

\* It orders the messages heard, then held.
LEMMA IInvHeardInOrder == ASSUME IInv PROVE HeardInOrder
<1> DEFINE g == [i \in DOMAIN got |-> got[i].n]
           h == [i \in DOMAIN s.held |-> s.held[i].n]
           all == g \o h
<1>1. /\ s \in Session /\ OrderOk(s, got) /\ got \in Seq(HeardItem)
      /\ s.held \in Seq(HeldItem)
      /\ DOMAIN got = 1..Len(got) /\ DOMAIN s.held = 1..Len(s.held)
      /\ Len(got) \in Nat /\ Len(s.held) \in Nat
  BY DEF IInv, SessionOk, Session
<1>2. /\ \A i \in 1..Len(got) : got[i].n \in Nat
      /\ \A i \in 1..Len(s.held) : s.held[i].n \in Nat
  <2>1. \A i \in 1..Len(got) : got[i] \in HeardItem
    BY <1>1
  <2>2. \A i \in 1..Len(s.held) : s.held[i] \in HeldItem
    BY <1>1
  <2> QED BY <2>1, <2>2 DEF HeardItem, HeldItem
<1>3. /\ g \in Seq(Nat) /\ Len(g) = Len(got) /\ \A i \in 1..Len(got) : g[i] = got[i].n
      /\ h \in Seq(Nat) /\ Len(h) = Len(s.held)
      /\ \A i \in 1..Len(s.held) : h[i] = s.held[i].n
  BY <1>1, <1>2
<1> HIDE DEF g, h
<1>4. /\ Len(all) = Len(g) + Len(h) /\ DOMAIN all = 1..Len(all)
      /\ \A j \in 1..(Len(g) + Len(h)) :
           all[j] = IF j <= Len(g) THEN g[j] ELSE h[j - Len(g)]
  <2>1. g \in Seq(Nat) /\ h \in Seq(Nat) /\ all \in Seq(Nat)
    BY <1>3
  <2>2. /\ Len(g \o h) = Len(g) + Len(h)
        /\ \A j \in 1..(Len(g) + Len(h)) :
             (g \o h)[j] = IF j <= Len(g) THEN g[j] ELSE h[j - Len(g)]
    BY <2>1, ConcatAt, Zenon
  <2> QED BY <2>1, <2>2
<1> HIDE DEF all
<1>5. /\ \A i, j \in 1..Len(g) : i < j => g[i] < g[j]
      /\ \A i, j \in 1..Len(h) : i < j => h[i] < h[j]
      /\ \A i \in 1..Len(g), j \in 1..Len(h) : g[i] < h[j]
  <2>1. /\ \A i, j \in 1..Len(got) : i < j => got[i].n < got[j].n
        /\ \A i, j \in 1..Len(s.held) : i < j => s.held[i].n < s.held[j].n
        /\ \A i \in 1..Len(got), j \in 1..Len(s.held) : got[i].n < s.held[j].n
    BY <1>1 DEF OrderOk
  <2>2. \A i, j \in 1..Len(g) : i < j => g[i] < g[j]
    BY <2>1, <1>3
  <2>3. \A i, j \in 1..Len(h) : i < j => h[i] < h[j]
    BY <2>1, <1>3
  <2>4. \A i \in 1..Len(g), j \in 1..Len(h) : g[i] < h[j]
    BY <2>1, <1>3
  <2> QED BY <2>2, <2>3, <2>4
<1>6. ASSUME NEW i \in DOMAIN all, NEW j \in DOMAIN all, i < j PROVE all[i] < all[j]
  <2>1. i \in 1..(Len(g) + Len(h)) /\ j \in 1..(Len(g) + Len(h))
    BY <1>4
  <2>2. Len(g) \in Nat /\ Len(h) \in Nat
    BY <1>1, <1>3
  <2>3. CASE j <= Len(g)
    BY <2>1, <2>2, <2>3, <1>4, <1>5, <1>6
  <2>4. CASE i <= Len(g) /\ ~(j <= Len(g))
    <3>1. j - Len(g) \in 1..Len(h) /\ i \in 1..Len(g)
      BY <2>1, <2>2, <2>4
    <3> QED BY <3>1, <2>1, <2>2, <2>4, <1>4, <1>5
  <2>5. CASE ~(i <= Len(g))
    <3>1. j - Len(g) \in 1..Len(h) /\ i - Len(g) \in 1..Len(h) /\ ~(j <= Len(g))
          /\ i - Len(g) < j - Len(g)
      BY <2>1, <2>2, <2>5, <1>6
    <3> QED BY <3>1, <2>1, <2>5, <1>4, <1>5
  <2> QED BY <2>3, <2>4, <2>5
<1> QED BY <1>6 DEF HeardInOrder, all, g, h

\* Harnesses hear messages in the order they were taken, across any number of
\* holds and replays (replayHeld).
THEOREM MessagesHeardInOrder == Spec => []HeardInOrder
BY Invariant, IInvHeardInOrder, PTL

\* While the turn of a private set-up runs, only its owner allows what it asks
\* (mayDecide), for any sequence of set-ups.
THEOREM OnlyOwnerAnswers == Spec => []OwnerAnswers
<1>1. IInv => OwnerAnswers
  BY DEF IInv
<1> QED BY <1>1, Invariant, PTL

\* An ended or failed session keeps its outcome through every swap, build and
\* late harness.
THEOREM OutcomeAlwaysStands == Spec => OutcomeStands
<1>1. IInv /\ [Next]_vars => [Done(s) => s'.state = s.state]_s
  BY StepKeeps
<1> QED BY <1>1, Invariant, PTL DEF Spec, OutcomeStands
==============================================================================
