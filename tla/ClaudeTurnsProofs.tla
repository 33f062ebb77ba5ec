-------------------------- MODULE ClaudeTurnsProofs --------------------------
(***************************************************************************)
(* Proofs about ClaudeTurns for any number of interrupts, messages, tasks  *)
(* and edits.                                                              *)
(***************************************************************************)
EXTENDS ClaudeTurns, QueueLemmas

-----------------------------------------------------------------------------
(* The inductive invariant *)

Phases == {"none", "asking", "syncing", "done"}

\* What the stream's items belong to: a CLI turn, or a call that is answered.
Owners == Nat \union Callers

Kinds == {"init", "edit", "edited", "task", "notice", "result", "answer", "refusal"}
Items == [kind : Kinds, turn : Owners]

DaemonRecord ==
  [state : {"idle", "working"}, active : Nat, draining : Nat, turns : Nat,
   edits : SUBSET Owners, reported : SUBSET Owners, consumed : Nat,
   owed : Nat, tasks : Int]

CliRecord ==
  [running : BOOLEAN, turn : Nat, waiting : Int, editing : BOOLEAN,
   edited : Nat, notices : Int, live : Int, started : Int]

Typed ==
  /\ d \in DaemonRecord
  /\ call \in [Callers -> [at : Phases, before : Nat, turn : Nat]]
  /\ loop \in [at : {"reading", "syncing"}, item : Items, before : Nat]
  /\ cli \in CliRecord
  /\ stream \in Seq(Items)

IInv == Typed /\ DrainIsOwned

-----------------------------------------------------------------------------
(* The turn context *)

\* Opening, closing and rotating turns, and the state flips built on them, keep
\* the record and leave the draining turn alone.
LEMMA TurnSteps ==
  ASSUME NEW t, t \in DaemonRecord
  PROVE  /\ SetWorking(t) \in DaemonRecord /\ SetWorking(t).draining = t.draining
         /\ SetIdle(t) \in DaemonRecord /\ SetIdle(t).draining = t.draining
         /\ RotateTurn(t) \in DaemonRecord /\ RotateTurn(t).draining = t.draining
<1>1. ResetEdits(t) \in DaemonRecord /\ ResetEdits(t).draining = t.draining
  BY DEF DaemonRecord, ResetEdits
<1>2. /\ CompleteTurn(t) \in DaemonRecord /\ CompleteTurn(t).draining = t.draining
  BY DEF DaemonRecord, CompleteTurn
<1>3. ASSUME NEW u, u \in DaemonRecord
      PROVE  BeginTurn(u) \in DaemonRecord /\ BeginTurn(u).draining = u.draining
  <2>1. u.turns + 1 \in Nat
    BY <1>3 DEF DaemonRecord
  <2>2. CASE u.active # 0
    BY <1>3, <2>2 DEF BeginTurn
  <2>3. CASE u.active = 0
    BY <1>3, <2>1, <2>3 DEF BeginTurn, DaemonRecord
  <2> QED BY <2>2, <2>3
<1>4. ASSUME NEW u, u \in DaemonRecord
      PROVE  ResetEdits(u) \in DaemonRecord /\ ResetEdits(u).draining = u.draining
  BY <1>4 DEF DaemonRecord, ResetEdits
<1>5. SetWorking(t) \in DaemonRecord /\ SetWorking(t).draining = t.draining
  <2> DEFINE u == BeginTurn(t)
  <2>1. u \in DaemonRecord /\ u.draining = t.draining
    BY <1>3
  <2>2. SetWorking(t) = [u EXCEPT !.state = "working"]
    BY DEF SetWorking
  <2> HIDE DEF u
  <2> QED BY <2>1, <2>2 DEF DaemonRecord
<1>6. SetIdle(t) \in DaemonRecord /\ SetIdle(t).draining = t.draining
  <2> DEFINE u == CompleteTurn(t)
  <2>1. SetIdle(t) = [u EXCEPT !.state = "idle"]
    BY DEF SetIdle
  <2>2. u \in DaemonRecord /\ u.draining = t.draining
    BY <1>2
  <2> HIDE DEF u
  <2> QED BY <2>1, <2>2 DEF DaemonRecord
<1>7. RotateTurn(t) \in DaemonRecord /\ RotateTurn(t).draining = t.draining
  <2> DEFINE u == BeginTurn(CompleteTurn(t))
  <2>1. u \in DaemonRecord /\ u.draining = t.draining
    BY <1>2, <1>3
  <2> QED BY <1>4, <2>1 DEF RotateTurn
<1> QED BY <1>5, <1>6, <1>7

\* The end of a drain clears that turn and no other.
LEMMA DrainEndsOwn ==
  ASSUME NEW t, NEW n \in Nat, t \in DaemonRecord
  PROVE  /\ FinishDraining(t, n) \in DaemonRecord
         /\ FinishDraining(t, n).draining = IF t.draining = n THEN 0 ELSE t.draining
  BY DEF DaemonRecord, FinishDraining, ResetEdits

-----------------------------------------------------------------------------
(* The steps *)

\* What the CLI writes is an item.
LEMMA ItemTyped ==
  ASSUME NEW k \in Kinds, NEW o \in Owners
  PROVE  Item(k, o) \in Items
BY DEF Item, Items

\* A turn the CLI opens.
LEMMA OpensTyped == ASSUME NEW c \in CliRecord PROVE Opens(c) \in CliRecord
<1>1. c.turn + 1 \in Nat
  BY DEF CliRecord
<1> DEFINE b == [c EXCEPT !.running = TRUE, !.turn = @ + 1]
<1>2. b \in CliRecord
  BY <1>1 DEF CliRecord
<1>3. Opens(c) = [b EXCEPT !.notices = 0]
  BY DEF Opens
<1> HIDE DEF b
<1> QED BY <1>2, <1>3 DEF CliRecord

\* The run loop is never anywhere else than at an item.
LEMMA ReadingTyped ==
  Reading \in [at : {"reading", "syncing"}, item : Items, before : Nat]
<1>1. "init" \in Kinds /\ 0 \in Owners
  BY DEF Kinds, Owners
<1>2. Item("init", 0) \in Items
  BY <1>1, ItemTyped
<1> QED BY <1>2 DEF Reading

\* A step that leaves the calls and the draining turn alone.
LEMMA Quiet ==
  ASSUME DrainIsOwned, UNCHANGED call, d'.draining = d.draining
  PROVE  DrainIsOwned'
  BY DEF DrainIsOwned, Interrupting

\* A message opens or steers a turn.
LEMMA MessageKeeps == ASSUME IInv, Message PROVE IInv'
<1> DEFINE u == SetWorking(d)
<1>1. d \in DaemonRecord /\ d.consumed + 1 \in Nat
  BY DEF IInv, Typed, DaemonRecord
<1>2. u \in DaemonRecord /\ u.draining = d.draining
  BY <1>1, TurnSteps
<1>3. d' = [u EXCEPT !.consumed = @ + 1] /\ UNCHANGED <<call, loop, cli, stream>>
  BY DEF Message, Pumped
<1> HIDE DEF u
<1>4. d' \in DaemonRecord /\ d'.draining = d.draining
  <2>1. u.consumed + 1 \in Nat
    BY <1>2 DEF DaemonRecord
  <2>2. d' \in DaemonRecord
    BY <1>2, <1>3, <2>1 DEF DaemonRecord
  <2>3. d'.draining = u.draining
    BY <1>2, <1>3 DEF DaemonRecord
  <2> QED BY <1>2, <2>2, <2>3
<1> QED BY <1>3, <1>4, Quiet DEF IInv, Typed

\* What the run loop reads drains nothing.
LEMMA ReadKeeps == ASSUME IInv, LoopReads PROVE IInv'
<1> DEFINE item == Head(stream)
<1>1. d \in DaemonRecord /\ stream \in Seq(Items) /\ stream # <<>>
  BY DEF IInv, Typed, LoopReads
<1>2. item \in Items /\ Tail(stream) \in Seq(Items)
  BY <1>1
<1>3. item.turn \in Owners
  BY <1>2 DEF Items
<1>4. d' \in DaemonRecord /\ d'.draining = d.draining
  <2>1. CASE UNCHANGED d
    BY <1>1, <2>1
  <2>2. CASE OnInit
    <3> DEFINE u == SetWorking(d)
    <3>1. u \in DaemonRecord /\ u.draining = d.draining
      BY <1>1, TurnSteps
    <3>2. d' = [d EXCEPT !.owed = 0] \/ d' = [u EXCEPT !.owed = 0]
      BY <2>2 DEF OnInit
    <3> HIDE DEF u
    <3>3. CASE d' = [d EXCEPT !.owed = 0]
      BY <1>1, <3>3 DEF DaemonRecord
    <3>4. CASE d' = [u EXCEPT !.owed = 0]
      BY <3>1, <3>4 DEF DaemonRecord
    <3> QED BY <3>2, <3>3, <3>4
  <2>3. CASE OnTask
    BY <1>1, <2>3 DEF OnTask, DaemonRecord
  <2>4. CASE OnNotice
    <3>0. d.owed \in Nat /\ d.tasks \in Int
      BY <1>1 DEF DaemonRecord
    <3>1. d.owed + 1 \in Nat /\ d.owed \in Nat /\ d.tasks - 1 \in Int
      BY <3>0
    <3>2. PICK n \in Nat : d' = [d EXCEPT !.owed = n, !.tasks = @ - 1]
      <4>1. CASE d.state = "idle"
        BY <1>1, <2>4, <3>1, <4>1 DEF OnNotice, DaemonRecord
      <4>2. CASE d.state # "idle"
        BY <1>1, <2>4, <3>1, <4>2 DEF OnNotice, DaemonRecord
      <4> QED BY <4>1, <4>2
    <3> QED BY <1>1, <3>1, <3>2 DEF DaemonRecord
  <2>5. CASE OnEdit(item)
    BY <1>1, <1>3, <2>5 DEF OnEdit, DaemonRecord
  <2>6. CASE OnEdited(item)
    BY <1>1, <1>3, <2>6 DEF OnEdited, DaemonRecord
  <2> QED BY <2>1, <2>2, <2>3, <2>4, <2>5, <2>6 DEF LoopReads
<1>5. loop' \in [at : {"reading", "syncing"}, item : Items, before : Nat]
  <2>1. d.consumed \in Nat
    BY <1>1 DEF DaemonRecord
  <2> QED BY <1>2, <2>1 DEF LoopReads, IInv, Typed
<1>6. stream' = Tail(stream) /\ UNCHANGED <<call, cli>>
  BY DEF LoopReads
<1> QED BY <1>2, <1>4, <1>5, <1>6, Quiet DEF IInv, Typed

\* A result ends its turn or rotates it, and drains nothing.
LEMMA ResultKeeps == ASSUME IInv, ResultSynced PROVE IInv'
<1>1. d \in DaemonRecord /\ loop.before + 1 \in Nat
  BY DEF IInv, Typed
<1>2. d' \in DaemonRecord /\ d'.draining = d.draining
  <2>1. CASE UNCHANGED d
    BY <1>1, <2>1
  <2>2. CASE ResultIdle
    <3> DEFINE u == IF d.state = "idle" THEN d ELSE SetIdle(d)
    <3>1. u \in DaemonRecord /\ u.draining = d.draining
      BY <1>1, TurnSteps
    <3>2. d' = [u EXCEPT !.owed = 0]
      BY <2>2 DEF ResultIdle
    <3> HIDE DEF u
    <3> QED BY <3>1, <3>2 DEF DaemonRecord
  <2>3. CASE d' = RotateTurn(d)
    BY <1>1, <2>3, TurnSteps
  <2> QED BY <2>1, <2>2, <2>3 DEF ResultSynced
<1>3. loop' \in [at : {"reading", "syncing"}, item : Items, before : Nat]
  BY ReadingTyped DEF ResultSynced
<1>4. UNCHANGED <<call, cli, stream>>
  BY DEF ResultSynced
<1> QED BY <1>2, <1>3, <1>4, Quiet DEF IInv, Typed

\* The CLI only reads, writes and moves on.
LEMMA CliKeeps == ASSUME IInv, Cli PROVE IInv'
<1>1. UNCHANGED <<d, loop, call>>
  BY DEF Cli, CliReadsPrompt, CliReadsInterrupt, CliStarts, CliSteers, CliEdits,
         CliEdited, CliResult, CliTaskStarts, CliTaskSettles, CliUntouched
<1>2. cli \in CliRecord /\ stream \in Seq(Items)
  BY DEF IInv, Typed
<1>3. cli' \in CliRecord
  <2>1. /\ cli.turn + 1 \in Nat /\ cli.turn \in Nat
        /\ cli.waiting + 1 \in Int /\ cli.waiting - 1 \in Int
        /\ cli.live + 1 \in Int /\ cli.live - 1 \in Int /\ cli.started + 1 \in Int
        /\ cli.notices + 0 \in Int /\ cli.notices + 1 \in Int
    <3>1. /\ cli.turn \in Nat /\ cli.waiting \in Int
          /\ cli.live \in Int /\ cli.started \in Int /\ cli.notices \in Int
      BY <1>2 DEF CliRecord
    <3> QED BY <3>1
  <2>2. CASE CliReadsPrompt
    <3>1. cli' = [cli EXCEPT !.waiting = @ + 1] \/ cli' = Opens(cli)
      BY <2>2 DEF CliReadsPrompt
    <3>2. CASE cli' = [cli EXCEPT !.waiting = @ + 1]
      BY <1>2, <2>1, <3>2 DEF CliRecord
    <3> QED BY <1>2, <3>1, <3>2, OpensTyped
  <2>3. CASE CliReadsInterrupt
    BY <1>2, <2>3 DEF CliReadsInterrupt, CliRecord
  <2>4. CASE CliStarts
    <3> DEFINE c == Opens(cli)
    <3>1. c \in CliRecord
      BY <1>2, OpensTyped
    <3>2. c.waiting - 1 \in Int
      BY <3>1 DEF CliRecord
    <3>3. \/ cli' = [c EXCEPT !.waiting = @ - 1]
          \/ cli' = [c EXCEPT !.waiting = 0]
      BY <2>4, <3>1 DEF CliStarts, CliRecord
    <3> HIDE DEF c
    <3>4. CASE cli' = [c EXCEPT !.waiting = @ - 1]
      BY <3>1, <3>2, <3>4 DEF CliRecord
    <3>5. CASE cli' = [c EXCEPT !.waiting = 0]
      BY <3>1, <3>5 DEF CliRecord
    <3> QED BY <3>3, <3>4, <3>5
  <2>5. CASE CliSteers
    BY <1>2, <2>1, <2>5 DEF CliSteers, CliRecord
  <2>6. CASE CliEdits
    BY <1>2, <2>1, <2>6 DEF CliEdits, CliRecord
  <2>7. CASE CliEdited
    BY <1>2, <2>7 DEF CliEdited, CliRecord
  <2>8. CASE CliResult
    BY <1>2, <2>8 DEF CliResult, CliRecord
  <2>9. CASE CliTaskStarts
    BY <1>2, <2>1, <2>9 DEF CliTaskStarts, CliRecord
  <2>10. CASE CliTaskSettles
    <3>1. PICK w \in {0, 1} : cli' = [cli EXCEPT !.live = @ - 1, !.notices = @ + w]
      BY <2>10 DEF CliTaskSettles
    <3> QED BY <1>2, <2>1, <3>1 DEF CliRecord
  <2> QED BY <2>2, <2>3, <2>4, <2>5, <2>6, <2>7, <2>8, <2>9, <2>10 DEF Cli
<1>4. stream' \in Seq(Items)
  <2>1. cli.turn \in Owners /\ cli'.turn \in Owners
    BY <1>2, <1>3 DEF CliRecord, Owners
  <2>2. ASSUME NEW k \in Kinds
        PROVE  Say(k) \in Seq(Items)
    <3>1. Item(k, cli.turn) \in Items
      BY <2>1, ItemTyped
    <3> QED BY <1>2, <3>1, AppendProperties DEF Say
  <2>3. /\ "init" \in Kinds /\ "edit" \in Kinds /\ "edited" \in Kinds /\ "task" \in Kinds
        /\ "notice" \in Kinds /\ "result" \in Kinds
        /\ "answer" \in Kinds /\ "refusal" \in Kinds
    BY DEF Kinds
  <2>4. CASE CliReadsPrompt
    <3> DEFINE e == Item("init", cli'.turn)
    <3>1. e \in Items
      BY <2>1, <2>3, ItemTyped
    <3>2. stream' = stream \/ stream' = Append(stream, e)
      BY <1>2, <2>4 DEF CliReadsPrompt, CliRecord
    <3> HIDE DEF e
    <3> QED BY <1>2, <3>1, <3>2, AppendProperties
  <2>5. CASE CliReadsInterrupt
    <3> DEFINE said == Say("result")
               answer == Item("answer", Head(stdin))
               refusal == Item("refusal", Head(stdin))
    <3>1. Head(stdin) \in Owners
      BY <2>5 DEF CliReadsInterrupt, Owners
    <3>2. answer \in Items /\ refusal \in Items
      BY <2>1, <2>3, <3>1, ItemTyped
    <3>3. said \in Seq(Items)
      BY <2>2, <2>3
    <3>4. \/ stream' = said \o <<answer>>
          \/ stream' = stream \o <<answer>>
          \/ stream' = Append(stream, refusal)
      BY <2>5 DEF CliReadsInterrupt
    <3> HIDE DEF said, answer, refusal
    <3>5. <<answer>> \in Seq(Items)
      BY <3>2
    <3>6. said \o <<answer>> \in Seq(Items) /\ stream \o <<answer>> \in Seq(Items)
      BY <1>2, <3>3, <3>5, ConcatProperties
    <3>7. Append(stream, refusal) \in Seq(Items)
      BY <1>2, <3>2, AppendProperties
    <3> QED BY <3>4, <3>6, <3>7
  <2>6. CASE CliStarts
    <3> DEFINE e == Item("init", cli'.turn)
    <3>1. e \in Items
      BY <2>1, <2>3, ItemTyped
    <3>2. stream' = Append(stream, e)
      BY <2>6 DEF CliStarts
    <3> HIDE DEF e
    <3> QED BY <1>2, <3>1, <3>2, AppendProperties
  <2>7. CASE \/ CliEdits \/ CliEdited \/ CliResult \/ CliTaskStarts \/ CliTaskSettles
    <3>1. PICK k \in Kinds : stream' = Say(k)
      BY <2>3, <2>7 DEF CliEdits, CliEdited, CliResult, CliTaskStarts, CliTaskSettles
    <3> QED BY <2>2, <3>1
  <2>8. CASE CliSteers
    BY <1>2, <2>8 DEF CliSteers
  <2> QED BY <2>4, <2>5, <2>6, <2>7, <2>8 DEF Cli
<1> QED BY <1>1, <1>3, <1>4, Quiet DEF IInv, Typed

\* An interrupt owns the drain it starts; one that drains nothing leaves
\* another's alone.
LEMMA InterruptKeeps ==
  ASSUME NEW i \in Callers, IInv, Interrupt(i)
  PROVE  IInv'
<1>1. /\ d \in DaemonRecord
      /\ call \in [Callers -> [at : Phases, before : Nat, turn : Nat]]
  BY DEF IInv, Typed
<1>2. d.active \in Nat /\ d.consumed \in Nat /\ d.draining \in Nat
  BY <1>1 DEF DaemonRecord
<1>3. d' = StartDraining(d) /\ UNCHANGED <<loop, cli, stream>>
  BY DEF Interrupt
<1>4. /\ d' \in DaemonRecord
      /\ d'.draining = IF d.active = 0 THEN d.draining ELSE d.active
  BY <1>1, <1>3 DEF StartDraining, CompleteTurn, DaemonRecord
<1>5. call' = [call EXCEPT ![i] = [at |-> "asking", before |-> d.consumed, turn |-> d.active]]
  BY DEF Interrupt
<1>6. call' \in [Callers -> [at : Phases, before : Nat, turn : Nat]]
  BY <1>1, <1>2, <1>5 DEF Phases
<1>7. DrainIsOwned'
  <2>1. call'[i].at = "asking" /\ call'[i].turn = d.active
    BY <1>1, <1>5
  <2>2. \A j \in Callers : j # i => call'[j] = call[j]
    BY <1>1, <1>5
  <2>3. CASE d.active # 0
    BY <1>4, <2>1, <2>3 DEF DrainIsOwned, Interrupting
  <2>4. CASE d.active = 0 /\ d.draining # 0
    <3>1. PICK j \in Interrupting : call[j].turn = d.draining
      BY <2>4 DEF IInv, DrainIsOwned
    <3>2. j # i
      BY <3>1 DEF Interrupting, Interrupt
    <3> QED BY <1>4, <2>2, <2>4, <3>1, <3>2 DEF DrainIsOwned, Interrupting
  <2>5. CASE d.active = 0 /\ d.draining = 0
    BY <1>4, <2>5 DEF DrainIsOwned
  <2> QED BY <2>3, <2>4, <2>5
<1> QED BY <1>3, <1>4, <1>6, <1>7 DEF IInv, Typed

\* An interrupt that returns ends its own drain, not another's.
LEMMA ReturnKeeps ==
  ASSUME NEW i \in Callers, NEW t \in DaemonRecord, IInv, Return(i, t),
         t.draining = d.draining
  PROVE  /\ d' \in DaemonRecord
         /\ call' \in [Callers -> [at : Phases, before : Nat, turn : Nat]]
         /\ DrainIsOwned'
<1>1. call \in [Callers -> [at : Phases, before : Nat, turn : Nat]]
  BY DEF IInv, Typed
<1>2. /\ call' = [call EXCEPT ![i] = [at |-> "done", before |-> 0, turn |-> 0]]
      /\ d' = FinishDraining(t, call[i].turn)
  BY DEF Return
<1>3. call' \in [Callers -> [at : Phases, before : Nat, turn : Nat]]
  BY <1>1, <1>2 DEF Phases
<1>4. call[i].turn \in Nat
  BY <1>1
<1>5. /\ d' \in DaemonRecord
      /\ d'.draining = IF t.draining = call[i].turn THEN 0 ELSE t.draining
  BY <1>2, <1>4, DrainEndsOwn
<1>6. DrainIsOwned'
  <2>1. CASE d'.draining = 0
    BY <2>1 DEF DrainIsOwned
  <2>2. CASE d'.draining # 0
    <3>1. d.draining # 0 /\ d'.draining = d.draining /\ d.draining # call[i].turn
      BY <1>5, <2>2
    <3>2. PICK j \in Interrupting : call[j].turn = d.draining
      BY <3>1 DEF IInv, DrainIsOwned
    <3>3. j # i /\ j \in Callers
      BY <3>1, <3>2 DEF Interrupting
    <3>4. call'[j] = call[j]
      BY <1>1, <1>2, <3>3
    <3> QED BY <3>1, <3>2, <3>3, <3>4 DEF DrainIsOwned, Interrupting
  <2> QED BY <2>1, <2>2
<1> QED BY <1>3, <1>5, <1>6

\* The answer starts the last sync of an interrupt, or ends it.
LEMMA AnswerKeeps ==
  ASSUME NEW i \in Callers, IInv, InterruptAnswered(i)
  PROVE  IInv'
<1>1. /\ d \in DaemonRecord /\ stream \in Seq(Items)
      /\ call \in [Callers -> [at : Phases, before : Nat, turn : Nat]]
  BY DEF IInv, Typed
<1>2. PICK p \in DOMAIN stream : stream' = RemoveAt(stream, p)
  BY DEF InterruptAnswered
<1>3. stream' \in Seq(Items)
  BY <1>1, <1>2, RemoveAtProperties
<1>4. UNCHANGED <<loop, cli>>
  BY DEF InterruptAnswered
<1>5. CASE Return(i, d)
  <2>1. d \in DaemonRecord /\ d.draining = d.draining
    BY <1>1
  <2> QED BY <1>3, <1>4, <1>5, <2>1, ReturnKeeps DEF IInv, Typed
<1>6. CASE call' = [call EXCEPT ![i].at = "syncing"] /\ UNCHANGED d
  <2>1. call' \in [Callers -> [at : Phases, before : Nat, turn : Nat]]
    BY <1>1, <1>6 DEF Phases
  <2>2. \A j \in Interrupting : j \in Interrupting' /\ call'[j].turn = call[j].turn
    BY <1>1, <1>6 DEF Interrupting
  <2>3. DrainIsOwned'
    BY <1>6, <2>2 DEF IInv, DrainIsOwned
  <2> QED BY <1>1, <1>3, <1>4, <1>6, <2>1, <2>3 DEF IInv, Typed
<1> QED BY <1>5, <1>6 DEF InterruptAnswered

\* The sync of an interrupt ends it.
LEMMA SyncKeeps ==
  ASSUME NEW i \in Callers, IInv, InterruptSynced(i)
  PROVE  IInv'
<1>1. d \in DaemonRecord
  BY DEF IInv, Typed
<1>2. SetIdle(d) \in DaemonRecord /\ SetIdle(d).draining = d.draining
  BY <1>1, TurnSteps
<1>3. UNCHANGED <<loop, cli, stream>>
  BY DEF InterruptSynced
<1>4. CASE Return(i, SetIdle(d))
  BY <1>2, <1>3, <1>4, ReturnKeeps DEF IInv, Typed
<1>5. CASE Return(i, d)
  BY <1>1, <1>3, <1>5, ReturnKeeps DEF IInv, Typed
<1> QED BY <1>4, <1>5 DEF InterruptSynced

-----------------------------------------------------------------------------
(* The theorems *)

\* IInv holds of every state.
THEOREM Inductive == Spec => []IInv
<1>1. Init => IInv
  <2> SUFFICES ASSUME Init PROVE IInv
    OBVIOUS
  <2>1. <<>> \in Seq(Items)
    OBVIOUS
  <2>2. d \in DaemonRecord
    BY <2>1 DEF Init, DaemonRecord
  <2>3. loop \in [at : {"reading", "syncing"}, item : Items, before : Nat]
    BY ReadingTyped DEF Init
  <2>4. cli \in CliRecord
    BY DEF Init, CliRecord
  <2>5. call \in [Callers -> [at : Phases, before : Nat, turn : Nat]] /\ stream \in Seq(Items)
    BY <2>1 DEF Init, Phases
  <2>6. DrainIsOwned
    BY DEF Init, DrainIsOwned
  <2> QED BY <2>2, <2>3, <2>4, <2>5, <2>6 DEF IInv, Typed
<1>2. IInv /\ [Next]_vars => IInv'
  <2> SUFFICES ASSUME IInv, [Next]_vars PROVE IInv'
    OBVIOUS
  <2>1. CASE UNCHANGED vars
    BY <2>1 DEF IInv, Typed, DrainIsOwned, Interrupting, vars
  <2>2. CASE Reemit
    BY <2>2 DEF Reemit, IInv, Typed, DrainIsOwned, Interrupting
  <2>3. CASE \E i \in Callers : Interrupt(i) \/ InterruptAnswered(i) \/ InterruptSynced(i)
    BY <2>3, InterruptKeeps, AnswerKeeps, SyncKeeps
  <2> QED BY <2>1, <2>2, <2>3, MessageKeeps, ReadKeeps, ResultKeeps, CliKeeps DEF Next
<1> QED BY <1>1, <1>2, PTL DEF Spec

\* A drain always belongs to an interrupt that will end it, however many
\* interrupts overlap, so no later result is ever taken for an aborted turn's
\* once they have returned (finishDraining compares the turn it clears).
THEOREM DrainsEnd == Spec => []DrainIsOwned
<1>1. IInv => DrainIsOwned
  BY DEF IInv
<1> QED BY <1>1, Inductive, PTL
-----------------------------------------------------------------------------
(* What the run loop has yet to read *)

\* As much of the CLI as its stream tells.
Looks == [running : BOOLEAN, editing : BOOLEAN, turn : Nat, live : 0..MaxTasks]
Look(c) == [running |-> c.running, editing |-> c.editing, turn |-> c.turn, live |-> c.live]

\* An item takes the CLI from a to e.
Tells(a, item, e) ==
  \/ /\ item.kind = "init" /\ ~a.running /\ ~a.editing
     /\ e.running /\ ~e.editing /\ e.turn = a.turn + 1 /\ e.live = a.live
  \/ /\ item.kind = "result" /\ a.running
     /\ ~e.running /\ ~e.editing /\ e.turn = a.turn /\ e.live = a.live
  \/ /\ item.kind = "edit" /\ a.running /\ ~a.editing /\ item.turn = a.turn
     /\ e.running /\ e.editing /\ e.turn = a.turn /\ e.live = a.live
  \/ /\ item.kind = "edited" /\ a.running /\ a.editing /\ item.turn = a.turn
     /\ e.running /\ ~e.editing /\ e.turn = a.turn /\ e.live = a.live
  \/ item.kind = "task" /\ e = [a EXCEPT !.live = a.live + 1]
  \/ item.kind = "notice" /\ e = [a EXCEPT !.live = a.live - 1]
  \/ item.kind \in {"answer", "refusal"} /\ e = a

\* f is the CLI as it was before each item of q, and is now that q is written.
Trace(f, q, c) ==
  /\ f \in [1..(Len(q) + 1) -> Looks] /\ f[Len(q) + 1] = Look(c)
  /\ \A j \in 1..Len(q) : Tells(f[j], q[j], f[j + 1])
  /\ \A j \in 1..(Len(q) + 1) : f[j].turn <= c.turn /\ (f[j].editing => f[j].running)

\* No edit is cut short by its turn's result.
Clean(f, q) == \A j \in 1..Len(q) : q[j].kind = "result" => ~f[j].editing

\* What the daemon makes of the CLI as it has heard of it, a.  Uninterrupted, a
\* canonical turn is open from an init until the result has its sync, holds the
\* edit that is made, and is not one that has had its result.
Heard(a) ==
  /\ d.tasks = a.live /\ \A t \in d.edits : t \in 0..a.turn
  /\ Uninterrupted =>
       /\ d.draining = 0 /\ (d.state = "idle" <=> d.active = 0)
       /\ a.running => d.active # 0 /\ loop.at = "reading"
       /\ loop.at = "syncing" => d.active # 0 /\ loop.item.kind = "result"
       /\ a.editing => a.turn \in d.edits
       /\ \A o \in out : o.kind = "result" =>
            o.stamp \in 1..d.turns /\ o.stamp # d.active

\* A turn that is open is the last one, and not the one that drains.
TurnsOk(t) ==
  /\ t.active <= t.turns /\ t.draining <= t.turns
  /\ t.active # 0 => t.active = t.turns /\ t.draining # t.active

\* Only an interrupt that is made has been asked of the CLI.
StdinOk ==
  \A j \in 1..Len(stdin) : stdin[j] \in Callers => call[stdin[j]].at # "none"

\* Only the interrupts that are made, and prompts, are asked of the CLI.
Asked == stdin \in Seq(Callers \union {Prompt})

Bounds ==
  /\ d.consumed <= MaxMessages /\ told \in Nat /\ reemit \in BOOLEAN
  /\ cli.started \in 0..MaxTasks /\ cli.live \in 0..cli.started

Known(f) ==
  Trace(f, stream, cli) /\ (Uninterrupted => Clean(f, stream)) /\ Heard(f[1])

\* The second invariant, which rests on the first.
Told ==
  /\ Bounds /\ Asked /\ StdinOk /\ TurnsOk(d)
  /\ OneResultPerTurn /\ EditsReported
  /\ \E f : Known(f)

\* g tells of q and c what f told from where it began; no turn is cut short in g if
\* clean.
Goes(g, q, c, f, clean) ==
  Trace(g, q, c) /\ g[1] = f[1] /\ (clean => Clean(g, q))

\* The types of what a trace is made of.
LEMMA LooksTyped ==
  ASSUME NEW a \in Looks
  PROVE  /\ a.running \in BOOLEAN /\ a.editing \in BOOLEAN /\ a.turn \in Nat
         /\ a.live \in 0..MaxTasks
BY DEF Looks

\* The CLI writes an item.
LEMMA TraceAppend ==
  ASSUME NEW q \in Seq(Items), NEW e \in Items, NEW f, NEW c, NEW cc,
         Trace(f, q, c), Look(cc) \in Looks, Tells(Look(c), e, Look(cc)),
         c.turn \in Nat, cc.turn \in Nat, c.turn <= cc.turn,
         cc.editing => cc.running, NEW clean \in BOOLEAN,
         clean => Clean(f, q) /\ (e.kind = "result" => ~c.editing)
  PROVE  \E g : Goes(g, Append(q, e), cc, f, clean)
<1> DEFINE n == Len(q)
           p == Append(q, e)
           g == [j \in 1..(n + 2) |-> IF j = n + 2 THEN Look(cc) ELSE f[j]]
<1>1. /\ n \in Nat /\ p \in Seq(Items) /\ Len(p) = n + 1 /\ p[n + 1] = e
      /\ \A j \in 1..n : p[j] = q[j]
  OBVIOUS
<1>2. /\ f \in [1..(n + 1) -> Looks] /\ f[n + 1] = Look(c)
      /\ \A j \in 1..n : Tells(f[j], q[j], f[j + 1])
      /\ \A j \in 1..(n + 1) : f[j].turn <= c.turn /\ (f[j].editing => f[j].running)
  BY DEF Trace
<1> HIDE DEF n, p
<1>3. /\ 1 \in 1..(n + 2) /\ n + 2 \in 1..(n + 2) /\ 1 # n + 2 /\ 1 \in 1..(n + 1)
      /\ n + 1 \in 1..(n + 1) /\ n + 1 \in 1..(n + 2) /\ n + 1 # n + 2
      /\ n + 1 + 1 = n + 2
      /\ \A j \in 1..(n + 2) : j = n + 2 \/ j \in 1..(n + 1)
      /\ \A j \in 1..(n + 1) : j \in 1..(n + 2) /\ j # n + 2 /\ (j = n + 1 \/ j \in 1..n)
      /\ \A j \in 1..n : j \in 1..(n + 1) /\ j + 1 \in 1..(n + 1)
  BY <1>1
<1>4. /\ g \in [1..(n + 2) -> Looks] /\ g[n + 2] = Look(cc)
      /\ \A j \in 1..(n + 1) : g[j] = f[j]
  BY <1>2, <1>3
<1> HIDE DEF g
<1>5. ASSUME NEW j \in 1..(n + 1) PROVE Tells(g[j], p[j], g[j + 1])
  <2>1. CASE j = n + 1
    <3>1. g[j] = Look(c) /\ p[j] = e /\ g[j + 1] = Look(cc)
      BY <1>1, <1>2, <1>3, <1>4, <2>1
    <3> QED BY <3>1
  <2>2. CASE j \in 1..n
    <3>1. g[j] = f[j] /\ p[j] = q[j] /\ g[j + 1] = f[j + 1]
      BY <1>1, <1>3, <1>4, <2>2
    <3> QED BY <1>2, <2>2, <3>1
  <2> QED BY <1>3, <2>1, <2>2
<1>6. ASSUME NEW j \in 1..(n + 2) PROVE g[j].turn <= cc.turn /\ (g[j].editing => g[j].running)
  <2>1. CASE j = n + 2
    BY <1>4, <2>1 DEF Look
  <2>2. CASE j \in 1..(n + 1)
    <3>1. g[j] = f[j] /\ f[j] \in Looks
      BY <1>2, <1>4, <2>2
    <3> QED BY <1>2, <2>2, <3>1, LooksTyped
  <2> QED BY <1>3, <2>1, <2>2
<1>7. Len(p) + 1 = n + 2
  BY <1>1
<1>8. Trace(g, p, cc)
  BY <1>1, <1>4, <1>5, <1>6, <1>7 DEF Trace
<1>9. ASSUME clean, NEW j \in 1..(n + 1), p[j].kind = "result" PROVE ~g[j].editing
  <2>1. CASE j = n + 1
    BY <1>1, <1>2, <1>3, <1>4, <1>9, <2>1 DEF Look
  <2>2. CASE j \in 1..n
    BY <1>1, <1>3, <1>4, <1>9, <2>2 DEF Clean, n
  <2> QED BY <1>3, <2>1, <2>2
<1>10. clean => Clean(g, p)
  BY <1>1, <1>9 DEF Clean
<1>11. Goes(g, p, cc, f, clean)
  BY <1>3, <1>4, <1>8, <1>10 DEF Goes
<1> QED BY <1>11 DEF p

\* The run loop reads one.
LEMMA TraceTail ==
  ASSUME NEW q \in Seq(Items), q # <<>>, NEW f, NEW c, Trace(f, q, c), NEW clean \in BOOLEAN,
         clean => Clean(f, q)
  PROVE  /\ f[1] \in Looks /\ f[2] \in Looks /\ Tells(f[1], Head(q), f[2])
         /\ f[2].turn <= c.turn /\ (clean => (Head(q).kind = "result" => ~f[1].editing))
         /\ (f[2].editing => f[2].running) /\ (f[1].editing => f[1].running)
         /\ \E g : g[1] = f[2] /\ Trace(g, Tail(q), c) /\ (clean => Clean(g, Tail(q)))
<1> DEFINE n == Len(q)
           p == Tail(q)
           g == [j \in 1..n |-> f[j + 1]]
<1>1. /\ n \in Nat /\ n # 0 /\ p \in Seq(Items) /\ Len(p) = n - 1 /\ Head(q) = q[1]
      /\ \A j \in 1..(n - 1) : p[j] = q[j + 1]
  OBVIOUS
<1>2. /\ f \in [1..(n + 1) -> Looks] /\ f[n + 1] = Look(c)
      /\ \A j \in 1..n : Tells(f[j], q[j], f[j + 1])
      /\ \A j \in 1..(n + 1) : f[j].turn <= c.turn /\ (f[j].editing => f[j].running)
  BY DEF Trace
<1>3. clean => \A j \in 1..n : q[j].kind = "result" => ~f[j].editing
  BY DEF Clean
<1> HIDE DEF n, p
<1>4. /\ 1 \in 1..n /\ 1 \in 1..(n + 1) /\ 2 \in 1..(n + 1) /\ 1 + 1 = 2 /\ n \in 1..n
      /\ (n - 1) + 1 = n
      /\ \A j \in 1..n : j + 1 \in 1..(n + 1)
      /\ \A j \in 1..(n - 1) : j \in 1..n /\ j + 1 \in 1..n
  BY <1>1
<1>5. /\ f[1] \in Looks /\ f[2] \in Looks /\ Tells(f[1], Head(q), f[2])
      /\ f[2].turn <= c.turn /\ (clean => (Head(q).kind = "result" => ~f[1].editing))
      /\ (f[2].editing => f[2].running) /\ (f[1].editing => f[1].running)
  BY <1>1, <1>2, <1>3, <1>4
<1>6. g \in [1..n -> Looks] /\ g[n] = Look(c) /\ g[1] = f[2] /\ \A j \in 1..n : g[j] = f[j + 1]
  BY <1>2, <1>4
<1> HIDE DEF g
<1>7. Trace(g, p, c)
  <2>1. \A j \in 1..(n - 1) : Tells(g[j], p[j], g[j + 1])
    BY <1>1, <1>2, <1>4, <1>6
  <2>2. \A j \in 1..n : g[j].turn <= c.turn /\ (g[j].editing => g[j].running)
    BY <1>2, <1>4, <1>6
  <2> QED BY <1>1, <1>4, <1>6, <2>1, <2>2 DEF Trace
<1>8. clean => Clean(g, p)
  BY <1>1, <1>3, <1>4, <1>6 DEF Clean
<1> QED BY <1>5, <1>6, <1>7, <1>8 DEF p

\* The answer at p is taken from what comes before it.
LEMMA TraceCut ==
  ASSUME NEW q \in Seq(Items), NEW p \in 1..Len(q), q[p].kind \in {"answer", "refusal"},
         NEW f, NEW c, Trace(f, q, c), NEW clean \in BOOLEAN, clean => Clean(f, q)
  PROVE  \E g : Goes(g, RemoveAt(q, p), c, f, clean)
<1> DEFINE n == Len(q)
           r == RemoveAt(q, p)
           g == [j \in 1..n |-> IF j <= p THEN f[j] ELSE f[j + 1]]
<1>1. /\ n \in Nat /\ n # 0 /\ r \in Seq(Items) /\ Len(r) = n - 1
      /\ \A j \in 1..(n - 1) : r[j] = IF j < p THEN q[j] ELSE q[j + 1]
  BY RemoveAtProperties
<1>2. /\ f \in [1..(n + 1) -> Looks] /\ f[n + 1] = Look(c)
      /\ \A j \in 1..n : Tells(f[j], q[j], f[j + 1])
      /\ \A j \in 1..(n + 1) : f[j].turn <= c.turn /\ (f[j].editing => f[j].running)
  BY DEF Trace
<1>3. clean => \A j \in 1..n : q[j].kind = "result" => ~f[j].editing
  BY DEF Clean
<1>4. p \in 1..n
  OBVIOUS
<1> HIDE DEF n, r
<1>5. f[p + 1] = f[p]
  BY <1>2, <1>4 DEF Tells
<1>6. /\ 1 \in 1..n /\ n \in 1..n /\ (n - 1) + 1 = n /\ 1 <= p /\ 1 \in 1..(n + 1)
      /\ \A j \in 1..n : j \in 1..(n + 1) /\ j + 1 \in 1..(n + 1)
      /\ \A j \in 1..(n - 1) : j \in 1..n /\ j + 1 \in 1..n
  BY <1>1, <1>4
<1>7. /\ g \in [1..n -> Looks] /\ g[1] = f[1]
      /\ \A j \in 1..n : g[j] = IF j <= p THEN f[j] ELSE f[j + 1]
  BY <1>2, <1>6
<1>8. g[n] = Look(c)
  BY <1>1, <1>2, <1>4, <1>5, <1>6, <1>7
<1> HIDE DEF g
<1>9. ASSUME NEW j \in 1..(n - 1)
      PROVE  Tells(g[j], r[j], g[j + 1]) /\ (clean => (r[j].kind = "result" => ~g[j].editing))
  <2>1. CASE j < p
    <3>1. g[j] = f[j] /\ g[j + 1] = f[j + 1] /\ r[j] = q[j]
      BY <1>1, <1>4, <1>6, <1>7, <2>1
    <3> QED BY <1>2, <1>3, <1>6, <3>1
  <2>2. CASE ~(j < p)
    <3>1. g[j] = f[j + 1] /\ g[j + 1] = f[j + 1 + 1] /\ r[j] = q[j + 1]
      <4>1. g[j + 1] = f[j + 1 + 1]
        BY <1>1, <1>4, <1>6, <1>7, <2>2
      <4>2. g[j] = f[j + 1]
        BY <1>1, <1>4, <1>5, <1>6, <1>7, <2>2
      <4> QED BY <1>1, <2>2, <4>1, <4>2
    <3> QED BY <1>2, <1>3, <1>6, <3>1
  <2> QED BY <2>1, <2>2
<1>10. \A j \in 1..n : g[j].turn <= c.turn /\ (g[j].editing => g[j].running)
  BY <1>2, <1>6, <1>7
<1>11. Trace(g, r, c)
  BY <1>1, <1>6, <1>7, <1>8, <1>9, <1>10 DEF Trace
<1>12. clean => Clean(g, r)
  BY <1>1, <1>9 DEF Clean
<1> QED BY <1>7, <1>11, <1>12 DEF Goes, r

-----------------------------------------------------------------------------
(* The steps, as they keep the second invariant *)

\* What a message, an init, a settled session and a rotation make of the turns.
LEMMA WorkingEffect ==
  ASSUME NEW t \in DaemonRecord, TurnsOk(t)
  PROVE  LET u == SetWorking(t)
         IN  /\ u \in DaemonRecord /\ TurnsOk(u) /\ u.active # 0 /\ u.state = "working"
             /\ u.tasks = t.tasks /\ u.reported = t.reported /\ u.consumed = t.consumed
             /\ u.draining = t.draining /\ t.turns <= u.turns
             /\ t.active # 0 => u.active = t.active /\ u.edits = t.edits
             /\ u.active = t.active \/ u.active = t.turns + 1
             /\ \A e \in u.edits : e \in t.edits
<1> DEFINE v == BeginTurn(t)
           u == [v EXCEPT !.state = "working"]
<1>1. /\ t.turns \in Nat /\ t.active \in Nat /\ t.draining \in Nat
      /\ t.edits \in SUBSET Owners /\ SetWorking(t) \in DaemonRecord
      /\ SetWorking(t).draining = t.draining
  BY TurnSteps DEF DaemonRecord
<1>2. /\ v \in DaemonRecord /\ TurnsOk(v) /\ v.active # 0 /\ v.tasks = t.tasks
      /\ v.reported = t.reported /\ v.consumed = t.consumed /\ t.turns <= v.turns
      /\ t.active # 0 => v.active = t.active /\ v.edits = t.edits
      /\ v.active = t.active \/ v.active = t.turns + 1
      /\ \A e \in v.edits : e \in t.edits
  <2>1. CASE t.active # 0
    BY <1>1, <2>1 DEF BeginTurn
  <2>2. CASE t.active = 0
    <3> DEFINE k == t.turns + 1
               w == [t EXCEPT !.active = k, !.turns = k]
               es == IF t.draining = 0 THEN {} ELSE t.edits
    <3>1. k \in Nat /\ t.turns < k
      BY <1>1
    <3>2. v = [w EXCEPT !.edits = es]
      BY <1>1, <2>2 DEF BeginTurn, DaemonRecord
    <3>3. es \in SUBSET Owners /\ \A e \in es : e \in t.edits
      BY <1>1
    <3> HIDE DEF k, es
    <3>4. /\ w \in DaemonRecord /\ w.active = k /\ w.turns = k /\ w.draining = t.draining
          /\ w.tasks = t.tasks /\ w.reported = t.reported /\ w.consumed = t.consumed
      BY <3>1 DEF DaemonRecord
    <3> HIDE DEF w
    <3>5. /\ v \in DaemonRecord /\ v.active = k /\ v.turns = k /\ v.draining = t.draining
          /\ v.tasks = t.tasks /\ v.reported = t.reported /\ v.consumed = t.consumed
          /\ v.edits = es
      BY <3>2, <3>3, <3>4 DEF DaemonRecord
    <3> HIDE DEF v
    <3>6. TurnsOk(v)
      BY <1>1, <3>1, <3>5 DEF TurnsOk
    <3> QED BY <1>1, <2>2, <3>1, <3>3, <3>5, <3>6 DEF k
  <2> QED BY <2>1, <2>2
<1> HIDE DEF v
<1>3. /\ u.active = v.active /\ u.turns = v.turns /\ u.draining = v.draining
      /\ u.tasks = v.tasks /\ u.reported = v.reported /\ u.consumed = v.consumed
      /\ u.edits = v.edits /\ u.state = "working"
  BY <1>2 DEF DaemonRecord
<1>4. SetWorking(t) = u
  BY DEF SetWorking, v
<1> HIDE DEF u
<1>5. TurnsOk(u)
  BY <1>2, <1>3 DEF TurnsOk
<1> QED BY <1>1, <1>2, <1>3, <1>4, <1>5

\* A session that settles.
LEMMA IdleEffect ==
  ASSUME NEW t \in DaemonRecord, TurnsOk(t)
  PROVE  LET u == SetIdle(t)
         IN  /\ u \in DaemonRecord /\ TurnsOk(u) /\ u.active = 0 /\ u.state = "idle"
             /\ u.tasks = t.tasks /\ u.reported = t.reported /\ u.consumed = t.consumed
             /\ u.turns = t.turns /\ u.edits = t.edits /\ u.draining = t.draining
<1> DEFINE v == CompleteTurn(t)
           u == SetIdle(t)
<1>1. /\ v \in DaemonRecord /\ v.active = 0 /\ v.tasks = t.tasks
      /\ v.reported = t.reported /\ v.consumed = t.consumed
      /\ v.turns = t.turns /\ v.edits = t.edits /\ v.draining = t.draining
  BY DEF CompleteTurn, DaemonRecord
<1>2. u = [v EXCEPT !.state = "idle"]
  BY DEF SetIdle
<1> HIDE DEF u, v
<1>3. /\ u \in DaemonRecord /\ u.active = 0 /\ u.state = "idle" /\ u.tasks = t.tasks
      /\ u.reported = t.reported /\ u.consumed = t.consumed
      /\ u.turns = t.turns /\ u.edits = t.edits /\ u.draining = t.draining
  BY <1>1, <1>2 DEF DaemonRecord
<1>4. TurnsOk(u)
  <2>1. t.turns \in Nat /\ 0 <= t.turns
    BY DEF DaemonRecord
  <2> QED BY <1>3, <2>1 DEF TurnsOk
<1> QED BY <1>3, <1>4 DEF u

\* A turn that rotates.
LEMMA RotateEffect ==
  ASSUME NEW t \in DaemonRecord, TurnsOk(t)
  PROVE  LET u == RotateTurn(t)
         IN  /\ u \in DaemonRecord /\ TurnsOk(u) /\ u.active = t.turns + 1
             /\ u.turns = t.turns + 1 /\ u.state = t.state
             /\ u.tasks = t.tasks /\ u.reported = t.reported /\ u.consumed = t.consumed
             /\ u.edits = {} /\ u.draining = t.draining
<1> DEFINE v == CompleteTurn(t)
           k == v.turns + 1
           w == [v EXCEPT !.active = k, !.turns = k]
           x == BeginTurn(v)
           u == RotateTurn(t)
<1>0. t.turns \in Nat /\ t.draining \in Nat
  BY DEF DaemonRecord
<1>1. /\ v \in DaemonRecord /\ v.active = 0 /\ v.tasks = t.tasks /\ v.state = t.state
      /\ v.reported = t.reported /\ v.consumed = t.consumed
      /\ v.turns = t.turns /\ v.edits = t.edits /\ v.draining = t.draining
  BY DEF CompleteTurn, DaemonRecord
<1> HIDE DEF v
<1>2. k \in Nat /\ k = t.turns + 1
  BY <1>0, <1>1
<1>3. PICK es : x = [w EXCEPT !.edits = es]
  BY <1>1 DEF BeginTurn, DaemonRecord
<1> HIDE DEF k, x
<1>4. /\ w \in DaemonRecord /\ w.active = k /\ w.turns = k /\ w.tasks = t.tasks
      /\ w.state = t.state /\ w.reported = t.reported /\ w.consumed = t.consumed
      /\ w.draining = t.draining
  BY <1>1, <1>2 DEF DaemonRecord
<1> HIDE DEF w
<1>5. u = [x EXCEPT !.edits = {}]
  BY DEF RotateTurn, ResetEdits, x, v
<1>6. u = [w EXCEPT !.edits = {}]
  BY <1>3, <1>4, <1>5 DEF DaemonRecord
<1> HIDE DEF u
<1>7. /\ u \in DaemonRecord /\ u.active = k /\ u.turns = k /\ u.tasks = t.tasks
      /\ u.state = t.state /\ u.reported = t.reported /\ u.consumed = t.consumed
      /\ u.draining = t.draining /\ u.edits = {}
  BY <1>4, <1>6 DEF DaemonRecord
<1>8. TurnsOk(u)
  BY <1>0, <1>2, <1>7 DEF TurnsOk
<1> QED BY <1>2, <1>7, <1>8 DEF u

\* What an interrupt was made of stays.
LEMMA CallsStay ==
  ASSUME StdinOk, stdin' = stdin,
         \A i \in Callers : call[i].at # "none" => call'[i].at # "none"
  PROVE  StdinOk'
BY DEF StdinOk

\* A step of the daemon that leaves the stream alone.
LEMMA DaemonTold ==
  ASSUME IInv, Told, cli' = cli, stream' = stream, Bounds', Asked', StdinOk', TurnsOk(d'),
         OneResultPerTurn', EditsReported',
         Uninterrupted' => Uninterrupted,
         \A a \in Looks : Heard(a) /\ (a.editing => a.running) => Heard(a)'
  PROVE  Told'
<1>1. PICK f : Known(f)
  BY DEF Told
<1>2. stream \in Seq(Items) /\ Len(stream) \in Nat
  BY DEF IInv, Typed
<1>3. 1 \in 1..(Len(stream) + 1)
  BY <1>2
<1>4. f[1] \in Looks /\ (f[1].editing => f[1].running)
  BY <1>1, <1>3 DEF Known, Trace
<1> DEFINE a == f[1]
<1>5. Heard(a) /\ a \in Looks /\ (a.editing => a.running)
  BY <1>1, <1>4 DEF Known
<1> HIDE DEF a
<1>6. Heard(a)'
  BY <1>5
<1>7. Trace(f, stream, cli)' /\ (Uninterrupted' => Clean(f, stream)')
  BY <1>1 DEF Known
<1>8. Known(f)'
  BY <1>6, <1>7 DEF Known, a
<1> QED BY <1>8 DEF Told

\* A step of the CLI: g goes on from f.
LEMMA CliTold ==
  ASSUME Told, UNCHANGED <<d, loop, call, reemit, told, out>>, Asked', StdinOk',
         cli'.started \in 0..MaxTasks, cli'.live \in 0..cli'.started,
         NEW f, Known(f), \E g : Goes(g, stream', cli', f, Uninterrupted)
  PROVE  Told'
<1>1. PICK g : Goes(g, stream', cli', f, Uninterrupted)
  OBVIOUS
<1>2. Uninterrupted' = Uninterrupted /\ OneResultPerTurn' /\ EditsReported'
  BY DEF Told, Uninterrupted, OneResultPerTurn, EditsReported
<1>3. Bounds' /\ TurnsOk(d')
  BY DEF Told, Bounds
<1>4. Heard(f[1])'
  BY <1>2 DEF Known, Heard
<1>5. Known(g)'
  BY <1>1, <1>2, <1>4 DEF Known, Goes
<1> QED BY <1>2, <1>3, <1>5 DEF Told

\* It says something.
LEMMA SayTold ==
  ASSUME IInv, IInv', Told, UNCHANGED <<d, loop, call, reemit, told, out>>, Asked', StdinOk',
         cli'.started \in 0..MaxTasks, cli'.live \in 0..cli'.started,
         NEW e \in Items, stream' = Append(stream, e), cli.turn <= cli'.turn,
         Look(cli') \in Looks, Tells(Look(cli), e, Look(cli')),
         cli'.editing => cli'.running,
         Uninterrupted => (e.kind = "result" => ~cli.editing)
  PROVE  Told'
<1>1. PICK f : Known(f)
  BY DEF Told
<1>2. /\ stream \in Seq(Items) /\ cli.turn \in Nat /\ cli'.turn \in Nat
      /\ Uninterrupted \in BOOLEAN
  BY DEF IInv, Typed, CliRecord, Uninterrupted
<1>3. Trace(f, stream, cli) /\ (Uninterrupted => Clean(f, stream))
  BY <1>1 DEF Known
<1> DEFINE clean == Uninterrupted
           c == cli
           cc == cli'
           q == stream
<1>4. /\ q \in Seq(Items) /\ Trace(f, q, c) /\ Look(cc) \in Looks
      /\ Tells(Look(c), e, Look(cc)) /\ c.turn \in Nat /\ cc.turn \in Nat
      /\ c.turn <= cc.turn /\ (cc.editing => cc.running) /\ clean \in BOOLEAN
      /\ (clean => Clean(f, q) /\ (e.kind = "result" => ~c.editing))
  BY <1>2, <1>3
<1> HIDE DEF clean, c, cc, q
<1>5. \E g : Goes(g, Append(q, e), cc, f, clean)
  BY <1>4, TraceAppend
<1>6. \E g : Goes(g, stream', cli', f, Uninterrupted)
  BY <1>5 DEF clean, cc, q
<1> QED BY <1>1, <1>6, CliTold

\* What it does, it does quietly.
LEMMA QuietTold ==
  ASSUME IInv, Told, UNCHANGED <<d, loop, call, reemit, told, out>>, Asked', StdinOk',
         cli'.started = cli.started, cli'.live = cli.live, stream' = stream,
         Look(cli') = Look(cli)
  PROVE  Told'
<1>1. PICK f : Known(f)
  BY DEF Told
<1>2. cli'.turn = cli.turn
  BY DEF Look
<1>3. Trace(f, stream', cli') /\ (Uninterrupted => Clean(f, stream'))
  BY <1>1, <1>2 DEF Known, Trace
<1>4. Goes(f, stream', cli', f, Uninterrupted)
  BY <1>3 DEF Goes
<1>5. cli'.started \in 0..MaxTasks /\ cli'.live \in 0..cli'.started
  BY DEF Told, Bounds
<1> QED BY <1>1, <1>4, <1>5, CliTold

\* What is read from stdin was asked.
LEMMA StdinRead ==
  ASSUME IInv, Told, stdin # <<>>, stdin' = Tail(stdin), UNCHANGED call
  PROVE  /\ Asked' /\ StdinOk' /\ Head(stdin) \in Callers \union {Prompt}
         /\ Head(stdin) \in Callers => ~Uninterrupted
<1>1. /\ stdin \in Seq(Callers \union {Prompt}) /\ Len(stdin) \in Nat /\ Len(stdin) # 0
      /\ \A j \in 1..Len(stdin) : stdin[j] \in Callers => call[stdin[j]].at # "none"
  BY DEF Told, Asked, StdinOk
<1>2. /\ Tail(stdin) \in Seq(Callers \union {Prompt}) /\ Len(Tail(stdin)) = Len(stdin) - 1
      /\ \A j \in 1..(Len(stdin) - 1) : Tail(stdin)[j] = stdin[j + 1]
      /\ Head(stdin) = stdin[1] /\ 1 \in 1..Len(stdin)
  BY <1>1
<1>3. \A j \in 1..(Len(stdin) - 1) : j + 1 \in 1..Len(stdin)
  BY <1>1
<1>4. StdinOk'
  BY <1>1, <1>2, <1>3 DEF StdinOk
<1>5. Head(stdin) \in Callers => ~Uninterrupted
  BY <1>1, <1>2 DEF Uninterrupted
<1>6. Head(stdin) \in Callers \union {Prompt}
  BY <1>1, <1>2
<1> QED BY <1>2, <1>4, <1>5, <1>6 DEF Asked

\* The CLI as its stream ends.
LEMMA CliLooks ==
  ASSUME IInv, Told
  PROVE  /\ cli \in CliRecord /\ stream \in Seq(Items) /\ Look(cli) \in Looks
         /\ cli.running \in BOOLEAN /\ cli.editing \in BOOLEAN /\ cli.turn \in Nat
         /\ cli.live \in Nat /\ cli.started \in Nat /\ cli.live <= cli.started
         /\ cli.started <= MaxTasks /\ (cli.editing => cli.running)
<1>1. cli \in CliRecord /\ stream \in Seq(Items)
  BY DEF IInv, Typed
<1>2. /\ cli.running \in BOOLEAN /\ cli.editing \in BOOLEAN /\ cli.turn \in Nat
      /\ cli.live \in Nat /\ cli.started \in Nat /\ cli.live <= cli.started
      /\ cli.started <= MaxTasks
  BY <1>1, TurnsAssumption DEF CliRecord, Told, Bounds
<1>3. Look(cli) \in Looks
  BY <1>2, TurnsAssumption DEF Look, Looks
<1>4. PICK f : Trace(f, stream, cli)
  BY DEF Told, Known
<1>5. cli.editing => cli.running
  <2>1. Len(stream) + 1 \in 1..(Len(stream) + 1)
    BY <1>1
  <2> QED BY <1>4, <2>1 DEF Trace, Look
<1> QED BY <1>1, <1>2, <1>3, <1>5

\* A turn opens.
LEMMA InitTold ==
  ASSUME IInv, IInv', Told, UNCHANGED <<d, loop, call, reemit, told, out>>, Asked', StdinOk',
         ~cli.running, stream' = Append(stream, Item("init", cli'.turn)),
         cli'.running, cli'.turn = cli.turn + 1, cli'.editing = cli.editing,
         cli'.live = cli.live, cli'.started = cli.started
  PROVE  Told'
<1> DEFINE e == Item("init", cli'.turn)
<1>1. /\ cli' \in CliRecord /\ cli.turn + 1 \in Nat /\ cli'.turn \in Owners
      /\ cli.turn <= cli.turn + 1
  BY CliLooks DEF IInv, Typed, CliRecord, Owners
<1>2. e \in Items /\ e.kind = "init"
  BY <1>1, ItemTyped DEF Kinds, Item
<1> HIDE DEF e
<1>3. cli'.running \in BOOLEAN /\ ~cli.editing /\ ~cli'.editing
  BY <1>1, CliLooks DEF CliRecord
<1>4. /\ cli'.started \in 0..MaxTasks /\ cli'.live \in 0..cli'.started
      /\ cli'.live \in 0..MaxTasks
  BY CliLooks, TurnsAssumption
<1>5. Look(cli') \in Looks /\ Tells(Look(cli), e, Look(cli'))
  <2>1. Look(cli') \in Looks
    BY <1>1, <1>3, <1>4, CliLooks DEF Look, Looks
  <2>2. Tells(Look(cli), e, Look(cli'))
    BY <1>2, <1>3 DEF Tells, Look
  <2> QED BY <2>1, <2>2
<1>6. stream' = Append(stream, e)
  BY DEF e
<1> QED BY <1>1, <1>2, <1>3, <1>4, <1>5, <1>6, SayTold

\* The CLI's steps.
LEMMA CliReadsTold ==
  ASSUME IInv, IInv', Told, CliReadsPrompt \/ CliReadsInterrupt
  PROVE  Told'
<1>1. /\ UNCHANGED <<d, loop, call, reemit, told, out>>
      /\ stdin # <<>> /\ stdin' = Tail(stdin)
  BY DEF CliReadsPrompt, CliReadsInterrupt, CliUntouched
<1>2. /\ Asked' /\ StdinOk' /\ Head(stdin) \in Callers \union {Prompt}
      /\ Head(stdin) \in Callers => ~Uninterrupted
  BY <1>1, StdinRead
<1>3. /\ cli \in CliRecord /\ stream \in Seq(Items) /\ Look(cli) \in Looks
      /\ cli.running \in BOOLEAN /\ cli.editing \in BOOLEAN /\ cli.turn \in Nat
      /\ cli.live \in Nat /\ cli.started \in Nat /\ cli.live <= cli.started
      /\ cli.started <= MaxTasks /\ (cli.editing => cli.running)
  BY CliLooks
<1>4. CASE CliReadsPrompt
  <2>1. CASE cli.running
    <3>1. cli' = [cli EXCEPT !.waiting = @ + 1] /\ stream' = stream
      BY <1>4, <2>1 DEF CliReadsPrompt
    <3>2. cli'.started = cli.started /\ cli'.live = cli.live /\ Look(cli') = Look(cli)
      BY <1>3, <3>1 DEF CliRecord, Look
    <3> QED BY <1>1, <1>2, <3>1, <3>2, QuietTold
  <2>2. CASE ~cli.running
    <3>1. cli' = Opens(cli) /\ stream' = Append(stream, Item("init", cli'.turn))
      BY <1>4, <2>2 DEF CliReadsPrompt
    <3>2. /\ cli'.running /\ cli'.turn = cli.turn + 1 /\ cli'.editing = cli.editing
          /\ cli'.live = cli.live /\ cli'.started = cli.started
      BY <1>3, <3>1 DEF Opens, CliRecord
    <3> QED BY <1>1, <1>2, <2>2, <3>1, <3>2, InitTold
  <2> QED BY <2>1, <2>2
<1>5. CASE CliReadsInterrupt
  <2> DEFINE i == Head(stdin)
             answer == Item("answer", i)
             refusal == Item("refusal", i)
             r == Item("result", cli.turn)
  <2>1. i \in Callers /\ i \in Owners /\ cli.turn \in Owners
    BY <1>3, <1>5, TurnsAssumption DEF CliReadsInterrupt, Owners
  <2>2. /\ answer \in Items /\ answer.kind = "answer"
        /\ refusal \in Items /\ refusal.kind = "refusal"
        /\ r \in Items /\ r.kind = "result"
    BY <2>1, ItemTyped DEF Kinds, Item
  <2>3. \/ /\ cli' = [cli EXCEPT !.running = FALSE, !.editing = FALSE]
           /\ stream' = (IF cli.running THEN Append(stream, r) ELSE stream) \o <<answer>>
        \/ stream' = Append(stream, refusal) /\ cli' = cli
    BY <1>5 DEF CliReadsInterrupt, Say
  <2>4. ~Uninterrupted
    BY <1>2, <2>1
  <2> HIDE DEF answer, refusal, r
  <2>5. CASE stream' = Append(stream, refusal) /\ cli' = cli
    <3>1. Tells(Look(cli), refusal, Look(cli'))
      BY <2>2, <2>5 DEF Tells
    <3>2. /\ cli'.started \in 0..MaxTasks /\ cli'.live \in 0..cli'.started
          /\ cli.turn <= cli'.turn /\ Look(cli') \in Looks
      BY <1>3, <2>5, TurnsAssumption
    <3> QED BY <1>1, <1>2, <1>3, <2>2, <2>4, <2>5, <3>1, <3>2, SayTold
  <2>6. CASE /\ cli' = [cli EXCEPT !.running = FALSE, !.editing = FALSE]
             /\ stream' = (IF cli.running THEN Append(stream, r) ELSE stream) \o <<answer>>
    <3>1. /\ ~cli'.running /\ ~cli'.editing /\ cli'.turn = cli.turn
          /\ cli'.live = cli.live /\ cli'.started = cli.started
          /\ cli'.running \in BOOLEAN /\ cli'.editing \in BOOLEAN
      BY <1>3, <2>6 DEF CliRecord
    <3>2. /\ cli'.started \in 0..MaxTasks /\ cli'.live \in 0..cli'.started
          /\ cli.turn <= cli'.turn /\ Look(cli') \in Looks
      BY <1>3, <3>1, TurnsAssumption DEF Look, Looks
    <3>3. Tells(Look(cli'), answer, Look(cli'))
      BY <2>2 DEF Tells
    <3>4. CASE ~cli.running
      <4>1. Look(cli') = Look(cli)
        <5>1. cli.running = FALSE /\ cli.editing = FALSE
          BY <1>3, <3>4
        <5> QED BY <3>1, <5>1 DEF Look
      <4>2. stream' = Append(stream, answer)
        BY <1>3, <2>2, <2>6, <3>4
      <4> QED BY <1>1, <1>2, <1>3, <2>2, <2>4, <3>1, <3>2, <3>3, <4>1, <4>2, SayTold
    <3>5. CASE cli.running
      <4> DEFINE q == Append(stream, r)
                 clean == FALSE
                 c == cli'
      <4>1. Tells(Look(cli), r, Look(c))
        BY <2>2, <3>1, <3>5 DEF Tells, Look
      <4>2. q \in Seq(Items) /\ stream' = Append(q, answer)
        BY <1>3, <2>2, <2>6, <3>5
      <4>3. PICK f : Known(f)
        BY DEF Told
      <4>4. Trace(f, stream, cli) /\ clean \in BOOLEAN /\ ~clean
        BY <4>3 DEF Known
      <4>5. c.turn \in Nat /\ cli.turn <= c.turn /\ (c.editing => c.running) /\ Look(c) \in Looks
        BY <1>3, <3>1, <3>2
      <4>50. Tells(Look(c), answer, Look(c)) /\ c.turn <= c.turn
        BY <3>3, <4>5
      <4> HIDE DEF q, clean, c
      <4>6. PICK g : Goes(g, q, c, f, clean)
        BY <1>3, <2>2, <4>1, <4>4, <4>5, TraceAppend DEF q
      <4>7. Trace(g, q, c) /\ g[1] = f[1]
        BY <4>6 DEF Goes
      <4>8. PICK h : Goes(h, Append(q, answer), c, g, clean)
        BY <2>2, <4>2, <4>4, <4>5, <4>50, <4>7, TraceAppend
      <4>9. Goes(h, stream', cli', f, Uninterrupted)
        BY <2>4, <4>2, <4>7, <4>8 DEF Goes, c
      <4> QED BY <1>1, <1>2, <3>2, <4>3, <4>9, CliTold
    <3> QED BY <3>4, <3>5
  <2> QED BY <2>3, <2>5, <2>6
<1> QED BY <1>4, <1>5

\* What the CLI does without reading: each item it writes extends the trace by one
\* look, and a result of its own waits for the edit it would cut short.
LEMMA CliTurnTold ==
  ASSUME IInv, IInv', Told,
         \/ CliStarts \/ CliSteers \/ CliEdits \/ CliEdited \/ CliResult
         \/ CliTaskStarts \/ CliTaskSettles
  PROVE  Told'
<1>1. UNCHANGED <<d, loop, call, reemit, told, out>> /\ stdin' = stdin
  BY DEF CliStarts, CliSteers, CliEdits, CliEdited, CliResult, CliTaskStarts,
         CliTaskSettles, CliUntouched
<1>2. Asked' /\ StdinOk'
  BY <1>1, CallsStay DEF Told, Asked
<1>3. /\ cli \in CliRecord /\ stream \in Seq(Items) /\ Look(cli) \in Looks
      /\ cli.running \in BOOLEAN /\ cli.editing \in BOOLEAN /\ cli.turn \in Nat
      /\ cli.live \in Nat /\ cli.started \in Nat /\ cli.live <= cli.started
      /\ cli.started <= MaxTasks /\ (cli.editing => cli.running)
  BY CliLooks
<1>4. \A k \in Kinds : Item(k, cli.turn) \in Items /\ Item(k, cli.turn).kind = k
                       /\ Item(k, cli.turn).turn = cli.turn
  BY <1>3, ItemTyped DEF Item, Owners
<1>5. CASE CliStarts
  <2>1. /\ cli'.running /\ cli'.turn = cli.turn + 1 /\ cli'.editing = cli.editing
        /\ cli'.live = cli.live /\ cli'.started = cli.started
    <3> DEFINE c == Opens(cli)
    <3>1. /\ c \in CliRecord /\ c.running /\ c.turn = cli.turn + 1
          /\ c.editing = cli.editing /\ c.live = cli.live /\ c.started = cli.started
      BY <1>3, OpensTyped DEF Opens, CliRecord
    <3>2. PICK n : cli' = [c EXCEPT !.waiting = n]
      BY <1>5 DEF CliStarts
    <3> HIDE DEF c
    <3> QED BY <3>1, <3>2 DEF CliRecord
  <2>2. ~cli.running /\ stream' = Append(stream, Item("init", cli'.turn))
    BY <1>5 DEF CliStarts
  <2> QED BY <1>1, <1>2, <2>1, <2>2, InitTold
<1>6. CASE CliSteers
  <2>1. cli'.started = cli.started /\ cli'.live = cli.live /\ Look(cli') = Look(cli)
        /\ stream' = stream
    BY <1>3, <1>6 DEF CliSteers, CliRecord, Look
  <2> QED BY <1>1, <1>2, <2>1, QuietTold
<1>7. ASSUME NEW k \in Kinds, stream' = Append(stream, Item(k, cli.turn)),
             cli'.turn = cli.turn, cli'.started \in 0..MaxTasks,
             cli'.live \in 0..cli'.started,
             cli'.running \in BOOLEAN, cli'.editing \in BOOLEAN,
             cli'.editing => cli'.running, k = "result" => ~cli.editing,
             Tells(Look(cli), Item(k, cli.turn), Look(cli'))
      PROVE  Told'
  <2> DEFINE e == Item(k, cli.turn)
  <2>1. e \in Items /\ e.kind = k
    BY <1>4
  <2> HIDE DEF e
  <2>2. cli'.live \in 0..MaxTasks
    BY <1>7, TurnsAssumption
  <2>3. Look(cli') \in Looks /\ cli.turn <= cli'.turn
    BY <1>3, <1>7, <2>2 DEF Look, Looks
  <2>4. stream' = Append(stream, e) /\ Tells(Look(cli), e, Look(cli'))
    BY <1>7 DEF e
  <2> QED BY <1>1, <1>2, <1>7, <2>1, <2>3, <2>4, SayTold
<1>8. CASE CliEdits
  <2> DEFINE k == "edit"
             e == Item(k, cli.turn)
  <2>1. /\ cli.running /\ ~cli.editing /\ stream' = Append(stream, e)
        /\ cli' = [cli EXCEPT !.editing = TRUE, !.edited = cli.turn]
    BY <1>8 DEF CliEdits, Say
  <2>2. /\ cli'.running = cli.running /\ cli'.editing = TRUE /\ cli'.turn = cli.turn
        /\ cli'.live = cli.live /\ cli'.started = cli.started
    BY <1>3, <2>1 DEF CliRecord
  <2>3. k \in Kinds /\ e.kind = k /\ e.turn = cli.turn /\ k # "result"
    BY <1>4 DEF Kinds
  <2> HIDE DEF e
  <2>4. Tells(Look(cli), e, Look(cli'))
    BY <2>1, <2>2, <2>3 DEF Tells, Look
  <2>5. cli'.started \in 0..MaxTasks /\ cli'.live \in 0..cli'.started
    BY <1>3, <2>2, TurnsAssumption
  <2> HIDE DEF k
  <2> QED BY <1>3, <1>7, <2>1, <2>2, <2>3, <2>4, <2>5 DEF e
<1>9. CASE CliEdited
  <2> DEFINE k == "edited"
             e == Item(k, cli.turn)
  <2>1. /\ cli.running /\ cli.editing /\ stream' = Append(stream, e)
        /\ cli' = [cli EXCEPT !.editing = FALSE]
    BY <1>9 DEF CliEdited, Say
  <2>2. /\ cli'.running = cli.running /\ cli'.editing = FALSE /\ cli'.turn = cli.turn
        /\ cli'.live = cli.live /\ cli'.started = cli.started
    BY <1>3, <2>1 DEF CliRecord
  <2>3. k \in Kinds /\ e.kind = k /\ e.turn = cli.turn /\ k # "result"
    BY <1>4 DEF Kinds
  <2> HIDE DEF e
  <2>4. Tells(Look(cli), e, Look(cli'))
    BY <2>1, <2>2, <2>3 DEF Tells, Look
  <2>5. cli'.started \in 0..MaxTasks /\ cli'.live \in 0..cli'.started
    BY <1>3, <2>2, TurnsAssumption
  <2> HIDE DEF k
  <2> QED BY <1>3, <1>7, <2>1, <2>2, <2>3, <2>4, <2>5 DEF e
<1>10. CASE CliResult
  <2> DEFINE k == "result"
             e == Item(k, cli.turn)
  <2>1. /\ cli.running /\ ~cli.editing /\ stream' = Append(stream, e)
        /\ cli' = [cli EXCEPT !.running = FALSE]
    BY <1>10 DEF CliResult, Say
  <2>2. /\ cli'.running = FALSE /\ cli'.editing = cli.editing /\ cli'.turn = cli.turn
        /\ cli'.live = cli.live /\ cli'.started = cli.started
    BY <1>3, <2>1 DEF CliRecord
  <2>3. k \in Kinds /\ e.kind = k /\ e.turn = cli.turn
    BY <1>4 DEF Kinds
  <2> HIDE DEF e
  <2>4. Tells(Look(cli), e, Look(cli'))
    BY <2>1, <2>2, <2>3 DEF Tells, Look
  <2>5. cli'.started \in 0..MaxTasks /\ cli'.live \in 0..cli'.started
    BY <1>3, <2>2, TurnsAssumption
  <2> HIDE DEF k
  <2> QED BY <1>3, <1>7, <2>1, <2>2, <2>3, <2>4, <2>5 DEF e
<1>11. CASE CliTaskStarts
  <2> DEFINE k == "task"
             e == Item(k, cli.turn)
  <2>1. /\ cli.started < MaxTasks /\ stream' = Append(stream, e)
        /\ cli' = [cli EXCEPT !.started = @ + 1, !.live = @ + 1]
    BY <1>11 DEF CliTaskStarts, Say
  <2>2. /\ cli'.running = cli.running /\ cli'.editing = cli.editing
        /\ cli'.turn = cli.turn /\ cli'.live = cli.live + 1
        /\ cli'.started = cli.started + 1
    BY <1>3, <2>1 DEF CliRecord
  <2>3. k \in Kinds /\ e.kind = k /\ k # "result"
    BY <1>4 DEF Kinds
  <2> HIDE DEF e
  <2>4. Look(cli') = [Look(cli) EXCEPT !.live = Look(cli).live + 1]
    BY <2>2 DEF Look
  <2>5. Tells(Look(cli), e, Look(cli'))
    BY <2>3, <2>4 DEF Tells
  <2>6. cli'.started \in 0..MaxTasks /\ cli'.live \in 0..cli'.started
    BY <1>3, <2>1, <2>2, TurnsAssumption
  <2> HIDE DEF k
  <2> QED BY <1>3, <1>7, <2>1, <2>2, <2>3, <2>5, <2>6 DEF e
<1>12. CASE CliTaskSettles
  <2> DEFINE k == "notice"
             e == Item(k, cli.turn)
  <2>1. PICK w \in {0, 1} : cli' = [cli EXCEPT !.live = @ - 1, !.notices = @ + w]
    BY <1>12 DEF CliTaskSettles
  <2>2. /\ cli'.running = cli.running /\ cli'.editing = cli.editing
        /\ cli'.turn = cli.turn /\ cli'.live = cli.live - 1
        /\ cli'.started = cli.started
    BY <1>3, <2>1 DEF CliRecord
  <2>3. k \in Kinds /\ e.kind = k /\ k # "result"
    BY <1>4 DEF Kinds
  <2>4. cli.live > 0 /\ stream' = Append(stream, e)
    BY <1>12 DEF CliTaskSettles, Say
  <2> HIDE DEF e
  <2>5. Look(cli') = [Look(cli) EXCEPT !.live = Look(cli).live - 1]
    BY <2>2 DEF Look
  <2>6. Tells(Look(cli), e, Look(cli'))
    BY <2>3, <2>5 DEF Tells
  <2>7. cli'.started \in 0..MaxTasks /\ cli'.live \in 0..cli'.started
    BY <1>3, <2>2, <2>4, TurnsAssumption
  <2> HIDE DEF k
  <2> QED BY <1>3, <1>7, <2>2, <2>3, <2>4, <2>6, <2>7 DEF e
<1> QED BY <1>5, <1>6, <1>8, <1>9, <1>10, <1>11, <1>12

\* A message opens or steers a turn: no turn that has had its result is taken for it.
LEMMA MessageTold == ASSUME IInv, Told, Message PROVE Told'
<1> DEFINE u == SetWorking(d)
<1>1. /\ d \in DaemonRecord /\ d.turns \in Nat /\ d.active \in Nat /\ d.consumed \in Nat
      /\ TurnsOk(d)
  BY DEF IInv, Typed, DaemonRecord, Told
<1>2. /\ u \in DaemonRecord /\ TurnsOk(u) /\ u.active # 0 /\ u.state = "working"
      /\ u.tasks = d.tasks /\ u.reported = d.reported /\ u.consumed = d.consumed
      /\ u.draining = d.draining /\ d.turns <= u.turns
      /\ (d.active # 0 => u.active = d.active /\ u.edits = d.edits)
      /\ (u.active = d.active \/ u.active = d.turns + 1)
      /\ \A e \in u.edits : e \in d.edits
  BY <1>1, WorkingEffect
<1>3. /\ d.consumed < MaxMessages /\ d' = [u EXCEPT !.consumed = @ + 1]
      /\ reemit' = FALSE /\ stdin' = Append(stdin, Prompt)
      /\ loop' = loop /\ call' = call /\ told' = told /\ cli' = cli /\ stream' = stream
      /\ out' = out
  BY DEF Message, Pumped
<1> HIDE DEF u
<1>4. /\ d'.active = u.active /\ d'.state = "working" /\ d'.tasks = d.tasks
      /\ d'.reported = d.reported /\ d'.draining = d.draining /\ d'.turns = u.turns
      /\ d'.edits = u.edits /\ d'.consumed = d.consumed + 1
      /\ u.turns \in Nat
  BY <1>2, <1>3 DEF DaemonRecord
<1>5. TurnsOk(d')
  BY <1>2, <1>4 DEF TurnsOk
<1>6. Uninterrupted' = Uninterrupted
  BY <1>3 DEF Uninterrupted
<1>7. Bounds'
  <2>1. d'.consumed <= MaxMessages
    BY <1>1, <1>3, <1>4, TurnsAssumption
  <2> QED BY <1>3, <2>1 DEF Told, Bounds
<1>8. Asked' /\ StdinOk'
  <2>1. /\ stdin \in Seq(Callers \union {Prompt}) /\ Prompt \in Callers \union {Prompt}
        /\ \A j \in 1..Len(stdin) : stdin[j] \in Callers => call[stdin[j]].at # "none"
    BY DEF Told, Asked, StdinOk
  <2>2. /\ stdin' \in Seq(Callers \union {Prompt}) /\ Len(stdin') = Len(stdin) + 1
        /\ \A j \in 1..(Len(stdin) + 1) : j = Len(stdin) + 1 \/ j \in 1..Len(stdin)
        /\ stdin'[Len(stdin) + 1] = Prompt
        /\ \A j \in 1..Len(stdin) : stdin'[j] = stdin[j]
    BY <1>3, <2>1
  <2> QED BY <1>3, <2>1, <2>2, TurnsAssumption DEF Asked, StdinOk
<1>9. OneResultPerTurn' /\ EditsReported'
  BY <1>3, <1>4, <1>6 DEF Told, OneResultPerTurn, EditsReported
<1>10. ASSUME NEW a \in Looks, Heard(a), a.editing => a.running PROVE Heard(a)'
  <2>1. d'.tasks = a.live /\ \A t \in d'.edits : t \in 0..a.turn
    BY <1>2, <1>4, <1>10 DEF Heard
  <2>2. ASSUME Uninterrupted
        PROVE  /\ d'.draining = 0 /\ (d'.state = "idle" <=> d'.active = 0)
               /\ (a.running => d'.active # 0 /\ loop'.at = "reading")
               /\ (loop'.at = "syncing" => d'.active # 0 /\ loop'.item.kind = "result")
               /\ (a.editing => a.turn \in d'.edits)
    BY <1>2, <1>3, <1>4, <1>10, <2>2 DEF Heard
  <2>3. ASSUME Uninterrupted, NEW o \in out', o.kind = "result"
        PROVE  o.stamp \in 1..d'.turns /\ o.stamp # d'.active
    <3>1. o.stamp \in 1..d.turns /\ o.stamp # d.active
      BY <1>3, <1>10, <2>3 DEF Heard
    <3> QED BY <1>1, <1>2, <1>4, <3>1
  <2> QED BY <1>6, <2>1, <2>2, <2>3 DEF Heard
<1> QED BY <1>3, <1>5, <1>6, <1>7, <1>8, <1>9, <1>10, DaemonTold

\* What the run loop reads, it has heard of; a result awaits its sync under the turn.
LEMMA ReadTold == ASSUME IInv, Told, LoopReads PROVE Told'
<1> DEFINE item == Head(stream)
<1>1. /\ d \in DaemonRecord /\ d.turns \in Nat /\ d.active \in Nat /\ d.consumed \in Nat
      /\ d.tasks \in Int /\ d.owed \in Nat /\ TurnsOk(d)
      /\ stream \in Seq(Items) /\ stream # <<>>
  BY DEF IInv, Typed, DaemonRecord, Told, LoopReads
<1>2. PICK f : Known(f)
  BY DEF Told
<1> DEFINE a == f[1]
           e == f[2]
           clean == Uninterrupted
<1>3. /\ a \in Looks /\ e \in Looks /\ Tells(a, item, e) /\ e.turn <= cli.turn
      /\ (Uninterrupted => (item.kind = "result" => ~a.editing))
      /\ (a.editing => a.running) /\ (e.editing => e.running) /\ Heard(a)
      /\ \E g : g[1] = e /\ Trace(g, Tail(stream), cli)
                /\ (Uninterrupted => Clean(g, Tail(stream)))
  <2>1. Trace(f, stream, cli) /\ clean \in BOOLEAN /\ (clean => Clean(f, stream))
    BY <1>2 DEF Known, Uninterrupted
  <2> HIDE DEF clean
  <2>2. /\ f[1] \in Looks /\ f[2] \in Looks /\ Tells(f[1], Head(stream), f[2])
        /\ f[2].turn <= cli.turn /\ (clean => (Head(stream).kind = "result" => ~f[1].editing))
        /\ (f[2].editing => f[2].running) /\ (f[1].editing => f[1].running)
        /\ \E g : g[1] = f[2] /\ Trace(g, Tail(stream), cli) /\ (clean => Clean(g, Tail(stream)))
    BY <1>1, <2>1, TraceTail
  <2>3. Heard(f[1])
    BY <1>2 DEF Known
  <2> QED BY <2>2, <2>3 DEF clean
<1>4. PICK g : /\ g[1] = e /\ Trace(g, Tail(stream), cli)
               /\ (Uninterrupted => Clean(g, Tail(stream)))
  BY <1>3
<1>5. /\ stream' = Tail(stream) /\ call' = call /\ told' = told /\ cli' = cli /\ stdin' = stdin
      /\ loop.at = "reading" /\ Uninterrupted' = Uninterrupted
  BY DEF LoopReads, Uninterrupted
<1> HIDE DEF a, e
<1>6. /\ a.running \in BOOLEAN /\ a.editing \in BOOLEAN /\ a.turn \in Nat /\ a.live \in 0..MaxTasks
      /\ e.running \in BOOLEAN /\ e.editing \in BOOLEAN /\ e.turn \in Nat /\ e.live \in 0..MaxTasks
  BY <1>3, LooksTyped
<1>7. ASSUME Heard(e)', TurnsOk(d'), d'.consumed = d.consumed, reemit' \in BOOLEAN,
             OneResultPerTurn', EditsReported'
      PROVE  Told'
  <2>1. Known(g)'
    BY <1>4, <1>5, <1>7 DEF Known
  <2>2. Bounds'
    BY <1>5, <1>7 DEF Told, Bounds
  <2>3. Asked' /\ StdinOk'
    BY <1>5, CallsStay DEF Told, Asked
  <2> QED BY <1>7, <2>1, <2>2, <2>3 DEF Told
<1> HIDE DEF item
<1>9. CASE item.kind = "result" /\ loop' = [at |-> "syncing", item |-> item, before |-> d.consumed]
           /\ UNCHANGED <<d, reemit, out>>
  <2>1. Heard(e)'
    <3>1. a.running /\ ~e.running /\ ~e.editing /\ e.turn = a.turn /\ e.live = a.live
      BY <1>3, <1>9 DEF Tells
    <3>2. loop'.at = "syncing" /\ loop'.item = item
      BY <1>9
    <3> QED BY <1>3, <1>5, <1>9, <3>1, <3>2 DEF Heard
  <2>2. OneResultPerTurn' /\ EditsReported' /\ TurnsOk(d') /\ d'.consumed = d.consumed
        /\ reemit' \in BOOLEAN
    BY <1>5, <1>9 DEF Told, Bounds, OneResultPerTurn, EditsReported
  <2> QED BY <1>7, <2>1, <2>2
<1>10. CASE item.kind = "init" /\ OnInit /\ loop' = loop /\ Emitted(d', item)
  <2>1. /\ ~a.running /\ ~a.editing /\ e.running /\ ~e.editing
        /\ e.turn = a.turn + 1 /\ e.live = a.live
    BY <1>3, <1>10 DEF Tells
  <2>2. \A o \in out' : o \in out \/ o.kind = "init"
    BY <1>10 DEF Emitted
  <2> DEFINE u == SetWorking(d)
  <2>3. /\ u \in DaemonRecord /\ TurnsOk(u) /\ u.active # 0 /\ u.state = "working"
        /\ u.tasks = d.tasks /\ u.reported = d.reported /\ u.consumed = d.consumed
        /\ u.draining = d.draining /\ d.turns <= u.turns
        /\ (u.active = d.active \/ u.active = d.turns + 1)
        /\ \A x \in u.edits : x \in d.edits
    BY <1>1, WorkingEffect
  <2>4. \/ /\ d.state # "idle" \/ d.draining # 0
           /\ d' = [d EXCEPT !.owed = 0] /\ reemit' = reemit
        \/ d' = [u EXCEPT !.owed = 0] /\ reemit' = FALSE
    BY <1>10 DEF OnInit
  <2> HIDE DEF u
  <2>5. /\ TurnsOk(d') /\ d'.tasks = d.tasks /\ d'.reported = d.reported
        /\ d'.consumed = d.consumed /\ d'.draining = d.draining
        /\ d.turns <= d'.turns /\ d'.turns \in Nat
        /\ (d'.active = d.active \/ d'.active = d.turns + 1)
        /\ \A x \in d'.edits : x \in d.edits
        /\ \/ d'.active # 0 /\ d'.state = "working"
           \/ /\ d.state # "idle" \/ d.draining # 0
              /\ d'.active = d.active /\ d'.state = d.state
    <3>1. CASE d' = [d EXCEPT !.owed = 0] /\ (d.state # "idle" \/ d.draining # 0)
      <4>1. /\ d'.active = d.active /\ d'.state = d.state /\ d'.tasks = d.tasks
            /\ d'.reported = d.reported /\ d'.draining = d.draining /\ d'.turns = d.turns
            /\ d'.edits = d.edits /\ d'.consumed = d.consumed
        BY <1>1, <3>1 DEF DaemonRecord
      <4> QED BY <1>1, <3>1, <4>1 DEF TurnsOk
    <3>2. CASE d' = [u EXCEPT !.owed = 0]
      <4>1. /\ d'.active = u.active /\ d'.state = u.state /\ d'.tasks = u.tasks
            /\ d'.reported = u.reported /\ d'.draining = u.draining /\ d'.turns = u.turns
            /\ d'.edits = u.edits /\ d'.consumed = u.consumed /\ u.turns \in Nat
        BY <2>3, <3>2 DEF DaemonRecord
      <4> QED BY <1>1, <2>3, <4>1 DEF TurnsOk
    <3> QED BY <2>4, <3>1, <3>2
  <2>6. Heard(e)'
    <3>1. d'.tasks = e.live /\ \A t \in d'.edits : t \in 0..e.turn
      BY <1>3, <1>6, <2>1, <2>5 DEF Heard
    <3>2. ASSUME Uninterrupted
          PROVE  /\ d'.draining = 0 /\ (d'.state = "idle" <=> d'.active = 0)
                 /\ d'.active # 0 /\ loop'.at = "reading"
      BY <1>3, <1>5, <1>10, <2>5, <3>2 DEF Heard
    <3>3. ASSUME Uninterrupted, NEW o \in out', o.kind = "result"
          PROVE  o.stamp \in 1..d'.turns /\ o.stamp # d'.active
      <4>1. o.stamp \in 1..d.turns /\ o.stamp # d.active
        BY <1>3, <2>2, <3>3 DEF Heard
      <4> QED BY <1>1, <2>5, <4>1
    <3> QED BY <1>5, <2>1, <3>1, <3>2, <3>3 DEF Heard
  <2>7. OneResultPerTurn' /\ EditsReported'
    <3>1. \A o \in out' : o.kind \in {"result", "edited"} => o \in out
      BY <2>2
    <3> QED BY <1>5, <2>5, <3>1 DEF Told, OneResultPerTurn, EditsReported
  <2>8. reemit' \in BOOLEAN
    BY <2>4 DEF Told, Bounds
  <2> QED BY <1>7, <2>5, <2>6, <2>7, <2>8
<1>11. ASSUME item.kind \in {"task", "notice"}, loop' = loop, out' = out,
              reemit' \in BOOLEAN, NEW n \in Nat, d' = [d EXCEPT !.owed = n, !.tasks = e.live],
              e.running = a.running, e.editing = a.editing, e.turn = a.turn
       PROVE  Told'
  <2>0. e.live \in Int
    BY <1>6, TurnsAssumption
  <2>1. /\ d'.active = d.active /\ d'.state = d.state /\ d'.tasks = e.live
        /\ d'.reported = d.reported /\ d'.draining = d.draining /\ d'.turns = d.turns
        /\ d'.edits = d.edits /\ d'.consumed = d.consumed
    BY <1>1, <1>11, <2>0 DEF DaemonRecord
  <2>2. TurnsOk(d')
    BY <1>1, <2>1 DEF TurnsOk
  <2>3. Heard(e)'
    BY <1>3, <1>5, <1>11, <2>1 DEF Heard
  <2>4. OneResultPerTurn' /\ EditsReported'
    BY <1>5, <1>11, <2>1 DEF Told, OneResultPerTurn, EditsReported
  <2> QED BY <1>7, <1>11, <2>1, <2>2, <2>3, <2>4
<1>12. CASE item.kind = "task" /\ OnTask /\ loop' = loop /\ out' = out
  <2>1. e = [a EXCEPT !.live = a.live + 1]
    BY <1>3, <1>12 DEF Tells
  <2>2. /\ e.running = a.running /\ e.editing = a.editing /\ e.turn = a.turn
        /\ e.live = d.tasks + 1
    BY <1>3, <2>1 DEF Heard, Looks
  <2>3. d' = [d EXCEPT !.owed = d.owed, !.tasks = e.live] /\ reemit' \in BOOLEAN
    BY <1>1, <1>12, <2>2 DEF OnTask, DaemonRecord, Told, Bounds
  <2> QED BY <1>1, <1>11, <1>12, <2>2, <2>3
<1>13. CASE item.kind = "notice" /\ OnNotice /\ loop' = loop /\ out' = out
  <2>1. e = [a EXCEPT !.live = a.live - 1]
    BY <1>3, <1>13 DEF Tells
  <2>2. /\ e.running = a.running /\ e.editing = a.editing /\ e.turn = a.turn
        /\ e.live = d.tasks - 1
    BY <1>3, <2>1 DEF Heard, Looks
  <2>3. \E n \in {d.owed, d.owed + 1} : d' = [d EXCEPT !.owed = n, !.tasks = e.live]
    BY <1>1, <1>13, <2>2 DEF OnNotice, DaemonRecord
  <2>4. d.owed \in Nat /\ d.owed + 1 \in Nat
    BY <1>1
  <2>5. reemit' \in BOOLEAN
    BY <1>13 DEF OnNotice, Told, Bounds
  <2> QED BY <1>11, <1>13, <2>2, <2>3, <2>4, <2>5
<1>14. CASE item.kind = "edit" /\ OnEdit(item) /\ loop' = loop /\ Emitted(d', item)
  <2>1. /\ a.running /\ ~a.editing /\ item.turn = a.turn
        /\ e.running /\ e.editing /\ e.turn = a.turn /\ e.live = a.live
    BY <1>3, <1>14 DEF Tells
  <2>2. \A o \in out' : o \in out \/ o.kind = "edit"
    BY <1>14 DEF Emitted
  <2>3. /\ d'.active = d.active /\ d'.state = d.state /\ d'.tasks = d.tasks
        /\ d'.reported = d.reported /\ d'.draining = d.draining /\ d'.turns = d.turns
        /\ d'.edits = d.edits \union {item.turn} /\ d'.consumed = d.consumed
        /\ reemit' = reemit
    BY <1>1, <1>14 DEF OnEdit, DaemonRecord
  <2>4. TurnsOk(d')
    BY <1>1, <2>3 DEF TurnsOk
  <2>5. Heard(e)'
    BY <1>3, <1>5, <1>6, <1>14, <2>1, <2>2, <2>3 DEF Heard
  <2>6. OneResultPerTurn' /\ EditsReported'
    <3>1. \A o \in out' : o.kind \in {"result", "edited"} => o \in out
      BY <2>2
    <3> QED BY <1>5, <2>3, <3>1 DEF Told, OneResultPerTurn, EditsReported
  <2> QED BY <1>7, <2>3, <2>4, <2>5, <2>6 DEF Told, Bounds
<1>15. CASE item.kind = "edited" /\ OnEdited(item) /\ loop' = loop /\ Emitted(d', item)
  <2>1. /\ a.running /\ a.editing /\ item.turn = a.turn
        /\ e.running /\ ~e.editing /\ e.turn = a.turn /\ e.live = a.live
    BY <1>3, <1>15 DEF Tells
  <2>2. \A o \in out' : o \in out \/ (o.kind = "edited" /\ o.turn = item.turn)
    BY <1>15 DEF Emitted
  <2>3. /\ d'.active = d.active /\ d'.state = d.state /\ d'.tasks = d.tasks
        /\ d'.draining = d.draining /\ d'.turns = d.turns
        /\ d'.edits = d.edits \ {item.turn} /\ d'.consumed = d.consumed
        /\ d'.reported = IF item.turn \in d.edits /\ Stamp(d) # 0
                         THEN d.reported \union {item.turn} ELSE d.reported
        /\ reemit' = reemit
    BY <1>1, <1>15 DEF OnEdited, DaemonRecord
  <2>4. TurnsOk(d')
    BY <1>1, <2>3 DEF TurnsOk
  <2>5. Heard(e)'
    BY <1>3, <1>5, <1>6, <1>15, <2>1, <2>2, <2>3 DEF Heard
  <2>6. OneResultPerTurn'
    <3>1. \A o \in out' : o.kind = "result" => o \in out
      BY <2>2
    <3> QED BY <1>5, <3>1 DEF Told, OneResultPerTurn
  <2>7. EditsReported'
    <3> SUFFICES ASSUME Uninterrupted, NEW o \in out', o.kind = "edited"
                 PROVE  o.turn \in d'.reported
      BY <1>5 DEF EditsReported
    <3>1. item.turn \in d.edits /\ Stamp(d) # 0
      BY <1>3, <2>1 DEF Heard, Stamp
    <3> QED BY <2>2, <2>3, <3>1 DEF Told, EditsReported
  <2> QED BY <1>7, <2>3, <2>4, <2>5, <2>6, <2>7 DEF Told, Bounds
<1> QED BY <1>9, <1>10, <1>12, <1>13, <1>14, <1>15 DEF LoopReads, item

\* A result's turn has no other: it is closed, or the next one is open.
LEMMA ResultTold == ASSUME IInv, Told, ResultSynced PROVE Told'
<1>1. /\ d \in DaemonRecord /\ d.turns \in Nat /\ d.active \in Nat /\ d.consumed \in Nat
      /\ d.owed \in Nat /\ TurnsOk(d)
  BY DEF IInv, Typed, DaemonRecord, Told
<1>2. /\ stream' = stream /\ call' = call /\ cli' = cli /\ stdin' = stdin
      /\ loop.at = "syncing" /\ loop' = Reading /\ Uninterrupted' = Uninterrupted
      /\ \A o \in out' : o \in out \/ (o.kind = loop.item.kind /\ o.stamp = Stamp(d))
  BY DEF ResultSynced, Uninterrupted, Emitted
<1>3. loop'.at = "reading"
  BY <1>2 DEF Reading
<1>4. /\ d'.tasks = d.tasks /\ d'.reported = d.reported /\ d'.consumed = d.consumed
      /\ d'.draining = d.draining /\ TurnsOk(d') /\ d'.turns \in Nat /\ d.turns <= d'.turns
      /\ \A x \in d'.edits : x \in d.edits
      /\ d.draining = 0 => \/ d.state = "idle"
                           \/ d'.active = 0 /\ d'.state = "idle"
                           \/ d'.active = d.turns + 1 /\ d'.state = d.state
  <2>1. CASE d.draining # 0 /\ UNCHANGED <<d, reemit, told>>
    BY <1>1, <2>1
  <2>2. CASE ResultIdle
    <3> DEFINE u == IF d.state = "idle" THEN d ELSE SetIdle(d)
    <3>1. /\ u \in DaemonRecord /\ TurnsOk(u) /\ u.state = "idle"
          /\ d.state = "idle" \/ u.active = 0
          /\ u.tasks = d.tasks /\ u.reported = d.reported /\ u.consumed = d.consumed
          /\ u.turns = d.turns /\ u.edits = d.edits /\ u.draining = d.draining
      <4>1. CASE d.state = "idle"
        BY <4>1, <1>1
      <4>2. CASE d.state # "idle"
        <5>1. u = SetIdle(d)
          BY <4>2
        <5> HIDE DEF u
        <5> QED BY <5>1, <1>1, IdleEffect
      <4> QED BY <4>1, <4>2
    <3>2. d' = [u EXCEPT !.owed = 0]
      BY <2>2 DEF ResultIdle
    <3> HIDE DEF u
    <3>3. /\ d'.active = u.active /\ d'.state = u.state /\ d'.tasks = u.tasks
          /\ d'.reported = u.reported /\ d'.draining = u.draining /\ d'.turns = u.turns
          /\ d'.edits = u.edits /\ d'.consumed = u.consumed
      BY <3>1, <3>2 DEF DaemonRecord
    <3> QED BY <1>1, <3>1, <3>3 DEF TurnsOk
  <2>3. CASE d' = RotateTurn(d)
    <3> DEFINE u == RotateTurn(d)
    <3>1. /\ u \in DaemonRecord /\ TurnsOk(u) /\ u.active = d.turns + 1
          /\ u.turns = d.turns + 1 /\ u.state = d.state
          /\ u.tasks = d.tasks /\ u.reported = d.reported /\ u.consumed = d.consumed
          /\ u.edits = {} /\ u.draining = d.draining
      BY <1>1, RotateEffect
    <3> HIDE DEF u
    <3> QED BY <1>1, <2>3, <3>1 DEF u
  <2> QED BY <2>1, <2>2, <2>3 DEF ResultSynced
<1>5. told' \in Nat /\ reemit' \in BOOLEAN
  <2>1. CASE UNCHANGED <<reemit, told>>
    BY <2>1 DEF Told, Bounds
  <2>2. CASE ResultIdle
    <3>1. d.tasks \in Nat
      <4>1. PICK f : Known(f)
        BY DEF Told
      <4>2. 1 \in 1..(Len(stream) + 1)
        BY DEF IInv, Typed
      <4>3. f[1] \in Looks /\ d.tasks = f[1].live
        BY <4>1, <4>2 DEF Known, Trace, Heard
      <4> QED BY <4>3, LooksTyped, TurnsAssumption
    <3>2. told' \in Nat
      BY <1>1, <2>2, <3>1 DEF ResultIdle
    <3>3. reemit' \in BOOLEAN
      BY <2>2 DEF ResultIdle
    <3> QED BY <3>2, <3>3
  <2> QED BY <2>1, <2>2 DEF ResultSynced
<1>6. Bounds'
  BY <1>2, <1>4, <1>5 DEF Told, Bounds
<1>7. Asked' /\ StdinOk'
  BY <1>2, CallsStay DEF Told, Asked
<1>8. ASSUME Uninterrupted
      PROVE  /\ d.draining = 0 /\ Stamp(d) = d.active /\ d.active \in 1..d.turns
             /\ d.state # "idle" /\ loop.item.kind = "result"
             /\ \A o \in out : o.kind = "result" => o.stamp \in 1..d.turns /\ o.stamp # d.active
  <2>1. PICK f : Known(f)
    BY DEF Told
  <2>2. /\ d.draining = 0 /\ d.active # 0 /\ d.state # "idle" /\ loop.item.kind = "result"
        /\ \A o \in out : o.kind = "result" => o.stamp \in 1..d.turns /\ o.stamp # d.active
    BY <1>2, <1>8, <2>1 DEF Known, Heard
  <2> QED BY <1>1, <2>2 DEF Stamp, TurnsOk
<1>9. OneResultPerTurn'
  <2> SUFFICES ASSUME Uninterrupted, NEW o \in out', NEW p \in out', o.kind = "result",
                      p.kind = "result", o.stamp = p.stamp
               PROVE  o.turn = p.turn
    BY <1>2 DEF OneResultPerTurn
  <2>1. \A x \in out' : x \in out \/ (x.turn = loop.item.turn /\ x.stamp = d.active)
    BY <1>8 DEF ResultSynced, Emitted
  <2>2. o \in out /\ p \in out => o.turn = p.turn
    BY DEF Told, OneResultPerTurn
  <2> QED BY <1>8, <2>1, <2>2
<1>10. EditsReported'
  <2>1. Uninterrupted => \A o \in out' : o.kind = "edited" => o \in out
    BY <1>2, <1>8
  <2> QED BY <1>2, <1>4, <2>1 DEF Told, EditsReported
<1>11. ASSUME NEW a \in Looks, Heard(a), a.editing => a.running PROVE Heard(a)'
  <2>1. d'.tasks = a.live /\ \A t \in d'.edits : t \in 0..a.turn
    BY <1>4, <1>11 DEF Heard
  <2>2. ASSUME Uninterrupted
        PROVE  ~a.running /\ ~a.editing /\ d'.draining = 0 /\ (d'.state = "idle" <=> d'.active = 0)
    BY <1>1, <1>2, <1>4, <1>8, <1>11, <2>2 DEF Heard
  <2>3. ASSUME Uninterrupted, NEW o \in out', o.kind = "result"
        PROVE  o.stamp \in 1..d'.turns /\ o.stamp # d'.active
    <3>1. o.stamp \in 1..d.turns
      BY <1>2, <1>8, <2>3
    <3>2. d'.active = 0 \/ d'.active = d.turns + 1
      BY <1>4, <1>8, <2>3
    <3> QED BY <1>1, <1>4, <3>1, <3>2
  <2> QED BY <1>2, <1>3, <2>1, <2>2, <2>3 DEF Heard
<1> QED BY <1>2, <1>4, <1>6, <1>7, <1>9, <1>10, <1>11, DaemonTold

\* Interrupts: they end what holds of an uninterrupted session.
LEMMA InterruptedTold ==
  ASSUME IInv, Told, cli' = cli, UNCHANGED out, Bounds', Asked', StdinOk', TurnsOk(d'),
         ~Uninterrupted', d'.tasks = d.tasks, \A x \in d'.edits : x \in d.edits,
         NEW f, Known(f), NEW g, Trace(g, stream', cli'), g[1] = f[1]
  PROVE  Told'
<1>1. OneResultPerTurn' /\ EditsReported'
  BY DEF OneResultPerTurn, EditsReported
<1>2. Heard(g[1])'
  BY DEF Known, Heard
<1>3. Known(g)'
  BY <1>2 DEF Known
<1> QED BY <1>1, <1>3 DEF Told

\* A request is made: the session is not uninterrupted from here on.
LEMMA InterruptTold ==
  ASSUME NEW i \in Callers, IInv, Told, Interrupt(i)
  PROVE  Told'
<1>1. /\ d \in DaemonRecord /\ d.turns \in Nat /\ d.active \in Nat /\ d.draining \in Nat
      /\ TurnsOk(d) /\ call \in [Callers -> [at : Phases, before : Nat, turn : Nat]]
  BY DEF IInv, Typed, DaemonRecord, Told
<1>2. /\ d' = StartDraining(d) /\ stdin' = Append(stdin, i)
      /\ loop' = loop /\ reemit' = reemit /\ told' = told /\ cli' = cli
      /\ stream' = stream /\ out' = out
      /\ call' = [call EXCEPT ![i] = [at |-> "asking", before |-> d.consumed,
                                      turn |-> d.active]]
  BY DEF Interrupt
<1>3. /\ TurnsOk(d') /\ d'.tasks = d.tasks /\ d'.edits = d.edits
      /\ d'.consumed = d.consumed
  <2>1. CASE d.active = 0
    BY <1>1, <1>2, <2>1 DEF StartDraining
  <2>2. CASE d.active # 0
    <3>1. /\ d'.active = 0 /\ d'.draining = d.active /\ d'.tasks = d.tasks
          /\ d'.edits = d.edits /\ d'.turns = d.turns /\ d'.consumed = d.consumed
      BY <1>1, <1>2, <2>2 DEF StartDraining, CompleteTurn, DaemonRecord
    <3> QED BY <1>1, <3>1 DEF TurnsOk
  <2> QED BY <2>1, <2>2
<1>4. call'[i].at = "asking" /\ \A j \in Callers : j # i => call'[j] = call[j]
  BY <1>1, <1>2
<1>5. ~Uninterrupted'
  BY <1>4 DEF Uninterrupted
<1>6. Asked' /\ StdinOk'
  <2>1. /\ stdin \in Seq(Callers \union {Prompt}) /\ i \in Callers \union {Prompt}
        /\ \A j \in 1..Len(stdin) : stdin[j] \in Callers => call[stdin[j]].at # "none"
    BY DEF Told, Asked, StdinOk
  <2>2. /\ stdin' \in Seq(Callers \union {Prompt}) /\ Len(stdin') = Len(stdin) + 1
        /\ \A j \in 1..(Len(stdin) + 1) : j = Len(stdin) + 1 \/ j \in 1..Len(stdin)
        /\ stdin'[Len(stdin) + 1] = i
        /\ \A j \in 1..Len(stdin) : stdin'[j] = stdin[j]
    BY <1>2, <2>1
  <2> QED BY <1>4, <2>1, <2>2 DEF Asked, StdinOk
<1>7. Bounds'
  BY <1>2, <1>3 DEF Told, Bounds
<1>8. PICK f : Known(f)
  BY DEF Told
<1>9. Trace(f, stream', cli')
  BY <1>2, <1>8 DEF Known
<1> QED BY <1>2, <1>3, <1>5, <1>6, <1>7, <1>8, <1>9, InterruptedTold

\* An interrupt that returns forgets the edits of its turn.
LEMMA ReturnEffect ==
  ASSUME NEW t \in DaemonRecord, TurnsOk(t), NEW n
  PROVE  LET u == FinishDraining(t, n)
         IN  TurnsOk(u) /\ u.tasks = t.tasks /\ u.edits = {} /\ u.consumed = t.consumed
<1> DEFINE v == IF t.draining = n THEN [t EXCEPT !.draining = 0] ELSE t
           u == FinishDraining(t, n)
<1>1. /\ v \in DaemonRecord /\ v.active = t.active /\ v.turns = t.turns
      /\ v.draining \in {0, t.draining} /\ v.tasks = t.tasks /\ v.consumed = t.consumed
  BY DEF DaemonRecord
<1>2. u = [v EXCEPT !.edits = {}]
  BY DEF FinishDraining, ResetEdits
<1> HIDE DEF u, v
<1>3. /\ u.active = v.active /\ u.turns = v.turns /\ u.draining = v.draining
      /\ u.tasks = v.tasks /\ u.edits = {} /\ u.consumed = v.consumed
  BY <1>1, <1>2 DEF DaemonRecord
<1>4. t.turns \in Nat /\ t.active \in Nat /\ t.draining \in Nat
  BY DEF DaemonRecord
<1>5. TurnsOk(u)
  BY <1>1, <1>3, <1>4 DEF TurnsOk
<1> QED BY <1>1, <1>3, <1>5 DEF u

\* An answer leaves the stream wherever it stands, and its look leaves the trace.
LEMMA AnswerTold ==
  ASSUME NEW i \in Callers, IInv, Told, InterruptAnswered(i)
  PROVE  Told'
<1>1. /\ d \in DaemonRecord /\ TurnsOk(d) /\ stream \in Seq(Items)
      /\ call \in [Callers -> [at : Phases, before : Nat, turn : Nat]]
  BY DEF IInv, Typed, Told
<1>2. PICK p \in DOMAIN stream :
        /\ stream[p].kind \in {"answer", "refusal"} /\ stream' = RemoveAt(stream, p)
        /\ \/ call' = [call EXCEPT ![i].at = "syncing"] /\ UNCHANGED d
           \/ Return(i, d)
  BY DEF InterruptAnswered
<1>3. /\ loop' = loop /\ reemit' = reemit /\ told' = told /\ cli' = cli
      /\ stdin' = stdin /\ out' = out
  BY DEF InterruptAnswered
<1>4. /\ TurnsOk(d') /\ d'.tasks = d.tasks /\ d'.consumed = d.consumed
      /\ \A x \in d'.edits : x \in d.edits
  <2>1. CASE UNCHANGED d
    BY <1>1, <2>1
  <2>2. CASE d' = FinishDraining(d, call[i].turn)
    BY <1>1, <2>2, ReturnEffect
  <2> QED BY <1>2, <2>1, <2>2 DEF Return
<1>5. call'[i].at \in {"syncing", "done"} /\ \A j \in Callers : j # i => call'[j] = call[j]
  BY <1>1, <1>2 DEF Return
<1>6. ~Uninterrupted'
  BY <1>5 DEF Uninterrupted
<1>7. \A j \in Callers : call[j].at # "none" => call'[j].at # "none"
  BY <1>5
<1>8. Asked' /\ StdinOk'
  BY <1>3, <1>7, CallsStay DEF Told, Asked
<1>9. Bounds'
  BY <1>3, <1>4 DEF Told, Bounds
<1>10. PICK f : Known(f)
  BY DEF Told
<1> DEFINE clean == FALSE
           c == cli
<1>11. Trace(f, stream, c) /\ p \in 1..Len(stream) /\ clean \in BOOLEAN /\ ~clean
  BY <1>1, <1>10 DEF Known
<1> HIDE DEF clean, c
<1>12. PICK g : Goes(g, RemoveAt(stream, p), c, f, clean)
  BY <1>1, <1>2, <1>11, TraceCut
<1>13. Trace(g, stream', cli') /\ g[1] = f[1]
  BY <1>2, <1>3, <1>12 DEF Goes, c
<1> QED BY <1>3, <1>4, <1>6, <1>8, <1>9, <1>10, <1>13, InterruptedTold

\* The sync of an interrupt returns, with the session idle or as it is.
LEMMA SyncTold ==
  ASSUME NEW i \in Callers, IInv, Told, InterruptSynced(i)
  PROVE  Told'
<1>1. /\ d \in DaemonRecord /\ TurnsOk(d)
      /\ call \in [Callers -> [at : Phases, before : Nat, turn : Nat]]
  BY DEF IInv, Typed, Told
<1>2. /\ loop' = loop /\ reemit' = reemit /\ cli' = cli /\ stream' = stream
      /\ stdin' = stdin /\ out' = out /\ (told' \in {told, d.tasks})
      /\ \/ Return(i, SetIdle(d))
         \/ Return(i, d)
  BY DEF InterruptSynced
<1>3. /\ TurnsOk(d') /\ d'.tasks = d.tasks /\ d'.consumed = d.consumed
      /\ \A x \in d'.edits : x \in d.edits
  <2>1. ASSUME NEW t \in DaemonRecord, TurnsOk(t), t.tasks = d.tasks,
               t.consumed = d.consumed, Return(i, t)
        PROVE  /\ TurnsOk(d') /\ d'.tasks = d.tasks /\ d'.consumed = d.consumed
               /\ d'.edits = {}
    BY <2>1, ReturnEffect DEF Return
  <2> DEFINE u == SetIdle(d)
  <2>2. u \in DaemonRecord /\ TurnsOk(u) /\ u.tasks = d.tasks /\ u.consumed = d.consumed
    BY <1>1, IdleEffect
  <2>3. Return(i, u) \/ Return(i, d)
    BY <1>2
  <2> HIDE DEF u
  <2> QED BY <1>1, <2>1, <2>2, <2>3
<1>4. call'[i].at = "done" /\ \A j \in Callers : j # i => call'[j] = call[j]
  BY <1>1, <1>2 DEF Return
<1>5. ~Uninterrupted'
  BY <1>4 DEF Uninterrupted
<1>6. \A j \in Callers : call[j].at # "none" => call'[j].at # "none"
  BY <1>4
<1>7. Asked' /\ StdinOk'
  BY <1>2, <1>6, CallsStay DEF Told, Asked
<1>8. PICK f : Known(f)
  BY DEF Told
<1>9. Trace(f, stream', cli')
  BY <1>2, <1>8 DEF Known
<1>10. d.tasks \in Nat
  <2>1. 1 \in 1..(Len(stream) + 1)
    BY DEF IInv, Typed
  <2>2. f[1] \in Looks /\ d.tasks = f[1].live
    BY <1>8, <2>1 DEF Known, Trace, Heard
  <2> QED BY <2>2, LooksTyped, TurnsAssumption
<1>11. Bounds'
  BY <1>2, <1>3, <1>10 DEF Told, Bounds
<1> QED BY <1>2, <1>3, <1>5, <1>7, <1>8, <1>9, <1>11, InterruptedTold

\* The timer announces what it finds.
LEMMA ReemitTold == ASSUME IInv, Told, Reemit PROVE Told'
<1>1. /\ d' = d /\ loop' = loop /\ call' = call /\ cli' = cli /\ stdin' = stdin
      /\ stream' = stream /\ out' = out /\ reemit' = FALSE /\ told' \in {0, told}
  BY DEF Reemit
<1>2. Bounds'
  <2>1. Bounds
    BY DEF Told
  <2>2. reemit' \in BOOLEAN
    BY <1>1
  <2>3. told' \in Nat
    BY <1>1, <2>1 DEF Bounds
  <2> QED BY <1>1, <2>1, <2>2, <2>3 DEF Bounds
<1>3. Asked' /\ StdinOk'
  BY <1>1, CallsStay DEF Told, Asked
<1>4. /\ Uninterrupted' = Uninterrupted /\ OneResultPerTurn' /\ EditsReported'
      /\ TurnsOk(d')
  BY <1>1 DEF Told, Uninterrupted, OneResultPerTurn, EditsReported
<1>5. \A a \in Looks : Heard(a) => Heard(a)'
  BY <1>1, <1>4 DEF Heard
<1> QED BY <1>1, <1>2, <1>3, <1>4, <1>5, DaemonTold

-----------------------------------------------------------------------------
(* The theorems that rest on it *)

\* The second invariant holds: every step keeps it, given the first one.
LEMMA ToldHolds == Spec => []Told
<1>1. Init => Told
  <2> SUFFICES ASSUME Init PROVE Told
    OBVIOUS
  <2> DEFINE a == Look(cli)
             f == [j \in 1..1 |-> a]
  <2>1. a \in Looks /\ a.turn = 0 /\ ~a.running /\ ~a.editing /\ a.live = 0
    BY TurnsAssumption DEF Init, Look, Looks
  <2>2. stream = <<>> /\ Len(stream) = 0 /\ cli.turn = 0
    BY DEF Init
  <2>3. f \in [1..1 -> Looks] /\ f[1] = a
    BY <2>1
  <2> HIDE DEF f
  <2>4. Trace(f, stream, cli)
    <3>1. \A j \in 1..1 : f[j] = a
      BY <2>3
    <3> HIDE DEF a
    <3> QED BY <2>1, <2>2, <2>3, <3>1 DEF Trace, a
  <2>5. Clean(f, stream)
    BY <2>2 DEF Clean
  <2>6. Heard(f[1])
    <3> HIDE DEF a
    <3> QED BY <2>1, <2>3 DEF Init, Heard, Reading
  <2>7. Known(f)
    BY <2>4, <2>5, <2>6 DEF Known
  <2>8. Bounds /\ TurnsOk(d)
    <3>1. /\ d.consumed = 0 /\ d.active = 0 /\ d.turns = 0 /\ d.draining = 0
          /\ cli.started = 0 /\ cli.live = 0 /\ told = 0
      BY DEF Init
    <3>2. reemit \in BOOLEAN
      BY DEF Init
    <3>3. TurnsOk(d)
      BY <3>1 DEF TurnsOk
    <3>4. Bounds
      BY <3>1, <3>2, TurnsAssumption DEF Bounds
    <3> QED BY <3>3, <3>4
  <2>9. Asked /\ StdinOk
    BY DEF Init, Asked, StdinOk
  <2>10. OneResultPerTurn /\ EditsReported
    BY DEF Init, OneResultPerTurn, EditsReported
  <2> QED BY <2>7, <2>8, <2>9, <2>10 DEF Told
<1>2. IInv /\ IInv' /\ Told /\ [Next]_vars => Told'
  <2> SUFFICES ASSUME IInv, IInv', Told, [Next]_vars PROVE Told'
    OBVIOUS
  <2>1. CASE UNCHANGED vars
    <3>1. /\ d' = d /\ loop' = loop /\ call' = call /\ cli' = cli /\ stdin' = stdin
          /\ stream' = stream /\ out' = out /\ reemit' = reemit /\ told' = told
      BY <2>1 DEF vars
    <3>2. Bounds'
      BY <3>1 DEF Told, Bounds
    <3>3. Asked' /\ StdinOk'
      BY <3>1, CallsStay DEF Told, Asked
    <3>4. /\ Uninterrupted' = Uninterrupted /\ OneResultPerTurn' /\ EditsReported'
          /\ TurnsOk(d')
      BY <3>1 DEF Told, Uninterrupted, OneResultPerTurn, EditsReported
    <3>5. \A a \in Looks : Heard(a) => Heard(a)'
      BY <3>1, <3>4 DEF Heard
    <3> QED BY <3>1, <3>2, <3>3, <3>4, <3>5, DaemonTold
  <2>2. CASE \E i \in Callers : Interrupt(i) \/ InterruptAnswered(i) \/ InterruptSynced(i)
    BY <2>2, InterruptTold, AnswerTold, SyncTold
  <2>3. CASE Cli
    BY <2>3, CliReadsTold, CliTurnTold DEF Cli
  <2> QED BY <2>1, <2>2, <2>3, MessageTold, ReadTold, ResultTold, ReemitTold DEF Next
<1> QED BY <1>1, <1>2, Inductive, PTL DEF Spec

\* Every variable keeps its type: an open turn is the last one and not the one that
\* drains, and the ledger counts the tasks the stream has told of, whatever of it is
\* still to be read when a result or an interrupt has its sync.
THEOREM TypeCorrect == Spec => []TypeOK
<1>1. IInv /\ Told => TypeOK
  <2> SUFFICES ASSUME IInv, Told PROVE TypeOK
    OBVIOUS
  <2>1. /\ d \in DaemonRecord /\ d.turns \in Nat /\ d.active \in Nat /\ d.draining \in Nat
        /\ d.consumed \in Nat /\ d.owed \in Nat /\ d.state \in {"idle", "working"}
    BY DEF IInv, Typed, DaemonRecord
  <2>2. PICK f : Known(f)
    BY DEF Told
  <2>3. 1 \in 1..(Len(stream) + 1)
    BY DEF IInv, Typed
  <2>4. /\ f[1] \in Looks /\ f[1].turn <= cli.turn /\ d.tasks = f[1].live
        /\ \A t \in d.edits : t \in 0..f[1].turn
    BY <2>2, <2>3 DEF Known, Trace, Heard
  <2>5. f[1].turn \in Nat /\ cli.turn \in Nat /\ d.tasks \in 0..MaxTasks
    BY <2>4, LooksTyped DEF IInv, Typed, CliRecord
  <2>6. d.edits \subseteq 0..cli.turn
    BY <2>4, <2>5
  <2>7. /\ d.active \in 0..d.turns /\ d.draining \in 0..d.turns
        /\ d.active # 0 => d.active = d.turns /\ d.draining # d.active
    BY <2>1 DEF Told, TurnsOk
  <2>8. d.consumed \in 0..MaxMessages /\ told \in Nat /\ reemit \in BOOLEAN
    BY <2>1, TurnsAssumption DEF Told, Bounds
  <2> QED BY <2>1, <2>5, <2>6, <2>7, <2>8 DEF TypeOK
<1> QED BY <1>1, Inductive, ToldHolds, PTL

\* Uninterrupted, no canonical turn holds the results of two CLI turns: each is
\* emitted under a turn that has had none, which its sync closes or rotates.
THEOREM OneResultOnly == Spec => []OneResultPerTurn
<1>1. Told => OneResultPerTurn
  BY DEF Told
<1> QED BY <1>1, ToldHolds, PTL

\* Uninterrupted, every edit that succeeded is reported in a turn: none is forgotten
\* by a turn that opens, or by one that rotates, before its tool result is read.
THEOREM EditsAlwaysReported == Spec => []EditsReported
<1>1. Told => EditsReported
  BY DEF Told
<1> QED BY <1>1, ToldHolds, PTL
=============================================================================
