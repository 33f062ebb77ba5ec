--------------------------- MODULE CredentialBroker ---------------------------
(***************************************************************************)
(* The credential broker (credential-broker.mjs) between its users: the    *)
(* event pushers of this session and of the ones before it, the harness    *)
(* behind the proxy, the CLI, and handleCreate (server.mjs), which         *)
(* activates the next session.  An identity renews its credential once for *)
(* all who wait for it.  Time shows only as what it does: a credential     *)
(* becomes due, then expires; a backoff ends; a tick sees that the VM      *)
(* slept.                                                                  *)
(***************************************************************************)
EXTENDS Naturals, SequencesExt

CONSTANTS
  MaxRefusals,   \* MAX_RENEWAL_REFUSALS
  Clients,       \* bound: requests of harnesses and the CLI, one by each
  MaxSessions,   \* bound: sessions created, numbered from 1 (0: the workspace)
  MaxLapses,     \* bound: credentials that become due or expire, and sleeps
  MaxTroubles    \* bound: those, and requests and renewals refused or not answered

ASSUME BrokerAssumption ==
  /\ MaxRefusals \in Nat \ {0} /\ MaxSessions \in Nat
  /\ MaxLapses \in Nat /\ MaxTroubles \in Nat
  /\ Clients \intersect Nat = {}

VARIABLES
  b,         \* the broker: session, its identities, routes (see Init)
  calls,     \* where each caller's request is
  create,    \* where handleCreate is, for which session
  live,      \* the session published last, 0 before the first
  over,      \* the sessions that are over
  owes,      \* what each session's pusher has queued
  stopped,   \* the sessions whose pusher has stopped
  draining,  \* the sessions whose pusher a drain() will stop
  lapses, troubles,  \* so far
  bad        \* history: credentials expired, rejected, revoked, or slept with

vars == <<b, calls, create, live, over, owes, stopped, draining, lapses,
          troubles, bad>>

sessionVars == <<create, live, over>>
pusherVars == <<owes, stopped, draining>>
countVars == <<lapses, troubles>>

Pushers == 1..MaxSessions
Callers == Pushers \union Clients

-----------------------------------------------------------------------------
(* RenewableIdentity.  A credential is named by its session, its identity    *)
(* and its place among those minted for that.  An error is the refusals in   *)
(* a row it tells of, 0 if its status is none the pusher minds.              *)

None == [of |-> 0, by |-> 0, n |-> 0]

NewIdentity(s) ==
  [session |-> s, credential |-> None, age |-> "fresh", minted |-> 0,
   renewing |-> FALSE, backoff |-> FALSE, refused |-> 0, lastError |-> 0,
   closed |-> FALSE, row |-> 0]

\* Nothing reads what else a closed identity knew, so it is forgotten.
Close(x) ==
  [NewIdentity(x.session) EXCEPT !.closed = TRUE, !.renewing = x.renewing]

Usable(x) == x.credential # None /\ x.age # "expired"

\* get() returns at once what is fresh, to who asks for no more.
Cached(x, fresh, rejected) ==
  ~fresh /\ ~rejected /\ x.credential # None /\ x.age = "fresh"

\* Mutant: a rejected bearer stays the credential.
AskedKeeping(x, fresh, rejected) ==
  IF x.closed \/ Cached(x, fresh, rejected) \/ x.renewing \/ x.backoff THEN x
  ELSE [x EXCEPT !.renewing = TRUE]

\* get() up to its await: what it makes of the identity.
Asked(x, fresh, rejected) ==
  LET y == IF rejected THEN [x EXCEPT !.credential = None] ELSE x
  IN  IF x.closed THEN x
      ELSE IF Cached(y, fresh, rejected) \/ y.renewing \/ y.backoff THEN y
      ELSE [y EXCEPT !.renewing = TRUE]

Failed(error) == [at |-> "failed", credential |-> None, error |-> error]
Has(c) == [at |-> "sending", credential |-> c, error |-> 0]
Waits == [at |-> "waiting", credential |-> None, error |-> 0]

\* get()'s catch: a credential still usable serves whom a fresh one need not.
Fallback(x, fresh, error) ==
  IF ~x.closed /\ ~fresh /\ Usable(x) THEN Has(x.credential) ELSE Failed(error)

\* Mutant: an error served again from backoff counts as another refusal.
GotCounting(y, fresh, rejected) ==
  IF y.closed THEN Failed(0)
  ELSE IF Cached(y, fresh, rejected) THEN Has(y.credential)
  ELSE IF y.renewing THEN Waits
  ELSE Fallback(y, fresh, IF y.lastError = 0 THEN 0 ELSE y.lastError + 1)

\* What get() gives its caller before its await, having left the identity y.
Got(y, fresh, rejected) ==
  IF y.closed THEN Failed(0)
  ELSE IF Cached(y, fresh, rejected) THEN Has(y.credential)
  ELSE IF y.renewing THEN Waits
  ELSE Fallback(y, fresh, y.lastError)

\* renew(): granted; refused, with or without a status the pusher minds (a 400
\* it does not); or not answered.  A closed identity takes nothing from it.
\* row is history: the refusals in a row so far.
Granted(x, k) ==
  [x EXCEPT !.credential = [of |-> x.session, by |-> k, n |-> x.minted + 1],
            !.minted = @ + 1, !.age = "fresh", !.backoff = FALSE,
            !.refused = 0, !.lastError = 0, !.row = 0]

Refused(x, minded) ==
  [x EXCEPT !.credential = None, !.refused = @ + 1, !.backoff = TRUE,
            !.row = @ + 1, !.lastError = IF minded THEN x.refused + 1 ELSE 0]

Unanswered(x) ==
  [x EXCEPT !.refused = 0, !.lastError = 0, !.backoff = TRUE, !.row = 0]

-----------------------------------------------------------------------------
(* CredentialBroker.  An operator here takes the broker it finds and returns *)
(* the broker it leaves: several run in one handler.                         *)

Started ==
  [ids |-> <<NewIdentity(0)>>, wid |-> 1, session |-> 0, sid |-> 0, routes |-> 0]

\* get(): which identity serves a session, 0 if it is not the active one.
IdentityOf(bb, s) ==
  IF s = 0 THEN bb.wid ELSE IF s = bb.session THEN bb.sid ELSE 0

After(bb, k, fresh, rejected) ==
  IF k = 0 THEN bb ELSE [bb EXCEPT !.ids[k] = Asked(@, fresh, rejected)]

\* A get() of the active session, or of the workspace, that nobody awaits.
Refresh(bb) == After(bb, IdentityOf(bb, bb.session), FALSE, FALSE)

CloseIdentity(bb, k) == IF k = 0 THEN bb ELSE [bb EXCEPT !.ids[k] = Close(@)]

Inactive(bb) ==
  [CloseIdentity(bb, bb.sid) EXCEPT !.session = 0, !.sid = 0, !.routes = 0]

\* Mutant: whoever deactivates ends the active session.
DeactivatedAny(bb, s) == Refresh(Inactive(bb))

\* deactivate(), of the active session only.
Deactivated(bb, s) ==
  IF bb.session = s THEN Refresh(Inactive(bb)) ELSE bb

\* activate() up to its await.
Activated(bb, s) ==
  Refresh([CloseIdentity(bb, bb.sid) EXCEPT
             !.ids = Append(@, NewIdentity(s)), !.session = s,
             !.sid = Len(bb.ids) + 1, !.routes = 0])

\* Mutant: a sleep drops the session's identity with the old ones.
WokenWithout(bb) ==
  Refresh([CloseIdentity(CloseIdentity(bb, bb.wid), bb.sid) EXCEPT
             !.ids = Append(@, NewIdentity(0)), !.wid = Len(bb.ids) + 1, !.sid = 0])

\* tick() after a sleep: both identities start over.
Woken(bb) ==
  LET closed == CloseIdentity(CloseIdentity(bb, bb.wid), bb.sid)
  IN  Refresh([closed EXCEPT
         !.ids = @ \o <<NewIdentity(0)>> \o
                 (IF bb.session = 0 THEN <<>> ELSE <<NewIdentity(bb.session)>>),
         !.wid = Len(bb.ids) + 1,
         !.sid = IF bb.session = 0 THEN 0 ELSE Len(bb.ids) + 2])

\* The broker becomes bb, and the credentials in worse turn out to be bad.
\* Those of closed identities need no record.
Becomes(bb, worse) ==
  /\ b' = bb
  /\ bad' = {c \in bad \union worse : c # None /\ ~bb.ids[c.by].closed}

-----------------------------------------------------------------------------
(* The callers.  got is what get() gave one, or nothing yet.                 *)

Idle == [at |-> "idle", session |-> 0, id |-> 0, fresh |-> FALSE, retried |-> FALSE,
         batch |-> "none", credential |-> None]

New == [Idle EXCEPT !.at = "new"]  \* a client that has not called yet

Settled(call, got) ==
  IF got.at = "failed" THEN Idle
  ELSE [call EXCEPT !.at = got.at, !.credential = got.credential]

\* flush()'s catch: refusals in a row are revocation once they persist.
GivesUp(c, got) == c \in Pushers /\ got.at = "failed" /\ got.error >= MaxRefusals

\* giveUp(), and delivery that a terminal event ends.
StopPushers(S) ==
  /\ stopped' = stopped \union S
  /\ owes' = [s \in Pushers |-> IF s \in S THEN "none" ELSE owes[s]]

\* Mutant: the session is the active one when the token is asked for.
AskCurrent(bb, c, call, rejected) ==
  LET k == IdentityOf(bb, bb.session)
      after == After(bb, k, call.fresh, rejected)
      got == IF k = 0 THEN Failed(0) ELSE Got(after.ids[k], call.fresh, rejected)
  IN  [b |-> after, call |-> Settled([call EXCEPT !.id = k], got),
       gaveUp |-> GivesUp(c, got)]

\* One get() of a request: the broker, the call and whether a pusher gave up.
Ask(bb, c, call, rejected) ==
  LET k == IdentityOf(bb, call.session)
      after == After(bb, k, call.fresh, rejected)
      got == IF k = 0 THEN Failed(0) ELSE Got(after.ids[k], call.fresh, rejected)
  IN  [b |-> IF GivesUp(c, got) THEN Deactivated(after, c) ELSE after,
       call |-> Settled([call EXCEPT !.id = k], got), gaveUp |-> GivesUp(c, got)]

\* c asks for a credential, knowing those in worse to be bad.
Asks(c, call, rejected, worse) ==
  LET r == Ask(b, c, call, rejected)
  IN  /\ Becomes(r.b, worse)
      /\ calls' = [calls EXCEPT ![c] = r.call]
      /\ IF r.gaveUp THEN StopPushers({c}) ELSE UNCHANGED <<owes, stopped>>

FlushCall(s, batch) == [Idle EXCEPT !.session = s, !.batch = batch]

\* flush(): of a timer, a retry, or a drain.
CanFlush(s) == s \notin stopped /\ calls[s] = Idle /\ owes[s] # "none"

Flush(s) ==
  /\ CanFlush(s)
  /\ Asks(s, FlushCall(s, owes[s]), FALSE, {})
  /\ UNCHANGED <<sessionVars, draining, countVars>>

\* handle(): GET /token, a fresh workspace credential, and the local gateway.
CliAsks(c) ==
  /\ calls[c] = New
  /\ \E fresh \in BOOLEAN : Asks(c, [Idle EXCEPT !.fresh = fresh], FALSE, {})
  /\ UNCHANGED <<sessionVars, draining, countVars>>

\* handle(): a harness's request finds its route, and then its body is read.
ProxyRoute(c) ==
  /\ calls[c] = New /\ b.routes # 0
  /\ calls' = [calls EXCEPT ![c] = [Idle EXCEPT !.at = "body", !.session = b.routes]]
  /\ UNCHANGED <<b, sessionVars, pusherVars, countVars, bad>>

ProxyBody(c) ==
  /\ calls[c].at = "body"
  /\ Asks(c, calls[c], FALSE, {})
  /\ UNCHANGED <<sessionVars, draining, countVars>>

Trouble == lapses + troubles < MaxTroubles /\ troubles' = troubles + 1
Lapse ==
  lapses < MaxLapses /\ lapses + troubles < MaxTroubles /\ lapses' = lapses + 1
NoTrouble == UNCHANGED troubles

\* The request is answered, or the CLI has its token.
Ends(c) == calls' = [calls EXCEPT ![c] = Idle]

\* 2xx.  Delivered events leave the queue; a delivered terminal one ends it.
Accepted(c) ==
  /\ Ends(c) /\ NoTrouble
  /\ IF calls[c].batch = "terminal"
     THEN StopPushers({c}) /\ Becomes(Deactivated(b, c), {})
     ELSE /\ UNCHANGED <<b, bad, stopped>>
          /\ IF c \in Pushers /\ calls[c].batch = owes[c]
             THEN owes' = [owes EXCEPT ![c] = "none"] ELSE UNCHANGED owes

\* An answer the caller has to live with: 403, 404, 410, or a second 401.
Denied(c) ==
  /\ Ends(c)
  /\ IF c \in Pushers
     THEN StopPushers({c}) /\ Becomes(Deactivated(b, c), {})
     ELSE UNCHANGED <<b, bad, owes, stopped>>

\* request(): a first 401 is retried with a renewed credential.
Unauthorized(c) ==
  /\ Trouble /\ ~calls[c].fresh
  /\ IF calls[c].retried
     THEN Denied(c)
     ELSE Asks(c, [calls[c] EXCEPT !.retried = TRUE], TRUE, {calls[c].credential})

Forbidden(c) == Trouble /\ ~calls[c].fresh /\ Denied(c)

\* 5xx, a reset, a timeout: a pusher flushes again later.
Lost(c) == Trouble /\ Ends(c) /\ UNCHANGED <<b, bad, owes, stopped>>

Answer(c) ==
  /\ calls[c].at = "sending"
  /\ Accepted(c) \/ Unauthorized(c) \/ Forbidden(c) \/ Lost(c)
  /\ UNCHANGED <<sessionVars, draining, lapses>>

-----------------------------------------------------------------------------
(* Renewal, time, and sleep                                                  *)

NoCreate == [create EXCEPT !.at = "none", !.id = 0]

\* A renewal of identity k ends with it as y: all who wait for it go on.
Resolve(k, y, got, worse) ==
  LET gotBy(c) == IF got.at = "sending" THEN got
                  ELSE Fallback(y, calls[c].fresh, got.error)
      waiting == {c \in Callers : calls[c].at = "waiting" /\ calls[c].id = k}
      gaveUp == {c \in waiting : GivesUp(c, gotBy(c))}
      creating == create.at = "activating" /\ create.id = k
      renewed == [b EXCEPT !.ids[k] = [y EXCEPT !.renewing = FALSE]]
  IN  /\ calls' = [c \in Callers |->
                     IF c \in waiting THEN Settled(calls[c], gotBy(c)) ELSE calls[c]]
      /\ StopPushers(gaveUp)
      /\ CASE creating /\ got.at = "sending" ->
                /\ create' = [create EXCEPT !.at = "starting", !.id = 0]
                /\ Becomes([renewed EXCEPT !.routes = b.session], worse)
                /\ UNCHANGED over
           [] creating /\ got.at # "sending" ->
                /\ create' = NoCreate
                /\ Becomes(Deactivated(renewed, create.session), worse)
                /\ over' = over \union {create.session}
           [] ~creating ->
                /\ Becomes(IF b.session \in gaveUp THEN Deactivated(renewed, b.session)
                           ELSE renewed, worse)
                /\ UNCHANGED <<create, over>>

RenewEnds(k) ==
  LET x == b.ids[k] IN
  /\ x.renewing
  /\ \/ /\ x.closed /\ NoTrouble
        /\ Resolve(k, x, Failed(0), {})
     \/ /\ ~x.closed /\ NoTrouble
        /\ Resolve(k, Granted(x, k), Has(Granted(x, k).credential), {})
     \/ /\ ~x.closed /\ Trouble
        /\ \E minded \in BOOLEAN :
             Resolve(k, Refused(x, minded), Failed(Refused(x, minded).lastError),
                     {x.credential})
     \/ /\ ~x.closed /\ Trouble
        /\ Resolve(k, Unanswered(x), Failed(0), {})
  /\ UNCHANGED <<live, draining, lapses>>

BackoffEnds(k) ==
  /\ b.ids[k].backoff
  /\ b' = [b EXCEPT !.ids[k].backoff = FALSE]
  /\ UNCHANGED <<calls, sessionVars, pusherVars, countVars, bad>>

\* A credential is due at half its life, and expires.
Age(k) ==
  /\ Lapse /\ b.ids[k].credential # None /\ b.ids[k].age # "expired"
  /\ \E age \in {"due", "expired"} \ {b.ids[k].age} :
       /\ b' = [b EXCEPT !.ids[k].age = age]
       /\ bad' = IF age = "expired" THEN bad \union {b.ids[k].credential} ELSE bad
  /\ UNCHANGED <<calls, sessionVars, pusherVars, troubles>>

Tick ==
  /\ \/ UNCHANGED lapses /\ Becomes(Refresh(b), {})
     \/ Lapse /\ Becomes(Woken(b), {b.ids[k].credential : k \in {b.wid, b.sid} \ {0}})
  /\ UNCHANGED <<calls, sessionVars, pusherVars, troubles>>

-----------------------------------------------------------------------------
(* Sessions *)

\* drain(): flushes while something is queued, and stops at its deadline.
DrainStops(s) ==
  /\ s \in draining \ stopped
  /\ stopped' = stopped \union {s}
  /\ UNCHANGED <<b, calls, sessionVars, owes, draining, countVars, bad>>

\* handleCreate up to its first await: the old session's pusher drains.
Create ==
  /\ create.at = "none" /\ create.session < MaxSessions
  /\ live = 0 \/ live \in over
  /\ create' = [at |-> "loading", session |-> create.session + 1, id |-> 0]
  /\ draining' = draining \union ({live} \ {0})
  /\ CASE live # 0 /\ CanFlush(live) ->
            Asks(live, FlushCall(live, owes[live]), FALSE, {})
       [] live # 0 /\ owes[live] = "none" ->
            stopped' = stopped \union {live} /\ UNCHANGED <<b, calls, owes, bad>>
       [] OTHER -> UNCHANGED <<b, calls, owes, stopped, bad>>
  /\ UNCHANGED <<live, over, countVars>>

\* The image's servers are read; activate() starts.
Activate ==
  /\ create.at = "loading"
  /\ create' = [create EXCEPT !.at = "activating", !.id = Len(b.ids) + 1]
  /\ Becomes(Activated(b, create.session), {})
  /\ UNCHANGED <<calls, live, over, pusherVars, countVars>>

\* startSession() publishes the session and announces it.
Start ==
  /\ create.at = "starting"
  /\ live' = create.session
  /\ owes' = [owes EXCEPT ![create.session] = "events"]
  /\ create' = NoCreate
  /\ UNCHANGED <<b, calls, over, stopped, draining, countVars, bad>>

\* The harness does not construct: session.error is drained, whose first flush
\* precedes handleCreate's deactivate().
StartFails ==
  /\ create.at = "starting"
  /\ LET s == create.session
         r == Ask(b, s, FlushCall(s, "terminal"), FALSE)
     IN  /\ Becomes(Deactivated(r.b, s), {})
         /\ calls' = [calls EXCEPT ![s] = r.call]
         /\ owes' = [owes EXCEPT ![s] = IF r.gaveUp THEN "none" ELSE "terminal"]
         /\ stopped' = IF r.gaveUp THEN stopped \union {s} ELSE stopped
         /\ draining' = draining \union {s}
         /\ over' = over \union {s}
  /\ create' = NoCreate
  /\ UNCHANGED <<live, countVars>>

\* A connector outside the platform, or a failed seed.
StartRefused ==
  /\ create.at = "starting"
  /\ Becomes(Deactivated(b, create.session), {})
  /\ over' = over \union {create.session}
  /\ create' = NoCreate
  /\ UNCHANGED <<calls, live, pusherVars, countVars>>

Running(s) == s = live /\ s \notin over

\* The session emits; what stops its pusher ends it (endUndeliverable).
Emit(s) ==
  /\ Running(s) /\ s \notin stopped /\ owes[s] = "none"
  /\ owes' = [owes EXCEPT ![s] = "events"]
  /\ UNCHANGED <<b, calls, sessionVars, stopped, draining, countVars, bad>>

End(s) ==
  /\ Running(s)
  /\ over' = over \union {s}
  /\ owes' = [owes EXCEPT ![s] = IF s \in stopped THEN "none" ELSE "terminal"]
  /\ UNCHANGED <<b, calls, create, live, stopped, draining, countVars, bad>>

-----------------------------------------------------------------------------

Init ==
  /\ b = Refresh(Started)
  /\ calls = [c \in Callers |-> IF c \in Clients THEN New ELSE Idle]
  /\ create = [at |-> "none", session |-> 0, id |-> 0]
  /\ live = 0 /\ over = {}
  /\ owes = [s \in Pushers |-> "none"]
  /\ stopped = {} /\ draining = {}
  /\ lapses = 0 /\ troubles = 0 /\ bad = {}

Next ==
  \/ \E s \in Pushers : Flush(s) \/ DrainStops(s) \/ Emit(s) \/ End(s)
  \/ \E c \in Clients : CliAsks(c) \/ ProxyRoute(c) \/ ProxyBody(c)
  \/ \E c \in Callers : Answer(c)
  \/ \E k \in DOMAIN b.ids : RenewEnds(k) \/ BackoffEnds(k) \/ Age(k)
  \/ Tick \/ Create \/ Activate \/ Start \/ StartFails \/ StartRefused

Spec == Init /\ [][Next]_vars

\* Timers fire, renewals and requests end or time out, drains have deadlines.
Fairness ==
  /\ \A s \in Pushers : WF_vars(Flush(s)) /\ WF_vars(Answer(s)) /\ WF_vars(DrainStops(s))
  /\ WF_vars(\E k \in DOMAIN b.ids : RenewEnds(k))
  /\ WF_vars(\E k \in DOMAIN b.ids : BackoffEnds(k))

FairSpec == Spec /\ Fairness

-----------------------------------------------------------------------------
(* Properties *)

Identity ==
  [session : 0..MaxSessions, age : {"fresh", "due", "expired"}, minted : Nat,
   credential : [of : 0..MaxSessions, by : Nat, n : Nat], renewing : BOOLEAN,
   backoff : BOOLEAN, refused : Nat, lastError : Nat, closed : BOOLEAN, row : Nat]

\* Every variable has its type; the broker has an open workspace identity, and
\* one of the active session beside it exactly while there is such a session.
TypeOK ==
  /\ b.ids \in Seq(Identity) /\ b.session \in 0..MaxSessions
  /\ b.wid \in DOMAIN b.ids /\ ~b.ids[b.wid].closed /\ b.ids[b.wid].session = 0
  /\ b.sid \in {0} \union DOMAIN b.ids /\ (b.sid = 0 <=> b.session = 0)
  /\ \A c \in Callers : calls[c].at \in {"new", "idle", "body", "waiting", "sending"}
  /\ create.at \in {"none", "loading", "activating", "starting"}
  /\ create.session \in 0..MaxSessions /\ live \in 0..MaxSessions
  /\ over \union stopped \union draining \subseteq Pushers
  /\ owes \in [Pushers -> {"none", "events", "terminal"}]

\* The broker serves the session that runs or starts, with an open identity and
\* its routes, through sleeps, late answers to older sessions' pushers, and
\* their clean-up: deactivate() ends nobody else's session.
BrokerServes ==
  \A s \in Pushers :
    (Running(s) /\ s \notin stopped) \/ (create.at = "starting" /\ create.session = s)
      => /\ b.session = s /\ b.routes = s
         /\ ~b.ids[b.sid].closed /\ b.ids[b.sid].session = s

\* A request carries its own session's credential, whichever session is active
\* when its body has been read or its 401 is retried; the CLI's, the workspace's.
OwnToken ==
  \A c \in Callers :
    calls[c].at = "sending" => /\ calls[c].credential.of = calls[c].session
                               /\ c \in Pushers => calls[c].session = c

\* get() hands out no credential that has expired, that anybody's 401 has
\* rejected, that a refused renewal revoked or the VM slept with, nor one of an
\* identity closed by a deactivation: not to who shares the renewal, nor to who
\* falls back on what there was.
HandsGood ==
  [][\A c \in Callers :
       calls'[c].at = "sending" /\ calls'[c].credential # calls[c].credential
         => /\ calls'[c].credential \notin bad'
            /\ ~b.ids[calls'[c].credential.by].closed]_vars

\* Without an answer to its events, a pusher gives up only when the control
\* plane has refused MAX_RENEWAL_REFUSALS renewals in a row, however often the
\* last refusal was served from backoff (#1664).
GiveUpPersists ==
  [][\A s \in Pushers :
       s \in stopped' \ stopped /\ calls[s].at # "sending" /\ b'.session # b.session
         => LET x == b.ids[b.sid]
            IN  x.row + (IF x.renewing THEN 1 ELSE 0) >= MaxRefusals]_vars

\* What a pusher has queued is delivered or its pusher stops: no refused or lost
\* renewal, sleep, rejected bearer or replaced session leaves it waiting.
EventuallyDelivered ==
  \A s \in Pushers : owes[s] # "none" ~> (owes[s] = "none" \/ s \in stopped)
=============================================================================
