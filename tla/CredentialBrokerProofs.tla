------------------------ MODULE CredentialBrokerProofs ------------------------
(***************************************************************************)
(* Proofs about CredentialBroker for any number of sessions, clients and   *)
(* refusals.  Its operations are operators from a broker to a broker: a    *)
(* lemma says what each keeps and what it hands out, and the actions put   *)
(* those together.                                                         *)
(***************************************************************************)
EXTENDS CredentialBroker, QueueLemmas

-----------------------------------------------------------------------------
(* The inductive invariant *)

Numbers == 0..MaxSessions
Credentials == [of : Numbers, by : Nat, n : Nat]
Batches == {"none", "events", "terminal"}

\* What a caller's request knows, and what a get() gives.
Calls ==
  [at : {"new", "idle", "body", "waiting", "sending"}, session : Numbers,
   id : Nat, fresh : BOOLEAN, retried : BOOLEAN, batch : Batches,
   credential : Credentials]
Gots == [at : {"failed", "sending", "waiting"}, credential : Credentials, error : Nat]

\* The identity at k: its credential, if it has one, is one it minted for its
\* session, a closed identity has none, and errors tell of refusals in a row.
IdentityOk(x, k) ==
  /\ x \in Identity
  /\ \/ x.credential = None
     \/ /\ x.credential.of = x.session /\ x.credential.by = k
        /\ x.credential.n <= x.minted /\ ~x.closed
  /\ x.refused = x.row /\ x.lastError <= x.row

BrokerRecord ==
  [ids : Seq(Identity), wid : Nat, session : Numbers, sid : Nat, routes : Numbers]

BrokerTyped(bb) ==
  bb \in BrokerRecord /\ \A k \in 1..Len(bb.ids) : IdentityOk(bb.ids[k], k)

\* The broker: no identity is open but the workspace's and the active session's.
BrokerOk(bb) ==
  /\ BrokerTyped(bb)
  /\ bb.wid \in 1..Len(bb.ids)
  /\ ~bb.ids[bb.wid].closed /\ bb.ids[bb.wid].session = 0
  /\ IF bb.session = 0 THEN bb.sid = 0
     ELSE /\ bb.sid \in 1..Len(bb.ids)
          /\ ~bb.ids[bb.sid].closed /\ bb.ids[bb.sid].session = bb.session
  /\ \A k \in 1..Len(bb.ids) : ~bb.ids[k].closed => k \in {bb.wid, bb.sid}

\* A request's credential or identity is of the request's session, and a pusher
\* asks for its own session only.
CallOk(c, call, bb) ==
  /\ call \in Calls
  /\ IF c \in Pushers THEN call.at # "new" /\ (call.at # "idle" => call.session = c)
     ELSE call.batch = "none"
  /\ call.at = "waiting" => /\ call.id \in 1..Len(bb.ids)
                            /\ bb.ids[call.id].session = call.session
  /\ call.at = "sending" =>
       /\ call.credential.of = call.session
       /\ call.credential.by \in 1..Len(bb.ids)
       /\ bb.ids[call.credential.by].session = call.session
       /\ ~bb.ids[call.credential.by].closed =>
            call.credential.n <= bb.ids[call.credential.by].minted

\* What is known to be bad was minted by an open identity, and is not what an
\* identity may still hand out.
BadOk(bb, bd) ==
  /\ \A c \in bd : /\ c \in Credentials /\ c.by \in 1..Len(bb.ids)
                   /\ ~bb.ids[c.by].closed /\ c.n <= bb.ids[c.by].minted
  /\ \A k \in 1..Len(bb.ids) : Usable(bb.ids[k]) => bb.ids[k].credential \notin bd

\* The active session is s, and so are the routes.
Serves(bb, s) == bb.session = s /\ bb.routes = s

\* handleCreate.
CreateOk ==
  /\ create \in [at : {"none", "loading", "activating", "starting"},
                 session : Numbers, id : Nat]
  /\ create.at # "none" => /\ create.session # 0
                           /\ live = 0 \/ live \in over
  /\ create.at = "activating" =>
       /\ b.session = create.session /\ create.id \in 1..Len(b.ids)
       /\ b.ids[create.id].session = create.session
  /\ create.at = "starting" => Serves(b, create.session)

\* The sessions: one that is yet to start has asked for nothing, which is why
\* no clean-up of another's can end it.
Future(s) == s > create.session \/ (s = create.session /\ create.at # "none")

SessionsOk ==
  /\ live \in 0..create.session
  /\ over \in SUBSET Pushers /\ stopped \in SUBSET Pushers
  /\ draining \in SUBSET Pushers /\ owes \in [Pushers -> Batches]
  /\ \A s \in Pushers :
       /\ Future(s) => s # live /\ calls[s] = Idle /\ owes[s] = "none"
       /\ Running(s) /\ s \notin stopped => Serves(b, s)

IInv ==
  /\ BrokerOk(b)
  /\ calls \in [Callers -> Calls] /\ \A c \in Callers : CallOk(c, calls[c], b)
  /\ BadOk(b, bad)
  /\ CreateOk /\ SessionsOk

-----------------------------------------------------------------------------
(* Identities *)

\* An identity's number and minting bound are numbers.
LEMMA IdentityTypes ==
  ASSUME NEW k, NEW x, IdentityOk(x, k)
  PROVE  /\ x.session \in Numbers /\ x.age \in {"fresh", "due", "expired"}
         /\ x.minted \in Nat /\ x.credential \in Credentials
         /\ x.renewing \in BOOLEAN /\ x.backoff \in BOOLEAN
         /\ x.refused \in Nat /\ x.lastError \in Nat
         /\ x.closed \in BOOLEAN /\ x.row \in Nat
BY DEF IdentityOk, Identity, Credentials, Numbers

\* No credential at all has the type of one.
LEMMA NoneIs == None \in Credentials
BY BrokerAssumption DEF None, Credentials, Numbers

\* A new identity has nothing to hand out.
LEMMA NewIdentityEffect ==
  ASSUME NEW n \in Numbers, NEW k \in Nat
  PROVE  LET x == NewIdentity(n)
         IN  IdentityOk(x, k) /\ x.session = n /\ ~x.closed /\ ~Usable(x)
BY NoneIs DEF NewIdentity, IdentityOk, Identity, Credentials, Numbers, Usable

\* A closed identity has nothing to hand out and stays its session's.
LEMMA CloseEffect ==
  ASSUME NEW k \in Nat, NEW x, IdentityOk(x, k)
  PROVE  LET y == Close(x)
         IN  IdentityOk(y, k) /\ y.session = x.session /\ y.closed /\ ~Usable(y)
<1> DEFINE n == NewIdentity(x.session)
<1>1. x.session \in Numbers /\ x.renewing \in BOOLEAN
  BY IdentityTypes
<1>2. IdentityOk(n, k) /\ n.session = x.session /\ n.credential = None
  BY <1>1, NewIdentityEffect DEF NewIdentity
<1>3. Close(x) = [n EXCEPT !.closed = TRUE, !.renewing = x.renewing]
  BY DEF Close
<1> HIDE DEF n
<1> QED BY <1>1, <1>2, <1>3 DEF IdentityOk, Identity, Usable

\* get() up to its await may drop the credential and begin a renewal.
LEMMA AskedEffect ==
  ASSUME NEW k \in Nat, NEW x, IdentityOk(x, k),
         NEW fresh \in BOOLEAN, NEW rejected \in BOOLEAN
  PROVE  LET y == Asked(x, fresh, rejected)
         IN  /\ IdentityOk(y, k) /\ y.session = x.session /\ y.closed = x.closed
             /\ y.minted = x.minted /\ y.row = x.row
             /\ Usable(y) => Usable(x) /\ y.credential = x.credential
             /\ rejected => ~Usable(y)
<1> DEFINE d == [x EXCEPT !.credential = None]
           c == IF rejected THEN d ELSE x
           r == [c EXCEPT !.renewing = TRUE]
<1>1. /\ IdentityOk(d, k) /\ d.session = x.session /\ d.closed = x.closed
      /\ d.minted = x.minted /\ d.row = x.row /\ d.credential = None
  BY NoneIs DEF IdentityOk, Identity, Credentials, Numbers
<1> HIDE DEF d
<1>2. /\ IdentityOk(c, k) /\ c.session = x.session /\ c.closed = x.closed
      /\ c.minted = x.minted /\ c.row = x.row
      /\ c.credential = IF rejected THEN None ELSE x.credential
      /\ ~rejected => c = x
  BY <1>1
<1>3. Asked(x, fresh, rejected) \in {x, c, r} /\ (~x.closed => Asked(x, fresh, rejected) \in {c, r})
  BY DEF Asked, d
<1> HIDE DEF c
<1>4. /\ IdentityOk(r, k) /\ r.session = c.session /\ r.closed = c.closed
      /\ r.minted = c.minted /\ r.row = c.row /\ r.credential = c.credential
      /\ r.age = c.age
  BY <1>2 DEF IdentityOk, Identity
<1> HIDE DEF r
<1>5. x.closed => x.credential = None
  BY DEF IdentityOk
<1>6. CASE x.closed
  <2>1. ~Usable(x) /\ ~Usable(c) /\ ~Usable(r)
    BY <1>2, <1>4, <1>5, <1>6 DEF Usable
  <2> QED BY <2>1, <1>2, <1>3, <1>4
<1>7. CASE ~x.closed
  <2>1. Usable(c) => ~rejected /\ c = x
    BY <1>2 DEF Usable
  <2>2. Usable(r) => Usable(c)
    BY <1>4 DEF Usable
  <2> QED BY <2>1, <2>2, <1>2, <1>3, <1>4, <1>7
<1> QED BY <1>6, <1>7

\* What get() gives before its await, or after it with nothing renewed: a usable
\* credential of an open identity, or an error no worse than the refusals in a row.
LEMMA GotEffect ==
  ASSUME NEW k \in Nat, NEW y, IdentityOk(y, k),
         NEW fresh \in BOOLEAN, NEW rejected \in BOOLEAN
  PROVE  LET got == Got(y, fresh, rejected)
         IN  /\ got \in Gots /\ (got.at = "failed" => got.error <= y.row)
             /\ got.at = "sending" =>
                  ~y.closed /\ Usable(y) /\ got.credential = y.credential
<1>1. /\ y.credential \in Credentials /\ y.lastError \in Nat /\ y.lastError <= y.row
      /\ y.row \in Nat
  BY IdentityTypes DEF IdentityOk
<1>2. Failed(0) \in Gots /\ Failed(y.lastError) \in Gots /\ Waits \in Gots
      /\ Has(y.credential) \in Gots
  BY <1>1, NoneIs DEF Failed, Waits, Has, Gots
<1>3. Cached(y, fresh, rejected) => Usable(y)
  BY DEF Cached, Usable
<1>4. \/ Got(y, fresh, rejected) \in {Failed(0), Failed(y.lastError), Waits}
      \/ ~y.closed /\ Usable(y) /\ Got(y, fresh, rejected) = Has(y.credential)
  BY <1>3 DEF Got, Fallback
<1>5. CASE Got(y, fresh, rejected) \in {Failed(0), Failed(y.lastError), Waits}
  BY <1>1, <1>2, <1>5 DEF Failed, Waits
<1>6. CASE ~y.closed /\ Usable(y) /\ Got(y, fresh, rejected) = Has(y.credential)
  BY <1>2, <1>6 DEF Has
<1> QED BY <1>4, <1>5, <1>6

\* A renewal that is granted, refused or not answered: the credentials it leaves
\* usable are the old one and the one just minted.
LEMMA GrantedEffect ==
  ASSUME NEW k \in Nat, NEW x, IdentityOk(x, k), ~x.closed
  PROVE  LET y == Granted(x, k)
         IN  /\ IdentityOk(y, k) /\ y.session = x.session /\ ~y.closed
             /\ y.minted = x.minted + 1 /\ Usable(y)
             /\ y.credential.n = x.minted + 1
<1> DEFINE c == [of |-> x.session, by |-> k, n |-> x.minted + 1]
           v == [x EXCEPT !.credential = c, !.minted = x.minted + 1, !.age = "fresh"]
           w == [v EXCEPT !.backoff = FALSE, !.refused = 0]
           y == [w EXCEPT !.lastError = 0, !.row = 0]
<1>1. x.minted \in Nat /\ x.session \in Numbers /\ x \in Identity
  BY IdentityTypes DEF IdentityOk
<1>2. c \in Credentials /\ c.of = x.session /\ c.by = k /\ c.n = x.minted + 1
  BY <1>1 DEF Credentials
<1>3. c # None
  BY <1>1, <1>2 DEF None
<1>4. Granted(x, k) = y
  BY <1>1 DEF Granted, Identity
<1> HIDE DEF c
<1>5. /\ v \in Identity /\ v.credential = c /\ v.minted = x.minted + 1
      /\ v.age = "fresh" /\ v.session = x.session /\ v.closed = x.closed
  BY <1>1, <1>2 DEF Identity, Credentials, Numbers
<1> HIDE DEF v
<1>6. /\ w \in Identity /\ w.credential = c /\ w.minted = x.minted + 1 /\ w.refused = 0
      /\ w.age = "fresh" /\ w.session = x.session /\ w.closed = x.closed
  BY <1>5 DEF Identity
<1> HIDE DEF w
<1>7. /\ y \in Identity /\ y.credential = c /\ y.minted = x.minted + 1 /\ y.refused = 0
      /\ y.age = "fresh" /\ y.session = x.session /\ y.closed = x.closed
      /\ y.lastError = 0 /\ y.row = 0
  BY <1>6 DEF Identity
<1> HIDE DEF y
<1> QED BY <1>1, <1>2, <1>3, <1>4, <1>7 DEF IdentityOk, Usable, c

\* A refused renewal takes the credential, and counts one more refusal in a row.
LEMMA RefusedEffect ==
  ASSUME NEW k \in Nat, NEW x, IdentityOk(x, k), NEW minded \in BOOLEAN
  PROVE  LET y == Refused(x, minded)
         IN  /\ IdentityOk(y, k) /\ y.session = x.session /\ y.closed = x.closed
             /\ y.minted = x.minted /\ ~Usable(y) /\ y.row = x.row + 1
<1> DEFINE e == IF minded THEN x.refused + 1 ELSE 0
           u == [x EXCEPT !.credential = None]
           v == [u EXCEPT !.refused = x.refused + 1]
           y == [v EXCEPT !.backoff = TRUE, !.row = x.row + 1, !.lastError = e]
<1>1. x.refused \in Nat /\ x.row \in Nat /\ x \in Identity /\ x.refused = x.row
  BY IdentityTypes DEF IdentityOk
<1>2. e \in Nat /\ e <= x.row + 1
  BY <1>1
<1>3. Refused(x, minded) = y
  BY <1>1 DEF Refused, Identity
<1> HIDE DEF e
<1>31. /\ u \in Identity /\ u.credential = None /\ u.refused = x.refused
       /\ u.session = x.session /\ u.closed = x.closed /\ u.minted = x.minted
  BY <1>1, NoneIs DEF Identity, Credentials, Numbers
<1> HIDE DEF u
<1>4. /\ v \in Identity /\ v.credential = None /\ v.refused = x.refused + 1
      /\ v.session = x.session /\ v.closed = x.closed /\ v.minted = x.minted
  BY <1>1, <1>31 DEF Identity
<1> HIDE DEF v
<1>5. /\ y \in Identity /\ y.credential = None /\ y.refused = x.refused + 1
      /\ y.session = x.session /\ y.closed = x.closed /\ y.minted = x.minted
      /\ y.row = x.row + 1 /\ y.lastError = e
  BY <1>1, <1>2, <1>4 DEF Identity
<1> HIDE DEF y
<1> QED BY <1>1, <1>2, <1>3, <1>5 DEF IdentityOk, Usable

\* One that is not answered takes nothing, and starts the count of refusals again.
LEMMA UnansweredEffect ==
  ASSUME NEW k \in Nat, NEW x, IdentityOk(x, k)
  PROVE  LET y == Unanswered(x)
         IN  /\ IdentityOk(y, k) /\ y.session = x.session /\ y.closed = x.closed
             /\ y.minted = x.minted /\ (Usable(y) = Usable(x))
             /\ y.credential = x.credential
<1> DEFINE y == Unanswered(x)
<1>1. /\ y \in Identity /\ y.credential = x.credential /\ y.refused = 0 /\ y.row = 0
      /\ y.lastError = 0 /\ y.session = x.session /\ y.closed = x.closed
      /\ y.minted = x.minted /\ y.age = x.age
  BY DEF Unanswered, Identity, IdentityOk
<1> HIDE DEF y
<1> QED BY <1>1 DEF IdentityOk, Usable, y

\* The flag of a renewal under way is the renewal's own.
LEMMA RenewingEffect ==
  ASSUME NEW k \in Nat, NEW x, IdentityOk(x, k)
  PROVE  LET y == [x EXCEPT !.renewing = FALSE]
         IN  /\ IdentityOk(y, k) /\ y.session = x.session /\ y.closed = x.closed
             /\ y.minted = x.minted /\ y.credential = x.credential
             /\ Usable(y) = Usable(x)
<1> DEFINE y == [x EXCEPT !.renewing = FALSE]
<1>1. /\ y \in Identity /\ y.credential = x.credential /\ y.refused = x.refused
      /\ y.row = x.row /\ y.lastError = x.lastError /\ y.session = x.session
      /\ y.closed = x.closed /\ y.minted = x.minted /\ y.age = x.age
  BY DEF Identity, IdentityOk
<1> HIDE DEF y
<1> QED BY <1>1 DEF IdentityOk, Usable, y

\* The end of renew(): of a closed identity, granted, refused, or not answered.
\* y is what it leaves, got what those who wait for it are given, worse what it
\* shows to be bad.
Renewed(x, k, y, got, worse) ==
  /\ IdentityOk(y, k) /\ y.session = x.session /\ y.closed = x.closed
  /\ x.minted <= y.minted
  /\ got \in Gots /\ got.at \in {"sending", "failed"}
  /\ got.at = "failed" => got.error <= x.row + 1 /\ (x.closed => got.error = 0)
  /\ got.at = "sending" => ~x.closed /\ Usable(y) /\ got.credential = y.credential
  /\ Usable(y) => \/ Usable(x) /\ y.credential = x.credential
                  \/ y.credential.n = x.minted + 1
  /\ \A c \in worse : /\ c = None \/ c = x.credential
                      /\ ~Usable(y)

\* Each of the four ends of renew() is one as Renewed says.
LEMMA RenewalsEnd ==
  ASSUME NEW k \in Nat, NEW x, IdentityOk(x, k), NEW minded \in BOOLEAN
  PROVE  /\ x.closed => Renewed(x, k, x, Failed(0), {})
         /\ ~x.closed =>
              /\ Renewed(x, k, Granted(x, k), Has(Granted(x, k).credential), {})
              /\ Renewed(x, k, Refused(x, minded),
                         Failed(Refused(x, minded).lastError), {x.credential})
              /\ Renewed(x, k, Unanswered(x), Failed(0), {})
<1>1. /\ x.minted \in Nat /\ x.row \in Nat /\ x.credential \in Credentials
      /\ x.session \in Numbers
  BY IdentityTypes
<1>2. ASSUME NEW e \in Nat
      PROVE  Failed(e) \in Gots /\ Failed(e).at = "failed" /\ Failed(e).error = e
  BY NoneIs DEF Failed, Gots
<1>3. ASSUME NEW c \in Credentials
      PROVE  Has(c) \in Gots /\ Has(c).at = "sending" /\ Has(c).credential = c
  BY DEF Has, Gots
<1>4. ASSUME x.closed PROVE Renewed(x, k, x, Failed(0), {})
  BY <1>1, <1>2, <1>4 DEF Renewed
<1>5. ASSUME ~x.closed
      PROVE  Renewed(x, k, Granted(x, k), Has(Granted(x, k).credential), {})
  <2> DEFINE y == Granted(x, k)
  <2>1. /\ IdentityOk(y, k) /\ y.session = x.session /\ ~y.closed
        /\ y.minted = x.minted + 1 /\ Usable(y) /\ y.credential.n = x.minted + 1
    BY <1>5, GrantedEffect
  <2> HIDE DEF y
  <2>11. y.credential \in Credentials /\ y.closed \in BOOLEAN /\ x.closed \in BOOLEAN
    BY <2>1, IdentityTypes
  <2>2. /\ Has(y.credential) \in Gots /\ Has(y.credential).at = "sending"
        /\ Has(y.credential).credential = y.credential
    BY <2>11, <1>3
  <2> QED BY <1>1, <1>5, <2>1, <2>11, <2>2 DEF Renewed, y
<1>6. ASSUME ~x.closed
      PROVE  Renewed(x, k, Refused(x, minded), Failed(Refused(x, minded).lastError),
                     {x.credential})
  <2> DEFINE y == Refused(x, minded)
  <2>1. /\ IdentityOk(y, k) /\ y.session = x.session /\ y.closed = x.closed
        /\ y.minted = x.minted /\ ~Usable(y) /\ y.row = x.row + 1
    BY RefusedEffect
  <2> HIDE DEF y
  <2>2. y.lastError \in Nat /\ y.lastError <= y.row
    BY <2>1, IdentityTypes DEF IdentityOk
  <2> QED BY <1>1, <1>2, <1>6, <2>1, <2>2 DEF Renewed, y
<1>7. Renewed(x, k, Unanswered(x), Failed(0), {})
  <2> DEFINE y == Unanswered(x)
  <2>1. /\ IdentityOk(y, k) /\ y.session = x.session /\ y.closed = x.closed
        /\ y.minted = x.minted /\ (Usable(y) = Usable(x))
        /\ y.credential = x.credential
    BY UnansweredEffect
  <2> HIDE DEF y
  <2> QED BY <1>1, <1>2, <2>1 DEF Renewed, y
<1> QED BY <1>4, <1>5, <1>6, <1>7

-----------------------------------------------------------------------------
(* The broker's operations *)

\* cc is bb some steps on: its identities are still there, and what was closed
\* stays closed.
Stays(bb, cc) ==
  /\ Len(bb.ids) <= Len(cc.ids)
  /\ \A k \in 1..Len(bb.ids) :
       /\ cc.ids[k].session = bb.ids[k].session
       /\ ~cc.ids[k].closed =>
            ~bb.ids[k].closed /\ bb.ids[k].minted <= cc.ids[k].minted

\* Beside that, nothing is usable that was not.
Follows(bb, cc) ==
  /\ Stays(bb, cc)
  /\ \A k \in 1..Len(cc.ids) :
       Usable(cc.ids[k]) => /\ k \in 1..Len(bb.ids) /\ Usable(bb.ids[k])
                            /\ cc.ids[k].credential = bb.ids[k].credential

SameService(bb, cc) == cc.session = bb.session /\ cc.routes = bb.routes

\* The types of a broker's parts.
LEMMA BrokerTypes ==
  ASSUME NEW bb, BrokerTyped(bb)
  PROVE  /\ bb.ids \in Seq(Identity) /\ Len(bb.ids) \in Nat /\ bb.session \in Numbers
         /\ bb.wid \in Nat /\ bb.sid \in Nat /\ bb.routes \in Numbers
         /\ \A k \in 1..Len(bb.ids) : bb.ids[k] \in Identity /\ bb.ids[k].minted \in Nat
<1>1. /\ bb.ids \in Seq(Identity) /\ bb.session \in Numbers
      /\ bb.wid \in Nat /\ bb.sid \in Nat /\ bb.routes \in Numbers
  BY DEF BrokerTyped, BrokerRecord
<1>2. ASSUME NEW k \in 1..Len(bb.ids)
      PROVE  bb.ids[k] \in Identity /\ bb.ids[k].minted \in Nat
  BY IdentityTypes DEF BrokerTyped, IdentityOk
<1> QED BY <1>1, <1>2

\* A broker that stays as it is goes on as Follows says.
LEMMA FollowsItself ==
  ASSUME NEW bb, BrokerTyped(bb)
  PROVE  Follows(bb, bb)
<1>1. Len(bb.ids) \in Nat /\ \A k \in 1..Len(bb.ids) : bb.ids[k].minted \in Nat
  BY BrokerTypes
<1> QED BY <1>1 DEF Follows, Stays

\* Stays is transitive.
LEMMA StaysOn ==
  ASSUME NEW bb, NEW cc, NEW dd, BrokerTyped(bb), BrokerTyped(cc), BrokerTyped(dd),
         Stays(bb, cc), Stays(cc, dd)
  PROVE  Stays(bb, dd)
<1>1. /\ Len(bb.ids) \in Nat /\ Len(cc.ids) \in Nat /\ Len(dd.ids) \in Nat
      /\ Len(bb.ids) <= Len(cc.ids) /\ Len(cc.ids) <= Len(dd.ids)
  BY BrokerTypes DEF Stays
<1>2. ASSUME NEW k \in 1..Len(bb.ids)
      PROVE  /\ dd.ids[k].session = bb.ids[k].session
             /\ ~dd.ids[k].closed =>
                  ~bb.ids[k].closed /\ bb.ids[k].minted <= dd.ids[k].minted
  <2>1. k \in 1..Len(cc.ids) /\ k \in 1..Len(dd.ids)
    BY <1>1
  <2>2. bb.ids[k].minted \in Nat /\ cc.ids[k].minted \in Nat /\ dd.ids[k].minted \in Nat
    BY <2>1, BrokerTypes
  <2>3. /\ cc.ids[k].session = bb.ids[k].session
        /\ ~cc.ids[k].closed =>
             ~bb.ids[k].closed /\ bb.ids[k].minted <= cc.ids[k].minted
    BY DEF Stays
  <2>4. /\ dd.ids[k].session = cc.ids[k].session
        /\ ~dd.ids[k].closed =>
             ~cc.ids[k].closed /\ cc.ids[k].minted <= dd.ids[k].minted
    BY <2>1 DEF Stays
  <2> QED BY <2>2, <2>3, <2>4
<1> QED BY <1>1, <1>2 DEF Stays

\* Follows is transitive.
LEMMA FollowsOn ==
  ASSUME NEW bb, NEW cc, NEW dd, BrokerTyped(bb), BrokerTyped(cc), BrokerTyped(dd),
         Follows(bb, cc), Follows(cc, dd)
  PROVE  Follows(bb, dd)
<1>1. Stays(bb, dd)
  BY StaysOn DEF Follows
<1>2. ASSUME NEW k \in 1..Len(dd.ids), Usable(dd.ids[k])
      PROVE  /\ k \in 1..Len(bb.ids) /\ Usable(bb.ids[k])
             /\ dd.ids[k].credential = bb.ids[k].credential
  BY <1>2 DEF Follows
<1> QED BY <1>1, <1>2 DEF Follows

\* One identity changes.
LEMMA UpdateTyped ==
  ASSUME NEW bb, BrokerTyped(bb), NEW k \in 1..Len(bb.ids), NEW y, IdentityOk(y, k)
  PROVE  LET cc == [bb EXCEPT !.ids[k] = y]
         IN  /\ BrokerTyped(cc) /\ SameService(bb, cc) /\ cc.sid = bb.sid
             /\ cc.wid = bb.wid /\ Len(cc.ids) = Len(bb.ids) /\ cc.ids[k] = y
             /\ \A j \in 1..Len(bb.ids) : j # k => cc.ids[j] = bb.ids[j]
<1> DEFINE q == [bb.ids EXCEPT ![k] = y]
           cc == [bb EXCEPT !.ids = q]
<1>1. /\ bb.ids \in Seq(Identity) /\ y \in Identity
      /\ bb \in BrokerRecord /\ \A j \in 1..Len(bb.ids) : IdentityOk(bb.ids[j], j)
  BY DEF BrokerTyped, IdentityOk, BrokerRecord
<1>2. /\ q \in Seq(Identity) /\ Len(q) = Len(bb.ids) /\ q[k] = y
      /\ \A j \in 1..Len(bb.ids) : j # k => q[j] = bb.ids[j]
  BY <1>1
<1>3. [bb EXCEPT !.ids[k] = y] = cc
  BY <1>1 DEF BrokerRecord
<1> HIDE DEF q
<1>4. /\ cc \in BrokerRecord
      /\ cc.ids = q /\ cc.wid = bb.wid /\ cc.sid = bb.sid /\ SameService(bb, cc)
  BY <1>1, <1>2 DEF SameService, BrokerRecord
<1> HIDE DEF cc
<1>5. \A j \in 1..Len(bb.ids) : IdentityOk(cc.ids[j], j)
  BY <1>1, <1>2, <1>4
<1> QED BY <1>2, <1>3, <1>4, <1>5 DEF BrokerTyped

\* One that stays of its session and as open as it was.
LEMMA UpdateKeeps ==
  ASSUME NEW bb, BrokerOk(bb), NEW k \in 1..Len(bb.ids), NEW y, IdentityOk(y, k),
         y.session = bb.ids[k].session, y.closed = bb.ids[k].closed
  PROVE  BrokerOk([bb EXCEPT !.ids[k] = y])
<1> DEFINE cc == [bb EXCEPT !.ids[k] = y]
<1>1. /\ BrokerTyped(cc) /\ SameService(bb, cc) /\ cc.sid = bb.sid
      /\ cc.wid = bb.wid /\ Len(cc.ids) = Len(bb.ids) /\ cc.ids[k] = y
      /\ \A j \in 1..Len(bb.ids) : j # k => cc.ids[j] = bb.ids[j]
  BY UpdateTyped DEF BrokerOk
<1> HIDE DEF cc
<1>2. \A j \in 1..Len(bb.ids) :
        cc.ids[j].session = bb.ids[j].session /\ cc.ids[j].closed = bb.ids[j].closed
  BY <1>1
<1>3. BrokerOk(cc)
  BY <1>1, <1>2 DEF BrokerOk, SameService
<1> QED BY <1>3 DEF cc

\* Such a change leaves the broker's identities in place.
LEMMA UpdateFollows ==
  ASSUME NEW bb, NEW cc, BrokerTyped(bb), BrokerTyped(cc), NEW k \in 1..Len(bb.ids),
         Len(cc.ids) = Len(bb.ids),
         \A j \in 1..Len(bb.ids) : j # k => cc.ids[j] = bb.ids[j],
         cc.ids[k].session = bb.ids[k].session, cc.ids[k].closed = bb.ids[k].closed,
         bb.ids[k].minted <= cc.ids[k].minted,
         Usable(cc.ids[k]) =>
           Usable(bb.ids[k]) /\ cc.ids[k].credential = bb.ids[k].credential
  PROVE  Follows(bb, cc)
<1>1. Len(bb.ids) \in Nat /\ \A j \in 1..Len(bb.ids) : bb.ids[j].minted \in Nat
  BY BrokerTypes
<1> QED BY <1>1 DEF Follows, Stays

\* get() up to its await.
LEMMA AfterKeeps ==
  ASSUME NEW bb, BrokerOk(bb), NEW k \in {0} \union 1..Len(bb.ids),
         NEW fresh \in BOOLEAN, NEW rejected \in BOOLEAN
  PROVE  LET cc == After(bb, k, fresh, rejected)
         IN  /\ BrokerOk(cc) /\ Follows(bb, cc) /\ SameService(bb, cc)
             /\ cc.sid = bb.sid /\ cc.wid = bb.wid /\ Len(cc.ids) = Len(bb.ids)
             /\ k # 0 => cc.ids[k] = Asked(bb.ids[k], fresh, rejected)
<1>0. Len(bb.ids) \in Nat
  BY BrokerTypes DEF BrokerOk
<1>1. CASE k = 0
  BY <1>1, FollowsItself DEF After, SameService, BrokerOk
<1>2. CASE k \in 1..Len(bb.ids)
  <2> DEFINE x == bb.ids[k]
             y == Asked(x, fresh, rejected)
             cc == [bb EXCEPT !.ids[k] = y]
  <2>1. k \in Nat /\ IdentityOk(x, k) /\ x.minted \in Nat
    BY <1>0, <1>2, BrokerTypes DEF BrokerOk, BrokerTyped
  <2>2. After(bb, k, fresh, rejected) = cc
    BY <1>2, <1>0 DEF After
  <2>3. /\ IdentityOk(y, k) /\ y.session = x.session /\ y.closed = x.closed
        /\ y.minted = x.minted
        /\ Usable(y) => Usable(x) /\ y.credential = x.credential
    BY <2>1, AskedEffect
  <2> HIDE DEF y
  <2>4. /\ BrokerOk(cc) /\ SameService(bb, cc) /\ cc.sid = bb.sid
        /\ cc.wid = bb.wid /\ Len(cc.ids) = Len(bb.ids) /\ cc.ids[k] = y
        /\ \A j \in 1..Len(bb.ids) : j # k => cc.ids[j] = bb.ids[j]
    BY <1>2, <2>3, UpdateKeeps, UpdateTyped DEF BrokerOk
  <2> HIDE DEF cc
  <2>5. Follows(bb, cc)
    BY <1>2, <2>1, <2>3, <2>4, UpdateFollows DEF BrokerOk
  <2> QED BY <2>2, <2>4, <2>5 DEF y
<1> QED BY <1>1, <1>2

\* The identity that serves a session is open and that session's.
LEMMA IdentityOfIs ==
  ASSUME NEW bb, BrokerOk(bb), NEW n \in Numbers
  PROVE  LET k == IdentityOf(bb, n)
         IN  /\ k \in {0} \union 1..Len(bb.ids)
             /\ k # 0 => ~bb.ids[k].closed /\ bb.ids[k].session = n
             /\ k = 0 => n # 0 /\ n # bb.session
             /\ n # 0 /\ k # 0 => k = bb.sid /\ bb.session = n
<1>1. Len(bb.ids) \in Nat /\ bb.wid \in Nat /\ bb.sid \in Nat /\ bb.session \in Numbers
  BY BrokerTypes DEF BrokerOk
<1> QED BY <1>1 DEF IdentityOf, BrokerOk, Numbers

\* The get() that nobody awaits keeps the broker in order.
LEMMA RefreshKeeps ==
  ASSUME NEW bb, BrokerOk(bb)
  PROVE  LET cc == Refresh(bb)
         IN  /\ BrokerOk(cc) /\ Follows(bb, cc) /\ SameService(bb, cc)
             /\ Len(cc.ids) = Len(bb.ids)
<1>1. bb.session \in Numbers
  BY BrokerTypes DEF BrokerOk
<1>2. IdentityOf(bb, bb.session) \in {0} \union 1..Len(bb.ids)
  BY <1>1, IdentityOfIs
<1> QED BY <1>2, AfterKeeps DEF Refresh

\* The same identities, whatever else of the broker changes.
LEMMA SameIdsFollow ==
  ASSUME NEW bb, NEW cc, NEW dd, BrokerTyped(bb), BrokerTyped(cc), BrokerTyped(dd),
         Follows(bb, cc), dd.ids = cc.ids
  PROVE  Follows(bb, dd)
BY DEF Follows, Stays

\* Closing an identity, if there is one.
LEMMA CloseKeeps ==
  ASSUME NEW bb, BrokerTyped(bb), NEW k \in {0} \union 1..Len(bb.ids)
  PROVE  LET cc == CloseIdentity(bb, k)
         IN  /\ BrokerTyped(cc) /\ Follows(bb, cc) /\ SameService(bb, cc)
             /\ cc.sid = bb.sid /\ cc.wid = bb.wid /\ Len(cc.ids) = Len(bb.ids)
             /\ k # 0 => cc.ids[k].closed
             /\ \A j \in 1..Len(bb.ids) : j # k => cc.ids[j] = bb.ids[j]
<1>0. Len(bb.ids) \in Nat
  BY BrokerTypes
<1>1. CASE k = 0
  BY <1>1, FollowsItself DEF CloseIdentity, SameService
<1>2. CASE k \in 1..Len(bb.ids)
  <2> DEFINE x == bb.ids[k]
             y == Close(x)
             cc == [bb EXCEPT !.ids[k] = y]
  <2>1. k \in Nat /\ k # 0 /\ IdentityOk(x, k)
    BY <1>0, <1>2 DEF BrokerTyped
  <2>2. CloseIdentity(bb, k) = cc
    BY <2>1 DEF CloseIdentity
  <2>3. IdentityOk(y, k) /\ y.session = x.session /\ y.closed /\ ~Usable(y)
    BY <2>1, CloseEffect
  <2> HIDE DEF y
  <2>4. /\ BrokerTyped(cc) /\ SameService(bb, cc) /\ cc.sid = bb.sid
        /\ cc.wid = bb.wid /\ Len(cc.ids) = Len(bb.ids) /\ cc.ids[k] = y
        /\ \A j \in 1..Len(bb.ids) : j # k => cc.ids[j] = bb.ids[j]
    BY <1>2, <2>3, UpdateTyped
  <2> HIDE DEF cc
  <2>5. \A j \in 1..Len(bb.ids) : bb.ids[j].minted \in Nat
    BY BrokerTypes
  <2>6. Follows(bb, cc)
    <3>1. ASSUME NEW j \in 1..Len(bb.ids)
          PROVE  /\ cc.ids[j].session = bb.ids[j].session
                 /\ ~cc.ids[j].closed =>
                      ~bb.ids[j].closed /\ bb.ids[j].minted <= cc.ids[j].minted
                 /\ Usable(cc.ids[j]) => j # k
      BY <1>2, <2>3, <2>4, <2>5
    <3> HIDE DEF x
    <3> QED BY <1>0, <2>4, <3>1 DEF Follows, Stays
  <2> QED BY <2>2, <2>3, <2>4, <2>6
<1> QED BY <1>1, <1>2

\* An identity more.
LEMMA AppendKeeps ==
  ASSUME NEW bb, BrokerTyped(bb), NEW n \in Numbers
  PROVE  LET cc == [bb EXCEPT !.ids = Append(@, NewIdentity(n))]
         IN  /\ BrokerTyped(cc) /\ Follows(bb, cc) /\ SameService(bb, cc)
             /\ cc.sid = bb.sid /\ cc.wid = bb.wid /\ Len(cc.ids) = Len(bb.ids) + 1
             /\ cc.ids[Len(cc.ids)].session = n /\ ~cc.ids[Len(cc.ids)].closed
             /\ \A j \in 1..Len(bb.ids) : cc.ids[j] = bb.ids[j]
<1> DEFINE x == NewIdentity(n)
           q == Append(bb.ids, x)
           L == Len(bb.ids)
           cc == [bb EXCEPT !.ids = q]
<1>1. /\ bb.ids \in Seq(Identity) /\ L \in Nat /\ bb \in BrokerRecord
      /\ \A j \in 1..L : bb.ids[j].minted \in Nat
  BY BrokerTypes DEF BrokerTyped
<1>2. IdentityOk(x, L + 1) /\ x.session = n /\ ~x.closed /\ ~Usable(x)
  BY <1>1, NewIdentityEffect
<1>3. x \in Identity
  BY <1>2 DEF IdentityOk
<1> HIDE DEF x
<1>4. /\ q \in Seq(Identity) /\ Len(q) = L + 1 /\ q[L + 1] = x
      /\ \A j \in 1..L : q[j] = bb.ids[j]
  BY <1>1, <1>3
<1> HIDE DEF q
<1>5. /\ cc \in BrokerRecord /\ cc.ids = q /\ SameService(bb, cc)
      /\ cc.sid = bb.sid /\ cc.wid = bb.wid
  BY <1>1, <1>4 DEF BrokerRecord, SameService
<1>6. [bb EXCEPT !.ids = Append(@, NewIdentity(n))] = cc
  BY DEF q, x
<1> HIDE DEF cc
<1>7. \A j \in 1..(L + 1) : j \in 1..L \/ j = L + 1
  BY <1>1
<1>8. BrokerTyped(cc)
  BY <1>2, <1>4, <1>5, <1>7 DEF BrokerTyped
<1>9. Follows(bb, cc)
  BY <1>1, <1>2, <1>4, <1>5, <1>7 DEF Follows, Stays
<1> QED BY <1>2, <1>4, <1>5, <1>6, <1>8, <1>9

\* deactivate() of the active session leaves the workspace alone open.
LEMMA InactiveKeeps ==
  ASSUME NEW bb, BrokerOk(bb)
  PROVE  BrokerOk(Inactive(bb)) /\ Follows(bb, Inactive(bb))
<1> DEFINE v == CloseIdentity(bb, bb.sid)
           w == Inactive(bb)
<1>1. /\ BrokerTyped(bb) /\ Len(bb.ids) \in Nat /\ bb.sid \in {0} \union 1..Len(bb.ids)
      /\ bb.wid \in 1..Len(bb.ids) /\ bb.wid # bb.sid
      /\ ~bb.ids[bb.wid].closed /\ bb.ids[bb.wid].session = 0
      /\ \A k \in 1..Len(bb.ids) : ~bb.ids[k].closed => k \in {bb.wid, bb.sid}
  BY BrokerTypes DEF BrokerOk
<1>2. /\ BrokerTyped(v) /\ Follows(bb, v) /\ v.wid = bb.wid /\ Len(v.ids) = Len(bb.ids)
      /\ bb.sid # 0 => v.ids[bb.sid].closed
      /\ \A j \in 1..Len(bb.ids) : j # bb.sid => v.ids[j] = bb.ids[j]
  BY <1>1, CloseKeeps
<1>3. w = [v EXCEPT !.session = 0, !.sid = 0, !.routes = 0]
  BY DEF Inactive
<1> HIDE DEF v, w
<1>4. /\ w \in BrokerRecord /\ w.ids = v.ids /\ w.wid = v.wid /\ w.session = 0
      /\ w.sid = 0
  <2>1. v \in BrokerRecord /\ 0 \in Numbers /\ 0 \in Nat
    BY <1>2, BrokerAssumption DEF BrokerTyped, Numbers
  <2> QED BY <1>3, <2>1 DEF BrokerRecord
<1>5. BrokerTyped(w)
  BY <1>2, <1>4 DEF BrokerTyped
<1>6. BrokerOk(w)
  BY <1>1, <1>2, <1>4, <1>5 DEF BrokerOk
<1>7. Follows(bb, w)
  BY <1>1, <1>2, <1>4, <1>5, SameIdsFollow
<1> QED BY <1>6, <1>7 DEF w

\* deactivate() of any session ends that session's service at most.
LEMMA DeactivatedKeeps ==
  ASSUME NEW bb, BrokerOk(bb), NEW n
  PROVE  LET cc == Deactivated(bb, n)
         IN  /\ BrokerOk(cc) /\ Follows(bb, cc)
             /\ bb.session # n => cc = bb
<1>1. CASE bb.session # n
  BY <1>1, FollowsItself DEF Deactivated, BrokerOk
<1>2. CASE bb.session = n
  <2> DEFINE w == Inactive(bb)
  <2>1. BrokerOk(w) /\ Follows(bb, w)
    BY InactiveKeeps
  <2>2. Deactivated(bb, n) = Refresh(w)
    BY <1>2 DEF Deactivated
  <2> HIDE DEF w
  <2>3. BrokerOk(Refresh(w)) /\ Follows(w, Refresh(w))
    BY <2>1, RefreshKeeps
  <2> QED BY <1>2, <2>1, <2>2, <2>3, FollowsOn DEF BrokerOk
<1> QED BY <1>1, <1>2

\* activate() up to its await: the next session's identity is the last one.
LEMMA ActivatedKeeps ==
  ASSUME NEW bb, BrokerOk(bb), NEW n \in Numbers, n # 0
  PROVE  LET cc == Activated(bb, n)
             k == Len(bb.ids) + 1
         IN  /\ BrokerOk(cc) /\ Follows(bb, cc) /\ cc.session = n
             /\ k \in 1..Len(cc.ids) /\ cc.ids[k].session = n
<1> DEFINE L == Len(bb.ids)
           v == CloseIdentity(bb, bb.sid)
           w == [v EXCEPT !.ids = Append(@, NewIdentity(n))]
           u == [w EXCEPT !.session = n, !.sid = L + 1, !.routes = 0]
           cc == Activated(bb, n)
<1>1. /\ BrokerTyped(bb) /\ L \in Nat /\ bb.sid \in {0} \union 1..L
      /\ bb.wid \in 1..L /\ bb.wid # bb.sid
      /\ ~bb.ids[bb.wid].closed /\ bb.ids[bb.wid].session = 0
      /\ \A k \in 1..L : ~bb.ids[k].closed => k \in {bb.wid, bb.sid}
  BY BrokerTypes DEF BrokerOk
<1>2. /\ BrokerTyped(v) /\ Follows(bb, v) /\ v.wid = bb.wid /\ Len(v.ids) = L
      /\ bb.sid # 0 => v.ids[bb.sid].closed
      /\ \A j \in 1..L : j # bb.sid => v.ids[j] = bb.ids[j]
  BY <1>1, CloseKeeps
<1>3. [v EXCEPT !.ids = Append(@, NewIdentity(n)), !.session = n, !.sid = L + 1,
                !.routes = 0] = u
  BY <1>2 DEF BrokerTyped, BrokerRecord
<1>4. cc = Refresh(u)
  BY <1>3 DEF Activated
<1> HIDE DEF v
<1>5. /\ BrokerTyped(w) /\ Follows(v, w) /\ w.wid = v.wid /\ Len(w.ids) = L + 1
      /\ w.ids[L + 1].session = n /\ ~w.ids[L + 1].closed
      /\ \A j \in 1..L : w.ids[j] = v.ids[j]
  <2>1. /\ BrokerTyped(w) /\ Follows(v, w) /\ w.wid = v.wid
        /\ Len(w.ids) = Len(v.ids) + 1
        /\ w.ids[Len(w.ids)].session = n /\ ~w.ids[Len(w.ids)].closed
        /\ \A j \in 1..Len(v.ids) : w.ids[j] = v.ids[j]
    BY <1>2, AppendKeeps DEF SameService
  <2> HIDE DEF w
  <2> QED BY <1>2, <2>1
<1>6. Follows(bb, w)
  BY <1>1, <1>2, <1>5, FollowsOn
<1> HIDE DEF w
<1>7. /\ u \in BrokerRecord /\ u.ids = w.ids /\ u.wid = bb.wid /\ u.session = n
      /\ u.sid = L + 1
  <2>1. w \in BrokerRecord /\ 0 \in Numbers /\ L + 1 \in Nat
    BY <1>1, <1>5, BrokerAssumption DEF BrokerTyped, Numbers
  <2> HIDE DEF L
  <2> QED BY <1>2, <1>5, <2>1 DEF BrokerRecord
<1> HIDE DEF u
<1>8. BrokerTyped(u)
  BY <1>5, <1>7 DEF BrokerTyped
<1>9. \A j \in 1..(L + 1) : j \in 1..L \/ j = L + 1
  BY <1>1
<1>10. BrokerOk(u)
  <2>1. u.wid \in 1..Len(u.ids) /\ u.sid \in 1..Len(u.ids)
    BY <1>1, <1>5, <1>7
  <2>2. ~u.ids[u.wid].closed /\ u.ids[u.wid].session = 0
    BY <1>1, <1>2, <1>5, <1>7
  <2>3. ASSUME NEW j \in 1..Len(u.ids), ~u.ids[j].closed PROVE j \in {u.wid, u.sid}
    <3>1. CASE j \in 1..L
      <4>1. u.ids[j] = v.ids[j]
        BY <1>5, <1>7, <3>1
      <4>2. j # bb.sid
        BY <1>1, <1>2, <2>3, <3>1, <4>1
      <4>3. j = bb.wid
        BY <1>1, <1>2, <2>3, <3>1, <4>1, <4>2
      <4> QED BY <1>7, <4>3
    <3>2. CASE j = L + 1
      BY <1>7, <3>2
    <3> QED BY <1>5, <1>7, <1>9, <3>1, <3>2
  <2> QED BY <1>5, <1>7, <1>8, <2>1, <2>2, <2>3 DEF BrokerOk
<1>11. Follows(bb, u)
  BY <1>1, <1>5, <1>6, <1>7, <1>8, SameIdsFollow
<1>12. /\ BrokerOk(cc) /\ Follows(u, cc) /\ cc.session = n /\ Len(cc.ids) = L + 1
  BY <1>4, <1>5, <1>7, <1>10, RefreshKeeps DEF SameService
<1> HIDE DEF cc
<1>13. Follows(bb, cc)
  BY <1>1, <1>8, <1>11, <1>12, FollowsOn DEF BrokerOk
<1>14. L + 1 \in 1..Len(cc.ids) /\ cc.ids[L + 1].session = n
  BY <1>1, <1>5, <1>7, <1>12 DEF Follows, Stays
<1> QED BY <1>12, <1>13, <1>14 DEF cc

\* tick() after a sleep: both identities start over, and serve as before.
LEMMA WokenKeeps ==
  ASSUME NEW bb, BrokerOk(bb)
  PROVE  LET cc == Woken(bb)
         IN  BrokerOk(cc) /\ Follows(bb, cc) /\ SameService(bb, cc)
             /\ \A k \in {bb.wid, bb.sid} \ {0} : cc.ids[k].closed
<1> DEFINE L == Len(bb.ids)
           t == CloseIdentity(bb, bb.wid)
           v == CloseIdentity(t, bb.sid)
           n == bb.session
           w == [v EXCEPT !.ids = Append(@, NewIdentity(0))]
           x == [w EXCEPT !.ids = Append(@, NewIdentity(n))]
<1>1. /\ BrokerTyped(bb) /\ L \in Nat /\ bb.sid \in {0} \union 1..L
      /\ bb.wid \in 1..L /\ bb.wid # bb.sid /\ bb.wid # 0 /\ n \in Numbers
      /\ bb.sid = 0 <=> n = 0
      /\ \A k \in 1..L : ~bb.ids[k].closed => k \in {bb.wid, bb.sid}
  BY BrokerTypes DEF BrokerOk
<1>2. /\ BrokerTyped(t) /\ Follows(bb, t) /\ Len(t.ids) = L /\ SameService(bb, t)
      /\ t.ids[bb.wid].closed
      /\ \A j \in 1..L : j # bb.wid => t.ids[j] = bb.ids[j]
  BY <1>1, CloseKeeps
<1> HIDE DEF t
<1>3. /\ BrokerTyped(v) /\ Follows(t, v) /\ Len(v.ids) = L /\ SameService(t, v)
      /\ bb.sid # 0 => v.ids[bb.sid].closed
      /\ \A j \in 1..L : j # bb.sid => v.ids[j] = t.ids[j]
  BY <1>1, <1>2, CloseKeeps
<1> HIDE DEF v
<1>4. \A j \in 1..L : v.ids[j].closed
  <2> SUFFICES ASSUME NEW j \in 1..L, ~v.ids[j].closed PROVE FALSE
    OBVIOUS
  <2>1. j # bb.sid
    BY <1>1, <1>3
  <2>2. j # bb.wid
    BY <1>1, <1>2, <1>3, <2>1
  <2>3. v.ids[j] = bb.ids[j]
    BY <1>2, <1>3, <2>1, <2>2
  <2> QED BY <1>1, <2>1, <2>2, <2>3
<1>5. Follows(bb, v)
  BY <1>1, <1>2, <1>3, FollowsOn
<1>6. 0 \in Numbers /\ v \in BrokerRecord /\ v.ids \in Seq(Identity)
  BY <1>3, BrokerAssumption DEF BrokerTyped, BrokerRecord, Numbers
<1>7. /\ BrokerTyped(w) /\ Follows(v, w) /\ SameService(v, w) /\ Len(w.ids) = L + 1
      /\ w.ids[L + 1].session = 0 /\ ~w.ids[L + 1].closed
      /\ \A j \in 1..L : w.ids[j] = v.ids[j]
  <2>1. /\ BrokerTyped(w) /\ Follows(v, w) /\ SameService(v, w)
        /\ Len(w.ids) = Len(v.ids) + 1
        /\ w.ids[Len(w.ids)].session = 0 /\ ~w.ids[Len(w.ids)].closed
        /\ \A j \in 1..Len(v.ids) : w.ids[j] = v.ids[j]
    BY <1>3, <1>6, AppendKeeps DEF SameService
  <2> HIDE DEF w
  <2> QED BY <1>3, <2>1
<1>8. Follows(bb, w)
  BY <1>1, <1>3, <1>5, <1>7, FollowsOn
<1>9. w.ids = v.ids \o <<NewIdentity(0)>>
  <2>1. w.ids = Append(v.ids, NewIdentity(0))
    BY <1>6 DEF BrokerRecord
  <2>2. NewIdentity(0) \in Identity
    BY <1>6, NewIdentityEffect DEF IdentityOk
  <2> QED BY <1>6, <2>1, <2>2, AppendIsConcat
<1>10. CASE n = 0
  <2> DEFINE u == [w EXCEPT !.wid = L + 1, !.sid = 0]
  <2>1. v.ids \o <<NewIdentity(0)>> \o <<>> = w.ids
    <3>1. w.ids \in Seq(Identity)
      BY <1>7, BrokerTypes
    <3> HIDE DEF w
    <3> QED BY <3>1, <1>9, ConcatEmptySeq
  <2>2. Woken(bb) = Refresh(u)
    <3>1. Woken(bb) = Refresh([v EXCEPT !.ids = w.ids, !.wid = L + 1, !.sid = 0])
      BY <1>10, <2>1 DEF Woken, v, t
    <3>2. [v EXCEPT !.ids = w.ids, !.wid = L + 1, !.sid = 0] = u
      BY <1>6 DEF BrokerRecord
    <3> QED BY <3>1, <3>2
  <2>3. w \in BrokerRecord /\ L + 1 \in Nat
    BY <1>1, <1>7 DEF BrokerTyped
  <2> HIDE DEF w
  <2>4. /\ u \in BrokerRecord /\ u.ids = w.ids /\ u.wid = L + 1 /\ u.sid = 0
        /\ SameService(w, u)
    BY <2>3 DEF BrokerRecord, SameService
  <2> HIDE DEF u
  <2>5. BrokerTyped(u) /\ Follows(bb, u) /\ SameService(bb, u)
    BY <1>1, <1>2, <1>3, <1>7, <1>8, <2>4, SameIdsFollow DEF BrokerTyped, SameService
  <2>6. \A j \in 1..(L + 1) : j \in 1..L \/ j = L + 1
    BY <1>1
  <2>7. BrokerOk(u)
    BY <1>1, <1>4, <1>7, <1>10, <2>4, <2>5, <2>6 DEF BrokerOk, SameService
  <2>8. BrokerOk(Refresh(u)) /\ Follows(u, Refresh(u)) /\ SameService(u, Refresh(u))
    BY <2>7, RefreshKeeps
  <2>9. \A k \in {bb.wid, bb.sid} \ {0} : Refresh(u).ids[k].closed
    <3> SUFFICES ASSUME NEW k \in 1..L PROVE Refresh(u).ids[k].closed
      BY <1>1
    <3>1. k \in 1..(L + 1) /\ u.ids[k] = v.ids[k]
      BY <1>1, <1>7, <2>4
    <3> QED BY <1>4, <1>7, <2>4, <2>8, <3>1 DEF Follows, Stays
  <2> QED
    BY <1>1, <2>2, <2>5, <2>8, <2>9, FollowsOn DEF SameService, BrokerOk
<1>11. CASE n # 0
  <2> DEFINE u == [x EXCEPT !.wid = L + 1, !.sid = L + 2]
  <2>0. /\ BrokerTyped(x) /\ Follows(w, x) /\ SameService(w, x) /\ Len(x.ids) = L + 2
        /\ x.ids[L + 2].session = n /\ ~x.ids[L + 2].closed
        /\ \A j \in 1..(L + 1) : x.ids[j] = w.ids[j]
    <3>1. /\ BrokerTyped(x) /\ Follows(w, x) /\ SameService(w, x)
          /\ Len(x.ids) = Len(w.ids) + 1
          /\ x.ids[Len(x.ids)].session = n /\ ~x.ids[Len(x.ids)].closed
          /\ \A j \in 1..Len(w.ids) : x.ids[j] = w.ids[j]
      <4> HIDE DEF w, n
      <4>1. n \in Numbers /\ BrokerTyped(w)
        BY <1>1, <1>7
      <4> QED BY <4>1, AppendKeeps DEF SameService
    <3> HIDE DEF w, x
    <3>2. Len(x.ids) = L + 2
      BY <1>1, <1>7, <3>1
    <3> QED BY <1>7, <3>1, <3>2
  <2>1. v.ids \o <<NewIdentity(0)>> \o <<NewIdentity(n)>> = x.ids
    <3>1. w.ids \in Seq(Identity) /\ w \in BrokerRecord
      BY <1>7, BrokerTypes DEF BrokerTyped
    <3>2. NewIdentity(n) \in Identity
      BY <1>1, NewIdentityEffect DEF IdentityOk
    <3> HIDE DEF w
    <3>3. x.ids = Append(w.ids, NewIdentity(n))
      BY <3>1 DEF BrokerRecord
    <3> QED BY <3>1, <3>2, <3>3, <1>9, AppendIsConcat
  <2>2. Woken(bb) = Refresh(u)
    <3>1. Woken(bb) = Refresh([v EXCEPT !.ids = x.ids, !.wid = L + 1, !.sid = L + 2])
      BY <1>11, <2>1 DEF Woken, v, t
    <3>2. [v EXCEPT !.ids = x.ids, !.wid = L + 1, !.sid = L + 2] = u
      BY <1>6 DEF BrokerRecord
    <3> QED BY <3>1, <3>2
  <2>3. x \in BrokerRecord /\ L + 1 \in Nat /\ L + 2 \in Nat
    BY <1>1, <2>0 DEF BrokerTyped
  <2> HIDE DEF w, x
  <2>4. /\ u \in BrokerRecord /\ u.ids = x.ids /\ u.wid = L + 1 /\ u.sid = L + 2
        /\ SameService(x, u)
    BY <2>3 DEF BrokerRecord, SameService
  <2>41. Follows(bb, x)
    BY <1>1, <1>7, <1>8, <2>0, FollowsOn
  <2> HIDE DEF u
  <2>5. BrokerTyped(u) /\ Follows(bb, u) /\ SameService(bb, u)
    <3>1. BrokerTyped(u)
      BY <2>0, <2>4 DEF BrokerTyped
    <3>2. Follows(bb, u)
      BY <1>1, <2>0, <2>41, <2>4, <3>1, SameIdsFollow
    <3>3. SameService(bb, u)
      BY <1>2, <1>3, <1>7, <2>0, <2>4 DEF SameService
    <3> QED BY <3>1, <3>2, <3>3
  <2>6. \A j \in 1..(L + 2) : j \in 1..L \/ j = L + 1 \/ j = L + 2
    BY <1>1
  <2>7. BrokerOk(u)
    <3>1. u.wid \in 1..Len(u.ids) /\ u.sid \in 1..Len(u.ids) /\ u.session = n
      BY <1>1, <2>0, <2>4, <2>5 DEF SameService
    <3>2. L + 1 \in 1..(L + 1) /\ 1..L \subseteq 1..(L + 1)
      BY <1>1
    <3>3. ~u.ids[u.wid].closed /\ u.ids[u.wid].session = 0
      BY <1>7, <2>0, <2>4, <3>2
    <3>4. ASSUME NEW j \in 1..Len(u.ids), ~u.ids[j].closed PROVE j \in {u.wid, u.sid}
      <4>1. CASE j \in 1..L
        <5>1. u.ids[j] = v.ids[j]
          BY <1>7, <2>0, <2>4, <3>2, <4>1
        <5> QED BY <1>4, <3>4, <4>1, <5>1
      <4>2. CASE j = L + 1 \/ j = L + 2
        BY <2>4, <4>2
      <4> QED BY <2>0, <2>4, <2>6, <4>1, <4>2
    <3> QED BY <1>11, <2>0, <2>4, <2>5, <3>1, <3>3, <3>4 DEF BrokerOk
  <2>8. BrokerOk(Refresh(u)) /\ Follows(u, Refresh(u)) /\ SameService(u, Refresh(u))
    BY <2>7, RefreshKeeps
  <2>9. \A k \in {bb.wid, bb.sid} \ {0} : Refresh(u).ids[k].closed
    <3> SUFFICES ASSUME NEW k \in 1..L PROVE Refresh(u).ids[k].closed
      BY <1>1
    <3>1. k \in 1..(L + 1) /\ k \in 1..(L + 2)
      BY <1>1
    <3>2. u.ids[k] = v.ids[k]
      BY <1>7, <2>0, <2>4, <3>1
    <3> QED BY <1>4, <2>0, <2>4, <2>8, <3>1, <3>2 DEF Follows, Stays
  <2> QED
    BY <1>1, <2>2, <2>5, <2>8, <2>9, FollowsOn DEF SameService, BrokerOk
<1> QED BY <1>10, <1>11

-----------------------------------------------------------------------------
(* The callers *)

\* The request of a caller that has none.
LEMMA IdleIs == Idle \in Calls /\ Idle.at = "idle" /\ Idle.batch = "none"
BY NoneIs, BrokerAssumption DEF Idle, Calls, Numbers, Batches

\* What becomes of a request that is given got.
LEMMA SettledEffect ==
  ASSUME NEW call \in Calls, NEW got \in Gots
  PROVE  LET u == Settled(call, got)
         IN  /\ u \in Calls /\ u.at # "new"
             /\ got.at = "failed" => u = Idle
             /\ got.at # "failed" => /\ u.at = got.at /\ u.session = call.session
                                     /\ u.id = call.id /\ u.batch = call.batch
                                     /\ u.credential = got.credential
<1>1. CASE got.at = "failed"
  BY <1>1, IdleIs DEF Settled
<1>2. CASE got.at # "failed"
  <2>1. got.at \in {"sending", "waiting"} /\ got.credential \in Credentials
    BY <1>2 DEF Gots
  <2>2. Settled(call, got)
          = [call EXCEPT !.at = got.at, !.credential = got.credential]
    BY <1>2 DEF Settled
  <2> QED BY <1>2, <2>1, <2>2 DEF Calls
<1> QED BY <1>1, <1>2

\* What a request knows stays true as the broker goes on.
LEMMA CallKept ==
  ASSUME NEW c, NEW call, NEW bb, NEW cc, BrokerTyped(bb), BrokerTyped(cc),
         Stays(bb, cc), CallOk(c, call, bb)
  PROVE  CallOk(c, call, cc)
<1>1. /\ Len(bb.ids) \in Nat /\ Len(cc.ids) \in Nat /\ Len(bb.ids) <= Len(cc.ids)
      /\ \A k \in 1..Len(bb.ids) : bb.ids[k].minted \in Nat
      /\ \A k \in 1..Len(cc.ids) : cc.ids[k].minted \in Nat
  BY BrokerTypes DEF Stays
<1>2. \A k \in 1..Len(bb.ids) : k \in 1..Len(cc.ids)
  BY <1>1
<1>3. ASSUME call.at = "sending"
      PROVE  LET k == call.credential.by
             IN  /\ k \in 1..Len(cc.ids) /\ cc.ids[k].session = call.session
                 /\ ~cc.ids[k].closed => call.credential.n <= cc.ids[k].minted
  <2> DEFINE k == call.credential.by
             n == call.credential.n
  <2>1. /\ k \in 1..Len(bb.ids) /\ bb.ids[k].session = call.session /\ n \in Nat
        /\ ~bb.ids[k].closed => n <= bb.ids[k].minted
    BY <1>3 DEF CallOk, Calls, Credentials
  <2>2. /\ cc.ids[k].session = bb.ids[k].session
        /\ ~cc.ids[k].closed =>
             ~bb.ids[k].closed /\ bb.ids[k].minted <= cc.ids[k].minted
    BY <2>1 DEF Stays
  <2>3. bb.ids[k].minted \in Nat /\ cc.ids[k].minted \in Nat
    BY <1>1, <1>2, <2>1
  <2> HIDE DEF k, n
  <2>4. /\ k \in 1..Len(cc.ids) /\ cc.ids[k].session = call.session
        /\ ~cc.ids[k].closed => n <= cc.ids[k].minted
    BY <1>2, <2>1, <2>2, <2>3
  <2> QED BY <2>4 DEF k, n
<1>4. ASSUME call.at = "waiting"
      PROVE  /\ call.id \in 1..Len(cc.ids)
             /\ cc.ids[call.id].session = call.session
  BY <1>2, <1>4 DEF CallOk, Stays
<1> QED BY <1>3, <1>4 DEF CallOk

\* One get() of a request for its own session: it waits for the identity that
\* serves the session or has its credential; a pusher gives up only after enough
\* refusals in a row, and ends its own session's service at most.
LEMMA AskEffect ==
  ASSUME NEW bb, BrokerOk(bb), NEW c, NEW call \in Calls, NEW rejected \in BOOLEAN,
         IF c \in Pushers THEN call.session = c ELSE call.batch = "none"
  PROVE  LET r == Ask(bb, c, call, rejected)
             k == IdentityOf(bb, call.session)
         IN  /\ BrokerOk(r.b) /\ Follows(bb, r.b) /\ CallOk(c, r.call, r.b)
             /\ r.call.at # "new"
             /\ r.gaveUp => /\ c \in Pushers /\ bb.session = c
                            /\ bb.ids[bb.sid].row >= MaxRefusals
             /\ ~r.gaveUp => SameService(bb, r.b)
             /\ r.call.at = "sending" =>
                  /\ ~rejected /\ k \in 1..Len(bb.ids) /\ Usable(bb.ids[k])
                  /\ r.call.credential = bb.ids[k].credential
             /\ rejected /\ k # 0 => ~Usable(r.b.ids[k])
<1> DEFINE n == call.session
           k == IdentityOf(bb, n)
           cc == After(bb, k, call.fresh, rejected)
           y == cc.ids[k]
           got == IF k = 0 THEN Failed(0) ELSE Got(y, call.fresh, rejected)
           u == [call EXCEPT !.id = k]
           v == Settled(u, got)
           gave == GivesUp(c, got)
           end == IF gave THEN Deactivated(cc, c) ELSE cc
           r == Ask(bb, c, call, rejected)
<1>0. n \in Numbers /\ call.fresh \in BOOLEAN
  BY DEF Calls
<1>1. /\ Len(bb.ids) \in Nat /\ k \in {0} \union 1..Len(bb.ids) /\ k \in Nat
      /\ k # 0 => ~bb.ids[k].closed /\ bb.ids[k].session = n
      /\ k = 0 => n # 0 /\ n # bb.session
      /\ n # 0 /\ k # 0 => k = bb.sid /\ bb.session = n
  BY <1>0, IdentityOfIs, BrokerTypes DEF BrokerOk
<1>2. r.b = end /\ r.call = v /\ r.gaveUp = gave
  BY DEF Ask
<1> HIDE DEF k, r
<1>3. /\ BrokerOk(cc) /\ Follows(bb, cc) /\ SameService(bb, cc)
      /\ cc.sid = bb.sid /\ cc.wid = bb.wid /\ Len(cc.ids) = Len(bb.ids)
      /\ k # 0 => y = Asked(bb.ids[k], call.fresh, rejected)
  BY <1>0, <1>1, AfterKeeps
<1> HIDE DEF cc
<1>4. ASSUME k # 0
      PROVE  /\ IdentityOk(y, k) /\ y.session = n /\ y.row = bb.ids[k].row
             /\ ~y.closed
             /\ Usable(y) => Usable(bb.ids[k]) /\ y.credential = bb.ids[k].credential
             /\ rejected => ~Usable(y)
  <2>1. IdentityOk(bb.ids[k], k)
    BY <1>1, <1>4 DEF BrokerOk, BrokerTyped
  <2> QED BY <1>0, <1>1, <1>3, <1>4, <2>1, AskedEffect
<1>5. /\ got \in Gots /\ (got.at = "failed" => k # 0 \/ got.error = 0)
      /\ got.at = "failed" /\ k # 0 => got.error <= bb.ids[k].row
      /\ got.at # "failed" => k # 0
      /\ got.at = "sending" => Usable(y) /\ got.credential = y.credential
  <2>1. CASE k = 0
    BY <2>1, NoneIs DEF Failed, Gots
  <2>2. CASE k # 0
    <3>1. got = Got(y, call.fresh, rejected)
      BY <2>2
    <3> HIDE DEF got, y
    <3> QED BY <1>0, <1>1, <1>4, <2>2, <3>1, GotEffect
  <2> QED BY <2>1, <2>2
<1> HIDE DEF got, y
<1>6. u \in Calls /\ u.session = n /\ u.id = k /\ u.batch = call.batch
  BY <1>1 DEF Calls
<1> HIDE DEF u
<1>7. /\ v \in Calls /\ v.at # "new" /\ (got.at = "failed" => v = Idle)
      /\ got.at # "failed" => /\ v.at = got.at /\ v.session = n /\ v.id = k
                              /\ v.batch = call.batch
                              /\ v.credential = got.credential
  BY <1>5, <1>6, SettledEffect
<1> HIDE DEF v
<1>8. ASSUME gave
      PROVE  /\ c \in Pushers /\ bb.session = c /\ k = bb.sid
             /\ bb.ids[bb.sid].row >= MaxRefusals /\ got.at = "failed"
  <2>1. c \in Pushers /\ got.at = "failed" /\ got.error >= MaxRefusals /\ n = c
    BY <1>8 DEF GivesUp
  <2>2. got.error # 0 /\ got.error \in Nat
    BY <2>1, <1>5, BrokerAssumption DEF Gots
  <2>3. k # 0 /\ c # 0 /\ got.error <= bb.ids[k].row
    BY <2>1, <2>2, <1>5 DEF Pushers
  <2>4. k = bb.sid /\ bb.session = c
    BY <1>1, <2>1, <2>3
  <2>5. bb.ids[k].row \in Nat
    <3>1. IdentityOk(bb.ids[k], k)
      BY <1>1, <2>3 DEF BrokerOk, BrokerTyped
    <3> QED BY <3>1, IdentityTypes
  <2> QED BY <2>1, <2>2, <2>3, <2>4, <2>5, BrokerAssumption
<1>9. BrokerOk(end) /\ Follows(bb, end) /\ (~gave => end = cc)
  <2>1. CASE gave
    <3>1. end = Deactivated(cc, c)
      BY <2>1
    <3>2. BrokerOk(end) /\ Follows(cc, end)
      <4> HIDE DEF end
      <4> QED BY <1>3, <3>1, DeactivatedKeeps
    <3> HIDE DEF end
    <3> QED BY <1>3, <2>1, <3>2, FollowsOn DEF BrokerOk
  <2>2. CASE ~gave
    BY <1>3, <2>2
  <2> QED BY <2>1, <2>2
<1>10. ASSUME v.at = "sending"
       PROVE  /\ k \in 1..Len(bb.ids) /\ ~rejected /\ Usable(bb.ids[k])
              /\ v.credential = bb.ids[k].credential
  <2>1. got.at = "sending" /\ k # 0
    BY <1>5, <1>7, <1>10, IdleIs
  <2> QED BY <1>1, <1>4, <1>5, <1>7, <2>1
<1>11. CallOk(c, v, end)
  <2>1. CASE got.at = "failed"
    BY <1>7, <2>1, IdleIs DEF CallOk
  <2>2. CASE got.at # "failed"
    <3>1. end = cc /\ k # 0 /\ ~gave
      BY <1>5, <1>8, <1>9, <2>2
    <3>2. k \in 1..Len(cc.ids) /\ cc.ids[k].session = n /\ IdentityOk(cc.ids[k], k)
      BY <1>1, <1>3, <1>4, <3>1 DEF y
    <3>3. v.at \in {"sending", "waiting"}
      BY <1>5, <1>7, <2>2 DEF Gots
    <3>4. v.at = "sending" =>
            /\ v.credential = cc.ids[k].credential /\ cc.ids[k].credential # None
      BY <1>5, <1>7, <2>2 DEF y, Usable
    <3>5. v.at = "sending" =>
            /\ v.credential.of = n /\ v.credential.by = k
            /\ v.credential.n <= cc.ids[k].minted
      BY <3>2, <3>4 DEF IdentityOk
    <3> HIDE DEF end, gave
    <3> QED BY <1>7, <2>2, <3>1, <3>2, <3>3, <3>5 DEF CallOk
  <2> QED BY <2>1, <2>2
<1>12. ASSUME rejected, k # 0 PROVE ~Usable(end.ids[k])
  <2>1. ~Usable(cc.ids[k]) /\ k \in 1..Len(cc.ids)
    BY <1>1, <1>3, <1>4, <1>12 DEF y
  <2>2. CASE gave
    <3>1. BrokerOk(end) /\ Follows(cc, end)
      BY <1>3, <2>2, DeactivatedKeeps
    <3>2. k \in 1..Len(end.ids)
      BY <1>1, <1>3, <3>1, BrokerTypes, <2>1 DEF Follows, Stays, BrokerOk
    <3> QED BY <2>1, <3>1, <3>2 DEF Follows
  <2>3. CASE ~gave
    BY <1>9, <2>1, <2>3
  <2> QED BY <2>2, <2>3
<1> HIDE DEF v, end, gave
<1>13. ~gave => SameService(bb, end)
  BY <1>3, <1>9
<1> QED BY <1>2, <1>7, <1>8, <1>9, <1>10, <1>11, <1>12, <1>13 DEF r, k

-----------------------------------------------------------------------------
(* The steps *)

\* The broker goes on, and what is found to be bad is no longer handed out.
LEMMA BecomesKeeps ==
  ASSUME BrokerOk(b), BadOk(b, bad), NEW cc, BrokerOk(cc), Stays(b, cc),
         NEW worse, Becomes(cc, worse),
         \A k \in 1..Len(cc.ids) :
           Usable(cc.ids[k]) => cc.ids[k].credential \notin bad \union worse,
         \A c \in worse :
           c = None \/ /\ c \in Credentials /\ c.by \in 1..Len(b.ids)
                       /\ ~cc.ids[c.by].closed => c.n <= cc.ids[c.by].minted
  PROVE  b' = cc /\ BadOk(cc, bad') /\ bad' \subseteq bad \union worse
<1>1. /\ b' = cc
      /\ bad' = {c \in bad \union worse : c # None /\ ~cc.ids[c.by].closed}
  BY DEF Becomes
<1>2. /\ Len(b.ids) \in Nat /\ Len(cc.ids) \in Nat /\ Len(b.ids) <= Len(cc.ids)
      /\ \A k \in 1..Len(b.ids) : b.ids[k].minted \in Nat /\ k \in 1..Len(cc.ids)
      /\ \A k \in 1..Len(cc.ids) : cc.ids[k].minted \in Nat
  BY BrokerTypes DEF Stays, BrokerOk
<1>3. ASSUME NEW c \in bad'
      PROVE  /\ c \in Credentials /\ c.by \in 1..Len(cc.ids)
             /\ ~cc.ids[c.by].closed /\ c.n <= cc.ids[c.by].minted
  <2>1. CASE c \in worse
    BY <1>1, <1>2, <1>3, <2>1
  <2>2. CASE c \in bad
    <3>1. /\ c \in Credentials /\ c.by \in 1..Len(b.ids) /\ c.n \in Nat
          /\ c.n <= b.ids[c.by].minted
      BY <2>2 DEF BadOk, Credentials
    <3>2. ~cc.ids[c.by].closed /\ b.ids[c.by].minted <= cc.ids[c.by].minted
      BY <1>1, <1>3, <3>1 DEF Stays
    <3>3. b.ids[c.by].minted \in Nat /\ cc.ids[c.by].minted \in Nat
      BY <1>2, <3>1
    <3> QED BY <1>2, <3>1, <3>2, <3>3
  <2> QED BY <1>1, <2>1, <2>2
<1>4. bad' \subseteq bad \union worse
  BY <1>1
<1> QED BY <1>1, <1>3, <1>4 DEF BadOk

\* The same where nothing new is usable, as in all but a renewal that is granted.
LEMMA BecomesFollows ==
  ASSUME BrokerOk(b), BadOk(b, bad), NEW cc, BrokerOk(cc), Follows(b, cc),
         NEW worse, Becomes(cc, worse),
         \A c \in worse :
           c = None \/ /\ c \in Credentials /\ c.by \in 1..Len(b.ids)
                       /\ ~cc.ids[c.by].closed =>
                            /\ c.n <= cc.ids[c.by].minted
                            /\ \A k \in 1..Len(cc.ids) :
                                 Usable(cc.ids[k]) => cc.ids[k].credential # c
  PROVE  b' = cc /\ BadOk(cc, bad') /\ bad' \subseteq bad \union worse
<1>1. ASSUME NEW k \in 1..Len(cc.ids), Usable(cc.ids[k])
      PROVE  cc.ids[k].credential \notin bad \union worse
  <2>1. /\ k \in 1..Len(b.ids) /\ Usable(b.ids[k])
        /\ cc.ids[k].credential = b.ids[k].credential
    BY <1>1 DEF Follows
  <2>2. cc.ids[k].credential \notin bad
    BY <2>1 DEF BadOk
  <2>3. ASSUME cc.ids[k].credential \in worse PROVE FALSE
    <3> DEFINE c == cc.ids[k].credential
    <3>1. IdentityOk(cc.ids[k], k) /\ c # None
      BY <1>1 DEF Usable, BrokerOk, BrokerTyped
    <3>2. c.by = k /\ ~cc.ids[k].closed
      BY <3>1 DEF IdentityOk
    <3> QED BY <1>1, <2>3, <3>1, <3>2
  <2> QED BY <2>2, <2>3
<1>2. Stays(b, cc)
  BY DEF Follows
<1> QED BY <1>1, <1>2, BecomesKeeps

\* What a step that leaves handleCreate and the session's end alone must show.
LEMMA StepKeeps ==
  ASSUME IInv, UNCHANGED sessionVars, BrokerOk(b'), Stays(b, b'), BadOk(b', bad'),
         calls' \in [Callers -> Calls],
         \A c \in Callers : calls'[c] # calls[c] => CallOk(c, calls'[c], b'),
         stopped' \in SUBSET Pushers, stopped \subseteq stopped',
         draining' \in SUBSET Pushers, owes' \in [Pushers -> Batches],
         \A s \in Pushers : Future(s) => calls'[s] = Idle /\ owes'[s] = "none",
         \/ SameService(b, b')
         \/ b.session \in stopped' /\ ~Future(b.session)
  PROVE  IInv'
<1> USE DEF IInv
<1>1. create' = create /\ live' = live /\ over' = over
  BY DEF sessionVars
<1>2. \A c \in Callers : CallOk(c, calls'[c], b')
  BY CallKept DEF BrokerOk
<1>3. \A s : Future(s)' = Future(s) /\ Running(s)' = Running(s)
  BY <1>1 DEF Future, Running
<1>4. ASSUME NEW s \in Pushers, Running(s), s \notin stopped' PROVE Serves(b', s)
  <2>1. Serves(b, s)
    BY <1>4 DEF SessionsOk
  <2> QED BY <1>4, <2>1 DEF Serves, SameService
<1>5. SessionsOk'
  BY <1>1, <1>3, <1>4 DEF SessionsOk
<1>6. create.at # "none" => Future(create.session)
  BY DEF Future
<1>7. CreateOk'
  <2>1. ASSUME create.at = "activating"
        PROVE  /\ b'.session = create.session /\ create.id \in 1..Len(b'.ids)
               /\ b'.ids[create.id].session = create.session
    <3>1. /\ b.session = create.session /\ create.id \in 1..Len(b.ids)
          /\ b.ids[create.id].session = create.session
      BY <2>1 DEF CreateOk
    <3>2. SameService(b, b')
      BY <1>6, <2>1, <3>1
    <3>3. Len(b.ids) \in Nat /\ Len(b'.ids) \in Nat /\ Len(b.ids) <= Len(b'.ids)
      BY BrokerTypes DEF BrokerOk, Stays
    <3> QED BY <3>1, <3>2, <3>3 DEF SameService, Stays
  <2>2. ASSUME create.at = "starting" PROVE Serves(b', create.session)
    <3>1. Serves(b, create.session)
      BY <2>2 DEF CreateOk
    <3> QED BY <1>6, <2>2, <3>1 DEF Serves, SameService
  <2> QED BY <1>1, <2>1, <2>2 DEF CreateOk
<1> QED BY <1>2, <1>5, <1>7

\* What the steps promise, besides: HandsGood and GiveUpPersists.
Hands ==
  \A c \in Callers :
    calls'[c].at = "sending" /\ calls'[c].credential # calls[c].credential
      => /\ calls'[c].credential \notin bad'
         /\ ~b.ids[calls'[c].credential.by].closed

Persists ==
  \A s \in Pushers :
    s \in stopped' \ stopped /\ calls[s].at # "sending" /\ b'.session # b.session
      => LET x == b.ids[b.sid]
         IN  x.row + (IF x.renewing THEN 1 ELSE 0) >= MaxRefusals

\* What a step that leaves handleCreate and the session's end alone has shown, as
\* StepKeeps needs it.
Served ==
  /\ BrokerOk(b') /\ Stays(b, b') /\ BadOk(b', bad')
  /\ calls' \in [Callers -> Calls]
  /\ \A c \in Callers : calls'[c] # calls[c] => CallOk(c, calls'[c], b')
  /\ stopped' \in SUBSET Pushers /\ stopped \subseteq stopped'
  /\ owes' \in [Pushers -> Batches]
  /\ \A s \in Pushers : Future(s) => calls'[s] = Idle /\ owes'[s] = "none"
  /\ \/ SameService(b, b')
     \/ b.session \in stopped' /\ ~Future(b.session)

\* The pusher of c alone stops.
LEMMA StopEffect ==
  ASSUME IInv, NEW c \in Pushers, StopPushers({c})
  PROVE  /\ stopped' = stopped \union {c} /\ stopped' \in SUBSET Pushers
         /\ owes' \in [Pushers -> Batches]
         /\ \A s \in Pushers : owes'[s] \in {owes[s], "none"}
BY DEF IInv, SessionsOk, StopPushers, Batches

\* A get() by c in a step, with rejected the bearers of its own that it knows to
\* be bad.
LEMMA AsksKeeps ==
  ASSUME IInv, NEW c \in Callers, NEW call \in Calls, NEW rejected \in BOOLEAN,
         NEW worse,
         IF c \in Pushers THEN call.session = c /\ ~Future(c) ELSE call.batch = "none",
         ~rejected => worse = {},
         \A w \in worse :
           /\ w \in Credentials /\ w.by \in 1..Len(b.ids)
           /\ b.ids[w.by].session = call.session
           /\ ~b.ids[w.by].closed => w.n <= b.ids[w.by].minted,
         Asks(c, call, rejected, worse)
  PROVE  Served /\ Hands /\ Persists
<1> USE DEF IInv
<1> DEFINE r == Ask(b, c, call, rejected)
           k == IdentityOf(b, call.session)
<1>1. /\ BrokerOk(r.b) /\ Follows(b, r.b) /\ CallOk(c, r.call, r.b)
      /\ r.gaveUp => /\ c \in Pushers /\ b.session = c
                     /\ b.ids[b.sid].row >= MaxRefusals
      /\ ~r.gaveUp => SameService(b, r.b)
      /\ r.call.at = "sending" =>
           /\ ~rejected /\ k \in 1..Len(b.ids) /\ Usable(b.ids[k])
           /\ r.call.credential = b.ids[k].credential
      /\ rejected /\ k # 0 => ~Usable(r.b.ids[k])
  BY AskEffect
<1>2. /\ Becomes(r.b, worse) /\ calls' = [calls EXCEPT ![c] = r.call]
      /\ IF r.gaveUp THEN StopPushers({c}) ELSE UNCHANGED <<owes, stopped>>
  BY DEF Asks
<1>3. call.session \in Numbers
  BY DEF Calls
<1>31. /\ k = 0 => call.session # 0 /\ call.session # b.session
       /\ k # 0 => /\ ~b.ids[k].closed /\ b.ids[k].session = call.session
                   /\ k \in 1..Len(b.ids)
       /\ call.session # 0 /\ k # 0 => k = b.sid
       /\ call.session = 0 => k = b.wid
  BY <1>3, IdentityOfIs DEF IdentityOf
<1> HIDE DEF r, k
<1>4. ASSUME NEW w \in worse, ~r.b.ids[w.by].closed
      PROVE  /\ w.n <= r.b.ids[w.by].minted
             /\ \A j \in 1..Len(r.b.ids) : Usable(r.b.ids[j]) => r.b.ids[j].credential # w
  <2> DEFINE i == w.by
  <2>1. /\ i \in 1..Len(b.ids) /\ b.ids[i].session = call.session /\ rejected
        /\ ~b.ids[i].closed /\ w.n <= b.ids[i].minted /\ w.n \in Nat
        /\ b.ids[i].minted <= r.b.ids[i].minted
    BY <1>1, <1>4 DEF Follows, Stays, Credentials
  <2>2. Len(r.b.ids) \in Nat /\ Len(b.ids) <= Len(r.b.ids) /\ Len(b.ids) \in Nat
    BY <1>1, BrokerTypes DEF Follows, Stays, BrokerOk
  <2>3. i \in 1..Len(r.b.ids)
    BY <2>1, <2>2
  <2>4. b.ids[i].minted \in Nat /\ r.b.ids[i].minted \in Nat
    BY <1>1, <2>1, <2>3, BrokerTypes DEF BrokerOk
  <2>5. i = k /\ k # 0
    <3>1. i \in {b.wid, b.sid} /\ b.ids[b.wid].session = 0 /\ b.wid \in 1..Len(b.ids)
      BY <2>1 DEF BrokerOk
    <3>2. IF b.session = 0 THEN b.sid = 0 ELSE b.ids[b.sid].session = b.session
      BY DEF BrokerOk
    <3>3. CASE call.session = 0
      BY <1>31, <2>1, <2>2, <3>1, <3>2, <3>3
    <3>4. CASE call.session # 0
      BY <1>31, <2>1, <2>2, <3>1, <3>2, <3>4
    <3> QED BY <3>3, <3>4
  <2>6. ASSUME NEW j \in 1..Len(r.b.ids), Usable(r.b.ids[j]), r.b.ids[j].credential = w
        PROVE  FALSE
    <3>1. IdentityOk(r.b.ids[j], j) /\ w # None
      BY <1>1, <2>6 DEF BrokerOk, BrokerTyped, Usable
    <3>2. w.by = j
      BY <2>6, <3>1 DEF IdentityOk
    <3> QED BY <1>1, <2>1, <2>5, <2>6, <3>2
  <2> QED BY <2>1, <2>4, <2>6
<1>5. b' = r.b /\ BadOk(r.b, bad') /\ bad' \subseteq bad \union worse
  <2>1. \A w \in worse :
          w = None \/ /\ w \in Credentials /\ w.by \in 1..Len(b.ids)
                      /\ ~r.b.ids[w.by].closed =>
                           /\ w.n <= r.b.ids[w.by].minted
                           /\ \A j \in 1..Len(r.b.ids) :
                                Usable(r.b.ids[j]) => r.b.ids[j].credential # w
    BY <1>4
  <2> QED BY <1>1, <1>2, <2>1, BecomesFollows
<1>6. /\ calls' \in [Callers -> Calls] /\ calls'[c] = r.call
      /\ \A x \in Callers : x # c => calls'[x] = calls[x]
  BY <1>1, <1>2 DEF CallOk
<1>7. /\ stopped' \in SUBSET Pushers /\ stopped \subseteq stopped'
      /\ stopped' = IF r.gaveUp THEN stopped \union {c} ELSE stopped
      /\ owes' \in [Pushers -> Batches]
      /\ \A s \in Pushers : owes'[s] \in {owes[s], "none"}
  <2>1. CASE r.gaveUp
    BY <1>1, <1>2, <2>1, StopEffect
  <2>2. CASE ~r.gaveUp
    BY <1>2, <2>2 DEF SessionsOk
  <2> QED BY <2>1, <2>2
<1>8. ASSUME NEW s \in Pushers, Future(s) PROVE calls'[s] = Idle /\ owes'[s] = "none"
  <2>1. s # c /\ s \in Callers
    BY <1>8 DEF Callers
  <2> QED BY <1>6, <1>7, <1>8, <2>1 DEF SessionsOk
<1>9. SameService(b, b') \/ (b.session \in stopped' /\ ~Future(b.session))
  BY <1>1, <1>5, <1>7
<1>10. Served
  BY <1>1, <1>5, <1>6, <1>7, <1>8, <1>9 DEF Served, Follows
<1>11. Hands
  <2> SUFFICES ASSUME r.call.at = "sending"
               PROVE  r.call.credential \notin bad' /\ ~b.ids[r.call.credential.by].closed
    BY <1>6 DEF Hands
  <2>1. /\ k \in 1..Len(b.ids) /\ Usable(b.ids[k])
        /\ r.call.credential = b.ids[k].credential /\ bad' \subseteq bad
    BY <1>1, <1>5
  <2>2. b.ids[k].credential \notin bad
    BY <2>1 DEF BadOk
  <2>3. IdentityOk(b.ids[k], k) /\ b.ids[k].credential # None
    BY <2>1 DEF BrokerOk, BrokerTyped, Usable
  <2> QED BY <2>1, <2>2, <2>3 DEF IdentityOk
<1>12. Persists
  <2> SUFFICES ASSUME r.gaveUp
               PROVE  b.ids[b.sid].row + (IF b.ids[b.sid].renewing THEN 1 ELSE 0)
                        >= MaxRefusals
    BY <1>7 DEF Persists
  <2>1. b.session \in Pushers /\ b.session # 0 /\ b.ids[b.sid].row >= MaxRefusals
    BY <1>1 DEF Pushers
  <2>2. IdentityOk(b.ids[b.sid], b.sid)
    BY <2>1 DEF BrokerOk, BrokerTyped
  <2>3. b.ids[b.sid].row \in Nat
    BY <2>2, IdentityTypes
  <2> QED BY <2>1, <2>3, BrokerAssumption
<1> QED BY <1>10, <1>11, <1>12

\* Such a step keeps the invariant.
LEMMA ServedKeeps ==
  ASSUME IInv, UNCHANGED sessionVars, Served, draining' \in SUBSET Pushers
  PROVE  IInv'
BY StepKeeps DEF Served

\* A step that asks nothing hands out nothing, and only answers stop pushers then.
LEMMA QuietStep ==
  ASSUME \A c \in Callers : calls'[c] = calls[c] \/ calls'[c].at # "sending"
  PROVE  Hands
BY DEF Hands

\* A get() by one that knows of no bad bearer.
LEMMA AsksPlainly ==
  ASSUME IInv, NEW c \in Callers, NEW call \in Calls,
         IF c \in Pushers THEN call.session = c /\ ~Future(c) ELSE call.batch = "none",
         Asks(c, call, FALSE, {})
  PROVE  Served /\ Hands /\ Persists
<1> DEFINE rejected == FALSE
           worse == {}
<1>1. /\ rejected \in BOOLEAN /\ worse = {} /\ Asks(c, call, rejected, worse)
  OBVIOUS
<1> HIDE DEF rejected, worse
<1>2. \A w \in worse :
        /\ w \in Credentials /\ w.by \in 1..Len(b.ids)
        /\ b.ids[w.by].session = call.session
        /\ ~b.ids[w.by].closed => w.n <= b.ids[w.by].minted
  BY <1>1
<1> QED BY <1>1, <1>2, AsksKeeps

\* flush(): the pusher asks for its session's credential.
LEMMA FlushKeeps ==
  ASSUME IInv, NEW s \in Pushers, Flush(s)
  PROVE  IInv' /\ Hands /\ Persists
<1> USE DEF IInv
<1> DEFINE call == FlushCall(s, owes[s])
<1>1. /\ Asks(s, call, FALSE, {}) /\ UNCHANGED sessionVars /\ draining' = draining
      /\ owes[s] # "none"
  BY DEF Flush, CanFlush
<1>2. call \in Calls /\ call.session = s /\ s \in Callers
  <2>1. s \in Numbers /\ s \in Callers /\ owes[s] \in Batches
    BY BrokerAssumption DEF SessionsOk, Pushers, Numbers, Callers
  <2> QED BY <2>1, IdleIs DEF FlushCall, Calls
<1>3. ~Future(s)
  BY <1>1 DEF SessionsOk
<1> HIDE DEF call
<1>4. Served /\ Hands /\ Persists
  BY <1>1, <1>2, <1>3, AsksPlainly
<1> QED BY <1>1, <1>4, ServedKeeps DEF SessionsOk

\* A client is no pusher.
LEMMA ClientIs ==
  ASSUME NEW c \in Clients
  PROVE  c \in Callers /\ c \notin Pushers
BY BrokerAssumption DEF Callers, Pushers

\* The CLI or the local gateway asks for the workspace's.
LEMMA CliAsksKeeps ==
  ASSUME IInv, NEW c \in Clients, CliAsks(c)
  PROVE  IInv' /\ Hands /\ Persists
<1> USE DEF IInv
<1>1. PICK fresh \in BOOLEAN : Asks(c, [Idle EXCEPT !.fresh = fresh], FALSE, {})
  BY DEF CliAsks
<1> DEFINE call == [Idle EXCEPT !.fresh = fresh]
<1>2. call \in Calls /\ call.batch = "none" /\ c \in Callers /\ c \notin Pushers
  BY IdleIs, ClientIs DEF Calls
<1> HIDE DEF call
<1>3. Asks(c, call, FALSE, {})
  BY <1>1 DEF call
<1>4. Served /\ Hands /\ Persists
  BY <1>2, <1>3, AsksPlainly
<1>5. UNCHANGED sessionVars /\ draining' = draining
  BY DEF CliAsks
<1> QED BY <1>4, <1>5, ServedKeeps DEF SessionsOk

\* A harness's request takes the session of the routes it finds.
LEMMA ProxyRouteKeeps ==
  ASSUME IInv, NEW c \in Clients, ProxyRoute(c)
  PROVE  IInv' /\ Hands /\ Persists
<1> USE DEF IInv
<1> DEFINE call == [Idle EXCEPT !.at = "body", !.session = b.routes]
<1>1. /\ calls' = [calls EXCEPT ![c] = call]
      /\ b' = b /\ bad' = bad /\ UNCHANGED sessionVars
      /\ owes' = owes /\ stopped' = stopped /\ draining' = draining
  BY DEF ProxyRoute, pusherVars
<1>2. b.routes \in Numbers
  BY BrokerTypes DEF BrokerOk
<1>3. /\ call \in Calls /\ call.batch = "none" /\ call.at = "body"
      /\ c \in Callers /\ c \notin Pushers
  BY <1>2, IdleIs, ClientIs DEF Calls
<1> HIDE DEF call
<1>4. /\ calls' \in [Callers -> Calls] /\ calls'[c] = call
      /\ \A x \in Callers : x # c => calls'[x] = calls[x]
  BY <1>1, <1>3
<1>5. CallOk(c, call, b)
  BY <1>3 DEF CallOk
<1>6. \A s \in Pushers : Future(s) => calls'[s] = Idle /\ owes'[s] = "none"
  BY <1>1, <1>3, <1>4 DEF SessionsOk, Callers
<1>7. Follows(b, b)
  BY FollowsItself DEF BrokerOk
<1>8. Served
  BY <1>1, <1>4, <1>5, <1>6, <1>7 DEF Served, SessionsOk, SameService, Follows
<1>9. Hands
  BY <1>3, <1>4, QuietStep
<1>10. Persists
  BY <1>1 DEF Persists
<1> QED BY <1>1, <1>8, <1>9, <1>10, ServedKeeps DEF SessionsOk

\* Its body is read, and it asks for that session's, active or not by now.
LEMMA ProxyBodyKeeps ==
  ASSUME IInv, NEW c \in Clients, ProxyBody(c)
  PROVE  IInv' /\ Hands /\ Persists
<1> USE DEF IInv
<1>1. /\ Asks(c, calls[c], FALSE, {}) /\ UNCHANGED sessionVars /\ draining' = draining
  BY DEF ProxyBody
<1>2. c \in Callers /\ c \notin Pushers
  BY ClientIs
<1>3. calls[c] \in Calls /\ calls[c].batch = "none"
  BY <1>2 DEF CallOk
<1>4. Served /\ Hands /\ Persists
  BY <1>1, <1>2, <1>3, AsksPlainly
<1> QED BY <1>1, <1>4, ServedKeeps DEF SessionsOk

\* The end of a request: its caller is idle, and if it is told that its session
\* is over, or has told so, the service of that session ends.
LEMMA EndsKeeps ==
  ASSUME IInv, NEW c \in Callers, calls[c].at = "sending", Ends(c),
         \/ b' = b /\ bad' = bad /\ stopped' = stopped
              /\ owes' \in [Pushers -> Batches]
              /\ \A s \in Pushers : owes'[s] \in {owes[s], "none"}
         \/ c \in Pushers /\ StopPushers({c}) /\ Becomes(Deactivated(b, c), {})
  PROVE  Served /\ Hands /\ Persists
<1> USE DEF IInv
<1>1. /\ calls' \in [Callers -> Calls] /\ calls'[c] = Idle
      /\ \A x \in Callers : x # c => calls'[x] = calls[x]
  BY IdleIs DEF Ends
<1>2. CallOk(c, Idle, b')
  BY IdleIs DEF CallOk, Idle
<1>3. calls[c] # Idle
  BY IdleIs
<1>4. c \in Pushers => ~Future(c)
  BY <1>3 DEF SessionsOk
<1>5. Hands
  BY <1>1, IdleIs, QuietStep
<1>6. CASE b' = b /\ bad' = bad /\ stopped' = stopped
             /\ owes' \in [Pushers -> Batches]
             /\ \A s \in Pushers : owes'[s] \in {owes[s], "none"}
  <2>1. Follows(b, b)
    BY FollowsItself DEF BrokerOk
  <2>2. \A s \in Pushers : Future(s) => calls'[s] = Idle /\ owes'[s] = "none"
    BY <1>1, <1>6 DEF SessionsOk, Callers
  <2>3. Served
    BY <1>1, <1>2, <1>6, <2>1, <2>2 DEF Served, SessionsOk, SameService, Follows
  <2>4. Persists
    BY <1>6 DEF Persists
  <2> QED BY <1>5, <2>3, <2>4
<1>7. CASE c \in Pushers /\ StopPushers({c}) /\ Becomes(Deactivated(b, c), {})
  <2> DEFINE cc == Deactivated(b, c)
  <2>1. BrokerOk(cc) /\ Follows(b, cc) /\ (b.session # c => cc = b)
    BY DeactivatedKeeps
  <2> HIDE DEF cc
  <2>2. Becomes(cc, {})
    BY <1>7 DEF cc
  <2>3. b' = cc /\ BadOk(cc, bad')
    BY <2>1, <2>2, BecomesFollows
  <2>4. /\ stopped' = stopped \union {c} /\ stopped' \in SUBSET Pushers
        /\ owes' \in [Pushers -> Batches]
        /\ \A s \in Pushers : owes'[s] \in {owes[s], "none"}
    BY <1>7, StopEffect
  <2>5. \A s \in Pushers : Future(s) => calls'[s] = Idle /\ owes'[s] = "none"
    BY <1>1, <1>4, <2>4 DEF SessionsOk, Callers
  <2>6. SameService(b, b') \/ (b.session \in stopped' /\ ~Future(b.session))
    BY <1>4, <1>7, <2>1, <2>3, <2>4 DEF SameService
  <2>7. Served
    BY <1>1, <1>2, <2>1, <2>3, <2>4, <2>5, <2>6 DEF Served, Follows
  <2>8. Persists
    BY <2>4 DEF Persists
  <2> QED BY <1>5, <2>7, <2>8
<1> QED BY <1>6, <1>7

\* Whatever the answer is.  A first 401 names the bearer as bad; it is the one the
\* identity that serves the session minted, or that of an identity closed since.
LEMMA AnswerKeeps ==
  ASSUME IInv, NEW c \in Callers, Answer(c)
  PROVE  IInv' /\ Hands /\ Persists
<1> USE DEF IInv
<1>1. /\ calls[c].at = "sending" /\ UNCHANGED sessionVars /\ draining' = draining
      /\ Accepted(c) \/ Unauthorized(c) \/ Forbidden(c) \/ Lost(c)
  BY DEF Answer
<1>2. /\ calls[c] \in Calls /\ calls[c] # Idle
      /\ IF c \in Pushers THEN calls[c].session = c ELSE calls[c].batch = "none"
      /\ calls[c].credential.of = calls[c].session
      /\ calls[c].credential.by \in 1..Len(b.ids)
      /\ b.ids[calls[c].credential.by].session = calls[c].session
      /\ ~b.ids[calls[c].credential.by].closed =>
           calls[c].credential.n <= b.ids[calls[c].credential.by].minted
  BY <1>1, IdleIs DEF CallOk
<1>3. c \in Pushers => ~Future(c)
  BY <1>2 DEF SessionsOk
<1>4. owes \in [Pushers -> Batches]
  BY DEF SessionsOk
<1>5. CASE Accepted(c)
  <2>1. CASE calls[c].batch = "terminal"
    <3>1. c \in Pushers
      BY <1>2, <2>1
    <3>2. Ends(c) /\ StopPushers({c}) /\ Becomes(Deactivated(b, c), {})
      BY <1>5, <2>1 DEF Accepted
    <3> QED BY <1>1, <3>1, <3>2, EndsKeeps, ServedKeeps DEF SessionsOk
  <2>2. CASE calls[c].batch # "terminal"
    <3>1. Ends(c) /\ b' = b /\ bad' = bad /\ stopped' = stopped
      BY <1>5, <2>2 DEF Accepted
    <3>2. \/ c \in Pushers /\ owes' = [owes EXCEPT ![c] = "none"]
          \/ owes' = owes
      BY <1>5, <2>2 DEF Accepted
    <3>3. /\ owes' \in [Pushers -> Batches]
          /\ \A s \in Pushers : owes'[s] \in {owes[s], "none"}
      BY <1>4, <3>2 DEF Batches
    <3> QED BY <1>1, <3>1, <3>3, EndsKeeps, ServedKeeps DEF SessionsOk
  <2> QED BY <2>1, <2>2
<1>6. ASSUME Denied(c) PROVE IInv' /\ Hands /\ Persists
  <2>1. CASE c \in Pushers
    <3>1. Ends(c) /\ StopPushers({c}) /\ Becomes(Deactivated(b, c), {})
      BY <1>6, <2>1 DEF Denied
    <3> QED BY <1>1, <2>1, <3>1, EndsKeeps, ServedKeeps DEF SessionsOk
  <2>2. CASE c \notin Pushers
    <3>1. Ends(c) /\ b' = b /\ bad' = bad /\ owes' = owes /\ stopped' = stopped
      BY <1>6, <2>2 DEF Denied
    <3>2. /\ owes' \in [Pushers -> Batches]
          /\ \A s \in Pushers : owes'[s] \in {owes[s], "none"}
      BY <1>4, <3>1
    <3> QED BY <1>1, <3>1, <3>2, EndsKeeps, ServedKeeps DEF SessionsOk
  <2> QED BY <2>1, <2>2
<1>7. CASE Unauthorized(c)
  <2>1. CASE calls[c].retried
    BY <1>6, <1>7, <2>1 DEF Unauthorized
  <2>2. CASE ~calls[c].retried
    <3> DEFINE call == [calls[c] EXCEPT !.retried = TRUE]
               worse == {calls[c].credential}
    <3>1. Asks(c, call, TRUE, worse)
      BY <1>7, <2>2 DEF Unauthorized
    <3>2. /\ call \in Calls /\ call.session = calls[c].session
          /\ call.batch = calls[c].batch
      BY <1>2 DEF Calls
    <3>3. \A w \in worse :
            /\ w \in Credentials /\ w.by \in 1..Len(b.ids)
            /\ b.ids[w.by].session = call.session
            /\ ~b.ids[w.by].closed => w.n <= b.ids[w.by].minted
      BY <1>2, <3>2 DEF Calls
    <3> HIDE DEF call, worse
    <3>4. Served /\ Hands /\ Persists
      BY <1>2, <1>3, <3>1, <3>2, <3>3, AsksKeeps
    <3> QED BY <1>1, <3>4, ServedKeeps DEF SessionsOk
  <2> QED BY <2>1, <2>2
<1>8. CASE Forbidden(c)
  BY <1>6, <1>8 DEF Forbidden
<1>9. CASE Lost(c)
  <2>1. Ends(c) /\ b' = b /\ bad' = bad /\ owes' = owes /\ stopped' = stopped
    BY <1>9 DEF Lost
  <2>2. /\ owes' \in [Pushers -> Batches]
        /\ \A s \in Pushers : owes'[s] \in {owes[s], "none"}
    BY <1>4, <2>1
  <2> QED BY <1>1, <2>1, <2>2, EndsKeeps, ServedKeeps DEF SessionsOk
<1> QED BY <1>1, <1>5, <1>7, <1>8, <1>9

\* A step of the broker alone, which makes nothing usable.
LEMMA BrokerStepKeeps ==
  ASSUME IInv, BrokerOk(b'), Follows(b, b'), SameService(b, b'), BadOk(b', bad'),
         calls' = calls, UNCHANGED sessionVars, UNCHANGED pusherVars
  PROVE  IInv' /\ Hands /\ Persists
<1> USE DEF IInv
<1>1. owes' = owes /\ stopped' = stopped /\ draining' = draining
  BY DEF pusherVars
<1>2. Served
  BY <1>1 DEF Served, SessionsOk, Follows
<1>3. Hands /\ Persists
  BY <1>1 DEF Hands, Persists
<1> QED BY <1>1, <1>2, <1>3, ServedKeeps DEF SessionsOk

\* The timer of a backoff.
LEMMA BackoffEndsKeeps ==
  ASSUME IInv, NEW k \in 1..Len(b.ids), BackoffEnds(k)
  PROVE  IInv' /\ Hands /\ Persists
<1> USE DEF IInv
<1> DEFINE x == b.ids[k]
           y == [x EXCEPT !.backoff = FALSE]
<1>1. /\ b' = [b EXCEPT !.ids[k] = y] /\ calls' = calls /\ UNCHANGED sessionVars
      /\ UNCHANGED pusherVars /\ bad' = bad
  BY DEF BackoffEnds, BrokerOk, BrokerTyped, BrokerRecord
<1>2. IdentityOk(x, k) /\ x \in Identity
  BY DEF BrokerOk, BrokerTyped, IdentityOk
<1> HIDE DEF x
<1>3. /\ y \in Identity /\ y.credential = x.credential /\ y.refused = x.refused
      /\ y.row = x.row /\ y.lastError = x.lastError /\ y.session = x.session
      /\ y.closed = x.closed /\ y.minted = x.minted /\ y.age = x.age
  BY <1>2 DEF Identity
<1> HIDE DEF y
<1>4. IdentityOk(y, k) /\ Usable(y) = Usable(x) /\ x.minted \in Nat
  BY <1>2, <1>3, IdentityTypes DEF IdentityOk, Usable
<1>5. /\ BrokerOk(b') /\ SameService(b, b') /\ Len(b'.ids) = Len(b.ids)
      /\ b'.ids[k] = y /\ \A j \in 1..Len(b.ids) : j # k => b'.ids[j] = b.ids[j]
  BY <1>1, <1>3, <1>4, UpdateKeeps, UpdateTyped DEF BrokerOk, x
<1>6. Follows(b, b')
  BY <1>3, <1>4, <1>5, UpdateFollows DEF BrokerOk, x
<1>7. BadOk(b', bad')
  BY <1>1, <1>3, <1>4, <1>5 DEF BadOk, x
<1> QED BY <1>1, <1>5, <1>6, <1>7, BrokerStepKeeps

\* What expires is known to be bad, and no longer usable.
LEMMA AgeKeeps ==
  ASSUME IInv, NEW k \in 1..Len(b.ids), Age(k)
  PROVE  IInv' /\ Hands /\ Persists
<1> USE DEF IInv
<1> DEFINE x == b.ids[k]
<1>1. PICK age \in {"due", "expired"} \ {x.age} :
        /\ b' = [b EXCEPT !.ids[k].age = age]
        /\ bad' = IF age = "expired" THEN bad \union {x.credential} ELSE bad
  BY DEF Age
<1>2. /\ x.credential # None /\ x.age # "expired" /\ calls' = calls
      /\ UNCHANGED sessionVars /\ UNCHANGED pusherVars
  BY DEF Age
<1>3. /\ IdentityOk(x, k) /\ x \in Identity /\ Usable(x) /\ ~x.closed
      /\ x.credential \in Credentials /\ x.credential.by = k
      /\ x.credential.n <= x.minted /\ x.minted \in Nat
  BY <1>2, IdentityTypes DEF BrokerOk, BrokerTyped, IdentityOk, Usable
<1> DEFINE y == [x EXCEPT !.age = age]
<1>4. b' = [b EXCEPT !.ids[k] = y]
  BY <1>1 DEF BrokerOk, BrokerTyped, BrokerRecord
<1> HIDE DEF x
<1>5. /\ y \in Identity /\ y.credential = x.credential /\ y.refused = x.refused
      /\ y.row = x.row /\ y.lastError = x.lastError /\ y.session = x.session
      /\ y.closed = x.closed /\ y.minted = x.minted /\ y.age = age
  BY <1>3 DEF Identity
<1> HIDE DEF y
<1>6. IdentityOk(y, k) /\ (Usable(y) => age # "expired")
  BY <1>3, <1>5 DEF IdentityOk, Usable
<1>7. /\ BrokerOk(b') /\ SameService(b, b') /\ Len(b'.ids) = Len(b.ids)
      /\ b'.ids[k] = y /\ \A j \in 1..Len(b.ids) : j # k => b'.ids[j] = b.ids[j]
  <2>1. /\ IdentityOk(y, k) /\ y.session = b.ids[k].session
        /\ y.closed = b.ids[k].closed /\ BrokerTyped(b)
    BY <1>5, <1>6 DEF BrokerOk, x
  <2>2. BrokerOk(b')
    BY <1>4, <2>1, UpdateKeeps
  <2> QED BY <1>4, <2>1, <2>2, UpdateTyped
<1>8. Follows(b, b')
  <2>1. /\ y.session = b.ids[k].session /\ y.closed = b.ids[k].closed
        /\ b.ids[k].minted <= y.minted
        /\ Usable(y) => Usable(b.ids[k]) /\ y.credential = b.ids[k].credential
    BY <1>3, <1>5 DEF x
  <2>2. BrokerTyped(b) /\ BrokerTyped(b')
    BY <1>7 DEF BrokerOk
  <2> QED BY <1>7, <2>1, <2>2, UpdateFollows
<1>9. ASSUME NEW j \in 1..Len(b'.ids), Usable(b'.ids[j]) PROVE b'.ids[j].credential \notin bad'
  <2>1. b'.ids[j].credential = b.ids[j].credential /\ Usable(b.ids[j])
        /\ j \in 1..Len(b.ids)
    BY <1>8, <1>9 DEF Follows
  <2>2. b.ids[j].credential \notin bad
    BY <2>1 DEF BadOk
  <2>3. CASE age # "expired"
    BY <1>1, <2>1, <2>2, <2>3
  <2>4. CASE age = "expired"
    <3>1. j # k
      BY <1>6, <1>7, <1>9, <2>4
    <3>2. b.ids[j].credential.by = j
      BY <2>1 DEF BrokerOk, BrokerTyped, IdentityOk, Usable
    <3> QED BY <1>1, <1>3, <2>1, <2>2, <3>1, <3>2
  <2> QED BY <2>3, <2>4
<1>10. ASSUME NEW c \in bad'
       PROVE  /\ c \in Credentials /\ c.by \in 1..Len(b'.ids)
              /\ ~b'.ids[c.by].closed /\ c.n <= b'.ids[c.by].minted
  <2>1. /\ c \in Credentials /\ c.by \in 1..Len(b.ids)
        /\ ~b.ids[c.by].closed /\ c.n <= b.ids[c.by].minted
    BY <1>1, <1>3, <1>10 DEF BadOk, x
  <2> QED BY <1>5, <1>7, <2>1 DEF x
<1>11. BadOk(b', bad')
  BY <1>9, <1>10 DEF BadOk
<1> QED BY <1>2, <1>7, <1>8, <1>11, BrokerStepKeeps

\* After a sleep nothing of before is used.
LEMMA TickKeeps ==
  ASSUME IInv, Tick
  PROVE  IInv' /\ Hands /\ Persists
<1> USE DEF IInv
<1>1. calls' = calls /\ UNCHANGED sessionVars /\ UNCHANGED pusherVars
  BY DEF Tick
<1>2. CASE Becomes(Refresh(b), {})
  <2> DEFINE cc == Refresh(b)
  <2>1. BrokerOk(cc) /\ Follows(b, cc) /\ SameService(b, cc)
    BY RefreshKeeps
  <2> HIDE DEF cc
  <2>2. Becomes(cc, {})
    BY <1>2 DEF cc
  <2>3. b' = cc /\ BadOk(cc, bad')
    BY <2>1, <2>2, BecomesFollows
  <2> QED BY <1>1, <2>1, <2>3, BrokerStepKeeps
<1>3. CASE Becomes(Woken(b), {b.ids[k].credential : k \in {b.wid, b.sid} \ {0}})
  <2> DEFINE cc == Woken(b)
             worse == {b.ids[k].credential : k \in {b.wid, b.sid} \ {0}}
  <2>1. /\ BrokerOk(cc) /\ Follows(b, cc) /\ SameService(b, cc)
        /\ \A k \in {b.wid, b.sid} \ {0} : cc.ids[k].closed
    BY WokenKeeps
  <2>2. Becomes(cc, worse)
    BY <1>3
  <2>3. ASSUME NEW w \in worse, w # None
        PROVE  w \in Credentials /\ w.by \in 1..Len(b.ids) /\ cc.ids[w.by].closed
    <3>1. PICK k \in {b.wid, b.sid} \ {0} : w = b.ids[k].credential
      BY <2>3
    <3>2. k \in 1..Len(b.ids)
      BY <3>1 DEF BrokerOk
    <3>3. IdentityOk(b.ids[k], k)
      BY <3>2 DEF BrokerOk, BrokerTyped
    <3>4. w.by = k /\ w \in Credentials
      BY <2>3, <3>1, <3>3, IdentityTypes DEF IdentityOk
    <3> QED BY <2>1, <3>1, <3>2, <3>4
  <2> HIDE DEF cc, worse
  <2>4. b' = cc /\ BadOk(cc, bad')
    BY <2>1, <2>2, <2>3, BecomesFollows
  <2> QED BY <1>1, <2>1, <2>4, BrokerStepKeeps
<1> QED BY <1>2, <1>3 DEF Tick

\* drain() stops its pusher at the deadline.
LEMMA DrainStopsKeeps ==
  ASSUME IInv, NEW s \in Pushers, DrainStops(s)
  PROVE  IInv' /\ Hands /\ Persists
<1> USE DEF IInv
<1>1. /\ stopped' = stopped \union {s} /\ b' = b /\ bad' = bad /\ calls' = calls
      /\ UNCHANGED sessionVars /\ owes' = owes /\ draining' = draining
  BY DEF DrainStops
<1>2. Follows(b, b)
  BY FollowsItself DEF BrokerOk
<1>3. Served
  BY <1>1, <1>2 DEF Served, SessionsOk, SameService, Follows
<1>4. Hands /\ Persists
  BY <1>1 DEF Hands, Persists
<1> QED BY <1>1, <1>3, <1>4, ServedKeeps DEF SessionsOk

\* The session that runs queues an event.
LEMMA EmitKeeps ==
  ASSUME IInv, NEW s \in Pushers, Emit(s)
  PROVE  IInv' /\ Hands /\ Persists
<1> USE DEF IInv
<1>1. /\ owes' = [owes EXCEPT ![s] = "events"] /\ b' = b /\ bad' = bad
      /\ UNCHANGED sessionVars /\ calls' = calls /\ stopped' = stopped
      /\ draining' = draining /\ s = live
  BY DEF Emit, Running
<1>2. Follows(b, b)
  BY FollowsItself DEF BrokerOk
<1>3. owes' \in [Pushers -> Batches]
  BY <1>1 DEF SessionsOk, Batches
<1>4. \A q \in Pushers : Future(q) => calls'[q] = Idle /\ owes'[q] = "none"
  BY <1>1 DEF SessionsOk
<1>5. Served
  BY <1>1, <1>2, <1>3, <1>4 DEF Served, SessionsOk, SameService, Follows
<1>6. Hands /\ Persists
  BY <1>1 DEF Hands, Persists
<1> QED BY <1>1, <1>5, <1>6, ServedKeeps DEF SessionsOk

-----------------------------------------------------------------------------
(* Renewals, and what changes handleCreate or ends a session *)

\* The end of a renewal, before anybody is told: the identity becomes y, no longer
\* renewing, and what the renewal showed to be bad is not handed out.
LEMMA RenewalLeaves ==
  ASSUME IInv, NEW k \in 1..Len(b.ids), NEW y, NEW got, NEW worse,
         Renewed(b.ids[k], k, y, got, worse)
  PROVE  LET cc == [b EXCEPT !.ids[k] = [y EXCEPT !.renewing = FALSE]]
         IN  /\ BrokerOk(cc) /\ Stays(b, cc) /\ SameService(b, cc)
             /\ \A j \in 1..Len(cc.ids) :
                  Usable(cc.ids[j]) => cc.ids[j].credential \notin bad \union worse
             /\ \A c \in worse :
                  c = None \/ /\ c \in Credentials /\ c.by \in 1..Len(b.ids)
                              /\ ~cc.ids[c.by].closed => c.n <= cc.ids[c.by].minted
<1> USE DEF IInv
<1> DEFINE x == b.ids[k]
           z == [y EXCEPT !.renewing = FALSE]
           cc == [b EXCEPT !.ids[k] = z]
<1>1. /\ IdentityOk(x, k) /\ IdentityOk(y, k) /\ y.session = x.session
      /\ y.closed = x.closed /\ x.minted <= y.minted
      /\ x.minted \in Nat /\ y.minted \in Nat
      /\ Usable(y) => \/ Usable(x) /\ y.credential = x.credential
                      \/ y.credential.n = x.minted + 1
      /\ \A c \in worse : (c = None \/ c = x.credential) /\ ~Usable(y)
  <2>1. IdentityOk(x, k) /\ IdentityOk(y, k)
    BY DEF Renewed, BrokerOk, BrokerTyped
  <2>2. x.minted \in Nat /\ y.minted \in Nat
    BY <2>1, IdentityTypes
  <2> HIDE DEF x
  <2> QED BY <2>1, <2>2 DEF Renewed, x
<1>2. /\ IdentityOk(z, k) /\ z.session = x.session /\ z.closed = x.closed
      /\ z.minted = y.minted /\ z.credential = y.credential
      /\ Usable(z) = Usable(y)
  <2> HIDE DEF x
  <2> QED BY <1>1, RenewingEffect
<1> HIDE DEF z
<1>3. /\ BrokerTyped(cc) /\ SameService(b, cc) /\ Len(cc.ids) = Len(b.ids)
      /\ cc.ids[k] = z /\ \A j \in 1..Len(b.ids) : j # k => cc.ids[j] = b.ids[j]
  BY <1>2, UpdateTyped DEF BrokerOk
<1>4. BrokerOk(cc)
  BY <1>2, UpdateKeeps
<1> HIDE DEF cc
<1>5. Len(b.ids) \in Nat /\ \A j \in 1..Len(b.ids) : b.ids[j].minted \in Nat
  BY BrokerTypes DEF BrokerOk
<1>6. Stays(b, cc)
  BY <1>1, <1>2, <1>3, <1>5 DEF Stays
<1>7. ASSUME NEW j \in 1..Len(cc.ids), Usable(cc.ids[j])
      PROVE  cc.ids[j].credential \notin bad \union worse
  <2>1. CASE j # k
    <3>1. /\ cc.ids[j] = b.ids[j] /\ Usable(b.ids[j])
      BY <1>3, <1>7, <2>1
    <3>2. b.ids[j].credential \notin bad
      BY <1>3, <3>1 DEF BadOk
    <3>3. b.ids[j].credential # None /\ b.ids[j].credential.by = j
      BY <1>3, <3>1 DEF BrokerOk, BrokerTyped, IdentityOk, Usable
    <3>4. x.credential = None \/ x.credential.by = k
      BY <1>1 DEF IdentityOk
    <3>5. b.ids[j].credential \notin worse
      BY <1>1, <2>1, <3>3, <3>4
    <3> QED BY <3>1, <3>2, <3>5
  <2>2. CASE j = k
    <3>1. cc.ids[j].credential = y.credential /\ Usable(y)
      BY <1>2, <1>3, <1>7, <2>2
    <3>2. worse = {}
      BY <1>1, <3>1
    <3>3. y.credential \in Credentials /\ y.credential.by = k /\ y.credential # None
      BY <1>1, <3>1, IdentityTypes DEF IdentityOk, Usable
    <3>4. CASE Usable(x) /\ y.credential = x.credential
      BY <3>1, <3>2, <3>4 DEF BadOk
    <3>5. CASE y.credential.n = x.minted + 1
      <4>1. ASSUME y.credential \in bad PROVE FALSE
        <5>1. y.credential.n <= x.minted
          BY <3>3, <4>1 DEF BadOk
        <5> QED BY <1>1, <3>5, <5>1
      <4> QED BY <3>1, <3>2, <4>1
    <3> QED BY <1>1, <3>1, <3>4, <3>5
  <2> QED BY <2>1, <2>2
<1>8. ASSUME NEW c \in worse, c # None
      PROVE  /\ c \in Credentials /\ c.by \in 1..Len(b.ids)
             /\ ~cc.ids[c.by].closed => c.n <= cc.ids[c.by].minted
  <2>1. c = x.credential /\ c \in Credentials
    BY <1>1, <1>8, IdentityTypes
  <2>2. c.by = k /\ c.n <= x.minted /\ c.n \in Nat
    BY <1>1, <1>8, <2>1 DEF IdentityOk, Credentials
  <2>3. cc.ids[c.by].minted = y.minted
    BY <1>2, <1>3, <2>2
  <2> QED BY <1>1, <2>1, <2>2, <2>3
<1> QED BY <1>3, <1>4, <1>6, <1>7, <1>8 DEF cc, z

\* What those who wait are given: a usable credential of the identity, or an error
\* no worse than its refusals in a row, the one that may be added included.
LEMMA WaiterGets ==
  ASSUME NEW k \in Nat, NEW x, IdentityOk(x, k), NEW y, NEW got, NEW worse,
         Renewed(x, k, y, got, worse), NEW fresh \in BOOLEAN
  PROVE  LET g == IF got.at = "sending" THEN got ELSE Fallback(y, fresh, got.error)
         IN  /\ g \in Gots /\ g.at \in {"sending", "failed"}
             /\ g.at = "sending" =>
                  ~x.closed /\ Usable(y) /\ g.credential = y.credential
             /\ g.at = "failed" => g.error <= x.row + 1 /\ (x.closed => g.error = 0)
<1>1. /\ got \in Gots /\ got.at \in {"sending", "failed"} /\ got.error \in Nat
      /\ got.at = "failed" => got.error <= x.row + 1 /\ (x.closed => got.error = 0)
      /\ got.at = "sending" => ~x.closed /\ Usable(y) /\ got.credential = y.credential
      /\ IdentityOk(y, k) /\ y.closed = x.closed
  BY DEF Renewed, Gots
<1>2. y.credential \in Credentials
  BY <1>1, IdentityTypes
<1>3. CASE got.at = "sending"
  BY <1>1, <1>3
<1>4. CASE got.at = "failed"
  <2> DEFINE g == Fallback(y, fresh, got.error)
  <2>1. Failed(got.error) \in Gots /\ Failed(got.error).at = "failed"
        /\ Failed(got.error).error = got.error
    BY <1>1, NoneIs DEF Failed, Gots
  <2>2. Has(y.credential) \in Gots /\ Has(y.credential).at = "sending"
        /\ Has(y.credential).credential = y.credential
    BY <1>2 DEF Has, Gots
  <2>3. \/ g = Failed(got.error)
        \/ ~y.closed /\ Usable(y) /\ g = Has(y.credential)
    BY DEF Fallback
  <2> HIDE DEF g
  <2>4. /\ g \in Gots /\ g.at \in {"sending", "failed"}
        /\ g.at = "sending" =>
             ~x.closed /\ Usable(y) /\ g.credential = y.credential
        /\ g.at = "failed" => g.error <= x.row + 1 /\ (x.closed => g.error = 0)
    BY <1>1, <1>4, <2>1, <2>2, <2>3
  <2> QED BY <1>4, <2>4 DEF g
<1> QED BY <1>1, <1>3, <1>4

\* The renewal's end as a step of the broker, which may deactivate besides.
LEMMA RenewalBecomes ==
  ASSUME IInv, NEW k \in 1..Len(b.ids), NEW y, NEW got, NEW worse,
         Renewed(b.ids[k], k, y, got, worse),
         NEW cc, cc = [b EXCEPT !.ids[k] = [y EXCEPT !.renewing = FALSE]],
         NEW dd, BrokerOk(dd), Follows(cc, dd), Becomes(dd, worse)
  PROVE  /\ b' = dd /\ BadOk(dd, bad') /\ Stays(b, dd)
         /\ Usable(y) => y.credential \notin bad'
<1> USE DEF IInv
<1>1. /\ BrokerOk(cc) /\ Stays(b, cc)
      /\ \A j \in 1..Len(cc.ids) :
           Usable(cc.ids[j]) => cc.ids[j].credential \notin bad \union worse
      /\ \A c \in worse :
           c = None \/ /\ c \in Credentials /\ c.by \in 1..Len(b.ids)
                       /\ ~cc.ids[c.by].closed => c.n <= cc.ids[c.by].minted
  <2> DEFINE ee == [b EXCEPT !.ids[k] = [y EXCEPT !.renewing = FALSE]]
  <2>1. /\ BrokerOk(ee) /\ Stays(b, ee)
        /\ \A j \in 1..Len(ee.ids) :
             Usable(ee.ids[j]) => ee.ids[j].credential \notin bad \union worse
        /\ \A c \in worse :
             c = None \/ /\ c \in Credentials /\ c.by \in 1..Len(b.ids)
                         /\ ~ee.ids[c.by].closed => c.n <= ee.ids[c.by].minted
    BY RenewalLeaves
  <2>2. cc = ee
    OBVIOUS
  <2> HIDE DEF ee
  <2> QED BY <2>1, <2>2
<1>2. BrokerTyped(b) /\ BrokerTyped(cc) /\ BrokerTyped(dd) /\ Stays(cc, dd)
  BY <1>1 DEF BrokerOk, Follows
<1>3. Stays(b, dd)
  BY <1>1, <1>2, StaysOn
<1>4. ASSUME NEW j \in 1..Len(dd.ids), Usable(dd.ids[j])
      PROVE  dd.ids[j].credential \notin bad \union worse
  BY <1>1, <1>4 DEF Follows
<1>5. ASSUME NEW c \in worse, c # None
      PROVE  /\ c \in Credentials /\ c.by \in 1..Len(b.ids)
             /\ ~dd.ids[c.by].closed => c.n <= dd.ids[c.by].minted
  <2>1. /\ c \in Credentials /\ c.by \in 1..Len(b.ids) /\ c.n \in Nat
        /\ ~cc.ids[c.by].closed => c.n <= cc.ids[c.by].minted
    BY <1>1, <1>5 DEF Credentials
  <2>2. /\ Len(b.ids) \in Nat /\ Len(cc.ids) \in Nat /\ Len(dd.ids) \in Nat
        /\ Len(b.ids) <= Len(cc.ids) /\ Len(cc.ids) <= Len(dd.ids)
    BY <1>1, <1>2, BrokerTypes DEF Stays
  <2>3. c.by \in 1..Len(cc.ids) /\ c.by \in 1..Len(dd.ids)
    BY <2>1, <2>2
  <2>4. cc.ids[c.by].minted \in Nat /\ dd.ids[c.by].minted \in Nat
    BY <1>2, <2>3, BrokerTypes
  <2>5. ~dd.ids[c.by].closed =>
          ~cc.ids[c.by].closed /\ cc.ids[c.by].minted <= dd.ids[c.by].minted
    BY <1>2, <2>3 DEF Stays
  <2> QED BY <2>1, <2>4, <2>5
<1>6. b' = dd /\ BadOk(dd, bad') /\ bad' \subseteq bad \union worse
  BY <1>3, <1>4, <1>5, BecomesKeeps
<1>7. ASSUME Usable(y) PROVE y.credential \notin bad'
  <2> DEFINE z == [y EXCEPT !.renewing = FALSE]
  <2>1. IdentityOk(y, k) /\ k \in Nat
    BY DEF Renewed
  <2>2. IdentityOk(z, k) /\ z.credential = y.credential /\ Usable(z) = Usable(y)
    BY <2>1, RenewingEffect
  <2> HIDE DEF z
  <2>3. cc.ids[k] = z /\ Len(cc.ids) = Len(b.ids)
    BY <2>2, UpdateTyped DEF BrokerOk, z
  <2>4. y.credential \notin bad \union worse
    BY <1>1, <1>7, <2>2, <2>3
  <2> QED BY <1>6, <2>4
<1> QED BY <1>3, <1>6, <1>7

\* What a step must show while no session runs.
LEMMA IdleStepKeeps ==
  ASSUME IInv, \A s \in Pushers : s = live => s \in over, live' = live,
         over \subseteq over', over' \in SUBSET Pushers, CreateOk',
         create.session <= create'.session,
         BrokerOk(b'), Stays(b, b'), BadOk(b', bad'), calls' \in [Callers -> Calls],
         \A c \in Callers : calls'[c] # calls[c] => CallOk(c, calls'[c], b'),
         stopped' \in SUBSET Pushers, draining' \in SUBSET Pushers,
         owes' \in [Pushers -> Batches],
         \A s \in Pushers : Future(s)' =>
            Future(s) /\ calls'[s] = Idle /\ owes'[s] = "none"
  PROVE  IInv'
<1> USE DEF IInv
<1>1. \A c \in Callers : CallOk(c, calls'[c], b')
  BY CallKept DEF BrokerOk
<1>2. \A s \in Pushers : ~Running(s)'
  BY DEF Running
<1>3. create.session \in Nat /\ create'.session \in Nat
  BY DEF CreateOk, Numbers
<1>4. SessionsOk'
  BY <1>2, <1>3 DEF SessionsOk
<1> QED BY <1>1, <1>4

\* The end of a renewal for all who wait for it.
LEMMA ResolveKeeps ==
  ASSUME IInv, NEW k \in 1..Len(b.ids), NEW y, NEW got, NEW worse,
         Renewed(b.ids[k], k, y, got, worse), b.ids[k].renewing,
         Resolve(k, y, got, worse), live' = live, draining' = draining
  PROVE  IInv' /\ Hands /\ Persists
<1> USE DEF IInv
<1> DEFINE x == b.ids[k]
           G(c) == IF got.at = "sending" THEN got
                   ELSE Fallback(y, calls[c].fresh, got.error)
           waiting == {c \in Callers : calls[c].at = "waiting" /\ calls[c].id = k}
           gave == {c \in waiting : GivesUp(c, G(c))}
           creating == create.at = "activating" /\ create.id = k
           cc == [b EXCEPT !.ids[k] = [y EXCEPT !.renewing = FALSE]]
           ee == [cc EXCEPT !.routes = b.session]
           dd == IF b.session \in gave THEN Deactivated(cc, b.session) ELSE cc
<1>1. /\ calls' = [c \in Callers |->
                     IF c \in waiting THEN Settled(calls[c], G(c)) ELSE calls[c]]
      /\ StopPushers(gave)
      /\ \/ /\ creating /\ got.at = "sending"
            /\ create' = [create EXCEPT !.at = "starting", !.id = 0]
            /\ Becomes(ee, worse) /\ over' = over
         \/ /\ creating /\ got.at # "sending" /\ create' = NoCreate
            /\ Becomes(Deactivated(cc, create.session), worse)
            /\ over' = over \union {create.session}
         \/ ~creating /\ Becomes(dd, worse) /\ create' = create /\ over' = over
  BY DEF Resolve
<1>2. /\ BrokerOk(cc) /\ Stays(b, cc) /\ SameService(b, cc)
  BY RenewalLeaves
<1>3. /\ IdentityOk(x, k) /\ k \in Nat /\ x.row \in Nat /\ x.session \in Numbers
      /\ IdentityOk(y, k) /\ y.session = x.session /\ y.minted \in Nat
  BY IdentityTypes DEF Renewed, BrokerOk, BrokerTyped
<1>4. /\ Len(cc.ids) = Len(b.ids) /\ k \in 1..Len(cc.ids)
      /\ cc.ids[k].session = x.session /\ cc.ids[k].minted = y.minted
  <2> DEFINE z == [y EXCEPT !.renewing = FALSE]
  <2>1. IdentityOk(z, k) /\ z.session = y.session /\ z.minted = y.minted
    BY <1>3, RenewingEffect
  <2> HIDE DEF z
  <2>2. Len(cc.ids) = Len(b.ids) /\ cc.ids[k] = z
    BY <2>1, UpdateTyped DEF BrokerOk, z
  <2> HIDE DEF cc
  <2> QED BY <1>3, <2>1, <2>2
<1> HIDE DEF cc
<1>5. ASSUME NEW c \in waiting
      PROVE  /\ calls[c] \in Calls /\ calls[c].session = x.session /\ c \in Callers
             /\ IF c \in Pushers THEN calls[c].session = c /\ ~Future(c)
                ELSE calls[c].batch = "none"
             /\ G(c) \in Gots /\ G(c).at \in {"sending", "failed"}
             /\ G(c).at = "sending" =>
                  ~x.closed /\ Usable(y) /\ G(c).credential = y.credential
             /\ G(c).at = "failed" =>
                  G(c).error <= x.row + 1 /\ (x.closed => G(c).error = 0)
  <2>1. /\ calls[c] \in Calls /\ calls[c].session = x.session /\ c \in Callers
        /\ IF c \in Pushers THEN calls[c].session = c ELSE calls[c].batch = "none"
    BY DEF CallOk
  <2>2. c \in Pushers => ~Future(c)
    BY IdleIs DEF SessionsOk
  <2>3. calls[c].fresh \in BOOLEAN
    BY <2>1 DEF Calls
  <2>4. /\ G(c) \in Gots /\ G(c).at \in {"sending", "failed"}
        /\ G(c).at = "sending" =>
             ~x.closed /\ Usable(y) /\ G(c).credential = y.credential
        /\ G(c).at = "failed" =>
             G(c).error <= x.row + 1 /\ (x.closed => G(c).error = 0)
    <3> HIDE DEF x
    <3> QED BY <1>3, <2>3, WaiterGets DEF x
  <2> HIDE DEF G, x
  <2> QED BY <2>1, <2>2, <2>4
<1> HIDE DEF G
<1>6. ASSUME NEW c \in waiting
      PROVE  /\ calls'[c] \in Calls /\ CallOk(c, calls'[c], cc)
             /\ calls'[c].at = "sending" =>
                  ~x.closed /\ Usable(y) /\ calls'[c].credential = y.credential
  <2> DEFINE u == Settled(calls[c], G(c))
  <2>1. /\ u \in Calls /\ u.at # "new"
        /\ G(c).at = "failed" => u = Idle
        /\ G(c).at # "failed" => /\ u.at = G(c).at /\ u.session = calls[c].session
                                 /\ u.batch = calls[c].batch
                                 /\ u.credential = G(c).credential
    BY <1>5, SettledEffect
  <2>2. calls'[c] = u
    BY <1>1
  <2> HIDE DEF u, waiting, x
  <2>3. CASE G(c).at = "failed"
    BY <2>1, <2>2, <2>3, IdleIs DEF CallOk
  <2>4. CASE G(c).at = "sending"
    <3>1. /\ u.credential = y.credential /\ y.credential # None /\ u.at = "sending"
          /\ u.session = x.session /\ ~x.closed /\ Usable(y)
      BY <1>5, <2>1, <2>4 DEF Usable
    <3>2. /\ y.credential.of = x.session /\ y.credential.by = k
          /\ y.credential.n <= y.minted
      BY <1>3, <3>1 DEF IdentityOk
    <3>3. IF c \in Pushers THEN u.session = c ELSE u.batch = "none"
      BY <1>5, <2>1, <2>4
    <3> QED BY <1>4, <2>1, <2>2, <3>1, <3>2, <3>3 DEF CallOk
  <2> QED BY <1>5, <2>3, <2>4
<1>7. \A c \in Callers : c \notin waiting => calls'[c] = calls[c]
  BY <1>1
<1>8. calls' \in [Callers -> Calls]
  <2>1. ASSUME NEW c \in Callers
        PROVE (IF c \in waiting THEN Settled(calls[c], G(c)) ELSE calls[c]) \in Calls
    BY <1>1, <1>6, <2>1
  <2> QED BY <1>1, <2>1
<1>9. ASSUME NEW c \in gave
      PROVE  /\ c \in Pushers /\ c = x.session /\ ~Future(c) /\ ~x.closed
             /\ x.row + 1 >= MaxRefusals
  <2>1. c \in Pushers /\ G(c).at = "failed" /\ G(c).error >= MaxRefusals
    BY DEF GivesUp
  <2>2. G(c).error \in Nat
    BY <1>5 DEF Gots
  <2> QED BY <1>3, <1>5, <2>1, <2>2, BrokerAssumption
<1>10. /\ stopped' = stopped \union gave /\ stopped' \in SUBSET Pushers
       /\ owes' \in [Pushers -> Batches]
       /\ \A s \in Pushers : owes'[s] \in {owes[s], "none"}
  BY <1>1, <1>9 DEF StopPushers, SessionsOk, Batches
<1>11. ASSUME NEW s \in Pushers, Future(s) PROVE calls'[s] = Idle /\ owes'[s] = "none"
  <2>1. calls[s] = Idle /\ owes[s] = "none" /\ s \in Callers
    BY <1>11 DEF SessionsOk, Callers
  <2>2. s \notin waiting
    BY <2>1, IdleIs
  <2> QED BY <1>7, <1>10, <2>1, <2>2
<1>12. ASSUME NEW ff, BrokerOk(ff), Follows(cc, ff), Becomes(ff, worse)
       PROVE  /\ b' = ff /\ BadOk(b', bad') /\ Stays(b, b') /\ BrokerOk(b') /\ Hands
              /\ \A c \in Callers : calls'[c] # calls[c] => CallOk(c, calls'[c], b')
  <2>1. /\ b' = ff /\ BadOk(ff, bad') /\ Stays(b, ff)
        /\ Usable(y) => y.credential \notin bad'
    BY <1>12, RenewalBecomes DEF cc
  <2>2. Hands
    <3> SUFFICES ASSUME NEW c \in waiting, calls'[c].at = "sending"
                 PROVE  /\ calls'[c].credential \notin bad'
                        /\ ~b.ids[calls'[c].credential.by].closed
      BY <1>7 DEF Hands
    <3>1. calls'[c].credential = y.credential /\ Usable(y) /\ ~x.closed
      BY <1>6
    <3>2. y.credential.by = k
      BY <1>3, <3>1 DEF IdentityOk, Usable
    <3> QED BY <2>1, <3>1, <3>2
  <2>3. BrokerTyped(cc) /\ BrokerTyped(ff) /\ Stays(cc, ff)
    BY <1>2, <1>12 DEF BrokerOk, Follows
  <2>4. ASSUME NEW c \in waiting PROVE CallOk(c, calls'[c], ff)
    BY <1>6, <2>3, CallKept
  <2> QED BY <1>7, <1>12, <2>1, <2>2, <2>4
<1> HIDE DEF waiting, gave
<1>13. Follows(cc, cc)
  BY <1>2, FollowsItself DEF BrokerOk
<1>14. CASE ~creating
  <2>1. Becomes(dd, worse) /\ UNCHANGED sessionVars
    BY <1>1, <1>14 DEF sessionVars
  <2>2. BrokerOk(dd) /\ Follows(cc, dd) /\ (b.session \notin gave => dd = cc)
    BY <1>2, <1>13, DeactivatedKeeps
  <2> HIDE DEF dd
  <2>3. /\ b' = dd /\ BadOk(b', bad') /\ Stays(b, b') /\ BrokerOk(b') /\ Hands
        /\ \A c \in Callers : calls'[c] # calls[c] => CallOk(c, calls'[c], b')
    BY <1>12, <2>1, <2>2
  <2>4. SameService(b, b') \/ (b.session \in stopped' /\ ~Future(b.session))
    BY <1>2, <1>9, <1>10, <2>2, <2>3
  <2>5. Served
    BY <1>8, <1>10, <1>11, <2>3, <2>4 DEF Served
  <2>6. Persists
    <3> SUFFICES ASSUME b.session \in gave
                 PROVE  b.ids[b.sid].row + (IF b.ids[b.sid].renewing THEN 1 ELSE 0)
                          >= MaxRefusals
      BY <1>2, <2>2, <2>3 DEF Persists, SameService
    <3>1. x.session = b.session /\ b.session # 0 /\ ~x.closed /\ x.row + 1 >= MaxRefusals
      BY <1>9 DEF Pushers
    <3>2. k = b.sid
      BY <3>1 DEF BrokerOk
    <3> QED BY <3>1, <3>2
  <2> QED BY <2>1, <2>3, <2>5, <2>6, ServedKeeps DEF SessionsOk
<1>15. CASE creating
  <2>1. /\ create.at = "activating" /\ create.session # 0 /\ create.session \in Numbers
        /\ b.session = create.session /\ x.session = create.session
        /\ create \in [at : {"none", "loading", "activating", "starting"},
                       session : Numbers, id : Nat]
    BY <1>15 DEF CreateOk
  <2>2. create.session \in Pushers /\ Future(create.session)
    BY <2>1, BrokerAssumption DEF Future, Pushers, Numbers
  <2>3. gave = {}
    BY <1>9, <2>1, <2>2
  <2>4. Persists
    BY <1>10, <2>3 DEF Persists
  <2>5. \A s \in Pushers : s = live => s \in over
    BY <2>1 DEF CreateOk, Pushers
  <2>6. create.session \in Nat
    BY <2>1, BrokerAssumption DEF Numbers
  <2>7. draining' \in SUBSET Pushers /\ over \in SUBSET Pushers
    BY DEF SessionsOk
  <2>8. CASE got.at = "sending"
    <3>1. /\ Becomes(ee, worse) /\ over' = over
          /\ create' = [create EXCEPT !.at = "starting", !.id = 0]
      BY <1>1, <1>15, <2>8
    <3>2. /\ cc \in BrokerRecord /\ b.session \in Numbers
      BY <1>2, <2>1 DEF BrokerOk, BrokerTyped
    <3>3. /\ ee \in BrokerRecord /\ ee.ids = cc.ids /\ ee.wid = cc.wid
          /\ ee.sid = cc.sid /\ ee.session = cc.session /\ ee.routes = b.session
      BY <3>2 DEF BrokerRecord
    <3> HIDE DEF ee
    <3>4. BrokerOk(ee)
      BY <1>2, <3>3 DEF BrokerOk, BrokerTyped
    <3>5. Follows(cc, ee)
      BY <1>2, <1>13, <3>3, <3>4, SameIdsFollow DEF BrokerOk
    <3>6. /\ b' = ee /\ BadOk(b', bad') /\ Stays(b, b') /\ BrokerOk(b') /\ Hands
          /\ \A c \in Callers : calls'[c] # calls[c] => CallOk(c, calls'[c], b')
      BY <1>12, <3>1, <3>4, <3>5
    <3>7. /\ create'.at = "starting" /\ create'.session = create.session
          /\ create' \in [at : {"none", "loading", "activating", "starting"},
                          session : Numbers, id : Nat]
      BY <2>1, <3>1
    <3>8. Serves(b', create.session)
      BY <1>2, <2>1, <3>3, <3>6 DEF Serves, SameService
    <3>9. CreateOk'
      BY <2>1, <3>1, <3>7, <3>8 DEF CreateOk
    <3>10. \A s \in Pushers : Future(s)' => Future(s)
      BY <2>1, <3>7 DEF Future
    <3> QED
      BY <1>8, <1>10, <1>11, <2>4, <2>5, <2>6, <2>7, <3>1, <3>6, <3>7, <3>9, <3>10,
         IdleStepKeeps
  <2>9. CASE got.at # "sending"
    <3> DEFINE ff == Deactivated(cc, create.session)
    <3>1. /\ Becomes(ff, worse) /\ create' = NoCreate
          /\ over' = over \union {create.session}
      BY <1>1, <1>15, <2>9
    <3>2. BrokerOk(ff) /\ Follows(cc, ff)
      BY <1>2, DeactivatedKeeps
    <3> HIDE DEF ff
    <3>3. /\ b' = ff /\ BadOk(b', bad') /\ Stays(b, b') /\ BrokerOk(b') /\ Hands
          /\ \A c \in Callers : calls'[c] # calls[c] => CallOk(c, calls'[c], b')
      BY <1>12, <3>1, <3>2
    <3>4. /\ create'.at = "none" /\ create'.session = create.session
          /\ create' \in [at : {"none", "loading", "activating", "starting"},
                          session : Numbers, id : Nat]
      BY <2>1, <3>1 DEF NoCreate
    <3>5. CreateOk'
      BY <3>4 DEF CreateOk
    <3>6. \A s \in Pushers : Future(s)' => Future(s)
      BY <3>4 DEF Future
    <3>7. over \subseteq over' /\ over' \in SUBSET Pushers
      BY <2>2, <2>7, <3>1
    <3> QED
      BY <1>8, <1>10, <1>11, <2>4, <2>5, <2>6, <2>7, <3>3, <3>4, <3>5, <3>6, <3>7,
         IdleStepKeeps
  <2> QED BY <2>8, <2>9
<1> QED BY <1>14, <1>15

\* However renew() ends, one of the four ways.
LEMMA RenewEndsKeeps ==
  ASSUME IInv, NEW k \in 1..Len(b.ids), RenewEnds(k)
  PROVE  IInv' /\ Hands /\ Persists
<1> USE DEF IInv
<1> DEFINE x == b.ids[k]
<1>1. x.renewing /\ live' = live /\ draining' = draining
  BY DEF RenewEnds
<1>2. IdentityOk(x, k) /\ k \in Nat
  BY DEF BrokerOk, BrokerTyped
<1>3. CASE x.closed /\ Resolve(k, x, Failed(0), {})
  <2> DEFINE y == x
             got == Failed(0)
             worse == {}
  <2>1. Renewed(x, k, y, got, worse)
    <3> HIDE DEF x
    <3> QED BY <1>2, <1>3, RenewalsEnd
  <2>2. Resolve(k, y, got, worse)
    BY <1>3
  <2> HIDE DEF y, got, worse
  <2> QED BY <1>1, <2>1, <2>2, ResolveKeeps
<1>4. CASE ~x.closed /\ Resolve(k, Granted(x, k), Has(Granted(x, k).credential), {})
  <2> DEFINE y == Granted(x, k)
             got == Has(y.credential)
             worse == {}
  <2>1. Renewed(x, k, y, got, worse)
    <3> HIDE DEF x
    <3> QED BY <1>2, <1>4, RenewalsEnd
  <2>2. Resolve(k, y, got, worse)
    BY <1>4
  <2> HIDE DEF y, got, worse
  <2> QED BY <1>1, <2>1, <2>2, ResolveKeeps
<1>5. ASSUME ~x.closed, NEW minded \in BOOLEAN,
             Resolve(k, Refused(x, minded), Failed(Refused(x, minded).lastError),
                     {x.credential})
      PROVE  IInv' /\ Hands /\ Persists
  <2> DEFINE y == Refused(x, minded)
             got == Failed(y.lastError)
             worse == {x.credential}
  <2>1. Renewed(x, k, y, got, worse)
    <3> HIDE DEF x
    <3> QED BY <1>2, <1>5, RenewalsEnd
  <2>2. Resolve(k, y, got, worse)
    BY <1>5
  <2> HIDE DEF y, got, worse
  <2> QED BY <1>1, <2>1, <2>2, ResolveKeeps
<1>6. CASE ~x.closed /\ Resolve(k, Unanswered(x), Failed(0), {})
  <2> DEFINE y == Unanswered(x)
             got == Failed(0)
             worse == {}
  <2>1. Renewed(x, k, y, got, worse)
    <3> HIDE DEF x
    <3> QED BY <1>2, <1>6, RenewalsEnd
  <2>2. Resolve(k, y, got, worse)
    BY <1>6
  <2> HIDE DEF y, got, worse
  <2> QED BY <1>1, <2>1, <2>2, ResolveKeeps
<1> QED BY <1>3, <1>4, <1>5, <1>6 DEF RenewEnds

\* While handleCreate makes a session, and before, none runs.
LEMMA NoneRuns ==
  ASSUME IInv, create.at # "none" \/ live = 0 \/ live \in over
  PROVE  \A s \in Pushers : s = live => s \in over
BY DEF IInv, CreateOk, Pushers

\* handleCreate up to its first await: the pusher of the session before drains.
LEMMA CreateKeeps ==
  ASSUME IInv, Create
  PROVE  IInv' /\ Hands /\ Persists
<1> USE DEF IInv
<1>1. /\ create.at = "none" /\ create.session < MaxSessions
      /\ live = 0 \/ live \in over
      /\ create' = [at |-> "loading", session |-> create.session + 1, id |-> 0]
      /\ draining' = draining \union ({live} \ {0})
      /\ live' = live /\ over' = over
  BY DEF Create
<1>2. create.session \in Nat /\ create.session \in Numbers
  BY BrokerAssumption DEF CreateOk, Numbers
<1>3. /\ create'.at = "loading" /\ create'.session = create.session + 1
      /\ create' \in [at : {"none", "loading", "activating", "starting"},
                      session : Numbers, id : Nat]
  BY <1>1, <1>2, BrokerAssumption DEF Numbers
<1>4. CreateOk'
  BY <1>1, <1>2, <1>3 DEF CreateOk
<1>5. \A s \in Pushers : Future(s)' => Future(s)
  BY <1>1, <1>2, <1>3 DEF Future, Pushers
<1>6. live # 0 => live \in Pushers /\ live \in Callers /\ ~Future(live)
  BY <1>1, <1>2, BrokerAssumption DEF SessionsOk, Pushers, Callers, Numbers, Future
<1>7. draining' \in SUBSET Pushers /\ over' \in SUBSET Pushers
  BY <1>1, <1>6 DEF SessionsOk
<1>8. (Served /\ Hands /\ Persists) => IInv' /\ Hands /\ Persists
  <2> SUFFICES ASSUME Served, Hands, Persists PROVE IInv'
    OBVIOUS
  <2>1. \A s \in Pushers : s = live => s \in over
    BY <1>1, NoneRuns
  <2>2. create.session <= create'.session
    BY <1>2, <1>3
  <2> QED BY <1>1, <1>4, <1>5, <1>7, <2>1, <2>2, IdleStepKeeps DEF Served
<1>9. CASE live # 0 /\ CanFlush(live) /\ Asks(live, FlushCall(live, owes[live]), FALSE, {})
  <2> DEFINE call == FlushCall(live, owes[live])
  <2>1. live \in Numbers /\ owes[live] \in Batches
    BY <1>6, <1>9, BrokerAssumption DEF SessionsOk, Pushers, Numbers
  <2>2. call \in Calls /\ call.session = live
    BY <2>1, IdleIs DEF FlushCall, Calls
  <2>3. Asks(live, call, FALSE, {})
    BY <1>9
  <2> HIDE DEF call
  <2>4. Served /\ Hands /\ Persists
    BY <1>6, <1>9, <2>2, <2>3, AsksPlainly
  <2> QED BY <1>8, <2>4
<1>10. CASE /\ b' = b /\ bad' = bad /\ calls' = calls /\ owes' = owes
            /\ \/ stopped' = stopped
               \/ live # 0 /\ stopped' = stopped \union {live}
  <2>1. Follows(b, b)
    BY FollowsItself DEF BrokerOk
  <2>2. stopped' \in SUBSET Pushers /\ stopped \subseteq stopped'
    BY <1>6, <1>10 DEF SessionsOk
  <2>3. Served
    BY <1>10, <2>1, <2>2 DEF Served, SessionsOk, SameService, Follows
  <2>4. Hands /\ Persists
    BY <1>10 DEF Hands, Persists
  <2> QED BY <1>8, <2>3, <2>4
<1> QED BY <1>9, <1>10 DEF Create

\* activate(): the new session's identity takes the place of the one before.
LEMMA ActivateKeeps ==
  ASSUME IInv, Activate
  PROVE  IInv' /\ Hands /\ Persists
<1> USE DEF IInv
<1> DEFINE cc == Activated(b, create.session)
           k == Len(b.ids) + 1
<1>1. /\ create.at = "loading" /\ create' = [create EXCEPT !.at = "activating", !.id = k]
      /\ Becomes(cc, {}) /\ calls' = calls /\ live' = live /\ over' = over
      /\ owes' = owes /\ stopped' = stopped /\ draining' = draining
  BY DEF Activate, pusherVars
<1>2. /\ create.session \in Numbers /\ create.session # 0 /\ create.session \in Nat
      /\ Len(b.ids) \in Nat
  BY <1>1, BrokerTypes DEF CreateOk, Numbers, BrokerOk
<1>3. /\ BrokerOk(cc) /\ Follows(b, cc) /\ cc.session = create.session
      /\ k \in 1..Len(cc.ids) /\ cc.ids[k].session = create.session
  BY <1>2, ActivatedKeeps
<1> HIDE DEF cc
<1>4. b' = cc /\ BadOk(cc, bad')
  <2> DEFINE worse == {}
  <2>1. Becomes(cc, worse) /\ worse = {}
    BY <1>1
  <2> HIDE DEF worse
  <2> QED BY <1>3, <2>1, BecomesFollows
<1>50. k \in Nat /\ create \in [at : {"none", "loading", "activating", "starting"},
                               session : Numbers, id : Nat]
  BY <1>2 DEF CreateOk
<1> HIDE DEF k
<1>5. /\ create'.at = "activating" /\ create'.session = create.session /\ create'.id = k
      /\ create' \in [at : {"none", "loading", "activating", "starting"},
                      session : Numbers, id : Nat]
  BY <1>1, <1>50
<1>6. CreateOk'
  BY <1>1, <1>3, <1>4, <1>5 DEF CreateOk
<1>7. \A s \in Pushers : Future(s)' => Future(s)
  BY <1>1, <1>5 DEF Future
<1>8. \A s \in Pushers : s = live => s \in over
  BY <1>1, NoneRuns
<1>9. \A s \in Pushers : Future(s)' => Future(s) /\ calls'[s] = Idle /\ owes'[s] = "none"
  BY <1>1, <1>7 DEF SessionsOk
<1>10. Stays(b, b')
  BY <1>3, <1>4 DEF Follows
<1>11. IInv'
  BY <1>1, <1>2, <1>3, <1>4, <1>5, <1>6, <1>8, <1>9, <1>10, IdleStepKeeps DEF SessionsOk
<1>12. Hands /\ Persists
  BY <1>1 DEF Hands, Persists
<1> QED BY <1>11, <1>12

\* startSession() publishes the session that is served.
LEMMA StartKeeps ==
  ASSUME IInv, Start
  PROVE  IInv' /\ Hands /\ Persists
<1> USE DEF IInv
<1> DEFINE n == create.session
<1>1. /\ create.at = "starting" /\ live' = n /\ owes' = [owes EXCEPT ![n] = "events"]
      /\ create' = NoCreate /\ b' = b /\ bad' = bad /\ calls' = calls /\ over' = over
      /\ stopped' = stopped /\ draining' = draining
  BY DEF Start
<1>2. /\ n \in Numbers /\ n # 0 /\ n \in Nat /\ n \in Pushers /\ Serves(b, n)
  BY <1>1, BrokerAssumption DEF CreateOk, Numbers, Pushers
<1>3. /\ create'.at = "none" /\ create'.session = n
      /\ create' \in [at : {"none", "loading", "activating", "starting"},
                      session : Numbers, id : Nat]
  BY <1>1, <1>2 DEF NoCreate, CreateOk
<1>4. CreateOk'
  BY <1>3 DEF CreateOk
<1> HIDE DEF n
<1>5. owes' \in [Pushers -> Batches] /\ \A s \in Pushers : s # n => owes'[s] = owes[s]
  BY <1>1, <1>2 DEF SessionsOk, Batches
<1>6. ASSUME NEW s \in Pushers, Future(s)'
      PROVE  s # live' /\ calls'[s] = Idle /\ owes'[s] = "none"
  <2>1. s \in Nat /\ s > n
    BY <1>3, <1>6 DEF Future, Pushers
  <2>2. Future(s) /\ s # n
    BY <1>2, <2>1 DEF Future, n
  <2> QED BY <1>1, <1>5, <2>2 DEF SessionsOk
<1>7. ASSUME NEW s \in Pushers, Running(s)' PROVE Serves(b', s)
  BY <1>1, <1>2, <1>7 DEF Running, Serves
<1>8. live' \in 0..create'.session
  BY <1>1, <1>2, <1>3
<1>9. SessionsOk'
  BY <1>1, <1>5, <1>6, <1>7, <1>8 DEF SessionsOk
<1>10. /\ BrokerOk(b') /\ calls' \in [Callers -> Calls] /\ BadOk(b', bad')
       /\ \A c \in Callers : CallOk(c, calls'[c], b')
  BY <1>1
<1>11. IInv'
  BY <1>4, <1>9, <1>10
<1>12. Hands /\ Persists
  BY <1>1 DEF Hands, Persists
<1> QED BY <1>11, <1>12

\* What the two ends of a set-up that failed must show: nobody asks for a session
\* that was about to start.
LEMMA StartEnds ==
  ASSUME IInv, create.at = "starting", create' = NoCreate, live' = live,
         over' = over \union {create.session},
         BrokerOk(b'), Stays(b, b'), BadOk(b', bad'), calls' \in [Callers -> Calls],
         \A c \in Callers : calls'[c] # calls[c] => CallOk(c, calls'[c], b'),
         stopped' \in SUBSET Pushers, draining' \in SUBSET Pushers,
         owes' \in [Pushers -> Batches],
         \A s \in Pushers : s # create.session =>
            calls'[s] = calls[s] /\ owes'[s] = owes[s]
  PROVE  IInv'
<1> USE DEF IInv
<1>1. /\ create.session \in Nat /\ create.session \in Pushers
      /\ create \in [at : {"none", "loading", "activating", "starting"},
                     session : Numbers, id : Nat]
  BY BrokerAssumption DEF CreateOk, Numbers, Pushers
<1>2. /\ create'.at = "none" /\ create'.session = create.session
      /\ create' \in [at : {"none", "loading", "activating", "starting"},
                      session : Numbers, id : Nat]
  BY <1>1 DEF NoCreate
<1>3. CreateOk'
  BY <1>2 DEF CreateOk
<1>4. ASSUME NEW s \in Pushers, Future(s)'
      PROVE  Future(s) /\ calls'[s] = Idle /\ owes'[s] = "none"
  <2>1. s \in Nat /\ s > create.session
    BY <1>2, <1>4 DEF Future, Pushers
  <2>2. Future(s) /\ s # create.session
    BY <1>1, <2>1 DEF Future
  <2> QED BY <2>2 DEF SessionsOk
<1>5. \A s \in Pushers : s = live => s \in over
  BY NoneRuns
<1>6. over \subseteq over' /\ over' \in SUBSET Pushers
  BY <1>1 DEF SessionsOk
<1>7. create.session <= create'.session
  BY <1>1, <1>2
<1> QED BY <1>3, <1>4, <1>5, <1>6, <1>7, IdleStepKeeps

\* A harness that does not construct: the end is announced by a drain, whose first
\* flush finds the credential, and then the session is deactivated.
LEMMA StartFailsKeeps ==
  ASSUME IInv, StartFails
  PROVE  IInv' /\ Hands /\ Persists
<1> USE DEF IInv
<1> DEFINE n == create.session
           call == FlushCall(n, "terminal")
           rejected == FALSE
           r == Ask(b, n, call, rejected)
           ff == Deactivated(r.b, n)
           worse == {}
           k == IdentityOf(b, call.session)
<1>1. /\ create.at = "starting" /\ create' = NoCreate /\ live' = live
      /\ Becomes(ff, worse) /\ calls' = [calls EXCEPT ![n] = r.call]
      /\ owes' = [owes EXCEPT ![n] = IF r.gaveUp THEN "none" ELSE "terminal"]
      /\ stopped' = IF r.gaveUp THEN stopped \union {n} ELSE stopped
      /\ draining' = draining \union {n} /\ over' = over \union {n}
  BY DEF StartFails
<1>2. n \in Numbers /\ n \in Pushers /\ n \in Callers
  BY <1>1, BrokerAssumption DEF CreateOk, Numbers, Pushers, Callers
<1>3. call \in Calls /\ call.session = n
  BY <1>2, IdleIs DEF FlushCall, Calls, Batches
<1>4. worse = {} /\ rejected \in BOOLEAN
  OBVIOUS
<1> HIDE DEF call, worse, rejected
<1>5. /\ BrokerOk(r.b) /\ Follows(b, r.b) /\ CallOk(n, r.call, r.b)
      /\ r.gaveUp => b.ids[b.sid].row >= MaxRefusals
      /\ r.call.at = "sending" =>
           /\ k \in 1..Len(b.ids) /\ Usable(b.ids[k])
           /\ r.call.credential = b.ids[k].credential
  BY <1>2, <1>3, <1>4, AskEffect
<1> HIDE DEF r, k
<1>6. BrokerOk(ff) /\ Follows(r.b, ff)
  BY <1>5, DeactivatedKeeps
<1> HIDE DEF ff
<1>7. /\ BrokerTyped(b) /\ BrokerTyped(r.b) /\ BrokerTyped(ff)
  BY <1>5, <1>6 DEF BrokerOk
<1>8. Follows(b, ff) /\ CallOk(n, r.call, ff)
  BY <1>5, <1>6, <1>7, FollowsOn, CallKept DEF Follows
<1>9. b' = ff /\ BadOk(ff, bad') /\ bad' \subseteq bad \union worse
  BY <1>1, <1>4, <1>6, <1>8, BecomesFollows
<1>10. /\ calls' \in [Callers -> Calls] /\ calls'[n] = r.call
       /\ \A c \in Callers : c # n => calls'[c] = calls[c]
  BY <1>1, <1>2, <1>5 DEF CallOk
<1>11. /\ stopped' \in SUBSET Pushers /\ draining' \in SUBSET Pushers
       /\ owes' \in [Pushers -> Batches]
       /\ \A s \in Pushers : s # n => owes'[s] = owes[s]
  BY <1>1, <1>2 DEF SessionsOk, Batches
<1>12. \A s \in Pushers : s # n => calls'[s] = calls[s] /\ owes'[s] = owes[s]
  BY <1>10, <1>11 DEF Callers
<1>13. Stays(b, b') /\ BrokerOk(b') /\ BadOk(b', bad')
  BY <1>6, <1>8, <1>9 DEF Follows
<1>14. \A c \in Callers : calls'[c] # calls[c] => CallOk(c, calls'[c], b')
  BY <1>8, <1>9, <1>10
<1>15. IInv'
  BY <1>1, <1>10, <1>11, <1>12, <1>13, <1>14, StartEnds
<1>16. Hands
  <2> SUFFICES ASSUME r.call.at = "sending"
               PROVE  r.call.credential \notin bad' /\ ~b.ids[r.call.credential.by].closed
    BY <1>10 DEF Hands
  <2>1. /\ k \in 1..Len(b.ids) /\ Usable(b.ids[k])
        /\ r.call.credential = b.ids[k].credential /\ bad' \subseteq bad
    BY <1>4, <1>5, <1>9
  <2>2. b.ids[k].credential \notin bad
    BY <2>1 DEF BadOk
  <2>3. IdentityOk(b.ids[k], k) /\ b.ids[k].credential # None
    BY <2>1 DEF BrokerOk, BrokerTyped, Usable
  <2> QED BY <2>1, <2>2, <2>3 DEF IdentityOk
<1>17. Persists
  <2> SUFFICES ASSUME r.gaveUp, Serves(b, n)
               PROVE  b.ids[b.sid].row + (IF b.ids[b.sid].renewing THEN 1 ELSE 0)
                        >= MaxRefusals
    BY <1>1 DEF Persists, CreateOk
  <2>1. b.sid \in 1..Len(b.ids)
    BY <1>2 DEF Serves, BrokerOk, Pushers
  <2>2. b.ids[b.sid].row \in Nat
    BY <2>1, IdentityTypes DEF BrokerOk, BrokerTyped
  <2> QED BY <1>5, <2>2, BrokerAssumption
<1> QED BY <1>15, <1>16, <1>17

\* A connector outside the platform, or a failed seed: only the broker is told.
LEMMA StartRefusedKeeps ==
  ASSUME IInv, StartRefused
  PROVE  IInv' /\ Hands /\ Persists
<1> USE DEF IInv
<1> DEFINE ff == Deactivated(b, create.session)
           worse == {}
<1>1. /\ create.at = "starting" /\ create' = NoCreate /\ live' = live
      /\ Becomes(ff, worse) /\ calls' = calls /\ owes' = owes
      /\ stopped' = stopped /\ draining' = draining
      /\ over' = over \union {create.session} /\ worse = {}
  BY DEF StartRefused, pusherVars
<1>2. BrokerOk(ff) /\ Follows(b, ff)
  BY DeactivatedKeeps
<1> HIDE DEF ff, worse
<1>3. b' = ff /\ BadOk(ff, bad')
  BY <1>1, <1>2, BecomesFollows
<1>4. Stays(b, b') /\ BrokerOk(b')
  BY <1>2, <1>3 DEF Follows
<1>5. IInv'
  BY <1>1, <1>3, <1>4, StartEnds DEF SessionsOk
<1>6. Hands /\ Persists
  BY <1>1 DEF Hands, Persists
<1> QED BY <1>5, <1>6

\* The session that runs ends; its pusher has that to deliver.
LEMMA EndKeeps ==
  ASSUME IInv, NEW s \in Pushers, End(s)
  PROVE  IInv' /\ Hands /\ Persists
<1> USE DEF IInv
<1>1. /\ s = live /\ s \notin over /\ over' = over \union {s}
      /\ owes' = [owes EXCEPT ![s] = IF s \in stopped THEN "none" ELSE "terminal"]
      /\ b' = b /\ calls' = calls /\ create' = create /\ live' = live
      /\ stopped' = stopped /\ draining' = draining /\ bad' = bad
  BY DEF End, Running
<1>2. CreateOk'
  BY <1>1 DEF CreateOk
<1>3. owes' \in [Pushers -> Batches] /\ \A q \in Pushers : q # s => owes'[q] = owes[q]
  BY <1>1 DEF SessionsOk, Batches
<1>4. ASSUME NEW q \in Pushers, Future(q)'
      PROVE  q # live' /\ calls'[q] = Idle /\ owes'[q] = "none"
  <2>1. Future(q) /\ q # s
    BY <1>1, <1>4 DEF Future, SessionsOk
  <2> QED BY <1>1, <1>3, <2>1 DEF SessionsOk
<1>5. ASSUME NEW q \in Pushers, Running(q)' PROVE FALSE
  BY <1>1, <1>5 DEF Running
<1>6. SessionsOk'
  BY <1>1, <1>3, <1>4, <1>5 DEF SessionsOk
<1>7. IInv'
  BY <1>1, <1>2, <1>6
<1>8. Hands /\ Persists
  BY <1>1 DEF Hands, Persists
<1> QED BY <1>7, <1>8

-----------------------------------------------------------------------------
(* The specification *)

\* The broker starts with the workspace's identity alone, and asks for its
\* credential.
LEMMA StartedOk == BrokerOk(Started) /\ Started.session = 0
<1> DEFINE x == NewIdentity(0)
           k == 1
           n == 0
<1>1. n \in Numbers /\ k \in Nat
  BY BrokerAssumption DEF Numbers
<1>2. IdentityOk(x, k) /\ x.session = 0 /\ ~x.closed
  <2> HIDE DEF k, n
  <2>1. IdentityOk(NewIdentity(n), k) /\ NewIdentity(n).session = n
        /\ ~NewIdentity(n).closed
    BY <1>1, NewIdentityEffect
  <2> QED BY <2>1 DEF n
<1> HIDE DEF x
<1>3. /\ Started.ids = <<x>> /\ Started.wid = 1 /\ Started.session = 0
      /\ Started.sid = 0 /\ Started.routes = 0
      /\ Started = [ids |-> <<x>>, wid |-> 1, session |-> 0, sid |-> 0, routes |-> 0]
  BY DEF Started, x
<1>4. x \in Identity
  BY <1>2 DEF IdentityOk
<1>5. <<x>> \in Seq(Identity) /\ Len(<<x>>) = 1 /\ <<x>>[1] = x
  BY <1>4
<1>6. Started \in BrokerRecord
  BY <1>1, <1>3, <1>5 DEF BrokerRecord
<1>7. \A j \in 1..Len(Started.ids) : j = 1 /\ Started.ids[j] = x
  BY <1>3, <1>5
<1> QED BY <1>2, <1>3, <1>5, <1>6, <1>7 DEF BrokerOk, BrokerTyped

\* The daemon starts with no session, and nothing asked.
LEMMA InitHolds == Init => IInv
<1> SUFFICES ASSUME Init PROVE IInv
  OBVIOUS
<1>1. BrokerOk(b)
  BY StartedOk, RefreshKeeps DEF Init
<1>2. \A k \in 1..Len(b.ids) : ~Usable(b.ids[k])
  <2>1. Follows(Started, b)
    BY StartedOk, RefreshKeeps DEF Init
  <2>2. \A k \in 1..Len(Started.ids) : ~Usable(Started.ids[k])
    BY DEF Started, NewIdentity, Usable
  <2> QED BY <2>1, <2>2 DEF Follows
<1>3. BadOk(b, bad)
  BY DEF Init, BadOk
<1>4. /\ New \in Calls /\ New.at = "new" /\ New.batch = "none"
  BY IdleIs DEF New, Calls
<1>5. calls \in [Callers -> Calls]
  BY <1>4, IdleIs DEF Init
<1>6. ASSUME NEW c \in Callers PROVE CallOk(c, calls[c], b)
  <2>1. CASE c \in Clients
    BY <1>4, <2>1, ClientIs DEF Init, CallOk
  <2>2. CASE c \notin Clients
    BY <2>2, IdleIs DEF Init, CallOk, Callers
  <2> QED BY <2>1, <2>2
<1>7. \A s \in Pushers : s \notin Clients /\ s \in Callers /\ calls[s] = Idle
  BY ClientIs DEF Init, Callers
<1>8. CreateOk
  BY BrokerAssumption DEF Init, CreateOk, Numbers
<1>9. SessionsOk
  BY <1>7 DEF Init, SessionsOk, Batches, Future, Running, Pushers
<1> QED BY <1>1, <1>3, <1>5, <1>6, <1>8, <1>9 DEF IInv

\* Every step keeps the invariant, hands out nothing bad, and lets a pusher give up
\* only when refusals persist.
LEMMA StepHolds == IInv /\ [Next]_vars => IInv' /\ Hands /\ Persists
<1> SUFFICES ASSUME IInv, [Next]_vars PROVE IInv' /\ Hands /\ Persists
  OBVIOUS
<1>1. ASSUME NEW s \in Pushers, Flush(s) \/ DrainStops(s) \/ Emit(s) \/ End(s)
      PROVE  IInv' /\ Hands /\ Persists
  BY <1>1, FlushKeeps, DrainStopsKeeps, EmitKeeps, EndKeeps
<1>2. ASSUME NEW c \in Clients, CliAsks(c) \/ ProxyRoute(c) \/ ProxyBody(c)
      PROVE  IInv' /\ Hands /\ Persists
  BY <1>2, CliAsksKeeps, ProxyRouteKeeps, ProxyBodyKeeps
<1>3. ASSUME NEW c \in Callers, Answer(c) PROVE IInv' /\ Hands /\ Persists
  BY <1>3, AnswerKeeps
<1>4. ASSUME NEW k \in DOMAIN b.ids, RenewEnds(k) \/ BackoffEnds(k) \/ Age(k)
      PROVE  IInv' /\ Hands /\ Persists
  <2>1. k \in 1..Len(b.ids)
    BY BrokerTypes DEF IInv, BrokerOk
  <2> QED BY <1>4, <2>1, RenewEndsKeeps, BackoffEndsKeeps, AgeKeeps
<1>5. ASSUME Tick \/ Create \/ Activate \/ Start \/ StartFails \/ StartRefused
      PROVE  IInv' /\ Hands /\ Persists
  BY <1>5, TickKeeps, CreateKeeps, ActivateKeeps, StartKeeps, StartFailsKeeps,
     StartRefusedKeeps
<1>6. CASE UNCHANGED vars
  BY <1>6 DEF vars, sessionVars, IInv, BrokerOk, BadOk, CreateOk, SessionsOk, Future,
     Running, Hands, Persists
<1> QED BY <1>1, <1>2, <1>3, <1>4, <1>5, <1>6 DEF Next

\* The invariant holds throughout.
LEMMA Invariant == Spec => []IInv
<1>1. IInv /\ [Next]_vars => IInv'
  BY StepHolds
<1> QED BY <1>1, InitHolds, PTL DEF Spec

\* Every variable keeps its type, and the broker has an open identity for the
\* workspace, and one for the active session exactly while there is one, however
\* activations, deactivations and sleeps follow one another.
THEOREM TypeCorrect == Spec => []TypeOK
<1>1. IInv => TypeOK
  <2> SUFFICES ASSUME IInv PROVE TypeOK
    OBVIOUS
  <2>1. /\ b.ids \in Seq(Identity) /\ b.session \in 0..MaxSessions
        /\ DOMAIN b.ids = 1..Len(b.ids)
    BY BrokerTypes DEF IInv, BrokerOk, Numbers
  <2>2. /\ b.wid \in DOMAIN b.ids /\ ~b.ids[b.wid].closed /\ b.ids[b.wid].session = 0
        /\ b.sid \in {0} \union DOMAIN b.ids /\ (b.sid = 0 <=> b.session = 0)
    BY <2>1 DEF IInv, BrokerOk
  <2>3. \A c \in Callers : calls[c].at \in {"new", "idle", "body", "waiting", "sending"}
    BY DEF IInv, Calls
  <2>4. /\ create.at \in {"none", "loading", "activating", "starting"}
        /\ create.session \in 0..MaxSessions
    BY DEF IInv, CreateOk, Numbers
  <2>5. live \in 0..MaxSessions
    BY <2>4, BrokerAssumption DEF IInv, SessionsOk
  <2>6. /\ over \union stopped \union draining \subseteq Pushers
        /\ owes \in [Pushers -> {"none", "events", "terminal"}]
    BY DEF IInv, SessionsOk, Batches
  <2> QED BY <2>1, <2>2, <2>3, <2>4, <2>5, <2>6 DEF TypeOK
<1> QED BY <1>1, Invariant, PTL

\* The broker serves the session that runs or is about to, with an open identity of
\* its own and its routes: deactivate(), wherever a late pusher, a failed set-up or a
\* sleep calls for it, never ends another's.
THEOREM BrokerAlwaysServes == Spec => []BrokerServes
<1>1. IInv => BrokerServes
  BY DEF IInv, BrokerOk, SessionsOk, CreateOk, Serves, BrokerServes, Pushers
<1> QED BY <1>1, Invariant, PTL

\* Whatever session is active when request() has its credential, a request carries
\* its own session's, and a pusher sends only for its session.
THEOREM OwnTokenOnly == Spec => []OwnToken
<1>1. IInv => OwnToken
  BY DEF IInv, CallOk, OwnToken
<1> QED BY <1>1, Invariant, PTL

\* get() hands out no credential that has expired, was rejected, revoked or slept
\* with, nor a closed identity's: to who asks, to who shares a renewal, or to who
\* falls back on what there was.
THEOREM HandsGoodOnly == Spec => HandsGood
<1>1. IInv /\ [Next]_vars => [Hands]_vars
  BY StepHolds
<1> QED BY <1>1, Invariant, PTL DEF Spec, HandsGood, Hands

\* A pusher that has no answer to its events gives up only when the control plane
\* has refused MAX_RENEWAL_REFUSALS renewals in a row: an error served again from
\* the backoff tells of no further refusal.
THEOREM GiveUpOnlyPersists == Spec => GiveUpPersists
<1>1. IInv /\ [Next]_vars => [Persists]_vars
  BY StepHolds
<1> QED BY <1>1, Invariant, PTL DEF Spec, GiveUpPersists, Persists
=============================================================================
