----------------------------- MODULE WebSession -----------------------------
(***************************************************************************)
(* The session boundary of the web app: src/apps/app-banzami/server.mjs    *)
(* over its store (lib/session_store.mjs) and over the business sessions   *)
(* of the gateway (src/services/api-gateway/internal/service/              *)
(* merchant_sessions.go).                                                  *)
(*                                                                         *)
(* The browser holds an opaque id.  The record behind it carries up to two *)
(* authorities: the consumer's bearer, and the business's access token     *)
(* with its single-use refresh token.  Every handler loads the record      *)
(* once, awaits the request body and the upstream call, and then writes    *)
(* the WHOLE record it loaded back under the id it came from; the requests *)
(* of one browser interleave at those awaits.                              *)
(*                                                                         *)
(* Time is a clock of ticks.  Access is the life of an access token, Idle  *)
(* the idle window and Absolute the life of a session; the store's floor   *)
(* of one second on a TTL is one tick.  A consumer bearer (24 h) and a     *)
(* refresh token (30 days) outlive every session (12 h), so loadSession's  *)
(* pruning of them is left out, and so is active_context, a preference no  *)
(* other decision reads.  The CSRF nonce is fixed for the life of an id and *)
(* sent with it, so the check says no more than that the record exists.    *)
(*                                                                         *)
(* A call the host gives up on, or whose connection breaks, is cancelled   *)
(* at the gateway (r.Context() reaches its statements): what had not       *)
(* committed by then is rolled back, what had stays.                       *)
(***************************************************************************)
EXTENDS Integers, FiniteSets

CONSTANTS
  Slot,        \* requests the host may be handling at the same time
  Kinds,       \* the requests the browser makes
  Widths,      \* bounds a browser may keep on its requests in flight
  Access,      \* ticks an access token of a business is good for
  Idle,        \* ticks without a request that end a session
  Absolute,    \* ticks after the first sign-in that end a session
  None,        \* no record, no authority, no request
  MaxTime,     \* bound on the clock
  MaxIds,      \* bound on session ids minted
  MaxTokens,   \* bound on refresh tokens issued
  MaxSent,     \* bound on requests sent
  MaxLost,     \* bound on sign-ins the gateway's answer about which never arrives
  MaxBarred    \* bound on sign-ins whose business is barred

ASSUME WebSessionAssumption ==
  /\ {Access, Idle, Absolute} \subseteq Nat \ {0}
  /\ {MaxTime, MaxIds, MaxTokens, MaxSent, MaxLost, MaxBarred} \subseteq Nat
  /\ Widths \subseteq Nat \ {0}
  /\ Kinds \subseteq {"open", "consumerSignIn", "businessSignIn",
                      "consumerCall", "businessCall", "context",
                      "consumerLogout", "businessLogout", "logoutAll"}

VARIABLES
  now,      \* the clock
  store,    \* store[id]: the stored record and when it expires, or None
  nextId,   \* the next session id
  jar,      \* the browser's session cookie: its id, and when it expires
  rows,     \* rows[t]: the gateway's row of refresh token t, or None
  nextToken, \* the next refresh token
  req,      \* req[s]: the request slot s handles, or None
  width,    \* how many requests the browser keeps in flight
  sent,     \* requests sent so far
  lost,     \* families: an answer about a renewal or a sign-out never arrived
  ended,    \* families whose sign-out the gateway has answered
  barred,   \* families: their business is not ACTIVE any more, or lost its handle
  sweep,    \* rows the running UPDATE of RevokeAllForMerchant sees
  seeds,    \* ids minted for a browser that has not signed in
  over      \* ids the host has retired: rotated by a sign-in, or signed out

vars == <<now, store, nextId, jar, rows, nextToken, req, width, sent, lost, ended,
          barred, sweep, seeds, over>>

browser == <<width, sent>>
ids == <<seeds, over>>
tokens == <<rows, nextToken>>
outside == <<barred, sweep>>

-----------------------------------------------------------------------------
(* Records.                                                                *)

Time == 0 .. MaxTime
Ids == 1 .. MaxIds
Tokens == 1 .. MaxTokens

\* since is when the authority was obtained; issued, when its access token was.
Consumer == [since : Time]
Business == [refresh : Tokens, issued : Time, since : Time]

Record == [preauth : BOOLEAN, created : Time,
           consumer : Consumer \cup {None}, business : Business \cup {None}]

Row == [family : Tokens, rotated : BOOLEAN, revoked : BOOLEAN]

Steps == {"mint", "proxy", "renew", "renewing", "keep", "save",
          "end", "revoking", "drop", "rotate", "retire"}

\* start is when the request came, id the session it came with; fresh, the id a sign-in minted;
\* mine, the refresh-token rows the running UPDATE sees.
Request == [kind : Kinds, at : Steps, start : Time, id : 0 .. MaxIds,
            rec : Record \cup {None}, fresh : 0 .. MaxIds, mine : SUBSET Tokens]

\* What is absent is nothing that could be there.
ASSUME NoneAssumption ==
  /\ None \notin Kinds \cup Consumer \cup Business \cup Record \cup Row
                \cup [rec : Record, exp : Nat] \cup Request
  /\ None \notin Tokens

Seed == [preauth |-> TRUE, created |-> now, consumer |-> None, business |-> None]

NoCookie == [id |-> 0, exp |-> 0]

HasAnyAuthority(rec) == rec.consumer # None \/ rec.business # None

Init ==
  /\ now = 0
  /\ store = [id \in Ids |-> None]
  /\ nextId = 1
  /\ jar = NoCookie
  /\ rows = [t \in Tokens |-> None]
  /\ nextToken = 1
  /\ req = [s \in Slot |-> None]
  /\ width \in Widths
  /\ sent = 0
  /\ lost = {}
  /\ ended = {}
  /\ barred = {}
  /\ sweep = {}
  /\ seeds = {}
  /\ over = {}

RemainingTtl(rec) ==
  LET left == rec.created + Absolute - now IN IF left < Idle THEN left ELSE Idle

\* store.set: the whole record, with the TTL floored.
Entry(rec) ==
  [rec |-> rec, exp |-> now + IF RemainingTtl(rec) > 1 THEN RemainingTtl(rec) ELSE 1]

Stored(id) == id \in Ids /\ store[id] # None /\ now < store[id].exp

\* loadSession accepts the record behind id.
Loads(id) ==
  /\ Stored(id)
  /\ now - store[id].rec.created <= Absolute
  /\ store[id].rec.preauth \/ HasAnyAuthority(store[id].rec)

\* The cookie the browser sends.
Cookie == IF now < jar.exp THEN jar.id ELSE 0

Busy == {s \in Slot : req[s] # None}

At(s, step) == req[s] # None /\ req[s].at = step
Goto(s, step) == req' = [req EXCEPT ![s].at = step]
FinishInPlace(s) == req' = [req EXCEPT ![s].at = "done"]
Finish(s) == req' = [req EXCEPT ![s] = None]

-----------------------------------------------------------------------------
(* A request arrives and its session is loaded.                            *)

\* Whether the route takes a request of this kind with this record.
Admits(kind, rec) ==
  CASE kind \in {"consumerCall", "consumerLogout"} -> rec.consumer # None
    [] kind \in {"businessCall", "businessLogout"} -> rec.business # None
    [] kind = "context" -> ~ rec.preauth
    [] OTHER -> kind # "open"

FirstStep(kind, rec) ==
  CASE kind = "context" -> "save"
    [] kind = "logoutAll" ->
         IF rec.business # None THEN "end" ELSE "drop"
    [] OTHER -> "proxy"

Seeding == {"open", "consumerSignIn", "businessSignIn"}

CanSend == Cardinality(Busy) < width /\ sent < MaxSent

\* The session is there: the request goes on, or is refused at once.
Send(s, kind) ==
  /\ req[s] = None /\ CanSend /\ Loads(Cookie)
  /\ sent' = sent + 1
  /\ LET rec == store[Cookie].rec IN
     IF Admits(kind, rec)
     THEN req' = [req EXCEPT ![s] = [kind |-> kind, at |-> FirstStep(kind, rec),
                                     start |-> now, id |-> Cookie, rec |-> rec,
                                     fresh |-> 0, mine |-> {}]]
     ELSE UNCHANGED req
  /\ UNCHANGED <<now, store, nextId, jar, tokens, width, lost, ended, outside, ids>>

\* There is no session: a record that is too old or has no authority is
\* dropped; the shell and a sign-in seed a pre-auth session, a sign-out of
\* everything clears the cookies, and the rest is refused.
SendWithoutSession(s, kind) ==
  /\ req[s] = None /\ CanSend /\ ~ Loads(Cookie)
  /\ kind \in Seeding => nextId <= MaxIds
  /\ sent' = sent + 1
  /\ store' = [id \in Ids |-> IF id = Cookie THEN None ELSE store[id]]
  /\ req' = IF kind \in Seeding
            THEN [req EXCEPT ![s] = [kind |-> kind, at |-> "mint", start |-> now, id |-> 0,
                                     rec |-> None, fresh |-> 0, mine |-> {}]]
            ELSE req
  /\ jar' = IF kind = "logoutAll" THEN NoCookie ELSE jar
  /\ UNCHANGED <<now, nextId, tokens, width, lost, ended, outside, ids>>

Mint(s) ==
  /\ At(s, "mint") /\ nextId <= MaxIds
  /\ store' = [store EXCEPT ![nextId] = [rec |-> Seed, exp |-> now + 1]]
  /\ jar' = [id |-> nextId, exp |-> now + 1]
  /\ nextId' = nextId + 1
  /\ seeds' = seeds \cup {nextId}
  /\ Finish(s)
  /\ UNCHANGED <<now, tokens, browser, lost, ended, outside, over>>

-----------------------------------------------------------------------------
(* The upstream calls.                                                     *)

\* The call fails before it has an effect at the gateway: 502, and nothing is written.
Unreachable(s) ==
  /\ At(s, "proxy") \/ (At(s, "revoking") /\ req[s].kind = "businessLogout")
  /\ Finish(s)
  /\ UNCHANGED <<now, store, nextId, jar, tokens, browser, lost, ended, outside, ids>>

\* A consumer's call, whatever it answers; a sign-in that is refused.
Call(s) ==
  /\ At(s, "proxy")
  /\ req[s].kind \in {"consumerCall", "consumerSignIn", "businessSignIn"}
  /\ Goto(s, "save")
  /\ UNCHANGED <<now, store, nextId, jar, tokens, browser, lost, ended, outside, ids>>

\* A business's call is refused when its access token is over.
BusinessCall(s) ==
  /\ At(s, "proxy") /\ req[s].kind = "businessCall"
  /\ Goto(s, IF now < req[s].rec.business.issued + Access THEN "save" ELSE "renew")
  /\ UNCHANGED <<now, store, nextId, jar, tokens, browser, lost, ended, outside, ids>>

BeganAgain(rec) == now

\* When the session that signs in began: a pre-auth session has not.
Began(rec) == IF rec.preauth THEN now ELSE rec.created

\* The new record keeps the authority the old one had on the other side.
SignInConsumer(s) ==
  /\ At(s, "proxy") /\ req[s].kind = "consumerSignIn"
  /\ req' = [req EXCEPT
       ![s].rec = [preauth |-> FALSE, created |-> Began(@),
                   consumer |-> [since |-> now], business |-> @.business],
       ![s].at = "rotate"]
  /\ UNCHANGED <<now, store, nextId, jar, tokens, browser, lost, ended, outside, ids>>

\* INSERT of the row of the next token, into the family given.
Issue(table, family) ==
  /\ rows' = [table EXCEPT ![nextToken] =
                [family |-> family, rotated |-> FALSE, revoked |-> FALSE]]
  /\ nextToken' = nextToken + 1

\* Open: the first row of a new family.
SignInBusiness(s) ==
  LET t == nextToken IN
  /\ At(s, "proxy") /\ req[s].kind = "businessSignIn" /\ t <= MaxTokens
  /\ Issue(rows, t)
  /\ req' = [req EXCEPT
       ![s].rec = [preauth |-> FALSE, created |-> Began(@), consumer |-> @.consumer,
                   business |-> [refresh |-> t, issued |-> now, since |-> now]],
       ![s].at = "rotate"]
  /\ UNCHANGED <<now, store, nextId, jar, browser, lost, ended, outside, ids>>

\* The sign-in opens a family the host never hears of.
SignInLost(s) ==
  /\ At(s, "proxy") /\ req[s].kind = "businessSignIn" /\ nextToken <= MaxTokens
  /\ Issue(rows, nextToken)
  /\ Finish(s)
  /\ UNCHANGED <<now, store, nextId, jar, browser, lost, ended, outside, ids>>

\* The business side of the session is gone from the handler's record.
WithoutBusiness(s, step) ==
  req' = [req EXCEPT ![s].rec.business = None, ![s].at = step]

Presented(s) == req[s].rec.business.refresh

Issued == {t \in Tokens : rows[t] # None}

Family(t) == rows[t].family

Siblings(t) == {u \in Issued : Family(u) = Family(t)}

\* Rows the transactions of renewals have locked FOR UPDATE: all, and all but s's.
Locking(r) ==
  At(r, "renewing") \/ (At(r, "revoking") /\ req[r].kind = "businessCall")
LockedIn(slots) == {Presented(r) : r \in {q \in slots : Locking(q)}}
Locked(s) == LockedIn(Slot \ {s})

\* UPDATE ... SET revoked_at over the rows a statement sees.
Revoke(seen) ==
  /\ rows' = [t \in Tokens |->
                IF t \in seen THEN [rows[t] EXCEPT !.revoked = TRUE] ELSE rows[t]]
  /\ UNCHANGED nextToken

\* The answer about family f does not arrive.
Loses(f) ==
  /\ lost' = lost \cup {f}
  /\ Cardinality(lost') <= MaxLost

\* Renew: the presented row is locked and read.  A revoked token is refused and
\* the host drops the authority.
RenewRefused(s) ==
  /\ At(s, "renew") /\ Presented(s) \notin Locked(s)
  /\ rows[Presented(s)].revoked
  /\ WithoutBusiness(s, "keep")
  /\ UNCHANGED <<now, store, nextId, jar, tokens, browser, lost, ended, outside, ids>>

\* A token presented again revokes its family: the UPDATE sees the rows
\* committed when it starts, and waits for the locks on them.
RenewReused(s) ==
  /\ At(s, "renew") /\ Presented(s) \notin Locked(s)
  /\ rows[Presented(s)].rotated /\ ~ rows[Presented(s)].revoked
  /\ req' = [req EXCEPT ![s].at = "revoking", ![s].mine = Siblings(Presented(s))]
  /\ UNCHANGED <<now, store, nextId, jar, tokens, browser, lost, ended, outside, ids>>

\* What sign-in checked is checked again: a business that is no longer ACTIVE, or no
\* longer owns its handle, has its family revoked, as a token presented again has.
RenewDenied(s) ==
  /\ At(s, "renew") /\ Presented(s) \notin Locked(s)
  /\ ~ rows[Presented(s)].rotated /\ ~ rows[Presented(s)].revoked
  /\ Family(Presented(s)) \in barred
  /\ req' = [req EXCEPT ![s].at = "revoking", ![s].mine = Siblings(Presented(s))]
  /\ UNCHANGED <<now, store, nextId, jar, tokens, browser, lost, ended, outside, ids>>

RenewLocksNothing(s) ==
  /\ At(s, "renew")
  /\ ~ rows[Presented(s)].rotated /\ ~ rows[Presented(s)].revoked
  /\ Family(Presented(s)) \notin barred
  /\ Goto(s, "renewing")
  /\ UNCHANGED <<now, store, nextId, jar, tokens, browser, lost, ended, outside, ids>>

RenewLocks(s) ==
  /\ At(s, "renew") /\ Presented(s) \notin Locked(s)
  /\ ~ rows[Presented(s)].rotated /\ ~ rows[Presented(s)].revoked
  /\ Family(Presented(s)) \notin barred
  /\ Goto(s, "renewing")
  /\ UNCHANGED <<now, store, nextId, jar, tokens, browser, lost, ended, outside, ids>>

\* The renewal commits: the token is spent, its successor inserted.  The answer
\* may be lost to the host's timeout, which then keeps the spent token.
RenewCommits(s, arrives) ==
  LET t == Presented(s) IN
  /\ At(s, "renewing") /\ nextToken <= MaxTokens
  /\ Issue([rows EXCEPT ![t].rotated = TRUE], Family(t))
  /\ IF arrives THEN UNCHANGED lost ELSE Loses(Family(t))
  /\ req' = [req EXCEPT
       ![s].rec.business = IF arrives THEN [@ EXCEPT !.refresh = nextToken, !.issued = now] ELSE @,
       ![s].at = "keep"]
  /\ UNCHANGED <<now, store, nextId, jar, browser, ended, outside, ids>>

RenewFailsForGood(s) ==
  /\ At(s, "renew") \/ Locking(s)
  /\ WithoutBusiness(s, "keep")
  /\ UNCHANGED <<now, store, nextId, jar, tokens, browser, lost, ended, outside, ids>>

\* The renewal is not reached, or rolled back.
RenewFails(s) ==
  /\ At(s, "renew") \/ Locking(s)
  /\ Goto(s, "keep")
  /\ UNCHANGED <<now, store, nextId, jar, tokens, browser, lost, ended, outside, ids>>

EndBeginsOnTheToken(s) ==
  /\ \/ At(s, "proxy") /\ req[s].kind = "businessLogout"
     \/ At(s, "end")
  /\ req' = [req EXCEPT ![s].at = "revoking", ![s].mine = {Presented(s)}]
  /\ UNCHANGED <<now, store, nextId, jar, tokens, browser, lost, ended, outside, ids>>

\* A sign-out of the business reaches the gateway: End's UPDATE starts.
EndBegins(s) ==
  /\ \/ At(s, "proxy") /\ req[s].kind = "businessLogout"
     \/ At(s, "end")
  /\ req' = [req EXCEPT ![s].at = "revoking", ![s].mine = Siblings(Presented(s))]
  /\ UNCHANGED <<now, store, nextId, jar, tokens, browser, lost, ended, outside, ids>>

\* The UPDATE ends, when nobody holds a row it sees.
Revokes(s) ==
  /\ At(s, "revoking") /\ req[s].mine \cap Locked(s) = {}
  /\ Revoke(req[s].mine)

\* The renewal is refused with 401, and the host drops the authority; the answer
\* may be lost, and then the host keeps it.
RefusalEnds(s, arrives) ==
  /\ Revokes(s) /\ req[s].kind = "businessCall"
  /\ IF arrives THEN WithoutBusiness(s, "keep") /\ UNCHANGED lost
     ELSE Goto(s, "keep") /\ Loses(Family(Presented(s)))
  /\ UNCHANGED <<now, store, nextId, jar, browser, ended, outside, ids>>

\* A sign-out is answered.
SignOutEnds(s) ==
  /\ Revokes(s) /\ req[s].kind # "businessCall"
  /\ Goto(s, "drop")
  /\ ended' = ended \cup {Family(Presented(s))}
  /\ UNCHANGED <<now, store, nextId, jar, browser, lost, outside, ids>>

\* The answer to a sign-out of the business is lost: 502, and nothing is written.  A
\* sign-out of everything goes on whether it is answered or not.
SignOutLost(s) ==
  /\ Revokes(s) /\ req[s].kind = "businessLogout"
  /\ Finish(s)
  /\ Loses(Family(Presented(s)))
  /\ UNCHANGED <<now, store, nextId, jar, browser, ended, outside, ids>>

\* The gateway answers a sign-out with an error, or a sign-out of everything has no
\* answer: the host drops its side anyway.
EndFails(s) ==
  /\ \/ At(s, "proxy") /\ req[s].kind = "businessLogout"
     \/ At(s, "end")
     \/ At(s, "revoking") /\ req[s].kind # "businessCall"
  /\ Goto(s, "drop")
  /\ UNCHANGED <<now, store, nextId, jar, tokens, browser, lost, ended, outside, ids>>

\* A sign-out of the consumer reaches the Consumer API, whatever it answers.
EndConsumer(s) ==
  /\ At(s, "proxy") /\ req[s].kind = "consumerLogout"
  /\ Goto(s, "drop")
  /\ UNCHANGED <<now, store, nextId, jar, tokens, browser, lost, ended, outside, ids>>

-----------------------------------------------------------------------------
(* What befalls a sign-in from outside the browser.                        *)

\* The business of the sign-in f is suspended or closed, or its handle leaves it; for
\* good, so far as its sign-ins go.
Bar(f) ==
  /\ f \in Issued \ barred /\ Family(f) = f
  /\ Cardinality(barred) < MaxBarred
  /\ barred' = barred \cup {f}
  /\ UNCHANGED <<now, store, nextId, jar, tokens, req, browser, lost, ended, sweep, ids>>

\* The account is deleted: once it is CLOSED, RevokeAllForMerchant's UPDATE starts
\* on the rows of its sign-ins that are not revoked, ...
SweepBegins(F) ==
  /\ sweep = {} /\ F \subseteq barred
  /\ sweep' = {t \in Issued : Family(t) \in F /\ ~ rows[t].revoked}
  /\ sweep' # {}
  /\ UNCHANGED <<now, store, nextId, jar, tokens, req, browser, lost, ended, barred, ids>>

\* ... waits for their locks and ends, ...
SweepEnds ==
  /\ sweep # {} /\ sweep \cap LockedIn(Slot) = {}
  /\ Revoke(sweep)
  /\ sweep' = {}
  /\ UNCHANGED <<now, store, nextId, jar, req, browser, lost, ended, barred, ids>>

\* ... or fails, which is logged and no more.
SweepFails ==
  /\ sweep # {} /\ sweep' = {}
  /\ UNCHANGED <<now, store, nextId, jar, tokens, req, browser, lost, ended, barred, ids>>

-----------------------------------------------------------------------------
(* The writes.                                                             *)

\* After a renewal, whatever it answered, the handler's record is stored; then
\* the call is made again, and goes on as any other.
Keep(s) ==
  /\ At(s, "keep")
  /\ store' = [store EXCEPT ![req[s].id] = Entry(req[s].rec)]
  /\ Goto(s, "save")
  /\ UNCHANGED <<now, nextId, jar, tokens, browser, lost, ended, outside, ids>>

SavePreauthToo(s) ==
  LET r == req[s] IN
  /\ At(s, "save")
  /\ store' = [store EXCEPT ![r.id] =
                 IF r.kind # "context" /\ RemainingTtl(r.rec) <= 0 THEN None
                 ELSE Entry(r.rec)]
  /\ Finish(s)
  /\ UNCHANGED <<now, nextId, jar, tokens, browser, lost, ended, outside, ids>>

\* The idle window slides: the record is stored again under a new TTL, the
\* browser's cookie is not set again.  A context switch is stored the same way.
Save(s) ==
  LET r == req[s] IN
  /\ At(s, "save")
  /\ store' = IF r.rec.preauth THEN store
              ELSE [store EXCEPT ![r.id] =
                      IF r.kind # "context" /\ RemainingTtl(r.rec) <= 0 THEN None
                      ELSE Entry(r.rec)]
  /\ Finish(s)
  /\ UNCHANGED <<now, nextId, jar, tokens, browser, lost, ended, outside, ids>>

\* What is left of the record after the sign-out r.
Remaining(r) ==
  CASE r.kind = "businessLogout" -> [r.rec EXCEPT !.business = None]
    [] r.kind = "consumerLogout" -> [r.rec EXCEPT !.consumer = None]
    [] OTHER -> [r.rec EXCEPT !.business = None, !.consumer = None]

\* A sign-out drops its side; with nothing left, the session and the cookie.
Drop(s) ==
  LET r == req[s]  left == Remaining(r)  kept == HasAnyAuthority(left) IN
  /\ At(s, "drop")
  /\ store' = [store EXCEPT ![r.id] = IF kept THEN Entry(left) ELSE None]
  /\ jar' = IF kept THEN jar ELSE NoCookie
  /\ over' = IF kept THEN over ELSE over \cup {r.id}
  /\ Finish(s)
  /\ UNCHANGED <<now, nextId, tokens, browser, lost, ended, outside, seeds>>

\* A sign-in stores its record under a new id ...
Rotate(s) ==
  /\ At(s, "rotate") /\ nextId <= MaxIds
  /\ store' = [store EXCEPT ![nextId] = Entry(req[s].rec)]
  /\ nextId' = nextId + 1
  /\ req' = [req EXCEPT ![s].fresh = nextId, ![s].at = "retire"]
  /\ UNCHANGED <<now, jar, tokens, browser, lost, ended, outside, ids>>

\* ... deletes the old one, and hands the browser the new cookie.
Retire(s) ==
  LET r == req[s] IN
  /\ At(s, "retire")
  /\ store' = [store EXCEPT ![r.id] = None]
  /\ jar' = [id |-> r.fresh, exp |-> Entry(r.rec).exp]
  /\ over' = over \cup {r.id}
  /\ Finish(s)
  /\ UNCHANGED <<now, nextId, tokens, browser, lost, ended, outside, seeds>>

\* A request takes less than a tick: the host gives up on an upstream call after 20 s
\* (Node, on a body that stops, after five minutes), and a tick stands for the quarter
\* of an hour an access token lives.  The calls of a sign-out of everything have no
\* limit of the host's.
Tick ==
  /\ now < MaxTime
  /\ \A s \in Busy : req[s].start = now \/ req[s].kind = "logoutAll"
  /\ now' = now + 1
  /\ UNCHANGED <<store, nextId, jar, tokens, req, browser, lost, ended, outside, ids>>

Step(s) ==
  \/ \E kind \in Kinds : Send(s, kind) \/ SendWithoutSession(s, kind)
  \/ Mint(s) \/ Unreachable(s) \/ Call(s) \/ BusinessCall(s)
  \/ SignInConsumer(s) \/ SignInBusiness(s) \/ SignInLost(s)
  \/ RenewRefused(s) \/ RenewReused(s) \/ RenewDenied(s) \/ RenewLocks(s) \/ RenewFails(s)
  \/ \E arrives \in BOOLEAN : RenewCommits(s, arrives) \/ RefusalEnds(s, arrives)
  \/ EndBegins(s) \/ SignOutEnds(s) \/ SignOutLost(s) \/ EndFails(s) \/ EndConsumer(s)
  \/ Keep(s) \/ Save(s) \/ Drop(s) \/ Rotate(s) \/ Retire(s)

Outside ==
  \/ \E f \in Tokens : Bar(f)
  \/ \E F \in SUBSET barred : SweepBegins(F)
  \/ SweepEnds \/ SweepFails

Next == Tick \/ Outside \/ \E s \in Slot : Step(s)

Spec == Init /\ [][Next]_vars

-----------------------------------------------------------------------------
(* Properties.                                                             *)

TypeOK ==
  /\ now \in Time /\ sent \in 0 .. MaxSent
  /\ width \in Widths
  /\ store \in [Ids -> [rec : Record, exp : Nat] \cup {None}]
  /\ nextId \in 1 .. MaxIds + 1
  /\ jar \in [id : 0 .. MaxIds, exp : Nat]
  /\ rows \in [Tokens -> Row \cup {None}] /\ nextToken \in 1 .. MaxTokens + 1
  /\ req \in [Slot -> Request \cup {None}]
  /\ lost \subseteq Tokens /\ ended \subseteq Tokens
  /\ barred \subseteq Tokens /\ sweep \subseteq Tokens
  /\ seeds \subseteq Ids /\ over \subseteq Ids

\* The sides of a record.
Authorities(rec) == {a \in {rec.consumer, rec.business} : a # None}

\* An authority is never stored past the absolute lifetime of the sign-in that
\* obtained it (give or take the floor on a TTL and the time one request takes:
\* a tick each), however many calls slide the idle
\* window and however many sign-ins rotate the session it is in.
LifetimeIsAbsolute ==
  \A id \in Ids : store[id] # None =>
    \A a \in Authorities(store[id].rec) : store[id].exp <= a.since + Absolute + 2

\* The id a browser had before it signed in is worth nothing afterwards: no
\* handler that was at work on the pre-auth record brings it back.
PreauthIdIsSpent == \A id \in seeds \cap over : store[id] = None

\* With one request at a time, a sign-out of the business that was answered leaves no
\* refresh token of the sign-in alive; and only three things ever revoke one: that
\* sign-out, the barring of the business, and an answer that was lost, after which the
\* host presents a spent token.  The host itself never presents a token twice.
SignOutEndsTheSignIn ==
  width = 1 =>
    \A t \in Issued :
      /\ Family(t) \in ended => rows[t].revoked
      /\ rows[t].revoked => Family(t) \in ended \cup barred \cup lost

\* However requests overlap, a sign-in has one refresh token that is not spent: two
\* renewals with one token never both get a successor.
OneTokenPerSignIn ==
  \A t, u \in Issued :
    Family(t) = Family(u) /\ ~ rows[t].rotated /\ ~ rows[u].rotated => t = u

\* Said of every browser, and not so: "Logout and expiry revoke the server-side
\* record, so a stolen or replayed cookie is worthless" (server.mjs:10).
RetiredIsRevoked == \A id \in over : store[id] = None

\* Said of every browser, and not so: "the sign-in the token belongs to is revoked,
\* whichever of its rotations is presented" (merchant_sessions.go:187).
EndRevokesTheFamily ==
  \A t \in Issued : Family(t) \in ended => rows[t].revoked

\* Said of every browser, and not so: a business's access token that expires in
\* mid-session is renewed transparently (server.mjs:358).
RenewalIsTransparent ==
  \A t \in Issued : rows[t].revoked => Family(t) \in ended \cup barred \cup lost

\* Said, and not so: RevokeAllForMerchant is "used on account deletion so no refresh
\* token survives" (merchant_sessions.go:202).  The successor a renewal inserts while
\* the UPDATE waits for its lock does.
NoTokenSurvivesTheSweep ==
  [][SweepEnds => LET F == {Family(t) : t \in sweep} IN
                  \A t \in Issued : Family(t) \in F => rows'[t].revoked]_vars

\* Said, and not so: the idle window slides (server.mjs:37).  The record's does;
\* the browser's cookie is set by a sign-in only.
CookieSlides ==
  \A id \in Ids : id = Cookie /\ Loads(id) /\ ~ store[id].rec.preauth =>
    jar.exp >= store[id].exp

\* The record the host is working on or, between requests, the record the browser's
\* cookie stands for; and what it lets the browser act as.
HeldRecord ==
  LET working == {s \in Slot : req[s] # None /\ req[s].rec # None} IN
  IF working # {} THEN req[CHOOSE s \in Slot : s \in working].rec
  ELSE IF Loads(Cookie) THEN store[Cookie].rec ELSE Seed

HeldConsumer == HeldRecord.consumer # None
HeldBusiness ==
  IF HeldRecord.business = None THEN None ELSE Family(HeldRecord.business.refresh)

Asking == IF Busy = {} THEN None ELSE req[CHOOSE s \in Slot : s \in Busy].kind

SignedInAs == INSTANCE SignedIn
  WITH SignIn <- Tokens, consumer <- HeldConsumer, business <- HeldBusiness,
       revocable <- barred \cup lost, asking <- Asking

\* To a browser that makes one request at a time the host is SignedIn.
OneAtATimeIsSignedIn ==
  SignedInAs!Init /\ [][width = 1 => SignedInAs!Next]_SignedInAs!vars

=============================================================================
