--------------------------- MODULE WebSessionProofs ---------------------------
(***************************************************************************)
(* Theorems about WebSession for every set of requests, every lifetime and *)
(* every bound, checked by TLAPS.                                          *)
(***************************************************************************)
EXTENDS WebSession, FiniteSetTheorems, TLAPS

\* A row of the gateway stands behind the refresh token t.
Known(t) == rows[t] \in Row

\* A record: what it keeps was obtained while its session lived.
Sound(rec) ==
  /\ rec \in Record
  /\ rec.created <= now
  /\ rec.preauth => rec.consumer = None /\ rec.business = None
  /\ rec.consumer # None => rec.created <= rec.consumer.since
  /\ rec.business # None => rec.created <= rec.business.since /\ Known(rec.business.refresh)

\* An entry of the store under id.
Kept(id, entry) ==
  /\ entry \in [rec : Record, exp : Nat]
  /\ Sound(entry.rec)
  /\ id < nextId
  /\ entry.rec.preauth <=> id \in seeds
  /\ entry.exp <= entry.rec.created + Absolute + 2

OnTheBusiness == {"renew", "renewing", "revoking", "end"}
OfTheBusiness == {"businessCall", "businessLogout"}

\* A request the host works on: it came less than a tick ago, or signs out of
\* everything; past "mint" it has a session, which was not too old when it came.
Working(r) ==
  /\ r \in Request
  /\ r.start <= now
  /\ IF r.kind = "logoutAll" THEN r.at \in {"end", "revoking", "drop"}
                            ELSE now <= r.start + 1
  /\ r.at # "mint" =>
       /\ r.id \in Ids /\ r.id < nextId
       /\ Sound(r.rec)
       /\ r.start <= r.rec.created + Absolute
       /\ r.at \notin {"rotate", "retire"} => (r.rec.preauth <=> r.id \in seeds)
       /\ r.at \in OnTheBusiness \cup {"keep", "rotate", "retire"} => ~ r.rec.preauth
       /\ r.at \in OnTheBusiness \/ (r.at = "proxy" /\ r.kind \in OfTheBusiness)
            => r.rec.business # None
       /\ \A t \in r.mine : Known(t)

IdsAreMinted == \A id \in seeds \cup over : id < nextId

SweepIsKnown == \A t \in sweep : Known(t)

Inv ==
  /\ TypeOK
  /\ \A id \in Ids : store[id] # None => Kept(id, store[id])
  /\ \A s \in Slot : req[s] # None => Working(req[s])
  /\ IdsAreMinted
  /\ SweepIsKnown
  /\ PreauthIdIsSpent

LEMMA Constants ==
  /\ Access \in Nat /\ Idle \in Nat /\ Absolute \in Nat
  /\ MaxTime \in Nat /\ MaxIds \in Nat /\ MaxTokens \in Nat /\ MaxSent \in Nat /\ MaxLost \in Nat
  /\ Idle > 0 /\ Absolute > 0
BY WebSessionAssumption

\* A record stays sound while time goes on and tokens are issued.
LEMMA SoundStays ==
  ASSUME NEW rec, Sound(rec), now \in Time, now' \in Time, now <= now',
         \A t \in Tokens : Known(t) => Known(t)'
  PROVE  Sound(rec)'
BY Constants DEF Sound, Record, Consumer, Business, Time, Tokens

\* What a handler stores lives no longer than its session does.
LEMMA EntryFacts ==
  ASSUME Inv, NEW rec, Sound(rec), now <= rec.created + Absolute + 1
  PROVE  /\ Entry(rec) \in [rec : Record, exp : Nat]
         /\ Entry(rec).rec = rec
         /\ Entry(rec).exp <= rec.created + Absolute + 2
<1>1. now \in Nat /\ rec.created \in Nat /\ rec \in Record
  BY Constants DEF Inv, TypeOK, Time, Sound, Record
<1>2. RemainingTtl(rec) \in Int /\ RemainingTtl(rec) <= rec.created + Absolute - now
  BY <1>1, Constants DEF RemainingTtl
<1> DEFINE ttl == IF RemainingTtl(rec) > 1 THEN RemainingTtl(rec) ELSE 1
<1>3. ttl \in Nat /\ now + ttl <= rec.created + Absolute + 2
  BY <1>1, <1>2, Constants
<1>4. Entry(rec) = [rec |-> rec, exp |-> now + ttl]
  BY DEF Entry
<1> QED BY <1>1, <1>3, <1>4

-----------------------------------------------------------------------------
(* What a step of one request leaves to show.                              *)

\* What only grows, in a step in which the clock stands.
Growing ==
  /\ now' = now /\ nextId' \in 1 .. MaxIds + 1 /\ nextId <= nextId'
  /\ \A t \in Tokens : Known(t) => Known(t)'
  /\ \A id \in Ids : id < nextId => (id \in seeds <=> id \in seeds')

LEMMA SoundGrows ==
  ASSUME Inv, Growing, NEW rec, Sound(rec)
  PROVE  Sound(rec)'
BY Constants, SoundStays DEF Inv, TypeOK, Growing, Time

LEMMA KeptGrows ==
  ASSUME Inv, Growing, NEW id \in Ids, store[id] # None, store'[id] = store[id]
  PROVE  Kept(id, store[id])'
<1>1. Kept(id, store[id])
  BY DEF Inv
<1>2. Sound(store[id].rec)'
  BY <1>1, SoundGrows DEF Kept
<1>3. id < nextId'
  BY <1>1, Constants DEF Growing, Kept, Ids, Inv, TypeOK
<1> QED BY <1>1, <1>2, <1>3 DEF Kept, Growing

LEMMA WorkingGrows ==
  ASSUME Inv, Growing, NEW s \in Slot, req[s] # None, req'[s] = req[s]
  PROVE  Working(req[s])'
<1>1. Working(req[s])
  BY DEF Inv
<1>2. CASE req[s].at = "mint"
  BY <1>1, <1>2 DEF Working, Growing
<1>3. CASE req[s].at # "mint"
  <2>1. Sound(req[s].rec)'
    BY <1>1, <1>3, SoundGrows DEF Working
  <2>2. req[s].id \in Ids /\ req[s].id < nextId'
    BY <1>1, <1>3, Constants DEF Growing, Working, Ids, Inv, TypeOK
  <2>3. req[s].mine \subseteq Tokens
    BY <1>1 DEF Working, Request
  <2> QED BY <1>1, <1>3, <2>1, <2>2, <2>3 DEF Working, Growing
<1> QED BY <1>2, <1>3

LEMMA StepKeeps ==
  ASSUME Inv, Growing, NEW s \in Slot,
         TypeOK',
         \A q \in Slot \ {s} : req'[q] = req[q],
         (req[s] # None => Working(req[s]))',
         \A id \in Ids : store'[id] \in {None, store[id]} \/ Kept(id, store[id])',
         IdsAreMinted', PreauthIdIsSpent', sweep' = sweep
  PROVE  Inv'
<1>3. SweepIsKnown'
  BY DEF SweepIsKnown, Growing, Inv, TypeOK
<1>1. ASSUME NEW id \in Ids, store'[id] # None PROVE Kept(id, store[id])'
  BY <1>1, KeptGrows
<1>2. ASSUME NEW q \in Slot, req'[q] # None PROVE Working(req[q])'
  BY <1>2, WorkingGrows
<1> QED BY <1>1, <1>2, <1>3 DEF Inv

\* A step that changes nothing but the request it is about.
LEMMA RequestStep ==
  ASSUME Inv, NEW s \in Slot, req' \in [Slot -> Request \cup {None}],
         \A q \in Slot \ {s} : req'[q] = req[q],
         req'[s] # None => Working(req[s])',
         UNCHANGED <<now, store, nextId, jar, tokens, width, lost, ended, outside, ids>>,
         sent' \in 0 .. MaxSent
  PROVE  Inv'
<1> USE DEF tokens, ids, outside
<1>1. TypeOK'
  BY DEF Inv, TypeOK
<1>2. Growing
  BY Constants DEF Inv, TypeOK, Growing, Known
<1>3. IdsAreMinted' /\ PreauthIdIsSpent'
  BY DEF Inv, IdsAreMinted, PreauthIdIsSpent
<1> QED BY <1>1, <1>2, <1>3, StepKeeps

-----------------------------------------------------------------------------
(* The actions that change no more than a request.                          *)

LEMMA LoadedFacts ==
  ASSUME Inv, Loads(Cookie)
  PROVE  LET rec == store[Cookie].rec IN
         /\ Cookie \in Ids /\ Cookie < nextId
         /\ Sound(rec)
         /\ now <= rec.created + Absolute
         /\ rec.preauth <=> Cookie \in seeds
<1>1. Cookie \in Ids /\ store[Cookie] # None
  BY DEF Loads, Stored
<1>2. Kept(Cookie, store[Cookie])
  BY <1>1 DEF Inv
<1>3. now \in Nat /\ store[Cookie].rec.created \in Nat
  BY <1>2, Constants DEF Kept, Sound, Record, Time, Inv, TypeOK
<1> QED BY <1>1, <1>2, <1>3, Constants DEF Kept, Loads

LEMMA SendKeeps ==
  ASSUME Inv, NEW s \in Slot, NEW kind \in Kinds, Send(s, kind)
  PROVE  Inv'
<1> DEFINE rec == store[Cookie].rec
           r == [kind |-> kind, at |-> FirstStep(kind, rec), start |-> now, id |-> Cookie,
                 rec |-> rec, fresh |-> 0, mine |-> {}]
<1>1. sent' \in 0 .. MaxSent
  BY Constants DEF Send, CanSend, Inv, TypeOK
<1>2. now \in Time /\ now \in Nat
  BY Constants DEF Inv, TypeOK, Time
<1>3. CASE Admits(kind, rec)
  <2>1. req' = [req EXCEPT ![s] = r]
    BY <1>3 DEF Send
  <2>2. /\ Cookie \in Ids /\ Cookie < nextId /\ Cookie \in 0 .. MaxIds
        /\ Sound(rec) /\ rec \in Record /\ rec.created \in Nat
        /\ rec.business # None => ~ rec.preauth
        /\ now <= rec.created + Absolute
        /\ rec.preauth <=> Cookie \in seeds
    BY LoadedFacts, Constants DEF Send, Sound, Record, Time, Ids
  <2>3. r.at \in {"save", "end", "drop", "proxy"}
    BY DEF FirstStep
  <2>4. r \in Request
    <3> HIDE DEF rec
    <3>1. r.at \in Steps /\ 0 \in 0 .. MaxIds
      BY <2>3, Constants DEF Steps
    <3> QED BY <1>2, <2>2, <3>1 DEF Request
  <2>5. r.at = "end" \/ (r.at = "proxy" /\ kind \in OfTheBusiness) => rec.business # None
    BY <1>3 DEF FirstStep, Admits, OfTheBusiness
  <2>6. Working(r)
    <3> HIDE DEF rec
    <3> DEFINE at == FirstStep(kind, rec)
    <3>1. at \in {"save", "end", "drop", "proxy"}
          /\ (at = "end" \/ (at = "proxy" /\ kind \in OfTheBusiness) => rec.business # None)
          /\ (kind = "logoutAll" => at \in {"end", "drop"})
      BY <2>3, <2>5 DEF FirstStep
    <3> HIDE DEF at
    <3>2. r = [kind |-> kind, at |-> at, start |-> now, id |-> Cookie,
               rec |-> rec, fresh |-> 0, mine |-> {}]
      BY DEF at
    <3> HIDE DEF r
    <3> QED BY <1>2, <2>2, <2>4, <3>1, <3>2 DEF Working, OnTheBusiness
  <2>7. Working(req[s])'
    BY <2>1, <2>6 DEF Send, Inv, TypeOK, Working, Sound, Known, tokens, ids, outside
  <2> QED BY <1>1, <2>1, <2>4, <2>7, RequestStep DEF Send, Inv, TypeOK
<1>4. CASE ~ Admits(kind, rec)
  BY <1>1, <1>4, RequestStep DEF Send, Inv, TypeOK
<1> QED BY <1>3, <1>4

LEMMA AtFacts ==
  ASSUME Inv, NEW s \in Slot, req[s] # None
  PROVE  LET r == req[s] IN
         /\ r \in Request /\ Working(r)
         /\ r.at # "mint" =>
              /\ r.id \in Ids /\ r.id < nextId /\ r.rec \in Record /\ Sound(r.rec)
              /\ r.rec.created \in Nat /\ now \in Nat
              /\ r.kind # "logoutAll" => now <= r.rec.created + Absolute + 1
              /\ r.rec.business # None => r.rec.business \in Business /\ ~ r.rec.preauth
<1>1. req[s] \in Request /\ Working(req[s])
  BY DEF Inv, Working
<1>2. now \in Nat /\ req[s].start \in Nat
  BY <1>1, Constants DEF Inv, TypeOK, Time, Request
<1>3. CASE req[s].at # "mint"
  <2>1. Sound(req[s].rec) /\ req[s].id \in Ids /\ req[s].id < nextId
        /\ req[s].start <= req[s].rec.created + Absolute
        /\ (req[s].kind # "logoutAll" => now <= req[s].start + 1)
    BY <1>1, <1>3 DEF Working
  <2>2. req[s].rec \in Record /\ req[s].rec.created \in Nat
    BY <2>1, Constants DEF Sound, Record, Time
  <2>3. req[s].rec.business # None => req[s].rec.business \in Business /\ ~ req[s].rec.preauth
    BY <2>1 DEF Sound, Record
  <2> QED BY <1>1, <1>2, <2>1, <2>2, <2>3, Constants
<1> QED BY <1>1, <1>3

\* A request goes on to another step.
LEMMA GotoKeeps ==
  ASSUME Inv, NEW s \in Slot, NEW step \in {"save", "renew", "renewing", "keep", "drop"},
         req[s] # None, req[s].at \notin {"mint", "rotate", "retire"},
         Goto(s, step),
         step \in {"renew", "renewing", "keep"} => req[s].rec.business # None,
         req[s].kind = "logoutAll" => step = "drop",
         UNCHANGED <<now, store, nextId, jar, tokens, browser, lost, ended, outside, ids>>
  PROVE  Inv'
<1> DEFINE r == [req[s] EXCEPT !.at = step]
<1>1. req[s] \in Request /\ Working(req[s])
  BY AtFacts
<1>2. r \in Request
  BY <1>1 DEF Request, Steps
<1>3. Working(r)
  BY <1>1, <1>2, AtFacts DEF Working, OnTheBusiness, Request
<1>4. req' = [req EXCEPT ![s] = r]
  BY DEF Goto
<1>5. Working(req[s])'
  BY <1>3, <1>4 DEF Inv, TypeOK, Working, Sound, Known, tokens, ids, outside
<1> QED BY <1>2, <1>4, <1>5, RequestStep DEF Inv, TypeOK, browser

LEMMA CallsKeep ==
  ASSUME Inv, NEW s \in Slot,
         \/ Unreachable(s) \/ Call(s) \/ BusinessCall(s)
         \/ RenewLocks(s) \/ RenewFails(s) \/ EndFails(s) \/ EndConsumer(s)
  PROVE  Inv'
<1>1. CASE Unreachable(s)
  BY <1>1, RequestStep DEF Unreachable, Finish, Inv, TypeOK, browser
<1>2. CASE Call(s)
  BY <1>2, GotoKeeps DEF Call, At
<1>3. CASE BusinessCall(s)
  <2>1. req[s].rec.business # None /\ req[s].kind # "logoutAll"
    BY <1>3, AtFacts DEF BusinessCall, At, Working, OfTheBusiness
  <2> QED BY <1>3, <2>1, GotoKeeps DEF BusinessCall, At
<1>4. CASE RenewLocks(s)
  <2>1. req[s].rec.business # None /\ req[s].kind # "logoutAll"
    BY <1>4, AtFacts DEF RenewLocks, At, Working, OnTheBusiness
  <2> QED BY <1>4, <2>1, GotoKeeps DEF RenewLocks, At
<1>5. CASE RenewFails(s)
  <2>1. req[s] # None /\ req[s].at \in {"renew", "renewing", "revoking"}
    BY <1>5 DEF RenewFails, At, Locking
  <2>2. req[s].rec.business # None /\ req[s].kind # "logoutAll"
    BY <1>5, <2>1, AtFacts DEF Working, OnTheBusiness, RenewFails, Locking, At
  <2> QED BY <1>5, <2>1, <2>2, GotoKeeps DEF RenewFails
<1>6. CASE EndFails(s)
  BY <1>6, GotoKeeps DEF EndFails, At
<1>7. CASE EndConsumer(s)
  BY <1>7, GotoKeeps DEF EndConsumer, At
<1> QED BY <1>1, <1>2, <1>3, <1>4, <1>5, <1>6, <1>7

LEMMA RevokingKeeps ==
  ASSUME Inv, NEW s \in Slot, RenewReused(s) \/ RenewDenied(s) \/ EndBegins(s)
  PROVE  Inv'
<1> DEFINE r == [req[s] EXCEPT !.at = "revoking", !.mine = Siblings(Presented(s))]
<1>1. req[s] # None /\ req[s].at # "mint" /\ req[s].rec.business # None
      /\ req[s].at \notin {"rotate", "retire"}
  BY AtFacts DEF RenewReused, RenewDenied, EndBegins, At, Working, OnTheBusiness, OfTheBusiness
<1>2. req[s] \in Request /\ Working(req[s])
  BY <1>1, AtFacts
<1>3. Siblings(Presented(s)) \in SUBSET Tokens
      /\ \A t \in Siblings(Presented(s)) : Known(t)
  BY DEF Siblings, Issued, Known, Inv, TypeOK
<1>4. r \in Request
  BY <1>2, <1>3 DEF Request, Steps
<1>5. Working(r)
  BY <1>1, <1>2, <1>3, <1>4, AtFacts DEF Working, OnTheBusiness, Request
<1>6. req' = [req EXCEPT ![s] = r]
  BY DEF RenewReused, RenewDenied, EndBegins
<1>7. UNCHANGED <<now, store, nextId, jar, tokens, browser, lost, ended, outside, ids>>
  BY DEF RenewReused, RenewDenied, EndBegins
<1>8. Working(req[s])'
  BY <1>5, <1>6, <1>7 DEF Inv, TypeOK, Working, Sound, Known, tokens, ids, outside
<1> QED BY <1>4, <1>6, <1>7, <1>8, RequestStep DEF Inv, TypeOK, browser

\* Without its business side a record is as sound.
LEMMA WithoutBusinessFacts ==
  ASSUME NEW rec, Sound(rec)
  PROVE  Sound([rec EXCEPT !.business = None]) /\ Sound([rec EXCEPT !.consumer = None])
BY DEF Sound, Record

LEMMA RefusedKeeps ==
  ASSUME Inv, NEW s \in Slot, RenewRefused(s)
  PROVE  Inv'
<1> DEFINE rec == [req[s].rec EXCEPT !.business = None]
           r == [req[s] EXCEPT !.rec = rec, !.at = "keep"]
<1>1. /\ req[s] # None /\ req[s].at = "renew" /\ req[s] \in Request /\ Working(req[s])
      /\ req[s].rec \in Record /\ Sound(req[s].rec) /\ ~ req[s].rec.preauth
  BY AtFacts DEF RenewRefused, At, Working, OnTheBusiness
<1>2. Sound(rec) /\ rec \in Record /\ ~ rec.preauth /\ rec.created = req[s].rec.created
  BY <1>1, WithoutBusinessFacts DEF Record, Sound
<1>3. r \in Request
  <2> HIDE DEF rec
  <2> QED BY <1>1, <1>2 DEF Request, Steps
<1>4. Working(r)
  <2> HIDE DEF rec
  <2> QED BY <1>1, <1>2, <1>3 DEF Working, OnTheBusiness, Request
<1>5. req' = [req EXCEPT ![s] = r]
  BY DEF RenewRefused, WithoutBusiness
<1>6. UNCHANGED <<now, store, nextId, jar, tokens, browser, lost, ended, outside, ids>>
  BY DEF RenewRefused
<1>7. Working(req[s])'
  BY <1>4, <1>5, <1>6 DEF Inv, TypeOK, Working, Sound, Known, tokens, ids, outside
<1> QED BY <1>3, <1>5, <1>6, <1>7, RequestStep DEF Inv, TypeOK, browser

-----------------------------------------------------------------------------
(* The sign-ins, and the other steps that change the rows of the gateway.   *)

LEMMA TokenStep ==
  ASSUME Inv, NEW s \in Slot, NEW r \in Request \cup {None},
         req' = [req EXCEPT ![s] = r],
         r # None => Working(r)',
         rows' \in [Tokens -> Row \cup {None}], nextToken' \in 1 .. MaxTokens + 1,
         \A t \in Tokens : Known(t) => Known(t)',
         lost' \subseteq Tokens, ended' \subseteq Tokens,
         UNCHANGED <<now, store, nextId, jar, browser, outside, ids>>
  PROVE  Inv'
<1> USE DEF browser, ids, outside
<1>1. TypeOK'
  BY DEF Inv, TypeOK
<1>2. Growing
  BY Constants DEF Inv, TypeOK, Growing
<1>3. IdsAreMinted' /\ PreauthIdIsSpent'
  BY DEF Inv, IdsAreMinted, PreauthIdIsSpent
<1>4. (req[s] # None => Working(req[s]))'
  BY DEF Inv, TypeOK, Working
<1> QED BY <1>1, <1>2, <1>3, <1>4, StepKeeps DEF Inv, TypeOK

\* Issuing a token keeps the rows there are.
LEMMA IssueFacts ==
  ASSUME Inv, NEW table \in [Tokens -> Row \cup {None}], NEW family \in Tokens,
         \A t \in Tokens : Known(t) => table[t] \in Row,
         nextToken \in Tokens, Issue(table, family)
  PROVE  /\ rows' \in [Tokens -> Row \cup {None}] /\ nextToken' \in 1 .. MaxTokens + 1
         /\ \A t \in Tokens : Known(t) => Known(t)'
         /\ rows'[nextToken] \in Row
<1>1. [family |-> family, rotated |-> FALSE, revoked |-> FALSE] \in Row
  BY DEF Row
<1>2. nextToken' \in 1 .. MaxTokens + 1
  BY Constants DEF Issue, Tokens
<1> QED BY <1>1, <1>2 DEF Issue, Known

\* The record of a session that signs in anew: what it had, and one side more.
LEMMA SignedInFacts ==
  ASSUME Inv, NEW old, Sound(old), NEW new, new \in Record,
         ~ new.preauth, new.created = Began(old),
         new.consumer \in {old.consumer, [since |-> now]},
         \/ new.business = old.business
         \/ \E t \in Tokens : /\ Known(t)'
                               /\ new.business = [refresh |-> t, issued |-> now, since |-> now],
         now' = now, \A t \in Tokens : Known(t) => Known(t)'
  PROVE  Sound(new)'
<1>1. now \in Nat /\ now \in Time /\ old \in Record /\ old.created \in Nat
  BY Constants DEF Inv, TypeOK, Time, Sound, Record
<1>2. new.created \in Nat /\ new.created <= now
      /\ (~ old.preauth => new.created = old.created)
  BY <1>1 DEF Began, Sound
<1>3. new.consumer # None => new.created <= new.consumer.since
  <2>1. CASE new.consumer = [since |-> now]
    BY <1>2, <2>1
  <2>2. CASE new.consumer = old.consumer
    BY <1>2, <2>2 DEF Sound
  <2> QED BY <2>1, <2>2
<1>4. new.business # None =>
        new.created <= new.business.since /\ Known(new.business.refresh)'
  <2>1. CASE \E t \in Tokens : /\ Known(t)'
                               /\ new.business = [refresh |-> t, issued |-> now, since |-> now]
    BY <1>2, <2>1
  <2>2. CASE new.business = old.business
    BY <1>1, <1>2, <2>2 DEF Sound, Record, Business
  <2> QED BY <2>1, <2>2
<1> QED BY <1>2, <1>3, <1>4 DEF Sound

LEMMA SignInKeeps ==
  ASSUME Inv, NEW s \in Slot, NEW new, new \in Record,
         req[s] # None, req[s].at = "proxy",
         req' = [req EXCEPT ![s] = [req[s] EXCEPT !.rec = new, !.at = "rotate"]],
         ~ new.preauth, new.created = Began(req[s].rec),
         new.consumer \in {req[s].rec.consumer, [since |-> now]},
         \/ new.business = req[s].rec.business
         \/ \E t \in Tokens : /\ Known(t)'
                               /\ new.business = [refresh |-> t, issued |-> now, since |-> now],
         rows' \in [Tokens -> Row \cup {None}], nextToken' \in 1 .. MaxTokens + 1,
         \A t \in Tokens : Known(t) => Known(t)',
         UNCHANGED <<now, store, nextId, jar, browser, lost, ended, outside, ids>>
  PROVE  Inv'
<1> SUFFICES ASSUME NEW r, r = [req[s] EXCEPT !.rec = new, !.at = "rotate"]
             PROVE  Inv'
  OBVIOUS
<1>1. /\ req[s] \in Request /\ Working(req[s]) /\ Sound(req[s].rec)
      /\ req[s].id \in Ids /\ req[s].id < nextId
      /\ req[s].rec.created \in Nat /\ now \in Nat
      /\ req[s].start \in Nat /\ req[s].start <= now
      /\ req[s].kind # "logoutAll" /\ now <= req[s].start + 1
      /\ req[s].start <= req[s].rec.created + Absolute
      /\ \A t \in req[s].mine : Known(t) /\ t \in Tokens
  BY AtFacts, Constants DEF Working, Request, Time
<1>2. Sound(new)'
  BY <1>1, SignedInFacts
<1>3. req[s].start <= new.created + Absolute
  BY <1>1, Constants DEF Began
<1>4. r \in Request
  BY <1>1 DEF Request, Steps
<1>5. r.at = "rotate" /\ r.rec = new /\ r.id = req[s].id /\ r.start = req[s].start
      /\ r.mine = req[s].mine /\ r.kind = req[s].kind
  BY <1>1 DEF Request
<1>6. Working(r)'
  BY <1>1, <1>2, <1>3, <1>4, <1>5 DEF Working, OnTheBusiness
<1>7. lost' \subseteq Tokens /\ ended' \subseteq Tokens
  BY DEF Inv, TypeOK
<1> QED BY <1>4, <1>6, <1>7, TokenStep

LEMMA SignInsKeep ==
  ASSUME Inv, NEW s \in Slot, SignInConsumer(s) \/ SignInBusiness(s)
  PROVE  Inv'
<1> DEFINE old == req[s].rec
<1>1. /\ req[s] # None /\ req[s].at = "proxy" /\ req[s] \in Request
      /\ old \in Record /\ Sound(old)
      /\ now \in Time
      /\ UNCHANGED <<now, store, nextId, jar, browser, lost, ended, outside, ids>>
  BY AtFacts DEF SignInConsumer, SignInBusiness, At, Inv, TypeOK
<1>2. Began(old) \in Time
  BY <1>1 DEF Began, Record
<1>3. CASE SignInConsumer(s)
  <2> DEFINE new == [preauth |-> FALSE, created |-> Began(old),
                     consumer |-> [since |-> now], business |-> old.business]
  <2>1. new \in Record
    BY <1>1, <1>2 DEF Record, Consumer
  <2>2. req' = [req EXCEPT ![s] = [req[s] EXCEPT !.rec = new, !.at = "rotate"]]
    BY <1>1, <1>3 DEF SignInConsumer, Request
  <2>3. rows' = rows /\ nextToken' = nextToken
    BY <1>3 DEF SignInConsumer, tokens
  <2>4. /\ ~ new.preauth /\ new.created = Began(old) /\ new.consumer = [since |-> now]
        /\ new.business = old.business
    OBVIOUS
  <2>5. /\ rows' \in [Tokens -> Row \cup {None}] /\ nextToken' \in 1 .. MaxTokens + 1
        /\ \A t \in Tokens : Known(t) => Known(t)'
    BY <2>3 DEF Inv, TypeOK, Known
  <2> HIDE DEF new
  <2> QED BY <1>1, <2>1, <2>2, <2>4, <2>5, SignInKeeps
<1>4. CASE SignInBusiness(s)
  <2> DEFINE t == nextToken
             new == [preauth |-> FALSE, created |-> Began(old), consumer |-> old.consumer,
                     business |-> [refresh |-> t, issued |-> now, since |-> now]]
  <2>1. t \in Tokens /\ Issue(rows, t)
    BY <1>4, Constants DEF SignInBusiness, Inv, TypeOK, Tokens
  <2>2. /\ rows' \in [Tokens -> Row \cup {None}] /\ nextToken' \in 1 .. MaxTokens + 1
        /\ \A u \in Tokens : Known(u) => Known(u)'
        /\ rows'[t] \in Row
    BY <2>1, IssueFacts DEF Inv, TypeOK, Known
  <2>3. new \in Record
    BY <1>1, <1>2, <2>1 DEF Record, Business
  <2>4. req' = [req EXCEPT ![s] = [req[s] EXCEPT !.rec = new, !.at = "rotate"]]
    BY <1>1, <1>4 DEF SignInBusiness, Request
  <2>5. \E u \in Tokens : /\ Known(u)'
                          /\ new.business = [refresh |-> u, issued |-> now, since |-> now]
    BY <2>1, <2>2 DEF Known
  <2>6. /\ ~ new.preauth /\ new.created = Began(old) /\ new.consumer = old.consumer
    OBVIOUS
  <2> HIDE DEF new
  <2> QED BY <1>1, <2>2, <2>3, <2>4, <2>5, <2>6, SignInKeeps
<1> QED BY <1>3, <1>4

LEMMA SignInLostKeeps ==
  ASSUME Inv, NEW s \in Slot, SignInLost(s)
  PROVE  Inv'
<1>1. nextToken \in Tokens /\ Issue(rows, nextToken)
  BY Constants DEF SignInLost, Inv, TypeOK, Tokens
<1>2. /\ rows' \in [Tokens -> Row \cup {None}] /\ nextToken' \in 1 .. MaxTokens + 1
      /\ \A t \in Tokens : Known(t) => Known(t)'
  BY <1>1, IssueFacts DEF Inv, TypeOK, Known
<1>3. /\ req' = [req EXCEPT ![s] = None] /\ lost' \subseteq Tokens /\ ended' \subseteq Tokens
      /\ UNCHANGED <<now, store, nextId, jar, browser, outside, ids>>
  BY DEF SignInLost, Finish, Inv, TypeOK
<1> QED BY <1>2, <1>3, TokenStep

\* The refresh token a handler presents has its row.
LEMMA PresentedFacts ==
  ASSUME Inv, NEW s \in Slot, req[s] # None, req[s].at # "mint", req[s].rec.business # None
  PROVE  Presented(s) \in Tokens /\ rows[Presented(s)] \in Row /\ Family(Presented(s)) \in Tokens
<1>1. Sound(req[s].rec) /\ req[s].rec.business \in Business
  BY AtFacts
<1>2. Presented(s) \in Tokens /\ rows[Presented(s)] \in Row
  BY <1>1 DEF Presented, Sound, Known, Business
<1> QED BY <1>2 DEF Row, Family

LEMMA RenewCommitsKeeps ==
  ASSUME Inv, NEW s \in Slot, NEW arrives \in BOOLEAN, RenewCommits(s, arrives)
  PROVE  Inv'
<1> DEFINE t == Presented(s)
           table == [rows EXCEPT ![t].rotated = TRUE]
           old == req[s].rec
<1>1. /\ req[s] # None /\ req[s].at = "renewing" /\ req[s] \in Request /\ Working(req[s])
      /\ old \in Record /\ Sound(old) /\ old.business # None /\ old.business \in Business
      /\ now \in Time /\ ~ old.preauth
  BY AtFacts DEF RenewCommits, At, Working, OnTheBusiness, Inv, TypeOK
<1>2. t \in Tokens /\ rows[t] \in Row /\ Family(t) \in Tokens
  BY <1>1, PresentedFacts
<1>3. table \in [Tokens -> Row \cup {None}] /\ \A u \in Tokens : Known(u) => table[u] \in Row
  <2>1. [rows[t] EXCEPT !.rotated = TRUE] \in Row
    BY <1>2 DEF Row
  <2> QED BY <1>2, <2>1 DEF Inv, TypeOK, Known
<1>4. nextToken \in Tokens /\ Issue(table, Family(t))
  BY Constants DEF RenewCommits, Inv, TypeOK, Tokens
<1>5. /\ rows' \in [Tokens -> Row \cup {None}] /\ nextToken' \in 1 .. MaxTokens + 1
      /\ \A u \in Tokens : Known(u) => Known(u)'
      /\ rows'[nextToken] \in Row
  <2> HIDE DEF table, t
  <2> QED BY <1>2, <1>3, <1>4, IssueFacts
<1>6. PICK kept \in Business :
        /\ kept.since = old.business.since /\ rows'[kept.refresh] \in Row
        /\ req' = [req EXCEPT ![s] = [req[s] EXCEPT !.rec = [old EXCEPT !.business = kept],
                                                  !.at = "keep"]]
  <2>1. CASE arrives
    <3> DEFINE kept == [old.business EXCEPT !.refresh = nextToken, !.issued = now]
    <3>1. kept \in Business /\ kept.since = old.business.since /\ kept.refresh = nextToken
      BY <1>1, <1>4 DEF Business
    <3>2. req' = [req EXCEPT ![s] = [req[s] EXCEPT !.rec = [old EXCEPT !.business = kept],
                                                 !.at = "keep"]]
      BY <1>1, <2>1 DEF RenewCommits
    <3> QED BY <1>5, <3>1, <3>2
  <2>2. CASE ~ arrives
    <3>1. req' = [req EXCEPT ![s] = [req[s] EXCEPT !.rec = [old EXCEPT !.business = old.business],
                                                 !.at = "keep"]]
      BY <1>1, <2>2 DEF RenewCommits
    <3>2. rows'[old.business.refresh] \in Row
      BY <1>2, <1>5 DEF Known, Presented
    <3> QED BY <1>1, <3>1, <3>2
  <2> QED BY <2>1, <2>2
<1> SUFFICES ASSUME NEW rec, rec = [old EXCEPT !.business = kept],
                    NEW r, r = [req[s] EXCEPT !.rec = rec, !.at = "keep"]
             PROVE  Inv'
  OBVIOUS
<1>7. /\ rec \in Record /\ rec.business = kept /\ rec.consumer = old.consumer
      /\ rec.created = old.created /\ rec.preauth = old.preauth
  BY <1>1, <1>6 DEF Record
<1>8. /\ r \in Request /\ r.at = "keep" /\ r.rec = rec /\ r.id = req[s].id
      /\ r.start = req[s].start /\ r.mine = req[s].mine /\ r.kind = req[s].kind
  BY <1>1, <1>7 DEF Request, Steps
<1>9. UNCHANGED <<now, store, nextId, jar, browser, ended, outside, ids>>
  BY DEF RenewCommits
<1>10. Sound(rec)'
  BY <1>1, <1>6, <1>7, <1>9 DEF Sound, Known
<1>11. Working(r)'
  BY <1>1, <1>5, <1>7, <1>8, <1>9, <1>10 DEF Working, OnTheBusiness, ids, outside, Request
<1>12. lost' \subseteq Tokens
  BY <1>2 DEF RenewCommits, Loses, Inv, TypeOK
<1> QED BY <1>5, <1>6, <1>8, <1>9, <1>11, <1>12, TokenStep DEF Inv, TypeOK

\* Revoking rows keeps the rows there are.
LEMMA RevokeFacts ==
  ASSUME Inv, NEW seen, \A t \in seen : Known(t), Revoke(seen)
  PROVE  /\ rows' \in [Tokens -> Row \cup {None}] /\ nextToken' \in 1 .. MaxTokens + 1
         /\ \A t \in Tokens : Known(t) => Known(t)'
<1>1. \A t \in seen : [rows[t] EXCEPT !.revoked = TRUE] \in Row
  BY DEF Known, Row
<1> QED BY <1>1 DEF Revoke, Inv, TypeOK, Known

LEMMA RevokeEndsKeeps ==
  ASSUME Inv, NEW s \in Slot,
         \/ \E arrives \in BOOLEAN : RefusalEnds(s, arrives)
         \/ SignOutEnds(s) \/ SignOutLost(s)
  PROVE  Inv'
<1> DEFINE old == req[s].rec
           seen == req[s].mine
<1> USE DEF RefusalEnds, SignOutEnds, SignOutLost, Revokes
<1>1. /\ req[s] # None /\ req[s].at = "revoking" /\ req[s] \in Request /\ Working(req[s])
      /\ old \in Record /\ Sound(old) /\ old.business # None /\ ~ old.preauth
      /\ seen \subseteq Tokens /\ (\A t \in seen : Known(t)) /\ Revoke(seen)
  BY AtFacts DEF At, Working, OnTheBusiness, Request
<1>2. Family(Presented(s)) \in Tokens
  BY <1>1, PresentedFacts
<1>4. /\ rows' \in [Tokens -> Row \cup {None}] /\ nextToken' \in 1 .. MaxTokens + 1
      /\ \A t \in Tokens : Known(t) => Known(t)'
  BY <1>1, RevokeFacts
<1>5. UNCHANGED <<now, store, nextId, jar, browser, outside, ids>>
  OBVIOUS
<1>6. lost' \subseteq Tokens /\ ended' \subseteq Tokens
  BY <1>2 DEF Loses, Inv, TypeOK
<1>7. CASE SignOutLost(s)
  BY <1>4, <1>5, <1>6, <1>7, TokenStep DEF Finish
<1>8. CASE SignOutEnds(s) \/ \E arrives \in BOOLEAN : RefusalEnds(s, arrives)
  <2>1. PICK rec \in Record, step \in {"keep", "drop"} :
          /\ req' = [req EXCEPT ![s] = [req[s] EXCEPT !.rec = rec, !.at = step]]
          /\ Sound(rec) /\ ~ rec.preauth /\ rec.created = old.created
          /\ req[s].kind = "logoutAll" => step = "drop"
    <3>1. CASE \E arrives \in BOOLEAN : RefusalEnds(s, arrives)
      <4> DEFINE rec == [old EXCEPT !.business = None]
      <4>1. rec \in Record /\ Sound(rec) /\ ~ rec.preauth /\ rec.created = old.created
        BY <1>1, WithoutBusinessFacts DEF Record, Sound
      <4>2. \/ req' = [req EXCEPT ![s] = [req[s] EXCEPT !.rec = rec, !.at = "keep"]]
            \/ req' = [req EXCEPT ![s] = [req[s] EXCEPT !.rec = old, !.at = "keep"]]
        BY <1>1, <3>1 DEF WithoutBusiness, Goto, Request
      <4>3. req[s].kind # "logoutAll"
        BY <3>1
      <4> QED BY <1>1, <4>1, <4>2, <4>3
    <3>2. CASE SignOutEnds(s)
      <4>1. req' = [req EXCEPT ![s] = [req[s] EXCEPT !.rec = old, !.at = "drop"]]
        BY <1>1, <3>2 DEF Goto, Request
      <4> QED BY <1>1, <4>1
    <3> QED BY <1>8, <3>1, <3>2
  <2> SUFFICES ASSUME NEW r, r = [req[s] EXCEPT !.rec = rec, !.at = step]
               PROVE  Inv'
    OBVIOUS
  <2>2. /\ r \in Request /\ r.at = step /\ r.rec = rec /\ r.id = req[s].id
        /\ r.start = req[s].start /\ r.mine = req[s].mine /\ r.kind = req[s].kind
    BY <1>1, <2>1 DEF Request, Steps
  <2>3. Sound(rec)'
    BY <1>4, <1>5, <2>1, SoundGrows, Constants DEF Growing, Inv, TypeOK, ids, outside
  <2>4. Working(r)'
    BY <1>1, <1>4, <1>5, <2>1, <2>2, <2>3 DEF Working, OnTheBusiness, ids, outside
  <2> QED BY <1>4, <1>5, <1>6, <2>1, <2>2, <2>4, TokenStep
<1> QED BY <1>7, <1>8

\* What befalls a sign-in from outside leaves every record and request as it is.
LEMMA OutsideKeeps ==
  ASSUME Inv, Outside
  PROVE  Inv'
<1> USE DEF Outside, Bar, SweepBegins, SweepEnds, SweepFails
<1>1. /\ UNCHANGED <<now, store, nextId, jar, req, browser, lost, ended, ids>>
      /\ barred' \subseteq Tokens /\ sweep' \subseteq Tokens
  BY DEF Inv, TypeOK, Issued
<1>2. /\ rows' \in [Tokens -> Row \cup {None}] /\ nextToken' \in 1 .. MaxTokens + 1
      /\ \A t \in Tokens : Known(t) => Known(t)'
  <2>1. CASE SweepEnds
    BY <2>1, RevokeFacts DEF Inv, SweepIsKnown
  <2>2. CASE UNCHANGED tokens
    BY <2>2 DEF tokens, Inv, TypeOK, Known
  <2> QED BY <2>1, <2>2
<1>3. TypeOK' /\ IdsAreMinted' /\ PreauthIdIsSpent' /\ SweepIsKnown'
  <2>1. TypeOK' /\ IdsAreMinted' /\ PreauthIdIsSpent'
    BY <1>1, <1>2 DEF Inv, TypeOK, IdsAreMinted, PreauthIdIsSpent, browser, ids
  <2>2. SweepIsKnown'
    BY <1>2 DEF Inv, TypeOK, SweepIsKnown, Known, Issued
  <2> QED BY <2>1, <2>2
<1>4. Growing
  BY <1>1, <1>2, Constants DEF Growing, Inv, TypeOK, ids
<1>5. ASSUME NEW id \in Ids, store'[id] # None PROVE Kept(id, store[id])'
  BY <1>1, <1>4, <1>5, KeptGrows
<1>6. ASSUME NEW q \in Slot, req'[q] # None PROVE Working(req[q])'
  BY <1>1, <1>4, <1>6, WorkingGrows
<1> QED BY <1>3, <1>5, <1>6 DEF Inv

-----------------------------------------------------------------------------
(* The steps that write the store.                                          *)

\* A step that stores under one id, or deletes what is there, and whose request
\* goes on or is over.
LEMMA StoreStep ==
  ASSUME Inv, NEW s \in Slot, NEW i,
         store' \in [Ids -> [rec : Record, exp : Nat] \cup {None}],
         \A id \in Ids \ {i} : store'[id] = store[id],
         i \in Ids => store'[i] \in {None, store[i]} \/ Kept(i, store[i])',
         req' \in [Slot -> Request \cup {None}],
         \A q \in Slot \ {s} : req'[q] = req[q],
         req'[s] # None => Working(req[s])',
         nextId' \in 1 .. MaxIds + 1, nextId <= nextId',
         \A id \in Ids : id < nextId => (id \in seeds <=> id \in seeds'),
         jar' \in [id : 0 .. MaxIds, exp : Nat], sent' \in 0 .. MaxSent,
         seeds' \subseteq Ids, over' \subseteq Ids, IdsAreMinted', PreauthIdIsSpent',
         UNCHANGED <<now, tokens, width, lost, ended, outside>>
  PROVE  Inv'
<1> USE DEF tokens, outside
<1>1. TypeOK'
  BY DEF Inv, TypeOK
<1>2. Growing
  BY DEF Inv, TypeOK, Growing, Known
<1>3. \A id \in Ids : store'[id] \in {None, store[id]} \/ Kept(id, store[id])'
  <2> SUFFICES ASSUME NEW id \in Ids
               PROVE  store'[id] \in {None, store[id]} \/ Kept(id, store[id])'
    OBVIOUS
  <2>1. CASE id = i
    BY <2>1
  <2>2. CASE id # i
    BY <2>2
  <2> QED BY <2>1, <2>2
<1> QED BY <1>1, <1>2, <1>3, StepKeeps

LEMMA SendWithoutSessionKeeps ==
  ASSUME Inv, NEW s \in Slot, NEW kind \in Kinds, SendWithoutSession(s, kind)
  PROVE  Inv'
<1> DEFINE r == [kind |-> kind, at |-> "mint", start |-> now, id |-> 0,
                 rec |-> None, fresh |-> 0, mine |-> {}]
<1>1. now \in Nat /\ now \in Time
  BY Constants DEF Inv, TypeOK, Time
<1>2. r \in Request
  BY <1>1, Constants DEF Request, Steps
<1>3. kind # "logoutAll" => Working(r)
  BY <1>1, <1>2 DEF Working
<1>4. req' = req \/ (req' = [req EXCEPT ![s] = r] /\ kind # "logoutAll")
  BY DEF SendWithoutSession, Seeding
<1>5. UNCHANGED <<now, nextId, tokens, width, lost, ended, outside, ids>>
  BY DEF SendWithoutSession
<1>6. req'[s] # None => Working(req[s])'
  <2>1. CASE req' = req
    BY <2>1 DEF SendWithoutSession
  <2>2. CASE req' = [req EXCEPT ![s] = r] /\ kind # "logoutAll"
    BY <1>1, <1>2, <1>5, <2>2 DEF Working, Inv, TypeOK
  <2> QED BY <1>4, <2>1, <2>2
<1>7. req' \in [Slot -> Request \cup {None}] /\ \A q \in Slot \ {s} : req'[q] = req[q]
  BY <1>2, <1>4 DEF Inv, TypeOK
<1>8. store' \in [Ids -> [rec : Record, exp : Nat] \cup {None}]
      /\ \A id \in Ids : store'[id] = IF id = Cookie THEN None ELSE store[id]
  BY DEF SendWithoutSession, Inv, TypeOK
<1>9. jar' \in [id : 0 .. MaxIds, exp : Nat] /\ sent' \in 0 .. MaxSent
  BY Constants DEF SendWithoutSession, CanSend, NoCookie, Inv, TypeOK
<1>10. IdsAreMinted' /\ PreauthIdIsSpent'
  BY <1>5, <1>8 DEF Inv, IdsAreMinted, PreauthIdIsSpent, ids, TypeOK
<1> QED BY <1>5, <1>6, <1>7, <1>8, <1>9, <1>10, StoreStep, Constants DEF ids, outside, Inv, TypeOK

LEMMA MintKeeps ==
  ASSUME Inv, NEW s \in Slot, Mint(s)
  PROVE  Inv'
<1> DEFINE entry == [rec |-> Seed, exp |-> now + 1]
<1>1. now \in Nat /\ now \in Time /\ nextId \in Ids /\ nextId' = nextId + 1 /\ now' = now
  BY Constants DEF Inv, TypeOK, Time, Mint, Ids
<1>2. Seed \in Record /\ Seed.preauth /\ Seed.created = now
      /\ Seed.consumer = None /\ Seed.business = None
  BY <1>1 DEF Seed, Record
<1>3. entry \in [rec : Record, exp : Nat] /\ entry.rec = Seed /\ entry.exp = now + 1
  BY <1>1, <1>2
<1>4. store'[nextId] = entry /\ \A id \in Ids \ {nextId} : store'[id] = store[id]
  BY <1>1 DEF Mint, Inv, TypeOK
<1>6. seeds' = seeds \cup {nextId} /\ over' = over /\ seeds' \subseteq Ids
  BY <1>1 DEF Mint, Inv, TypeOK
<1>7. ASSUME NEW i, i = nextId PROVE Kept(i, store[i])'
  <2>1. store'[i] = entry
    BY <1>4, <1>7
  <2> HIDE DEF entry
  <2> QED BY <1>1, <1>2, <1>3, <1>6, <1>7, <2>1, Constants DEF Kept, Sound, Ids
<1>8. IdsAreMinted'
  BY <1>1, <1>6, Constants DEF IdsAreMinted, Inv, TypeOK, Ids
<1>9. PreauthIdIsSpent'
  <2>1. nextId \notin over
    BY <1>1 DEF IdsAreMinted, Inv, Ids
  <2>2. \A id \in seeds' \cap over' : id \in seeds \cap over /\ id \in Ids \ {nextId}
    BY <1>6, <2>1 DEF Inv, TypeOK
  <2> HIDE DEF entry
  <2> QED BY <1>4, <2>2 DEF PreauthIdIsSpent, Inv
<1>10. store' \in [Ids -> [rec : Record, exp : Nat] \cup {None}]
  BY <1>3 DEF Mint, Inv, TypeOK
<1>11. jar' \in [id : 0 .. MaxIds, exp : Nat]
  BY <1>1, Constants DEF Mint, Ids
<1>12. req' = [req EXCEPT ![s] = None]
       /\ UNCHANGED <<now, tokens, width, sent, lost, ended, outside>>
  BY DEF Mint, Finish, browser
<1>13. \A id \in Ids : id < nextId => (id \in seeds <=> id \in seeds')
  BY <1>1, <1>6 DEF Ids
<1>14. nextId' \in 1 .. MaxIds + 1 /\ nextId <= nextId'
  BY <1>1, Constants DEF Ids
<1> SUFFICES ASSUME NEW i, i = nextId PROVE Inv'
  OBVIOUS
<1> QED BY <1>4, <1>6, <1>7, <1>8, <1>9, <1>10, <1>11, <1>12, <1>13, <1>14, StoreStep
        DEF Inv, TypeOK

\* A handler stores its record, or what is left of it, under the id it came from.
LEMMA PutKeeps ==
  ASSUME Inv, NEW s \in Slot, req[s] # None, req[s].at \in {"keep", "save", "drop"},
         ~ req[s].rec.preauth, req[s].kind # "logoutAll",
         NEW rec, Sound(rec), ~ rec.preauth, rec.created = req[s].rec.created,
         store' = [store EXCEPT ![req[s].id] = Entry(rec)],
         req' = [req EXCEPT ![s] = None]
           \/ (req[s].at = "keep" /\ Goto(s, "save")),
         UNCHANGED <<now, nextId, jar, tokens, browser, lost, ended, outside, ids>>
  PROVE  Inv'
<1> DEFINE id == req[s].id
<1>1. /\ req[s] \in Request /\ Working(req[s]) /\ id \in Ids /\ id < nextId
      /\ now <= rec.created + Absolute + 1 /\ id \notin seeds
  BY AtFacts DEF Working
<1>2. /\ Entry(rec) \in [rec : Record, exp : Nat] /\ Entry(rec).rec = rec
      /\ Entry(rec).exp <= rec.created + Absolute + 2
  BY <1>1, EntryFacts
<1> SUFFICES ASSUME NEW i, i = id, NEW entry, entry = Entry(rec) PROVE Inv'
  OBVIOUS
<1>3. i \in Ids /\ store' = [store EXCEPT ![i] = entry]
  BY <1>1
<1>4. store' \in [Ids -> [rec : Record, exp : Nat] \cup {None}] /\ store'[i] = entry
  BY <1>2, <1>3 DEF Inv, TypeOK
<1>5. Kept(i, store[i])'
  BY <1>1, <1>2, <1>4 DEF Kept, Sound, Known, tokens, ids, outside
<1>6. IdsAreMinted' /\ PreauthIdIsSpent'
  BY <1>1, <1>3 DEF Inv, IdsAreMinted, PreauthIdIsSpent, ids, TypeOK
<1>7. /\ req' \in [Slot -> Request \cup {None}] /\ \A q \in Slot \ {s} : req'[q] = req[q]
      /\ req'[s] # None => Working(req[s])'
  <2>1. CASE req' = [req EXCEPT ![s] = None]
    BY <2>1 DEF Inv, TypeOK
  <2>2. CASE req[s].at = "keep" /\ Goto(s, "save")
    <3> SUFFICES ASSUME NEW r, r = [req[s] EXCEPT !.at = "save"]
                 PROVE  /\ req' \in [Slot -> Request \cup {None}]
                        /\ \A q \in Slot \ {s} : req'[q] = req[q]
                        /\ req'[s] # None => Working(req[s])'
      OBVIOUS
    <3>1. r \in Request /\ req' = [req EXCEPT ![s] = r]
      BY <1>1, <2>2 DEF Goto, Request, Steps
    <3>2. Working(r)
      BY <1>1, <2>2, <3>1 DEF Working, OnTheBusiness, Request
    <3>3. Working(req[s])'
      BY <3>1, <3>2 DEF Inv, TypeOK, Working, Sound, Known, tokens, ids, outside
    <3> QED BY <3>1, <3>3 DEF Inv, TypeOK
  <2> QED BY <2>1, <2>2
<1> QED BY <1>3, <1>4, <1>5, <1>6, <1>7, StoreStep, Constants DEF Inv, TypeOK, browser, ids, outside

\* A handler deletes what is behind the id it came from, and is done.
LEMMA DeleteKeeps ==
  ASSUME Inv, NEW s \in Slot, req[s] # None, req[s].at # "mint",
         store' = [store EXCEPT ![req[s].id] = None],
         req' = [req EXCEPT ![s] = None],
         jar' \in [id : 0 .. MaxIds, exp : Nat],
         over' \in {over, over \cup {req[s].id}},
         UNCHANGED <<now, nextId, tokens, browser, lost, ended, outside, seeds>>
  PROVE  Inv'
<1>1. req[s].id \in Ids /\ req[s].id < nextId
  BY AtFacts
<1> SUFFICES ASSUME NEW i, i = req[s].id PROVE Inv'
  OBVIOUS
<1>2. /\ store' \in [Ids -> [rec : Record, exp : Nat] \cup {None}]
      /\ store'[i] = None /\ \A id \in Ids \ {i} : store'[id] = store[id]
  BY <1>1 DEF Inv, TypeOK
<1>3. IdsAreMinted' /\ PreauthIdIsSpent' /\ over' \subseteq Ids
  BY <1>1, <1>2 DEF Inv, IdsAreMinted, PreauthIdIsSpent, TypeOK
<1> QED BY <1>2, <1>3, StoreStep, Constants DEF Inv, TypeOK, browser

LEMMA WritesKeep ==
  ASSUME Inv, NEW s \in Slot, Keep(s) \/ Save(s) \/ Drop(s)
  PROVE  Inv'
<1> DEFINE r == req[s]
<1>1. CASE Keep(s)
  <2>1. ~ r.rec.preauth /\ Sound(r.rec) /\ r.kind # "logoutAll"
    BY <1>1, AtFacts DEF Keep, At, Working
  <2> QED BY <1>1, <2>1, PutKeeps DEF Keep, At
<1>2. CASE Save(s)
  <2>1. /\ r # None /\ r.at = "save" /\ Sound(r.rec) /\ req' = [req EXCEPT ![s] = None]
        /\ r.kind # "logoutAll"
        /\ UNCHANGED <<now, nextId, jar, tokens, browser, lost, ended, outside, ids>>
    BY <1>2, AtFacts DEF Save, At, Finish, Working
  <2>2. CASE r.rec.preauth
    BY <1>2, <2>1, <2>2, RequestStep DEF Save, Inv, TypeOK, browser
  <2>3. CASE ~ r.rec.preauth /\ store' = [store EXCEPT ![r.id] = Entry(r.rec)]
    BY <2>1, <2>3, PutKeeps
  <2>4. CASE store' = [store EXCEPT ![r.id] = None]
    BY <2>1, <2>4, DeleteKeeps DEF Inv, TypeOK, ids, outside
  <2> QED BY <1>2, <2>2, <2>3, <2>4 DEF Save
<1>3. CASE Drop(s)
  <2> DEFINE left == Remaining(r)
  <2>1. /\ r # None /\ r.at = "drop" /\ Sound(r.rec) /\ r.rec \in Record
        /\ req' = [req EXCEPT ![s] = None]
        /\ UNCHANGED <<now, nextId, tokens, browser, lost, ended, outside, seeds>>
    BY <1>3, AtFacts DEF Drop, At, Finish
  <2>2. left \in {[r.rec EXCEPT !.business = None], [r.rec EXCEPT !.consumer = None],
                 [r.rec EXCEPT !.business = None, !.consumer = None]}
    BY DEF Remaining
  <2>3. /\ left.created = r.rec.created /\ left.preauth = r.rec.preauth
        /\ left.consumer \in {None, r.rec.consumer} /\ left.business \in {None, r.rec.business}
        /\ left \in Record
    BY <2>1, <2>2 DEF Record
  <2>4. Sound(left)
    <3> HIDE DEF left
    <3> QED BY <2>1, <2>3 DEF Sound
  <2> HIDE DEF left
  <2>5. CASE HasAnyAuthority(left)
    <3>1. ~ left.preauth /\ r.kind # "logoutAll"
      BY <2>1, <2>4, <2>5 DEF Sound, HasAnyAuthority, Remaining, left, Record
    <3>2. store' = [store EXCEPT ![r.id] = Entry(left)] /\ jar' = jar /\ over' = over
      BY <1>3, <2>5 DEF Drop, left
    <3> QED BY <2>1, <2>3, <2>4, <3>1, <3>2, PutKeeps DEF ids, outside
  <2>6. CASE ~ HasAnyAuthority(left)
    <3>1. store' = [store EXCEPT ![r.id] = None] /\ jar' = NoCookie /\ over' = over \cup {r.id}
      BY <1>3, <2>6 DEF Drop, left
    <3>2. jar' \in [id : 0 .. MaxIds, exp : Nat]
      BY <3>1, Constants DEF NoCookie
    <3> QED BY <2>1, <3>1, <3>2, DeleteKeeps
  <2> QED BY <2>5, <2>6
<1> QED BY <1>1, <1>2, <1>3

LEMMA RotateKeeps ==
  ASSUME Inv, NEW s \in Slot, Rotate(s)
  PROVE  Inv'
<1> DEFINE rec == req[s].rec
<1>1. /\ req[s] # None /\ req[s].at = "rotate" /\ req[s] \in Request /\ Working(req[s])
      /\ Sound(rec) /\ ~ rec.preauth /\ now <= rec.created + Absolute + 1
      /\ req[s].kind # "logoutAll" /\ req[s].id < nextId /\ req[s].id \in Ids
  BY AtFacts DEF Rotate, At, Working
<1>2. /\ Entry(rec) \in [rec : Record, exp : Nat] /\ Entry(rec).rec = rec
      /\ Entry(rec).exp <= rec.created + Absolute + 2
  BY <1>1, EntryFacts
<1>3. nextId \in Ids /\ nextId' = nextId + 1 /\ nextId \notin seeds \cup over
  BY Constants DEF Rotate, Ids, Inv, TypeOK, IdsAreMinted
<1>4. UNCHANGED <<now, jar, tokens, browser, lost, ended, outside, ids>>
  BY DEF Rotate
<1> SUFFICES ASSUME NEW i, i = nextId, NEW entry, entry = Entry(rec),
                    NEW r, r = [req[s] EXCEPT !.fresh = i, !.at = "retire"]
             PROVE  Inv'
  OBVIOUS
<1>5. store' = [store EXCEPT ![i] = entry] /\ req' = [req EXCEPT ![s] = r]
  BY DEF Rotate
<1>6. /\ store' \in [Ids -> [rec : Record, exp : Nat] \cup {None}]
      /\ store'[i] = entry /\ \A id \in Ids \ {i} : store'[id] = store[id]
  BY <1>2, <1>3, <1>5 DEF Inv, TypeOK
<1>7. nextId' \in 1 .. MaxIds + 1 /\ nextId <= nextId' /\ i < nextId'
  BY <1>3, Constants DEF Ids
<1>8. Kept(i, store[i])'
  BY <1>1, <1>2, <1>3, <1>4, <1>6, <1>7 DEF Kept, Sound, Known, tokens, ids, outside
<1>9. r \in Request
  <2>1. i \in 0 .. MaxIds
    BY <1>3, Constants DEF Ids
  <2> HIDE DEF rec
  <2> QED BY <1>1, <2>1 DEF Request, Steps
<1>10. /\ r.at = "retire" /\ r.rec = rec /\ r.id = req[s].id /\ r.start = req[s].start
       /\ r.mine = req[s].mine /\ r.kind = req[s].kind
  BY <1>1 DEF Request
<1>11. r.id < nextId'
  BY <1>1, <1>3, <1>10, Constants DEF Ids
<1>12. \A x : Sound(x) => Sound(x)'
  <2>1. now' = now /\ rows' = rows
    BY <1>4 DEF tokens
  <2> QED BY <2>1 DEF Sound, Known
<1>13. Sound(r.rec) /\ r.start <= now /\ r.kind # "logoutAll" /\ now <= r.start + 1
       /\ r.start <= r.rec.created + Absolute /\ (\A t \in r.mine : Known(t))
  BY <1>1, <1>10 DEF Working
<1>14. Working(r)'
  BY <1>1, <1>3, <1>4, <1>9, <1>10, <1>11, <1>12, <1>13 DEF Working, OnTheBusiness, Known, tokens, ids, outside
<1>15. Working(req[s])'
  BY <1>5, <1>14 DEF Inv, TypeOK, Working
<1>16. IdsAreMinted' /\ PreauthIdIsSpent'
  <2>1. IdsAreMinted'
    BY <1>3, <1>4, Constants DEF IdsAreMinted, Inv, TypeOK, Ids, ids, outside
  <2>2. PreauthIdIsSpent'
    BY <1>3, <1>4, <1>6 DEF PreauthIdIsSpent, Inv, TypeOK, ids, outside
  <2> QED BY <2>1, <2>2
<1> QED BY <1>4, <1>5, <1>6, <1>7, <1>8, <1>9, <1>15, <1>16, StoreStep
        DEF Inv, TypeOK, browser, ids, outside

LEMMA RetireKeeps ==
  ASSUME Inv, NEW s \in Slot, Retire(s)
  PROVE  Inv'
<1>1. /\ req[s] # None /\ req[s].at = "retire" /\ req[s] \in Request
      /\ Entry(req[s].rec) \in [rec : Record, exp : Nat]
  BY AtFacts, EntryFacts DEF Retire, At, Working
<1>2. jar' \in [id : 0 .. MaxIds, exp : Nat]
  BY <1>1 DEF Retire, Request
<1> QED BY <1>1, <1>2, DeleteKeeps DEF Retire, Finish

LEMMA TickKeeps ==
  ASSUME Inv, Tick
  PROVE  Inv'
<1>1. /\ now \in Nat /\ now \in Time /\ now' \in Time /\ now' = now + 1
      /\ UNCHANGED <<store, nextId, jar, rows, nextToken, req, width, sent, lost, ended, seeds, outside, over>>
  BY Constants DEF Tick, Inv, TypeOK, Time, tokens, browser, ids, outside
<1>2. TypeOK' /\ SweepIsKnown'
  BY <1>1 DEF Inv, TypeOK, SweepIsKnown, Known, Time, outside
<1>3. ASSUME NEW rec, Sound(rec) PROVE Sound(rec)'
  BY <1>1, <1>3, SoundStays DEF Known
<1>4. ASSUME NEW id \in Ids, store'[id] # None PROVE Kept(id, store[id])'
  <2>1. Kept(id, store[id])
    BY <1>1, <1>4 DEF Inv
  <2>2. Sound(store[id].rec)'
    BY <1>1, <1>3, <2>1 DEF Kept
  <2> QED BY <1>1, <2>1, <2>2 DEF Kept
<1>5. ASSUME NEW s \in Slot, req'[s] # None PROVE Working(req[s])'
  <2>1. Working(req[s]) /\ (req[s].start = now \/ req[s].kind = "logoutAll")
        /\ req[s].start \in Nat
    BY <1>1, <1>5, Constants DEF Inv, Tick, Busy, Working, Request, Time
  <2>2. CASE req[s].at = "mint"
    BY <1>1, <2>1, <2>2 DEF Working
  <2>3. CASE req[s].at # "mint"
    <3>1. Sound(req[s].rec)'
      BY <1>1, <1>3, <2>1, <2>3 DEF Working
    <3> QED BY <1>1, <2>1, <2>3, <3>1 DEF Working, Known
  <2> QED BY <2>2, <2>3
<1>6. IdsAreMinted' /\ PreauthIdIsSpent'
  BY <1>1 DEF Inv, IdsAreMinted, PreauthIdIsSpent
<1> QED BY <1>2, <1>4, <1>5, <1>6 DEF Inv

-----------------------------------------------------------------------------
(* The theorems.                                                            *)

LEMMA InitInv == Init => Inv
<1> SUFFICES ASSUME Init PROVE Inv
  OBVIOUS
<1>1. TypeOK
  BY Constants DEF Init, TypeOK, Time, NoCookie, Ids, Tokens
<1> QED BY <1>1 DEF Init, Inv, IdsAreMinted, SweepIsKnown, PreauthIdIsSpent

LEMMA NextInv == Inv /\ [Next]_vars => Inv'
<1> SUFFICES ASSUME Inv, [Next]_vars PROVE Inv'
  OBVIOUS
<1>1. CASE Tick
  BY <1>1, TickKeeps
<1>2. ASSUME NEW s \in Slot, Step(s) PROVE Inv'
  <2>1. ASSUME NEW kind \in Kinds, Send(s, kind) \/ SendWithoutSession(s, kind) PROVE Inv'
    BY <2>1, SendKeeps, SendWithoutSessionKeeps
  <2>2. CASE Mint(s)
    BY <2>2, MintKeeps
  <2>3. CASE \/ Unreachable(s) \/ Call(s) \/ BusinessCall(s)
             \/ RenewLocks(s) \/ RenewFails(s) \/ EndFails(s) \/ EndConsumer(s)
    BY <2>3, CallsKeep
  <2>4. CASE SignInConsumer(s) \/ SignInBusiness(s) \/ SignInLost(s)
    BY <2>4, SignInsKeep, SignInLostKeeps
  <2>5. CASE RenewRefused(s)
    BY <2>5, RefusedKeeps
  <2>6. CASE RenewReused(s) \/ RenewDenied(s) \/ EndBegins(s)
    BY <2>6, RevokingKeeps
  <2>7. ASSUME NEW arrives \in BOOLEAN, RenewCommits(s, arrives) PROVE Inv'
    BY <2>7, RenewCommitsKeeps
  <2>8. CASE \/ \E arrives \in BOOLEAN : RefusalEnds(s, arrives)
             \/ SignOutEnds(s) \/ SignOutLost(s)
    BY <2>8, RevokeEndsKeeps
  <2>9. CASE Keep(s) \/ Save(s) \/ Drop(s)
    BY <2>9, WritesKeep
  <2>10. CASE Rotate(s)
    BY <2>10, RotateKeeps
  <2>11. CASE Retire(s)
    BY <2>11, RetireKeeps
  <2> QED BY <1>2, <2>1, <2>2, <2>3, <2>4, <2>5, <2>6, <2>7, <2>8, <2>9, <2>10, <2>11 DEF Step
<1>3. CASE UNCHANGED vars
  <2>1. /\ UNCHANGED <<now, store, nextId, jar, rows, nextToken, req, width, sent, lost, ended>>
        /\ UNCHANGED <<seeds, outside, over>>
    BY <1>3 DEF vars, outside
  <2>2. TypeOK' /\ IdsAreMinted' /\ SweepIsKnown' /\ PreauthIdIsSpent'
    BY <2>1 DEF Inv, TypeOK, IdsAreMinted, SweepIsKnown, Known, PreauthIdIsSpent, outside
  <2>3. \A rec : Sound(rec) => Sound(rec)'
    BY <2>1 DEF Sound, Known
  <2>4. ASSUME NEW id \in Ids, store'[id] # None PROVE Kept(id, store[id])'
    BY <2>1, <2>3, <2>4 DEF Inv, Kept
  <2>5. ASSUME NEW s \in Slot, req'[s] # None PROVE Working(req[s])'
    BY <2>1, <2>3, <2>5 DEF Inv, Working, Known
  <2> QED BY <2>2, <2>4, <2>5 DEF Inv
<1>4. CASE Outside
  BY <1>4, OutsideKeeps
<1> QED BY <1>1, <1>2, <1>3, <1>4 DEF Next

THEOREM Invariant == Spec => []Inv
BY InitInv, NextInv, PTL DEF Spec

\* Every record, row, cookie and request keeps its type.
THEOREM TypeCorrect == Spec => []TypeOK
<1>1. Inv => TypeOK
  BY DEF Inv
<1> QED BY <1>1, Invariant, PTL

\* However the requests of a browser interleave, no authority is stored past the
\* absolute lifetime of the sign-in that obtained it: what remainingTtlMs bounds is
\* what the store keeps, through every refresh, slide and rotation.
THEOREM Lifetime == Spec => []LifetimeIsAbsolute
<1>1. Inv => LifetimeIsAbsolute
  <2> SUFFICES ASSUME Inv, NEW id \in Ids, store[id] # None,
                      NEW a \in Authorities(store[id].rec)
               PROVE  store[id].exp <= a.since + Absolute + 2
    BY DEF LifetimeIsAbsolute
  <2> DEFINE rec == store[id].rec
  <2>1. Sound(rec) /\ store[id].exp <= rec.created + Absolute + 2 /\ store[id].exp \in Nat
    BY DEF Inv, Kept
  <2>2. rec \in Record /\ rec.created \in Nat
    BY <2>1, Constants DEF Sound, Record, Time
  <2>3. a \in {rec.consumer, rec.business} /\ a # None
    BY DEF Authorities
  <2>4. rec.created <= a.since /\ a.since \in Nat
    BY <2>1, <2>2, <2>3, Constants DEF Sound, Record, Consumer, Business, Time
  <2> QED BY <2>1, <2>2, <2>4, Constants
<1> QED BY <1>1, Invariant, PTL

\* The id a browser had before it signed in is worth nothing afterwards, however
\* many handlers were at work on its record when createSession retired it.
THEOREM PreauthSpent == Spec => []PreauthIdIsSpent
<1>1. Inv => PreauthIdIsSpent
  BY DEF Inv
<1> QED BY <1>1, Invariant, PTL

-----------------------------------------------------------------------------
(* The rows of the gateway, however requests overlap.                        *)

\* Refresh tokens and the families they belong to were issued before the next.
Dated ==
  /\ \A t \in Issued : t < nextToken /\ Family(t) < nextToken
  /\ \A f \in ended \cup barred \cup lost : f < nextToken

SweepIsOfBarred == \A t \in sweep : Family(t) \in barred

\* A renewal that has locked its row has it alone, and the row is not spent.
OneHolder ==
  /\ \A s \in Slot : At(s, "renewing") => ~ rows[Presented(s)].rotated
  /\ \A s, q \in Slot :
       At(s, "renewing") /\ At(q, "renewing") /\ Presented(s) = Presented(q) => s = q

Gateway == Dated /\ SweepIsOfBarred /\ OneHolder /\ OneTokenPerSignIn

LEMMA NoneIsNothing ==
  /\ None \notin Kinds /\ None \notin Consumer /\ None \notin Business
  /\ None \notin Record /\ None \notin Row /\ None \notin [rec : Record, exp : Nat]
  /\ None \notin Request
BY NoneAssumption

LEMMA NumbersFacts ==
  ASSUME Inv
  PROVE  /\ nextToken \in Nat /\ \A t \in Tokens : t \in Nat
         /\ \A t \in Issued : t \in Tokens /\ rows[t] \in Row /\ Family(t) \in Tokens
         /\ \A t \in Tokens : Known(t) <=> t \in Issued
BY Constants, NoneIsNothing DEF Inv, TypeOK, Tokens, Issued, Family, Row, Known

\* Of the requests only s changes, and it does not lock a row.
Quiet(s) ==
  /\ \A q \in Slot \ {s} : req'[q] = req[q]
  /\ req'[s] # None => req'[s].at # "renewing"

LEMMA QuietHolds ==
  ASSUME Gateway, NEW s \in Slot, Quiet(s),
         \A t \in Tokens : t \in {Presented(q) : q \in {p \in Slot \ {s} : At(p, "renewing")}}
                             => (rows'[t].rotated => rows[t].rotated),
         \A q \in Slot \ {s} : At(q, "renewing") => Presented(q) \in Tokens
  PROVE  OneHolder'
<1>1. \A q \in Slot : At(q, "renewing")' =>
        q # s /\ At(q, "renewing") /\ Presented(q)' = Presented(q)
  BY DEF Quiet, At, Presented
<1> QED BY <1>1 DEF Gateway, OneHolder

\* What a renewing handler presents is issued.
LEMMA HoldersFacts ==
  ASSUME Inv, NEW q \in Slot, At(q, "renewing")
  PROVE  Presented(q) \in Tokens /\ Presented(q) \in Issued
<1>1. req[q] # None /\ req[q].at = "renewing"
  BY DEF At
<1>2. req[q].rec.business # None
  BY <1>1, AtFacts DEF Working, OnTheBusiness
<1> QED BY <1>1, <1>2, PresentedFacts, NoneIsNothing DEF Issued

\* A step that leaves the rows alone.
LEMMA QuietGateway ==
  ASSUME Inv, Gateway, NEW s \in Slot, Quiet(s),
         UNCHANGED <<rows, nextToken, ended, lost, outside>>
  PROVE  Gateway'
<1> USE DEF outside
<1>1. OneHolder'
  BY QuietHolds, HoldersFacts
<1>2. Dated' /\ SweepIsOfBarred' /\ OneTokenPerSignIn'
  BY DEF Gateway, Dated, SweepIsOfBarred, OneTokenPerSignIn, Issued, Family
<1> QED BY <1>1, <1>2 DEF Gateway

\* A row is inserted, every other row of its family being spent.
LEMMA IssueGateway ==
  ASSUME Inv, Gateway, NEW s \in Slot, Quiet(s),
         NEW table \in [Tokens -> Row \cup {None}],
         \A t \in Tokens : rows[t] = None => table[t] = None,
         \A t \in Issued : /\ table[t].family = rows[t].family
                           /\ rows[t].rotated => table[t].rotated,
         \A q \in Slot \ {s} : At(q, "renewing") =>
           table[Presented(q)].rotated = rows[Presented(q)].rotated,
         NEW family \in Tokens, family <= nextToken,
         \A t \in Issued : Family(t) = family => table[t].rotated,
         nextToken \in Tokens, Issue(table, family),
         lost' \subseteq lost \cup {family}, UNCHANGED <<ended, outside>>
  PROVE  Gateway'
<1> SUFFICES ASSUME NEW n, n = nextToken,
                    NEW row, row = [family |-> family, rotated |-> FALSE, revoked |-> FALSE]
             PROVE  Gateway'
  OBVIOUS
<1>1. /\ nextToken' = n + 1 /\ rows'[n] = row /\ row # None
      /\ \A t \in Tokens \ {n} : rows'[t] = table[t]
  <2>1. row \in Row
    BY DEF Row
  <2>2. rows' = [table EXCEPT ![n] = row] /\ nextToken' = n + 1
    BY DEF Issue
  <2> QED BY <2>1, <2>2, NoneIsNothing
<1>2. /\ n \in Nat /\ \A t \in Tokens : t \in Nat
      /\ \A t \in Issued : t \in Tokens /\ Family(t) \in Tokens /\ t < n /\ Family(t) < n
      /\ \A f \in ended \cup barred \cup lost : f \in Nat /\ f < n
  BY NumbersFacts DEF Gateway, Dated, Inv, TypeOK
<1>3. \A t \in Issued : t # n
  BY <1>2
<1>4. \A t \in Issued' : t = n \/ (t \in Issued /\ t # n)
  BY <1>1, <1>3 DEF Issued
<1>5. \A t \in Issued : rows'[t] = table[t] /\ Family(t)' = Family(t)
  BY <1>1, <1>2, <1>3 DEF Family
<1>6. Family(n)' = family /\ ~ rows'[n].rotated
  BY <1>1 DEF Family
<1>7. Dated'
  <2>1. \A m \in Nat : m < n => m < n + 1
    BY <1>2
  <2>2. ASSUME NEW t \in Issued' PROVE t < nextToken' /\ Family(t)' < nextToken'
    <3>1. CASE t = n
      <4>1. t < n + 1 /\ family < n + 1 /\ family \in Nat
        BY <1>2, <3>1
      <4>2. rows'[t].family = family
        BY <1>6, <3>1 DEF Family
      <4> QED BY <1>1, <4>1, <4>2 DEF Family
    <3>2. CASE t # n
      <4>1. t \in Issued /\ t \in Nat /\ Family(t) \in Nat /\ Family(t)' = Family(t)
        BY <1>2, <1>4, <1>5, <2>2, <3>2
      <4> HIDE DEF Family
      <4> QED BY <1>1, <1>2, <2>1, <4>1
    <3> QED BY <3>1, <3>2
  <2>3. ASSUME NEW f \in (ended \cup barred \cup lost)' PROVE f < nextToken'
    <3>1. CASE f \in ended \cup barred \cup lost
      BY <1>1, <1>2, <2>1, <3>1
    <3>2. CASE f \notin ended \cup barred \cup lost
      <4>1. f = family
        BY <2>3, <3>2 DEF outside
      <4> QED BY <1>1, <1>2, <4>1
    <3> QED BY <3>1, <3>2
  <2> QED BY <2>2, <2>3 DEF Dated
<1>8. SweepIsOfBarred'
  <2>1. \A t \in sweep : t \in Issued
    BY NumbersFacts DEF Inv, TypeOK, SweepIsKnown
  <2> QED BY <1>5, <2>1 DEF Gateway, SweepIsOfBarred, outside
<1>9. OneTokenPerSignIn'
  <2> SUFFICES ASSUME NEW t \in Issued', NEW u \in Issued',
                      Family(t)' = Family(u)', ~ rows'[t].rotated, ~ rows'[u].rotated
               PROVE  t = u
    BY DEF OneTokenPerSignIn
  <2>1. CASE t # n /\ u # n
    <3>1. t \in Issued /\ u \in Issued /\ Family(t) = Family(u)
          /\ ~ rows[t].rotated /\ ~ rows[u].rotated
      BY <1>4, <1>5, <2>1
    <3> QED BY <3>1 DEF Gateway, OneTokenPerSignIn
  <2>2. CASE t # n /\ u = n
    BY <1>4, <1>5, <1>6, <2>2
  <2>3. CASE t = n /\ u # n
    BY <1>4, <1>5, <1>6, <2>3
  <2> QED BY <2>1, <2>2, <2>3
<1>10. OneHolder'
  <2>1. \A q \in Slot \ {s} : At(q, "renewing") =>
          Presented(q) \in Tokens /\ rows'[Presented(q)].rotated = rows[Presented(q)].rotated
    BY <1>5, HoldersFacts
  <2> QED BY <2>1, QuietHolds
<1> QED BY <1>7, <1>8, <1>9, <1>10 DEF Gateway

\* What revoking changes: no more than what is revoked.
LEMMA RevokedRows ==
  ASSUME Inv, NEW seen, seen \subseteq Issued, Revoke(seen)
  PROVE  /\ Issued' = Issued /\ nextToken' = nextToken
         /\ \A t \in Issued : /\ rows'[t].family = rows[t].family
                              /\ rows'[t].rotated = rows[t].rotated
                              /\ rows'[t].revoked = (rows[t].revoked \/ t \in seen)
<1>1. /\ rows' = [t \in Tokens |-> IF t \in seen THEN [rows[t] EXCEPT !.revoked = TRUE]
                                              ELSE rows[t]]
      /\ nextToken' = nextToken
  BY DEF Revoke
<1>2. \A t \in Issued : rows[t] \in Row /\ t \in Tokens
  BY NumbersFacts
<1>3. \A t \in Issued : [rows[t] EXCEPT !.revoked = TRUE] \in Row
  BY <1>2 DEF Row
<1>4. Issued' = Issued
  BY <1>1, <1>2, <1>3, NoneIsNothing DEF Issued
<1>5. ASSUME NEW t \in Issued
      PROVE  /\ rows'[t].family = rows[t].family
             /\ rows'[t].rotated = rows[t].rotated
             /\ rows'[t].revoked = (rows[t].revoked \/ t \in seen)
  <2>1. CASE t \in seen
    BY <1>1, <1>2, <2>1 DEF Row
  <2>2. CASE t \notin seen
    BY <1>1, <1>2, <2>2 DEF Row
  <2> QED BY <2>1, <2>2
<1> QED BY <1>1, <1>4, <1>5

\* Rows are revoked.
LEMMA RevokeGateway ==
  ASSUME Inv, Gateway, NEW s \in Slot, Quiet(s),
         NEW seen, seen \subseteq Issued, Revoke(seen),
         NEW p \in Issued, lost' \subseteq lost \cup {Family(p)},
         ended' \subseteq ended \cup {Family(p)}, UNCHANGED outside
  PROVE  Gateway'
<1>1. /\ Issued' = Issued /\ nextToken' = nextToken
      /\ \A t \in Issued : Family(t)' = Family(t) /\ rows'[t].rotated = rows[t].rotated
  BY RevokedRows DEF Family
<1>2. Dated' /\ OneTokenPerSignIn'
  BY <1>1 DEF Gateway, Dated, OneTokenPerSignIn, outside
<1>3. SweepIsOfBarred'
  <2>1. \A t \in sweep : t \in Issued
    BY NumbersFacts DEF Inv, TypeOK, SweepIsKnown
  <2> QED BY <1>1, <2>1 DEF Gateway, SweepIsOfBarred, outside
<1>4. OneHolder'
  BY <1>1, HoldersFacts, QuietHolds
<1> QED BY <1>2, <1>3, <1>4 DEF Gateway

\* The request a handler has in hand and the one it leaves.
LEMMA QuietSteps ==
  ASSUME Inv, NEW s \in Slot, Step(s), ~ RenewLocks(s)
  PROVE  Quiet(s)
<1>1. \A q \in Slot \ {s} : req'[q] = req[q]
  BY DEF Step, Send, SendWithoutSession, Mint, Unreachable, Call, BusinessCall,
         SignInConsumer, SignInBusiness, SignInLost, RenewRefused, RenewReused, RenewDenied,
         RenewLocks, RenewFails, RenewCommits, RefusalEnds, EndBegins, SignOutEnds,
         SignOutLost, EndFails, EndConsumer, Keep, Save, Drop, Rotate, Retire,
         Goto, Finish, WithoutBusiness, Inv, TypeOK
<1>2. ASSUME req'[s] # None PROVE req'[s].at # "renewing"
  <2>0. req \in [Slot -> Request \cup {None}]
    BY DEF Inv, TypeOK
  <2>1. ASSUME NEW kind \in Kinds, Send(s, kind) \/ SendWithoutSession(s, kind)
        PROVE  req'[s].at # "renewing"
    BY <1>2, <2>0, <2>1 DEF Send, SendWithoutSession, FirstStep
  <2>2. CASE Mint(s) \/ Unreachable(s) \/ SignInLost(s) \/ SignOutLost(s) \/ Save(s)
             \/ Drop(s) \/ Retire(s)
    BY <1>2, <2>0, <2>2
       DEF Mint, Unreachable, SignInLost, SignOutLost, Save, Drop, Retire, Finish
  <2>3. CASE Call(s) \/ BusinessCall(s) \/ RenewFails(s) \/ SignOutEnds(s) \/ EndFails(s)
             \/ EndConsumer(s) \/ Keep(s)
    <3>1. req[s] \in Request
      BY <2>0, <2>3 DEF Call, BusinessCall, RenewFails, Locking, SignOutEnds, Revokes,
                        EndFails, EndConsumer, Keep, At
    <3> QED BY <2>0, <2>3, <3>1 DEF Call, BusinessCall, RenewFails, SignOutEnds, EndFails,
                              EndConsumer, Keep, Goto, Request
  <2>4. CASE SignInConsumer(s) \/ SignInBusiness(s) \/ RenewRefused(s) \/ RenewReused(s)
             \/ RenewDenied(s) \/ EndBegins(s) \/ Rotate(s)
    <3>1. req[s] \in Request
      BY <2>0, <2>4 DEF SignInConsumer, SignInBusiness, RenewRefused, RenewReused,
                        RenewDenied, EndBegins, Rotate, At
    <3> QED BY <2>0, <2>4, <3>1 DEF SignInConsumer, SignInBusiness, RenewRefused, RenewReused,
                        RenewDenied, EndBegins, Rotate, WithoutBusiness, Request
  <2>5. ASSUME NEW arrives \in BOOLEAN, RenewCommits(s, arrives) \/ RefusalEnds(s, arrives)
        PROVE  req'[s].at # "renewing"
    <3>1. req[s] \in Request
      BY <2>0, <2>5 DEF RenewCommits, RefusalEnds, Revokes, At
    <3> QED BY <2>0, <2>5, <3>1 DEF RenewCommits, RefusalEnds, WithoutBusiness, Goto, Request
  <2> QED BY <2>1, <2>2, <2>3, <2>4, <2>5 DEF Step
<1> QED BY <1>1, <1>2 DEF Quiet

\* What a renewal or a sign-out presents, and the rows its UPDATE sees.
LEMMA RevokingFacts ==
  ASSUME Inv, NEW s \in Slot, Revokes(s)
  PROVE  Presented(s) \in Issued /\ req[s].mine \subseteq Issued /\ Revoke(req[s].mine)
<1>1. /\ req[s] # None /\ req[s].at = "revoking" /\ req[s] \in Request /\ Working(req[s])
      /\ req[s].rec.business # None
  BY AtFacts DEF Revokes, At, Working, OnTheBusiness
<1>2. Presented(s) \in Issued
  BY <1>1, PresentedFacts, NoneIsNothing DEF Issued
<1>3. req[s].mine \subseteq Issued
  BY <1>1, NumbersFacts DEF Working, Request
<1> QED BY <1>2, <1>3 DEF Revokes

LEMMA LocksGateway ==
  ASSUME Inv, Gateway, NEW s \in Slot, RenewLocks(s)
  PROVE  Gateway'
<1>1. /\ req[s] # None /\ req[s] \in Request /\ req' = [req EXCEPT ![s].at = "renewing"]
      /\ UNCHANGED <<rows, nextToken, ended, lost, outside>>
      /\ ~ rows[Presented(s)].rotated /\ Presented(s) \notin Locked(s)
  BY AtFacts DEF RenewLocks, Goto, At, tokens
<1>2. \A q \in Slot : Presented(q)' = Presented(q)
  BY <1>1 DEF Presented, Inv, TypeOK, Request
<1>3. \A q \in Slot \ {s} : At(q, "renewing")' => At(q, "renewing")
  BY <1>1 DEF At, Inv, TypeOK
<1>4. \A q \in Slot \ {s} : At(q, "renewing") => Presented(q) # Presented(s)
  BY <1>1 DEF Locked, LockedIn, Locking
<1>5. OneHolder'
  BY <1>1, <1>2, <1>3, <1>4 DEF Gateway, OneHolder
<1>6. Dated' /\ SweepIsOfBarred' /\ OneTokenPerSignIn'
  BY <1>1 DEF Gateway, Dated, SweepIsOfBarred, OneTokenPerSignIn, Issued, Family, outside
<1> QED BY <1>5, <1>6 DEF Gateway

\* A renewal spends the one token its family has, and issues the next.
LEMMA CommitsGateway ==
  ASSUME Inv, Gateway, NEW s \in Slot, NEW arrives \in BOOLEAN, RenewCommits(s, arrives)
  PROVE  Gateway'
<1> DEFINE t == Presented(s)
           table == [rows EXCEPT ![t].rotated = TRUE]
<1>1. At(s, "renewing") /\ t \in Issued /\ t \in Tokens /\ rows[t] \in Row
  BY HoldersFacts, NumbersFacts DEF RenewCommits
<1>2. ~ rows[t].rotated
  BY <1>1 DEF Gateway, OneHolder
<1>3. \A u \in Issued : Family(u) = Family(t) /\ ~ rows[u].rotated => u = t
  BY <1>1, <1>2 DEF Gateway, OneTokenPerSignIn
<1>4. [rows[t] EXCEPT !.rotated = TRUE] \in Row
      /\ [rows[t] EXCEPT !.rotated = TRUE].family = rows[t].family
      /\ [rows[t] EXCEPT !.rotated = TRUE].rotated
  BY <1>1 DEF Row
<1>5. /\ table \in [Tokens -> Row \cup {None}]
      /\ table[t] = [rows[t] EXCEPT !.rotated = TRUE]
      /\ \A u \in Tokens \ {t} : table[u] = rows[u]
  BY <1>1, <1>4 DEF Inv, TypeOK
<1>6. rows[t] # None
  BY <1>1 DEF Issued
<1>7. Issue(table, Family(t)) /\ nextToken \in Tokens
      /\ lost' \subseteq lost \cup {Family(t)} /\ UNCHANGED <<ended, outside>>
  BY Constants DEF RenewCommits, Loses, Inv, TypeOK, Tokens
<1>8. Family(t) \in Tokens /\ Family(t) <= nextToken
  BY <1>1, NumbersFacts, Constants DEF Gateway, Dated, Tokens
<1>9. Quiet(s)
  <2>1. ~ RenewLocks(s)
    BY DEF RenewCommits, RenewLocks, At
  <2> QED BY <2>1, QuietSteps DEF Step
<1>10. \A q \in Slot \ {s} : At(q, "renewing") => Presented(q) # t /\ Presented(q) \in Tokens
  BY <1>1, HoldersFacts DEF Gateway, OneHolder
<1> HIDE DEF table, t
<1>11. \A u \in Issued : /\ table[u].family = rows[u].family
                         /\ rows[u].rotated => table[u].rotated
  BY <1>4, <1>5, NumbersFacts
<1>12. \A u \in Issued : Family(u) = Family(t) => table[u].rotated
  BY <1>3, <1>4, <1>5, NumbersFacts
<1>13. \A u \in Tokens : rows[u] = None => table[u] = None
  BY <1>5, <1>6
<1>14. \A q \in Slot \ {s} : At(q, "renewing") =>
         table[Presented(q)].rotated = rows[Presented(q)].rotated
  BY <1>5, <1>10
<1> QED BY <1>5, <1>7, <1>8, <1>9, <1>11, <1>12, <1>13, <1>14, IssueGateway

\* A sign-in opens a family of its own.
LEMMA OpensGateway ==
  ASSUME Inv, Gateway, NEW s \in Slot, SignInBusiness(s) \/ SignInLost(s)
  PROVE  Gateway'
<1>1. /\ nextToken \in Tokens /\ Issue(rows, nextToken) /\ nextToken \in Nat
      /\ UNCHANGED <<lost, ended, outside>>
  BY Constants DEF SignInBusiness, SignInLost, Inv, TypeOK, Tokens
<1>2. Quiet(s)
  <2>1. ~ RenewLocks(s)
    BY DEF SignInBusiness, SignInLost, RenewLocks, At
  <2> QED BY <2>1, QuietSteps DEF Step
<1>3. \A t \in Issued : Family(t) # nextToken
  BY <1>1, NumbersFacts DEF Gateway, Dated
<1>4. rows \in [Tokens -> Row \cup {None}] /\ nextToken <= nextToken
  BY <1>1 DEF Inv, TypeOK
<1> QED BY <1>1, <1>2, <1>3, <1>4, IssueGateway

LEMMA OutsideGateway ==
  ASSUME Inv, Gateway, Outside
  PROVE  Gateway'
<1>1. UNCHANGED <<req, lost, ended>>
  BY DEF Outside, Bar, SweepBegins, SweepEnds, SweepFails
<1>2. /\ Issued' = Issued /\ nextToken' = nextToken
      /\ \A t \in Issued : Family(t)' = Family(t) /\ rows'[t].rotated = rows[t].rotated
  <2>1. CASE UNCHANGED tokens
    BY <2>1 DEF tokens, Issued, Family
  <2>2. CASE SweepEnds
    <3>1. sweep \subseteq Issued
      BY NumbersFacts DEF Inv, TypeOK, SweepIsKnown
    <3> QED BY <2>2, <3>1, RevokedRows DEF SweepEnds, Family
  <2> QED BY <2>1, <2>2 DEF Outside, Bar, SweepBegins, SweepFails
<1>3. OneTokenPerSignIn'
  BY <1>2 DEF Gateway, OneTokenPerSignIn
<1>4. OneHolder'
  BY <1>1, <1>2, HoldersFacts DEF Gateway, OneHolder, At, Presented
<1>5. barred' = barred \/ \E f \in Issued : barred' = barred \cup {f}
  BY DEF Outside, Bar, SweepBegins, SweepEnds, SweepFails
<1>6. Dated'
  BY <1>1, <1>2, <1>5 DEF Gateway, Dated
<1>7. SweepIsOfBarred'
  <2>1. \/ sweep' = {}
        \/ sweep' = sweep /\ \A t \in sweep : t \in Issued
        \/ sweep' \subseteq {t \in Issued : Family(t) \in barred} /\ barred' = barred
    BY NumbersFacts DEF Outside, Bar, SweepBegins, SweepEnds, SweepFails, Inv, TypeOK, SweepIsKnown
  <2> QED BY <1>2, <1>5, <2>1 DEF Gateway, SweepIsOfBarred
<1> QED BY <1>3, <1>4, <1>6, <1>7 DEF Gateway

LEMMA NextGateway == Inv /\ Gateway /\ [Next]_vars => Gateway'
<1> SUFFICES ASSUME Inv, Gateway, [Next]_vars PROVE Gateway'
  OBVIOUS
<1>1. CASE Tick \/ UNCHANGED vars
  <2>1. UNCHANGED <<rows, nextToken, req, ended, lost, barred, sweep>>
    BY <1>1 DEF Tick, vars, tokens, outside
  <2> QED BY <2>1 DEF Gateway, Dated, SweepIsOfBarred, OneHolder, OneTokenPerSignIn,
                      Issued, Family, At, Presented
<1>2. CASE Outside
  BY <1>2, OutsideGateway
<1>3. ASSUME NEW s \in Slot, Step(s) PROVE Gateway'
  <2>1. CASE RenewLocks(s)
    BY <2>1, LocksGateway
  <2>2. ASSUME NEW arrives \in BOOLEAN, RenewCommits(s, arrives) PROVE Gateway'
    BY <2>2, CommitsGateway
  <2>3. CASE SignInBusiness(s) \/ SignInLost(s)
    BY <2>3, OpensGateway
  <2>4. CASE \/ \E arrives \in BOOLEAN : RefusalEnds(s, arrives)
             \/ SignOutEnds(s) \/ SignOutLost(s)
    <3>1. Quiet(s)
      <4>1. ~ RenewLocks(s)
        BY <2>4 DEF RefusalEnds, SignOutEnds, SignOutLost, Revokes, RenewLocks, At
      <4> QED BY <1>3, <4>1, QuietSteps
    <3>2. /\ Revokes(s) /\ UNCHANGED outside
          /\ lost' \subseteq lost \cup {Family(Presented(s))}
          /\ ended' \subseteq ended \cup {Family(Presented(s))}
      BY <2>4 DEF RefusalEnds, SignOutEnds, SignOutLost, Loses
    <3> QED BY <3>1, <3>2, RevokingFacts, RevokeGateway
  <2>5. CASE /\ ~ RenewLocks(s)
             /\ UNCHANGED <<rows, nextToken, ended, lost, outside>>
    BY <1>3, <2>5, QuietSteps, QuietGateway
  <2> QED BY <1>3, <2>1, <2>2, <2>3, <2>4, <2>5
          DEF Step, Send, SendWithoutSession, Mint, Unreachable, Call, BusinessCall,
              SignInConsumer, RenewRefused, RenewReused, RenewDenied, RenewLocks, RenewFails,
              EndBegins, EndFails, EndConsumer, Keep, Save, Drop, Rotate, Retire, tokens
<1> QED BY <1>1, <1>2, <1>3 DEF Next

LEMMA InitGateway == Init => Gateway
BY DEF Init, Gateway, Dated, SweepIsOfBarred, OneHolder, OneTokenPerSignIn, Issued, At

\* However many renewals race with one refresh token, FOR UPDATE lets one of them
\* spend it: a sign-in never has two refresh tokens that can be exchanged.
THEOREM OneToken == Spec => []OneTokenPerSignIn
<1>1. Gateway => OneTokenPerSignIn
  BY DEF Gateway
<1> QED BY <1>1, InitGateway, NextGateway, Invariant, PTL DEF Spec

-----------------------------------------------------------------------------
(* A browser that makes one request at a time.                              *)

Alone == \A s, q \in Slot : req[s] # None /\ req[q] # None => s = q

\* The refresh token of a record is of a sign-in no sign-out was answered for, and
\* is not spent unless an answer about it was lost.
Fresh(rec) ==
  rec.business # None =>
    /\ Family(rec.business.refresh) \notin ended
    /\ rows[rec.business.refresh].rotated => Family(rec.business.refresh) \in lost

\* The sides of a record, its sign-in being looked up in the rows given.
SidesIn(table, rec) ==
  <<rec.consumer # None,
    IF rec.business = None THEN None ELSE table[rec.business.refresh].family>>

\* The only request there is: it works for the session in the jar, and what it
\* read of the gateway or wrote to the store is still so.
Lone(r) ==
  /\ r.at = "mint" => r.rec = None
  /\ r.at # "mint" => r.id = jar.id
  /\ r.at \in {"renew", "renewing"} => r.kind = "businessCall"
  /\ r.at = "end" => r.kind = "logoutAll"
  /\ r.at = "revoking" =>
       /\ r.kind \in {"businessCall", "businessLogout", "logoutAll"}
       /\ r.mine = Siblings(r.rec.business.refresh)
  /\ r.at = "drop" => r.kind \in {"businessLogout", "consumerLogout", "logoutAll"}
  /\ r.at = "retire" =>
       r.fresh \in Ids /\ (store[r.fresh] # None => store[r.fresh].rec = r.rec)

\* The token it holds is good until it signs out of the business, a renewal ends a
\* sign-in with a reason, and the sides it holds are the stored ones.
Held(r) ==
  /\ r.at = "mint" \/ (r.at = "drop" /\ r.kind # "consumerLogout") \/ Fresh(r.rec)
  /\ r.at = "revoking" /\ r.kind = "businessCall" =>
       Family(r.rec.business.refresh) \in barred \cup lost
  /\ r.at \notin {"mint", "keep", "rotate", "retire"} /\ store[r.id] # None =>
       SidesIn(rows, store[r.id].rec) = SidesIn(rows, r.rec)

\* The stored token is good whenever no renewal or sign-out is about to store another.
JarFresh ==
  /\ jar.id \in Ids /\ store[jar.id] # None
  /\ \A s \in Slot : req[s] # None => req[s].at \notin {"keep", "drop"}
  => Fresh(store[jar.id].rec)

One ==
  width = 1 =>
    /\ Alone
    /\ \A s \in Slot : req[s] # None => Lone(req[s]) /\ Held(req[s])
    /\ JarFresh
    /\ SignOutEndsTheSignIn

\* A browser that may send has no request in flight.
LEMMA Idling ==
  ASSUME width = 1, Alone, CanSend, NEW q \in Slot
  PROVE  req[q] = None
<1> SUFFICES ASSUME req[q] # None PROVE FALSE
  OBVIOUS
<1>1. Busy = {q}
  BY DEF Alone, Busy
<1>2. Cardinality(Busy) = 1
  BY <1>1, FS_Singleton
<1> QED BY <1>2 DEF CanSend

\* A step of the one request there is.
LEMMA OneMoves ==
  ASSUME NEW s \in Slot, \A q \in Slot \ {s} : req'[q] = None,
         req'[s] # None => Lone(req[s])' /\ Held(req[s])',
         JarFresh', SignOutEndsTheSignIn'
  PROVE  One'
<1>1. Alone'
  BY DEF Alone
<1>2. \A q \in Slot : req'[q] # None => q = s
  OBVIOUS
<1>3. \A q \in Slot : (req[q] # None => Lone(req[q]) /\ Held(req[q]))'
  BY <1>2
<1> QED BY <1>1, <1>3 DEF One

\* A step that leaves the gateway alone.
LEMMA RowsStand ==
  ASSUME One, width = 1, NEW s \in Slot,
         \A q \in Slot \ {s} : req'[q] = None,
         UNCHANGED <<rows, ended, lost, barred, width>>,
         req'[s] # None => Lone(req[s])' /\ Held(req[s])',
         JarFresh'
  PROVE  One'
<1>1. SignOutEndsTheSignIn'
  BY DEF One, SignOutEndsTheSignIn, Issued, Family
<1> QED BY <1>1, OneMoves

\* ... and the store and the jar as well.
LEMMA RequestAlone ==
  ASSUME Inv, One, width = 1, NEW s \in Slot, NEW r,
         req' = [req EXCEPT ![s] = r],
         \A q \in Slot \ {s} : req[q] = None,
         req[s] # None => req[s].at \notin {"keep", "drop"},
         UNCHANGED <<store, jar, tokens, ended, lost, outside, width>>,
         r # None => Lone(r) /\ Held(r)
  PROVE  One'
<1> USE DEF tokens, outside
<1>1. req'[s] = r /\ \A q \in Slot \ {s} : req'[q] = None
  BY DEF Inv, TypeOK
<1>2. \A x : Lone(x) => Lone(x)'
  BY DEF Lone, Siblings, Issued, Family
<1>3. \A x : Fresh(x) => Fresh(x)'
  BY DEF Fresh, Family
<1>4. \A x : Held(x) => Held(x)'
  BY DEF Held, Fresh, Family, SidesIn
<1>5. JarFresh'
  <2> SUFFICES ASSUME jar.id \in Ids, store[jar.id] # None
               PROVE  Fresh(store[jar.id].rec)
    BY <1>3 DEF JarFresh
  <2>1. \A q \in Slot : req[q] # None => req[q].at \notin {"keep", "drop"}
    OBVIOUS
  <2> QED BY <2>1 DEF One, JarFresh
<1> QED BY <1>1, <1>2, <1>4, <1>5, RowsStand

\* What the invariant says of the one request there is.
LEMMA LoneFacts ==
  ASSUME Inv, One, width = 1, NEW s \in Slot, req[s] # None
  PROVE  /\ \A q \in Slot \ {s} : req[q] = None
         /\ Lone(req[s]) /\ Held(req[s])
         /\ req[s] \in Request /\ Working(req[s])
         /\ req[s].at # "mint" => req[s].id \in Ids /\ req[s].rec \in Record
<1>1. req[s] \in Request /\ Working(req[s])
      /\ (req[s].at # "mint" => req[s].id \in Ids /\ req[s].rec \in Record)
  BY AtFacts
<1> QED BY <1>1 DEF One, Alone

LEMMA SendAlone ==
  ASSUME Inv, One, width = 1, NEW s \in Slot, NEW kind \in Kinds, Send(s, kind)
  PROVE  One'
<1> DEFINE rec == store[Cookie].rec
           r == [kind |-> kind, at |-> FirstStep(kind, rec), start |-> now, id |-> Cookie,
                 rec |-> rec, fresh |-> 0, mine |-> {}]
<1>1. \A q \in Slot : req[q] = None
  BY Idling DEF Send, One
<1>2. UNCHANGED <<store, jar, tokens, ended, lost, outside, width>>
  BY DEF Send
<1>3. CASE Admits(kind, rec)
  <2>1. req' = [req EXCEPT ![s] = r]
    BY <1>3 DEF Send
  <2>2. /\ r.at \in {"save", "end", "drop", "proxy"} /\ r.id = Cookie /\ r.rec = rec
        /\ r.kind = kind
        /\ r.at \in {"end", "drop"} => r.kind = "logoutAll"
    BY DEF FirstStep
  <2>3. Cookie = jar.id /\ jar.id \in Ids /\ store[jar.id] # None
    BY LoadedFacts DEF Send, Cookie, Ids, Loads, Stored
  <2> HIDE DEF r
  <2>4. Lone(r)
    BY <2>2, <2>3 DEF Lone
  <2>5. Held(r)
    <3>1. Fresh(rec)
      BY <1>1, <2>3 DEF One, JarFresh
    <3> QED BY <2>2, <2>3, <3>1 DEF Held
  <2> QED BY <1>1, <1>2, <2>1, <2>4, <2>5, RequestAlone
<1>4. CASE ~ Admits(kind, rec)
  <2>1. req' = [req EXCEPT ![s] = None]
    BY <1>1, <1>4 DEF Send, Inv, TypeOK
  <2> QED BY <1>1, <1>2, <2>1, RequestAlone
<1> QED BY <1>3, <1>4

\* A handler goes on to another step, or is done, and what it knows stays as it is.
LEMMA GotoAlone ==
  ASSUME Inv, One, width = 1, NEW s \in Slot, req[s] # None,
         NEW step \in {"save", "renew", "renewing", "keep", "drop"},
         req[s].at \notin {"mint", "keep", "drop", "rotate", "retire"},
         Goto(s, step),
         step \in {"renew", "renewing"} => req[s].kind = "businessCall",
         step = "drop" => req[s].kind \in {"businessLogout", "consumerLogout", "logoutAll"},
         UNCHANGED <<store, jar, tokens, ended, lost, outside, width>>
  PROVE  One'
<1> SUFFICES ASSUME NEW r, r = [req[s] EXCEPT !.at = step] PROVE One'
  OBVIOUS
<1>1. req[s] \in Request /\ Lone(req[s]) /\ Held(req[s])
      /\ \A q \in Slot \ {s} : req[q] = None
  BY LoneFacts
<1>2. /\ r.at = step /\ r.kind = req[s].kind /\ r.id = req[s].id /\ r.rec = req[s].rec
      /\ r.fresh = req[s].fresh /\ r.mine = req[s].mine
  BY <1>1 DEF Request
<1>3. Lone(r)
  BY <1>1, <1>2 DEF Lone
<1>4. Held(r)
  BY <1>1, <1>2 DEF Held
<1>5. req' = [req EXCEPT ![s] = r]
  BY DEF Goto
<1> QED BY <1>1, <1>3, <1>4, <1>5, RequestAlone

LEMMA CallsAlone ==
  ASSUME Inv, One, width = 1, NEW s \in Slot,
         \/ Unreachable(s) \/ Call(s) \/ BusinessCall(s)
         \/ RenewLocks(s) \/ RenewFails(s) \/ EndFails(s) \/ EndConsumer(s)
  PROVE  One'
<1>1. CASE Unreachable(s)
  <2>1. \A q \in Slot \ {s} : req[q] = None
    BY <1>1, LoneFacts DEF Unreachable, At
  <2> QED BY <1>1, <2>1, RequestAlone DEF Unreachable, Finish, At, browser
<1>2. CASE Call(s)
  BY <1>2, GotoAlone DEF Call, At, browser
<1>3. CASE BusinessCall(s)
  BY <1>3, GotoAlone DEF BusinessCall, At, browser
<1>4. CASE RenewLocks(s)
  <2>1. req[s].kind = "businessCall" /\ req[s] # None
    BY <1>4, LoneFacts DEF RenewLocks, At, Lone
  <2> QED BY <1>4, <2>1, GotoAlone DEF RenewLocks, At, browser
<1>5. CASE RenewFails(s)
  BY <1>5, GotoAlone DEF RenewFails, Locking, At, browser
<1>6. CASE EndFails(s)
  <2>1. req[s] # None /\ req[s].kind \in {"businessLogout", "logoutAll"}
    BY <1>6, LoneFacts DEF EndFails, At, Lone
  <2> QED BY <1>6, <2>1, GotoAlone DEF EndFails, At, browser
<1>7. CASE EndConsumer(s)
  BY <1>7, GotoAlone DEF EndConsumer, At, browser
<1> QED BY <1>1, <1>2, <1>3, <1>4, <1>5, <1>6, <1>7

\* A renewal that is about to be refused has a reason: its business is barred, or an
\* answer about its sign-in was lost.
LEMMA RefusedFor ==
  ASSUME Inv, One, width = 1, NEW s \in Slot, At(s, "renew"),
         \/ rows[Presented(s)].revoked
         \/ rows[Presented(s)].rotated
         \/ Family(Presented(s)) \in barred
  PROVE  Family(Presented(s)) \in barred \cup lost
<1>1. req[s] # None /\ req[s].at = "renew" /\ Held(req[s]) /\ req[s].rec.business # None
  BY LoneFacts DEF At, Working, OnTheBusiness
<1>2. /\ Family(Presented(s)) \notin ended
      /\ rows[Presented(s)].rotated => Family(Presented(s)) \in lost
  BY <1>1 DEF Held, Fresh, Presented
<1>3. Presented(s) \in Issued
  BY <1>1, PresentedFacts, NoneIsNothing DEF Issued
<1>4. rows[Presented(s)].revoked => Family(Presented(s)) \in ended \cup barred \cup lost
  BY <1>3 DEF One, SignOutEndsTheSignIn
<1> QED BY <1>2, <1>4

LEMMA RefusedAlone ==
  ASSUME Inv, One, width = 1, NEW s \in Slot, RenewRefused(s)
  PROVE  One'
<1>1. /\ req[s] # None /\ req[s].at = "renew" /\ req[s] \in Request
      /\ Lone(req[s]) /\ req[s].rec \in Record /\ \A q \in Slot \ {s} : req[q] = None
  BY LoneFacts DEF RenewRefused, At
<1> SUFFICES ASSUME NEW r, r = [req[s] EXCEPT !.rec.business = None, !.at = "keep"] PROVE One'
  OBVIOUS
<1>2. r.at = "keep" /\ r.id = req[s].id /\ r.rec.business = None
  BY <1>1 DEF Request, Record
<1>3. Lone(r) /\ Held(r)
  BY <1>1, <1>2 DEF Lone, Held, Fresh
<1>4. req' = [req EXCEPT ![s] = r]
  BY DEF RenewRefused, WithoutBusiness
<1> QED BY <1>1, <1>3, <1>4, RequestAlone DEF RenewRefused, browser

LEMMA RevokingAlone ==
  ASSUME Inv, One, width = 1, NEW s \in Slot,
         RenewReused(s) \/ RenewDenied(s) \/ EndBegins(s)
  PROVE  One'
<1>1. /\ req[s] # None /\ req[s].at \in {"renew", "proxy", "end"} /\ req[s] \in Request
      /\ Lone(req[s]) /\ Held(req[s]) /\ \A q \in Slot \ {s} : req[q] = None
  BY LoneFacts DEF RenewReused, RenewDenied, EndBegins, At
<1> SUFFICES ASSUME NEW r, r = [req[s] EXCEPT !.at = "revoking", !.mine = Siblings(Presented(s))]
             PROVE One'
  OBVIOUS
<1>2. /\ r.at = "revoking" /\ r.id = req[s].id /\ r.rec = req[s].rec /\ r.kind = req[s].kind
      /\ r.mine = Siblings(r.rec.business.refresh)
  BY <1>1 DEF Request, Presented
<1>3. r.kind \in {"businessCall", "businessLogout", "logoutAll"}
  BY <1>1, <1>2 DEF RenewReused, RenewDenied, EndBegins, At, Lone
<1>4. r.kind = "businessCall" => Family(r.rec.business.refresh) \in barred \cup lost
  <2>1. CASE RenewReused(s) \/ RenewDenied(s)
    BY <1>2, <2>1, RefusedFor DEF RenewReused, RenewDenied, Presented
  <2>2. CASE EndBegins(s)
    BY <1>1, <1>2, <2>2 DEF EndBegins, At, Lone
  <2> QED BY <2>1, <2>2
<1>5. Lone(r)
  BY <1>1, <1>2, <1>3 DEF Lone
<1>6. Held(r)
  BY <1>1, <1>2, <1>4 DEF Held
<1>7. req' = [req EXCEPT ![s] = r]
  BY DEF RenewReused, RenewDenied, EndBegins
<1> QED BY <1>1, <1>5, <1>6, <1>7, RequestAlone DEF RenewReused, RenewDenied, EndBegins, browser

LEMMA SignInConsumerAlone ==
  ASSUME Inv, One, width = 1, NEW s \in Slot, SignInConsumer(s)
  PROVE  One'
<1> DEFINE old == req[s].rec
           new == [preauth |-> FALSE, created |-> Began(old),
                   consumer |-> [since |-> now], business |-> old.business]
<1>1. /\ req[s] # None /\ req[s].at = "proxy" /\ req[s] \in Request
      /\ Lone(req[s]) /\ Held(req[s]) /\ \A q \in Slot \ {s} : req[q] = None
  BY LoneFacts DEF SignInConsumer, At
<1> SUFFICES ASSUME NEW r, r = [req[s] EXCEPT !.rec = new, !.at = "rotate"] PROVE One'
  OBVIOUS
<1>2. req' = [req EXCEPT ![s] = r]
  BY <1>1 DEF SignInConsumer, Request
<1>3. r.at = "rotate" /\ r.id = req[s].id /\ r.rec.business = old.business
  BY <1>1 DEF Request
<1>4. Lone(r)
  BY <1>1, <1>3 DEF Lone
<1>5. Held(r)
  BY <1>1, <1>3 DEF Held, Fresh
<1> QED BY <1>1, <1>2, <1>4, <1>5, RequestAlone DEF SignInConsumer, browser

-----------------------------------------------------------------------------
(* ... the steps that change what the gateway has.                          *)

\* A row keeps its family for good, and stays spent.
Kin ==
  \A t \in Issued : /\ t \in Issued' /\ rows'[t].family = rows[t].family
                    /\ rows[t].rotated => rows'[t].rotated

LEMMA SidesStay ==
  ASSUME Inv, Kin, NEW rec, Sound(rec)
  PROVE  SidesIn(rows', rec) = SidesIn(rows, rec)
<1>1. rec.business # None => rec.business.refresh \in Issued
  BY NoneIsNothing DEF Sound, Known, Record, Business, Issued
<1> QED BY <1>1 DEF Kin, SidesIn

LEMMA FreshStays ==
  ASSUME Inv, Kin, NEW rec, Sound(rec), Fresh(rec),
         ended' = ended, lost \subseteq lost',
         rec.business # None =>
           rows'[rec.business.refresh].rotated = rows[rec.business.refresh].rotated
  PROVE  Fresh(rec)'
<1>1. rec.business # None => rec.business.refresh \in Issued
  BY NoneIsNothing DEF Sound, Known, Record, Business, Issued
<1> QED BY <1>1 DEF Kin, Fresh, Family

\* The row of the next token is inserted.
LEMMA IssuedRows ==
  ASSUME Inv, Gateway, NEW table \in [Tokens -> Row \cup {None}],
         \A t \in Tokens : rows[t] = None => table[t] = None,
         \A t \in Issued : /\ table[t] # None /\ table[t].family = rows[t].family
                           /\ table[t].revoked = rows[t].revoked
                           /\ rows[t].rotated => table[t].rotated,
         NEW family \in Tokens, nextToken \in Tokens, Issue(table, family)
  PROVE  /\ nextToken \notin Issued /\ Issued' = Issued \cup {nextToken} /\ Kin
         /\ \A t \in Issued : rows'[t] = table[t]
         /\ rows'[nextToken] = [family |-> family, rotated |-> FALSE, revoked |-> FALSE]
<1> SUFFICES ASSUME NEW n, n = nextToken,
                    NEW row, row = [family |-> family, rotated |-> FALSE, revoked |-> FALSE]
             PROVE  /\ n \notin Issued /\ Issued' = Issued \cup {n} /\ Kin
                    /\ \A t \in Issued : rows'[t] = table[t]
                    /\ rows'[n] = row
  OBVIOUS
<1>1. row # None /\ rows' = [table EXCEPT ![n] = row]
  <2>1. row \in Row
    BY DEF Row
  <2> QED BY <2>1, NoneIsNothing DEF Issue
<1>2. rows'[n] = row /\ \A t \in Tokens \ {n} : rows'[t] = table[t]
  BY <1>1
<1>3. n \in Nat /\ \A t \in Issued : t \in Nat /\ t < n /\ t \in Tokens
  BY NumbersFacts DEF Gateway, Dated
<1>4. \A t \in Issued : t # n
  BY <1>3
<1>5. \A t \in Issued : rows'[t] = table[t]
  BY <1>2, <1>3, <1>4
<1>6. Issued' = Issued \cup {n}
  BY <1>1, <1>2, <1>5 DEF Issued
<1>7. Kin
  BY <1>5, <1>6 DEF Kin
<1> QED BY <1>2, <1>4, <1>5, <1>6, <1>7

\* ... into a family whose sign-out was not answered.
LEMMA IssueAlone ==
  ASSUME SignOutEndsTheSignIn, width = 1, NEW n, NEW family,
         Issued' = Issued \cup {n}, n \notin Issued,
         \A t \in Issued : /\ rows'[t].family = rows[t].family
                           /\ rows'[t].revoked = rows[t].revoked,
         rows'[n] = [family |-> family, rotated |-> FALSE, revoked |-> FALSE],
         family \notin ended, ended' = ended, lost \subseteq lost', barred' = barred
  PROVE  SignOutEndsTheSignIn'
<1> SUFFICES ASSUME NEW t \in Issued'
             PROVE  /\ rows'[t].family \in ended => rows'[t].revoked
                    /\ rows'[t].revoked => rows'[t].family \in ended \cup barred \cup lost'
  BY DEF SignOutEndsTheSignIn, Family
<1>1. CASE t = n
  BY <1>1
<1>2. CASE t # n
  <2>1. t \in Issued
    BY <1>2
  <2>2. /\ rows[t].family \in ended => rows[t].revoked
        /\ rows[t].revoked => rows[t].family \in ended \cup barred \cup lost
    BY <2>1 DEF SignOutEndsTheSignIn, Family
  <2> QED BY <2>1, <2>2
<1> QED BY <1>1, <1>2

\* A sign-in of the business, whether the host hears of it or not.
LEMMA OpensRows ==
  ASSUME Inv, Gateway, One, width = 1, NEW s \in Slot, SignInBusiness(s) \/ SignInLost(s)
  PROVE  /\ Kin /\ SignOutEndsTheSignIn' /\ \A t \in Issued : rows'[t] = rows[t]
         /\ nextToken \in Tokens /\ nextToken \notin ended \cup barred \cup lost
         /\ rows'[nextToken] = [family |-> nextToken, rotated |-> FALSE, revoked |-> FALSE]
<1>1. /\ nextToken \in Tokens /\ Issue(rows, nextToken) /\ nextToken \in Nat
      /\ UNCHANGED <<lost, ended, barred>>
  BY Constants DEF SignInBusiness, SignInLost, outside, Inv, TypeOK, Tokens
<1>2. rows \in [Tokens -> Row \cup {None}] /\ \A t \in Issued : rows[t] # None
  BY DEF Inv, TypeOK, Issued
<1>3. /\ nextToken \notin Issued /\ Issued' = Issued \cup {nextToken} /\ Kin
      /\ \A t \in Issued : rows'[t] = rows[t]
      /\ rows'[nextToken] = [family |-> nextToken, rotated |-> FALSE, revoked |-> FALSE]
  BY <1>1, <1>2, IssuedRows
<1>4. nextToken \notin ended \cup barred \cup lost
  BY <1>1 DEF Gateway, Dated
<1>5. SignOutEndsTheSignIn'
  <2>1. SignOutEndsTheSignIn
    BY DEF One
  <2>2. nextToken \notin ended
    BY <1>4
  <2> QED BY <1>1, <1>3, <2>1, <2>2, IssueAlone
<1> QED BY <1>1, <1>3, <1>4, <1>5

\* The record behind the jar stays good.
LEMMA JarStays ==
  ASSUME Inv, Kin, One, width = 1, UNCHANGED <<store, jar, ended>>, lost \subseteq lost',
         \A q \in Slot : req[q] # None => req[q].at \notin {"keep", "drop"},
         \A t \in Issued : rows'[t].rotated = rows[t].rotated
  PROVE  JarFresh'
<1> SUFFICES ASSUME jar.id \in Ids, store[jar.id] # None,
                    NEW rec, rec = store[jar.id].rec
             PROVE  Fresh(rec)'
  BY DEF JarFresh, Fresh, Family
<1>1. Fresh(rec)
  BY DEF One, JarFresh
<1>2. Sound(rec)
  BY DEF Inv, Kept
<1>3. rec.business # None => rec.business.refresh \in Issued
  BY <1>2, NoneIsNothing DEF Sound, Known, Record, Business, Issued
<1> QED BY <1>1, <1>2, <1>3, FreshStays

LEMMA SignInLostAlone ==
  ASSUME Inv, Gateway, One, width = 1, NEW s \in Slot, SignInLost(s)
  PROVE  One'
<1>1. /\ req[s] # None /\ req[s].at = "proxy" /\ \A q \in Slot \ {s} : req[q] = None
      /\ UNCHANGED <<store, jar, ended, lost>>
  BY LoneFacts DEF SignInLost, At
<1>2. \A q \in Slot : req'[q] = None
  BY <1>1 DEF SignInLost, Finish, Inv, TypeOK
<1>3. \A q \in Slot : req[q] # None => req[q].at \notin {"keep", "drop"}
  BY <1>1
<1>4. Kin /\ SignOutEndsTheSignIn' /\ \A t \in Issued : rows'[t] = rows[t]
  BY OpensRows
<1>5. JarFresh'
  BY <1>1, <1>3, <1>4, JarStays
<1> QED BY <1>2, <1>4, <1>5, OneMoves

LEMMA BusinessSignsInAlone ==
  ASSUME Inv, Gateway, One, width = 1, NEW s \in Slot, SignInBusiness(s)
  PROVE  One'
<1> DEFINE old == req[s].rec
           business == [refresh |-> nextToken, issued |-> now, since |-> now]
           new == [preauth |-> FALSE, created |-> Began(old), consumer |-> old.consumer,
                   business |-> business]
<1>1. /\ req[s] # None /\ req[s].at = "proxy" /\ req[s] \in Request
      /\ Lone(req[s]) /\ \A q \in Slot \ {s} : req[q] = None
      /\ UNCHANGED <<store, jar, ended, lost>>
  BY LoneFacts DEF SignInBusiness, At
<1>2. /\ Kin /\ SignOutEndsTheSignIn' /\ \A t \in Issued : rows'[t] = rows[t]
      /\ nextToken \notin ended
      /\ rows'[nextToken] = [family |-> nextToken, rotated |-> FALSE, revoked |-> FALSE]
  BY OpensRows
<1>3. JarFresh'
  <2>1. \A q \in Slot : req[q] # None => req[q].at \notin {"keep", "drop"}
    BY <1>1
  <2> QED BY <1>1, <1>2, <2>1, JarStays
<1> SUFFICES ASSUME NEW n, n = nextToken,
                    NEW r, r = [req[s] EXCEPT !.rec = new, !.at = "rotate"]
             PROVE  One'
  OBVIOUS
<1>4. req' = [req EXCEPT ![s] = r]
  BY <1>1 DEF SignInBusiness, Request
<1>5. r.at = "rotate" /\ r.id = req[s].id /\ r.rec.business.refresh = n
  BY <1>1 DEF Request
<1>6. Lone(r)'
  BY <1>1, <1>5 DEF Lone
<1>7. Held(r)'
  BY <1>1, <1>2, <1>5 DEF Held, Fresh, Family
<1>8. req'[s] = r /\ \A q \in Slot \ {s} : req'[q] = None
  BY <1>1, <1>4 DEF Inv, TypeOK
<1> QED BY <1>2, <1>3, <1>6, <1>7, <1>8, OneMoves

\* What a renewal that commits does to the rows.
LEMMA CommitsRows ==
  ASSUME Inv, Gateway, One, width = 1, NEW s \in Slot, NEW arrives \in BOOLEAN,
         RenewCommits(s, arrives)
  PROVE  /\ Kin /\ SignOutEndsTheSignIn' /\ nextToken \in Tokens
         /\ Presented(s) \in Issued /\ Family(Presented(s)) \notin ended
         /\ rows'[nextToken] = [family |-> Family(Presented(s)), rotated |-> FALSE,
                                revoked |-> FALSE]
<1> SUFFICES ASSUME NEW t, t = Presented(s),
                    NEW table, table = [rows EXCEPT ![t].rotated = TRUE]
             PROVE  /\ Kin /\ SignOutEndsTheSignIn' /\ nextToken \in Tokens
                    /\ t \in Issued /\ Family(t) \notin ended
                    /\ rows'[nextToken] = [family |-> Family(t), rotated |-> FALSE,
                                           revoked |-> FALSE]
  OBVIOUS
<1>1. At(s, "renewing") /\ t \in Issued /\ t \in Tokens /\ rows[t] \in Row /\ Family(t) \in Tokens
  BY HoldersFacts, NumbersFacts DEF RenewCommits
<1>2. /\ nextToken \in Tokens /\ Issue(table, Family(t)) /\ UNCHANGED <<ended, barred>>
      /\ lost \subseteq lost'
  BY Constants DEF RenewCommits, Loses, outside, Inv, TypeOK, Tokens
<1>3. Family(t) \notin ended
  <2>1. req[s] # None /\ req[s].at = "renewing" /\ Held(req[s]) /\ req[s].rec.business # None
    BY <1>1, LoneFacts DEF At, Working, OnTheBusiness
  <2> QED BY <2>1 DEF Held, Fresh, Presented
<1>4. [rows[t] EXCEPT !.rotated = TRUE] \in Row
  BY <1>1 DEF Row
<1>5. table \in [Tokens -> Row \cup {None}]
  BY <1>1, <1>4 DEF Inv, TypeOK
<1>6. ASSUME NEW u \in Issued
      PROVE  /\ table[u] # None /\ table[u].family = rows[u].family
             /\ table[u].revoked = rows[u].revoked /\ (rows[u].rotated => table[u].rotated)
  <2>1. u \in Tokens /\ rows[u] \in Row /\ rows[u] # None
    BY NumbersFacts DEF Issued
  <2>2. CASE u = t
    BY <1>4, <2>1, <2>2, NoneIsNothing DEF Inv, TypeOK, Row
  <2>3. CASE u # t
    BY <2>1, <2>3 DEF Inv, TypeOK
  <2> QED BY <2>2, <2>3
<1>7. \A u \in Tokens : rows[u] = None => table[u] = None
  BY <1>1, NoneIsNothing DEF Inv, TypeOK
<1>8. /\ nextToken \notin Issued /\ Issued' = Issued \cup {nextToken} /\ Kin
      /\ \A u \in Issued : rows'[u] = table[u]
      /\ rows'[nextToken] = [family |-> Family(t), rotated |-> FALSE, revoked |-> FALSE]
  <2> HIDE DEF Family
  <2> QED BY <1>1, <1>2, <1>5, <1>6, <1>7, IssuedRows
<1>9. SignOutEndsTheSignIn'
  <2>1. SignOutEndsTheSignIn
    BY DEF One
  <2>2. \A u \in Issued : rows'[u].family = rows[u].family /\ rows'[u].revoked = rows[u].revoked
    BY <1>6, <1>8
  <2> QED BY <1>2, <1>3, <1>8, <2>1, <2>2, IssueAlone
<1> QED BY <1>1, <1>2, <1>3, <1>8, <1>9

LEMMA RenewCommitsAlone ==
  ASSUME Inv, Gateway, One, width = 1, NEW s \in Slot, NEW arrives \in BOOLEAN,
         RenewCommits(s, arrives)
  PROVE  One'
<1> DEFINE old == req[s].rec
           business == [old.business EXCEPT !.refresh = nextToken, !.issued = now]
           rec == [old EXCEPT !.business = IF arrives THEN business ELSE old.business]
<1>1. /\ req[s] # None /\ req[s].at = "renewing" /\ req[s] \in Request
      /\ Lone(req[s]) /\ Held(req[s]) /\ \A q \in Slot \ {s} : req[q] = None
      /\ old \in Record /\ old.business \in Business /\ old.business # None
  BY LoneFacts, AtFacts DEF RenewCommits, At, Working, OnTheBusiness
<1>2. /\ Kin /\ SignOutEndsTheSignIn' /\ nextToken \in Tokens
      /\ Presented(s) \in Issued /\ Family(Presented(s)) \notin ended
      /\ rows'[nextToken].family = Family(Presented(s)) /\ ~ rows'[nextToken].rotated
  <2> SUFFICES ASSUME NEW f, f = Family(Presented(s))
               PROVE  /\ Kin /\ SignOutEndsTheSignIn' /\ nextToken \in Tokens
                      /\ Presented(s) \in Issued /\ f \notin ended
                      /\ rows'[nextToken].family = f /\ ~ rows'[nextToken].rotated
    OBVIOUS
  <2>1. /\ Kin /\ SignOutEndsTheSignIn' /\ nextToken \in Tokens
        /\ Presented(s) \in Issued /\ f \notin ended
        /\ rows'[nextToken] = [family |-> f, rotated |-> FALSE, revoked |-> FALSE]
    BY CommitsRows
  <2> QED BY <2>1
<1>3. /\ UNCHANGED <<store, jar, ended>>
      /\ ~ arrives => Family(Presented(s)) \in lost'
  BY DEF RenewCommits, Loses
<1>4. business \in Business /\ business.refresh = nextToken
  BY <1>1, <1>2 DEF Business, Inv, TypeOK
<1>5. rec \in Record /\ rec.business = IF arrives THEN business ELSE old.business
  BY <1>1, <1>4 DEF Record
<1> SUFFICES ASSUME NEW n, n = nextToken,
                    NEW t, t = Presented(s),
                    NEW r, r = [req[s] EXCEPT !.rec = rec, !.at = "keep"]
             PROVE One'
  OBVIOUS
<1>6. req' = [req EXCEPT ![s] = r]
  BY <1>1 DEF RenewCommits, Request
<1>7. /\ r.at = "keep" /\ r.id = req[s].id /\ r \in Request
      /\ r.rec.business.refresh = IF arrives THEN n ELSE t
  <2>1. rec.business.refresh = IF arrives THEN n ELSE t
    BY <1>4, <1>5 DEF Presented
  <2> HIDE DEF rec
  <2> QED BY <1>1, <1>5, <2>1 DEF Request, Steps
<1>8. Lone(r)'
  BY <1>1, <1>3, <1>7 DEF Lone
<1>9. rows'[t].family = Family(t)
  BY <1>2 DEF Kin, Family
<1>10. Held(r)'
  BY <1>2, <1>3, <1>7, <1>9 DEF Held, Fresh, Family
<1>11. req'[s] = r /\ r # None /\ \A q \in Slot \ {s} : req'[q] = None
  BY <1>1, <1>6, <1>7, NoneIsNothing DEF Inv, TypeOK
<1>12. JarFresh'
  BY <1>7, <1>11 DEF JarFresh
<1> QED BY <1>2, <1>8, <1>10, <1>11, <1>12, OneMoves

\* Rows are revoked: what the one request sees, or the sweep.
LEMMA RevokesAlone ==
  ASSUME Inv, One, width = 1, NEW seen, seen \subseteq Issued, Revoke(seen),
         ended \subseteq ended', lost \subseteq lost', barred' = barred,
         \A t \in seen : Family(t) \in ended' \cup barred \cup lost',
         \A t \in Issued : Family(t) \in ended' => Family(t) \in ended \/ t \in seen
  PROVE  /\ Kin /\ SignOutEndsTheSignIn'
         /\ Issued' = Issued /\ \A t \in Issued : rows'[t].rotated = rows[t].rotated
<1>1. /\ Issued' = Issued
      /\ \A t \in Issued : /\ rows'[t].family = rows[t].family
                           /\ rows'[t].rotated = rows[t].rotated
                           /\ rows'[t].revoked = (rows[t].revoked \/ t \in seen)
  BY RevokedRows
<1>2. Kin
  BY <1>1 DEF Kin
<1>3. SignOutEndsTheSignIn'
  <2> SUFFICES ASSUME NEW t \in Issued
               PROVE  /\ Family(t) \in ended' => rows'[t].revoked
                      /\ rows'[t].revoked => Family(t) \in ended' \cup barred \cup lost'
    BY <1>1 DEF SignOutEndsTheSignIn, Family
  <2>1. /\ Family(t) \in ended => rows[t].revoked
        /\ rows[t].revoked => Family(t) \in ended \cup barred \cup lost
    BY DEF One, SignOutEndsTheSignIn
  <2> QED BY <1>1, <2>1
<1> QED BY <1>1, <1>2, <1>3

\* What the UPDATE of the one request sees is its family.
LEMMA RevokesFacts ==
  ASSUME Inv, One, width = 1, NEW s \in Slot, Revokes(s)
  PROVE  /\ req[s] # None /\ req[s].at = "revoking" /\ req[s] \in Request
         /\ Lone(req[s]) /\ Held(req[s])
         /\ req[s].rec \in Record /\ Sound(req[s].rec) /\ req[s].rec.business # None
         /\ \A q \in Slot \ {s} : req[q] = None
         /\ Presented(s) \in Issued /\ Revoke(req[s].mine) /\ req[s].mine \subseteq Issued
         /\ \A u \in Issued : u \in req[s].mine <=> Family(u) = Family(Presented(s))
<1>1. req[s] # None /\ req[s].at = "revoking"
  BY DEF Revokes, At
<1>2. /\ req[s] \in Request /\ Lone(req[s]) /\ Held(req[s]) /\ Working(req[s])
      /\ req[s].rec \in Record /\ Sound(req[s].rec) /\ req[s].rec.business # None
      /\ \A q \in Slot \ {s} : req[q] = None
  BY <1>1, LoneFacts, AtFacts DEF Working, OnTheBusiness
<1>3. \A u \in Issued : u \in req[s].mine <=> Family(u) = Family(Presented(s))
  BY <1>1, <1>2 DEF Lone, Siblings, Presented
<1> QED BY <1>1, <1>2, <1>3, RevokingFacts

LEMMA RefusalEndsAlone ==
  ASSUME Inv, Gateway, One, width = 1, NEW s \in Slot, NEW arrives \in BOOLEAN,
         RefusalEnds(s, arrives)
  PROVE  One'
<1> DEFINE old == req[s].rec
<1>1. /\ req[s] # None /\ req[s].at = "revoking" /\ req[s] \in Request
      /\ Lone(req[s]) /\ Held(req[s]) /\ \A q \in Slot \ {s} : req[q] = None
      /\ old \in Record /\ Sound(old) /\ old.business # None
      /\ Presented(s) \in Issued /\ Revoke(req[s].mine) /\ req[s].mine \subseteq Issued
      /\ \A u \in Issued : u \in req[s].mine <=> Family(u) = Family(Presented(s))
  BY RevokesFacts DEF RefusalEnds
<1>2. /\ UNCHANGED <<store, jar, ended, barred>> /\ lost \subseteq lost'
      /\ req[s].kind = "businessCall"
  BY DEF RefusalEnds, Loses, outside
<1>3. Family(Presented(s)) \in barred \cup lost
  BY <1>1, <1>2 DEF Held, Presented
<1>4. /\ Kin /\ SignOutEndsTheSignIn' /\ \A t \in Issued : rows'[t].rotated = rows[t].rotated
  <2>1. \A t \in req[s].mine : Family(t) \in ended' \cup barred \cup lost'
    BY <1>1, <1>2, <1>3
  <2>2. ended \subseteq ended' /\ \A t \in Issued : Family(t) \in ended' =>
          Family(t) \in ended \/ t \in req[s].mine
    BY <1>2
  <2> HIDE DEF Family
  <2> QED BY <1>1, <1>2, <2>1, <2>2, RevokesAlone
<1> DEFINE rec == IF arrives THEN [old EXCEPT !.business = None] ELSE old
<1>5. rec \in Record /\ (arrives => rec.business = None)
  BY <1>1 DEF Record
<1>6. Fresh(old)
  BY <1>1 DEF Held
<1> SUFFICES ASSUME NEW was, was = old, NEW t, t = Presented(s),
                    NEW r, r = [req[s] EXCEPT !.rec = rec, !.at = "keep"]
             PROVE  One'
  OBVIOUS
<1>7. req' = [req EXCEPT ![s] = r]
  <2>1. CASE arrives
    BY <1>1, <2>1 DEF RefusalEnds, WithoutBusiness, Request
  <2>2. CASE ~ arrives
    BY <1>1, <2>2 DEF RefusalEnds, Goto, Request
  <2> QED BY <2>1, <2>2
<1>8. r.at = "keep" /\ r.id = req[s].id /\ r \in Request /\ r.rec \in {rec, was}
      /\ (arrives => r.rec.business = None) /\ (~ arrives => r.rec = was)
  <2>1. ~ arrives => rec = was
    OBVIOUS
  <2> HIDE DEF rec
  <2> QED BY <1>1, <1>5, <2>1 DEF Request, Steps
<1>9. Lone(r)'
  BY <1>1, <1>2, <1>8 DEF Lone
<1>10. Fresh(was)'
  <2>1. Sound(was) /\ Fresh(was) /\ (was.business # None => was.business.refresh \in Issued)
    BY <1>1, <1>6 DEF Presented
  <2> QED BY <1>2, <1>4, <2>1, FreshStays
<1>11. Held(r)'
  BY <1>8, <1>10 DEF Held, Fresh
<1>12. req'[s] = r /\ r # None /\ \A q \in Slot \ {s} : req'[q] = None
  BY <1>1, <1>7, <1>8, NoneIsNothing DEF Inv, TypeOK
<1>13. JarFresh'
  BY <1>8, <1>12 DEF JarFresh
<1> QED BY <1>4, <1>9, <1>11, <1>12, <1>13, OneMoves

LEMMA SignOutEndsAlone ==
  ASSUME Inv, Gateway, One, width = 1, NEW s \in Slot, SignOutEnds(s)
  PROVE  One'
<1>1. /\ req[s] # None /\ req[s].at = "revoking" /\ req[s] \in Request
      /\ Lone(req[s]) /\ Held(req[s]) /\ \A q \in Slot \ {s} : req[q] = None
      /\ req[s].rec \in Record /\ Sound(req[s].rec) /\ req[s].rec.business # None
      /\ Presented(s) \in Issued /\ Revoke(req[s].mine) /\ req[s].mine \subseteq Issued
      /\ \A u \in Issued : u \in req[s].mine <=> Family(u) = Family(Presented(s))
  BY RevokesFacts DEF SignOutEnds
<1>2. /\ UNCHANGED <<store, jar, lost, barred>> /\ ended' = ended \cup {Family(Presented(s))}
      /\ req[s].kind # "businessCall"
  BY DEF SignOutEnds, outside
<1>3. Kin /\ SignOutEndsTheSignIn'
  <2>1. \A t \in req[s].mine : Family(t) \in ended' \cup barred \cup lost'
    BY <1>1, <1>2
  <2>2. ended \subseteq ended' /\ \A t \in Issued : Family(t) \in ended' =>
          Family(t) \in ended \/ t \in req[s].mine
    BY <1>1, <1>2
  <2> HIDE DEF Family
  <2> QED BY <1>1, <1>2, <2>1, <2>2, RevokesAlone
<1> SUFFICES ASSUME NEW was, was = req[s].rec,
                    NEW r, r = [req[s] EXCEPT !.at = "drop"]
             PROVE One'
  OBVIOUS
<1>4. /\ r.at = "drop" /\ r.id = req[s].id /\ r.rec = was /\ r.kind = req[s].kind
      /\ r.kind \in {"businessLogout", "logoutAll"} /\ r \in Request
  BY <1>1, <1>2 DEF Request, Lone, Steps
<1>5. Lone(r)'
  BY <1>1, <1>2, <1>4 DEF Lone
<1>6. store[r.id] # None => SidesIn(rows', store[r.id].rec) = SidesIn(rows', was)
  <2>0. r.id \in Ids
    BY <1>1, <1>4, LoneFacts
  <2> SUFFICES ASSUME NEW id \in Ids, id = r.id, NEW kept, kept = store[id].rec,
                      store[id] # None
               PROVE  SidesIn(rows', kept) = SidesIn(rows', was)
    BY <2>0
  <2>1. Sound(kept) /\ Sound(was)
    BY <1>1 DEF Inv, Kept
  <2>2. SidesIn(rows, kept) = SidesIn(rows, was)
    BY <1>1, <1>4 DEF Held
  <2> QED BY <1>3, <2>1, <2>2, SidesStay
<1>7. Held(r)'
  <2>1. store' = store
    BY <1>2
  <2> QED BY <1>4, <1>6, <2>1 DEF Held
<1>8. req'[s] = r /\ r # None /\ \A q \in Slot \ {s} : req'[q] = None
  BY <1>1, <1>4, NoneIsNothing DEF SignOutEnds, Goto, Inv, TypeOK
<1>9. JarFresh'
  BY <1>4, <1>8 DEF JarFresh
<1> QED BY <1>3, <1>5, <1>7, <1>8, <1>9, OneMoves

LEMMA SignOutLostAlone ==
  ASSUME Inv, Gateway, One, width = 1, NEW s \in Slot, SignOutLost(s)
  PROVE  One'
<1>1. /\ req[s] # None /\ req[s].at = "revoking" /\ \A q \in Slot \ {s} : req[q] = None
      /\ Presented(s) \in Issued /\ Revoke(req[s].mine) /\ req[s].mine \subseteq Issued
      /\ \A u \in Issued : u \in req[s].mine <=> Family(u) = Family(Presented(s))
  BY RevokesFacts DEF SignOutLost
<1>2. /\ UNCHANGED <<store, jar, ended, barred>> /\ lost' = lost \cup {Family(Presented(s))}
  BY DEF SignOutLost, Loses, outside
<1>3. /\ Kin /\ SignOutEndsTheSignIn' /\ \A t \in Issued : rows'[t].rotated = rows[t].rotated
  <2>1. \A t \in req[s].mine : Family(t) \in ended' \cup barred \cup lost'
    BY <1>1, <1>2
  <2>2. ended \subseteq ended' /\ lost \subseteq lost' /\ \A t \in Issued : Family(t) \in ended' =>
          Family(t) \in ended \/ t \in req[s].mine
    BY <1>2
  <2> HIDE DEF Family
  <2> QED BY <1>1, <1>2, <2>1, <2>2, RevokesAlone
<1>4. \A q \in Slot : req'[q] = None
  BY <1>1 DEF SignOutLost, Finish, Inv, TypeOK
<1>5. \A q \in Slot : req[q] # None => req[q].at \notin {"keep", "drop"}
  BY <1>1
<1>6. JarFresh'
  BY <1>2, <1>3, <1>5, JarStays
<1> QED BY <1>3, <1>4, <1>6, OneMoves

\* What befalls a sign-in from outside leaves the request where it is.
LEMMA OutsideAlone ==
  ASSUME Inv, Gateway, One, width = 1, Outside
  PROVE  One'
<1>1. UNCHANGED <<store, jar, req, width, lost, ended, nextToken>> /\ barred \subseteq barred'
  BY DEF Outside, Bar, SweepBegins, SweepEnds, SweepFails, tokens, browser, Revoke
<1>2. /\ Kin /\ SignOutEndsTheSignIn' /\ Issued' = Issued
      /\ \A t \in Issued : rows'[t].rotated = rows[t].rotated
  <2>1. CASE SweepEnds
    <3>1. sweep \subseteq Issued /\ \A t \in sweep : Family(t) \in barred
      BY NumbersFacts DEF Gateway, SweepIsOfBarred, Inv, TypeOK, SweepIsKnown
    <3>2. Revoke(sweep) /\ barred' = barred
      BY <2>1 DEF SweepEnds
    <3>3. \A t \in sweep : Family(t) \in ended' \cup barred \cup lost'
      BY <3>1
    <3> HIDE DEF Family
    <3> QED BY <1>1, <3>1, <3>2, <3>3, RevokesAlone
  <2>2. CASE UNCHANGED tokens
    BY <1>1, <2>2 DEF tokens, Kin, One, SignOutEndsTheSignIn, Issued, Family
  <2> QED BY <2>1, <2>2 DEF Outside, Bar, SweepBegins, SweepFails
<1>3. ASSUME NEW r \in Request, Working(r), Lone(r), Held(r),
             r.at # "mint" => r.id \in Ids /\ r.rec \in Record
      PROVE  Lone(r)' /\ Held(r)'
  <2>1. CASE r.at = "mint"
    BY <1>1, <1>3, <2>1 DEF Lone, Held
  <2>2. CASE r.at # "mint"
    <3>1. Sound(r.rec) /\ r.id \in Ids /\ (r.rec.business # None => r.rec.business.refresh \in Issued)
      BY <1>3, <2>2, NoneIsNothing DEF Working, Sound, Known, Record, Business, Issued
    <3>2. ASSUME r.rec.business # None
          PROVE  /\ Siblings(r.rec.business.refresh)' = Siblings(r.rec.business.refresh)
                 /\ Family(r.rec.business.refresh)' = Family(r.rec.business.refresh)
      BY <1>2, <3>1, <3>2 DEF Kin, Siblings, Family
    <3>3. Lone(r)'
      BY <1>1, <1>3, <3>2 DEF Lone, Working, OnTheBusiness
    <3>4. Fresh(r.rec) => Fresh(r.rec)'
      BY <1>1, <1>2, <3>1, FreshStays
    <3>5. SidesIn(rows', r.rec) = SidesIn(rows, r.rec)
      BY <1>2, <3>1, SidesStay
    <3>6. ASSUME NEW kept, store[r.id] # None, kept = store[r.id].rec
          PROVE  SidesIn(rows', kept) = SidesIn(rows, kept)
      BY <1>2, <3>1, <3>6, SidesStay DEF Inv, Kept
    <3>7. store[r.id] # None =>
            SidesIn(rows', store[r.id].rec) = SidesIn(rows, store[r.id].rec)
      BY <3>6
    <3> QED BY <1>1, <1>3, <3>2, <3>3, <3>4, <3>5, <3>7 DEF Held, Working, OnTheBusiness
  <2> QED BY <2>1, <2>2
<1>4. \A s \in Slot : req'[s] # None => Lone(req[s])' /\ Held(req[s])'
  <2> SUFFICES ASSUME NEW s \in Slot, req[s] # None, NEW r, r = req[s]
               PROVE  Lone(r)' /\ Held(r)'
    BY <1>1 DEF Lone, Held, Fresh, Siblings, Family, SidesIn
  <2> QED BY <1>3, LoneFacts
<1>5. JarFresh'
  <2>1. CASE \E q \in Slot : req[q] # None /\ req[q].at \in {"keep", "drop"}
    BY <1>1, <2>1 DEF JarFresh
  <2>2. CASE \A q \in Slot : req[q] # None => req[q].at \notin {"keep", "drop"}
    BY <1>1, <1>2, <2>2, JarStays
  <2> QED BY <2>1, <2>2
<1>6. Alone'
  BY <1>1 DEF One, Alone
<1> QED BY <1>2, <1>4, <1>5, <1>6 DEF One

-----------------------------------------------------------------------------
(* ... and the steps that write the store.                                  *)


LEMMA SendWithoutSessionAlone ==
  ASSUME Inv, One, width = 1, NEW s \in Slot, NEW kind \in Kinds, SendWithoutSession(s, kind)
  PROVE  One'
<1> DEFINE r == [kind |-> kind, at |-> "mint", start |-> now, id |-> 0,
                 rec |-> None, fresh |-> 0, mine |-> {}]
<1>1. \A q \in Slot : req[q] = None
  BY Idling DEF SendWithoutSession, One
<1>2. UNCHANGED <<rows, ended, lost, barred, width>>
  BY DEF SendWithoutSession, tokens, outside
<1>3. req'[s] \in {None, r} /\ \A q \in Slot \ {s} : req'[q] = None
  BY <1>1 DEF SendWithoutSession, Inv, TypeOK
<1>4. req'[s] # None => Lone(req[s])' /\ Held(req[s])'
  BY <1>3 DEF Lone, Held
<1>5. JarFresh'
  <2> SUFFICES ASSUME jar'.id \in Ids, store'[jar'.id] # None
               PROVE  Fresh(store[jar.id].rec)'
    BY DEF JarFresh
  <2>1. jar' = jar
    BY DEF SendWithoutSession, NoCookie, Ids
  <2>2. store'[jar.id] = store[jar.id]
    BY <2>1 DEF SendWithoutSession
  <2>3. Fresh(store[jar.id].rec)
    BY <1>1, <2>1, <2>2 DEF One, JarFresh
  <2> QED BY <1>2, <2>1, <2>2, <2>3 DEF Fresh, Family
<1> QED BY <1>2, <1>3, <1>4, <1>5, RowsStand

LEMMA MintAlone ==
  ASSUME Inv, One, width = 1, NEW s \in Slot, Mint(s)
  PROVE  One'
<1>1. \A q \in Slot \ {s} : req[q] = None
  BY LoneFacts DEF Mint, At
<1>2. req'[s] = None /\ \A q \in Slot \ {s} : req'[q] = None
  BY <1>1 DEF Mint, Finish, Inv, TypeOK
<1>3. jar'.id = nextId /\ nextId \in Ids /\ store'[nextId].rec = Seed
  BY Constants DEF Mint, Ids, Inv, TypeOK
<1>4. JarFresh'
  BY <1>3 DEF JarFresh, Fresh, Seed
<1> QED BY <1>2, <1>4, RowsStand DEF Mint, tokens, browser, outside

LEMMA KeepAlone ==
  ASSUME Inv, One, width = 1, NEW s \in Slot, Keep(s)
  PROVE  One'
<1>1. /\ req[s] # None /\ req[s].at = "keep" /\ req[s] \in Request
      /\ Lone(req[s]) /\ Held(req[s]) /\ req[s].id \in Ids
      /\ \A q \in Slot \ {s} : req[q] = None
  BY LoneFacts DEF Keep, At
<1> SUFFICES ASSUME NEW r, r = [req[s] EXCEPT !.at = "save"] PROVE One'
  OBVIOUS
<1>2. /\ r.at = "save" /\ r.id = req[s].id /\ r.rec = req[s].rec
  BY <1>1 DEF Request
<1>3. UNCHANGED <<jar, rows, ended, lost, barred, width>>
  BY DEF Keep, tokens, browser, outside
<1>4. store'[r.id].rec = r.rec
  BY <1>1, <1>2 DEF Keep, Entry, Inv, TypeOK
<1>5. req'[s] = r /\ \A q \in Slot \ {s} : req'[q] = None
  BY <1>1 DEF Keep, Goto, Inv, TypeOK
<1>6. Lone(r)'
  BY <1>1, <1>2, <1>3 DEF Lone
<1>7. Fresh(r.rec)'
  BY <1>1, <1>2, <1>3 DEF Held, Fresh, Family
<1>8. Held(r)'
  BY <1>2, <1>4, <1>7 DEF Held
<1>9. JarFresh'
  <2>1. jar'.id = r.id
    BY <1>1, <1>2, <1>3 DEF Lone
  <2> QED BY <1>4, <1>7, <2>1 DEF JarFresh, Fresh, Family
<1> QED BY <1>3, <1>5, <1>6, <1>8, <1>9, RowsStand

LEMMA SaveAlone ==
  ASSUME Inv, One, width = 1, NEW s \in Slot, Save(s)
  PROVE  One'
<1>1. /\ req[s] # None /\ req[s].at = "save" /\ req[s].id \in Ids
      /\ Lone(req[s]) /\ Held(req[s]) /\ \A q \in Slot \ {s} : req[q] = None
  BY LoneFacts DEF Save, At
<1>2. UNCHANGED <<jar, rows, ended, lost, barred, width>>
  BY DEF Save, tokens, browser, outside
<1>3. \A q \in Slot : req'[q] = None
  BY <1>1 DEF Save, Finish, Inv, TypeOK
<1>4. \/ store' = store
      \/ store'[jar.id] = None
      \/ store'[jar.id].rec = req[s].rec
  BY <1>1 DEF Save, Entry, Inv, TypeOK, Lone
<1>5. JarFresh'
  <2> SUFFICES ASSUME jar.id \in Ids, store'[jar.id] # None
               PROVE  Fresh(store[jar.id].rec)'
    BY <1>2 DEF JarFresh
  <2>1. CASE store' = store
    <3>1. Fresh(store[jar.id].rec)
      BY <1>1, <2>1 DEF One, JarFresh
    <3> QED BY <1>2, <2>1, <3>1 DEF Fresh, Family
  <2>2. CASE store'[jar.id].rec = req[s].rec
    BY <1>1, <1>2, <2>2 DEF Held, Fresh, Family
  <2> QED BY <1>4, <2>1, <2>2
<1> QED BY <1>2, <1>3, <1>5, RowsStand

\* What a sign-out leaves is the record without the side it signed out of.
LEMMA RemainingFacts ==
  ASSUME NEW r \in Request, r.rec \in Record
  PROVE  LET left == Remaining(r) IN
         /\ left \in Record
         /\ left.consumer = IF r.kind = "businessLogout" THEN r.rec.consumer ELSE None
         /\ left.business = IF r.kind = "consumerLogout" THEN r.rec.business ELSE None
<1>1. [r.rec EXCEPT !.business = None] \in Record /\ [r.rec EXCEPT !.consumer = None] \in Record
      /\ [r.rec EXCEPT !.business = None, !.consumer = None] \in Record
  BY DEF Record
<1>2. CASE r.kind = "businessLogout"
  <2>1. Remaining(r) = [r.rec EXCEPT !.business = None]
    BY <1>2 DEF Remaining
  <2> QED BY <1>1, <1>2, <2>1 DEF Record
<1>3. CASE r.kind = "consumerLogout"
  <2>1. Remaining(r) = [r.rec EXCEPT !.consumer = None]
    BY <1>3 DEF Remaining
  <2> QED BY <1>1, <1>3, <2>1 DEF Record
<1>4. CASE r.kind \notin {"businessLogout", "consumerLogout"}
  <2>1. Remaining(r) = [r.rec EXCEPT !.business = None, !.consumer = None]
    BY <1>4 DEF Remaining
  <2> QED BY <1>1, <1>4, <2>1 DEF Record
<1> QED BY <1>2, <1>3, <1>4

LEMMA DropAlone ==
  ASSUME Inv, One, width = 1, NEW s \in Slot, Drop(s)
  PROVE  One'
<1> DEFINE left == Remaining(req[s])
<1>1. /\ req[s] # None /\ req[s].at = "drop" /\ req[s] \in Request
      /\ Lone(req[s]) /\ Held(req[s]) /\ req[s].id \in Ids /\ req[s].rec \in Record
      /\ \A q \in Slot \ {s} : req[q] = None
  BY LoneFacts DEF Drop, At
<1>2. UNCHANGED <<rows, ended, lost, barred, width>>
  BY DEF Drop, tokens, browser, outside
<1>3. \A q \in Slot : req'[q] = None
  BY <1>1 DEF Drop, Finish, Inv, TypeOK
<1>4. JarFresh'
  <2> SUFFICES ASSUME jar'.id \in Ids, store'[jar'.id] # None
               PROVE  Fresh(store[jar.id].rec)'
    BY DEF JarFresh
  <2>1. jar' = jar /\ HasAnyAuthority(left)
    BY DEF Drop, NoCookie, Ids
  <2>2. store'[jar.id].rec = left
    BY <1>1, <2>1 DEF Drop, Entry, Lone, Inv, TypeOK
  <2>3. left.business = IF req[s].kind = "consumerLogout" THEN req[s].rec.business ELSE None
    BY <1>1, RemainingFacts
  <2> HIDE DEF left
  <2> QED BY <1>1, <1>2, <2>1, <2>2, <2>3 DEF Fresh, Family, Held
<1> QED BY <1>2, <1>3, <1>4, RowsStand

LEMMA RotateAlone ==
  ASSUME Inv, One, width = 1, NEW s \in Slot, Rotate(s)
  PROVE  One'
<1>1. /\ req[s] # None /\ req[s].at = "rotate" /\ req[s] \in Request
      /\ Lone(req[s]) /\ Held(req[s]) /\ req[s].id \in Ids /\ req[s].id < nextId
      /\ \A q \in Slot \ {s} : req[q] = None
  BY LoneFacts, AtFacts DEF Rotate, At
<1> SUFFICES ASSUME NEW r, r = [req[s] EXCEPT !.fresh = nextId, !.at = "retire"] PROVE One'
  OBVIOUS
<1>2. r.at = "retire" /\ r.id = req[s].id /\ r.rec = req[s].rec /\ r.fresh = nextId
  BY <1>1 DEF Request
<1>3. UNCHANGED <<jar, rows, ended, lost, barred, width>>
  BY DEF Rotate, tokens, browser, outside
<1>4. nextId \in Ids /\ store'[nextId].rec = req[s].rec
  BY Constants DEF Rotate, Entry, Ids, Inv, TypeOK
<1>5. req'[s] = r /\ \A q \in Slot \ {s} : req'[q] = None
  BY <1>1 DEF Rotate, Inv, TypeOK
<1>6. Lone(r)'
  BY <1>1, <1>2, <1>3, <1>4 DEF Lone
<1>7. Held(r)'
  BY <1>1, <1>2, <1>3 DEF Held, Fresh, Family
<1>8. store'[jar.id] = store[jar.id]
  BY <1>1, Constants DEF Lone, Rotate, Inv, TypeOK, Ids
<1>9. JarFresh'
  <2> SUFFICES ASSUME jar.id \in Ids, store[jar.id] # None
               PROVE  Fresh(store[jar.id].rec)'
    BY <1>3, <1>8 DEF JarFresh
  <2>1. Fresh(store[jar.id].rec)
    BY <1>1 DEF One, JarFresh
  <2> QED BY <1>3, <1>8, <2>1 DEF Fresh, Family
<1> QED BY <1>3, <1>5, <1>6, <1>7, <1>9, RowsStand

LEMMA RetireAlone ==
  ASSUME Inv, One, width = 1, NEW s \in Slot, Retire(s)
  PROVE  One'
<1>1. /\ req[s] # None /\ req[s].at = "retire" /\ req[s].id \in Ids
      /\ Lone(req[s]) /\ Held(req[s]) /\ \A q \in Slot \ {s} : req[q] = None
  BY LoneFacts DEF Retire, At
<1>2. UNCHANGED <<rows, ended, lost, barred, width>>
  BY DEF Retire, tokens, browser, outside
<1>3. \A q \in Slot : req'[q] = None
  BY <1>1 DEF Retire, Finish, Inv, TypeOK
<1>4. jar'.id = req[s].fresh /\ store'[req[s].fresh] \in {None, store[req[s].fresh]}
  BY <1>1 DEF Retire, Lone, Inv, TypeOK
<1>5. JarFresh'
  <2> SUFFICES ASSUME store'[jar'.id] # None
               PROVE  Fresh(store[jar.id].rec)'
    BY DEF JarFresh
  <2>1. store'[jar'.id].rec = req[s].rec /\ Fresh(req[s].rec)
    BY <1>1, <1>4 DEF Lone, Held
  <2> QED BY <1>2, <2>1 DEF Fresh, Family
<1> QED BY <1>2, <1>3, <1>5, RowsStand

LEMMA NextOne == Inv /\ Gateway /\ One /\ [Next]_vars => One'
<1> SUFFICES ASSUME Inv, Gateway, One, [Next]_vars PROVE One'
  OBVIOUS
<1>1. CASE Tick \/ UNCHANGED vars
  <2>1. UNCHANGED <<store, jar, rows, req, width, lost, ended, barred>>
    BY <1>1 DEF Tick, vars, tokens, browser, outside
  <2>2. (Alone => Alone') /\ (SignOutEndsTheSignIn => SignOutEndsTheSignIn')
    BY <2>1 DEF Alone, SignOutEndsTheSignIn, Issued, Family
  <2>3. \A r : Lone(r) => Lone(r)'
    BY <2>1 DEF Lone, Siblings, Issued, Family
  <2>4. \A r : Held(r) => Held(r)'
    BY <2>1 DEF Held, Fresh, Family, SidesIn
  <2>5. JarFresh => JarFresh'
    BY <2>1 DEF JarFresh, Fresh, Family
  <2> QED BY <2>1, <2>2, <2>3, <2>4, <2>5 DEF One
<1>2. CASE Outside
  <2>1. width' = width
    BY <1>2 DEF Outside, Bar, SweepBegins, SweepEnds, SweepFails, browser
  <2> QED BY <1>2, <2>1, OutsideAlone DEF One
<1>3. ASSUME NEW s \in Slot, Step(s) PROVE One'
  <2>1. width' = width
    BY <1>3 DEF Step, Send, SendWithoutSession, Mint, Unreachable, Call, BusinessCall,
      SignInConsumer, SignInBusiness, SignInLost, RenewRefused, RenewReused, RenewDenied,
      RenewLocks, RenewFails, RenewCommits, RefusalEnds, EndBegins, SignOutEnds, SignOutLost,
      EndFails, EndConsumer, Keep, Save, Drop, Rotate, Retire, browser
  <2>2. CASE width # 1
    BY <2>1, <2>2 DEF One
  <2>3. CASE width = 1
    <3>1. ASSUME NEW kind \in Kinds, Send(s, kind) \/ SendWithoutSession(s, kind) PROVE One'
      BY <2>3, <3>1, SendAlone, SendWithoutSessionAlone
    <3>2. CASE Mint(s) \/ Rotate(s) \/ Retire(s)
      BY <2>3, <3>2, MintAlone, RotateAlone, RetireAlone
    <3>3. CASE \/ Unreachable(s) \/ Call(s) \/ BusinessCall(s)
               \/ RenewLocks(s) \/ RenewFails(s) \/ EndFails(s) \/ EndConsumer(s)
      BY <2>3, <3>3, CallsAlone
    <3>4. CASE SignInConsumer(s) \/ SignInBusiness(s) \/ SignInLost(s)
      BY <2>3, <3>4, SignInConsumerAlone, BusinessSignsInAlone, SignInLostAlone
    <3>5. CASE RenewRefused(s) \/ RenewReused(s) \/ RenewDenied(s) \/ EndBegins(s)
      BY <2>3, <3>5, RefusedAlone, RevokingAlone
    <3>6. ASSUME NEW arrives \in BOOLEAN, RenewCommits(s, arrives) \/ RefusalEnds(s, arrives)
          PROVE  One'
      BY <2>3, <3>6, RenewCommitsAlone, RefusalEndsAlone
    <3>7. CASE SignOutEnds(s) \/ SignOutLost(s)
      BY <2>3, <3>7, SignOutEndsAlone, SignOutLostAlone
    <3>8. CASE Keep(s) \/ Save(s) \/ Drop(s)
      BY <2>3, <3>8, KeepAlone, SaveAlone, DropAlone
    <3> QED BY <1>3, <3>1, <3>2, <3>3, <3>4, <3>5, <3>6, <3>7, <3>8 DEF Step
  <2> QED BY <2>2, <2>3
<1> QED BY <1>1, <1>2, <1>3 DEF Next

LEMMA InitOne == Init => One
BY DEF Init, One, Issued, Alone, JarFresh, NoCookie, Ids, SignOutEndsTheSignIn

\* To a browser that makes one request at a time, a sign-out of the business that was
\* answered has revoked every refresh token of the sign-in (End's UPDATE sees the whole
\* family); and the gateway revokes one for no other reason than that the business was
\* barred or that an answer about the sign-in was lost.
THEOREM SignOut == Spec => []SignOutEndsTheSignIn
<1>1. One => SignOutEndsTheSignIn
  BY DEF One, SignOutEndsTheSignIn
<1> QED BY <1>1, InitOne, NextOne, InitGateway, NextGateway, Invariant, PTL DEF Spec

-----------------------------------------------------------------------------
(* One request at a time: WebSession implements SignedIn.                   *)

Nothing == <<FALSE, None>>

\* What the cookie stands for between requests.
OfTheCookie == IF Loads(Cookie) THEN SidesIn(rows, store[Cookie].rec) ELSE Nothing

HeldSides == <<HeldConsumer, HeldBusiness>>

LEMMA ChooseOnly ==
  ASSUME NEW S, NEW s \in S, NEW P, P = {s}
  PROVE  (CHOOSE q \in S : q \in P) = s
OBVIOUS

\* The only request has a session: the sides are those of its record ...
LEMMA WorkingHolds ==
  ASSUME NEW s \in Slot, \A q \in Slot \ {s} : req[q] = None,
         req[s] # None, req[s].rec # None
  PROVE  HeldSides = SidesIn(rows, req[s].rec) /\ Asking = req[s].kind
<1> DEFINE W == {q \in Slot : req[q] # None /\ req[q].rec # None}
           B == {q \in Slot : req[q] # None}
<1>1. W = {s} /\ B = {s}
  OBVIOUS
<1>2. HeldRecord = IF W # {} THEN req[CHOOSE q \in Slot : q \in W].rec
                   ELSE IF Loads(Cookie) THEN store[Cookie].rec ELSE Seed
  BY DEF HeldRecord
<1>3. Asking = IF B = {} THEN None ELSE req[CHOOSE q \in Slot : q \in B].kind
  BY DEF Asking, Busy
<1> HIDE DEF W, B
<1>4. (CHOOSE q \in Slot : q \in W) = s /\ (CHOOSE q \in Slot : q \in B) = s
  BY <1>1, ChooseOnly
<1>5. HeldRecord = req[s].rec
  BY <1>1, <1>2, <1>4
<1> QED BY <1>1, <1>3, <1>4, <1>5 DEF HeldSides, HeldConsumer, HeldBusiness, SidesIn, Family

LEMMA WorkingHoldsNext ==
  ASSUME NEW s \in Slot, \A q \in Slot \ {s} : req'[q] = None,
         req'[s] # None, req'[s].rec # None
  PROVE  HeldSides' = SidesIn(rows', req'[s].rec) /\ Asking' = req'[s].kind
<1> DEFINE W == {q \in Slot : req'[q] # None /\ req'[q].rec # None}
           B == {q \in Slot : req'[q] # None}
<1>1. W = {s} /\ B = {s}
  OBVIOUS
<1>2. HeldRecord' = IF W # {} THEN req'[CHOOSE q \in Slot : q \in W].rec
                    ELSE IF Loads(Cookie)' THEN store'[Cookie'].rec ELSE Seed'
  BY DEF HeldRecord
<1>3. Asking' = IF B = {} THEN None ELSE req'[CHOOSE q \in Slot : q \in B].kind
  BY DEF Asking, Busy
<1> HIDE DEF W, B
<1>4. (CHOOSE q \in Slot : q \in W) = s /\ (CHOOSE q \in Slot : q \in B) = s
  BY <1>1, ChooseOnly
<1>5. HeldRecord' = req'[s].rec
  BY <1>1, <1>2, <1>4
<1> QED BY <1>1, <1>3, <1>4, <1>5 DEF HeldSides, HeldConsumer, HeldBusiness, SidesIn, Family

\* ... and when it has none yet, or there is no request, those the cookie stands for.
LEMMA CookieHolds ==
  ASSUME {q \in Slot : req[q] # None /\ req[q].rec # None} = {}
  PROVE  HeldSides = OfTheCookie
<1>1. HeldRecord = IF Loads(Cookie) THEN store[Cookie].rec ELSE Seed
  BY DEF HeldRecord
<1>2. CASE Loads(Cookie)
  <2>1. HeldRecord = store[Cookie].rec /\ OfTheCookie = SidesIn(rows, store[Cookie].rec)
    BY <1>1, <1>2 DEF OfTheCookie
  <2> QED BY <2>1 DEF HeldSides, HeldConsumer, HeldBusiness, SidesIn, Family
<1>3. CASE ~ Loads(Cookie)
  <2>1. HeldRecord.consumer = None /\ HeldRecord.business = None /\ OfTheCookie = Nothing
    BY <1>1, <1>3 DEF OfTheCookie, Seed
  <2> QED BY <2>1 DEF HeldSides, HeldConsumer, HeldBusiness, Nothing
<1> QED BY <1>2, <1>3

LEMMA CookieHoldsNext ==
  ASSUME {q \in Slot : req'[q] # None /\ req'[q].rec # None} = {}
  PROVE  HeldSides' = OfTheCookie'
<1>1. HeldRecord' = IF Loads(Cookie)' THEN store'[Cookie'].rec ELSE Seed'
  BY DEF HeldRecord
<1>2. CASE Loads(Cookie)'
  <2>1. HeldRecord' = store'[Cookie'].rec /\ OfTheCookie' = SidesIn(rows', store'[Cookie'].rec)
    BY <1>1, <1>2 DEF OfTheCookie, SidesIn
  <2> QED BY <2>1 DEF HeldSides, HeldConsumer, HeldBusiness, SidesIn, Family
<1>3. CASE ~ Loads(Cookie)'
  <2>1. HeldRecord'.consumer = None /\ HeldRecord'.business = None /\ OfTheCookie' = Nothing
    BY <1>1, <1>3 DEF OfTheCookie, Seed, Nothing
  <2> QED BY <2>1 DEF HeldSides, HeldConsumer, HeldBusiness, Nothing
<1> QED BY <1>2, <1>3

LEMMA MintingHolds ==
  ASSUME NEW s \in Slot, \A q \in Slot \ {s} : req[q] = None,
         req[s] # None, req[s].rec = None
  PROVE  HeldSides = OfTheCookie /\ Asking = req[s].kind
<1> DEFINE B == {q \in Slot : req[q] # None}
<1>1. {q \in Slot : req[q] # None /\ req[q].rec # None} = {} /\ B = {s}
  OBVIOUS
<1>2. HeldSides = OfTheCookie
  BY <1>1, CookieHolds
<1>3. Asking = IF B = {} THEN None ELSE req[CHOOSE q \in Slot : q \in B].kind
  BY DEF Asking, Busy
<1> HIDE DEF B
<1>4. (CHOOSE q \in Slot : q \in B) = s
  BY <1>1, ChooseOnly
<1> QED BY <1>1, <1>2, <1>3, <1>4

LEMMA MintingHoldsNext ==
  ASSUME NEW s \in Slot, \A q \in Slot \ {s} : req'[q] = None,
         req'[s] # None, req'[s].rec = None
  PROVE  HeldSides' = OfTheCookie' /\ Asking' = req'[s].kind
<1> DEFINE B == {q \in Slot : req'[q] # None}
<1>1. {q \in Slot : req'[q] # None /\ req'[q].rec # None} = {} /\ B = {s}
  OBVIOUS
<1>2. HeldSides' = OfTheCookie'
  BY <1>1, CookieHoldsNext
<1>3. Asking' = IF B = {} THEN None ELSE req'[CHOOSE q \in Slot : q \in B].kind
  BY DEF Asking, Busy
<1> HIDE DEF B
<1>4. (CHOOSE q \in Slot : q \in B) = s
  BY <1>1, ChooseOnly
<1> QED BY <1>1, <1>2, <1>3, <1>4

\* Nothing is asked.
LEMMA IdleHolds ==
  ASSUME \A q \in Slot : req[q] = None
  PROVE  HeldSides = OfTheCookie /\ Asking = None
<1>1. {q \in Slot : req[q] # None /\ req[q].rec # None} = {} /\ {q \in Slot : req[q] # None} = {}
  OBVIOUS
<1>2. Asking = None
  BY <1>1 DEF Asking, Busy
<1> QED BY <1>1, <1>2, CookieHolds

LEMMA IdleHoldsNext ==
  ASSUME \A q \in Slot : req'[q] = None
  PROVE  HeldSides' = OfTheCookie' /\ Asking' = None
<1>1. {q \in Slot : req'[q] # None /\ req'[q].rec # None} = {} /\ {q \in Slot : req'[q] # None} = {}
  OBVIOUS
<1>2. Asking' = None
  BY <1>1 DEF Asking, Busy
<1> QED BY <1>1, <1>2, CookieHoldsNext

\* The cookie stands for what is stored behind the id in the jar, or for nothing.
LEMMA OfTheCookieFacts ==
  OfTheCookie' # Nothing =>
    /\ jar'.id \in Ids /\ store'[jar'.id] # None
    /\ OfTheCookie' = SidesIn(rows', store'[jar'.id].rec)
<1>1. Cookie' \in {jar'.id, 0} /\ 0 \notin Ids
  BY DEF Cookie, Ids
<1>2. OfTheCookie' # Nothing => Cookie' \in Ids /\ store'[Cookie'] # None
                          /\ OfTheCookie' = SidesIn(rows', store'[Cookie'].rec)
  BY DEF OfTheCookie, Loads, Stored, SidesIn, Nothing
<1> QED BY <1>1, <1>2

\* A step that SignedIn takes.
Implemented == SignedInAs!Next

\* What the gateway may end on its own it may end for good.
Onward == barred \cup lost \subseteq barred' \cup lost'

\* SignedIn's steps, said of the pair of sides.
LEMMA Steadies ==
  ASSUME Onward, UNCHANGED <<HeldSides, Asking>>
  PROVE  Implemented
BY DEF Onward, Implemented, HeldSides, SignedInAs!Next, SignedInAs!sides

LEMMA Answers ==
  ASSUME Onward, Asking # None, Asking' = None, HeldSides' = HeldSides
  PROVE  Implemented
BY DEF Onward, Implemented, HeldSides, SignedInAs!Next, SignedInAs!sides, SignedInAs!Answered

LEMMA Asks ==
  ASSUME Onward, Asking = None, Asking' # None, HeldSides' = HeldSides
  PROVE  Implemented
BY DEF Onward, Implemented, HeldSides, SignedInAs!Next, SignedInAs!sides, SignedInAs!Ask

LEMMA Lapses ==
  ASSUME Onward, Asking' \in {Asking, None}, HeldSides' = Nothing
  PROVE  Implemented
BY DEF Onward, Implemented, HeldSides, Nothing, SignedInAs!Next, SignedInAs!sides,
       SignedInAs!Lapse

\* The request goes on.
LEMMA GoesOn ==
  ASSUME Inv, One, width = 1, Onward, NEW s \in Slot, req[s] # None, req[s].at # "mint",
         NEW r \in Request, r.rec \in Record, req' = [req EXCEPT ![s] = r],
         r.kind = req[s].kind, SidesIn(rows', r.rec) = SidesIn(rows, req[s].rec)
  PROVE  Implemented
<1>1. /\ \A q \in Slot \ {s} : req[q] = None
      /\ req[s].rec \in Record
  BY LoneFacts
<1>2. req'[s] = r /\ \A q \in Slot \ {s} : req'[q] = None
  BY <1>1 DEF Inv, TypeOK
<1>3. HeldSides = SidesIn(rows, req[s].rec) /\ Asking = req[s].kind
  BY <1>1, NoneIsNothing, WorkingHolds
<1>4. HeldSides' = SidesIn(rows', r.rec) /\ Asking' = r.kind
  BY <1>2, NoneIsNothing, WorkingHoldsNext
<1> QED BY <1>3, <1>4, Steadies

LEMMA GoesOnTo ==
  ASSUME Inv, One, width = 1, Onward, Kin, NEW s \in Slot, req[s] # None, req[s].at # "mint",
         NEW step \in Steps, Goto(s, step)
  PROVE  Implemented
<1> SUFFICES ASSUME NEW was, was = req[s].rec,
                    NEW r, r = [req[s] EXCEPT !.at = step]
             PROVE Implemented
  OBVIOUS
<1>1. req[s] \in Request /\ was \in Record /\ Sound(was)
  BY AtFacts
<1>2. r \in Request /\ r.rec = was /\ r.kind = req[s].kind
  BY <1>1 DEF Request
<1>3. req' = [req EXCEPT ![s] = r]
  BY DEF Goto
<1>4. SidesIn(rows', was) = SidesIn(rows, was)
  BY <1>1, SidesStay
<1> QED BY <1>1, <1>2, <1>3, <1>4, GoesOn

\* The request is answered, and what is stored behind the jar has the sides it had;
\* or the cookie stands for nothing any more.
LEMMA IsOver ==
  ASSUME Inv, One, width = 1, Onward, NEW s \in Slot, req[s] # None, req[s].at # "mint",
         \A q \in Slot : req'[q] = None,
         jar'.id \in Ids /\ store'[jar'.id] # None =>
           SidesIn(rows', store'[jar'.id].rec) = SidesIn(rows, req[s].rec)
  PROVE  Implemented
<1>1. /\ \A q \in Slot \ {s} : req[q] = None
      /\ req[s].rec \in Record /\ req[s] \in Request
  BY LoneFacts
<1>2. HeldSides = SidesIn(rows, req[s].rec) /\ Asking = req[s].kind /\ Asking # None
  BY <1>1, NoneIsNothing, WorkingHolds DEF Request
<1>3. HeldSides' = OfTheCookie' /\ Asking' = None
  BY IdleHoldsNext
<1>4. HeldSides' \in {Nothing, HeldSides}
  BY <1>2, <1>3, OfTheCookieFacts
<1> QED BY <1>2, <1>3, <1>4, Answers, Lapses

\* The request is answered, and the store and the jar are as they were.
LEMMA IsOverUnwritten ==
  ASSUME Inv, One, width = 1, Onward, Kin, NEW s \in Slot, req[s] # None,
         req[s].at \notin {"mint", "keep", "rotate", "retire"},
         \A q \in Slot : req'[q] = None, UNCHANGED <<store, jar>>
  PROVE  Implemented
<1> SUFFICES ASSUME NEW was, was = req[s].rec PROVE Implemented
  OBVIOUS
<1>1. Lone(req[s]) /\ Held(req[s]) /\ req[s].id = jar.id /\ req[s].id \in Ids /\ Sound(was)
  BY LoneFacts, AtFacts DEF Lone
<1>2. ASSUME NEW kept, store[jar.id] # None, kept = store[jar.id].rec
      PROVE  SidesIn(rows', kept) = SidesIn(rows, was)
  <2>1. SidesIn(rows, kept) = SidesIn(rows, was)
    BY <1>1, <1>2 DEF Held
  <2>2. Sound(kept)
    BY <1>1, <1>2 DEF Inv, Kept
  <2> QED BY <2>1, <2>2, SidesStay
<1>3. store[jar.id] # None => SidesIn(rows', store[jar.id].rec) = SidesIn(rows, was)
  BY <1>2
<1> QED BY <1>3, IsOver

\* A step that leaves the rows and what is lost or barred alone.
LEMMA Still ==
  ASSUME UNCHANGED <<rows, lost, barred>>
  PROVE  Onward /\ Kin
BY DEF Onward, Kin, Issued

LEMMA SendImplements ==
  ASSUME Inv, One, width = 1, NEW s \in Slot, NEW kind \in Kinds, Send(s, kind)
  PROVE  Implemented
<1> DEFINE rec == store[Cookie].rec
           r == [kind |-> kind, at |-> FirstStep(kind, rec), start |-> now, id |-> Cookie,
                 rec |-> rec, fresh |-> 0, mine |-> {}]
<1>0. Onward /\ rows' = rows
  BY DEF Send, Onward, outside, tokens
<1>1. \A q \in Slot : req[q] = None
  BY Idling DEF Send, One
<1>2. HeldSides = OfTheCookie /\ Asking = None /\ OfTheCookie = SidesIn(rows, rec)
  BY <1>1, IdleHolds DEF OfTheCookie, Send
<1>3. CASE Admits(kind, rec)
  <2>1. req' = [req EXCEPT ![s] = r]
    BY <1>3 DEF Send
  <2>2. req'[s] = r /\ r.rec = rec /\ r.kind = kind /\ \A q \in Slot \ {s} : req'[q] = None
    BY <1>1, <2>1 DEF Inv, TypeOK
  <2>3. rec \in Record /\ Cookie \in 0 .. MaxIds /\ now \in Time
    BY LoadedFacts, Constants DEF Send, Sound, Ids, Inv, TypeOK
  <2>4. r # None
    <3> DEFINE at == FirstStep(kind, rec)
    <3>1. at \in Steps /\ 0 \in 0 .. MaxIds
      BY Constants DEF FirstStep, Steps
    <3> HIDE DEF rec, at
    <3>2. r = [kind |-> kind, at |-> at, start |-> now, id |-> Cookie,
               rec |-> rec, fresh |-> 0, mine |-> {}]
      BY DEF at
    <3> HIDE DEF r
    <3>3. r \in Request
      BY <2>3, <3>1, <3>2 DEF Request
    <3> QED BY <3>3, NoneIsNothing
  <2> HIDE DEF r, rec
  <2>5. HeldSides' = SidesIn(rows', rec) /\ Asking' = kind
    BY <2>2, <2>3, <2>4, NoneIsNothing, WorkingHoldsNext
  <2> QED BY <1>0, <1>2, <2>5, NoneIsNothing, Asks
<1>4. CASE ~ Admits(kind, rec)
  <2>1. req' = req
    BY <1>4 DEF Send
  <2>2. HeldSides' = OfTheCookie' /\ Asking' = None
    BY <1>1, <2>1, IdleHoldsNext
  <2>3. OfTheCookie' = OfTheCookie
    BY <1>0 DEF Send, OfTheCookie, Loads, Stored, Cookie, SidesIn, HasAnyAuthority
  <2> QED BY <1>0, <1>2, <2>2, <2>3, Steadies
<1> QED BY <1>3, <1>4

LEMMA SendWithoutSessionImplements ==
  ASSUME Inv, One, width = 1, NEW s \in Slot, NEW kind \in Kinds, SendWithoutSession(s, kind)
  PROVE  Implemented
<1> DEFINE r == [kind |-> kind, at |-> "mint", start |-> now, id |-> 0,
                 rec |-> None, fresh |-> 0, mine |-> {}]
<1>0. Onward
  BY DEF SendWithoutSession, Onward, outside
<1>1. \A q \in Slot : req[q] = None
  BY Idling DEF SendWithoutSession, One
<1>2. HeldSides = Nothing /\ Asking = None
  BY <1>1, IdleHolds DEF OfTheCookie, SendWithoutSession
<1>3. OfTheCookie' = Nothing
  <2>1. now' = now /\ jar' \in {jar, NoCookie} /\ (Cookie \in Ids => store'[Cookie] = None)
    BY DEF SendWithoutSession
  <2>2. Cookie' \in {Cookie, 0} /\ 0 \notin Ids
    BY <2>1 DEF Cookie, NoCookie, Ids
  <2>3. ~ Stored(Cookie)'
    BY <2>1, <2>2 DEF Stored
  <2> QED BY <2>3 DEF OfTheCookie, Loads, Stored, Nothing
<1>4. req'[s] \in {None, r} /\ \A q \in Slot \ {s} : req'[q] = None
  BY <1>1 DEF SendWithoutSession, Inv, TypeOK
<1>5. CASE req'[s] = None
  <2>1. HeldSides' = OfTheCookie' /\ Asking' = None
    BY <1>4, <1>5, IdleHoldsNext
  <2> QED BY <1>0, <1>2, <1>3, <2>1, Steadies
<1>6. CASE req'[s] # None
  <2>1. req'[s].rec = None /\ req'[s].kind = kind
    BY <1>4, <1>6
  <2>2. HeldSides' = OfTheCookie' /\ Asking' = kind
    BY <1>4, <1>6, <2>1, MintingHoldsNext
  <2> QED BY <1>0, <1>2, <1>3, <2>2, NoneIsNothing, Asks
<1> QED BY <1>5, <1>6

LEMMA MintImplements ==
  ASSUME Inv, One, width = 1, NEW s \in Slot, Mint(s)
  PROVE  Implemented
<1>0. Onward
  BY DEF Mint, Onward, outside
<1>1. \A q \in Slot \ {s} : req[q] = None
  BY LoneFacts DEF Mint, At
<1>2. \A q \in Slot : req'[q] = None
  BY <1>1 DEF Mint, Finish, Inv, TypeOK
<1>3. HeldSides' = OfTheCookie' /\ Asking' = None
  BY <1>2, IdleHoldsNext
<1>4. jar'.id = nextId /\ nextId \in Ids /\ store'[nextId].rec = Seed
  BY Constants DEF Mint, Ids, Inv, TypeOK
<1>5. SidesIn(rows', Seed) = Nothing
  BY DEF SidesIn, Nothing, Seed
<1>6. OfTheCookie' = Nothing
  BY <1>4, <1>5, OfTheCookieFacts
<1> QED BY <1>0, <1>3, <1>6, Lapses

LEMMA SignInConsumerImplements ==
  ASSUME Inv, One, width = 1, NEW s \in Slot, SignInConsumer(s)
  PROVE  Implemented
<1> DEFINE old == req[s].rec
           new == [preauth |-> FALSE, created |-> Began(old),
                   consumer |-> [since |-> now], business |-> old.business]
           r == [req[s] EXCEPT !.rec = new, !.at = "rotate"]
<1>0. Onward /\ rows' = rows
  BY DEF SignInConsumer, Onward, outside, tokens
<1>1. /\ req[s] # None /\ req[s].at = "proxy" /\ req[s] \in Request /\ old \in Record
      /\ req[s].kind = "consumerSignIn" /\ \A q \in Slot \ {s} : req[q] = None
  BY LoneFacts DEF SignInConsumer, At
<1>2. req' = [req EXCEPT ![s] = r]
  BY <1>1 DEF SignInConsumer, Request
<1>3. now \in Time /\ Began(old) \in Time
  BY <1>1 DEF Began, Record, Inv, TypeOK
<1>4. new.consumer \in Consumer /\ new \in Record /\ new.business = old.business
  BY <1>1, <1>3 DEF Record, Consumer
<1> HIDE DEF new
<1>5. r \in Request /\ r.rec = new /\ r.kind = "consumerSignIn"
  BY <1>1, <1>4 DEF Request, Steps
<1> HIDE DEF r
<1>6. req'[s] = r /\ \A q \in Slot \ {s} : req'[q] = None
  BY <1>1, <1>2 DEF Inv, TypeOK
<1>7. HeldSides = SidesIn(rows, old) /\ Asking = "consumerSignIn"
  BY <1>1, NoneIsNothing, WorkingHolds
<1>8. HeldSides' = SidesIn(rows', new) /\ Asking' = "consumerSignIn"
  BY <1>4, <1>5, <1>6, NoneIsNothing, WorkingHoldsNext
<1>9. HeldConsumer' /\ HeldBusiness' = HeldBusiness
  BY <1>0, <1>4, <1>7, <1>8, NoneIsNothing DEF HeldSides, SidesIn
<1>10. HeldConsumer' = TRUE
  BY <1>9 DEF HeldConsumer
<1>11. SignedInAs!EnterConsumer
  BY <1>7, <1>8, <1>9, <1>10 DEF SignedInAs!EnterConsumer, SignedInAs!During
<1> QED BY <1>0, <1>11 DEF Implemented, Onward, SignedInAs!Next

LEMMA SignInBusinessImplements ==
  ASSUME Inv, Gateway, One, width = 1, NEW s \in Slot, SignInBusiness(s)
  PROVE  Implemented
<1> DEFINE old == req[s].rec
           business == [refresh |-> nextToken, issued |-> now, since |-> now]
           new == [preauth |-> FALSE, created |-> Began(old), consumer |-> old.consumer,
                   business |-> business]
           r == [req[s] EXCEPT !.rec = new, !.at = "rotate"]
<1>0. Onward
  BY DEF SignInBusiness, Onward, outside
<1>1. /\ req[s] # None /\ req[s].at = "proxy" /\ req[s] \in Request
      /\ old \in Record /\ Sound(old)
      /\ req[s].kind = "businessSignIn" /\ \A q \in Slot \ {s} : req[q] = None
  BY LoneFacts, AtFacts DEF SignInBusiness, At
<1>2. req' = [req EXCEPT ![s] = r]
  BY <1>1 DEF SignInBusiness, Request
<1>3. /\ nextToken \in Tokens /\ nextToken \notin barred \cup lost
      /\ rows'[nextToken].family = nextToken
  BY OpensRows
<1>4. business \in Business /\ business.refresh = nextToken
  BY <1>3 DEF Business, Inv, TypeOK
<1> HIDE DEF business
<1>5. new \in Record /\ new.business = business /\ new.consumer = old.consumer
  <2>1. Began(old) \in Time
    BY <1>1 DEF Began, Record, Inv, TypeOK
  <2> QED BY <1>1, <1>4, <2>1 DEF Record
<1> HIDE DEF new
<1>6. r \in Request /\ r.rec = new /\ r.kind = "businessSignIn"
  BY <1>1, <1>5 DEF Request, Steps
<1> HIDE DEF r
<1>7. req'[s] = r /\ \A q \in Slot \ {s} : req'[q] = None
  BY <1>1, <1>2 DEF Inv, TypeOK
<1>8. HeldSides = SidesIn(rows, old) /\ Asking = "businessSignIn"
  BY <1>1, NoneIsNothing, WorkingHolds
<1>9. HeldSides' = SidesIn(rows', new) /\ Asking' = "businessSignIn"
  BY <1>5, <1>6, <1>7, NoneIsNothing, WorkingHoldsNext
<1>10. UNCHANGED HeldConsumer /\ HeldBusiness' = nextToken
  BY <1>3, <1>4, <1>5, <1>8, <1>9, NoneIsNothing DEF HeldSides, SidesIn
<1>11. HeldBusiness # nextToken
  <2>1. HeldBusiness = IF old.business = None THEN None ELSE rows[old.business.refresh].family
    BY <1>8 DEF HeldSides, SidesIn
  <2>2. nextToken # None /\ nextToken \in Nat
    BY <1>3, NoneAssumption, NumbersFacts
  <2>3. ASSUME old.business # None
        PROVE  /\ rows[old.business.refresh].family < nextToken
               /\ rows[old.business.refresh].family \in Nat
    <3>1. old.business.refresh \in Issued
      BY <1>1, <2>3, NoneIsNothing DEF Sound, Known, Record, Business, Issued
    <3>2. Family(old.business.refresh) < nextToken /\ Family(old.business.refresh) \in Nat
      BY <3>1, NumbersFacts DEF Gateway, Dated
    <3> QED BY <3>2 DEF Family
  <2> QED BY <2>1, <2>2, <2>3
<1>12. SignedInAs!EnterBusiness
  BY <1>3, <1>8, <1>9, <1>10, <1>11 DEF SignedInAs!EnterBusiness, SignedInAs!During
<1> QED BY <1>0, <1>12 DEF Implemented, Onward, SignedInAs!Next

\* The gateway has refused the renewal: the business side is gone, for a reason.
LEMMA ExpelledFrom ==
  ASSUME Inv, One, width = 1, Onward, NEW s \in Slot,
         req[s] # None, req[s].at # "mint", req[s].kind = "businessCall",
         req[s].rec.business # None,
         Family(Presented(s)) \in barred \cup lost, WithoutBusiness(s, "keep")
  PROVE  Implemented
<1> DEFINE old == req[s].rec
           new == [old EXCEPT !.business = None]
           r == [req[s] EXCEPT !.rec = new, !.at = "keep"]
<1>1. req[s] \in Request /\ old \in Record /\ \A q \in Slot \ {s} : req[q] = None
  BY LoneFacts
<1>2. req' = [req EXCEPT ![s] = r]
  BY <1>1 DEF WithoutBusiness, Request
<1>3. new \in Record /\ new.business = None /\ new.consumer = old.consumer
  BY <1>1 DEF Record
<1> HIDE DEF new
<1>4. r \in Request /\ r.rec = new /\ r.kind = "businessCall"
  BY <1>1, <1>3 DEF Request, Steps
<1> HIDE DEF r
<1>5. req'[s] = r /\ \A q \in Slot \ {s} : req'[q] = None
  BY <1>1, <1>2 DEF Inv, TypeOK
<1>6. HeldSides = SidesIn(rows, old) /\ Asking = "businessCall"
  BY <1>1, NoneIsNothing, WorkingHolds
<1>7. HeldSides' = SidesIn(rows', new) /\ Asking' = "businessCall"
  BY <1>3, <1>4, <1>5, NoneIsNothing, WorkingHoldsNext
<1>8. HeldBusiness = Family(Presented(s)) /\ HeldBusiness' = None /\ UNCHANGED HeldConsumer
  BY <1>3, <1>6, <1>7 DEF HeldSides, SidesIn, Presented, Family
<1>9. SignedInAs!Expelled
  BY <1>6, <1>7, <1>8 DEF SignedInAs!Expelled, SignedInAs!During
<1> QED BY <1>9 DEF Implemented, Onward, SignedInAs!Next

LEMMA RefusedImplements ==
  ASSUME Inv, One, width = 1, NEW s \in Slot, RenewRefused(s)
  PROVE  Implemented
<1>1. req[s] # None /\ req[s].at = "renew" /\ req[s].kind = "businessCall"
      /\ req[s].rec.business # None
  BY LoneFacts DEF RenewRefused, At, Lone, Working, OnTheBusiness
<1>2. Onward /\ Family(Presented(s)) \in barred \cup lost /\ WithoutBusiness(s, "keep")
  BY RefusedFor DEF RenewRefused, Onward, outside
<1> QED BY <1>1, <1>2, ExpelledFrom

\* An UPDATE over the rows of the one request.
LEMMA RevokesKin ==
  ASSUME Inv, NEW s \in Slot, Revokes(s)
  PROVE  Kin
BY RevokingFacts, RevokedRows DEF Kin

LEMMA RefusalEndsImplements ==
  ASSUME Inv, One, width = 1, NEW s \in Slot, NEW arrives \in BOOLEAN, RefusalEnds(s, arrives)
  PROVE  Implemented
<1>1. /\ req[s] # None /\ req[s].at = "revoking" /\ req[s].kind = "businessCall"
      /\ req[s].rec.business # None /\ Held(req[s])
  BY RevokesFacts DEF RefusalEnds
<1>2. Onward /\ Kin
  BY RevokesKin DEF RefusalEnds, Loses, Onward, outside
<1>3. Family(Presented(s)) \in barred \cup lost
  BY <1>1 DEF Held, Presented
<1>4. CASE arrives
  BY <1>1, <1>2, <1>3, <1>4, ExpelledFrom DEF RefusalEnds
<1>5. CASE ~ arrives
  BY <1>1, <1>2, <1>5, GoesOnTo DEF RefusalEnds, Steps
<1> QED BY <1>4, <1>5

LEMMA SignOutImplements ==
  ASSUME Inv, One, width = 1, NEW s \in Slot, SignOutEnds(s) \/ SignOutLost(s)
  PROVE  Implemented
<1>1. /\ req[s] # None /\ req[s].at = "revoking" /\ \A q \in Slot \ {s} : req[q] = None
  BY RevokesFacts DEF SignOutEnds, SignOutLost
<1>2. Onward /\ Kin
  BY RevokesKin DEF SignOutEnds, SignOutLost, Loses, Onward, outside
<1>3. CASE SignOutEnds(s)
  BY <1>1, <1>2, <1>3, GoesOnTo DEF SignOutEnds, Steps
<1>4. CASE SignOutLost(s)
  <2>1. \A q \in Slot : req'[q] = None
    BY <1>1, <1>4 DEF SignOutLost, Finish, Inv, TypeOK
  <2> QED BY <1>1, <1>2, <1>4, <2>1, IsOverUnwritten DEF SignOutLost
<1> QED BY <1>3, <1>4

LEMMA CallsImplement ==
  ASSUME Inv, One, width = 1, NEW s \in Slot,
         \/ Unreachable(s) \/ Call(s) \/ BusinessCall(s) \/ RenewLocks(s) \/ RenewFails(s)
         \/ EndFails(s) \/ EndConsumer(s) \/ Keep(s)
  PROVE  Implemented
<1>0. Onward /\ Kin
  BY Still DEF Unreachable, Call, BusinessCall, RenewLocks, RenewFails, EndFails, EndConsumer,
               Keep, tokens, outside
<1>1. CASE Unreachable(s)
  <2>1. /\ req[s] # None /\ req[s].at \in {"proxy", "revoking"}
        /\ \A q \in Slot \ {s} : req[q] = None
    BY <1>1, LoneFacts DEF Unreachable, At
  <2>2. \A q \in Slot : req'[q] = None
    BY <1>1, <2>1 DEF Unreachable, Finish, Inv, TypeOK
  <2> QED BY <1>0, <1>1, <2>1, <2>2, IsOverUnwritten DEF Unreachable
<1>2. CASE \/ Call(s) \/ BusinessCall(s) \/ RenewLocks(s) \/ RenewFails(s)
           \/ EndFails(s) \/ EndConsumer(s) \/ Keep(s)
  <2>1. /\ req[s] # None /\ req[s].at # "mint"
        /\ \E step \in Steps : Goto(s, step)
    BY <1>2 DEF Call, BusinessCall, RenewLocks, RenewFails, Locking, EndFails, EndConsumer,
                Keep, At, Steps
  <2> QED BY <1>0, <2>1, GoesOnTo
<1> QED BY <1>1, <1>2

LEMMA RevokingImplements ==
  ASSUME Inv, One, width = 1, NEW s \in Slot,
         RenewReused(s) \/ RenewDenied(s) \/ EndBegins(s)
  PROVE  Implemented
<1>0. Onward /\ Kin /\ rows' = rows
  BY Still DEF RenewReused, RenewDenied, EndBegins, tokens, outside
<1>1. /\ req[s] # None /\ req[s].at \in {"renew", "proxy", "end"}
      /\ req[s] \in Request /\ req[s].rec \in Record
  BY LoneFacts DEF RenewReused, RenewDenied, EndBegins, At
<1>2. Siblings(Presented(s)) \in SUBSET Tokens
  BY DEF Siblings, Issued
<1> SUFFICES ASSUME NEW r, r = [req[s] EXCEPT !.at = "revoking", !.mine = Siblings(Presented(s))]
             PROVE  Implemented
  OBVIOUS
<1>3. r \in Request /\ r.rec = req[s].rec /\ r.kind = req[s].kind
  BY <1>1, <1>2 DEF Request, Steps
<1>4. req' = [req EXCEPT ![s] = r]
  BY DEF RenewReused, RenewDenied, EndBegins
<1> QED BY <1>0, <1>1, <1>3, <1>4, GoesOn

LEMMA RenewCommitsImplements ==
  ASSUME Inv, Gateway, One, width = 1, NEW s \in Slot, NEW arrives \in BOOLEAN,
         RenewCommits(s, arrives)
  PROVE  Implemented
<1> DEFINE old == req[s].rec
           business == [old.business EXCEPT !.refresh = nextToken, !.issued = now]
           new == [old EXCEPT !.business = IF arrives THEN business ELSE old.business]
           r == [req[s] EXCEPT !.rec = new, !.at = "keep"]
<1>0. Onward
  BY DEF RenewCommits, Loses, Onward, outside
<1>1. /\ req[s] # None /\ req[s].at = "renewing" /\ req[s] \in Request
      /\ old \in Record /\ old.business \in Business /\ old.business # None
  BY LoneFacts, AtFacts DEF RenewCommits, At, Working, OnTheBusiness
<1>2. /\ nextToken \in Tokens /\ Kin /\ Presented(s) \in Issued
      /\ rows'[nextToken].family = rows[Presented(s)].family
  <2> SUFFICES ASSUME NEW f, f = Family(Presented(s))
               PROVE  /\ nextToken \in Tokens /\ Kin /\ Presented(s) \in Issued
                      /\ rows'[nextToken].family = f
    BY DEF Family
  <2>1. /\ nextToken \in Tokens /\ Kin /\ Presented(s) \in Issued
        /\ rows'[nextToken] = [family |-> f, rotated |-> FALSE, revoked |-> FALSE]
    BY CommitsRows
  <2> QED BY <2>1
<1>3. req' = [req EXCEPT ![s] = r]
  BY <1>1 DEF RenewCommits, Request
<1>4. business \in Business /\ business.refresh = nextToken
  BY <1>1, <1>2 DEF Business, Inv, TypeOK
<1> HIDE DEF business
<1>5. /\ new \in Record /\ new.consumer = old.consumer
      /\ new.business = IF arrives THEN business ELSE old.business
  BY <1>1, <1>4 DEF Record
<1> HIDE DEF new
<1>6. SidesIn(rows', new) = SidesIn(rows, old)
  <2>1. /\ old.business.refresh = Presented(s)
        /\ rows'[Presented(s)].family = rows[Presented(s)].family
    BY <1>2 DEF Kin, Presented
  <2> QED BY <1>1, <1>2, <1>4, <1>5, <2>1, NoneIsNothing DEF SidesIn
<1>7. r \in Request /\ r.rec = new /\ r.kind = req[s].kind
  BY <1>1, <1>5 DEF Request, Steps
<1> HIDE DEF r
<1> QED BY <1>0, <1>1, <1>3, <1>5, <1>6, <1>7, GoesOn

LEMMA SaveImplements ==
  ASSUME Inv, One, width = 1, NEW s \in Slot, Save(s)
  PROVE  Implemented
<1>0. Onward /\ Kin /\ rows' = rows
  BY Still DEF Save, tokens, outside
<1>1. /\ req[s] # None /\ req[s].at = "save" /\ Lone(req[s]) /\ Held(req[s])
      /\ req[s].id \in Ids /\ \A q \in Slot \ {s} : req[q] = None
  BY LoneFacts DEF Save, At
<1>2. \A q \in Slot : req'[q] = None
  BY <1>1 DEF Save, Finish, Inv, TypeOK
<1>3. jar' = jar /\ jar.id = req[s].id
  BY <1>1 DEF Save, Lone
<1>4. store[jar.id] # None => SidesIn(rows, store[jar.id].rec) = SidesIn(rows, req[s].rec)
  BY <1>1, <1>3 DEF Held
<1>5. \/ store' = store
      \/ store'[jar.id] = None
      \/ store'[jar.id].rec = req[s].rec
  BY <1>1, <1>3 DEF Save, Entry, Inv, TypeOK
<1>6. store'[jar.id] # None =>
        SidesIn(rows', store'[jar.id].rec) = SidesIn(rows, req[s].rec)
  BY <1>0, <1>4, <1>5
<1> QED BY <1>0, <1>1, <1>2, <1>3, <1>6, IsOver

\* A sign-out leaves the other side, or nothing.
LEMMA DropImplements ==
  ASSUME Inv, One, width = 1, NEW s \in Slot, Drop(s)
  PROVE  Implemented
<1> DEFINE old == req[s].rec
           left == Remaining(req[s])
<1>0. Onward /\ rows' = rows
  BY DEF Drop, Onward, tokens, outside
<1>1. /\ req[s] # None /\ req[s].at = "drop" /\ req[s] \in Request /\ old \in Record
      /\ Lone(req[s]) /\ req[s].id \in Ids
      /\ \A q \in Slot \ {s} : req[q] = None
  BY LoneFacts DEF Drop, At
<1>2. HeldSides = SidesIn(rows, old) /\ Asking = req[s].kind /\ Asking # None
  BY <1>1, NoneIsNothing, WorkingHolds DEF Request
<1>3. \A q \in Slot : req'[q] = None
  BY <1>1 DEF Drop, Finish, Inv, TypeOK
<1>4. HeldSides' = OfTheCookie' /\ Asking' = None
  BY <1>3, IdleHoldsNext
<1>5. /\ left.consumer = IF req[s].kind = "businessLogout" THEN old.consumer ELSE None
      /\ left.business = IF req[s].kind = "consumerLogout" THEN old.business ELSE None
  BY <1>1, RemainingFacts
<1>6. CASE HeldSides' = Nothing
  BY <1>0, <1>4, <1>6, Lapses
<1>7. CASE HeldSides' # Nothing
  <2>1. HasAnyAuthority(left) /\ jar' = jar
    BY <1>4, <1>7, OfTheCookieFacts DEF Drop, NoCookie, Ids
  <2>2. store'[jar.id].rec = left
    BY <1>1, <2>1 DEF Drop, Entry, Lone, Inv, TypeOK
  <2>3. HeldSides' = SidesIn(rows, left)
    BY <1>0, <1>4, <1>7, <2>1, <2>2, OfTheCookieFacts
  <2>4. CASE req[s].kind = "consumerLogout"
    <3>1. left.consumer = None /\ left.business = old.business
      BY <1>5, <2>4
    <3> HIDE DEF left
    <3>2. HeldConsumer' = FALSE /\ UNCHANGED HeldBusiness
      BY <1>2, <2>3, <3>1 DEF HeldSides, SidesIn
    <3>3. SignedInAs!LeaveConsumer
      BY <1>2, <1>4, <2>4, <3>2 DEF SignedInAs!LeaveConsumer, SignedInAs!During
    <3> QED BY <1>0, <3>3 DEF Implemented, Onward, SignedInAs!Next
  <2>5. CASE req[s].kind = "businessLogout"
    <3>1. left.business = None /\ left.consumer = old.consumer
      BY <1>5, <2>5
    <3> HIDE DEF left
    <3>2. HeldBusiness' = None /\ UNCHANGED HeldConsumer
      BY <1>2, <2>3, <3>1 DEF HeldSides, SidesIn
    <3>3. SignedInAs!LeaveBusiness
      BY <1>2, <1>4, <2>5, <3>2 DEF SignedInAs!LeaveBusiness, SignedInAs!During
    <3> QED BY <1>0, <3>3 DEF Implemented, Onward, SignedInAs!Next
  <2>6. CASE req[s].kind = "logoutAll"
    <3>1. left.consumer = None /\ left.business = None
      BY <1>5, <2>6
    <3> HIDE DEF left
    <3> QED BY <2>1, <3>1 DEF HasAnyAuthority
  <2> QED BY <1>1, <2>4, <2>5, <2>6 DEF Lone
<1> QED BY <1>6, <1>7

LEMMA RotateImplements ==
  ASSUME Inv, One, width = 1, NEW s \in Slot, Rotate(s)
  PROVE  Implemented
<1>0. Onward /\ rows' = rows
  BY DEF Rotate, Onward, tokens, outside
<1>1. /\ req[s] # None /\ req[s].at = "rotate" /\ req[s] \in Request /\ req[s].rec \in Record
  BY LoneFacts DEF Rotate, At
<1> SUFFICES ASSUME NEW r, r = [req[s] EXCEPT !.fresh = nextId, !.at = "retire"]
             PROVE  Implemented
  OBVIOUS
<1>2. nextId \in 0 .. MaxIds
  BY Constants DEF Rotate, Inv, TypeOK
<1>3. r \in Request /\ r.rec = req[s].rec /\ r.kind = req[s].kind
  BY <1>1, <1>2 DEF Request, Steps
<1>4. req' = [req EXCEPT ![s] = r]
  BY DEF Rotate
<1> QED BY <1>0, <1>1, <1>3, <1>4, GoesOn

LEMMA RetireImplements ==
  ASSUME Inv, One, width = 1, NEW s \in Slot, Retire(s)
  PROVE  Implemented
<1>0. Onward /\ rows' = rows
  BY DEF Retire, Onward, tokens, outside
<1>1. /\ req[s] # None /\ req[s].at = "retire" /\ Lone(req[s]) /\ req[s].id \in Ids
      /\ \A q \in Slot \ {s} : req[q] = None
  BY LoneFacts DEF Retire, At
<1>2. \A q \in Slot : req'[q] = None
  BY <1>1 DEF Retire, Finish, Inv, TypeOK
<1>3. jar'.id = req[s].fresh /\ store'[req[s].fresh] \in {None, store[req[s].fresh]}
  BY <1>1 DEF Retire, Lone, Inv, TypeOK
<1>4. store'[jar'.id] # None => store'[jar'.id].rec = req[s].rec
  BY <1>1, <1>3 DEF Lone
<1>5. store'[jar'.id] # None =>
        SidesIn(rows', store'[jar'.id].rec) = SidesIn(rows, req[s].rec)
  BY <1>0, <1>4
<1> QED BY <1>0, <1>1, <1>2, <1>5, IsOver

\* A step of none of the requests leaves the sides, or makes the session lapse; it
\* brings none back.
LEMMA AsideImplements ==
  ASSUME Inv, One, width = 1, Onward, Kin, UNCHANGED <<store, jar, req>>,
         now' = now \/ (now' = now + 1)
  PROVE  Implemented
<1>1. now \in Nat /\ now' \in Nat /\ now <= now'
  BY Constants DEF Inv, TypeOK, Time
<1>2. OfTheCookie' \in {OfTheCookie, Nothing}
  <2>1. CASE Loads(Cookie)'
    <3> SUFFICES ASSUME NEW c, c = Cookie', NEW rec, rec = store[c].rec
                 PROVE  OfTheCookie' = OfTheCookie
      OBVIOUS
    <3>1. /\ c \in Ids /\ store[c] # None /\ now' < store[c].exp
          /\ now' - rec.created <= Absolute
      BY <2>1 DEF Loads, Stored
    <3>2. rec.preauth \/ HasAnyAuthority(rec)
      BY <2>1 DEF Loads, HasAnyAuthority
    <3>3. store[c].exp \in Nat /\ rec.created \in Nat /\ Absolute \in Nat /\ Sound(rec)
      BY <3>1, Constants DEF Inv, TypeOK, Record, Time, Kept
    <3>4. now < store[c].exp /\ now - rec.created <= Absolute
      BY <1>1, <3>1, <3>3
    <3>5. c = jar.id /\ now' < jar.exp /\ jar.exp \in Nat
      BY <3>1 DEF Cookie, Ids, Inv, TypeOK
    <3>6. now < jar.exp
      BY <1>1, <3>5
    <3>7. Cookie = c
      BY <3>5, <3>6 DEF Cookie
    <3>8. Loads(Cookie)
      BY <3>1, <3>2, <3>4, <3>7 DEF Loads, Stored
    <3>9. SidesIn(rows', rec) = SidesIn(rows, rec)
      BY <3>3, SidesStay
    <3>10. OfTheCookie' = SidesIn(rows', rec)
      BY <2>1 DEF OfTheCookie, SidesIn
    <3>11. OfTheCookie = SidesIn(rows, rec)
      BY <3>7, <3>8 DEF OfTheCookie
    <3> QED BY <3>9, <3>10, <3>11
  <2>2. CASE ~ Loads(Cookie)'
    BY <2>2 DEF OfTheCookie, Nothing
  <2> QED BY <2>1, <2>2
<1>3. CASE \A q \in Slot : req[q] = None
  <2>1. HeldSides = OfTheCookie /\ Asking = None
    BY <1>3, IdleHolds
  <2>2. HeldSides' = OfTheCookie' /\ Asking' = None
    BY <1>3, IdleHoldsNext
  <2> QED BY <1>2, <2>1, <2>2, Steadies, Lapses
<1>4. ASSUME NEW s \in Slot, req[s] # None PROVE Implemented
  <2>1. \A q \in Slot \ {s} : req[q] = None
    BY <1>4, LoneFacts
  <2>2. CASE req[s].rec # None
    <3> SUFFICES ASSUME NEW rec, rec = req[s].rec PROVE Implemented
      OBVIOUS
    <3>1. req[s].at # "mint"
      BY <1>4, <2>2, LoneFacts DEF Lone
    <3>2. SidesIn(rows', rec) = SidesIn(rows, rec)
      BY <1>4, <3>1, AtFacts, SidesStay
    <3>3. HeldSides = SidesIn(rows, rec) /\ Asking = req[s].kind
      BY <1>4, <2>1, <2>2, WorkingHolds
    <3>4. HeldSides' = SidesIn(rows', rec) /\ Asking' = req[s].kind
      BY <1>4, <2>1, <2>2, WorkingHoldsNext
    <3> QED BY <3>2, <3>3, <3>4, Steadies
  <2>3. CASE req[s].rec = None
    <3>1. HeldSides = OfTheCookie /\ Asking = req[s].kind
      BY <1>4, <2>1, <2>3, MintingHolds
    <3>2. HeldSides' = OfTheCookie' /\ Asking' = req[s].kind
      BY <1>4, <2>1, <2>3, MintingHoldsNext
    <3> QED BY <1>2, <3>1, <3>2, Steadies, Lapses
  <2> QED BY <2>2, <2>3
<1> QED BY <1>3, <1>4

LEMMA OutsideImplements ==
  ASSUME Inv, One, width = 1, Outside
  PROVE  Implemented
<1>1. UNCHANGED <<now, store, jar, req>> /\ Onward
  BY DEF Outside, Bar, SweepBegins, SweepEnds, SweepFails, Onward
<1>2. Kin
  <2>1. CASE SweepEnds
    <3>1. sweep \subseteq Issued /\ Revoke(sweep)
      BY <2>1, NumbersFacts DEF SweepEnds, Inv, TypeOK, SweepIsKnown
    <3> QED BY <3>1, RevokedRows DEF Kin
  <2>2. CASE UNCHANGED tokens
    BY <2>2 DEF tokens, Kin, Issued
  <2> QED BY <2>1, <2>2 DEF Outside, Bar, SweepBegins, SweepFails
<1> QED BY <1>1, <1>2, AsideImplements

LEMMA SignInLostImplements ==
  ASSUME Inv, Gateway, One, width = 1, NEW s \in Slot, SignInLost(s)
  PROVE  Implemented
<1>1. /\ req[s] # None /\ req[s].at = "proxy" /\ \A q \in Slot \ {s} : req[q] = None
      /\ UNCHANGED <<store, jar>>
  BY LoneFacts DEF SignInLost, At
<1>2. Onward /\ Kin
  BY OpensRows DEF SignInLost, Onward, outside
<1>3. \A q \in Slot : req'[q] = None
  BY <1>1 DEF SignInLost, Finish, Inv, TypeOK
<1> QED BY <1>1, <1>2, <1>3, IsOverUnwritten

LEMMA StepImplements ==
  ASSUME Inv, Gateway, One, width = 1, [Next]_vars
  PROVE  Implemented
<1>1. CASE Tick \/ UNCHANGED vars
  <2>1. UNCHANGED <<store, jar, req>> /\ Onward /\ Kin
    BY <1>1, Still DEF Tick, vars, tokens, outside
  <2>2. now' = now \/ now' = now + 1
    BY <1>1 DEF Tick, vars
  <2> QED BY <2>1, <2>2, AsideImplements
<1>2. CASE Outside
  BY <1>2, OutsideImplements
<1>3. ASSUME NEW s \in Slot, Step(s) PROVE Implemented
  <2>1. ASSUME NEW kind \in Kinds, Send(s, kind) \/ SendWithoutSession(s, kind) PROVE Implemented
    BY <2>1, SendImplements, SendWithoutSessionImplements
  <2>2. CASE \/ Unreachable(s) \/ Call(s) \/ BusinessCall(s) \/ RenewLocks(s) \/ RenewFails(s)
             \/ EndFails(s) \/ EndConsumer(s) \/ Keep(s)
    BY <2>2, CallsImplement
  <2>3. CASE RenewRefused(s)
    BY <2>3, RefusedImplements
  <2>4. CASE RenewReused(s) \/ RenewDenied(s) \/ EndBegins(s)
    BY <2>4, RevokingImplements
  <2>5. ASSUME NEW arrives \in BOOLEAN, RenewCommits(s, arrives) \/ RefusalEnds(s, arrives)
        PROVE  Implemented
    BY <2>5, RenewCommitsImplements, RefusalEndsImplements
  <2>6. CASE Mint(s) \/ SignInConsumer(s) \/ SignInBusiness(s) \/ SignInLost(s)
    BY <2>6, MintImplements, SignInConsumerImplements, SignInBusinessImplements,
       SignInLostImplements
  <2>7. CASE SignOutEnds(s) \/ SignOutLost(s)
    BY <2>7, SignOutImplements
  <2>8. CASE Save(s) \/ Drop(s) \/ Rotate(s) \/ Retire(s)
    BY <2>8, SaveImplements, DropImplements, RotateImplements, RetireImplements
  <2> QED BY <1>3, <2>1, <2>2, <2>3, <2>4, <2>5, <2>6, <2>7, <2>8 DEF Step
<1> QED BY <1>1, <1>2, <1>3 DEF Next

\* To a browser that makes one request at a time the host is SignedIn, whatever answers
\* are lost and whatever befalls its businesses: a call, the renewal of a token and the
\* rotation of the session id leave the sides the browser holds, except that a call of
\* a business may lose the side when its sign-in was barred or an answer about it lost.
THEOREM Refines == Spec => OneAtATimeIsSignedIn
<1>1. Init => SignedInAs!Init
  <2> SUFFICES ASSUME Init PROVE SignedInAs!Init
    OBVIOUS
  <2>1. \A q \in Slot : req[q] = None
    BY DEF Init
  <2>2. OfTheCookie = Nothing
    BY DEF Init, OfTheCookie, Loads, Stored, Cookie, NoCookie, Ids
  <2>3. HeldSides = Nothing /\ Asking = None
    BY <2>1, <2>2, IdleHolds
  <2>4. barred \cup lost = {}
    BY DEF Init
  <2> QED BY <2>3, <2>4 DEF SignedInAs!Init, HeldSides, Nothing
<1>2. Inv /\ Gateway /\ One /\ [Next]_vars => [width = 1 => SignedInAs!Next]_SignedInAs!vars
  BY StepImplements DEF Implemented
<1> QED BY <1>1, <1>2, InitOne, NextOne, InitGateway, NextGateway, Invariant, PTL
        DEF Spec, OneAtATimeIsSignedIn

=============================================================================
