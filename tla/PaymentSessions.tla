--------------------------- MODULE PaymentSessions ---------------------------
(***************************************************************************)
(* A payment session (src/core/api/src/routes/payment_sessions.rs): one    *)
(* amount a merchant asks for, presented through two interfaces, a payment *)
(* link and a dynamic QR code.  The link is paid from a wallet (the public *)
(* API transfers the money, then has core complete the link) or on the     *)
(* hosted acquiring rail; the code is paid by scanning it.  Each of them   *)
(* settles the session in the database transaction that claims its own     *)
(* interface.  The session or the link alone may be cancelled, a link may  *)
(* be closed, and the expiry workers end what is overdue.                  *)
(*                                                                         *)
(* The three rows of a session are updated by transactions that take their *)
(* row locks in different orders: the transaction that pays the link locks *)
(* the link, the session, the code; the one that pays the code locks the   *)
(* code, the session, the link; a cancellation starts with the session.    *)
(* At READ COMMITTED an UPDATE waits for a row that is locked and looks at *)
(* its condition again, and a cycle of waiters loses one of its            *)
(* transactions.  Locks are kept in jobs, and what a transaction writes    *)
(* takes effect at its commit.                                             *)
(*                                                                         *)
(* Sessions start as create leaves them, with both interfaces ACTIVE.  The *)
(* amount is fixed and every payment is of the whole amount, so a payment  *)
(* is a record [session, via, payer]; via "hosted" is an acquiring payment *)
(* the provider confirmed.                                                 *)
(***************************************************************************)
EXTENDS Integers, FiniteSets

CONSTANTS
  Session,    \* payment sessions
  Payer,      \* who may pay
  Worker,     \* request handlers that may run at the same time
  Calls,      \* the operations that are used
  NoPayment,  \* payment_session.paid was not emitted
  MaxDrops    \* bound on handlers that fail half way

Rails == {"link", "hosted", "qr"}
Operations == Rails \cup {"cancel", "linkCancel", "linkClose", "expire"}

ASSUME SessionsAssumption ==
  /\ Calls \subseteq Operations
  /\ NoPayment \notin [session : Session, via : Rails, payer : Payer]
  /\ MaxDrops \in Nat

VARIABLES
  rows,         \* rows[s]: status of the session, its link and its code
  overtaken,    \* sessions whose link something else than its payment ended
  late,         \* sessions whose interfaces are past their expiry
  moved,        \* payments whose money reached the merchant
  recorded,     \* payments with a wallet payment, the object a refund names
  event,        \* event[s]: the payment payment_session.paid names
  unconfirmed,  \* payments answered PAYMENT_NOT_CONFIRMED
  jobs,         \* jobs[w]: the statement handler w is about to execute
  drops         \* handlers that failed half way so far

vars == <<rows, overtaken, late, moved, recorded, event, unconfirmed, jobs, drops>>

money == <<moved, recorded, event, unconfirmed>>

-----------------------------------------------------------------------------

Parts == {"session", "link", "qr"}

Rows == [session : {"ACTIVE", "PAID", "CANCELLED"},
         link : {"ACTIVE", "USED", "CANCELLED", "EXPIRED"},
         qr : {"ACTIVE", "USED", "EXPIRED"}]

Payment == [session : Session, via : Rails, payer : Payer]

Steps == {"read", "transfer", "claim", "session", "siblings", "record", "write"}

\* payment: NoPayment for a cancellation; locked: the rows the transaction holds.
Idle == [at |-> "idle"]
Job == {Idle}
       \cup [at : Steps, call : Operations, session : Session,
               payment : Payment \cup {NoPayment}, locked : SUBSET Parts]

\* The row a payment claims, and the rows that end with the session.
OwnRow == [link |-> "link", hosted |-> "link", qr |-> "qr"]
Siblings == [link |-> {"qr"}, hosted |-> {"qr"}, qr |-> {"link"},
             cancel |-> {"link", "qr"}]

Init ==
  /\ rows = [s \in Session |->
               [session |-> "ACTIVE", link |-> "ACTIVE", qr |-> "ACTIVE"]]
  /\ overtaken = {}
  /\ late = {}
  /\ moved = {}
  /\ recorded = {}
  /\ event = [s \in Session |-> NoPayment]
  /\ unconfirmed = {}
  /\ jobs = [w \in Worker |-> Idle]
  /\ drops = 0

On(w) == jobs[w].session
Status(w, part) == rows[On(w)][part]

Holds(v, s, part) ==
  jobs[v] # Idle /\ jobs[v].session = s /\ part \in jobs[v].locked

Free(s, part) == \A v \in Worker : ~ Holds(v, s, part)

Goto(w, step) == jobs' = [jobs EXCEPT ![w].at = step]

Lock(w, part, step) ==
  jobs' = [jobs EXCEPT ![w].at = step, ![w].locked = @ \cup {part}]

End(w) == jobs' = [jobs EXCEPT ![w] = Idle]

-----------------------------------------------------------------------------
(* A request starts, and reads what it needs outside any transaction.      *)

Start(w, call, s, p) ==
  /\ jobs[w] = Idle
  /\ jobs' = [jobs EXCEPT ![w] =
                [at |-> IF call = "hosted" THEN "claim" ELSE "read",
                 call |-> call, session |-> s, payment |-> p, locked |-> {}]]
  /\ UNCHANGED <<rows, overtaken, late, money, drops>>

\* The public API pays a link that reads ACTIVE, whatever its expiry; a code is
\* resolved only before its expiry; a paid session is not cancelled; a link is
\* cancelled when it reads ACTIVE.
Read(w) ==
  LET j == jobs[w] IN
  /\ j.at = "read"
  /\ \/ /\ j.call = "link"
        /\ IF Status(w, "link") = "ACTIVE" THEN Goto(w, "transfer") ELSE End(w)
     \/ /\ j.call = "qr"
        /\ IF Status(w, "qr") = "ACTIVE" /\ On(w) \notin late
           THEN Goto(w, "claim") ELSE End(w)
     \/ /\ j.call = "cancel"
        /\ IF Status(w, "session") # "PAID" THEN Goto(w, "session") ELSE End(w)
     \/ /\ j.call = "linkCancel"
        /\ IF Status(w, "link") = "ACTIVE" THEN Goto(w, "write") ELSE End(w)
  /\ UNCHANGED <<rows, overtaken, late, money, drops>>

TransferUnderAFreshKey(w) ==
  LET p == jobs[w].payment IN
  /\ jobs[w].at = "transfer"
  /\ moved' = moved \cup {p}
  /\ Goto(w, "claim")
  /\ UNCHANGED <<rows, overtaken, late, recorded, event, unconfirmed, drops>>

\* The transfer, under a key that names the link: the same payer gets the same
\* transfer back, another one is refused.
Transfer(w) ==
  LET p == jobs[w].payment
      made == {m \in moved : m.session = p.session /\ m.via = "link"}
  IN
  /\ jobs[w].at = "transfer"
  /\ IF made \subseteq {p}
     THEN moved' = moved \cup {p} /\ Goto(w, "claim")
     ELSE End(w) /\ UNCHANGED moved
  /\ UNCHANGED <<rows, overtaken, late, recorded, event, unconfirmed, drops>>

-----------------------------------------------------------------------------
(* The transaction that pays an interface and settles its session.         *)

\* A second callback of one acquiring payment waits for the posting's key.
PostingIsFree(w) ==
  jobs[w].call = "hosted" =>
    \A v \in Worker \ {w} :
      jobs[v] # Idle /\ jobs[v].payment = jobs[w].payment => jobs[v].at = "claim"

\* The conditional UPDATE that claims the interface.  A link that cannot be
\* claimed is answered as already paid and ends the request; a code that was
\* used refuses it; the hosted rail goes on without its link.
Claimable(w) ==
  CASE jobs[w].call = "link"   -> Status(w, "link") = "ACTIVE" /\ On(w) \notin late
    [] jobs[w].call = "hosted" -> Status(w, "link") \in {"ACTIVE", "EXPIRED"}
    [] OTHER                   -> Status(w, "qr") = "ACTIVE"

ClaimRetrying(w) ==
  LET j == jobs[w] IN
  /\ j.at = "claim"
  /\ Free(On(w), OwnRow[j.call])
  /\ PostingIsFree(w)
  /\ IF Claimable(w) THEN Lock(w, OwnRow[j.call], "session")
     ELSE Goto(w, IF j.call = "hosted" THEN "session" ELSE "read")
  /\ UNCHANGED <<rows, overtaken, late, money, drops>>

ClaimCommittedAtOnce(w) ==
  LET j == jobs[w] IN
  /\ j.at = "claim"
  /\ Free(On(w), OwnRow[j.call])
  /\ IF Claimable(w)
     THEN /\ rows' = [rows EXCEPT ![On(w)][OwnRow[j.call]] = "USED"]
          /\ Lock(w, OwnRow[j.call], "session")
     ELSE End(w) /\ UNCHANGED rows
  /\ UNCHANGED <<overtaken, late, money, drops>>

Claim(w) ==
  LET j == jobs[w] IN
  /\ j.at = "claim"
  /\ Free(On(w), OwnRow[j.call])
  /\ PostingIsFree(w)
  /\ IF Claimable(w) THEN Lock(w, OwnRow[j.call], "session")
     ELSE IF j.call = "hosted" THEN Goto(w, "session") ELSE End(w)
  /\ UNCHANGED <<rows, overtaken, late, money, drops>>

SettleAnySession(w) ==
  /\ jobs[w].at = "session"
  /\ Free(On(w), "session")
  /\ Lock(w, "session", "siblings")
  /\ UNCHANGED <<rows, overtaken, late, money, drops>>

\* UPDATE payment_sessions ... WHERE status IN ('CREATED','ACTIVE').
SettleSession(w) ==
  /\ jobs[w].at = "session"
  /\ \/ /\ Status(w, "session") = "ACTIVE"
        /\ Free(On(w), "session")
        /\ Lock(w, "session", "siblings")
     \/ /\ Status(w, "session") # "ACTIVE"
        /\ Goto(w, "siblings")
  /\ UNCHANGED <<rows, overtaken, late, money, drops>>

\* The rows the settlement has yet to retire: those still ACTIVE, if it is this
\* transaction that moved the session.
ToRetire(w) ==
  {part \in Siblings[jobs[w].call] :
     "session" \in jobs[w].locked /\ part \notin jobs[w].locked
       /\ Status(w, part) = "ACTIVE"}

Retire(w) ==
  /\ jobs[w].at = "siblings"
  /\ \E part \in ToRetire(w) :
       Free(On(w), part) /\ Lock(w, part, "siblings")
  /\ UNCHANGED <<rows, overtaken, late, money, drops>>

EndedCancellingTheCode(call) ==
  [session |-> IF call = "cancel" THEN "CANCELLED" ELSE "PAID",
   link |-> IF call \in {"link", "hosted"} THEN "USED" ELSE "CANCELLED",
   qr |-> IF call = "qr" THEN "USED" ELSE "CANCELLED"]

\* What the rows become at the commit: only a row that is locked changes.
Ended(call) ==
  [session |-> IF call = "cancel" THEN "CANCELLED" ELSE "PAID",
   link |-> IF call \in {"link", "hosted"} THEN "USED" ELSE "CANCELLED",
   qr |-> IF call = "qr" THEN "USED" ELSE "EXPIRED"]

CommittedKeepingSiblings(w) ==
  LET kept == Parts \ (jobs[w].locked \ Siblings[jobs[w].call]) IN
  [rows EXCEPT ![On(w)] =
     [part \in Parts |-> IF part \in kept THEN @[part] ELSE Ended(jobs[w].call)[part]]]

Committed(w) ==
  [rows EXCEPT ![On(w)] =
     [part \in Parts |-> IF part \in jobs[w].locked
                         THEN Ended(jobs[w].call)[part] ELSE @[part]]]

RecordsLinksOnly(j) == IF j.call = "link" THEN {j.payment} ELSE {}

\* The wallet payment of a link, or of a code that moved the session; the hosted
\* rail records none.
Records(j) ==
  IF j.call = "link" \/ (j.call = "qr" /\ "session" \in j.locked)
  THEN {j.payment} ELSE {}

\* payment_session.paid, emitted under a key that names the session.
Emitted(j) ==
  IF j.call \in Rails /\ "session" \in j.locked
  THEN [event EXCEPT ![j.session] = IF @ = NoPayment THEN j.payment ELSE @]
  ELSE event

Commit(w) ==
  LET j == jobs[w] IN
  /\ j.at = "siblings"
  /\ ToRetire(w) = {}
  /\ rows' = Committed(w)
  /\ overtaken' = IF j.call # "link" /\ "link" \in j.locked
                  THEN overtaken \cup {j.session} ELSE overtaken
  /\ moved' = IF j.call \in {"qr", "hosted"} THEN moved \cup {j.payment} ELSE moved
  /\ recorded' = recorded \cup Records(j)
  /\ event' = Emitted(j)
  /\ jobs' = [jobs EXCEPT ![w] =
                IF j.call = "qr" THEN [j EXCEPT !.at = "record", !.locked = {}]
                ELSE Idle]
  /\ UNCHANGED <<late, unconfirmed, drops>>

\* A scanned code's wallet payment, recorded again after the commit.
Record(w) ==
  /\ jobs[w].at = "record"
  /\ recorded' = recorded \cup {jobs[w].payment}
  /\ End(w)
  /\ UNCHANGED <<rows, overtaken, late, moved, event, unconfirmed, drops>>

-----------------------------------------------------------------------------
(* The link on its own, the clock, and what fails.                         *)

\* cancel of a link: an UPDATE whatever its status is by now.
Write(w) ==
  /\ jobs[w].at = "write"
  /\ Free(On(w), "link")
  /\ rows' = [rows EXCEPT ![On(w)].link = "CANCELLED"]
  /\ overtaken' = overtaken \cup {On(w)}
  /\ End(w)
  /\ UNCHANGED <<late, money, drops>>

\* mark_used without a transfer: a merchant closes its own link.
LinkClose(s) ==
  /\ "linkClose" \in Calls
  /\ Free(s, "link")
  /\ rows[s].link = "ACTIVE"
  /\ s \notin late
  /\ rows' = [rows EXCEPT ![s].link = "USED"]
  /\ overtaken' = overtaken \cup {s}
  /\ UNCHANGED <<late, money, jobs, drops>>

Pass(s) ==
  /\ "expire" \in Calls
  /\ s \notin late
  /\ late' = late \cup {s}
  /\ UNCHANGED <<rows, overtaken, money, jobs, drops>>

\* The two expiry workers.
Expire(s, part) ==
  /\ s \in late
  /\ rows[s][part] = "ACTIVE"
  /\ Free(s, part)
  /\ rows' = [rows EXCEPT ![s][part] = "EXPIRED"]
  /\ overtaken' = IF part = "link" THEN overtaken \cup {s} ELSE overtaken
  /\ UNCHANGED <<late, money, jobs, drops>>

\* A handler ends and its transaction is rolled back.  When the completion of a
\* link fails, the payer may be told to retry.
Fails(w) ==
  /\ End(w)
  /\ \/ UNCHANGED unconfirmed
     \/ /\ jobs[w].call = "link"
        /\ jobs[w].at \in {"claim", "session", "siblings"}
        /\ unconfirmed' = unconfirmed \cup {jobs[w].payment}
  /\ UNCHANGED <<rows, overtaken, late, moved, recorded, event>>

Drop(w) ==
  /\ drops < MaxDrops
  /\ jobs[w] # Idle
  /\ drops' = drops + 1
  /\ Fails(w)

\* Refused before the money moved: a freeze, no funds, a settlement withheld.
Refuse(w) ==
  /\ \/ jobs[w].at = "transfer"
     \/ jobs[w].at = "claim" /\ jobs[w].call \in {"qr", "hosted"}
     \/ jobs[w].at = "session" /\ jobs[w].call = "qr"
  /\ End(w)
  /\ UNCHANGED <<rows, overtaken, late, money, drops>>

\* Handler w waits for a row that handler v holds.
Waits(w, v) ==
  \/ /\ jobs[w].at = "claim"
     /\ Holds(v, On(w), OwnRow[jobs[w].call])
  \/ /\ jobs[w].at = "session"
     /\ Status(w, "session") = "ACTIVE"
     /\ Holds(v, On(w), "session")
  \/ /\ jobs[w].at = "siblings"
     /\ \E part \in ToRetire(w) : Holds(v, On(w), part)

\* Two transactions wait for each other, and the database aborts one of them.
Deadlock(w) ==
  /\ \E v \in Worker : Waits(w, v) /\ Waits(v, w)
  /\ Fails(w)
  /\ UNCHANGED drops

Call(w) ==
  \E s \in Session :
    \/ \E call \in Calls \cap Rails, p \in Payer :
         Start(w, call, s, [session |-> s, via |-> call, payer |-> p])
    \/ \E call \in Calls \cap {"cancel", "linkCancel"} :
         Start(w, call, s, NoPayment)

Continue(w) ==
  \/ Read(w)
  \/ Transfer(w)
  \/ Claim(w)
  \/ SettleSession(w)
  \/ Retire(w)
  \/ Commit(w)
  \/ Record(w)
  \/ Write(w)

Next ==
  \/ \E w \in Worker :
       Call(w) \/ Continue(w) \/ Drop(w) \/ Refuse(w) \/ Deadlock(w)
  \/ \E s \in Session :
       LinkClose(s) \/ Pass(s) \/ \E part \in {"link", "qr"} : Expire(s, part)

Spec == Init /\ [][Next]_vars

\* The runtime keeps polling a handler, the database grants a row to its waiters
\* in turn, and it looks for deadlocks.
FairSpec ==
  /\ Spec
  /\ \A w \in Worker :
       /\ WF_vars(Continue(w))
       /\ SF_vars(Claim(w) \/ SettleSession(w) \/ Retire(w) \/ Write(w))
       /\ WF_vars(Deadlock(w))

-----------------------------------------------------------------------------
(* What a session promises.                                                *)

TypeOK ==
  /\ rows \in [Session -> Rows]
  /\ overtaken \subseteq Session
  /\ late \subseteq Session
  /\ moved \subseteq Payment
  /\ recorded \subseteq moved
  /\ event \in [Session -> Payment \cup {NoPayment}]
  /\ unconfirmed \subseteq moved
  /\ jobs \in [Worker -> Job]
  /\ drops \in 0 .. MaxDrops

\* When a session is over neither of its interfaces can be paid any more, in
\* every order of payments, cancellations and deadlocks (mark_paid_in: "the
\* OTHER interface stops being payable in the same statement").
InterfacesEndWithTheSession ==
  \A s \in Session :
    rows[s].session # "ACTIVE" => rows[s].link # "ACTIVE" /\ rows[s].qr # "ACTIVE"

\* A session is PAID exactly when payment_session.paid names a payment that
\* reached the merchant, and a wallet payment named by it can be refunded
\* (settle_for_interface_in: "all in ONE transaction").
PaidIsAnnounced ==
  \A s \in Session :
    /\ rows[s].session = "PAID" <=> event[s] # NoPayment
    /\ event[s] # NoPayment =>
         /\ event[s] \in moved
         /\ event[s].via # "hosted" => event[s] \in recorded

\* What became of a session is decided once, and so is who paid it (mark_paid_in:
\* the session goes "only to the call that performed the transition").
DecidedOnce ==
  [][\A s \in Session :
       /\ rows[s].session # "ACTIVE" => rows'[s].session = rows[s].session
       /\ event[s] # NoPayment => event'[s] = event[s]]_vars

\* No payment waits forever, though its transaction takes its locks in another
\* order than the ones it races with.
EveryHandlerEnds == \A w \in Worker : jobs[w] # Idle ~> jobs[w] = Idle

\* Money taken for a link is recorded, or the link is still ACTIVE and until its
\* expiry a retry can record it (mark_used: "the payer's retry replays the same transfer ... and
\* completes it here"), or something other than a payment of the link has ended it:
\* the hosted rail, the code, a cancellation, a closing, the expiry.  No failure
\* half way, no refused claim and no second payer strands it.
TakenIsRecordable ==
  \A p \in moved :
    p.via = "link" =>
      p \in recorded \/ rows[p.session].link = "ACTIVE" \/ p.session \in overtaken

\* Each of the two interfaces takes the money of one payment, whatever is retried
\* and whatever ends the session meanwhile: the link by the key of its transfer, the
\* code by the claim of its row.
EachInterfacePaidOnce ==
  \A p, q \in moved :
    p.session = q.session /\ p.via = q.via /\ p.via \in {"link", "qr"} => p = q

-----------------------------------------------------------------------------
(* What the code and its documentation say, and the program does not do.   *)

\* A session takes the money of one payment ("A session is paid once, through
\* whichever interface paid it").
PaidOnce ==
  \A s \in Session : Cardinality({p \in moved : p.session = s}) <= 1

\* cancel: a session that has been paid is refused, "money arrived against it".
CancelledSessionTookNothing ==
  \A s \in Session :
    rows[s].session = "CANCELLED" => \A p \in moved : p.session # s

\* docs/domains/payment-links: of a link cancelled while it was being paid, "the
\* transfer was never initiated".
CancelledLinkTookNothing ==
  \A s \in Session :
    rows[s].link = "CANCELLED" => \A p \in moved : p.session # s

\* docs/domains/payment-links: USED, CANCELLED and EXPIRED are immutable.
LinkIsFinal ==
  [][\A s \in Session :
       rows[s].link # "ACTIVE" => rows'[s].link = rows[s].link]_vars

\* PAYMENT_NOT_CONFIRMED: "retry to complete it".
RetryCompletes ==
  \A p \in unconfirmed : p \in recorded \/ rows[p.session].link = "ACTIVE"

=============================================================================
