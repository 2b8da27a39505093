---------------------------- MODULE Transactions ----------------------------
(***************************************************************************)
(* The transaction engine (src/core/transactions) over the merchant wallet *)
(* (src/core/wallets): a payment is created, authorized (the amount is     *)
(* credited to the wallet's reserved account), and then captured (moved to *)
(* available), reversed or failed (given back).  Each of these handlers    *)
(* reads the row and checks the transition, posts to the ledger, and then  *)
(* writes the new status; the three are separate database statements and   *)
(* the last one is unconditional.                                          *)
(*                                                                         *)
(* A payment is a merchant and an idempotency key, which the database      *)
(* keeps unique together (migration 0138); the keys its postings use       *)
(* (<key>:authorize, <key>:capture, <key>:reverse, <key>:fail-release) do  *)
(* not name the merchant, so the postings are indexed by key alone.  Every *)
(* posting of a payment moves its whole amount, which never changes, so    *)
(* the amounts are left out: ledger[k][kind] is the merchant whose wallet  *)
(* the posting under that key moved.                                       *)
(*                                                                         *)
(* Nothing in the engine keeps two calls on one payment apart, and the     *)
(* documents' promises are not kept when they meet.  disturbed records the *)
(* payments where they did: a call began towards one status while another  *)
(* was under way.  It is history: no step reads it.                        *)
(***************************************************************************)
EXTENDS Integers, FiniteSets

CONSTANTS
  Merchant,   \* owners of wallets
  Key,        \* idempotency keys
  Tx,         \* the payments asked for: pairs of a merchant and a key
  Worker,     \* request handlers that may run at the same time
  NoMerchant, \* there is no posting under a key
  MaxLost     \* bound on payments that lose a handler

ASSUME TransactionsAssumption ==
  /\ Tx \subseteq Merchant \X Key
  /\ NoMerchant \notin Merchant
  /\ MaxLost \in Nat

VARIABLES
  status,  \* status[t]: the status column of payment t, "NONE" before create
  ledger,  \* ledger[k][kind]: whose wallet the posting under that key moved
  jobs,    \* jobs[w]: the statement handler w is about to execute
  lost,    \* payments a handler of which ended half way
  disturbed \* payments on which a call began while a different one was under way

vars == <<status, ledger, jobs, lost, disturbed>>

Owner(t) == t[1]
KeyOf(t) == t[2]

-----------------------------------------------------------------------------

Status == {"NONE", "PENDING", "AUTHORIZED", "CAPTURED", "REVERSED", "FAILED"}

CanTransitionAfterCapture ==
  { <<"PENDING", "AUTHORIZED">>, <<"PENDING", "FAILED">>,
    <<"AUTHORIZED", "CAPTURED">>, <<"AUTHORIZED", "REVERSED">>,
    <<"AUTHORIZED", "FAILED">>, <<"CAPTURED", "REVERSED">> }

\* CAPTURED -> REFUNDED is allowed too, and no code takes it.
CanTransition ==
  { <<"PENDING", "AUTHORIZED">>, <<"PENDING", "FAILED">>,
    <<"AUTHORIZED", "CAPTURED">>, <<"AUTHORIZED", "REVERSED">>,
    <<"AUTHORIZED", "FAILED">> }

Kinds == {"authorize", "capture", "reverse", "failRelease"}

\* The posting a handler makes on the way to a status.
KindOf == [AUTHORIZED |-> "authorize", CAPTURED |-> "capture",
           REVERSED |-> "reverse", FAILED |-> "failRelease"]

Idle == [at |-> "idle"]
Job == {Idle} \cup [at : {"post", "status"}, tx : Tx, to : DOMAIN KindOf]

Posted(t, kind) == ledger[KeyOf(t)][kind] = Owner(t)

Init ==
  /\ status = [t \in Tx |-> "NONE"]
  /\ ledger = [k \in Key |-> [kind \in Kinds |-> NoMerchant]]
  /\ jobs = [w \in Worker |-> Idle]
  /\ lost = {}
  /\ disturbed = {}

\* The handlers at work on a payment.
On(t) == {w \in Worker : jobs[w] # Idle /\ jobs[w].tx = t}

\* The statuses a payment is on the way to: a handler is at work on it, or the
\* posting is in the books and the row has not followed.
UnderWay(t) ==
  {to \in DOMAIN KindOf :
     \/ \E w \in On(t) : jobs[w].to = to
     \/ Posted(t, KindOf[to]) /\ <<status[t], to>> \in CanTransition}

-----------------------------------------------------------------------------
(* The handlers.                                                           *)

\* create: the payment of a known key is answered with the row it has.
Create(t) ==
  /\ status[t] = "NONE"
  /\ status' = [status EXCEPT ![t] = "PENDING"]
  /\ UNCHANGED <<ledger, jobs, lost, disturbed>>

\* Reading the row and guard_transition.
Begin(w, t, first, to) ==
  /\ jobs[w] = Idle
  /\ <<status[t], to>> \in CanTransition
  /\ jobs' = [jobs EXCEPT ![w] = [at |-> first, tx |-> t, to |-> to]]
  /\ disturbed' = IF UnderWay(t) \subseteq {to} THEN disturbed ELSE disturbed \cup {t}
  /\ UNCHANGED <<status, ledger, lost>>

AuthorizeRecordingFirst(w, t) == Begin(w, t, "status", "AUTHORIZED")

Authorize(w, t) == Begin(w, t, "post", "AUTHORIZED")

CaptureUnguarded(w, t) ==
  /\ jobs[w] = Idle
  /\ status[t] \in {"PENDING", "AUTHORIZED"}
  /\ jobs' = [jobs EXCEPT ![w] = [at |-> "post", tx |-> t, to |-> "CAPTURED"]]
  /\ disturbed' = IF UnderWay(t) \subseteq {"CAPTURED"} THEN disturbed ELSE disturbed \cup {t}
  /\ UNCHANGED <<status, ledger, lost>>

Capture(w, t) == Begin(w, t, "post", "CAPTURED")

Reverse(w, t) == Begin(w, t, "post", "REVERSED")

FailKeepingTheHold(w, t) == Begin(w, t, "status", "FAILED")

\* fail: the reservation is given back first if the row read AUTHORIZED.
Fail(w, t) ==
  Begin(w, t, IF status[t] = "AUTHORIZED" THEN "post" ELSE "status", "FAILED")

PostForgettingTheCapture(w) ==
  LET t == jobs[w].tx
      kind == KindOf[jobs[w].to]
  IN
  /\ jobs[w].at = "post"
  /\ ledger' = [ledger EXCEPT ![KeyOf(t)][kind] =
                  IF @ = NoMerchant THEN Owner(t) ELSE @]
  /\ jobs' = [jobs EXCEPT ![w] = IF kind = "capture" THEN Idle
                                 ELSE [@ EXCEPT !.at = "status"]]
  /\ UNCHANGED <<status, lost, disturbed>>

\* wallet.reserve, settle or release: one ledger posting; a key that exists is
\* answered with the posting it names, whoever made it.
PostStep(w) ==
  LET t == jobs[w].tx
      kind == KindOf[jobs[w].to]
  IN
  /\ jobs[w].at = "post"
  /\ ledger' = [ledger EXCEPT ![KeyOf(t)][kind] =
                  IF @ = NoMerchant THEN Owner(t) ELSE @]
  /\ jobs' = [jobs EXCEPT ![w].at = "status"]
  /\ UNCHANGED <<status, lost, disturbed>>

\* reserve refuses a wallet that is not ACTIVE, and the handler ends.
ReserveRefused(w) ==
  /\ jobs[w].at = "post"
  /\ jobs[w].to = "AUTHORIZED"
  /\ jobs' = [jobs EXCEPT ![w] = Idle]
  /\ UNCHANGED <<status, ledger, lost, disturbed>>

StatusStepBindingTheKind(w) ==
  /\ jobs[w].at = "status"
  /\ status' = [status EXCEPT ![jobs[w].tx] = KindOf[jobs[w].to]]
  /\ jobs' = [jobs EXCEPT ![w] = Idle]
  /\ UNCHANGED <<ledger, lost, disturbed>>

\* update_status and finalize_capture: UPDATE ... WHERE id, whatever the status.
StatusStep(w) ==
  /\ jobs[w].at = "status"
  /\ status' = [status EXCEPT ![jobs[w].tx] = jobs[w].to]
  /\ jobs' = [jobs EXCEPT ![w] = Idle]
  /\ UNCHANGED <<ledger, lost, disturbed>>

\* The handler ends before its next statement: it is dropped, or the statement
\* fails, or the reply to the last one was lost.
Drop(w) ==
  /\ jobs[w] # Idle
  /\ lost' = lost \cup {jobs[w].tx}
  /\ Cardinality(lost') <= MaxLost
  /\ jobs' = [jobs EXCEPT ![w] = Idle]
  /\ UNCHANGED <<status, ledger, disturbed>>

Call(w) ==
  \E t \in Tx : Authorize(w, t) \/ Capture(w, t) \/ Reverse(w, t) \/ Fail(w, t)

Continue(w) == PostStep(w) \/ ReserveRefused(w) \/ StatusStep(w)

Next ==
  \/ \E t \in Tx : Create(t)
  \/ \E w \in Worker : Call(w) \/ Continue(w) \/ Drop(w)

Spec == Init /\ [][Next]_vars

\* The runtime keeps polling a handler that is not dropped.
FairSpec == Spec /\ \A w \in Worker : WF_vars(Continue(w))

-----------------------------------------------------------------------------
(* What the engine promises.                                               *)

TypeOK ==
  /\ status \in [Tx -> Status]
  /\ ledger \in [Key -> [Kinds -> Merchant \cup {NoMerchant}]]
  /\ jobs \in [Worker -> Job]
  /\ lost \subseteq Tx /\ disturbed \subseteq Tx

\* A status that says money moved is only written after the posting that moved
\* it, in the wallet of the payment's own merchant (authorize, capture and
\* reverse post first and record second; docs INV-IDEM-002: the keys of two
\* merchants "must not conflict").
StatusIsBacked ==
  \A t \in Tx :
    /\ status[t] = "AUTHORIZED" => Posted(t, "authorize")
    /\ status[t] = "CAPTURED" => Posted(t, "capture")
    /\ status[t] = "REVERSED" => Posted(t, "reverse")

\* The reserved account is debited for a payment only after it was credited for
\* it, in every interleaving and after every drop (capture, reverse and fail
\* guard on a status that authorize writes last).
DebitsOnlyWhatWasReserved ==
  \A t \in Tx :
    (\E kind \in Kinds \ {"authorize"} : Posted(t, kind)) => Posted(t, "authorize")

\* Money moved for a capture does not stay unrecorded, however many handlers
\* capture at once, unless one is lost or a different call was under way
\* (capture ends in finalize_capture).
CapturedIsRecorded ==
  \A t \in Tx :
    Posted(t, "capture") ~> status[t] = "CAPTURED" \/ t \in lost \cup disturbed

Endings == Kinds \ {"authorize"}

\* The status that records an ending.
Records == [capture |-> "CAPTURED", reverse |-> "REVERSED", failRelease |-> "FAILED"]

\* A lost handler strands nothing, as long as what comes next is the same call
\* again: a payment no different call met under way has at most one ending in
\* the books, one the row has or AUTHORIZED lets the caller ask for again, and a
\* reservation without an ending is one the row still lets the caller end.
NothingIsStranded ==
  \A t \in Tx \ disturbed :
    /\ \A a, b \in Endings : Posted(t, a) /\ Posted(t, b) => a = b
    /\ \A a \in Endings : Posted(t, a) => status[t] \in {"AUTHORIZED", Records[a]}
    /\ Posted(t, "authorize") /\ (\A a \in Endings : ~ Posted(t, a)) =>
         status[t] \in {"PENDING", "AUTHORIZED"}

\* What became of the reservation of a payment: torn, once two different calls
\* on the payment met.
Hold(t) ==
  LET ended == {a \in Endings : Posted(t, a)} IN
  CASE t \in disturbed -> "torn"
    [] t \notin disturbed /\ ended = {} ->
         IF Posted(t, "authorize") THEN "held" ELSE "none"
    [] t \notin disturbed /\ ended = {"capture"} -> "settled"
    [] t \notin disturbed /\ ended \in {{"reverse"}, {"failRelease"}} -> "released"
    [] OTHER -> "ended twice"

R == INSTANCE Reservation WITH hold <- [t \in Tx |-> Hold(t)]

\* A payment moves as the abstract reservation does, whatever the interleaving
\* and whichever handlers are lost.
ImplementsReservation == R!Spec

\* The status of a payment no different call met under way changes by the
\* engine's table, though the row is written whatever it says.
FollowsTheTable ==
  [][\A t \in Tx \ disturbed :
       status'[t] # status[t] =>
         \/ status[t] = "NONE"
         \/ <<status[t], status'[t]>> \in CanTransition]_vars

\* Said of every payment, and not so: a reservation is settled or given back once
\* (docs INV-WALLET-003: "paired with exactly one release or settle").
SettledOnce ==
  \A t \in Tx : Cardinality({kind \in Endings : Posted(t, kind)}) <= 1

\* Said of every payment, and not so: one that failed holds nothing
\* (docs/domains/transactions: PENDING -> FAILED means "No ledger entry. No
\* wallet change").
FailedHoldsNothing ==
  \A t \in Tx :
    status[t] = "FAILED" /\ Posted(t, "authorize") => \E a \in Endings : Posted(t, a)

\* Said of every payment, and not so: every change of status is a transition of
\* the engine's table (can_transition_to: "any transition not listed here is
\* rejected").
StrictTransitions ==
  [][\A t \in Tx :
       status'[t] # status[t] =>
         \/ status[t] = "NONE"
         \/ <<status[t], status'[t]>> \in CanTransition]_vars

=============================================================================
