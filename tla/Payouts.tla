------------------------------- MODULE Payouts -------------------------------
(***************************************************************************)
(* The payout engine (src/core/payouts): a merchant's withdrawal to a bank *)
(* account.  Every handler is a sequence of separate database statements:  *)
(* it reads the payout, checks the transition, claims it with a            *)
(* compare-and-set on the status column, moves the money in ledger         *)
(* postings that each commit on their own, and puts the status back when a *)
(* posting fails.  Handlers of several requests interleave between the     *)
(* statements, a handler may be dropped between any two of them (the       *)
(* process dies, or the client goes away and the request future is         *)
(* dropped), and a statement may fail, before or after it took effect.     *)
(*                                                                         *)
(* One merchant with one wallet.  A payout is identified with its          *)
(* idempotency key, so the keys its postings use (<key>:process,           *)
(* <key>:process:fee, <key>:confirm, <key>:reverse, <key>:reverse:fee) are *)
(* the five entries of ledger[p]; 0 means there is no posting under that   *)
(* key, which is exact because the database refuses an entry of amount 0.  *)
(*                                                                         *)
(* The operators named after a mistake (MarkSentUnrecorded, ...) are not   *)
(* part of Next: they are what the properties must be able to refute.      *)
(***************************************************************************)
EXTENDS Integers, FiniteSetsExt

CONSTANTS
  Payout,     \* payouts, one per idempotency key
  Worker,     \* request handlers that may run at the same time
  Amounts,    \* gross amounts a merchant may ask for
  Fees,       \* fees the pricing rules in force may resolve to
  Opening,    \* the merchant's available balance before the first payout
  MaxErrors,  \* bound on failed database calls
  MaxAborts,  \* bound on handlers dropped half way
  Unpriced    \* pricing_decided_at IS NULL

ASSUME PayoutsAssumption ==
  /\ Amounts \subseteq Nat \ {0}
  /\ Fees \subseteq Nat
  /\ Opening \in Nat
  /\ MaxErrors \in Nat
  /\ MaxAborts \in Nat
  /\ Unpriced \notin Nat

VARIABLES
  payouts,  \* the payouts table
  ledger,   \* ledger[p][kind]: amount of the posting under that key of p
  jobs,     \* jobs[w]: the statement handler w is about to execute
  errors,   \* database calls that failed so far
  aborts    \* handlers dropped so far

vars == <<payouts, ledger, jobs, errors, aborts>>

-----------------------------------------------------------------------------
(* The rows, the postings and the handlers.                                *)

Status ==
  {"NONE", "PENDING", "PROCESSING", "SENT", "CONFIRMED", "FAILED", "RETURNED"}

CanTransition ==
  { <<"PENDING", "PROCESSING">>, <<"PENDING", "FAILED">>,
    <<"PROCESSING", "SENT">>, <<"PROCESSING", "FAILED">>,
    <<"SENT", "CONFIRMED">>, <<"SENT", "FAILED">>, <<"SENT", "RETURNED">> }

\* recorded: ledger_posting_id is set (it only ever names the net posting);
\* sent: sent_at is set; evidence: failure_evidence_ref is set.
Row == [status : Status, amount : Amounts \cup {0}, recorded : BOOLEAN,
        fee : Fees \cup {Unpriced}, sent : BOOLEAN, evidence : BOOLEAN]

NoRow == [status |-> "NONE", amount |-> 0, recorded |-> FALSE,
          fee |-> Unpriced, sent |-> FALSE, evidence |-> FALSE]

Kinds == {"net", "fee", "confirm", "reverse", "reverseFee"}

Steps == {"claim", "price", "net", "fee", "record", "extinguish",
          "evidence", "restore", "restoreFee", "undo"}

\* seen: the status the handler read when it started; to: the status it claims.
Idle == [at |-> "idle"]
Job == {Idle}
       \cup [at : {"insert"}, payout : Payout, amount : Amounts]
       \cup [at : Steps, payout : Payout, seen : Status, to : Status,
             evidence : BOOLEAN, fee : Nat]

\* The merchant's available balance, derived from the entries.
Available ==
  Opening - MapThenSumSet(LAMBDA p : ledger[p].net + ledger[p].fee
                           - ledger[p].reverse - ledger[p].reverseFee, Payout)

Init ==
  /\ payouts = [p \in Payout |-> NoRow]
  /\ ledger = [p \in Payout |-> [k \in Kinds |-> 0]]
  /\ jobs = [w \in Worker |-> Idle]
  /\ errors = 0
  /\ aborts = 0

Goto(w, step) ==
  jobs' = [jobs EXCEPT ![w] = IF step = "idle" THEN Idle
                              ELSE [@ EXCEPT !.at = step]]

-----------------------------------------------------------------------------
(* Starting a handler: it reads the row and checks what it read.           *)

\* initiate: a positive amount no larger than the balance read now.
Initiate(w, p, amount) ==
  /\ jobs[w] = Idle
  /\ payouts[p].status = "NONE"
  /\ amount <= Available
  /\ jobs' = [jobs EXCEPT ![w] =
                [at |-> "insert", payout |-> p, amount |-> amount]]
  /\ UNCHANGED <<payouts, ledger, errors, aborts>>

\* The row is inserted PENDING; the unique index refuses a second one.
Insert(w) ==
  /\ jobs[w].at = "insert"
  /\ LET p == jobs[w].payout IN
     payouts' = IF payouts[p].status = "NONE"
                THEN [payouts EXCEPT ![p] = [NoRow EXCEPT
                        !.status = "PENDING", !.amount = jobs[w].amount]]
                ELSE payouts
  /\ Goto(w, "idle")
  /\ UNCHANGED <<ledger, errors, aborts>>

Begin(w, p, first, to, evidence) ==
  /\ jobs[w] = Idle
  /\ jobs' = [jobs EXCEPT ![w] =
                [at |-> first, payout |-> p, seen |-> payouts[p].status,
                 to |-> to, evidence |-> evidence, fee |-> 0]]
  /\ UNCHANGED <<payouts, ledger, errors, aborts>>

\* process: PENDING is claimed first; a PROCESSING payout whose posting was
\* never recorded is resumed without a claim.
Process(w, p) ==
  \/ /\ payouts[p].status = "PENDING"
     /\ Begin(w, p, "claim", "PROCESSING", FALSE)
  \/ /\ payouts[p].status = "PROCESSING"
     /\ ~ payouts[p].recorded
     /\ Begin(w, p, "price", "PROCESSING", FALSE)

MarkSentUnrecorded(w, p) ==
  /\ <<payouts[p].status, "SENT">> \in CanTransition
  /\ Begin(w, p, "claim", "SENT", FALSE)

\* mark_sent: only once the posting was recorded.
MarkSent(w, p) ==
  /\ <<payouts[p].status, "SENT">> \in CanTransition
  /\ payouts[p].recorded
  /\ Begin(w, p, "claim", "SENT", FALSE)

Confirm(w, p) ==
  /\ <<payouts[p].status, "CONFIRMED">> \in CanTransition
  /\ Begin(w, p, "claim", "CONFIRMED", FALSE)

FailWithoutEvidence(w, p, evidence) ==
  /\ <<payouts[p].status, "FAILED">> \in CanTransition
  /\ Begin(w, p, "claim", "FAILED", evidence)

\* fail: a SENT payout needs the rail's evidence.
Fail(w, p, evidence) ==
  /\ <<payouts[p].status, "FAILED">> \in CanTransition
  /\ payouts[p].status = "SENT" => evidence
  /\ Begin(w, p, "claim", "FAILED", evidence)

MarkReturned(w, p) ==
  /\ <<payouts[p].status, "RETURNED">> \in CanTransition
  /\ Begin(w, p, "claim", "RETURNED", TRUE)

-----------------------------------------------------------------------------
(* The statements of a running handler.                                    *)

\* update_status: the row changes only if its status is still `from`.
MovedRow(p, from, to) ==
  IF payouts[p].status = from
  THEN [payouts EXCEPT ![p].status = to, ![p].sent = @ \/ to = "SENT"]
  ELSE payouts

AfterClaim(j) ==
  CASE j.to = "PROCESSING" -> "price"
    [] j.to = "SENT"       -> "idle"
    [] j.to = "CONFIRMED"  -> "extinguish"
    [] OTHER               -> IF j.evidence THEN "evidence" ELSE "restore"

ClaimUnconditionally(w) ==
  LET j == jobs[w] IN
  /\ j.at = "claim"
  /\ payouts' = MovedRow(j.payout, payouts[j.payout].status, j.to)
  /\ Goto(w, AfterClaim(j))
  /\ UNCHANGED <<ledger, errors, aborts>>

\* Losing the compare-and-set ends the handler with InvalidStatusTransition.
Claim(w) ==
  LET j == jobs[w] IN
  /\ j.at = "claim"
  /\ payouts' = MovedRow(j.payout, j.seen, j.to)
  /\ Goto(w, IF payouts[j.payout].status = j.seen THEN AfterClaim(j) ELSE "idle")
  /\ UNCHANGED <<ledger, errors, aborts>>

\* Where an error leaves the handler: a posting that failed is followed by the
\* compare-and-set that undoes the claim, unless process was only resuming;
\* every other error is returned at once.
OnError(j) ==
  IF /\ j.at \in {"price", "net", "fee", "extinguish", "restore", "restoreFee"}
     /\ j.seen # j.to
  THEN "undo" ELSE "idle"

PriceBackwards(w, fee) ==
  LET j == jobs[w] IN
  /\ j.at = "price"
  /\ fee <= payouts[j.payout].amount
  /\ payouts' = [payouts EXCEPT ![j.payout].fee = IF @ = Unpriced THEN fee ELSE @]
  /\ jobs' = [jobs EXCEPT ![w].at = "net",
                          ![w].fee = fee - payouts[j.payout].amount]
  /\ UNCHANGED <<ledger, errors, aborts>>

\* Pricing is resolved anew by every attempt; the decision is recorded once.
Price(w, fee) ==
  LET j == jobs[w] IN
  /\ j.at = "price"
  /\ fee <= payouts[j.payout].amount
  /\ payouts' = [payouts EXCEPT ![j.payout].fee = IF @ = Unpriced THEN fee ELSE @]
  /\ jobs' = [jobs EXCEPT ![w].at = "net", ![w].fee = fee]
  /\ UNCHANGED <<ledger, errors, aborts>>

PriceRefusedKeepsClaim(w) ==
  /\ jobs[w].at = "price"
  /\ Goto(w, "idle")
  /\ UNCHANGED <<payouts, ledger, errors, aborts>>

\* No rule, an ambiguous one, or a fee larger than the amount.
PriceRefused(w) ==
  /\ jobs[w].at = "price"
  /\ Goto(w, OnError(jobs[w]))
  /\ UNCHANGED <<payouts, ledger, errors, aborts>>

\* ledger.post: a key that exists is answered with the posting it names.  The
\* reply may be lost after the commit, which the handler takes for an error.
Post(w, kind, n, next) ==
  LET j == jobs[w] IN
  /\ ledger' = [ledger EXCEPT ![j.payout][kind] = IF @ = 0 THEN n ELSE @]
  /\ \/ /\ Goto(w, next)
        /\ UNCHANGED errors
     \/ /\ errors < MaxErrors
        /\ errors' = errors + 1
        /\ Goto(w, OnError(j))
  /\ UNCHANGED <<payouts, aborts>>

\* DR available / CR withdrawals in flight.
PostNet(w) ==
  LET j == jobs[w]
      net == payouts[j.payout].amount - j.fee
  IN
  /\ j.at = "net"
  /\ net > 0
  /\ Post(w, "net", net, IF j.fee > 0 THEN "fee" ELSE "record")

\* A fee equal to the gross amount leaves a net of 0, which the database refuses.
NetRefused(w) ==
  /\ jobs[w].at = "net"
  /\ payouts[jobs[w].payout].amount = jobs[w].fee
  /\ Goto(w, OnError(jobs[w]))
  /\ UNCHANGED <<payouts, ledger, errors, aborts>>

\* DR available / CR operator fee.
PostFee(w) ==
  /\ jobs[w].at = "fee"
  /\ Post(w, "fee", jobs[w].fee, "record")

\* The id of the net posting is recorded if the payout is still PROCESSING.
Record(w) ==
  LET p == jobs[w].payout IN
  /\ jobs[w].at = "record"
  /\ payouts' = IF payouts[p].status = "PROCESSING"
                THEN [payouts EXCEPT ![p].recorded = TRUE] ELSE payouts
  /\ Goto(w, "idle")
  /\ UNCHANGED <<ledger, errors, aborts>>

\* post_confirmation: DR withdrawals in flight / CR bank, for the net posted.
Extinguish(w) ==
  LET net == ledger[jobs[w].payout].net IN
  /\ jobs[w].at = "extinguish"
  /\ net > 0
  /\ Post(w, "confirm", net, "idle")

RecordEvidence(w) ==
  /\ jobs[w].at = "evidence"
  /\ payouts' = [payouts EXCEPT ![jobs[w].payout].evidence = TRUE]
  /\ Goto(w, "restore")
  /\ UNCHANGED <<ledger, errors, aborts>>

\* post_reversal: what is found under the key is reversed exactly; what is not
\* found is passed over.
Reverse(w, kind, reversal, next) ==
  LET found == ledger[jobs[w].payout][kind] IN
  \/ /\ found > 0
     /\ Post(w, reversal, found, next)
  \/ /\ found = 0
     /\ Goto(w, next)
     /\ UNCHANGED <<payouts, ledger, errors, aborts>>

Restore(w) ==
  /\ jobs[w].at = "restore"
  /\ Reverse(w, "net", "reverse", "restoreFee")

RestoreFeeByDifference(w) ==
  LET p == jobs[w].payout IN
  /\ jobs[w].at = "restoreFee"
  /\ Post(w, "reverseFee", payouts[p].amount - ledger[p].net, "idle")

RestoreFee(w) ==
  /\ jobs[w].at = "restoreFee"
  /\ Reverse(w, "fee", "reverseFee", "idle")

\* The rollback of a claim, its own failure ignored.
Undo(w) ==
  LET j == jobs[w] IN
  /\ j.at = "undo"
  /\ payouts' = MovedRow(j.payout, j.to, j.seen)
  /\ Goto(w, "idle")
  /\ UNCHANGED <<ledger, errors, aborts>>

\* The next statement fails without effect.
DbError(w) ==
  /\ errors < MaxErrors
  /\ jobs[w] # Idle
  /\ errors' = errors + 1
  /\ Goto(w, OnError(jobs[w]))
  /\ UNCHANGED <<payouts, ledger, aborts>>

\* The handler is dropped before its next statement.
Abort(w) ==
  /\ aborts < MaxAborts
  /\ jobs[w] # Idle
  /\ aborts' = aborts + 1
  /\ Goto(w, "idle")
  /\ UNCHANGED <<payouts, ledger, errors>>

Call(w) ==
  \E p \in Payout :
    \/ \E amount \in Amounts : Initiate(w, p, amount)
    \/ Process(w, p)
    \/ MarkSent(w, p)
    \/ Confirm(w, p)
    \/ \E evidence \in BOOLEAN : Fail(w, p, evidence)
    \/ MarkReturned(w, p)

Continue(w) ==
  \/ Insert(w)
  \/ Claim(w)
  \/ \E fee \in Fees : Price(w, fee)
  \/ PriceRefused(w)
  \/ PostNet(w)
  \/ NetRefused(w)
  \/ PostFee(w)
  \/ Record(w)
  \/ Extinguish(w)
  \/ RecordEvidence(w)
  \/ Restore(w)
  \/ RestoreFee(w)
  \/ Undo(w)

Next == \E w \in Worker : Call(w) \/ Continue(w) \/ DbError(w) \/ Abort(w)

Spec == Init /\ [][Next]_vars

\* The runtime keeps polling a handler that is not dropped.
FairSpec == Spec /\ \A w \in Worker : WF_vars(Continue(w))

-----------------------------------------------------------------------------
(* What the engine promises.                                               *)

TypeOK ==
  /\ payouts \in [Payout -> Row]
  /\ ledger \in [Payout -> [Kinds -> Nat]]
  /\ jobs \in [Worker -> Job]
  /\ errors \in 0 .. MaxErrors
  /\ aborts \in 0 .. MaxAborts

\* A payout handed to the rail has its net amount in the ledger, whatever
\* errors, drops and retries came before (mark_sent refuses a payout "that has
\* not finished moving its money").
RailHasBacking ==
  \A p \in Payout :
    payouts[p].status \in {"SENT", "CONFIRMED", "RETURNED"} =>
      payouts[p].recorded /\ ledger[p].net > 0

\* What is given back is what was taken, and what the bank pays is what was
\* taken for it, even when the price changed between two attempts
\* (post_reversal: "reversing the posting itself returns exactly what moved").
MovesWhatWasPosted ==
  \A p \in Payout :
    /\ ledger[p].reverse \in {0, ledger[p].net}
    /\ ledger[p].reverseFee \in {0, ledger[p].fee}
    /\ ledger[p].confirm \in {0, ledger[p].net}

\* A participant whose money (or fee) was given back is never paid by the bank
\* as well (the claim in confirm: otherwise the obligation "would [be paid] out
\* twice").
NeverRestoredAndPaid ==
  \A p \in Payout :
    ledger[p].confirm > 0 => ledger[p].reverse = 0 /\ ledger[p].reverseFee = 0

\* A payout the rail had in its hands is given back only on recorded evidence
\* (fail and mark_returned: "a timeout is not that evidence").
RestoredOnEvidence ==
  \A p \in Payout :
    payouts[p].sent /\ (ledger[p].reverse > 0 \/ ledger[p].reverseFee > 0)
      => payouts[p].evidence

\* No step takes a payout out of CONFIRMED, FAILED or RETURNED.
TerminalIsFinal ==
  [][\A p \in Payout :
       payouts[p].status \in {"CONFIRMED", "FAILED", "RETURNED"} =>
         payouts'[p].status = payouts[p].status]_vars

\* Every payout moves as the abstract withdrawal does.
Position(p) ==
  IF ledger[p].confirm > 0 THEN "paid"
  ELSE IF ledger[p].reverse > 0 THEN "restored"
  ELSE IF ledger[p].net > 0 THEN "inFlight" ELSE "owed"

W == INSTANCE Withdrawal WITH
       position <- [p \in Payout |-> Position(p)],
       feeBack <- {p \in Payout : ledger[p].reverseFee > 0}

ImplementsWithdrawal == W!Spec

\* Whether no call has failed and no handler was dropped.
Undisturbed == errors = 0 /\ aborts = 0

\* As long as that is so, what a handler claimed is carried out: a confirmation
\* reaches the bank account (confirm posts the extinguishment after its claim), and
\* a claim of PROCESSING is completed or given back (process gives it back when
\* pricing or the ledger refuses).
ClaimsAreCarriedOut ==
  \A p \in Payout :
    /\ payouts[p].status = "CONFIRMED" ~> ledger[p].confirm > 0 \/ ~ Undisturbed
    /\ payouts[p].status = "PROCESSING" ~>
         \/ payouts[p].recorded
         \/ payouts[p].status # "PROCESSING"
         \/ ~ Undisturbed

-----------------------------------------------------------------------------
(* What the documentation says and the code does not do.                   *)

Settled(p) == \A w \in Worker : jobs[w] # Idle => jobs[w].payout # p

\* PayoutStatus::Failed: "Ledger reversed if was Processing/Sent".
FailedIsReversed ==
  \A p \in Payout :
    payouts[p].status = "FAILED" /\ Settled(p) =>
      /\ ledger[p].reverse = ledger[p].net
      /\ ledger[p].reverseFee = ledger[p].fee

\* confirm: "The obligation is extinguished and the backing asset decreases".
ConfirmedMovedTheBank ==
  \A p \in Payout :
    payouts[p].status = "CONFIRMED" /\ Settled(p) => ledger[p].confirm > 0

\* docs/domains/payouts: process requires sufficient available balance.
AvailableNeverOverdrawn == Available >= 0

\* post_initiation: "gross = net + fee (INV-STL-001)".
ChargedExactlyGross ==
  \A p \in Payout :
    payouts[p].status \in {"SENT", "CONFIRMED"} =>
      ledger[p].net + ledger[p].fee = payouts[p].amount

\* WithdrawalPricing: a completed payout answers "what fee" from its own row.
RowExplainsTheFee ==
  \A p \in Payout :
    payouts[p].status \in {"SENT", "CONFIRMED"} =>
      ledger[p].fee = payouts[p].fee

=============================================================================
