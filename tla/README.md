# Verification of the BANZAMI payment core

TLA+ models of the money-moving core of this repository (the Rust crates and
routes under `src/core`, and the one Go handler that sequences calls to them)
and of three stateful parts around it (the web app's session host, the
validation runner, the hosted payment page with its status stream), their TLC
configurations, and TLAPS proofs.

- [1. The system](#1-the-system): components, state, interactions, what is hard
- [2. The modules](#2-the-modules): what models what, and how
- [3. The runs](#3-the-runs): bounds, fairness, what each shows
- [4. Disagreements](#4-disagreements) between the code and what it says of itself
- [5. The proofs](#5-the-proofs)
- [6. Limits](#6-limits): what is only model-checked, what is not modelled
- [7. The plan](#7-the-plan)

## 1. The system

### Components

| Component | Where | State it keeps | Operations | What makes it correct |
|---|---|---|---|---|
| Ledger | `core/ledger` | accounts, postings, entries; balances are sums of entries | `create_account`, `post`, `reverse`, `balance`, lookups | a committed posting is whole and balanced, one per key, never changed |
| Merchant wallets | `core/wallets` | one row per merchant and currency, with an *available* and a *reserved* ledger account | `credit`, `debit`, `reserve`, `release`, `settle` | what is reserved is settled or released once |
| Transactions | `core/transactions` | a row with a status | `create`, `authorize`, `capture`, `reverse`, `fail` | status and wallet agree; the transition table is respected |
| Payouts | `core/payouts` | a row with a status, its fee, evidence, its posting | `initiate`, `process`, `mark_sent`, `confirm`, `fail`, `mark_returned` | money is paid out or given back, never both, never half |
| Transfers | `core/transfers` | a row per idempotency key | `send` | exactly once per key; no overdraft |
| Consumer wallets | `core/consumer-wallets` | wallet row, PIN state, reservations | `reserve`, `release`, `commit_reserved`, PIN and status operations | no overdraft; the reserved account equals the open reservations |
| Pay links | `core/api/src/routes/consumer_pay_links.rs` | a link with status and expiry | create, look up, `pay`, cancel | paid once; not overdrawn |
| QR payments, QR codes | `routes/qr_pay.rs`, `core/qr` | a code with status and expiry | `pay`, `mark_used`, expiry worker | a dynamic code is spent once, and only if paid |
| Payment sessions | `routes/payment_sessions.rs` | a session, its payment link, its dynamic code | `create`, settle through any interface, `cancel` | decided once; paid once; every interface ends with it; paid is announced |
| Payment links | `core/payment-links`, `routes/payment_links.rs` | a link with status and expiry | create, cancel, `mark_used`, expiry worker | terminal states are final |
| Acquiring | `core/acquiring`, `routes/acquiring.rs` | provider payments | initiate, confirm by callback | a confirmed payment settles its session with its posting |
| Settlement batches | `core/settlement` | a batch with a status | `create_batch`, `submit`, `confirm`, `fail`, scheduler | settled exactly when net and fee are posted |
| Application settlements | `core/app-settlement` | a settlement with a status | `create`, `submit`, `complete`, `cancel`, `fail` | same, under advisory locks |
| Collections | `core/collections` | collection, shares, payment intents | create, surface, settle a surface, close, cancel | the roll-up agrees with the paid shares |
| Deposits | `core/consumer-wallets/src/funding.rs` | funding sessions | create, callback, reconcile, fail, reverse, expire | credited once |
| Refunds, disputes, restitution | `routes/refunds.rs`, `disputes.rs`, `restitution.rs` | rows over wallet payments | create, resolve | never more back than was paid |
| Wallet accounts | `routes/wallet_accounts.rs`, `wallet_account_transfers.rs` | segregated accounts | open, close, move | a closed account holds nothing and owes nothing |
| Webhooks | `services/api-gateway` | events, deliveries, attempts | enqueue, lease, attempt, retry, re-queue | at least once, history agrees with the count |
| Pricing | `core/pricing` | rules with effective windows | resolve, administer | exactly one rule applies |
| Reconciliation, compliance, risk, routing, identity, merchants | `core/*` | rule tables, profiles, runs | gates and reports | refuse what they must |
| Web app session host | `apps/app-banzami/server.mjs`, `lib/session_store.mjs`; `services/api-gateway/.../merchant_sessions.go` | records behind opaque ids, the browser's cookie, refresh-token rows | sign in on two sides, call, renew, switch, sign out | absolute lifetime; no id survives its sign-in or sign-out; a sign-out ends the sign-in at the gateway |
| Validation runner | `tools/validation-runner.mjs`, `services/admin-api/internal/validation`, migration 0160 | a run, its journeys, its lease | prepare, start, cancel; claim, execute, conclude | PASS is earned; records are final; a cancel is heard; a claimed run ends |
| Payment status stream | `services/api-gateway/.../realtime.go`, `apps/pay/lib/realtime-status.ts` | places, one watcher per session; per client a connection and a token | stream, admit, watch, send; connect, retry, close | every open stream is watched; places come back; a client is told only what is so |
| Hosted payment page | `apps/pay/app/pay/[slug]/pay-client.tsx` | what it shows, whether it streams or polls | hear, poll, pay by the external rail | a payment is shown, and only a payment |
| Embedded checkout | `sdk/checkout-web` | an overlay, a poll timer | open, close, two callbacks | one callback, once |
| SDK client | `sdk/typescript` | a token | re-authenticate, retry under a key | one effect per key |
| Other edge services | `services/*` | sessions, API keys | HTTP to core | sequence core calls safely |

### How they interact

Everything is a Rust or Go process over one PostgreSQL database. An engine is an
HTTP handler's sequence of SQL statements. There are two styles, and the
difference is what the models are about:

- **Separate statements** (payouts, transactions, settlement batches): read the
  row, check the transition, change the row, post to the ledger, each committed
  on its own. `ledger.post` is itself one database transaction, and is idempotent
  by the posting's key: a second post under a key is answered with the first
  posting, even if its contents differ (`core/ledger/src/repository.rs:89`).
- **One transaction** (transfers, reservations, pay links, QR payments, session
  settlement): everything commits at once, and what matters is which rows are
  locked, in which order, before what is read. The isolation level is READ
  COMMITTED: a statement sees what was committed when it starts; an `UPDATE`
  waits for a locked row and evaluates its condition again.

The public API's payment of a link is a third kind: two core calls, each with a
transaction of its own (`services/public-api/internal/handler/payment_links.go:156,210`).

The parts around the core meet it through the database and over HTTP. The web
host is one Node process: its handlers interleave at each `await`, over a store
it reads and writes by whole record; what it holds of a business is a token whose
rows live in the gateway. The payment page is a client of the gateway's status
stream, whose session is the one `PaymentSessions` decides: `StatusStream.Change`
is that module's outcome, and nothing else. The validation runner meets its operator
only in one row, guarded by a trigger.

### What is hard

Handlers of different requests interleave between any two statements. A handler
can end between two statements: the process dies, or the client disconnects and
the HTTP server drops the request's future (axum and hyper do so at the next
suspension point, and every database call is one). Callers retry. Prices change
between attempts. Transactions deadlock and PostgreSQL aborts one. The list at
each line is under `hazards` in `PROJECT.json`.

## 2. The modules

Every component module keeps `jobs[w]`, the statement handler `w` is about to
execute and the values it has read: a handler is a local program counter, a
statement an action. Actions are named after the function or the statement they
model; `map` in `PROJECT.json` gives the lines. The operators named after a
mistake (`ClaimUnconditionally`, ...) stand beside the action they alter, are in
no next-state relation, and are what the properties have to refute.

| Module | Models | Notes |
|---|---|---|
| `Withdrawal` | abstract specification | owed, in flight, then paid **or** given back; the bank never pays once the fee or the net was returned |
| `Payouts` | the payout engine | refines `Withdrawal` |
| `PayoutsProofs` | | theorems about `Payouts` |
| `Reservation` | abstract specification | none, held, then settled **or** released; torn once two different calls met |
| `Transactions` | the transaction engine over the wallet engine | refines `Reservation` in every interleaving |
| `TransactionsProofs` | | theorems about `Transactions` |
| `ConsumerSpending` | the four ways money leaves a consumer's wallet | |
| `ConsumerSpendingProofs` | | theorems about `ConsumerSpending` |
| `PaymentSessions` | a session, its link and its code, and all that ends them | |
| `PaymentSessionsProofs` | | theorems about `PaymentSessions` |
| `SignedIn` | abstract specification | a browser is signed in on a side or it is not, and only its own requests, a lapse or a gateway entitled to refuse it change that |
| `WebSession` | the web host, its store, the gateway's business sessions | implements `SignedIn` for a browser that makes one request at a time |
| `WebSessionProofs` | | theorems about `WebSession` |
| `ValidationRuns` | a validation run, its operator and its executors | |
| `ValidationRunsProofs` | | theorems about `ValidationRuns` |
| `StatusFeed` | abstract specification | what a watching page may be told, and when its watch ends |
| `StatusStream` | the gateway's handlers and watcher, the browsers' `watchStatus` | implements `StatusFeed` for each client |
| `StatusStreamProofs` | | theorems about `StatusStream` |
| `PayPage` | the hosted page, composed with `StatusStream` | one of the stream's clients |
| `PayPageProofs` | | theorems about the composition |
| `MC*` | instances for TLC | |

### Payouts

`payouts[p]` is the row; `ledger[p]` the amounts posted under the five keys a
payout uses (`net`, `fee`, `confirm`, `reverse`, `reverseFee`; 0 is no posting,
since the database refuses an entry of 0). A handler reads the row (`Process`,
`MarkSent`, `Confirm`, `Fail`, `MarkReturned`), then makes its `Claim` (the
compare-and-set of `update_status`), then its postings. `Price` chooses any fee
in `Fees` each time, because `resolve_withdrawal_fee` runs on every attempt and
rules may have changed; `PriceRefused` and `NetRefused` and every `DbError` after
`process`'s claim lead to `Undo`, which gives the claim back. `Abort` ends a
handler before its next statement; a reply lost after a statement took effect is
an `Abort` after it.

One merchant, one wallet. A payout is identified with its idempotency key, so a
replayed `initiate` changes nothing and is a stutter. The gates in front of the
engine (rail availability, freezes) only refuse. `post_confirmation`'s branch for
payouts older than the in-flight account is left out.

### Transactions

`ledger[k][kind]` is the merchant whose wallet was moved by the posting under key
`k:kind`. All four postings of a payment move its whole amount, so amounts are
left out. Authorize, capture, reverse and fail are `Begin` (read and check),
`PostStep` (the wallet engine's posting, which may find its key taken), and
`StatusStep` (`UPDATE ... WHERE id`).

Nothing in the engine keeps two calls on one payment apart, so nothing in the
model does. What the documents promise is not kept when two *different* calls
meet, and `disturbed` is the record of that: a payment is in it once a call began
towards one status while another was under way, either in a handler at work or as a
posting left behind by a handler that was lost (`UnderWay`). No step reads it; the
same call made twice, together or as a retry, does not set it. The properties say what holds
of every payment, and what holds of one that is not disturbed; section 4 has what
happens to the others.

### ConsumerSpending

A request names its rail: `send`, `reserve`, `link` or `qr`. Each goes through
`Check` and `Deadline` outside any lock, one of `LockWallet`, `LockObject`,
`LockNone`, then `Balance`, then its commit. The writes of a transaction are in
its last step; its lock is held from the step that takes it (`Holding`). A lost
connection (`Drop`) rolls everything back. `Release` and `CommitReserved` are each
one transaction.

### PaymentSessions

Three rows (`session`, `link`, `qr`) with row locks, and five facts about money:
`moved` (reached the merchant), `recorded` (a wallet payment exists, so a refund
can name it), `event` (the `payment_session.paid` event names it),
`unconfirmed` (the payer was told to retry). A link payment is `Read`, `Transfer`
(idempotent per link: a second payer is refused, the same payer replays), then a
completion transaction that locks link, session, code; a scan locks code,
session, link; a hosted payment locks link, session, code with its posting; a
cancel locks the session, then link and code. `Deadlock` aborts one of two
handlers that wait for each other (longer cycles cannot form: each waits for a
row of one session, and the three rows only allow pairs). A scan's wallet payment is written by
`Record` after its commit, unless a handler is lost there.

`event` is queued in the same transaction as the payment, so it is part of
`Commit`. Sessions start as `create` leaves them; a provider's callback can come
at any time; `linkClose` is a merchant's `mark_used` without a transfer.
`overtaken` is history that no step reads: the sessions whose link was ended by
something other than its payment, which is when money a link payer was already debited for
can no longer be recorded.

### WebSession

`store[id]` is the stored record, `jar` the browser's cookie, `rows[t]` the
gateway's row of a refresh token. A request `req[s]` carries the record it loaded
(`Send`) through its upstream steps to the write of the whole record (`Keep`,
`Save`, `Drop`, `Rotate` and `Retire`), so anything stored in between is
overwritten exactly as `server.mjs` does.

The gateway's half has its row locks. `Renew` locks the presented row and then
answers one of four ways: the token is revoked (`RenewRefused`); it was rotated
before (`RenewReused`); what sign-in checked no longer holds, because the
business is not ACTIVE or its handle left it (`RenewDenied`); or it is rotated
(`RenewLocks`, `RenewCommits`). The second and the third revoke the family in the
same transaction, commit, and are refused with a 401 on which the host drops the
business side (`RefusalEnds`). Every revocation is two steps, because its `UPDATE` sees
the rows committed when it starts and waits for the locks on them: those of
`Renew`, of `End` (`EndBegins`, `SignOutEnds`), and of the deletion of the account
(`SweepBegins`, `SweepEnds`), which may fail and is then only logged. `Bar` is what
happens to the business outside these files.

A call may end before it reaches the gateway (`Unreachable`), or the gateway may
commit and the host not hear of it: of a sign-in (`SignInLost`: a family nobody
holds), a renewal, a refusal, or a sign-out (`SignOutLost`: 502, nothing written,
and the browser still acts as a business whose tokens are revoked).
`lost` records the families of the last three. A sign-out the gateway answers with an error, and
a sign-out of everything whatever comes back, drop the side all the same
(`EndFails`).

A tick of `now` is the life of an access token (15 minutes). A request is shorter
than that, because each upstream call is given up after 20 s, but for a sign-out of
everything, whose two calls have no limit (`server.mjs:538`): `Tick` does not wait
for it. The consumer's bearer (24 h) and the refresh token (30 days) outlive a
session (12 h) and never expire here; `active_context` is a preference that
decides nothing; the CSRF nonce follows the id. A consumer's `token_version` is
bumped upstream and changes no step of the host.

### ValidationRuns

`state`, `verdict` and `leased` are the run's row, `rows` its journeys, `ex[e]` an
executor between two statements. `Passes` is the trigger, which lets an `UPDATE`
through that leaves the state as it is. The heartbeat is a timer in a process
whose `main` never yields, so no action renews a lease, and nothing keeps an executor's
work inside its 900 s. A lease may run out on an executor at work (`LeaseExpires`);
`overrun` records, for no step to read, that one did, since a second executor may then
be at work on the same run. What a property promises beyond that point it says.
`earned` is what the executor that wrote the verdict had itself seen pass. Before it claims, a runner
looks at what is waiting and may turn away for want of capacity or of the cleanup
barrier (`TurnedAway`), which leaves the run to be claimed. A claim takes whatever
is claimable, which need not be the run that was peeked at. `late` and `faults` are
counters of the model.

### StatusStream and PayPage

`handler[k]` is a stream handler in place `k`, with the channel the watcher writes
to; `watch[c]` is a browser's `watchStatus`. Sending and receiving a frame is one
step: a frame lost on the way is a connection that dropped before. Read and
admission are two steps, since no lock is held between them; a handler whose
client has gone stays until `Notice`. The statuses no decision tells apart
(EXPIRED, CANCELLED, FAILED) are one. A stream closed because its project went
away is a `Drop` in good order followed by a `Refused`.

`PayPage` extends `StatusStream`: a step of the stream that changes what its own
client was told, or why it ended, runs the page's callback in the same step. A
poll is a step only when it will find the link paid. The page's time limit, its
external rail and the answers that come after the page moved on are actions.

## 3. The runs

Handlers are workers that can be reused, so a bound on workers bounds how many
requests overlap, never how many there are. `CHECK_DEADLOCK FALSE` everywhere: all
payments of a finite instance may be finished, and the system may then rest.

| Run | Instance | Properties |
|---|---|---|
| `PayoutsRaces` | 2 handlers, 1 payout, 3 possible fees, 1 lost handler | `TypeOK`, `NeverRestoredAndPaid`, `RestoredOnEvidence`, `ImplementsWithdrawal`, `ClaimsAreCarriedOut` |
| `PayoutsFaults` | the same with 2 failed calls | `RailHasBacking`, `MovesWhatWasPosted` |
| `TransactionsRaces` | 2 handlers, 2 payments of 2 merchants, each of which may lose handlers | `TypeOK`, `StatusIsBacked`, `DebitsOnlyWhatWasReserved`, `NothingIsStranded`, `ImplementsReservation`, `CapturedIsRecorded` |
| `SpendingLocked` | 2 handlers, 2 transfers, a reverse transfer under a shared key, 2 reservations, a balance that covers one | `TypeOK`, `NoOverdraft`, `BalancesMatchTheRecords`, `SuccessIsRecorded` |
| `SpendingObjects` | 2 payers of one code, a static code, 2 payers of one link, expiry | `CodeIsPaidOnce` |
| `SessionsRaces` | 2 handlers, 2 payers, all seven operations, 1 lost handler | `TypeOK`, `InterfacesEndWithTheSession`, `PaidIsAnnounced`, `TakenIsRecordable`, `EachInterfacePaidOnce`, `DecidedOnce`, `EveryHandlerEnds` |
| `WebSession` | 2 requests at once (or 1 at a time), all 9 kinds of request, 4 of them, a clock of 4 ticks with a lifetime of 3, 1 lost answer, 1 sign-in whose business is barred | `TypeOK`, `LifetimeIsAbsolute`, `PreauthIdIsSpent`, `SignOutEndsTheSignIn`, `OneTokenPerSignIn`, `OneAtATimeIsSignedIn` |
| `ValidationRuns` | 2 executors, 3 journeys of which one has no harness, 2 crashes or failures | `TypeOK`, `PassMeansPassed`, `CancelStopsTheRun`, `RecordIsFinal`, `ClaimedRunEnds` |
| `StatusStream` | 2 clients, 3 places of which 2 may be open, so that two streams share a watcher, a channel of 2, 1 failure in a row | `OneWatcherServesAll`, `EachHasItsFeed` |
| `PayPage` | 1 page, 2 places of which 1 may be open, a channel of 2, 1 failure in a row | `PlacesAreFreed`, `PaidIsShown` |
| `SessionsPaidTwice` | 2 handlers | `PaidOnce`, violated: section 4 |

What the runs show. `PayoutsRaces`: however process, confirm, fail and return
meet, and whoever is lost, the engine moves money as `Withdrawal` does, and a claim that
nothing disturbs is carried out or given back. `TransactionsRaces` (235,568 states):
every interleaving and every loss moves a payment as `Reservation` does, and a lost
handler by itself strands nothing: the row still allows the same call again, which
finds its posting and completes. `SessionsRaces` (360,798): a session is decided
once, and a link payer's money, which moves before the claim, stays recordable for
as long as nothing else has ended the link. `WebSession` (1,135,658): however two requests
interleave, with each other, with a business that is barred and with its account's
deletion, no stored authority outlives the sign-in that obtained it by more than the
absolute lifetime and two ticks, an id from before the sign-in stays dead, and two
renewals never both succeed with one token; one request at a time, the host is
`SignedIn`, a sign-out that was answered leaves no living refresh token, and a
token is revoked for three reasons only. `ValidationRuns` (1,245,356): crashes, failed
statements, refusals, cancels and takeovers never make a PASS out of a journey that its
executor did not see pass, and a claimed run ends. `StatusStream` (1,060,956): two
streams come and go on one watcher, and each client is told only what is so. `PayPage`
(82,018): a stream that missed a change (section 4) ends with its token, the
page then asks, and the payment is shown.

**Bounds.** `MaxErrors`, `MaxAborts` and `MaxDrops` bound failures, `MaxLost` the payments of
`Transactions` that lose any number of handlers; `Opening`,
`Amounts` and `Fees` are the values of money. One payout, transaction or session
is enough for most properties because they never share a row: what they share is
the wallet's balance (`SpendingLocked`, and the overdraft configurations, have
several) and a key (`TransactionsSharedKey`). `Amounts = {2}` with `Fees = {0, 1, 2}` covers no fee, a fee
below the gross and a fee that leaves a net of 0, which the engine refuses. Two
overlapping handlers exhibit each race, since each is between two
requests; a third joins by reusing a worker. The safety theorems hold for every
number of handlers and payouts.

`MaxTime`, `MaxIds`, `MaxTokens`, `MaxSent`, `MaxLost` and `MaxBarred` bound
`WebSession`: four requests are a sign-in on each side, and a call and a sign-out that
overlap, or two calls that do; four ticks exceed the lifetime of three, whose
idle window of two exceeds a token's life of one as in the code (12 h, 30 min,
15 min). For one request at a time the invariant of the proof was also checked
with six requests (9,016,943 states). `MaxFaults` bounds the faults of
`ValidationRuns`, among them an executor that refuses a run for its budget and one
that is turned away before it claims: one that refuses for ever would be started
for ever, so `ClaimedRunEnds` says nothing of a shortage that lasts. The code admits 3 streams per session, has a
channel of 4 and gives up after 5 failures; the instances have 1 or 2, 2 and 1,
and a session has at most two statuses here, so a channel of 2 is never the
limit. `OneWatcherServesAll` and `EachHasItsFeed` are proved for all sizes.

**Symmetry** is used in runs without liveness properties, over workers (and
payouts, payers or clients), whose identities no action inspects.

**Fairness.** `WF` of each handler's next statement: the runtime polls a future
until it completes or is dropped, and a dropped handler is the separate action
`Abort` or `Drop`, which is bounded and not fair. In `PaymentSessions` also `SF`
of the statements that wait for a row, because PostgreSQL queues the waiters of a row, and
`WF` of `Deadlock`, because it checks after `deadlock_timeout`. In `ValidationRuns`: an executor's next
statement, the lease's end, and a new executor as long as something is claimable:
that one is the operator's part, who starts `validation-runner.mjs --claim`, and
`ClaimedRunEnds` says that doing so is enough. In `PayPage`: handlers and watcher run,
requests are answered or fail, tokens lapse after their thirty minutes, and `SF`
of a poll's answer, because the page polls every few seconds and some answer
comes back. Beyond that nobody is assumed
to call anything. `ClaimsAreCarriedOut` promises nothing after a
failure (`Undisturbed`), and `CapturedIsRecorded` nothing of a payment that lost a
handler or met a different call: section 4 shows why they cannot.

## 4. Disagreements

Found while modelling: the property is what a document, comment or test states,
and TLC violates it. One is a run of the project; the others are configurations
beside the modules. The quotation of the run's is in `PROJECT.json` under
`findings`.

| Run | The statement | What the code does |
|---|---|---|
| `SessionsPaidTwice` | "A session is paid once, through whichever interface paid it" (`payment_sessions.rs:468`) | the link's payer is debited before the link is claimed; a scan in between pays too |

### Further disagreements

These configurations stand beside the modules and are run by hand
(`tlc -config <name>.cfg MC<module>`); TLC violates the property named.

| Configuration | Property | Statement and behaviour |
|---|---|---|
| `PayoutsFailRacesProcess` | `FailedIsReversed` | "Failed ... Ledger reversed if was Processing/Sent" (`core/payouts/src/lib.rs:27`); `fail` between `process`'s claim and its posting finds nothing to reverse, and `process` then posts |
| `TransactionsSharedKey` | `StatusIsBacked` | keys of two merchants "must not conflict" (`docs/validation/INVARIANT_TAXONOMY.md:188`); posting keys do not name the merchant, and the second authorize is answered with the first merchant's posting |
| `SpendingScanOverdraws` | `NoOverdraft` | "Available balance must never go below zero" (`INVARIANT_TAXONOMY.md:98`); a scan reads the balance without locking the payer's wallet, and so does a pay link |
| `PayoutsDroppedConfirm` | `ConfirmedMovedTheBank` | "The obligation is extinguished and the backing asset decreases" (`core/payouts/src/engine.rs:39`); lost after its claim, confirm has not, and a second confirm is refused |
| `PayoutsOverdraft` | `AvailableNeverOverdrawn` | `process` "requires ... sufficient `available_balance`" (`docs/domains/payouts/README.md:96`); it reads no balance |
| `PayoutsRepriced` | `ChargedExactlyGross` | "gross = net + fee" (`engine.rs:221`); a second attempt keeps the posted net and charges a new fee |
| `PayoutsHalfReversed` | `NeverRestoredAndPaid` | paying after restoring "would pay it out twice" (`engine.rs:559`); when the second half of a reversal errors the payout becomes confirmable again |
| `TransactionsOverwritten` | `StrictTransitions` | "any transition not listed here is rejected" (`core/transactions/src/transaction.rs:91`); the last writer wins |
| `TransactionsReleasedTwice` | `SettledOnce` | each reserve is "paired with exactly one `release` or `settle`" (`INVARIANT_TAXONOMY.md:124`); a reverse lost before its status leaves the payment capturable |
| `TransactionsOrphanedHold` | `FailedHoldsNothing` | PENDING to FAILED: "No ledger entry" (`docs/domains/transactions/README.md:91`); an authorize lost before its status has held the money |
| `SpendingReplayRefused` | `ReplayGetsTheTransfer` | a re-submitted key "returns the original transfer" (`core/transfers/src/engine.rs:19`); an overlapping duplicate is refused for the funds its own transfer took |
| `SpendingCodeSpentUnpaid` | `SpentCodeWasPaid` | no "window where the code is spent and the money has not moved" (`routes/qr_pay.rs:40`); a scan under a key used for another code spends its code |
| `SessionsCancelledPaid` | `CancelledSessionTookNothing` | a paid session's cancel is refused (`payment_sessions.rs:561`); a transfer not yet claimed is invisible to it |
| `SessionsLinkCancelledPaid` | `CancelledLinkTookNothing` | "The transfer was never initiated" (`docs/domains/payment-links/README.md:118`); the transfer comes before the claim |
| `SessionsLinkOverwritten` | `LinkIsFinal` | terminal states "are immutable" (`payment-links/README.md:59`); cancel updates by id |
| `SessionsRetryRefused` | `RetryCompletes` | "retry to complete it" (`payment_links.go:217`); after a deadlock lost to a scan the link is cancelled and each retry refused |
| `StatusStreamMissed` | `EachChangeIsSent` | a stream gets "each change after that" (`realtime.go:42`); a change published between a handler's reading and its admission goes to the other streams only |

The following properties have no configuration of their own; each is in its
module, and violated when it takes the place of the properties of the
configuration named.

| In | Property | Statement and behaviour |
|---|---|---|
| `PayoutsRepriced.cfg` | `RowExplainsTheFee` | a completed payout answers "what fee" from its own row (`core/payouts/src/lib.rs:125`); after a retry the row has the new price, the ledger the old one |
| `WebSession.cfg` | `RetiredIsRevoked` | "Logout and expiry revoke the server-side record" (`server.mjs:10`); a request in flight during a sign-out stores its record under the id again |
| `WebSession.cfg` | `EndRevokesTheFamily` | "whichever of its rotations is presented" (`merchant_sessions.go:187`); a rotation committed after `End`'s `UPDATE` started is not among the rows it sees |
| `WebSession.cfg` | `RenewalIsTransparent` | an expired token is renewed transparently (`server.mjs:358`); of two calls that renew at once, the second presents a spent token and the family is revoked |
| `WebSession.cfg` | `NoTokenSurvivesTheSweep` | deletion revokes "so no refresh token survives" (`merchant_sessions.go:202`); the successor a renewal inserts while the `UPDATE` waits for its lock does, until it is presented and refused |
| `WebSession.cfg` | `CookieSlides` | the idle window slides (`server.mjs:37`); the record's does, the cookie is set by a sign-in only |
| `ValidationRuns.cfg` | `OneExecutor` | a run is taken from the queue "or from an executor that stopped" (`validation-runner.mjs:888`); the lease of a slow executor ends too |
| `ValidationRuns.cfg` | `NothingIsStillPlanned` | "nor may any row claim it is still planned" (`validation-runner.mjs:1447`); a run cancelled between journeys keeps its PLANNED rows |
| `PayPage.cfg` | `PayerIsNotified`, `ConfirmedStays` | "You will be notified automatically" (`pay-client.tsx:224`, `:380`); with the external rail, the answer to a request for instructions overwrites a confirmation that came first |

## 5. The proofs

TLAPS checks the following for every value of the constants (any number of
handlers, payouts, payments, requests; any amounts; any bound on failures unless
stated). The assumptions on constants are the named `ASSUME`s of each module.

**PayoutsProofs.** Without further hypotheses: `TypeCorrect`,
`RailHasBackingHolds`, `MovesWhatWasPostedHolds`. `RailHasBacking` alone is not
inductive: a handler about to write SENT acts on a row it read before. `RailInv`
adds that a recorded posting exists (`RecordedIsPosted`) and that what a handler
read is still backed (`HandlersBacked`), which is stable because postings and
`recorded` only ever grow.

With `MaxErrors = 0` (no failed database call; any number of lost handlers):
`NeverRestoredAndPaidHolds`, `RestoredOnEvidenceHolds`, `TerminalIsFinalHolds`,
`PayoutsImplementWithdrawal`. The invariant is `ClaimInv`: what a terminal status
says excludes the other ending's postings (`RowDecided`), and a handler past its
claim still owns the row's status (`HandlerHolds`), which rests on terminal rows
being final (`Lasting`). The hypothesis is needed: `PayoutsHalfReversed` is the
counterexample with one error.

**TransactionsProofs.** `TypeCorrect` always. If no two payments share a key
(`UniqueKeys`): `StatusIsBackedHolds` and `DebitsOnlyWhatWasReservedHolds` in
every interleaving and with lost handlers, by `BackedInv` (a posting under a key
belongs to the key's owner; what a handler read is still backed). From the same
hypothesis alone, again for all interleavings and losses, `NothingIsStrandedHolds`,
`FollowsTheTableHolds` and `TransactionsImplementReservation`, by `CalmInv`: of a payment
that no different call met, all handlers at work are on the way to one status, its
transition is still allowed or already made, and every posting in the books is on the row or
about to be. `Reservation` is implemented by every payment, disturbed ones included:
`Tear` is the step on which two different calls meet, and a hold moves no more
after it. `TransactionsSharedKey` is the counterexample without `UniqueKeys`; the
others of section 4 refute the stronger promises the documents make.

**ConsumerSpendingProofs.** `TypeCorrect` always. `LockedSpenderNeverOverdrawn`: a
consumer whose own requests all lock the wallet (`SpendsUnderLock`) is never
overdrawn, whatever rails everybody else uses, by `SpendInv` (one handler at a
time is past the lock of that wallet, and what it found sufficient still is).
`LockedRailsNeverOverdraw` is that for all consumers at once, when the two locking
rails are all there is (`WalletRails`). `SuccessIsRecordedHolds` needs no hypothesis
and covers all four rails: a row of transfers, holds or scans is not removed, and a
handler answers "ok" on the commit that wrote its row or on sight of it; of a
reservation the row is its own in every field but the status, which release and
commit change.

`CodeTakesOnePaymentHolds` always, by `ObjectInv`: a handler past its lock on a
link or a code (`Grip`) is the only one and the row is ACTIVE until it commits; an
object that a payment names is ACTIVE no more; a scan is posted under the key of
its request. `CodeIsPaidOnceHolds` adds that a spent code was paid, if a scan's key is
used for one code only (`KeyPerCode`): the run's callers keep to that, and
`SpendingCodeSpentUnpaid` is the counterexample of callers who do not.

`ReserveIsTheReservations`, with no hypothesis: a consumer's reserved account holds
what its open reservations sum up to, by `ReservedInv` (links and scans touch
neither; what the other steps do to the sums is `ReserveAdds` and `SettleTakes`).
`BalancesMatchTheRecordsHolds`, under `WalletRails`: so is each consumer's available
balance the sum of the rows on record, by `RecordsInv`. Both invariants add that the rows are
finitely many (there may be infinitely many keys, and a sum over infinitely many rows
means nothing). What a sum does when a row is added or removed, or when a
row changes and keeps its amount, are lemmas about `Amounts` (`AmountsAdd`,
`RowAdded`, `RowRemoved`, `AmountsAgree`). They rest on `SubsetInduction`, which
is an induction over the subsets of a finite set stated with a *set* of subsets in the
place of the library's operator parameter, and proved from the least counterexample
(`WFMin`, `NatLessThanWellFounded`).

The assumption that `NoRow` is no row and no request is new with these proofs: it
says that the database tells an absent row from a present one.

**PaymentSessionsProofs.** `Invariant`, and from it `TypeCorrect`, `InterfacesEnd`,
`Announced` and `Decided`, for any number of sessions, payers, handlers, deadlocks
and lost connections. `InterfacesEndWithTheSession` is not inductive: a commit
writes three rows on what it read under three locks taken one after another. The
invariant says which locks each kind of request holds at each statement (`Placed`),
that no row is locked twice (`OneHolder`), that a locked row is as it was found
(`Found`), and that a hosted payment that skipped the link's row found one
that will never be paid. `Decided` then is one transaction's doing: the one that
locked the session ACTIVE.

`EachInterfaceOnce` and `LinkMoneyIsRecordable`, with every call and no hypothesis,
by `MoneyInv`: a link takes one payment (the transfer's key) and a code one (the claim of
its row); money moves only through the calls there are; and a link that is not ACTIVE
has its own payment on record, or was ended by something else
(`OverIsExplained`).
`OneInterfacePaidOnce`: a session paid through one of the two is paid
once; with both, `SessionsPaidTwice` refutes it.

**WebSessionProofs.** `TypeCorrect`, `Lifetime` and `PreauthSpent`, for any
number of requests at once. `LifetimeIsAbsolute` alone is not inductive: what is
stored next is what some handler carries, so the invariant says the same of the
record in every request, and that a request belongs to the tick it started in or
the next. `PreauthIdIsSpent` adds that a handler on a seed's id
carries a pre-auth record, which `Save` does not store.

`OneToken`, also for any number of requests at once, is `OneTokenPerSignIn`, by
`Gateway`: no two renewals hold a row, and one that is about to rotate a token holds
its row and read it unspent (`OneHolder`).

`SignOut` and `Refines` are about browsers that make one request at a time
(`width = 1`, one of the widths the model starts with). Their invariant is
`One`, on top of the other two: the one request works on the id in the jar (`Alone`,
`Lone`); the token it carries or the store holds is neither spent nor revoked, unless its
sign-in is one whose answer was lost or whose business is barred (`Held`, `JarFresh`);
and the tokens a revocation is about to touch are the whole family. `Refines` is the
refinement of `SignedIn` step by step: a change of what the handler's record holds is the
abstract change of sides, every other statement of the host and the gateway is a
stutter or the asking and answering, and a refusal of a renewal is `Expelled`,
which `SignedIn` allows of a sign-in that is `revocable` only: so that the host
never presents a spent token of its own doing, and is signed out by the gateway
only after a lost answer or when its business may not act, is what the theorem says.
`NoneAssumption` says that `None` is no record, row or request.

**ValidationRunsProofs.** `TypeCorrect`, `PassIsEarned`, `CancelIsHeard`,
`RecordStays`, for any plan and any number of executors and faults. The invariant
ties what an executor has counted to the rows it has passed, and, until a lease has
run out on an executor at work, makes at most one of them live at a time.
`PassMeansPassed` and `RecordIsFinal` are stated of all runs: after such an overrun they
keep the half that does not depend on being alone (a PASS was earned by whoever wrote it; a
completed run stays completed, with a verdict), and that the other half is then not so is
the code's doing (`OneExecutor`, section 4).

**StatusStreamProofs.** `TypeCorrect` (of `StreamTypeOK`), `OneWatcher`, and
`FeedKept`: the stream implements `StatusFeed` for each of any number of clients.
The invariant says that a place is open exactly when it is a subscriber, that
a client and its handler agree on who serves whom, and that whatever is queued,
read or on its way is ACTIVE or the session's status (`Credible`), which
lasts because a session changes once.

**PayPageProofs.** `StreamBehindThePage`: the composition's behaviours are the
stream's, so `OneWatcherBehindThePage` and `PageHasItsFeed` are those theorems
again. `PageTypeCorrect`; `ShownOnlyWhenPaid`, by the invariant that an
answer on its way is true; and `ConfirmedStaysWithoutTheRail`, which is what is
left of `ConfirmedStays`.

`TerminalIsFinal` and `FollowsTheTable` are subsumed by the refinements the runs
check, and are kept as theorems only.

## 6. Limits

Only model-checked:
- liveness (`ClaimsAreCarriedOut`, `CapturedIsRecorded`, `EveryHandlerEnds`, `ClaimedRunEnds`, `PlacesAreFreed`,
  `PaidIsShown`): the prover does not do fairness.

Every invariant and every action property of the runs is a theorem; so are the
refinements of `Withdrawal`, `Reservation`, `StatusFeed` and `SignedIn`. Where a theorem has a hypothesis,
section 5 names it and the configuration that refutes the conclusion without it.

Abstracted: amounts where all postings of a payment move the whole amount;
clocks (an expiry has passed or has not); the text of errors; who may call what;
the choice among pricing rules (any fee of a set); currencies.

In `WebSession`: a business that is barred stays so, as far as the sign-ins it had
are concerned; a call the host abandons rolls back at the gateway what it had not
committed; the host's process does not crash (its store is a file, written whole).

Of the TypeScript and JavaScript in the repository (some hundred thousand lines)
these modules stand for a small part: most of it is pages, documentation content,
forms, typed clients and generated types, which keep no state that a step of
another actor can disturb. The money is moved by Rust, and the map names the Rust,
Go, SQL and TypeScript each definition comes from.

Not modelled: everything the inventory lists beyond sections 2 and 3, with the reason in
`PROJECT.json`; of the modelled parts, `payment_sessions::create` (separate
inserts, so a lost handler leaves a link or a code without a session), the
sandbox resets that cancel sessions, the pay link lookup that writes EXPIRED
unconditionally (`consumer_pay_links.rs:183`), and collections settled by the
link handler before completion.

## 7. The plan

In the order of importance to the system:

1. `Ledger`, with an abstract `Journal` it implements: `post` and `reverse`
   statement by statement, two posts under a key waiting on the unique index,
   rollback; all-or-nothing, balanced, immutable, once per key. Then the ledger
   step of the existing modules is an operation of `Journal`.
2. `Settlements` and `AppSettlements`: the claim-then-post batch, and the same
   under advisory locks with a `submit` that takes none.
3. `Collections`: shares paid through two surfaces, roll-up, close and cancel.
4. `Webhooks`: lease, attempt, retry schedule, re-queue, exhausted attempts.
5. `Deposits`, `Refunds` (disputes and restitution over one payment), wallet
   account closing.
6. `ConsumerPin` and pricing's rule resolution as a pure operator.
7. The embedded checkout: a close within the 1.8 s after a success reports a
   cancel and then a success, and overlapping checks report it twice
   (`sdk/checkout-web/src/modal.ts:173`); and the SDK client's retry under a key
   against the gateway's idempotency lock.

Theorems next: that the available balance is the sum of the records where links and
scans are used too, `ClaimInv` with failed calls as far as it holds, and that
`Ledger` implements `Journal`.
