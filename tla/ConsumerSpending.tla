-------------------------- MODULE ConsumerSpending --------------------------
(***************************************************************************)
(* The four ways money leaves a consumer's wallet: a transfer              *)
(* (src/core/transfers), a consumer pay link and a scanned QR code         *)
(* (src/core/api/src/routes), and a reservation of the consumer wallet     *)
(* engine (src/core/consumer-wallets).  Each of them checks the balance    *)
(* and posts inside ONE database transaction, so what matters is which row *)
(* that transaction locks before it reads the balance: a transfer and a    *)
(* reservation lock the payer's wallet, a pay link locks the link, a       *)
(* dynamic QR claims the code, a static QR locks nothing.                  *)
(*                                                                         *)
(* The database runs at READ COMMITTED: a read sees what was committed     *)
(* when the statement starts.  The writes of a transaction are kept in its *)
(* last step, which takes effect at the commit; a row lock is held from    *)
(* the step that takes it to the end of the transaction, so it is read off *)
(* the step its holder is at.                                              *)
(*                                                                         *)
(* A request is a record [rail, payer, payee, amount, object, key]; object *)
(* is the link or the code that is paid.  Balances are sums of committed   *)
(* ledger entries: funds[c] for the available account of c, held[c] for    *)
(* its reserved account.                                                   *)
(***************************************************************************)
EXTENDS Integers, FiniteSetsExt

CONSTANTS
  Consumer,   \* holders of wallets
  Key,        \* idempotency keys callers choose
  Object,     \* pay links and QR codes
  Request,    \* the requests callers make, any number of times each
  Worker,     \* request handlers that may run at the same time
  Opening,    \* what every wallet holds at first
  NoObject,   \* the object of a transfer, a reservation or a static QR
  NoRow,      \* there is no row, or no answer yet
  MaxDrops    \* bound on handlers dropped half way

Rails == {"send", "reserve", "link", "qr"}

ASSUME SpendingAssumption ==
  /\ Opening \in Nat
  /\ MaxDrops \in Nat
  /\ NoObject \notin Object
  /\ NoRow \notin Request \cup [payer : Consumer, payee : Consumer, amount : Nat]
                   \cup [owner : Consumer, amount : Nat,
                         status : {"ACTIVE", "RELEASED", "COMMITTED"}]
  /\ Request \subseteq [rail : Rails, payer : Consumer, payee : Consumer,
                        amount : Nat \ {0}, object : Object \cup {NoObject},
                        key : Key]
  /\ \A r \in Request :
       /\ r.rail # "reserve" => r.payer # r.payee
       /\ r.rail \in {"send", "reserve"} => r.object = NoObject
       /\ r.rail = "link" => r.object # NoObject

VARIABLES
  funds,      \* funds[c]: committed balance of c's available account
  held,       \* held[c]: committed balance of c's reserved account
  transfers,  \* transfers[k]: the transfers row with idempotency key k
  scans,      \* scans[k]: the QR payment posted under qr-pay-k
  holds,      \* holds[k]: the reservation with idempotency key k
  objects,    \* objects[o]: status of a link or a dynamic code
  late,       \* links and codes whose expiry has passed
  jobs,       \* jobs[w]: the statement handler w is about to execute
  told,       \* told[w]: what handler w last answered, and to which request
  drops       \* handlers dropped so far

vars == <<funds, held, transfers, scans, holds, objects, late, jobs, told, drops>>

books == <<funds, held, transfers, scans, holds>>

-----------------------------------------------------------------------------

Idle == [at |-> "idle"]
Steps == {"check", "deadline", "lock", "balance", "commit"}
Job == {Idle} \cup [at : Steps, req : Request]

Outcomes == {"ok", "insufficient", "refused", "conflict"}

Transfer == [payer : Consumer, payee : Consumer, amount : Nat]
TransferOf(r) == [payer |-> r.payer, payee |-> r.payee, amount |-> r.amount]
HoldOf(r, status) == [owner |-> r.payer, amount |-> r.amount, status |-> status]

Init ==
  /\ funds = [c \in Consumer |-> Opening]
  /\ held = [c \in Consumer |-> 0]
  /\ transfers = [k \in Key |-> NoRow]
  /\ scans = [k \in Key |-> NoRow]
  /\ holds = [k \in Key |-> NoRow]
  /\ objects = [o \in Object |-> "ACTIVE"]
  /\ late = {}
  /\ jobs = [w \in Worker |-> Idle]
  /\ told = [w \in Worker |-> NoRow]
  /\ drops = 0

\* The rows a request locks before it reads the balance, and who holds them.
LocksTheWallet(r) == r.rail \in {"send", "reserve"}
LocksTheObject(r) == r.object # NoObject

Holding(w) == jobs[w].at \in {"balance", "commit"}

WalletIsFree(c) ==
  \A w \in Worker :
    Holding(w) => ~ (LocksTheWallet(jobs[w].req) /\ jobs[w].req.payer = c)

ObjectIsFree(o) ==
  \A w \in Worker : Holding(w) => jobs[w].req.object # o

Goto(w, step) == jobs' = [jobs EXCEPT ![w].at = step]

\* The handler ends with an answer; an open transaction is rolled back.
Answer(w, outcome) ==
  /\ told' = [told EXCEPT ![w] = [req |-> jobs[w].req, outcome |-> outcome]]
  /\ jobs' = [jobs EXCEPT ![w] = Idle]
  /\ UNCHANGED drops

\* A known key is answered with its transfer, if it is the same transfer.
Replay(w) ==
  LET r == jobs[w].req IN
  Answer(w, IF transfers[r.key] = TransferOf(r) THEN "ok" ELSE "conflict")

-----------------------------------------------------------------------------
(* The steps of a request.                                                 *)

Start(w, r) ==
  /\ jobs[w] = Idle
  /\ jobs' = [jobs EXCEPT ![w] = [at |-> "check", req |-> r]]
  /\ UNCHANGED <<books, objects, late, told, drops>>

\* Outside any lock: the transfer's key, the reservation's key, the status of
\* the link or of the code.
Check(w) ==
  LET r == jobs[w].req IN
  /\ jobs[w].at = "check"
  /\ \/ /\ r.rail = "send"
        /\ IF transfers[r.key] # NoRow THEN Replay(w)
           ELSE Goto(w, "lock") /\ UNCHANGED <<told, drops>>
     \/ /\ r.rail = "reserve"
        /\ IF holds[r.key] # NoRow THEN Answer(w, "ok")
           ELSE Goto(w, "lock") /\ UNCHANGED <<told, drops>>
     \/ /\ r.rail \in {"link", "qr"}
        /\ IF r.object # NoObject /\ objects[r.object] # "ACTIVE"
           THEN Answer(w, "refused")
           ELSE Goto(w, "deadline") /\ UNCHANGED <<told, drops>>
  /\ UNCHANGED <<books, objects, late>>

\* The row that was read is compared with the clock; a link found late is
\* marked EXPIRED, once nobody locks it and whatever its status has become
\* since it was read.
Deadline(w) ==
  LET r == jobs[w].req IN
  /\ jobs[w].at = "deadline"
  /\ r.rail = "link" /\ r.object \in late => ObjectIsFree(r.object)
  /\ IF r.object \in late
     THEN /\ Answer(w, "refused")
          /\ objects' = IF r.rail = "link"
                        THEN [objects EXCEPT ![r.object] = "EXPIRED"] ELSE objects
     ELSE /\ Goto(w, "lock")
          /\ UNCHANGED <<objects, told, drops>>
  /\ UNCHANGED <<books, late>>

LockNothing(w) ==
  /\ jobs[w].at = "lock"
  /\ LocksTheWallet(jobs[w].req)
  /\ Goto(w, "balance")
  /\ UNCHANGED <<books, objects, late, told, drops>>

\* SELECT ... FOR UPDATE on the payer's wallet row.
LockWallet(w) ==
  /\ jobs[w].at = "lock"
  /\ LocksTheWallet(jobs[w].req)
  /\ WalletIsFree(jobs[w].req.payer)
  /\ Goto(w, "balance")
  /\ UNCHANGED <<books, objects, late, told, drops>>

\* SELECT ... FOR UPDATE on the link, or the conditional UPDATE that claims a
\* dynamic code: both wait for the row and look at its status again, the link
\* at its expiry as well.
LockObject(w) ==
  LET r == jobs[w].req IN
  /\ jobs[w].at = "lock"
  /\ LocksTheObject(r)
  /\ ObjectIsFree(r.object)
  /\ \/ /\ objects[r.object] # "ACTIVE"
        /\ Answer(w, "refused")
        /\ UNCHANGED objects
     \/ /\ objects[r.object] = "ACTIVE"
        /\ r.rail = "link" /\ r.object \in late
        /\ Answer(w, "refused")
        /\ objects' = [objects EXCEPT ![r.object] = "EXPIRED"]
     \/ /\ objects[r.object] = "ACTIVE"
        /\ ~ (r.rail = "link" /\ r.object \in late)
        /\ Goto(w, "balance")
        /\ UNCHANGED <<objects, told, drops>>
  /\ UNCHANGED <<books, late>>

\* A static QR goes straight to the balance.
LockNone(w) ==
  /\ jobs[w].at = "lock"
  /\ ~ LocksTheWallet(jobs[w].req)
  /\ ~ LocksTheObject(jobs[w].req)
  /\ Goto(w, "balance")
  /\ UNCHANGED <<books, objects, late, told, drops>>

\* The sum of the committed entries of the payer's account.
Balance(w) ==
  LET r == jobs[w].req IN
  /\ jobs[w].at = "balance"
  /\ IF funds[r.payer] < r.amount THEN Answer(w, "insufficient")
     ELSE Goto(w, "commit") /\ UNCHANGED <<told, drops>>
  /\ UNCHANGED <<books, objects, late>>

Moved(r) == [funds EXCEPT ![r.payer] = @ - r.amount, ![r.payee] = @ + r.amount]

CommitSendUnlessKnown(w) ==
  LET r == jobs[w].req IN
  /\ jobs[w].at = "commit"
  /\ r.rail = "send"
  /\ funds' = Moved(r)
  /\ transfers' = [transfers EXCEPT ![r.key] = IF @ = NoRow THEN TransferOf(r) ELSE @]
  /\ Answer(w, "ok")
  /\ UNCHANGED <<held, scans, holds, objects, late>>

\* The posting and the transfer row; if the key was committed by someone else
\* in the meantime the unique index refuses the row, the postings are rolled
\* back with it, and the request is a replay.
CommitSend(w) ==
  LET r == jobs[w].req IN
  /\ jobs[w].at = "commit"
  /\ r.rail = "send"
  /\ IF transfers[r.key] # NoRow
     THEN Replay(w) /\ UNCHANGED <<funds, transfers>>
     ELSE /\ funds' = Moved(r)
          /\ transfers' = [transfers EXCEPT ![r.key] = TransferOf(r)]
          /\ Answer(w, "ok")
  /\ UNCHANGED <<held, scans, holds, objects, late>>

\* available to reserved, and the reservation row; a key taken in the meantime
\* is a database error.
CommitReserve(w) ==
  LET r == jobs[w].req IN
  /\ jobs[w].at = "commit"
  /\ r.rail = "reserve"
  /\ IF holds[r.key] # NoRow
     THEN Answer(w, "refused") /\ UNCHANGED <<funds, held, holds>>
     ELSE /\ funds' = [funds EXCEPT ![r.payer] = @ - r.amount]
          /\ held' = [held EXCEPT ![r.payer] = @ + r.amount]
          /\ holds' = [holds EXCEPT ![r.key] = HoldOf(r, "ACTIVE")]
          /\ Answer(w, "ok")
  /\ UNCHANGED <<transfers, scans, objects, late>>

\* The transfer row is inserted unless its key is taken; the answer does not
\* look at it.
CommitLink(w) ==
  LET r == jobs[w].req IN
  /\ jobs[w].at = "commit"
  /\ r.rail = "link"
  /\ funds' = Moved(r)
  /\ transfers' = [transfers EXCEPT ![r.key] = IF @ = NoRow THEN TransferOf(r) ELSE @]
  /\ objects' = [objects EXCEPT ![r.object] = "PAID"]
  /\ Answer(w, "ok")
  /\ UNCHANGED <<held, scans, holds, late>>

CommitScanClaimingNothing(w) ==
  LET r == jobs[w].req IN
  /\ jobs[w].at = "commit"
  /\ r.rail = "qr"
  /\ funds' = IF scans[r.key] = NoRow THEN Moved(r) ELSE funds
  /\ scans' = [scans EXCEPT ![r.key] = IF @ = NoRow THEN r ELSE @]
  /\ transfers' = [transfers EXCEPT ![r.key] = IF @ = NoRow THEN TransferOf(r) ELSE @]
  /\ Answer(w, "ok")
  /\ UNCHANGED <<held, holds, objects, late>>

\* The posting under qr-pay-<key> and the transfer row are each inserted unless
\* they exist; the claimed code is USED either way, and the answer is the same.
CommitScan(w) ==
  LET r == jobs[w].req IN
  /\ jobs[w].at = "commit"
  /\ r.rail = "qr"
  /\ funds' = IF scans[r.key] = NoRow THEN Moved(r) ELSE funds
  /\ scans' = [scans EXCEPT ![r.key] = IF @ = NoRow THEN r ELSE @]
  /\ transfers' = [transfers EXCEPT ![r.key] = IF @ = NoRow THEN TransferOf(r) ELSE @]
  /\ objects' = IF r.object = NoObject THEN objects
                ELSE [objects EXCEPT ![r.object] = "USED"]
  /\ Answer(w, "ok")
  /\ UNCHANGED <<held, holds, late>>

-----------------------------------------------------------------------------
(* Reservations, the clock, and handlers that do not finish.               *)

ReleaseAgain(k) ==
  LET h == holds[k] IN
  /\ h # NoRow
  /\ WalletIsFree(h.owner)
  /\ funds' = [funds EXCEPT ![h.owner] = @ + h.amount]
  /\ held' = [held EXCEPT ![h.owner] = @ - h.amount]
  /\ holds' = [holds EXCEPT ![k].status = "RELEASED"]
  /\ UNCHANGED <<transfers, scans, objects, late, jobs, told, drops>>

\* release: one transaction that locks the reservation and its wallet, and
\* everything it reads is under that lock.
Release(k) ==
  LET h == holds[k] IN
  /\ h # NoRow
  /\ h.status = "ACTIVE"
  /\ WalletIsFree(h.owner)
  /\ funds' = [funds EXCEPT ![h.owner] = @ + h.amount]
  /\ held' = [held EXCEPT ![h.owner] = @ - h.amount]
  /\ holds' = [holds EXCEPT ![k].status = "RELEASED"]
  /\ UNCHANGED <<transfers, scans, objects, late, jobs, told, drops>>

CommitReservedAsSettled(k) ==
  LET h == holds[k] IN
  /\ h # NoRow
  /\ h.status = "ACTIVE"
  /\ WalletIsFree(h.owner)
  /\ held' = [held EXCEPT ![h.owner] = @ - h.amount]
  /\ holds' = [holds EXCEPT ![k].status = "SETTLED"]
  /\ UNCHANGED <<funds, transfers, scans, objects, late, jobs, told, drops>>

\* commit_reserved: the same transaction, crediting a target account that is
\* not a consumer's.
CommitReserved(k) ==
  LET h == holds[k] IN
  /\ h # NoRow
  /\ h.status = "ACTIVE"
  /\ WalletIsFree(h.owner)
  /\ held' = [held EXCEPT ![h.owner] = @ - h.amount]
  /\ holds' = [holds EXCEPT ![k].status = "COMMITTED"]
  /\ UNCHANGED <<funds, transfers, scans, objects, late, jobs, told, drops>>

\* The expiry of a link or a code passes.
Pass(o) ==
  /\ o \notin late
  /\ late' = late \cup {o}
  /\ UNCHANGED <<books, objects, jobs, told, drops>>

\* The handler is refused before it posts: a freeze, an inactive wallet, a limit.
Refuse(w) ==
  /\ jobs[w].at \in {"check", "lock", "balance"}
  /\ Answer(w, "refused")
  /\ UNCHANGED <<books, objects, late>>

\* The handler is dropped; the database rolls its transaction back.
Drop(w) ==
  /\ drops < MaxDrops
  /\ jobs[w] # Idle
  /\ drops' = drops + 1
  /\ jobs' = [jobs EXCEPT ![w] = Idle]
  /\ UNCHANGED <<books, objects, late, told>>

Commit(w) == CommitSend(w) \/ CommitReserve(w) \/ CommitLink(w) \/ CommitScan(w)

Lock(w) == LockWallet(w) \/ LockObject(w) \/ LockNone(w)

Continue(w) == Check(w) \/ Deadline(w) \/ Lock(w) \/ Balance(w) \/ Commit(w)

Next ==
  \/ \E w \in Worker :
       \/ \E r \in Request : Start(w, r)
       \/ Continue(w)
       \/ Refuse(w)
       \/ Drop(w)
  \/ \E k \in Key : Release(k) \/ CommitReserved(k)
  \/ \E o \in Object : Pass(o)

Spec == Init /\ [][Next]_vars

-----------------------------------------------------------------------------
(* What the rails promise.                                                 *)

Hold == [owner : Consumer, amount : Nat,
         status : {"ACTIVE", "RELEASED", "COMMITTED"}]

Told == [req : Request, outcome : Outcomes]

TypeOK ==
  /\ funds \in [Consumer -> Int]
  /\ held \in [Consumer -> Int]
  /\ transfers \in [Key -> Transfer \cup {NoRow}]
  /\ scans \in [Key -> Request \cup {NoRow}]
  /\ holds \in [Key -> Hold \cup {NoRow}]
  /\ objects \in [Object -> {"ACTIVE", "PAID", "USED", "EXPIRED"}]
  /\ late \subseteq Object
  /\ jobs \in [Worker -> Job]
  /\ told \in [Worker -> Told \cup {NoRow}]
  /\ drops \in 0 .. MaxDrops

\* docs INV-WALLET-001: "Available balance must never go below zero", whatever
\* rails spend from a wallet at the same time.
NoOverdraft == \A c \in Consumer : funds[c] >= 0

\* What rows of a table sum up to.
Amounts(rows, keys) == MapThenSumSet(LAMBDA k : rows[k].amount, keys)

Made == {k \in Key : transfers[k] # NoRow}

Reservations(c, statuses) ==
  {k \in Key : /\ holds[k] # NoRow
               /\ holds[k].owner = c
               /\ holds[k].status \in statuses}

\* Every balance is explained by the records: the funds by what transfers brought
\* and took and what was reserved and not released, the reserve by the reservations
\* that are open, however send, reserve, release and commit_reserved interleave
\* (docs INV-P2P-001-2: a completed transfer is backed by exactly one posting).
BalancesMatchTheRecords ==
  \A c \in Consumer :
    /\ held[c] = Amounts(holds, Reservations(c, {"ACTIVE"}))
    /\ funds[c] = Opening
         + Amounts(transfers, {k \in Made : transfers[k].payee = c})
         - Amounts(transfers, {k \in Made : transfers[k].payer = c})
         - Amounts(holds, Reservations(c, {"ACTIVE", "COMMITTED"}))

\* What is on record for a reservation under key k: one that was asked for under
\* that key, whatever has become of it since.
Reserved(k) ==
  \E r \in Request, status \in {"ACTIVE", "RELEASED", "COMMITTED"} :
    r.rail = "reserve" /\ r.key = k /\ holds[k] = HoldOf(r, status)

\* A caller that is told "ok" has a record under its key, now and for good.  A
\* send finds its own transfer (its replay refuses a different request under the
\* key).  A reserve finds a reservation asked for under its key, its own unless
\* the key was used for another: its replay does not compare.  A link and a scan
\* find a transfer row, and the scan its posting, which another request under the
\* key may have written.
SuccessIsRecorded ==
  \A w \in Worker :
    told[w] # NoRow /\ told[w].outcome = "ok" =>
      LET r == told[w].req IN
      /\ r.rail = "send" => transfers[r.key] = TransferOf(r)
      /\ r.rail = "reserve" => Reserved(r.key)
      /\ r.rail \in {"link", "qr"} => transfers[r.key] # NoRow
      /\ r.rail = "qr" => scans[r.key] # NoRow

\* A dynamic code is paid at most once, and a code that is spent was paid
\* (qr_pay: no "window where the code is spent and the money has not moved").
PaymentsOf(o) == {k \in Key : scans[k] # NoRow /\ scans[k].object = o}

SpentCodeWasPaid == \A o \in Object : objects[o] = "USED" => PaymentsOf(o) # {}

CodeIsPaidOnce ==
  /\ \A o \in Object : Cardinality(PaymentsOf(o)) <= 1
  /\ SpentCodeWasPaid

\* A transfer that was made is never answered with "insufficient funds" (docs
\* INV-P2P-001-4: re-submitting a key "returns the original transfer record").
ReplayGetsTheTransfer ==
  [][\A w \in Worker :
       told'[w] # told[w] /\ told'[w].outcome = "insufficient"
         /\ told'[w].req.rail = "send" =>
         transfers[told'[w].req.key] # TransferOf(told'[w].req)]_vars

=============================================================================
