----------------------- MODULE ConsumerSpendingProofs -----------------------
(***************************************************************************)
(* Theorems about ConsumerSpending for every set of consumers, keys,       *)
(* handlers and requests, checked by TLAPS.                                *)
(***************************************************************************)
EXTENDS ConsumerSpending, FiniteSetTheorems, TLAPS

Running == [at : Steps, req : Request]

LEMMA JobKinds ==
  ASSUME NEW j \in Job
  PROVE  /\ j.at \in Steps => j \in Running
         /\ j # Idle => j \in Running
BY DEF Job, Running, Idle, Steps

LEMMA RequestParts ==
  ASSUME NEW r \in Request
  PROVE  /\ r.rail \in Rails
         /\ r.payer \in Consumer /\ r.payee \in Consumer
         /\ r.amount \in Nat /\ r.amount > 0
         /\ r.object \in Object \cup {NoObject}
         /\ r.key \in Key
         /\ r.rail # "reserve" => r.payer # r.payee
         /\ TransferOf(r) \in Transfer
         /\ \A status \in {"ACTIVE", "RELEASED", "COMMITTED"} :
              HoldOf(r, status) \in Hold
<1>1. r \in [rail : Rails, payer : Consumer, payee : Consumer,
             amount : Nat \ {0}, object : Object \cup {NoObject}, key : Key]
  BY SpendingAssumption
<1>2. r.rail # "reserve" => r.payer # r.payee
  BY SpendingAssumption
<1> QED BY <1>1, <1>2 DEF TransferOf, Transfer, HoldOf, Hold

LEMMA GotoType ==
  ASSUME jobs \in [Worker -> Job], NEW w \in Worker, NEW step \in Steps,
         jobs[w].at \in Steps, Goto(w, step)
  PROVE  jobs' \in [Worker -> Job]
<1>1. jobs[w] \in Running
  BY JobKinds
<1>2. [jobs[w] EXCEPT !.at = step] \in Job
  BY <1>1 DEF Running, Job
<1> QED BY <1>2 DEF Goto

LEMMA AnswerType ==
  ASSUME TypeOK, NEW w \in Worker, NEW outcome \in Outcomes,
         jobs[w].at \in Steps, Answer(w, outcome)
  PROVE  /\ jobs' \in [Worker -> Job]
         /\ told' \in [Worker -> Told \cup {NoRow}]
         /\ drops' = drops
<1>1. jobs[w] \in Running
  BY JobKinds DEF TypeOK
<1>2. [req |-> jobs[w].req, outcome |-> outcome] \in Told
  BY <1>1 DEF Running, Told
<1>3. Idle \in Job
  BY DEF Job
<1> QED BY <1>2, <1>3 DEF Answer, TypeOK

LEMMA ReplayType ==
  ASSUME TypeOK, NEW w \in Worker, jobs[w].at \in Steps, Replay(w)
  PROVE  /\ jobs' \in [Worker -> Job]
         /\ told' \in [Worker -> Told \cup {NoRow}]
         /\ drops' = drops
BY AnswerType DEF Replay, Outcomes

LEMMA InitType == Init => TypeOK
BY SpendingAssumption DEF Init, TypeOK, Job

\* The steps of a handler that leave the books alone.
Quiet(w) == Check(w) \/ Deadline(w) \/ Lock(w) \/ Balance(w)

LEMMA QuietType ==
  ASSUME TypeOK, NEW w \in Worker, Quiet(w)
  PROVE  TypeOK'
<1> DEFINE r == jobs[w].req
<1> USE DEF Outcomes
<1>0. jobs[w].at \in Steps
  BY DEF Quiet, Check, Deadline, Lock, LockWallet, LockObject, LockNone,
         Balance, Steps
<1>a. \A outcome \in Outcomes :
        Answer(w, outcome) => /\ jobs' \in [Worker -> Job]
                              /\ told' \in [Worker -> Told \cup {NoRow}]
                              /\ drops' = drops
  BY <1>0, AnswerType
<1>b. \A step \in Steps : Goto(w, step) => jobs' \in [Worker -> Job]
  BY <1>0, GotoType DEF TypeOK
<1>1. CASE Check(w)
  <2>1. /\ jobs' \in [Worker -> Job]
        /\ told' \in [Worker -> Told \cup {NoRow}]
        /\ drops' = drops
    BY <1>0, <1>1, <1>a, <1>b, ReplayType DEF Check, Steps, TypeOK
  <2> QED BY <1>1, <2>1 DEF Check, books, TypeOK
<1>2. CASE Deadline(w)
  <2>1. /\ jobs' \in [Worker -> Job]
        /\ told' \in [Worker -> Told \cup {NoRow}]
        /\ drops' = drops
    BY <1>2, <1>a, <1>b DEF Deadline, Steps, TypeOK
  <2> QED BY <1>2, <2>1 DEF Deadline, books, TypeOK
<1>3. CASE LockWallet(w)
  BY <1>3, <1>b DEF LockWallet, Steps, books, TypeOK
<1>4. CASE LockObject(w)
  <2>1. /\ jobs' \in [Worker -> Job]
        /\ told' \in [Worker -> Told \cup {NoRow}]
        /\ drops' = drops
    BY <1>4, <1>a, <1>b DEF LockObject, Steps, TypeOK
  <2> QED BY <1>4, <2>1 DEF LockObject, books, TypeOK
<1>5. CASE LockNone(w)
  BY <1>5, <1>b DEF LockNone, Steps, books, TypeOK
<1>6. CASE Balance(w)
  <2>1. /\ jobs' \in [Worker -> Job]
        /\ told' \in [Worker -> Told \cup {NoRow}]
        /\ drops' = drops
    BY <1>6, <1>a, <1>b DEF Balance, Steps, TypeOK
  <2> QED BY <1>6, <2>1 DEF Balance, books, TypeOK
<1> QED BY <1>1, <1>2, <1>3, <1>4, <1>5, <1>6 DEF Quiet, Lock

LEMMA CommitType ==
  ASSUME TypeOK, NEW w \in Worker, Commit(w)
  PROVE  TypeOK'
<1> DEFINE r == jobs[w].req
<1>0. jobs[w].at \in Steps
  BY DEF Commit, CommitSend, CommitReserve, CommitLink, CommitScan, Steps
<1>1. r \in Request
  BY <1>0, JobKinds DEF Running, TypeOK
<1>2. /\ r.payer \in Consumer /\ r.payee \in Consumer /\ r.amount \in Nat
      /\ r.key \in Key
      /\ TransferOf(r) \in Transfer
      /\ HoldOf(r, "ACTIVE") \in Hold
  BY <1>1, RequestParts
<1>3. Moved(r) \in [Consumer -> Int]
  BY <1>2 DEF Moved, TypeOK
<1>a. \A outcome \in Outcomes :
        Answer(w, outcome) => /\ jobs' \in [Worker -> Job]
                              /\ told' \in [Worker -> Told \cup {NoRow}]
                              /\ drops' = drops
  BY <1>0, AnswerType
<1>b. Replay(w) => /\ jobs' \in [Worker -> Job]
                   /\ told' \in [Worker -> Told \cup {NoRow}]
                   /\ drops' = drops
  BY <1>0, ReplayType
<1> HIDE DEF r
<1> USE DEF Outcomes
<1>4. CASE CommitSend(w)
  BY <1>4, <1>2, <1>3, <1>a, <1>b DEF CommitSend, TypeOK, r
<1>5. CASE CommitReserve(w)
  <2>1. CASE holds[r.key] # NoRow
    BY <1>5, <2>1, <1>a DEF CommitReserve, TypeOK, r
  <2>2. CASE holds[r.key] = NoRow
    <3>1. /\ funds' = [funds EXCEPT ![r.payer] = @ - r.amount]
          /\ held' = [held EXCEPT ![r.payer] = @ + r.amount]
          /\ holds' = [holds EXCEPT ![r.key] = HoldOf(r, "ACTIVE")]
          /\ Answer(w, "ok")
          /\ UNCHANGED <<transfers, scans, objects, late>>
      BY <1>5, <2>2 DEF CommitReserve, r
    <3>2. /\ funds' \in [Consumer -> Int] /\ held' \in [Consumer -> Int]
          /\ holds' \in [Key -> Hold \cup {NoRow}]
      BY <3>1, <1>2 DEF TypeOK
    <3> QED BY <3>1, <3>2, <1>a DEF TypeOK
  <2> QED BY <2>1, <2>2
<1>6. CASE CommitLink(w)
  <2>1. /\ funds' = Moved(r)
        /\ transfers' = [transfers EXCEPT ![r.key] = IF @ = NoRow THEN TransferOf(r) ELSE @]
        /\ objects' = [objects EXCEPT ![r.object] = "PAID"]
        /\ Answer(w, "ok")
        /\ UNCHANGED <<held, scans, holds, late>>
    BY <1>6 DEF CommitLink, r
  <2>2. transfers' \in [Key -> Transfer \cup {NoRow}]
    BY <2>1, <1>2 DEF TypeOK
  <2>3. objects' \in [Object -> {"ACTIVE", "PAID", "USED", "EXPIRED"}]
    BY <2>1 DEF TypeOK
  <2> QED BY <2>1, <2>2, <2>3, <1>3, <1>a DEF TypeOK
<1>7. CASE CommitScan(w)
  <2>1. /\ funds' = IF scans[r.key] = NoRow THEN Moved(r) ELSE funds
        /\ scans' = [scans EXCEPT ![r.key] = IF @ = NoRow THEN r ELSE @]
        /\ transfers' = [transfers EXCEPT ![r.key] = IF @ = NoRow THEN TransferOf(r) ELSE @]
        /\ objects' = IF r.object = NoObject THEN objects
                      ELSE [objects EXCEPT ![r.object] = "USED"]
        /\ Answer(w, "ok")
        /\ UNCHANGED <<held, holds, late>>
    BY <1>7 DEF CommitScan, r
  <2>2. transfers' \in [Key -> Transfer \cup {NoRow}]
    BY <2>1, <1>2 DEF TypeOK
  <2>3. scans' \in [Key -> Request \cup {NoRow}]
    BY <2>1, <1>1, <1>2 DEF TypeOK, r
  <2>4. objects' \in [Object -> {"ACTIVE", "PAID", "USED", "EXPIRED"}]
    BY <2>1 DEF TypeOK
  <2>5. funds' \in [Consumer -> Int]
    BY <2>1, <1>3 DEF TypeOK
  <2> QED BY <2>1, <2>2, <2>3, <2>4, <2>5, <1>a DEF TypeOK
<1> QED BY <1>4, <1>5, <1>6, <1>7 DEF Commit

\* What a release or a commit of a reservation does.
LEMMA HoldParts ==
  ASSUME TypeOK, NEW k \in Key, holds[k] # NoRow
  PROVE  holds[k] \in Hold /\ holds[k].owner \in Consumer /\ holds[k].amount \in Nat
BY DEF TypeOK, Hold

LEMMA SettleType ==
  ASSUME TypeOK, NEW k \in Key, Release(k) \/ CommitReserved(k)
  PROVE  TypeOK'
<1> DEFINE h == holds[k]
<1>0. holds[k] # NoRow
  BY DEF Release, CommitReserved
<1>1. h \in Hold /\ h.owner \in Consumer /\ h.amount \in Nat
  BY <1>0, HoldParts
<1>2. held' \in [Consumer -> Int] /\ funds' \in [Consumer -> Int]
  BY <1>1 DEF Release, CommitReserved, TypeOK
<1>3. \A status \in {"RELEASED", "COMMITTED"} : [h EXCEPT !.status = status] \in Hold
  BY <1>1 DEF Hold
<1>4. holds' \in [Key -> Hold \cup {NoRow}]
  BY <1>3 DEF Release, CommitReserved, TypeOK
<1> QED BY <1>2, <1>4 DEF Release, CommitReserved, TypeOK

LEMMA NextType == TypeOK /\ [Next]_vars => TypeOK'
<1> SUFFICES ASSUME TypeOK, [Next]_vars PROVE TypeOK'
  OBVIOUS
<1>1. CASE \E w \in Worker : \E r \in Request : Start(w, r)
  BY <1>1 DEF Start, books, TypeOK, Job, Steps
<1>2. CASE \E w \in Worker : Continue(w)
  BY <1>2, QuietType, CommitType DEF Continue, Quiet
<1>3. CASE \E w \in Worker : Refuse(w)
  <2> PICK w \in Worker : Refuse(w)
    BY <1>3
  <2>1. /\ jobs' \in [Worker -> Job]
        /\ told' \in [Worker -> Told \cup {NoRow}]
        /\ drops' = drops
    BY AnswerType DEF Refuse, Outcomes, Steps
  <2> QED BY <2>1 DEF Refuse, books, TypeOK
<1>4. CASE \E w \in Worker : Drop(w)
  BY <1>4, SpendingAssumption DEF Drop, books, TypeOK, Job
<1>5. CASE \E k \in Key : Release(k) \/ CommitReserved(k)
  BY <1>5, SettleType
<1>6. CASE \E o \in Object : Pass(o)
  BY <1>6 DEF Pass, books, TypeOK
<1>7. CASE UNCHANGED vars
  BY <1>7 DEF vars, TypeOK
<1> QED BY <1>1, <1>2, <1>3, <1>4, <1>5, <1>6, <1>7 DEF Next

\* Every table, balance and handler keeps its type, on every rail.
THEOREM TypeCorrect == Spec => []TypeOK
<1>1. Init => TypeOK
  BY InitType
<1>2. TypeOK /\ [Next]_vars => TypeOK'
  BY NextType
<1> QED BY <1>1, <1>2, PTL DEF Spec

-----------------------------------------------------------------------------
(* Consumers who spend from rails that lock their wallet.  The argument:    *)
(* one handler at a time is past the lock of such a wallet, so between the  *)
(* balance it read and its commit the funds of its payer can only have      *)
(* grown; what others do, by whatever rail, can only add to them.           *)

\* All requests that c pays lock c's wallet.
SpendsUnderLock(c) == \A r \in Request : r.payer = c => LocksTheWallet(r)

WalletRails == \A r \in Request : LocksTheWallet(r)

Spends(w, c) == Holding(w) /\ jobs[w].req.payer = c

OneSpender(c) == \A v, w \in Worker : Spends(v, c) /\ Spends(w, c) => v = w

Funded(c) ==
  \A w \in Worker :
    jobs[w].at = "commit" /\ jobs[w].req.payer = c => funds[c] >= jobs[w].req.amount

SpendInv(c) == TypeOK /\ OneSpender(c) /\ Funded(c) /\ funds[c] >= 0

LEMMA HolderFacts ==
  ASSUME TypeOK, NEW v \in Worker, jobs[v].at \in Steps
  PROVE  /\ jobs[v].req \in Request
         /\ jobs[v].req.payer \in Consumer /\ jobs[v].req.payee \in Consumer
         /\ jobs[v].req.amount \in Nat /\ jobs[v].req.amount > 0
<1>1. jobs[v] \in Running
  BY JobKinds DEF TypeOK
<1>2. jobs[v].req \in Request
  BY <1>1 DEF Running
<1> QED BY <1>2, RequestParts

\* A step of a handler that does not spend from c afterwards.
LEMMA Elsewhere ==
  ASSUME NEW c \in Consumer, SpendInv(c), NEW w \in Worker, NEW j,
         jobs' = [jobs EXCEPT ![w] = j],
         ~ (j.at \in {"balance", "commit"} /\ j.req.payer = c),
         funds'[c] \in Int, funds'[c] >= funds[c]
  PROVE  OneSpender(c)' /\ Funded(c)' /\ funds'[c] >= 0
<1>1. \A v \in Worker : jobs'[v] = IF v = w THEN j ELSE jobs[v]
  BY DEF SpendInv, TypeOK
<1>2. OneSpender(c)'
  BY <1>1 DEF SpendInv, OneSpender, Spends, Holding
<1>3. funds[c] \in Int /\ funds'[c] >= 0
  BY DEF SpendInv, TypeOK
<1>4. ASSUME NEW v \in Worker, jobs'[v].at = "commit", jobs'[v].req.payer = c
      PROVE  funds'[c] >= jobs'[v].req.amount
  <2>1. jobs'[v] = jobs[v]
    BY <1>1, <1>4
  <2>2. jobs[v].req.amount \in Nat
    BY <1>4, <2>1, HolderFacts DEF SpendInv, Steps
  <2>3. funds[c] >= jobs[v].req.amount
    BY <1>4, <2>1 DEF SpendInv, Funded
  <2> QED BY <1>3, <2>1, <2>2, <2>3
<1> QED BY <1>2, <1>3, <1>4 DEF Funded

\* A handler that ends without touching the funds.
LEMMA EndsElsewhere ==
  ASSUME NEW c \in Consumer, SpendInv(c), NEW w \in Worker,
         jobs' = [jobs EXCEPT ![w] = Idle], funds' = funds
  PROVE  OneSpender(c)' /\ Funded(c)' /\ funds'[c] >= 0
<1>1. funds'[c] \in Int /\ funds'[c] >= funds[c]
  BY DEF SpendInv, TypeOK
<1>2. Idle.at = "idle"
  BY DEF Idle
<1> QED BY <1>1, <1>2, Elsewhere

\* A handler that goes on to a step before its lock, or spends from another.
LEMMA GoesElsewhere ==
  ASSUME NEW c \in Consumer, SpendInv(c), NEW w \in Worker, NEW step,
         jobs[w].at \in Steps, Goto(w, step), funds' = funds,
         step \in {"deadline", "lock"} \/ jobs[w].req.payer # c
  PROVE  OneSpender(c)' /\ Funded(c)' /\ funds'[c] >= 0
<1>1. funds'[c] \in Int /\ funds'[c] >= funds[c]
  BY DEF SpendInv, TypeOK
<1>2. PICK j : j = [jobs[w] EXCEPT !.at = step]
  OBVIOUS
<1>3. jobs[w] \in Running
  BY JobKinds DEF SpendInv, TypeOK
<1>4. j.at = step /\ j.req = jobs[w].req
  BY <1>2, <1>3 DEF Running
<1>5. jobs' = [jobs EXCEPT ![w] = j]
  BY <1>2 DEF Goto
<1> QED BY <1>1, <1>4, <1>5, Elsewhere

LEMMA QuietSpends ==
  ASSUME NEW c \in Consumer, SpendsUnderLock(c), SpendInv(c), NEW w \in Worker, Quiet(w)
  PROVE  OneSpender(c)' /\ Funded(c)' /\ funds'[c] >= 0
<1>0. jobs[w].at \in Steps /\ funds' = funds
  BY DEF Quiet, Check, Deadline, Lock, LockWallet, LockObject, LockNone, Balance, Steps, books
<1>1. ASSUME NEW outcome, Answer(w, outcome)
      PROVE  OneSpender(c)' /\ Funded(c)' /\ funds'[c] >= 0
  BY <1>0, <1>1, EndsElsewhere DEF Answer
<1>2. ASSUME NEW step, Goto(w, step), step \in {"deadline", "lock"} \/ jobs[w].req.payer # c
      PROVE  OneSpender(c)' /\ Funded(c)' /\ funds'[c] >= 0
  BY <1>0, <1>2, GoesElsewhere
<1>3. TypeOK /\ jobs[w] \in Running /\ jobs[w].req \in Request /\ funds[c] \in Int
  BY <1>0, HolderFacts, JobKinds DEF SpendInv, TypeOK
<1>4. CASE Check(w)
  BY <1>1, <1>2, <1>4 DEF Check, Replay
<1>5. CASE Deadline(w)
  BY <1>1, <1>2, <1>5 DEF Deadline
<1>6. CASE LockObject(w) \/ LockNone(w)
  <2>1. ~ LocksTheWallet(jobs[w].req)
    BY <1>3, <1>6, SpendingAssumption DEF LockObject, LockNone, LocksTheObject, LocksTheWallet
  <2>2. jobs[w].req.payer # c
    BY <1>3, <2>1 DEF SpendsUnderLock
  <2> QED BY <1>1, <1>2, <1>6, <2>2 DEF LockObject, LockNone
<1>7. CASE LockWallet(w) /\ jobs[w].req.payer = c
  <2>1. \A v \in Worker : jobs'[v] = IF v = w THEN [jobs[w] EXCEPT !.at = "balance"]
                                     ELSE jobs[v]
    BY <1>3, <1>7 DEF LockWallet, Goto, TypeOK
  <2>2. [jobs[w] EXCEPT !.at = "balance"].at = "balance"
    BY <1>3 DEF Running
  <2>3. ASSUME NEW v \in Worker, Spends(v, c) PROVE FALSE
    <3>1. jobs[v].req \in Request
      BY <1>3, <2>3, HolderFacts DEF Spends, Holding, Steps
    <3>2. LocksTheWallet(jobs[v].req)
      BY <2>3, <3>1 DEF Spends, SpendsUnderLock
    <3> QED BY <1>7, <2>3, <3>2 DEF LockWallet, WalletIsFree, Spends
  <2>4. \A v \in Worker : Spends(v, c)' => v = w
    BY <2>1, <2>3 DEF Spends, Holding
  <2>5. OneSpender(c)'
    BY <2>4 DEF OneSpender
  <2>6. Funded(c)'
    BY <1>0, <2>1, <2>2 DEF SpendInv, Funded
  <2> QED BY <1>0, <2>5, <2>6 DEF SpendInv
<1>8. CASE LockWallet(w) /\ jobs[w].req.payer # c
  BY <1>2, <1>8 DEF LockWallet
<1>9. CASE Balance(w)
  <2>1. CASE Answer(w, "insufficient")
    BY <1>1, <2>1
  <2>2. CASE Goto(w, "commit") /\ jobs[w].req.payer # c
    BY <1>2, <2>2
  <2>3. CASE /\ Goto(w, "commit") /\ jobs[w].req.payer = c
             /\ ~ (funds[c] < jobs[w].req.amount)
    <3>1. \A v \in Worker : jobs'[v] = IF v = w THEN [jobs[w] EXCEPT !.at = "commit"]
                                       ELSE jobs[v]
      BY <1>3, <2>3 DEF Goto, TypeOK
    <3>2. [jobs[w] EXCEPT !.at = "commit"].req = jobs[w].req
      BY <1>3 DEF Running
    <3>3. Holding(w)
      BY <1>9 DEF Balance, Holding
    <3>4. \A v \in Worker : Spends(v, c)' => Spends(v, c)
      BY <2>3, <3>1, <3>2, <3>3 DEF Spends, Holding
    <3>5. OneSpender(c)'
      BY <3>4 DEF SpendInv, OneSpender
    <3>6. funds[c] >= jobs[w].req.amount
      BY <1>0, <1>3, <2>3, HolderFacts
    <3>7. Funded(c)'
      BY <1>0, <3>1, <3>2, <3>6 DEF SpendInv, Funded
    <3> QED BY <1>0, <3>5, <3>7 DEF SpendInv
  <2> QED BY <1>9, <2>1, <2>2, <2>3 DEF Balance
<1> QED BY <1>4, <1>5, <1>6, <1>7, <1>8, <1>9 DEF Quiet, Lock

\* A commit takes what its own payer was found to have, and adds to the others.
LEMMA CommitSpends ==
  ASSUME NEW c \in Consumer, SpendsUnderLock(c), SpendInv(c), NEW w \in Worker, Commit(w)
  PROVE  OneSpender(c)' /\ Funded(c)' /\ funds'[c] >= 0
<1> DEFINE r == jobs[w].req
<1>0. jobs[w].at = "commit" /\ jobs' = [jobs EXCEPT ![w] = Idle]
  BY DEF Commit, CommitSend, CommitReserve, CommitLink, CommitScan, Answer, Replay
<1>1. /\ r \in Request /\ r.payer \in Consumer /\ r.payee \in Consumer
      /\ r.amount \in Nat
      /\ r.rail # "reserve" => r.payer # r.payee
  BY <1>0, HolderFacts, RequestParts DEF SpendInv, Steps
<1>2. funds \in [Consumer -> Int] /\ funds[c] \in Int
  BY DEF SpendInv, TypeOK
<1>3. \/ funds' = funds
      \/ r.rail # "reserve" /\ funds' = Moved(r)
      \/ funds' = [funds EXCEPT ![r.payer] = @ - r.amount]
  BY DEF Commit, CommitSend, CommitReserve, CommitLink, CommitScan
<1>4. /\ funds'[c] \in Int
      /\ funds'[c] >= funds[c] \/ (r.payer = c /\ funds'[c] = funds[c] - r.amount)
  <2> HIDE DEF r
  <2>1. CASE funds' = funds
    BY <1>2, <2>1
  <2>2. CASE r.rail # "reserve" /\ funds' = Moved(r)
    <3>1. funds'[c] = IF c = r.payer THEN funds[c] - r.amount
                      ELSE IF c = r.payee THEN funds[c] + r.amount ELSE funds[c]
      BY <1>1, <1>2, <2>2 DEF Moved
    <3> QED BY <1>1, <1>2, <3>1
  <2>3. CASE funds' = [funds EXCEPT ![r.payer] = @ - r.amount]
    <3>1. funds'[c] = IF c = r.payer THEN funds[c] - r.amount ELSE funds[c]
      BY <1>1, <1>2, <2>3
    <3> QED BY <1>1, <1>2, <3>1
  <2> QED BY <1>3, <2>1, <2>2, <2>3
<1>5. Idle.at = "idle"
  BY DEF Idle
<1>6. CASE funds'[c] >= funds[c]
  BY <1>0, <1>4, <1>5, <1>6, Elsewhere
<1>7. CASE r.payer = c /\ funds'[c] = funds[c] - r.amount
  <2>1. \A v \in Worker : jobs'[v] = IF v = w THEN Idle ELSE jobs[v]
    BY <1>0 DEF SpendInv, TypeOK
  <2>2. funds[c] >= r.amount
    BY <1>0, <1>7 DEF SpendInv, Funded
  <2>3. \A v \in Worker : ~ Spends(v, c)'
    <3>1. Spends(w, c)
      BY <1>0, <1>7 DEF Spends, Holding
    <3>2. \A v \in Worker : v # w => ~ Spends(v, c)
      BY <3>1 DEF SpendInv, OneSpender
    <3> QED BY <1>5, <2>1, <3>2 DEF Spends, Holding
  <2>4. OneSpender(c)' /\ Funded(c)'
    <3>1. OneSpender(c)'
      BY <2>3 DEF OneSpender
    <3>2. Funded(c)'
      BY <2>3 DEF Funded, Spends, Holding
    <3> QED BY <3>1, <3>2
  <2> QED BY <1>1, <1>2, <1>7, <2>2, <2>4
<1> QED BY <1>4, <1>6, <1>7

LEMMA SpendInvNext ==
  ASSUME NEW c \in Consumer, SpendsUnderLock(c), SpendInv(c), [Next]_vars
  PROVE  SpendInv(c)'
<1>0. TypeOK /\ TypeOK' /\ funds[c] \in Int
  BY NextType DEF SpendInv, TypeOK
<1> SUFFICES OneSpender(c)' /\ Funded(c)' /\ funds'[c] >= 0
  BY <1>0 DEF SpendInv
<1>1. ASSUME NEW w \in Worker, NEW r \in Request, Start(w, r)
      PROVE  OneSpender(c)' /\ Funded(c)' /\ funds'[c] >= 0
  <2>1. funds' = funds /\ funds'[c] \in Int /\ funds'[c] >= funds[c]
    BY <1>0, <1>1 DEF Start, books
  <2>2. jobs' = [jobs EXCEPT ![w] = [at |-> "check", req |-> r]]
    BY <1>1 DEF Start
  <2> QED BY <2>1, <2>2, Elsewhere
<1>2. ASSUME NEW w \in Worker, Refuse(w) \/ Drop(w)
      PROVE  OneSpender(c)' /\ Funded(c)' /\ funds'[c] >= 0
  <2>1. funds' = funds /\ jobs' = [jobs EXCEPT ![w] = Idle]
    BY <1>2 DEF Refuse, Drop, Answer, books
  <2> QED BY <2>1, EndsElsewhere
<1>3. ASSUME NEW k \in Key, Release(k) \/ CommitReserved(k)
      PROVE  OneSpender(c)' /\ Funded(c)' /\ funds'[c] >= 0
  <2>1. holds[k].owner \in Consumer /\ holds[k].amount \in Nat
    BY <1>0, <1>3, HoldParts DEF Release, CommitReserved
  <2>2. jobs' = jobs /\ funds'[c] \in Int /\ funds'[c] >= funds[c]
    BY <1>0, <1>3, <2>1 DEF Release, CommitReserved, TypeOK
  <2>3. OneSpender(c)' /\ funds'[c] >= 0
    BY <1>0, <2>2 DEF SpendInv, OneSpender, Spends, Holding
  <2>4. ASSUME NEW v \in Worker, jobs[v].at = "commit", jobs[v].req.payer = c
        PROVE  funds'[c] >= jobs[v].req.amount
    <3>1. jobs[v].req.amount \in Nat /\ funds[c] >= jobs[v].req.amount
      BY <1>0, <2>4, HolderFacts DEF SpendInv, Funded, Steps
    <3> QED BY <1>0, <2>2, <3>1
  <2> QED BY <2>2, <2>3, <2>4 DEF Funded
<1>4. CASE (\E o \in Object : Pass(o)) \/ UNCHANGED vars
  <2>1. jobs' = jobs /\ funds' = funds
    BY <1>4 DEF Pass, books, vars
  <2> QED BY <2>1 DEF SpendInv, OneSpender, Spends, Holding, Funded
<1> QED BY <1>1, <1>2, <1>3, <1>4, QuietSpends, CommitSpends DEF Next, Continue, Quiet

\* A consumer who pays by send and reserve only is never overdrawn, however many
\* of these run at once, whichever are dropped, and whatever the others do with
\* links and codes: both lock the payer's wallet before they read its balance.
THEOREM LockedSpenderNeverOverdrawn ==
  ASSUME NEW c \in Consumer, SpendsUnderLock(c)
  PROVE  Spec => [](funds[c] >= 0)
<1>1. Init => SpendInv(c)
  <2> SUFFICES ASSUME Init PROVE SpendInv(c)
    OBVIOUS
  <2>1. Idle.at = "idle"
    BY DEF Idle
  <2> QED BY <2>1, InitType, SpendingAssumption
          DEF Init, SpendInv, OneSpender, Spends, Funded, Holding
<1>2. SpendInv(c) /\ [Next]_vars => SpendInv(c)'
  BY SpendInvNext
<1>3. SpendInv(c) => funds[c] >= 0
  BY DEF SpendInv
<1> QED BY <1>1, <1>2, <1>3, PTL DEF Spec

\* Where these two are the only rails, no wallet at all is overdrawn.
THEOREM LockedRailsNeverOverdraw == WalletRails => (Spec => []NoOverdraft)
<1> SUFFICES ASSUME WalletRails PROVE Spec => []NoOverdraft
  OBVIOUS
<1> DEFINE AllInv == TypeOK /\ \A c \in Consumer : SpendInv(c)
<1>1. \A c \in Consumer : SpendsUnderLock(c)
  BY DEF WalletRails, SpendsUnderLock
<1>2. Init => AllInv
  <2> SUFFICES ASSUME Init PROVE AllInv
    OBVIOUS
  <2>1. Idle.at = "idle"
    BY DEF Idle
  <2> QED BY <2>1, InitType, SpendingAssumption
          DEF Init, SpendInv, OneSpender, Spends, Funded, Holding
<1>3. AllInv /\ [Next]_vars => AllInv'
  BY <1>1, NextType, SpendInvNext
<1>4. AllInv => NoOverdraft
  BY DEF SpendInv, NoOverdraft
<1> QED BY <1>2, <1>3, <1>4, PTL DEF Spec

-----------------------------------------------------------------------------
(* What a caller was told stays true.                                       *)

LEMMA WalletRailsOnly ==
  ASSUME WalletRails, TypeOK, NEW w \in Worker, jobs[w].at \in Steps
  PROVE  jobs[w].req \in Request /\ jobs[w].req.rail \in {"send", "reserve"}
<1>1. jobs[w].req \in Request
  BY HolderFacts
<1> QED BY <1>1 DEF WalletRails, LocksTheWallet

\* What an answer "ok" to request r promises at once.
OnRecord(r) ==
  /\ r.rail = "send" => transfers[r.key] = TransferOf(r)
  /\ r.rail = "reserve" => holds[r.key] # NoRow
  /\ r.rail \in {"link", "qr"} => transfers[r.key] # NoRow
  /\ r.rail = "qr" => scans[r.key] # NoRow

\* Every reservation row was asked for under its key.
HoldsAreAskedFor == \A k \in Key : holds[k] # NoRow => Reserved(k)

\* The three kinds of rows are never NoRow.
LEMMA RowsAreRows ==
  ASSUME NEW r \in Request
  PROVE  /\ r # NoRow /\ TransferOf(r) # NoRow
         /\ \A status \in {"ACTIVE", "RELEASED", "COMMITTED"} : HoldOf(r, status) # NoRow
<1>1. /\ TransferOf(r) \in Transfer
      /\ \A status \in {"ACTIVE", "RELEASED", "COMMITTED"} : HoldOf(r, status) \in Hold
  BY RequestParts
<1> QED BY <1>1, SpendingAssumption DEF Transfer, Hold

\* A row of transfers or scans is written once; a reservation is changed in its
\* status only.
LEMMA RowsAreKept ==
  ASSUME TypeOK, [Next]_vars, NEW k \in Key
  PROVE  /\ transfers[k] # NoRow => transfers'[k] = transfers[k]
         /\ scans[k] # NoRow => scans'[k] = scans[k]
         /\ Reserved(k) => Reserved(k)'
<1>1. CASE \E w \in Worker : Commit(w)
  <2> PICK w \in Worker : Commit(w)
    BY <1>1
  <2>1. /\ transfers[k] # NoRow => transfers'[k] = transfers[k]
        /\ scans[k] # NoRow => scans'[k] = scans[k]
    BY DEF Commit, CommitSend, CommitReserve, CommitLink, CommitScan, TypeOK
  <2>2. ASSUME Reserved(k)
        PROVE  holds'[k] = holds[k]
    <3>1. holds[k] # NoRow
      BY <2>2, RowsAreRows DEF Reserved
    <3> QED BY <3>1 DEF Commit, CommitSend, CommitReserve, CommitLink, CommitScan,
                        TypeOK
  <2> QED BY <2>1, <2>2 DEF Reserved
<1>2. CASE \E w \in Worker : \/ \E r \in Request : Start(w, r)
                            \/ Quiet(w) \/ Refuse(w) \/ Drop(w)
  <2>1. UNCHANGED books
    BY <1>2 DEF Start, Quiet, Check, Deadline, Lock, LockWallet, LockObject,
                LockNone, Balance, Refuse, Drop
  <2> QED BY <2>1 DEF books, Reserved
<1>3. CASE \E key \in Key : Release(key) \/ CommitReserved(key)
  <2> PICK key \in Key : Release(key) \/ CommitReserved(key)
    BY <1>3
  <2>1. UNCHANGED <<transfers, scans>>
    BY DEF Release, CommitReserved
  <2>2. PICK status \in {"RELEASED", "COMMITTED"} :
          holds' = [holds EXCEPT ![key].status = status]
    BY DEF Release, CommitReserved
  <2>3. ASSUME Reserved(k)
        PROVE  Reserved(k)'
    <3> PICK r \in Request, old \in {"ACTIVE", "RELEASED", "COMMITTED"} :
          r.rail = "reserve" /\ r.key = k /\ holds[k] = HoldOf(r, old)
      BY <2>3 DEF Reserved
    <3>1. holds'[k] \in {HoldOf(r, old), HoldOf(r, status)}
      BY <2>2 DEF TypeOK, HoldOf
    <3> QED BY <3>1 DEF Reserved
  <2> QED BY <2>1, <2>3
<1>4. CASE (\E o \in Object : Pass(o)) \/ UNCHANGED vars
  BY <1>4 DEF Pass, books, vars, Reserved
<1> QED BY <1>1, <1>2, <1>3, <1>4 DEF Next, Continue, Quiet

LEMMA HoldsAreAskedForNext ==
  TypeOK /\ HoldsAreAskedFor /\ [Next]_vars => HoldsAreAskedFor'
<1> SUFFICES ASSUME TypeOK, HoldsAreAskedFor, [Next]_vars,
                    NEW k \in Key, holds'[k] # NoRow
             PROVE  Reserved(k)'
  BY DEF HoldsAreAskedFor
<1>1. CASE holds[k] # NoRow
  BY <1>1, RowsAreKept DEF HoldsAreAskedFor
<1>2. CASE holds[k] = NoRow
  <2>1. CASE \E w \in Worker : CommitReserve(w)
    <3> PICK w \in Worker : CommitReserve(w)
      BY <2>1
    <3> DEFINE r == jobs[w].req
    <3>1. jobs[w].at \in Steps /\ r.rail = "reserve"
      BY DEF CommitReserve, Steps
    <3>2. r \in Request
      BY <3>1, HolderFacts
    <3>3. r.key = k /\ holds'[k] = HoldOf(r, "ACTIVE")
      BY <1>2 DEF CommitReserve, TypeOK
    <3> QED BY <3>1, <3>2, <3>3 DEF Reserved
  <2>2. CASE \E key \in Key : Release(key) \/ CommitReserved(key)
    BY <1>2, <2>2 DEF Release, CommitReserved, TypeOK
  <2>3. CASE UNCHANGED holds
    BY <1>2, <2>3
  <2> QED BY <2>1, <2>2, <2>3
          DEF Next, Continue, Start, Check, Deadline, Lock, LockWallet, LockObject,
              LockNone, Balance, Commit, CommitSend, CommitLink, CommitScan, Refuse,
              Drop, Pass, books, vars
<1> QED BY <1>1, <1>2

\* An answer is a record of told, and every other handler's answer stays.
LEMMA AnswerFacts ==
  ASSUME TypeOK, NEW w \in Worker, NEW outcome, Answer(w, outcome)
  PROVE  \A v \in Worker :
           told'[v] = IF v = w THEN [req |-> jobs[w].req, outcome |-> outcome]
                      ELSE told[v]
BY DEF Answer, TypeOK

\* A new "ok" finds its row.
LEMMA NewAnswer ==
  ASSUME TypeOK, [Next]_vars, NEW v \in Worker,
         told'[v] # told[v], told'[v].outcome = "ok"
  PROVE  \E r \in Request : told'[v].req = r /\ OnRecord(r)'
<1>1. CASE \E w \in Worker : Quiet(w) \/ Refuse(w) \/ Commit(w)
  <2> PICK w \in Worker : Quiet(w) \/ Refuse(w) \/ Commit(w)
    BY <1>1
  <2>1. jobs[w].at \in Steps
    BY DEF Quiet, Check, Deadline, Lock, LockWallet, LockObject, LockNone,
           Balance, Refuse, Commit, CommitSend, CommitReserve, CommitLink,
           CommitScan, Steps
  <2> PICK r \in Request : r = jobs[w].req
    BY <2>1, HolderFacts
  <2>2. /\ r.key \in Key /\ r.rail \in Rails
        /\ r # NoRow /\ TransferOf(r) # NoRow /\ HoldOf(r, "ACTIVE") # NoRow
    BY RequestParts, RowsAreRows
  <2>3. ASSUME NEW outcome, Answer(w, outcome)
        PROVE  told'[v].req = r /\ told'[v].outcome = outcome
    <3>1. told'[v] = IF v = w THEN [req |-> jobs[w].req, outcome |-> outcome]
                     ELSE told[v]
      BY <2>3, AnswerFacts
    <3>2. told'[v] = [req |-> jobs[w].req, outcome |-> outcome]
      BY <3>1
    <3> QED BY <3>2
  <2>4. ~ Answer(w, "insufficient") /\ ~ Answer(w, "refused") /\ ~ Answer(w, "conflict")
    BY <2>3
  <2>5. told' # told
    OBVIOUS
  <2>6. CASE Check(w)
    <3>1. \/ r.rail = "send" /\ Replay(w)
          \/ r.rail = "reserve" /\ holds[r.key] # NoRow /\ Answer(w, "ok")
      BY <2>4, <2>5, <2>6 DEF Check
    <3>2. UNCHANGED books
      BY <2>6 DEF Check
    <3>3. CASE r.rail = "send" /\ Replay(w)
      <4>1. Answer(w, "ok") /\ transfers[r.key] = TransferOf(r)
        BY <2>4, <3>3 DEF Replay
      <4> QED BY <2>3, <3>2, <3>3, <4>1 DEF OnRecord, books
    <3> QED BY <2>3, <3>1, <3>2, <3>3 DEF OnRecord, books
  <2>7. CASE Deadline(w) \/ Lock(w) \/ Balance(w) \/ Refuse(w)
    BY <2>4, <2>5, <2>7 DEF Deadline, Lock, LockWallet, LockObject, LockNone,
                            Balance, Refuse
  <2>8. CASE CommitSend(w)
    <3>1. r.rail = "send"
      BY <2>8 DEF CommitSend
    <3>2. CASE transfers[r.key] # NoRow
      <4>1. Replay(w) /\ transfers' = transfers
        BY <2>8, <3>2 DEF CommitSend
      <4>2. Answer(w, "ok") /\ transfers[r.key] = TransferOf(r)
        BY <2>4, <4>1 DEF Replay
      <4> QED BY <2>3, <3>1, <4>1, <4>2 DEF OnRecord
    <3>3. CASE transfers[r.key] = NoRow
      <4>1. Answer(w, "ok") /\ transfers'[r.key] = TransferOf(r)
        BY <2>2, <2>8, <3>3 DEF CommitSend, TypeOK
      <4> QED BY <2>3, <3>1, <4>1 DEF OnRecord
    <3> QED BY <3>2, <3>3
  <2>9. CASE CommitReserve(w)
    <3>1. r.rail = "reserve"
      BY <2>9 DEF CommitReserve
    <3>2. Answer(w, "ok") /\ holds'[r.key] = HoldOf(r, "ACTIVE")
      BY <2>2, <2>4, <2>9 DEF CommitReserve, TypeOK
    <3> QED BY <2>2, <2>3, <3>1, <3>2 DEF OnRecord
  <2>10. CASE CommitLink(w)
    <3>1. r.rail = "link" /\ Answer(w, "ok")
      BY <2>10 DEF CommitLink
    <3>2. transfers'[r.key] # NoRow
      BY <2>2, <2>10 DEF CommitLink, TypeOK
    <3> QED BY <2>3, <3>1, <3>2 DEF OnRecord
  <2>11. CASE CommitScan(w)
    <3>1. r.rail = "qr" /\ Answer(w, "ok")
      BY <2>11 DEF CommitScan
    <3>2. transfers'[r.key] # NoRow /\ scans'[r.key] # NoRow
      BY <2>2, <2>11 DEF CommitScan, TypeOK
    <3> QED BY <2>3, <3>1, <3>2 DEF OnRecord
  <2> QED BY <2>6, <2>7, <2>8, <2>9, <2>10, <2>11 DEF Quiet, Commit
<1>2. CASE \E w \in Worker : (\E r \in Request : Start(w, r)) \/ Drop(w)
  BY <1>2 DEF Start, Drop
<1>3. CASE \E k \in Key : Release(k) \/ CommitReserved(k)
  BY <1>3 DEF Release, CommitReserved
<1>4. CASE (\E o \in Object : Pass(o)) \/ UNCHANGED vars
  BY <1>4 DEF Pass, vars
<1> QED BY <1>1, <1>2, <1>3, <1>4 DEF Next, Continue, Quiet

SuccessInv == TypeOK /\ HoldsAreAskedFor /\ SuccessIsRecorded

LEMMA SuccessNext == SuccessInv /\ [Next]_vars => SuccessInv'
<1> SUFFICES ASSUME SuccessInv, [Next]_vars PROVE SuccessInv'
  OBVIOUS
<1> USE DEF SuccessInv
<1>1. TypeOK' /\ HoldsAreAskedFor'
  BY NextType, HoldsAreAskedForNext
<1>2. ASSUME NEW v \in Worker, told'[v] # NoRow, told'[v].outcome = "ok"
      PROVE  /\ told'[v].req.rail = "send" =>
                  transfers'[told'[v].req.key] = TransferOf(told'[v].req)
             /\ told'[v].req.rail = "reserve" => Reserved(told[v].req.key)'
             /\ told'[v].req.rail \in {"link", "qr"} => transfers'[told'[v].req.key] # NoRow
             /\ told'[v].req.rail = "qr" => scans'[told'[v].req.key] # NoRow
  <2>1. CASE told'[v] # told[v]
    <3> PICK r \in Request : told'[v].req = r /\ OnRecord(r)'
      BY <1>2, <2>1, NewAnswer
    <3>1. r.key \in Key
      BY RequestParts
    <3>2. r.rail = "reserve" => Reserved(r.key)'
      BY <1>1, <3>1 DEF OnRecord, HoldsAreAskedFor
    <3>3. /\ r.rail = "send" => transfers'[r.key] = TransferOf(r)
          /\ r.rail \in {"link", "qr"} => transfers'[r.key] # NoRow
          /\ r.rail = "qr" => scans'[r.key] # NoRow
      BY DEF OnRecord
    <3>4. told'[v].req.rail = "reserve" => Reserved(told[v].req.key)'
      BY <3>2 DEF Reserved
    <3>5. TransferOf(told'[v].req) = TransferOf(r)
      OBVIOUS
    <3> QED BY <3>3, <3>4, <3>5
  <2>2. CASE told'[v] = told[v]
    <3>1. told[v].req \in Request
      BY <1>2, <2>2 DEF TypeOK, Told
    <3> PICK r \in Request : r = told[v].req
      BY <3>1
    <3>2. r.key \in Key /\ TransferOf(r) # NoRow
      BY RequestParts, RowsAreRows
    <3>3. /\ r.rail = "send" => transfers[r.key] = TransferOf(r)
          /\ r.rail = "reserve" => Reserved(r.key)
          /\ r.rail \in {"link", "qr"} => transfers[r.key] # NoRow
          /\ r.rail = "qr" => scans[r.key] # NoRow
      BY <1>2, <2>2 DEF SuccessIsRecorded
    <3>4. /\ r.rail = "send" => transfers'[r.key] = TransferOf(r)
          /\ r.rail = "reserve" => Reserved(r.key)'
          /\ r.rail \in {"link", "qr"} => transfers'[r.key] # NoRow
          /\ r.rail = "qr" => scans'[r.key] # NoRow
      BY <3>2, <3>3, RowsAreKept
    <3>5. told'[v].req.rail = "reserve" => Reserved(told[v].req.key)'
      BY <2>2, <3>4 DEF Reserved
    <3> QED BY <2>2, <3>4, <3>5
  <2> QED BY <2>1, <2>2
<1>3. SuccessIsRecorded'
  BY <1>2 DEF SuccessIsRecorded
<1> QED BY <1>1, <1>3

\* On all rails together, whatever is dropped: an answer "ok" has its record.  The
\* rows it rests on are never unmade, and a reservation row was written by a
\* request for it.
THEOREM SuccessIsRecordedHolds == Spec => []SuccessIsRecorded
<1>1. Init => SuccessInv
  BY InitType DEF Init, SuccessInv, HoldsAreAskedFor, SuccessIsRecorded
<1>2. SuccessInv /\ [Next]_vars => SuccessInv'
  BY SuccessNext
<1>3. SuccessInv => SuccessIsRecorded
  BY DEF SuccessInv
<1> QED BY <1>1, <1>2, <1>3, PTL DEF Spec

-----------------------------------------------------------------------------
(* A code is paid once.  The argument: a handler past its lock on a link or *)
(* a code is the only one, and the row is ACTIVE until it commits; a code   *)
(* that a payment names never becomes ACTIVE again.                         *)

Grip(w) == Holding(w) /\ LocksTheObject(jobs[w].req)

OneGrip ==
  \A v, w \in Worker :
    v # w /\ Grip(v) /\ Grip(w) => jobs[v].req.object # jobs[w].req.object

GrippedIsActive ==
  \A w \in Worker : Grip(w) => objects[jobs[w].req.object] = "ACTIVE"

PaidIsOver ==
  \A k \in Key :
    scans[k] # NoRow /\ scans[k].object # NoObject => objects[scans[k].object] # "ACTIVE"

OnePayment ==
  \A k, l \in Key :
    scans[k] # NoRow /\ scans[l] # NoRow /\ scans[k].object # NoObject
      /\ scans[k].object = scans[l].object => k = l

ScanKeys == \A k \in Key : scans[k] # NoRow => scans[k].rail = "qr" /\ scans[k].key = k

ObjectInv == OneGrip /\ GrippedIsActive /\ PaidIsOver /\ OnePayment /\ ScanKeys

LEMMA GripFacts ==
  ASSUME TypeOK, NEW w \in Worker, jobs[w].at \in Steps
  PROVE  /\ jobs[w] \in Running /\ jobs[w].req \in Request
         /\ Grip(w) => jobs[w].req.object \in Object
         /\ LocksTheWallet(jobs[w].req) => ~ LocksTheObject(jobs[w].req)
<1>1. jobs[w] \in Running /\ jobs[w].req \in Request
  BY JobKinds, HolderFacts DEF TypeOK
<1>2. jobs[w].req.object \in Object \cup {NoObject}
  BY <1>1, RequestParts
<1>3. LocksTheWallet(jobs[w].req) => jobs[w].req.object = NoObject
  BY <1>1, SpendingAssumption DEF LocksTheWallet
<1> QED BY <1>1, <1>2, <1>3 DEF Grip, LocksTheObject

\* A step after which handler w holds no object it did not hold, and which leaves
\* what others hold alone.
LEMMA GripsStay ==
  ASSUME OneGrip, GrippedIsActive, NEW w \in Worker,
         \A v \in Worker \ {w} : jobs'[v] = jobs[v],
         Grip(w)' => Grip(w) /\ jobs'[w].req = jobs[w].req,
         \A v \in Worker : Grip(v) /\ (v # w \/ Grip(w)') =>
           objects'[jobs[v].req.object] = objects[jobs[v].req.object]
  PROVE  OneGrip' /\ GrippedIsActive'
<1>1. \A v \in Worker : Grip(v)' =>
        /\ Grip(v) /\ jobs'[v].req = jobs[v].req
        /\ objects'[jobs[v].req.object] = objects[jobs[v].req.object]
  BY DEF Grip, Holding
<1> QED BY <1>1 DEF OneGrip, GrippedIsActive

LEMMA ScansStay ==
  ASSUME TypeOK, PaidIsOver, OnePayment, ScanKeys, scans' = scans,
         \A o \in Object : objects[o] # "ACTIVE" => objects'[o] # "ACTIVE"
  PROVE  PaidIsOver' /\ OnePayment' /\ ScanKeys'
<1>1. \A k \in Key : scans[k] # NoRow => scans[k].object \in Object \cup {NoObject}
  BY RequestParts DEF TypeOK
<1> QED BY <1>1 DEF PaidIsOver, OnePayment, ScanKeys

LEMMA AnswerGrip ==
  ASSUME TypeOK, NEW w \in Worker, NEW outcome, Answer(w, outcome)
  PROVE  ~ Grip(w)' /\ \A v \in Worker \ {w} : jobs'[v] = jobs[v]
<1>1. jobs'[w] = Idle /\ \A v \in Worker \ {w} : jobs'[v] = jobs[v]
  BY DEF Answer, TypeOK
<1> QED BY <1>1 DEF Grip, Holding, Idle

LEMMA GotoGrip ==
  ASSUME TypeOK, NEW w \in Worker, NEW step \in Steps, jobs[w].at \in Steps, Goto(w, step)
  PROVE  /\ jobs'[w].at = step /\ jobs'[w].req = jobs[w].req
         /\ \A v \in Worker \ {w} : jobs'[v] = jobs[v]
<1>1. jobs[w] \in Running
  BY GripFacts
<1>2. jobs'[w] = [jobs[w] EXCEPT !.at = step] /\ \A v \in Worker \ {w} : jobs'[v] = jobs[v]
  BY DEF Goto, TypeOK
<1> QED BY <1>1, <1>2 DEF Running

\* A row that nobody holds may expire.
LEMMA FreeExpires ==
  ASSUME TypeOK, NEW o \in Object, ObjectIsFree(o),
         objects' = [objects EXCEPT ![o] = "EXPIRED"]
  PROVE  /\ \A v \in Worker : Grip(v) =>
              objects'[jobs[v].req.object] = objects[jobs[v].req.object]
         /\ \A x \in Object : objects[x] # "ACTIVE" => objects'[x] # "ACTIVE"
BY DEF ObjectIsFree, Grip, TypeOK

\* The end of a handler, or a step that leads it to no lock on an object.
LEMMA ObjectsUntouched ==
  ASSUME TypeOK, ObjectInv, NEW w \in Worker,
         \A v \in Worker \ {w} : jobs'[v] = jobs[v],
         Grip(w)' => Grip(w) /\ jobs'[w].req = jobs[w].req,
         objects' = objects, scans' = scans
  PROVE  ObjectInv'
<1>1. OneGrip' /\ GrippedIsActive'
  BY GripsStay DEF ObjectInv
<1>2. PaidIsOver' /\ OnePayment' /\ ScanKeys'
  BY ScansStay DEF ObjectInv
<1> QED BY <1>1, <1>2 DEF ObjectInv

\* The end of a handler that marks a row nobody holds.
LEMMA ObjectExpires ==
  ASSUME TypeOK, ObjectInv, NEW w \in Worker, ~ Grip(w)',
         \A v \in Worker \ {w} : jobs'[v] = jobs[v],
         NEW o \in Object, ObjectIsFree(o),
         objects' = [objects EXCEPT ![o] = "EXPIRED"], scans' = scans
  PROVE  ObjectInv'
<1>1. OneGrip' /\ GrippedIsActive'
  BY GripsStay, FreeExpires DEF ObjectInv
<1>2. PaidIsOver' /\ OnePayment' /\ ScanKeys'
  BY ScansStay, FreeExpires DEF ObjectInv
<1> QED BY <1>1, <1>2 DEF ObjectInv

LEMMA QuietObjects ==
  ASSUME TypeOK, ObjectInv, NEW w \in Worker, Quiet(w)
  PROVE  ObjectInv'
<1>0. jobs[w].at \in Steps
  BY DEF Quiet, Check, Deadline, Lock, LockWallet, LockObject, LockNone, Balance, Steps
<1>1. /\ jobs[w] \in Running /\ jobs[w].req \in Request
      /\ LocksTheWallet(jobs[w].req) => ~ LocksTheObject(jobs[w].req)
  BY <1>0, GripFacts
<1>2. scans' = scans
  BY DEF Quiet, Check, Deadline, Lock, LockWallet, LockObject, LockNone, Balance, books
<1>3. ASSUME NEW outcome, Answer(w, outcome), objects' = objects PROVE ObjectInv'
  BY <1>2, <1>3, AnswerGrip, ObjectsUntouched
<1>4. ASSUME NEW step \in Steps, Goto(w, step), objects' = objects,
             step \in {"balance", "commit"} => Grip(w) \/ ~ LocksTheObject(jobs[w].req)
      PROVE  ObjectInv'
  <2>1. /\ jobs'[w].at = step /\ jobs'[w].req = jobs[w].req
        /\ \A v \in Worker \ {w} : jobs'[v] = jobs[v]
    BY <1>0, <1>4, GotoGrip
  <2>2. Grip(w)' => Grip(w) /\ jobs'[w].req = jobs[w].req
    BY <1>4, <2>1 DEF Grip, Holding, LocksTheObject
  <2> QED BY <1>2, <1>4, <2>1, <2>2, ObjectsUntouched
<1>5. ASSUME NEW outcome, Answer(w, outcome), NEW o \in Object, ObjectIsFree(o),
             objects' = [objects EXCEPT ![o] = "EXPIRED"]
      PROVE  ObjectInv'
  BY <1>2, <1>5, AnswerGrip, ObjectExpires
<1>6. CASE Check(w)
  BY <1>3, <1>4, <1>6 DEF Check, Replay, Steps
<1>7. CASE Deadline(w)
  <2>1. late \subseteq Object
    BY DEF TypeOK
  <2> QED BY <1>3, <1>4, <1>5, <1>7, <2>1 DEF Deadline, Steps
<1>8. CASE LockWallet(w) \/ LockNone(w)
  BY <1>1, <1>4, <1>8 DEF LockWallet, LockNone, Steps
<1>9. CASE LockObject(w)
  <2> DEFINE o == jobs[w].req.object
  <2>1. o \in Object /\ ObjectIsFree(o) /\ LocksTheObject(jobs[w].req)
    BY <1>1, <1>9, RequestParts DEF LockObject, LocksTheObject
  <2>2. CASE Goto(w, "balance") /\ objects[o] = "ACTIVE" /\ objects' = objects
    <3>1. /\ jobs'[w].req = jobs[w].req /\ \A v \in Worker \ {w} : jobs'[v] = jobs[v]
      BY <1>0, <2>2, GotoGrip DEF Steps
    <3>2. \A v \in Worker : Grip(v) => jobs[v].req.object # o
      BY <2>1 DEF ObjectIsFree, Grip
    <3>3. OneGrip'
      <4> SUFFICES ASSUME NEW u \in Worker, NEW v \in Worker, u # v, Grip(u)', Grip(v)'
                   PROVE  jobs'[u].req.object # jobs'[v].req.object
        BY DEF OneGrip
      <4>1. \A x \in Worker \ {w} : Grip(x)' => Grip(x)
        BY <3>1 DEF Grip, Holding
      <4>2. CASE u # w /\ v # w
        BY <3>1, <4>1, <4>2 DEF ObjectInv, OneGrip
      <4>3. CASE u = w
        BY <3>1, <3>2, <4>1, <4>3
      <4>4. CASE v = w
        BY <3>1, <3>2, <4>1, <4>4
      <4> QED BY <4>2, <4>3, <4>4
    <3>4. GrippedIsActive'
      <4>1. \A x \in Worker \ {w} : Grip(x)' => Grip(x)
        BY <3>1 DEF Grip, Holding
      <4> QED BY <2>2, <3>1, <4>1 DEF ObjectInv, GrippedIsActive
    <3>5. PaidIsOver' /\ OnePayment' /\ ScanKeys'
      BY <1>2, <2>2, ScansStay DEF ObjectInv
    <3> QED BY <3>3, <3>4, <3>5 DEF ObjectInv
  <2> QED BY <1>3, <1>5, <1>9, <2>1, <2>2 DEF LockObject
<1>10. CASE Balance(w)
  <2>1. Holding(w)
    BY <1>10 DEF Balance, Holding
  <2> QED BY <1>3, <1>4, <1>10, <2>1 DEF Balance, Steps, Grip
<1> QED BY <1>6, <1>7, <1>8, <1>9, <1>10 DEF Quiet, Lock

\* A scanned code that commits is still ACTIVE, so no payment named it before.
LEMMA ScanObjects ==
  ASSUME TypeOK, ObjectInv, NEW w \in Worker, CommitScan(w)
  PROVE  ObjectInv'
<1> DEFINE r == jobs[w].req
<1>1. /\ jobs[w].at = "commit" /\ r.rail = "qr" /\ Answer(w, "ok")
      /\ scans' = [scans EXCEPT ![r.key] = IF @ = NoRow THEN r ELSE @]
      /\ objects' = IF r.object = NoObject THEN objects
                    ELSE [objects EXCEPT ![r.object] = "USED"]
  BY DEF CommitScan
<1>2. r \in Request /\ r.key \in Key /\ r.object \in Object \cup {NoObject}
  BY <1>1, GripFacts, RequestParts DEF Steps
<1>3. ~ Grip(w)' /\ \A v \in Worker \ {w} : jobs'[v] = jobs[v]
  BY <1>1, AnswerGrip
<1>4. r.object # NoObject => Grip(w)
  BY <1>1 DEF Grip, Holding, LocksTheObject
<1>5. \A o \in Object : objects'[o] = IF o = r.object /\ o # NoObject THEN "USED" ELSE objects[o]
  BY <1>1, <1>2, SpendingAssumption DEF TypeOK
<1>6. \A v \in Worker \ {w} : Grip(v) =>
        objects'[jobs[v].req.object] = objects[jobs[v].req.object]
  <2> SUFFICES ASSUME NEW v \in Worker \ {w}, Grip(v)
               PROVE  objects'[jobs[v].req.object] = objects[jobs[v].req.object]
    OBVIOUS
  <2>1. jobs[v].req.object \in Object
    BY GripFacts DEF Grip, Holding, Steps
  <2>2. jobs[v].req.object # r.object \/ r.object = NoObject
    BY <1>4 DEF ObjectInv, OneGrip
  <2> QED BY <1>5, <2>1, <2>2, SpendingAssumption
<1>7. OneGrip' /\ GrippedIsActive'
  BY <1>3, <1>6, GripsStay DEF ObjectInv
<1>8. \A k \in Key : scans'[k] = IF k = r.key /\ scans[k] = NoRow THEN r ELSE scans[k]
  BY <1>1, <1>2 DEF TypeOK
<1>9. \A k \in Key : scans[k] # NoRow => scans[k].object \in Object \cup {NoObject}
  BY RequestParts DEF TypeOK
<1>10. r.object # NoObject =>
         \A k \in Key : scans[k] # NoRow => scans[k].object # r.object
  BY <1>4 DEF ObjectInv, GrippedIsActive, PaidIsOver
<1> HIDE DEF r
<1>11. PaidIsOver'
  BY <1>2, <1>5, <1>8, <1>9 DEF ObjectInv, PaidIsOver
<1>12. OnePayment'
  BY <1>8, <1>10 DEF ObjectInv, OnePayment
<1>13. ScanKeys'
  BY <1>1, <1>8 DEF ObjectInv, ScanKeys
<1> QED BY <1>7, <1>11, <1>12, <1>13 DEF ObjectInv

LEMMA CommitObjects ==
  ASSUME TypeOK, ObjectInv, NEW w \in Worker, Commit(w)
  PROVE  ObjectInv'
<1>1. CASE CommitSend(w) \/ CommitReserve(w)
  <2>1. /\ objects' = objects /\ scans' = scans
        /\ \E outcome \in Outcomes : Answer(w, outcome)
    BY <1>1 DEF CommitSend, CommitReserve, Replay, Outcomes
  <2> QED BY <2>1, AnswerGrip, ObjectsUntouched
<1>2. CASE CommitLink(w)
  <2> DEFINE r == jobs[w].req
  <2>1. /\ jobs[w].at = "commit" /\ r.rail = "link" /\ Answer(w, "ok") /\ scans' = scans
        /\ objects' = [objects EXCEPT ![r.object] = "PAID"]
    BY <1>2 DEF CommitLink
  <2>2. r \in Request /\ r.object \in Object
    BY <2>1, GripFacts, RequestParts, SpendingAssumption DEF Steps
  <2>3. Grip(w)
    BY <2>1, <2>2, SpendingAssumption DEF Grip, Holding, LocksTheObject
  <2>4. ~ Grip(w)' /\ \A v \in Worker \ {w} : jobs'[v] = jobs[v]
    BY <2>1, AnswerGrip
  <2>5. \A v \in Worker \ {w} : Grip(v) =>
          objects'[jobs[v].req.object] = objects[jobs[v].req.object]
    BY <2>1, <2>3 DEF ObjectInv, OneGrip, TypeOK
  <2>6. OneGrip' /\ GrippedIsActive'
    BY <2>4, <2>5, GripsStay DEF ObjectInv
  <2>7. PaidIsOver' /\ OnePayment' /\ ScanKeys'
    BY <2>1, ScansStay DEF ObjectInv, TypeOK
  <2> QED BY <2>6, <2>7 DEF ObjectInv
<1> QED BY <1>1, <1>2, ScanObjects DEF Commit

LEMMA ObjectNext == TypeOK /\ ObjectInv /\ [Next]_vars => ObjectInv'
<1> SUFFICES ASSUME TypeOK, ObjectInv, [Next]_vars PROVE ObjectInv'
  OBVIOUS
<1>1. ASSUME NEW w \in Worker, NEW r \in Request, Start(w, r) PROVE ObjectInv'
  <2>1. jobs'[w].at = "check" /\ \A v \in Worker \ {w} : jobs'[v] = jobs[v]
    BY <1>1 DEF Start, TypeOK
  <2> QED BY <1>1, <2>1, ObjectsUntouched DEF Start, books, Grip, Holding
<1>2. ASSUME NEW w \in Worker, Refuse(w) PROVE ObjectInv'
  BY <1>2, AnswerGrip, ObjectsUntouched DEF Refuse, books
<1>3. ASSUME NEW w \in Worker, Drop(w) PROVE ObjectInv'
  <2>1. jobs'[w] = Idle /\ \A v \in Worker \ {w} : jobs'[v] = jobs[v]
    BY <1>3 DEF Drop, TypeOK
  <2> QED BY <1>3, <2>1, ObjectsUntouched DEF Drop, books, Grip, Holding, Idle
<1>4. ASSUME jobs' = jobs, objects' = objects, scans' = scans PROVE ObjectInv'
  BY <1>4 DEF ObjectInv, OneGrip, GrippedIsActive, PaidIsOver, OnePayment, ScanKeys, Grip, Holding
<1>5. ASSUME NEW k \in Key, Release(k) \/ CommitReserved(k) PROVE ObjectInv'
  BY <1>4, <1>5 DEF Release, CommitReserved
<1>6. ASSUME NEW o \in Object, Pass(o) PROVE ObjectInv'
  BY <1>4, <1>6 DEF Pass, books
<1>7. CASE UNCHANGED vars
  BY <1>4, <1>7 DEF vars
<1> QED BY <1>1, <1>2, <1>3, <1>5, <1>6, <1>7, QuietObjects, CommitObjects
        DEF Next, Continue, Quiet

ScanInv == TypeOK /\ ObjectInv

LEMMA ScanInvariant == Spec => []ScanInv
<1>1. Init => ScanInv
  <2> SUFFICES ASSUME Init PROVE ScanInv
    OBVIOUS
  <2>1. \A w \in Worker : ~ Grip(w)
    BY DEF Init, Grip, Holding, Idle
  <2>2. \A k \in Key : scans[k] = NoRow
    BY DEF Init
  <2> QED BY <2>1, <2>2, InitType DEF ScanInv, ObjectInv, OneGrip, GrippedIsActive, PaidIsOver,
             OnePayment, ScanKeys
<1>2. ScanInv /\ [Next]_vars => ScanInv'
  BY NextType, ObjectNext DEF ScanInv
<1> QED BY <1>1, <1>2, PTL DEF Spec

\* No code is paid by two requests.
CodeTakesOnePayment == \A o \in Object : Cardinality(PaymentsOf(o)) <= 1

LEMMA OnePaymentCounts == ScanInv => CodeTakesOnePayment
<1> SUFFICES ASSUME ScanInv, NEW o \in Object PROVE Cardinality(PaymentsOf(o)) <= 1
  BY DEF CodeTakesOnePayment
<1>1. \A k, l \in PaymentsOf(o) : k = l
  BY SpendingAssumption DEF ScanInv, ObjectInv, OnePayment, PaymentsOf
<1>2. CASE PaymentsOf(o) = {}
  BY <1>2, FS_EmptySet
<1>3. CASE PaymentsOf(o) # {}
  <2>1. PICK k : PaymentsOf(o) = {k}
    BY <1>1, <1>3
  <2> QED BY <2>1, FS_Singleton
<1> QED BY <1>2, <1>3

\* qr_pay claims the code in the transaction that pays it: for any number of payers,
\* under any keys, a dynamic code takes one payment.
THEOREM CodeTakesOnePaymentHolds == Spec => []CodeTakesOnePayment
BY ScanInvariant, OnePaymentCounts, PTL

\* No caller uses one idempotency key for two codes.
KeyPerCode ==
  \A r, q \in Request :
    r.rail = "qr" /\ q.rail = "qr" /\ r.key = q.key => r.object = q.object

\* A code becomes USED in the commit that records its payment, or that finds the key
\* taken: by a payment of the same code, which would have ended it before.
LEMMA SpentNext ==
  ASSUME KeyPerCode, ScanInv, SpentCodeWasPaid, [Next]_vars
  PROVE  SpentCodeWasPaid'
<1> USE DEF ScanInv
<1>1. ASSUME scans' = scans, \A o \in Object : objects'[o] = "USED" => objects[o] = "USED"
      PROVE  SpentCodeWasPaid'
  BY <1>1 DEF SpentCodeWasPaid, PaymentsOf
<1>2. ASSUME NEW w \in Worker, CommitScan(w) PROVE SpentCodeWasPaid'
  <2> DEFINE r == jobs[w].req
  <2>1. /\ jobs[w].at = "commit" /\ r.rail = "qr"
        /\ scans' = [scans EXCEPT ![r.key] = IF @ = NoRow THEN r ELSE @]
        /\ objects' = IF r.object = NoObject THEN objects
                      ELSE [objects EXCEPT ![r.object] = "USED"]
    BY <1>2 DEF CommitScan
  <2>2. /\ r \in Request /\ r # NoRow /\ r.key \in Key /\ r.object \in Object \cup {NoObject}
    BY <2>1, GripFacts, RequestParts, SpendingAssumption DEF Steps
  <2>3. \A k \in Key : scans'[k] = IF k = r.key /\ scans[k] = NoRow THEN r ELSE scans[k]
    BY <2>1, <2>2 DEF TypeOK
  <2>4. \A o \in Object : o # r.object => objects'[o] = objects[o]
    BY <2>1, <2>2 DEF TypeOK
  <2>5. r.object # NoObject => Grip(w) /\ objects[r.object] = "ACTIVE"
    BY <2>1 DEF Grip, Holding, LocksTheObject, ObjectInv, GrippedIsActive
  <2>6. r.object # NoObject => scans[r.key] = NoRow
    <3> SUFFICES ASSUME r.object # NoObject, scans[r.key] # NoRow PROVE FALSE
      OBVIOUS
    <3>1. scans[r.key] \in Request /\ scans[r.key].rail = "qr" /\ scans[r.key].key = r.key
      BY <2>2 DEF TypeOK, ObjectInv, ScanKeys
    <3>2. scans[r.key].object = r.object
      BY <2>1, <2>2, <3>1 DEF KeyPerCode
    <3> QED BY <2>2, <2>5, <3>2 DEF ObjectInv, PaidIsOver
  <2> HIDE DEF r
  <2>7. ASSUME NEW o \in Object, objects'[o] = "USED"
        PROVE  \E k \in Key : scans'[k] # NoRow /\ scans'[k].object = o
    <3>1. CASE o = r.object
      BY <2>2, <2>3, <2>6, <3>1, SpendingAssumption
    <3>2. CASE o # r.object
      <4>1. PICK k \in Key : scans[k] # NoRow /\ scans[k].object = o
        BY <2>4, <2>7, <3>2 DEF SpentCodeWasPaid, PaymentsOf
      <4> QED BY <2>3, <4>1
    <3> QED BY <3>1, <3>2
  <2> QED BY <2>7 DEF SpentCodeWasPaid, PaymentsOf
<1>3. ASSUME NEW w \in Worker,
             \/ \E r \in Request : Start(w, r)
             \/ Quiet(w) \/ CommitSend(w) \/ CommitReserve(w) \/ CommitLink(w)
             \/ Refuse(w) \/ Drop(w)
      PROVE  SpentCodeWasPaid'
  <2>1. scans' = scans
    BY <1>3 DEF Start, Quiet, Check, Deadline, Lock, LockWallet, LockObject, LockNone, Balance,
       CommitSend, CommitReserve, CommitLink, Refuse, Drop, books
  <2>2. CASE objects' = objects
    BY <1>1, <2>1, <2>2
  <2>3. CASE \E x : objects' \in {[objects EXCEPT ![x] = "EXPIRED"], [objects EXCEPT ![x] = "PAID"]}
    BY <1>1, <2>1, <2>3 DEF TypeOK
  <2>4. CASE Deadline(w)
    BY <2>2, <2>3, <2>4 DEF Deadline
  <2>5. CASE LockObject(w)
    BY <2>2, <2>3, <2>5 DEF LockObject
  <2>6. CASE CommitLink(w)
    BY <2>3, <2>6 DEF CommitLink
  <2>7. CASE \/ \E r \in Request : Start(w, r)
             \/ Check(w) \/ LockWallet(w) \/ LockNone(w) \/ Balance(w)
             \/ CommitSend(w) \/ CommitReserve(w) \/ Refuse(w) \/ Drop(w)
    BY <2>2, <2>7 DEF Start, Check, LockWallet, LockNone, Balance, CommitSend, CommitReserve,
       Refuse, Drop
  <2> QED BY <1>3, <2>4, <2>5, <2>6, <2>7 DEF Quiet, Lock
<1>4. ASSUME NEW k \in Key, Release(k) \/ CommitReserved(k) PROVE SpentCodeWasPaid'
  BY <1>1, <1>4 DEF Release, CommitReserved
<1>5. ASSUME NEW o \in Object, Pass(o) PROVE SpentCodeWasPaid'
  BY <1>1, <1>5 DEF Pass, books
<1>6. CASE UNCHANGED vars
  BY <1>1, <1>6 DEF vars
<1> QED BY <1>2, <1>3, <1>4, <1>5, <1>6 DEF Next, Continue, Commit, Quiet

\* Callers that keep one key to one code find no code spent that was not paid,
\* whichever handlers race for it, fail or come late, and none paid twice.
THEOREM CodeIsPaidOnceHolds == KeyPerCode => (Spec => []CodeIsPaidOnce)
<1> SUFFICES ASSUME KeyPerCode PROVE Spec => []CodeIsPaidOnce
  OBVIOUS
<1>1. Init => SpentCodeWasPaid
  BY DEF Init, SpentCodeWasPaid
<1>2. ScanInv /\ SpentCodeWasPaid /\ [Next]_vars => SpentCodeWasPaid'
  BY SpentNext
<1>3. ScanInv /\ SpentCodeWasPaid => CodeIsPaidOnce
  BY OnePaymentCounts DEF CodeTakesOnePayment, CodeIsPaidOnce
<1> QED BY <1>1, <1>2, <1>3, ScanInvariant, PTL DEF Spec

-----------------------------------------------------------------------------
(* Sums of amounts.                                                         *)

Chosen(s) == CHOOSE k \in s : TRUE

\* f is the sum of the amounts over every subset of keys.
IsSum(f, rows, keys) ==
  f = [s \in SUBSET keys |->
         IF s = {} THEN 0 ELSE rows[Chosen(s)].amount + f[s \ {Chosen(s)}]]

Summable(rows, keys) == IsFiniteSet(keys) /\ \A k \in keys : rows[k].amount \in Int

LEMMA AmountsUnfold ==
  ASSUME NEW rows, NEW keys
  PROVE  Amounts(rows, keys) = (CHOOSE f : IsSum(f, rows, keys))[keys]
<1>1. Amounts(rows, keys) =
           (CHOOSE f : f = [s \in SUBSET keys |->
              IF s = {} THEN 0 ELSE rows[Chosen(s)].amount + f[s \ {Chosen(s)}]])[keys]
  BY DEF Amounts, MapThenSumSet, MapThenFoldSet, Chosen
<1> QED BY <1>1 DEF IsSum

NatLess == OpToRel(<, Nat)
LEMMA Least ==
  ASSUME NEW T, T \subseteq Nat, T # {}
  PROVE  \E n \in T : \A m \in T : n <= m
<1>1. PICK n \in T : \A m \in T : ~ (<<m, n>> \in NatLess)
  BY NatLessThanWellFounded, WFMin DEF NatLess
<1>2. ASSUME NEW m \in T PROVE n <= m
  <2>1. m \in Nat /\ n \in Nat /\ ~ (<<m, n>> \in NatLess)
    BY <1>1
  <2>2. m < n => <<m, n>> \in NatLess
    BY <2>1 DEF NatLess, OpToRel
  <2> QED BY <2>1, <2>2
<1> QED BY <1>2

\* A finite set has a property that a set has as soon as its proper subsets do.
LEMMA SubsetInduction ==
  ASSUME NEW keys, IsFiniteSet(keys), NEW P, P \subseteq SUBSET keys,
         \A s \in SUBSET keys : (\A t \in SUBSET s : t # s => t \in P) => s \in P
  PROVE  P = SUBSET keys
<1> SUFFICES ASSUME P # SUBSET keys PROVE FALSE
  OBVIOUS
<1> DEFINE Sizes == {Cardinality(s) : s \in (SUBSET keys) \ P}
<1>1. ASSUME NEW s \in SUBSET keys PROVE Cardinality(s) \in Nat /\ IsFiniteSet(s)
  BY FS_Subset, FS_CardinalityType
<1>2. Sizes \subseteq Nat /\ Sizes # {}
  BY <1>1
<1> HIDE DEF Sizes
<1>3. PICK n \in Sizes : \A m \in Sizes : n <= m
  BY <1>2, Least
<1>4. PICK s \in (SUBSET keys) \ P : Cardinality(s) = n
  BY <1>3 DEF Sizes
<1>5. ASSUME NEW t \in SUBSET s, t # s PROVE t \in P
  <2> SUFFICES ASSUME t \notin P PROVE FALSE
    OBVIOUS
  <2>1. t \in SUBSET keys /\ Cardinality(t) \in Sizes
    BY DEF Sizes
  <2>2. Cardinality(t) <= Cardinality(s) /\ Cardinality(t) # Cardinality(s)
    BY <1>1, <1>5, FS_Subset
  <2> QED BY <1>1, <1>3, <1>4, <2>1, <2>2
<1> QED BY <1>4, <1>5

\* Two such sums agree wherever their amounts do.
LEMMA SumsAgree ==
  ASSUME NEW rows, NEW rows2, NEW keys, NEW keys2, NEW f, NEW g,
         IsSum(f, rows, keys), IsSum(g, rows2, keys2), IsFiniteSet(keys), keys \subseteq keys2,
         \A k \in keys : rows[k].amount = rows2[k].amount
  PROVE  \A s \in SUBSET keys : f[s] = g[s]
<1> DEFINE P == {s \in SUBSET keys : f[s] = g[s]}
<1>1. ASSUME NEW s \in SUBSET keys, \A t \in SUBSET s : t # s => t \in P PROVE s \in P
  <2>1. f[s] = IF s = {} THEN 0 ELSE rows[Chosen(s)].amount + f[s \ {Chosen(s)}]
    BY DEF IsSum
  <2>2. g[s] = IF s = {} THEN 0 ELSE rows2[Chosen(s)].amount + g[s \ {Chosen(s)}]
    BY DEF IsSum
  <2>3. s # {} => Chosen(s) \in s
    BY DEF Chosen
  <2>4. s # {} => s \ {Chosen(s)} \in P
    BY <1>1, <2>3
  <2> QED BY <2>1, <2>2, <2>3, <2>4
<1> HIDE DEF P
<1>2. P \subseteq SUBSET keys
  BY DEF P
<1>3. P = SUBSET keys
  BY <1>1, <1>2, SubsetInduction
<1> QED BY <1>3 DEF P

LEMMA SumExists ==
  ASSUME NEW rows, NEW keys, Summable(rows, keys)
  PROVE  \E f : IsSum(f, rows, keys) /\ f \in [SUBSET keys -> Int]
<1> DEFINE Upto(n) == {s \in SUBSET keys : Cardinality(s) <= n}
           Rec(f, s) == IF s = {} THEN 0 ELSE rows[Chosen(s)].amount + f[s \ {Chosen(s)}]
           Partial(f, n) == f \in [Upto(n) -> Int] /\ \A s \in Upto(n) : f[s] = Rec(f, s)
           Bad == {n \in Nat : ~ \E f : Partial(f, n)}
<1>1. ASSUME NEW s \in SUBSET keys
      PROVE  /\ Cardinality(s) \in Nat /\ IsFiniteSet(s) /\ Cardinality(s) <= Cardinality(keys)
             /\ (Cardinality(s) = 0 <=> s = {})
  BY FS_Subset, FS_CardinalityType, FS_EmptySet DEF Summable
<1>2. ASSUME NEW s \in SUBSET keys, s # {}
      PROVE  /\ Chosen(s) \in s /\ rows[Chosen(s)].amount \in Int
             /\ s \ {Chosen(s)} \in SUBSET keys
             /\ Cardinality(s \ {Chosen(s)}) = Cardinality(s) - 1
  <2>1. Chosen(s) \in s
    BY <1>2 DEF Chosen
  <2> QED BY <1>1, <2>1, FS_RemoveElement DEF Summable
<1>3. Bad = {}
  <2> SUFFICES ASSUME Bad # {} PROVE FALSE
    OBVIOUS
  <2>1. PICK n \in Bad : \A m \in Bad : n <= m
    BY Least
  <2>2. n \in Nat /\ \A f : ~ Partial(f, n)
    BY <2>1
  <2>3. CASE n = 0
    <3> DEFINE f == [s \in Upto(0) |-> 0]
    <3>1. \A s \in Upto(0) : s = {}
      BY <1>1
    <3>2. Partial(f, 0)
      BY <3>1
    <3> QED BY <2>2, <2>3, <3>2
  <2>4. CASE n # 0
    <3>1. n - 1 \in Nat /\ n - 1 \notin Bad
      <4> HIDE DEF Bad
      <4> QED BY <2>1, <2>2, <2>4
    <3>2. PICK g : Partial(g, n - 1)
      BY <3>1
    <3> DEFINE f == [s \in Upto(n) |-> Rec(g, s)]
    <3>3. ASSUME NEW s \in Upto(n), s # {} PROVE s \ {Chosen(s)} \in Upto(n - 1)
      BY <1>1, <1>2, <2>2, <3>3
    <3>4. \A s \in Upto(n - 1) : s \in Upto(n)
      BY <1>1, <2>2
    <3>5. \A s \in Upto(n - 1) : g[s] \in Int /\ g[s] = Rec(g, s)
      BY <3>2
    <3>6. ASSUME NEW s \in Upto(n) PROVE f[s] \in Int /\ f[s] = Rec(f, s)
      <4>1. f[s] = Rec(g, s)
        OBVIOUS
      <4>2. CASE s = {}
        BY <4>1, <4>2
      <4>3. CASE s # {}
        <5> SUFFICES ASSUME NEW t, t = s \ {Chosen(s)} PROVE f[s] \in Int /\ f[s] = Rec(f, s)
          OBVIOUS
        <5>1. t \in Upto(n - 1) /\ t \in Upto(n) /\ rows[Chosen(s)].amount \in Int
          BY <1>2, <3>3, <3>4, <4>3
        <5>2. f[t] = g[t] /\ g[t] \in Int
          <6>1. f[t] = Rec(g, t)
            BY <5>1
          <6> HIDE DEF Upto, Rec, f
          <6> QED BY <3>5, <5>1, <6>1
        <5> HIDE DEF f, Upto
        <5> QED BY <4>1, <4>3, <5>1, <5>2
      <4> QED BY <4>2, <4>3
    <3>7. Partial(f, n)
      <4>1. f \in [Upto(n) -> Int]
        <5>1. f = [s \in Upto(n) |-> f[s]]
          OBVIOUS
        <5> HIDE DEF f, Upto, Rec
        <5> QED BY <3>6, <5>1
      <4> HIDE DEF f, Upto, Rec
      <4> QED BY <3>6, <4>1
    <3> QED BY <2>2, <3>7
  <2> QED BY <2>3, <2>4
<1>4. keys \in SUBSET keys /\ Cardinality(keys) \in Nat
  BY <1>1
<1>5. PICK f : Partial(f, Cardinality(keys))
  BY <1>3, <1>4
<1>6. Upto(Cardinality(keys)) = SUBSET keys
  BY <1>1
<1>7. f \in [SUBSET keys -> Int] /\ \A s \in SUBSET keys : f[s] = Rec(f, s)
  BY <1>5, <1>6
<1>8. f = [s \in SUBSET keys |-> f[s]]
  BY <1>7
<1>9. f = [s \in SUBSET keys |-> Rec(f, s)]
  <2> HIDE DEF Rec
  <2> QED BY <1>7, <1>8
<1> QED BY <1>7, <1>9 DEF IsSum

\* What the amounts of a finite set of rows sum up to.
LEMMA AmountsFacts ==
  ASSUME NEW rows, NEW keys, Summable(rows, keys)
  PROVE  /\ Amounts(rows, keys) \in Int
         /\ keys = {} => Amounts(rows, keys) = 0
         /\ \A f, rows2, keys2 :
              /\ IsSum(f, rows2, keys2) /\ keys \subseteq keys2
              /\ \A k \in keys : rows[k].amount = rows2[k].amount
              => Amounts(rows, keys) = f[keys]
<1> DEFINE f == CHOOSE f : IsSum(f, rows, keys)
<1>1. PICK g : IsSum(g, rows, keys) /\ g \in [SUBSET keys -> Int]
  BY SumExists
<1>2. IsSum(f, rows, keys)
  BY <1>1
<1>3. Amounts(rows, keys) = f[keys]
  BY AmountsUnfold
<1> HIDE DEF f
<1>4. ASSUME NEW h, NEW rows2, NEW keys2, IsSum(h, rows2, keys2), keys \subseteq keys2,
             \A k \in keys : rows[k].amount = rows2[k].amount
      PROVE  Amounts(rows, keys) = h[keys]
  BY <1>2, <1>3, <1>4, SumsAgree DEF Summable
<1>5. Amounts(rows, keys) = g[keys]
  BY <1>1, <1>4
<1>6. keys = {} => f[keys] = 0
  BY <1>2 DEF IsSum
<1> QED BY <1>1, <1>3, <1>4, <1>5, <1>6

\* ... does not depend on anything but the amounts,
LEMMA AmountsAgree ==
  ASSUME NEW rows, NEW rows2, NEW keys, Summable(rows, keys),
         \A k \in keys : rows[k].amount = rows2[k].amount
  PROVE  Amounts(rows2, keys) = Amounts(rows, keys)
<1>1. Summable(rows2, keys)
  BY DEF Summable
<1>2. PICK f : IsSum(f, rows, keys) /\ f \in [SUBSET keys -> Int]
  BY SumExists
<1>3. Amounts(rows, keys) = f[keys] /\ Amounts(rows2, keys) = f[keys]
  BY <1>1, <1>2, AmountsFacts
<1> QED BY <1>3

\* and grows by the amount of the row that is added.
LEMMA AmountsAdd ==
  ASSUME NEW rows, NEW keys, NEW k, k \notin keys,
         Summable(rows, keys), rows[k].amount \in Int
  PROVE  Amounts(rows, keys \cup {k}) = Amounts(rows, keys) + rows[k].amount
<1> DEFINE all == keys \cup {k}
<1>1. Summable(rows, all)
  BY FS_AddElement DEF Summable
<1>2. PICK f : IsSum(f, rows, all) /\ f \in [SUBSET all -> Int]
  BY <1>1, SumExists
<1> DEFINE P == {s \in SUBSET all : \A x \in s : f[s] = rows[x].amount + f[s \ {x}]}
<1>3. ASSUME NEW s \in SUBSET all, \A t \in SUBSET s : t # s => t \in P PROVE s \in P
  <2> SUFFICES ASSUME NEW x \in s PROVE f[s] = rows[x].amount + f[s \ {x}]
    OBVIOUS
  <2> SUFFICES ASSUME NEW y, y = Chosen(s) PROVE f[s] = rows[x].amount + f[s \ {x}]
    OBVIOUS
  <2>1. y \in s
    BY DEF Chosen
  <2>2. f[s] = rows[y].amount + f[s \ {y}]
    BY <1>2 DEF IsSum
  <2>3. CASE x # y
    <3>0. s \ {x} \in SUBSET s /\ s \ {y} \in SUBSET s /\ s \ {x} # s /\ s \ {y} # s
      BY <2>1
    <3>1. s \ {x} \in P /\ s \ {y} \in P
      <4> HIDE DEF P
      <4> QED BY <1>3, <3>0
    <3>2. f[s \ {x}] = rows[y].amount + f[(s \ {x}) \ {y}]
      BY <2>1, <2>3, <3>1
    <3>3. f[s \ {y}] = rows[x].amount + f[(s \ {y}) \ {x}]
      BY <2>3, <3>1
    <3>4. (s \ {x}) \ {y} = (s \ {y}) \ {x} /\ (s \ {x}) \ {y} \in SUBSET all
      OBVIOUS
    <3>5. rows[x].amount \in Int /\ rows[y].amount \in Int /\ f[(s \ {x}) \ {y}] \in Int
      BY <1>1, <1>2, <2>1, <3>4 DEF Summable
    <3>6. PICK z \in Int : z = f[(s \ {x}) \ {y}] /\ z = f[(s \ {y}) \ {x}]
      BY <3>4, <3>5
    <3>7. f[s] = rows[y].amount + (rows[x].amount + z)
      BY <2>2, <3>3, <3>6
    <3>8. f[s \ {x}] = rows[y].amount + z
      BY <3>2, <3>6
    <3> QED BY <3>5, <3>6, <3>7, <3>8
  <2>4. CASE x = y
    BY <2>2, <2>4
  <2> QED BY <2>3, <2>4
<1> HIDE DEF P
<1>4. P \subseteq SUBSET all /\ IsFiniteSet(all)
  BY <1>1 DEF P, Summable
<1>5. P = SUBSET all
  BY <1>3, <1>4, SubsetInduction
<1>6. f[all] = rows[k].amount + f[all \ {k}] /\ all \ {k} = keys
  BY <1>5 DEF P
<1>7. Amounts(rows, all) = f[all] /\ Amounts(rows, keys) = f[keys]
  BY <1>1, <1>2, AmountsFacts
<1>8. Amounts(rows, keys) \in Int
  BY AmountsFacts
<1> HIDE DEF all
<1>9. Amounts(rows, all) = rows[k].amount + Amounts(rows, keys)
  BY <1>6, <1>7
<1>10. \A a, b \in Int : a + b = b + a
  OBVIOUS
<1> QED BY <1>8, <1>9, <1>10 DEF all

\* A row that is added, or taken away, while the others keep their amounts.
LEMMA RowAdded ==
  ASSUME NEW rows, NEW rows2, NEW keys, NEW k, k \notin keys,
         Summable(rows, keys), rows2[k].amount \in Int,
         \A x \in keys : rows2[x].amount = rows[x].amount
  PROVE  Amounts(rows2, keys \cup {k}) = Amounts(rows, keys) + rows2[k].amount
<1>1. Summable(rows2, keys)
  BY DEF Summable
<1>2. Amounts(rows2, keys) = Amounts(rows, keys)
  BY AmountsAgree
<1> QED BY <1>1, <1>2, AmountsAdd

LEMMA RowRemoved ==
  ASSUME NEW rows, NEW rows2, NEW keys, NEW k, k \in keys,
         Summable(rows, keys), rows[k].amount \in Int,
         \A x \in keys : rows2[x].amount = rows[x].amount
  PROVE  Amounts(rows, keys) = Amounts(rows2, keys \ {k}) + rows[k].amount
<1> DEFINE rest == keys \ {k}
<1>1. Summable(rows, rest) /\ k \notin rest /\ rest \cup {k} = keys
  BY FS_RemoveElement DEF Summable
<1>2. \A x \in rest : rows2[x].amount = rows[x].amount
  OBVIOUS
<1> HIDE DEF rest
<1>3. Amounts(rows, rest \cup {k}) = Amounts(rows, rest) + rows[k].amount
  BY <1>1, AmountsAdd
<1>4. Amounts(rows2, rest) = Amounts(rows, rest)
  BY <1>1, <1>2, AmountsAgree
<1> QED BY <1>1, <1>3, <1>4 DEF rest

-----------------------------------------------------------------------------
(* Balances and records.  The rows are finitely many in every state, so     *)
(* that their amounts have a sum; every transaction that moves money writes *)
(* the row that explains it, or nothing.                                    *)

Got(c) == {k \in Made : transfers[k].payee = c}
Gave(c) == {k \in Made : transfers[k].payer = c}
KeysHeld == {k \in Key : holds[k] # NoRow}
Open == {"ACTIVE"}
Gone == {"ACTIVE", "COMMITTED"}

Covered(c) == held[c] = Amounts(holds, Reservations(c, Open))

Explained(c) ==
  funds[c] = Opening + Amounts(transfers, Got(c)) - Amounts(transfers, Gave(c))
             - Amounts(holds, Reservations(c, Gone))

ReservedInv == TypeOK /\ IsFiniteSet(KeysHeld) /\ \A c \in Consumer : Covered(c)

RecordsInv == ReservedInv /\ IsFiniteSet(Made) /\ \A c \in Consumer : Explained(c)

LEMMA RowParts ==
  ASSUME TypeOK, NEW k \in Key
  PROVE  /\ transfers[k] # NoRow => transfers[k].amount \in Int
         /\ holds[k] # NoRow => holds[k].amount \in Int
<1>1. transfers[k] # NoRow => transfers[k] \in Transfer
  BY DEF TypeOK
<1>2. holds[k] # NoRow => holds[k] \in Hold
  BY DEF TypeOK
<1> QED BY <1>1, <1>2 DEF Transfer, Hold

\* The sums of a consumer, as integers.
LEMMA HoldSums ==
  ASSUME ReservedInv, NEW c, NEW statuses
  PROVE  /\ Summable(holds, Reservations(c, statuses))
         /\ Amounts(holds, Reservations(c, statuses)) \in Int
<1>1. Reservations(c, statuses) \in SUBSET KeysHeld
  BY DEF Reservations, KeysHeld
<1>2. \A k \in KeysHeld : holds[k].amount \in Int
  BY RowParts DEF ReservedInv, KeysHeld
<1>3. Summable(holds, Reservations(c, statuses))
  BY <1>1, <1>2, FS_Subset DEF Summable, ReservedInv
<1> QED BY <1>3, AmountsFacts

LEMMA SumParts ==
  ASSUME RecordsInv, NEW c
  PROVE  /\ Summable(transfers, Got(c)) /\ Amounts(transfers, Got(c)) \in Int
         /\ Summable(transfers, Gave(c)) /\ Amounts(transfers, Gave(c)) \in Int
         /\ \A statuses : Amounts(holds, Reservations(c, statuses)) \in Int
<1>1. Got(c) \in SUBSET Made /\ Gave(c) \in SUBSET Made
  BY DEF Got, Gave
<1>2. \A k \in Made : transfers[k].amount \in Int
  BY RowParts DEF RecordsInv, ReservedInv, Made
<1>3. Summable(transfers, Got(c)) /\ Summable(transfers, Gave(c))
  BY <1>1, <1>2, FS_Subset DEF Summable, RecordsInv
<1> QED BY <1>3, HoldSums, AmountsFacts DEF RecordsInv

\* A reservation adds what its row says to its owner's,
LEMMA ReserveAdds ==
  ASSUME ReservedInv, NEW w \in Worker, CommitReserve(w)
  PROVE  \/ UNCHANGED books
         \/ \E owner \in Consumer, amount \in Int :
              /\ funds' = [funds EXCEPT ![owner] = @ - amount]
              /\ held' = [held EXCEPT ![owner] = @ + amount]
              /\ UNCHANGED transfers
              /\ IsFiniteSet(KeysHeld')
              /\ \A c, statuses : "ACTIVE" \in statuses =>
                   Amounts(holds', Reservations(c, statuses)') =
                     Amounts(holds, Reservations(c, statuses))
                     + (IF c = owner THEN amount ELSE 0)
<1> DEFINE r == jobs[w].req
<1>0. /\ jobs[w].at = "commit" /\ r.rail = "reserve"
      /\ UNCHANGED <<transfers, scans>>
  BY DEF CommitReserve
<1>1. /\ r \in Request /\ r.key \in Key /\ r.amount \in Int /\ r.payer \in Consumer
      /\ HoldOf(r, "ACTIVE") \in Hold
  BY <1>0, HolderFacts, RequestParts DEF ReservedInv, Steps
<1>2. CASE holds[r.key] # NoRow
  BY <1>0, <1>2 DEF CommitReserve, books
<1>3. CASE holds[r.key] = NoRow
  <2>1. /\ funds' = [funds EXCEPT ![r.payer] = @ - r.amount]
        /\ held' = [held EXCEPT ![r.payer] = @ + r.amount]
        /\ holds' = [holds EXCEPT ![r.key] = HoldOf(r, "ACTIVE")]
    BY <1>3 DEF CommitReserve
  <2>2. /\ holds'[r.key] = HoldOf(r, "ACTIVE")
        /\ holds'[r.key].amount = r.amount
        /\ holds'[r.key].owner = r.payer /\ holds'[r.key].status = "ACTIVE"
        /\ \A k \in Key : k # r.key => holds'[k] = holds[k]
    <3>1. holds'[r.key] = HoldOf(r, "ACTIVE") /\ \A k \in Key : k # r.key => holds'[k] = holds[k]
      BY <1>1, <2>1 DEF ReservedInv, TypeOK
    <3> QED BY <3>1 DEF HoldOf
  <2>3. holds'[r.key] # NoRow
    BY SpendingAssumption, <1>1, <2>2 DEF Hold
  <2> HIDE DEF r
  <2>4. KeysHeld' = KeysHeld \cup {r.key}
    BY <1>1, <2>2, <2>3 DEF KeysHeld
  <2>5. IsFiniteSet(KeysHeld')
    BY <2>4, FS_AddElement DEF ReservedInv
  <2>5a. ASSUME NEW keys, Summable(holds, keys), r.key \notin keys,
                \A k \in keys : holds'[k].amount = holds[k].amount
         PROVE  Amounts(holds', keys \cup {r.key}) = Amounts(holds, keys) + r.amount
    <3>1. holds'[r.key].amount \in Int
      BY <1>1, <2>2
    <3>2. Amounts(holds', keys \cup {r.key}) = Amounts(holds, keys) + holds'[r.key].amount
      BY <2>5a, <3>1, RowAdded
    <3> QED BY <2>2, <3>2
  <2>6. ASSUME NEW c, NEW statuses, "ACTIVE" \in statuses
        PROVE  Amounts(holds', Reservations(c, statuses)') =
                 Amounts(holds, Reservations(c, statuses))
                 + (IF c = r.payer THEN r.amount ELSE 0)
    <3>1. /\ Reservations(c, statuses)' =
               IF c = r.payer THEN Reservations(c, statuses) \cup {r.key}
               ELSE Reservations(c, statuses)
          /\ r.key \notin Reservations(c, statuses)
      BY <1>1, <1>3, <2>2, <2>3, <2>6 DEF Reservations
    <3>2. \A k \in Reservations(c, statuses) : holds'[k].amount = holds[k].amount
      BY <1>3, <2>2 DEF Reservations
    <3>3. Amounts(holds, Reservations(c, statuses)) \in Int
      BY HoldSums
    <3>4. Summable(holds, Reservations(c, statuses))
      BY HoldSums
    <3>5. Amounts(holds', Reservations(c, statuses) \cup {r.key}) =
            Amounts(holds, Reservations(c, statuses)) + r.amount
      <4> PICK keys : keys = Reservations(c, statuses)
        OBVIOUS
      <4>1. Summable(holds, keys) /\ r.key \notin keys
            /\ \A k \in keys : holds'[k].amount = holds[k].amount
        BY <3>1, <3>2, <3>4
      <4>2. Amounts(holds', keys \cup {r.key}) = Amounts(holds, keys) + r.amount
        BY <2>5a, <4>1
      <4> QED BY <4>2
    <3>6. Amounts(holds', Reservations(c, statuses)) =
            Amounts(holds, Reservations(c, statuses))
      BY <3>2, <3>4, AmountsAgree
    <3> QED BY <3>1, <3>3, <3>5, <3>6
  <2> QED BY <1>0, <1>1, <2>1, <2>5, <2>6
<1> QED BY <1>2, <1>3

\* and one that ends is taken from the sums of the statuses it no longer has.
LEMMA SettleTakes ==
  ASSUME ReservedInv, NEW k \in Key, Release(k) \/ CommitReserved(k)
  PROVE  \E owner \in Consumer, amount \in Int, ended \in {"RELEASED", "COMMITTED"} :
           /\ funds' = IF ended = "RELEASED" THEN [funds EXCEPT ![owner] = @ + amount]
                       ELSE funds
           /\ held' = [held EXCEPT ![owner] = @ - amount]
           /\ UNCHANGED transfers
           /\ IsFiniteSet(KeysHeld')
           /\ \A c, statuses : "ACTIVE" \in statuses =>
                Amounts(holds', Reservations(c, statuses)') =
                  Amounts(holds, Reservations(c, statuses))
                  - (IF c = owner /\ ended \notin statuses THEN amount ELSE 0)
<1> DEFINE h == holds[k]
<1>0. /\ h # NoRow /\ h.status = "ACTIVE"
      /\ held' = [held EXCEPT ![h.owner] = @ - h.amount]
      /\ UNCHANGED <<transfers, scans>>
      /\ \/ /\ funds' = [funds EXCEPT ![h.owner] = @ + h.amount]
            /\ holds' = [holds EXCEPT ![k].status = "RELEASED"]
         \/ /\ funds' = funds
            /\ holds' = [holds EXCEPT ![k].status = "COMMITTED"]
  BY DEF Release, CommitReserved
<1>1. h \in Hold /\ h.owner \in Consumer /\ h.amount \in Int
  BY <1>0, HoldParts DEF ReservedInv
<1>2. PICK ended \in {"RELEASED", "COMMITTED"} :
        /\ funds' = IF ended = "RELEASED" THEN [funds EXCEPT ![h.owner] = @ + h.amount]
                    ELSE funds
        /\ holds' = [holds EXCEPT ![k].status = ended]
  BY <1>0
<1>3. /\ holds'[k] = [h EXCEPT !.status = ended]
      /\ \A x \in Key : x # k => holds'[x] = holds[x]
  BY <1>2 DEF ReservedInv, TypeOK
<1>4. /\ holds'[k].owner = h.owner /\ holds'[k].amount = h.amount
      /\ holds'[k].status = ended
  BY <1>1, <1>3 DEF Hold
<1>5. holds'[k] # NoRow
  <2>1. [h EXCEPT !.status = ended] \in Hold
    BY <1>1 DEF Hold
  <2> QED BY <1>3, <2>1, SpendingAssumption DEF Hold
<1>6. h = holds[k]
  OBVIOUS
<1> HIDE DEF h
<1>7. IsFiniteSet(KeysHeld')
  <2>1. KeysHeld' = KeysHeld
    BY <1>0, <1>3, <1>5, <1>6 DEF KeysHeld
  <2> QED BY <2>1 DEF ReservedInv
<1>8. \A x \in Key : holds[x] # NoRow => holds'[x].amount = holds[x].amount
  BY <1>3, <1>4, <1>6
<1>9. ASSUME NEW c, NEW statuses, "ACTIVE" \in statuses
      PROVE  Amounts(holds', Reservations(c, statuses)') =
               Amounts(holds, Reservations(c, statuses))
               - (IF c = h.owner /\ ended \notin statuses THEN h.amount ELSE 0)
  <2> DEFINE keys == Reservations(c, statuses)
  <2>1. /\ Reservations(c, statuses)' =
             IF c = h.owner /\ ended \notin statuses THEN keys \ {k} ELSE keys
        /\ c = h.owner => k \in keys
    <3>1. \A x \in Key : x # k => (x \in Reservations(c, statuses)' <=> x \in keys)
      BY <1>3 DEF Reservations
    <3>2. k \in keys <=> c = h.owner
      BY <1>0, <1>6, <1>9 DEF Reservations
    <3>3. k \in Reservations(c, statuses)' <=> (c = h.owner /\ ended \in statuses)
      BY <1>4, <1>5 DEF Reservations
    <3>4. Reservations(c, statuses)' \subseteq Key /\ keys \subseteq Key
      BY DEF Reservations
    <3> HIDE DEF keys
    <3> QED BY <3>1, <3>2, <3>3, <3>4
  <2>2. \A x \in keys : holds'[x].amount = holds[x].amount
    BY <1>8 DEF Reservations
  <2>3. Amounts(holds, keys) \in Int
    BY HoldSums
  <2>4. Summable(holds, keys)
    BY HoldSums
  <2> HIDE DEF keys
  <2>5. Amounts(holds', keys) = Amounts(holds, keys)
    BY <2>2, <2>4, AmountsAgree
  <2>6. k \in keys => Amounts(holds, keys) = Amounts(holds', keys \ {k}) + h.amount
    <3>1. ASSUME k \in keys
          PROVE  Amounts(holds, keys) = Amounts(holds', keys \ {k}) + holds[k].amount
      <4>1. holds[k].amount \in Int
        BY <1>1, <1>6
      <4> QED BY <2>2, <2>4, <3>1, <4>1, RowRemoved
    <3> QED BY <1>6, <3>1
  <2>7. Amounts(holds', keys \ {k}) \in Int
    <3>1. Summable(holds', keys \ {k})
      BY <2>2, <2>4, FS_RemoveElement DEF Summable
    <3> QED BY <3>1, AmountsFacts
  <2> QED BY <1>1, <2>1, <2>3, <2>5, <2>6, <2>7 DEF keys
<1> QED BY <1>0, <1>1, <1>2, <1>7, <1>9

\* No rail touches the reserve but a reservation, and what ends it.
LEMMA ReservedNext == ReservedInv /\ [Next]_vars => ReservedInv'
<1> SUFFICES ASSUME ReservedInv, [Next]_vars PROVE ReservedInv'
  OBVIOUS
<1>0. TypeOK' /\ held \in [Consumer -> Int]
  BY NextType DEF ReservedInv, TypeOK
<1>1. CASE UNCHANGED <<held, holds>>
  <2>1. UNCHANGED KeysHeld /\ \A c, statuses : UNCHANGED Reservations(c, statuses)
    BY <1>1 DEF KeysHeld, Reservations
  <2> QED BY <1>0, <1>1, <2>1 DEF ReservedInv, Covered
<1>2. ASSUME NEW owner \in Consumer, NEW amount \in Int, NEW after,
             held' = [held EXCEPT ![owner] = after], after = held[owner] + amount,
             IsFiniteSet(KeysHeld'),
             \A c : Amounts(holds', Reservations(c, Open)') =
                      Amounts(holds, Reservations(c, Open)) + (IF c = owner THEN amount ELSE 0)
      PROVE  ReservedInv'
  <2>1. ASSUME NEW c \in Consumer PROVE Covered(c)'
    <3>1. held'[c] = IF c = owner THEN held[c] + amount ELSE held[c]
      BY <1>0, <1>2
    <3>2. held[c] = Amounts(holds, Reservations(c, Open)) /\ held[c] \in Int
      BY <1>0 DEF ReservedInv, Covered
    <3> QED BY <1>2, <3>1, <3>2 DEF Covered
  <2> QED BY <1>0, <1>2, <2>1 DEF ReservedInv
<1>3. ASSUME NEW w \in Worker, CommitReserve(w) PROVE ReservedInv'
  <2>1. CASE UNCHANGED books
    BY <1>1, <2>1 DEF books
  <2>2. CASE ~ UNCHANGED books
    <3> PICK owner \in Consumer, amount \in Int :
          /\ held' = [held EXCEPT ![owner] = @ + amount]
          /\ IsFiniteSet(KeysHeld')
          /\ \A c, statuses : "ACTIVE" \in statuses =>
               Amounts(holds', Reservations(c, statuses)') =
                 Amounts(holds, Reservations(c, statuses))
                 + (IF c = owner THEN amount ELSE 0)
      BY <1>3, <2>2, ReserveAdds
    <3>1. held' = [held EXCEPT ![owner] = held[owner] + amount]
      OBVIOUS
    <3>2. \A c : Amounts(holds', Reservations(c, Open)') =
                   Amounts(holds, Reservations(c, Open)) + (IF c = owner THEN amount ELSE 0)
      BY DEF Open
    <3> QED BY <1>2, <3>1, <3>2
  <2> QED BY <2>1, <2>2
<1>4. ASSUME NEW k \in Key, Release(k) \/ CommitReserved(k) PROVE ReservedInv'
  <2> PICK owner \in Consumer, amount \in Int, ended \in {"RELEASED", "COMMITTED"} :
        /\ held' = [held EXCEPT ![owner] = @ - amount]
        /\ IsFiniteSet(KeysHeld')
        /\ \A c, statuses : "ACTIVE" \in statuses =>
             Amounts(holds', Reservations(c, statuses)') =
               Amounts(holds, Reservations(c, statuses))
               - (IF c = owner /\ ended \notin statuses THEN amount ELSE 0)
    BY <1>4, SettleTakes
  <2>1. PICK minus \in Int : minus = - amount
    OBVIOUS
  <2>2. held' = [held EXCEPT ![owner] = held[owner] + minus]
    BY <1>0, <2>1
  <2>3. \A c : Amounts(holds', Reservations(c, Open)') =
                 Amounts(holds, Reservations(c, Open)) + (IF c = owner THEN minus ELSE 0)
    <3> TAKE c
    <3>1. Amounts(holds', Reservations(c, Open)') =
            Amounts(holds, Reservations(c, Open)) - (IF c = owner THEN amount ELSE 0)
      BY DEF Open
    <3>2. Amounts(holds, Reservations(c, Open)) \in Int
      BY HoldSums
    <3> QED BY <2>1, <3>1, <3>2
  <2> QED BY <1>2, <2>2, <2>3
<1>5. ASSUME NEW w \in Worker,
             \/ \E r \in Request : Start(w, r)
             \/ Quiet(w) \/ CommitSend(w) \/ CommitLink(w) \/ CommitScan(w)
             \/ Refuse(w) \/ Drop(w)
      PROVE  UNCHANGED <<held, holds>>
  BY <1>5 DEF Start, Quiet, Check, Deadline, Lock, LockWallet, LockObject, LockNone,
     Balance, CommitSend, CommitLink, CommitScan, Refuse, Drop, books
<1>6. CASE (\E o \in Object : Pass(o)) \/ UNCHANGED vars
  BY <1>1, <1>6 DEF Pass, vars, books
<1> QED BY <1>1, <1>3, <1>4, <1>5, <1>6 DEF Next, Continue, Commit, Quiet

LEMMA NoRowsNoSum ==
  ASSUME NEW rows
  PROVE  Amounts(rows, {}) = 0
<1>1. Summable(rows, {})
  BY FS_EmptySet DEF Summable
<1> QED BY <1>1, AmountsFacts

LEMMA InitReserved == Init => ReservedInv
<1> SUFFICES ASSUME Init PROVE ReservedInv
  OBVIOUS
<1>1. KeysHeld = {}
  BY DEF Init, KeysHeld
<1>2. \A c, statuses : Reservations(c, statuses) = {}
  BY <1>1 DEF Reservations, KeysHeld
<1>3. ASSUME NEW c \in Consumer PROVE Covered(c)
  BY <1>2, NoRowsNoSum DEF Init, Covered
<1> QED BY <1>1, <1>3, FS_EmptySet, InitType DEF ReservedInv

\* On all rails together: the reserved account of a consumer holds what its open
\* reservations say, in every state, so that each can be released or committed.
THEOREM ReserveIsTheReservations ==
  Spec => [](\A c \in Consumer : held[c] = Amounts(holds, Reservations(c, {"ACTIVE"})))
<1>1. Init => ReservedInv
  BY InitReserved
<1>2. ReservedInv /\ [Next]_vars => ReservedInv'
  BY ReservedNext
<1>3. ReservedInv => \A c \in Consumer : held[c] = Amounts(holds, Reservations(c, {"ACTIVE"}))
  BY DEF ReservedInv, Covered, Open
<1> QED BY <1>1, <1>2, <1>3, PTL DEF Spec

LEMMA BooksKept ==
  ASSUME RecordsInv, UNCHANGED books
  PROVE  IsFiniteSet(Made') /\ \A c \in Consumer : Explained(c)'
BY DEF RecordsInv, books, Made, Got, Gave, Reservations, Explained

\* A transfer brings its payee and takes its payer what its row says.
LEMMA SendRecorded ==
  ASSUME RecordsInv, NEW w \in Worker, CommitSend(w)
  PROVE  IsFiniteSet(Made') /\ \A c \in Consumer : Explained(c)'
<1> DEFINE r == jobs[w].req
<1>0. /\ jobs[w].at = "commit" /\ r.rail = "send"
      /\ UNCHANGED <<held, scans, holds>>
  BY DEF CommitSend
<1>1. /\ r \in Request /\ r.key \in Key /\ r.amount \in Int
      /\ r.payer \in Consumer /\ r.payee \in Consumer /\ r.payer # r.payee
      /\ TransferOf(r) \in Transfer
  BY <1>0, HolderFacts, RequestParts DEF RecordsInv, ReservedInv, Steps
<1>2. CASE transfers[r.key] # NoRow
  <2>1. UNCHANGED books
    BY <1>0, <1>2 DEF CommitSend, books
  <2> QED BY <2>1, BooksKept
<1>3. CASE transfers[r.key] = NoRow
  <2>1. /\ funds' = Moved(r)
        /\ transfers' = [transfers EXCEPT ![r.key] = TransferOf(r)]
    BY <1>3 DEF CommitSend
  <2>2. /\ transfers'[r.key] = TransferOf(r) /\ TransferOf(r) # NoRow
        /\ transfers'[r.key].amount = r.amount
        /\ transfers'[r.key].payee = r.payee /\ transfers'[r.key].payer = r.payer
        /\ \A k \in Key : k # r.key => transfers'[k] = transfers[k]
    BY <1>1, <2>1, SpendingAssumption DEF RecordsInv, ReservedInv, TypeOK, TransferOf, Transfer
  <2>3. \A c \in Consumer :
          funds'[c] = IF c = r.payer THEN funds[c] - r.amount
                      ELSE IF c = r.payee THEN funds[c] + r.amount ELSE funds[c]
    BY <1>1, <2>1 DEF Moved, RecordsInv, ReservedInv, TypeOK
  <2> HIDE DEF r
  <2>4. Made' = Made \cup {r.key} /\ r.key \notin Made
    BY <1>1, <1>3, <2>2 DEF Made
  <2>5. IsFiniteSet(Made')
    BY <2>4, FS_AddElement DEF RecordsInv
  <2>6. ASSUME NEW keys, Summable(transfers, keys), r.key \notin keys,
               \A k \in keys : transfers'[k].amount = transfers[k].amount
        PROVE  Amounts(transfers', keys \cup {r.key}) = Amounts(transfers, keys) + r.amount
    <3>1. transfers'[r.key].amount \in Int
      BY <1>1, <2>2
    <3>2. Amounts(transfers', keys \cup {r.key}) =
            Amounts(transfers, keys) + transfers'[r.key].amount
      BY <2>6, <3>1, RowAdded
    <3> QED BY <2>2, <3>2
  <2>7. ASSUME NEW c \in Consumer PROVE Explained(c)'
    <3>1. /\ Got(c)' = IF c = r.payee THEN Got(c) \cup {r.key} ELSE Got(c)
          /\ Gave(c)' = IF c = r.payer THEN Gave(c) \cup {r.key} ELSE Gave(c)
          /\ r.key \notin Got(c) /\ r.key \notin Gave(c)
      BY <1>1, <2>2, <2>4 DEF Got, Gave, Made
    <3>2. /\ \A k \in Got(c) : transfers'[k].amount = transfers[k].amount
          /\ \A k \in Gave(c) : transfers'[k].amount = transfers[k].amount
      BY <2>2, <2>4 DEF Got, Gave, Made
    <3>3. Amounts(transfers', Got(c)') =
            Amounts(transfers, Got(c)) + (IF c = r.payee THEN r.amount ELSE 0)
      <4>1. PICK keys : keys = Got(c)
        OBVIOUS
      <4>2. Summable(transfers, keys) /\ r.key \notin keys
        BY <3>1, <4>1, SumParts
      <4>3. \A k \in keys : transfers'[k].amount = transfers[k].amount
        BY <3>2, <4>1
      <4>4. /\ Amounts(transfers', keys \cup {r.key}) = Amounts(transfers, keys) + r.amount
            /\ Amounts(transfers', keys) = Amounts(transfers, keys)
        BY <2>6, <4>2, <4>3, AmountsAgree
      <4>5. Amounts(transfers, keys) \in Int
        BY <4>1, SumParts
      <4> QED BY <3>1, <4>1, <4>4, <4>5
    <3>4. Amounts(transfers', Gave(c)') =
            Amounts(transfers, Gave(c)) + (IF c = r.payer THEN r.amount ELSE 0)
      <4>1. PICK keys : keys = Gave(c)
        OBVIOUS
      <4>2. Summable(transfers, keys) /\ r.key \notin keys
        BY <3>1, <4>1, SumParts
      <4>3. \A k \in keys : transfers'[k].amount = transfers[k].amount
        BY <3>2, <4>1
      <4>4. /\ Amounts(transfers', keys \cup {r.key}) = Amounts(transfers, keys) + r.amount
            /\ Amounts(transfers', keys) = Amounts(transfers, keys)
        BY <2>6, <4>2, <4>3, AmountsAgree
      <4>5. Amounts(transfers, keys) \in Int
        BY <4>1, SumParts
      <4> QED BY <3>1, <4>1, <4>4, <4>5
    <3>5. \A statuses : Reservations(c, statuses)' = Reservations(c, statuses)
      BY <1>0 DEF Reservations
    <3>6. funds[c] = Opening + Amounts(transfers, Got(c)) - Amounts(transfers, Gave(c))
                     - Amounts(holds, Reservations(c, Gone))
      BY DEF RecordsInv, Explained
    <3>7. funds'[c] = Opening + Amounts(transfers', Got(c)') - Amounts(transfers', Gave(c)')
                      - Amounts(holds', Reservations(c, Gone)')
      <4>1. Amounts(holds', Reservations(c, Gone)') = Amounts(holds, Reservations(c, Gone))
        BY <1>0, <3>5
      <4>2. /\ Amounts(transfers, Got(c)) \in Int /\ Amounts(transfers, Gave(c)) \in Int
            /\ Amounts(holds, Reservations(c, Gone)) \in Int /\ Opening \in Int
        BY SumParts, SpendingAssumption
      <4> QED BY <1>1, <2>3, <3>3, <3>4, <3>6, <4>1, <4>2
    <3> QED BY <3>7 DEF Explained
  <2> QED BY <2>5, <2>7
<1> QED BY <1>2, <1>3


\* A reservation takes from the funds what it adds to the sum, or gives it back.
LEMMA HoldRecorded ==
  ASSUME RecordsInv,
         \/ \E w \in Worker : CommitReserve(w)
         \/ \E k \in Key : Release(k) \/ CommitReserved(k)
  PROVE  IsFiniteSet(Made') /\ \A c \in Consumer : Explained(c)'
<1>0. ReservedInv /\ funds \in [Consumer -> Int]
  BY DEF RecordsInv, ReservedInv, TypeOK
<1>1. CASE UNCHANGED books
  BY <1>1, BooksKept
<1>2. ASSUME NEW owner \in Consumer, NEW amount \in Int, UNCHANGED transfers,
             funds' = [funds EXCEPT ![owner] = funds[owner] - amount],
             \A c : Amounts(holds', Reservations(c, Gone)') =
                      Amounts(holds, Reservations(c, Gone)) + (IF c = owner THEN amount ELSE 0)
      PROVE  IsFiniteSet(Made') /\ \A c \in Consumer : Explained(c)'
  <2>1. Made' = Made /\ \A c : Got(c)' = Got(c) /\ Gave(c)' = Gave(c)
    BY <1>2 DEF Got, Gave, Made
  <2>2. ASSUME NEW c \in Consumer PROVE Explained(c)'
    <3>1. funds'[c] = IF c = owner THEN funds[c] - amount ELSE funds[c]
      BY <1>0, <1>2
    <3>2. /\ Amounts(transfers', Got(c)') = Amounts(transfers, Got(c))
          /\ Amounts(transfers', Gave(c)') = Amounts(transfers, Gave(c))
      BY <1>2, <2>1
    <3>3. funds[c] = Opening + Amounts(transfers, Got(c)) - Amounts(transfers, Gave(c))
                     - Amounts(holds, Reservations(c, Gone))
      BY DEF RecordsInv, Explained
    <3>4. /\ Amounts(transfers, Got(c)) \in Int /\ Amounts(transfers, Gave(c)) \in Int
          /\ Amounts(holds, Reservations(c, Gone)) \in Int /\ Opening \in Int
      BY SumParts, SpendingAssumption
    <3>5. Amounts(holds', Reservations(c, Gone)') =
            Amounts(holds, Reservations(c, Gone)) + (IF c = owner THEN amount ELSE 0)
      BY <1>2
    <3> QED BY <1>2, <3>1, <3>2, <3>3, <3>4, <3>5 DEF Explained
  <2> QED BY <2>1, <2>2 DEF RecordsInv
<1>3. ASSUME NEW w \in Worker, CommitReserve(w), ~ UNCHANGED books
      PROVE  IsFiniteSet(Made') /\ \A c \in Consumer : Explained(c)'
  <2> PICK owner \in Consumer, amount \in Int :
        /\ funds' = [funds EXCEPT ![owner] = @ - amount]
        /\ UNCHANGED transfers
        /\ \A c, statuses : "ACTIVE" \in statuses =>
             Amounts(holds', Reservations(c, statuses)') =
               Amounts(holds, Reservations(c, statuses)) + (IF c = owner THEN amount ELSE 0)
    BY <1>0, <1>3, ReserveAdds
  <2>1. funds' = [funds EXCEPT ![owner] = funds[owner] - amount]
    OBVIOUS
  <2>2. \A c : Amounts(holds', Reservations(c, Gone)') =
                 Amounts(holds, Reservations(c, Gone)) + (IF c = owner THEN amount ELSE 0)
    BY DEF Gone
  <2> QED BY <1>2, <2>1, <2>2
<1>4. ASSUME NEW k \in Key, Release(k) \/ CommitReserved(k)
      PROVE  IsFiniteSet(Made') /\ \A c \in Consumer : Explained(c)'
  <2> PICK owner \in Consumer, amount \in Int, ended \in {"RELEASED", "COMMITTED"} :
        /\ funds' = IF ended = "RELEASED" THEN [funds EXCEPT ![owner] = @ + amount] ELSE funds
        /\ UNCHANGED transfers
        /\ \A c, statuses : "ACTIVE" \in statuses =>
             Amounts(holds', Reservations(c, statuses)') =
               Amounts(holds, Reservations(c, statuses))
               - (IF c = owner /\ ended \notin statuses THEN amount ELSE 0)
    BY <1>0, <1>4, SettleTakes
  <2>1. PICK minus \in Int : minus = IF ended = "RELEASED" THEN - amount ELSE 0
    OBVIOUS
  <2>2. funds' = [funds EXCEPT ![owner] = funds[owner] - minus]
    <3>1. funds \in [Consumer -> Int] /\ funds[owner] \in Int
      BY <1>0 DEF RecordsInv, ReservedInv, TypeOK
    <3>2. CASE ended = "RELEASED"
      <4>1. funds[owner] + amount = funds[owner] - minus
        BY <2>1, <3>1, <3>2
      <4> QED BY <3>2, <4>1
    <3>3. CASE ended # "RELEASED"
      <4>1. funds' = funds /\ funds[owner] - minus = funds[owner]
        BY <2>1, <3>1, <3>3
      <4>2. [funds EXCEPT ![owner] = funds[owner]] = funds
        BY <3>1
      <4> QED BY <4>1, <4>2
    <3> QED BY <3>2, <3>3
  <2>3. \A c : Amounts(holds', Reservations(c, Gone)') =
                 Amounts(holds, Reservations(c, Gone)) + (IF c = owner THEN minus ELSE 0)
    <3> TAKE c
    <3>1. Amounts(holds', Reservations(c, Gone)') =
            Amounts(holds, Reservations(c, Gone))
            - (IF c = owner /\ ended = "RELEASED" THEN amount ELSE 0)
      BY DEF Gone
    <3>2. Amounts(holds, Reservations(c, Gone)) \in Int
      BY <1>0, HoldSums
    <3> QED BY <2>1, <3>1, <3>2
  <2> QED BY <1>2, <2>2, <2>3
<1> QED BY <1>1, <1>3, <1>4

LEMMA InitRecords == Init => RecordsInv
<1> SUFFICES ASSUME Init PROVE RecordsInv
  OBVIOUS
<1>1. Made = {} /\ \A c, statuses : Reservations(c, statuses) = {}
  BY DEF Init, Made, Reservations
<1>2. ASSUME NEW c \in Consumer PROVE Explained(c)
  <2>1. Got(c) = {} /\ Gave(c) = {}
    BY <1>1 DEF Got, Gave
  <2>2. funds[c] = Opening /\ Opening \in Int
    BY SpendingAssumption DEF Init
  <2> QED BY <1>1, <2>1, <2>2, NoRowsNoSum DEF Explained
<1> QED BY <1>1, <1>2, FS_EmptySet, InitReserved DEF RecordsInv

LEMMA RecordsNext == WalletRails /\ RecordsInv /\ [Next]_vars => RecordsInv'
<1> SUFFICES ASSUME WalletRails, RecordsInv, [Next]_vars PROVE RecordsInv'
  OBVIOUS
<1>1. ReservedInv'
  BY ReservedNext DEF RecordsInv
<1>2. CASE UNCHANGED books
  BY <1>1, <1>2, BooksKept DEF RecordsInv
<1>3. ASSUME NEW w \in Worker, CommitSend(w) PROVE RecordsInv'
  BY <1>1, <1>3, SendRecorded DEF RecordsInv
<1>4. CASE \/ \E w \in Worker : CommitReserve(w)
           \/ \E k \in Key : Release(k) \/ CommitReserved(k)
  BY <1>1, <1>4, HoldRecorded DEF RecordsInv
<1>5. ASSUME NEW w \in Worker PROVE ~ CommitLink(w) /\ ~ CommitScan(w)
  <2>1. jobs[w].at = "commit" => jobs[w].req.rail \in {"send", "reserve"}
    BY WalletRailsOnly DEF RecordsInv, ReservedInv, Steps
  <2> QED BY <2>1 DEF CommitLink, CommitScan
<1>6. ASSUME NEW w \in Worker,
             (\E r \in Request : Start(w, r)) \/ Quiet(w) \/ Refuse(w) \/ Drop(w)
      PROVE  UNCHANGED books
  BY <1>6 DEF Start, Quiet, Check, Deadline, Lock, LockWallet, LockObject, LockNone,
     Balance, Refuse, Drop
<1>7. CASE (\E o \in Object : Pass(o)) \/ UNCHANGED vars
  BY <1>2, <1>7 DEF Pass, vars, books
<1> QED BY <1>2, <1>3, <1>4, <1>5, <1>6, <1>7 DEF Next, Continue, Commit, Quiet

\* When every rail locks the payer's wallet, the balances of a consumer are what
\* the transfers and the reservations of the tables sum up to, in every state.
THEOREM BalancesMatchTheRecordsHolds == WalletRails => (Spec => []BalancesMatchTheRecords)
<1> SUFFICES ASSUME WalletRails PROVE Spec => []BalancesMatchTheRecords
  OBVIOUS
<1>1. Init => RecordsInv
  BY InitRecords
<1>2. RecordsInv /\ [Next]_vars => RecordsInv'
  BY RecordsNext
<1>3. RecordsInv => BalancesMatchTheRecords
  BY DEF RecordsInv, ReservedInv, Covered, Explained, BalancesMatchTheRecords, Got, Gave,
     Open, Gone
<1> QED BY <1>1, <1>2, <1>3, PTL DEF Spec

=============================================================================
