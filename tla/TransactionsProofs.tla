-------------------------- MODULE TransactionsProofs --------------------------
(***************************************************************************)
(* Theorems about Transactions for every set of payments and handlers,     *)
(* checked by TLAPS.                                                       *)
(***************************************************************************)
EXTENDS Transactions, TLAPS

Running == [at : {"post", "status"}, tx : Tx, to : DOMAIN KindOf]

LEMMA KindsOfStatuses ==
  /\ DOMAIN KindOf = {"AUTHORIZED", "CAPTURED", "REVERSED", "FAILED"}
  /\ KindOf["AUTHORIZED"] = "authorize" /\ KindOf["CAPTURED"] = "capture"
  /\ KindOf["REVERSED"] = "reverse" /\ KindOf["FAILED"] = "failRelease"
BY DEF KindOf

LEMMA JobKinds ==
  ASSUME NEW j \in Job
  PROVE  /\ j # Idle => j \in Running
         /\ j.at \in {"post", "status"} => j \in Running
         /\ j \in Running => /\ j.tx \in Tx
                             /\ j.to \in DOMAIN KindOf
                             /\ j.at \in {"post", "status"}
                             /\ j # Idle
BY DEF Job, Running, Idle

LEMMA TxParts ==
  ASSUME NEW t \in Tx
  PROVE  Owner(t) \in Merchant /\ KeyOf(t) \in Key
BY TransactionsAssumption DEF Owner, KeyOf

\* The statements of a handler, one step at a time.
LEMMA BeginFacts ==
  ASSUME TypeOK, NEW w \in Worker, Call(w)
  PROVE  /\ jobs[w] = Idle
         /\ UNCHANGED <<status, ledger, lost>>
         /\ \E t \in Tx, to \in DOMAIN KindOf, first \in {"post", "status"} :
              /\ <<status[t], to>> \in CanTransition
              /\ disturbed' = IF UnderWay(t) \subseteq {to} THEN disturbed ELSE disturbed \cup {t}
              /\ first = "status" <=> (to = "FAILED" /\ status[t] # "AUTHORIZED")
              /\ jobs' = [jobs EXCEPT ![w] = [at |-> first, tx |-> t, to |-> to]]
<1> PICK t \in Tx : Authorize(w, t) \/ Capture(w, t) \/ Reverse(w, t) \/ Fail(w, t)
  BY DEF Call
<1> USE KindsOfStatuses
<1>1. CASE Authorize(w, t)
  BY <1>1 DEF Authorize, Begin
<1>2. CASE Capture(w, t)
  BY <1>2 DEF Capture, Begin
<1>3. CASE Reverse(w, t)
  BY <1>3 DEF Reverse, Begin
<1>4. CASE Fail(w, t)
  BY <1>4 DEF Fail, Begin
<1> QED BY <1>1, <1>2, <1>3, <1>4

LEMMA NextType == TypeOK /\ [Next]_vars => TypeOK'
<1> SUFFICES ASSUME TypeOK, [Next]_vars PROVE TypeOK'
  OBVIOUS
<1> USE DEF TypeOK
<1>0. Idle \in Job
  BY DEF Job
<1>1. CASE \E t \in Tx : Create(t)
  BY <1>1 DEF Create, Status
<1>2. ASSUME NEW w \in Worker, Call(w) PROVE TypeOK'
  <2> PICK t \in Tx, to \in DOMAIN KindOf, first \in {"post", "status"} :
        /\ jobs' = [jobs EXCEPT ![w] = [at |-> first, tx |-> t, to |-> to]]
        /\ disturbed' = IF UnderWay(t) \subseteq {to} THEN disturbed ELSE disturbed \cup {t}
    BY <1>2, BeginFacts
  <2>1. [at |-> first, tx |-> t, to |-> to] \in Job
    BY DEF Job
  <2> QED BY <1>2, <2>1, BeginFacts
<1>3. ASSUME NEW w \in Worker, PostStep(w) PROVE TypeOK'
  <2>1. /\ jobs[w] \in Running
        /\ jobs[w].tx \in Tx /\ KindOf[jobs[w].to] \in Kinds
    BY <1>3, JobKinds, KindsOfStatuses DEF PostStep, Kinds
  <2>2. ledger' \in [Key -> [Kinds -> Merchant \cup {NoMerchant}]]
    BY <1>3, <2>1, TxParts DEF PostStep
  <2>3. [jobs[w] EXCEPT !.at = "status"] \in Job
    BY <2>1 DEF Running, Job
  <2> QED BY <1>3, <2>2, <2>3 DEF PostStep
<1>4. ASSUME NEW w \in Worker, ReserveRefused(w) PROVE TypeOK'
  BY <1>0, <1>4 DEF ReserveRefused
<1>5. ASSUME NEW w \in Worker, StatusStep(w) PROVE TypeOK'
  <2>1. jobs[w].to \in Status
    BY <1>5, JobKinds, KindsOfStatuses DEF StatusStep, Status
  <2> QED BY <1>0, <1>5, <2>1 DEF StatusStep
<1>6. ASSUME NEW w \in Worker, Drop(w) PROVE TypeOK'
  <2>1. jobs[w].tx \in Tx
    BY <1>6, JobKinds DEF Drop, Running
  <2> QED BY <1>0, <1>6, <2>1 DEF Drop
<1>7. CASE UNCHANGED vars
  BY <1>7 DEF vars
<1> QED BY <1>1, <1>2, <1>3, <1>4, <1>5, <1>6, <1>7 DEF Next, Continue

LEMMA InitType == Init => TypeOK
BY TransactionsAssumption DEF Init, TypeOK, Status, Job

\* Every row, posting and handler keeps its type.
THEOREM TypeCorrect == Spec => []TypeOK
BY InitType, NextType, PTL DEF Spec

-----------------------------------------------------------------------------
(* Payments whose keys are their own: a status is backed by the posting of  *)
(* its payment, in any interleaving and after any drop.                     *)

UniqueKeys == \A s, t \in Tx : KeyOf(s) = KeyOf(t) => s = t

\* Only a payment's own wallet is moved under its key.
LedgerOwned ==
  \A t \in Tx, kind \in Kinds : ledger[KeyOf(t)][kind] \in {NoMerchant, Owner(t)}

\* What a handler was told by the row it read is still backed.
HandlerBacked(w) ==
  LET j == jobs[w] IN
  /\ j.at = "post" /\ j.to # "AUTHORIZED" => Posted(j.tx, "authorize")
  /\ j.at = "status" /\ j.to # "FAILED" =>
       Posted(j.tx, "authorize") /\ Posted(j.tx, KindOf[j.to])

BackedInv ==
  /\ TypeOK
  /\ LedgerOwned
  /\ StatusIsBacked
  /\ DebitsOnlyWhatWasReserved
  /\ \A w \in Worker : HandlerBacked(w)

\* What a posting does to the books of every payment.
LEMMA PostFacts ==
  ASSUME UniqueKeys, TypeOK, LedgerOwned, NEW w \in Worker, PostStep(w)
  PROVE  /\ jobs[w] \in Running /\ jobs[w].at = "post"
         /\ \A t \in Tx, kind \in Kinds :
              Posted(t, kind)' <=> \/ Posted(t, kind)
                                   \/ t = jobs[w].tx /\ kind = KindOf[jobs[w].to]
         /\ LedgerOwned'
         /\ \A v \in Worker : jobs'[v] = IF v = w THEN [jobs[w] EXCEPT !.at = "status"]
                                         ELSE jobs[v]
         /\ [jobs[w] EXCEPT !.at = "status"].at = "status"
         /\ [jobs[w] EXCEPT !.at = "status"].tx = jobs[w].tx
         /\ [jobs[w] EXCEPT !.at = "status"].to = jobs[w].to
<1> DEFINE s == jobs[w].tx
           done == KindOf[jobs[w].to]
<1>1. jobs[w] \in Running /\ jobs[w].at = "post"
  BY JobKinds DEF PostStep, TypeOK
<1>2. s \in Tx /\ done \in Kinds /\ KeyOf(s) \in Key
  BY <1>1, TxParts, KindsOfStatuses DEF Running, Kinds
<1>3. \A k \in Key, kind \in Kinds :
        ledger'[k][kind] = IF k = KeyOf(s) /\ kind = done
                             THEN IF ledger[k][kind] = NoMerchant THEN Owner(s)
                                  ELSE ledger[k][kind]
                             ELSE ledger[k][kind]
  BY <1>2 DEF PostStep, TypeOK
<1>4. Owner(s) # NoMerchant
  BY <1>2, TxParts, TransactionsAssumption
<1>5. \A t \in Tx, kind \in Kinds :
        Posted(t, kind)' <=> Posted(t, kind) \/ (t = s /\ kind = done)
  <2> SUFFICES ASSUME NEW t \in Tx, NEW kind \in Kinds
               PROVE  Posted(t, kind)' <=> Posted(t, kind) \/ (t = s /\ kind = done)
    OBVIOUS
  <2>1. KeyOf(t) \in Key
    BY TxParts
  <2>2. KeyOf(t) = KeyOf(s) <=> t = s
    BY <1>2 DEF UniqueKeys
  <2>3. ledger[KeyOf(t)][kind] \in {NoMerchant, Owner(t)}
    BY DEF LedgerOwned
  <2> QED BY <1>3, <1>4, <2>1, <2>2, <2>3 DEF Posted
<1>6. LedgerOwned'
  <2> SUFFICES ASSUME NEW t \in Tx, NEW kind \in Kinds
               PROVE  ledger'[KeyOf(t)][kind] \in {NoMerchant, Owner(t)}
    BY DEF LedgerOwned
  <2>1. KeyOf(t) \in Key
    BY TxParts
  <2>2. KeyOf(t) = KeyOf(s) <=> t = s
    BY <1>2 DEF UniqueKeys
  <2>3. ledger[KeyOf(t)][kind] \in {NoMerchant, Owner(t)}
    BY DEF LedgerOwned
  <2> QED BY <1>3, <2>1, <2>2, <2>3
<1>7. \A v \in Worker : jobs'[v] = IF v = w THEN [jobs[w] EXCEPT !.at = "status"]
                                   ELSE jobs[v]
  BY DEF PostStep, TypeOK
<1>8. /\ [jobs[w] EXCEPT !.at = "status"].at = "status"
      /\ [jobs[w] EXCEPT !.at = "status"].tx = jobs[w].tx
      /\ [jobs[w] EXCEPT !.at = "status"].to = jobs[w].to
  BY <1>1 DEF Running
<1> QED BY <1>1, <1>5, <1>6, <1>7, <1>8

LEMMA BackedInit == Init => BackedInv
<1> SUFFICES ASSUME Init PROVE BackedInv
  OBVIOUS
<1>1. \A t \in Tx, kind \in Kinds : ledger[KeyOf(t)][kind] = NoMerchant
  BY TxParts DEF Init
<1>2. \A t \in Tx, kind \in Kinds : ~ Posted(t, kind)
  BY <1>1, TxParts, TransactionsAssumption DEF Posted
<1>3. StatusIsBacked /\ DebitsOnlyWhatWasReserved
  BY <1>2 DEF Init, StatusIsBacked, DebitsOnlyWhatWasReserved
<1>4. \A w \in Worker : HandlerBacked(w)
  BY DEF Init, HandlerBacked, Idle
<1> QED BY <1>1, <1>3, <1>4, InitType DEF BackedInv, LedgerOwned

\* Steps that post nothing: the ledger, and so every Posted, is as it was.
LEMMA BackedNext == UniqueKeys /\ BackedInv /\ [Next]_vars => BackedInv'
<1> SUFFICES ASSUME UniqueKeys, BackedInv, [Next]_vars PROVE BackedInv'
  OBVIOUS
<1> USE DEF BackedInv
<1>a. TypeOK'
  BY NextType
<1>b. ASSUME ledger' = ledger
      PROVE  /\ LedgerOwned' /\ DebitsOnlyWhatWasReserved'
             /\ \A t \in Tx, kind \in Kinds : Posted(t, kind)' <=> Posted(t, kind)
  BY <1>b DEF LedgerOwned, DebitsOnlyWhatWasReserved, Posted
<1>c. Idle.at = "idle"
  BY DEF Idle
<1>d. Kinds = {"authorize", "capture", "reverse", "failRelease"}
  BY DEF Kinds
<1>1. CASE \E t \in Tx : Create(t)
  <2>1. ledger' = ledger /\ jobs' = jobs
    BY <1>1 DEF Create
  <2>2. \A t \in Tx : status'[t] = status[t] \/ status'[t] = "PENDING"
    BY <1>1 DEF Create, TypeOK
  <2>3. StatusIsBacked'
    BY <2>1, <2>2 DEF StatusIsBacked, Posted
  <2>4. \A w \in Worker : HandlerBacked(w)'
    BY <2>1 DEF HandlerBacked, Posted
  <2> QED BY <1>a, <1>b, <2>1, <2>3, <2>4
<1>2. ASSUME NEW w \in Worker, Call(w) PROVE BackedInv'
  <2> PICK t \in Tx, to \in DOMAIN KindOf, first \in {"post", "status"} :
        /\ <<status[t], to>> \in CanTransition
        /\ first = "status" <=> (to = "FAILED" /\ status[t] # "AUTHORIZED")
        /\ jobs' = [jobs EXCEPT ![w] = [at |-> first, tx |-> t, to |-> to]]
    BY <1>2, BeginFacts
  <2>1. UNCHANGED <<status, ledger>>
    BY <1>2, BeginFacts
  <2>2. StatusIsBacked'
    BY <2>1 DEF StatusIsBacked, Posted
  <2>3. \A v \in Worker :
          jobs'[v] = IF v = w THEN [at |-> first, tx |-> t, to |-> to] ELSE jobs[v]
    BY DEF TypeOK
  <2>4. HandlerBacked(w)'
    <3>1. first = "post" /\ to # "AUTHORIZED" => Posted(t, "authorize")
      BY DEF CanTransition, StatusIsBacked
    <3>2. first = "status" => to = "FAILED"
      OBVIOUS
    <3> QED BY <3>1, <3>2, <2>1, <2>3 DEF HandlerBacked, Posted
  <2>5. \A v \in Worker : v # w => HandlerBacked(v)'
    BY <2>1, <2>3 DEF HandlerBacked, Posted
  <2> QED BY <1>a, <1>b, <2>1, <2>2, <2>4, <2>5
<1>3. ASSUME NEW w \in Worker, PostStep(w) PROVE BackedInv'
  <2> DEFINE s == jobs[w].tx
             done == KindOf[jobs[w].to]
  <2>1. /\ jobs[w] \in Running /\ jobs[w].at = "post"
        /\ s \in Tx /\ jobs[w].to \in DOMAIN KindOf /\ done \in Kinds
    BY <1>3, PostFacts, KindsOfStatuses, <1>d DEF Running
  <2>2. \A t \in Tx, kind \in Kinds :
          Posted(t, kind)' <=> Posted(t, kind) \/ (t = s /\ kind = done)
    BY <1>3, PostFacts
  <2>3. StatusIsBacked'
    BY <1>3, <1>d, <2>2 DEF PostStep, StatusIsBacked
  <2>4. jobs[w].to # "AUTHORIZED" => Posted(s, "authorize")
    BY <2>1 DEF HandlerBacked
  <2>5. done # "authorize" => Posted(s, "authorize")
    BY <2>1, <2>4, KindsOfStatuses
  <2>6. DebitsOnlyWhatWasReserved'
    BY <1>d, <2>2, <2>5 DEF DebitsOnlyWhatWasReserved
  <2>7. ASSUME NEW t \in Tx, NEW kind \in Kinds, t = s, kind \in {done, "authorize"}
        PROVE  Posted(t, kind)'
    BY <2>2, <2>5, <2>7
  <2>8. ASSUME NEW v \in Worker PROVE HandlerBacked(v)'
    <3>1. CASE v = w
      <4>3. jobs'[v] = [jobs[w] EXCEPT !.at = "status"]
        BY <1>3, <1>d, <3>1 DEF PostStep, TypeOK
      <4>1. jobs'[v].at = "status" /\ jobs'[v].tx = s /\ jobs'[v].to = jobs[w].to
        BY <2>1, <4>3 DEF Running
      <4> PICK t \in Tx, to \in DOMAIN KindOf : t = s /\ to = jobs[w].to
        BY <2>1
      <4>2. Posted(t, "authorize")' /\ Posted(t, KindOf[to])'
        BY <1>d, <2>1, <2>7
      <4> QED BY <4>1, <4>2 DEF HandlerBacked, Posted
    <3>2. CASE v # w
      <4>1. jobs'[v] = jobs[v]
        BY <1>3, <1>d, <3>2 DEF PostStep, TypeOK
      <4>2. jobs[v].at \in {"post", "status"} =>
              jobs[v].tx \in Tx /\ KindOf[jobs[v].to] \in Kinds
        BY JobKinds, KindsOfStatuses, <1>d DEF TypeOK
      <4>3. HandlerBacked(v)
        OBVIOUS
      <4> QED BY <1>d, <2>2, <4>1, <4>2, <4>3 DEF HandlerBacked
    <3> QED BY <3>1, <3>2
  <2> QED BY <1>3, <1>a, <2>3, <2>6, <2>8, PostFacts
<1>4. ASSUME NEW w \in Worker, ReserveRefused(w) \/ Drop(w) PROVE BackedInv'
  <2>1. /\ UNCHANGED <<status, ledger>>
        /\ \A v \in Worker : jobs'[v] = IF v = w THEN Idle ELSE jobs[v]
    BY <1>4 DEF ReserveRefused, Drop, TypeOK
  <2> QED BY <1>a, <1>b, <1>c, <2>1 DEF StatusIsBacked, HandlerBacked, Posted
<1>5. ASSUME NEW w \in Worker, StatusStep(w) PROVE BackedInv'
  <2>1. /\ UNCHANGED ledger
        /\ \A v \in Worker : jobs'[v] = IF v = w THEN Idle ELSE jobs[v]
        /\ \A t \in Tx : status'[t] = IF t = jobs[w].tx THEN jobs[w].to ELSE status[t]
    BY <1>5 DEF StatusStep, TypeOK
  <2>2. jobs[w].to # "FAILED" =>
          Posted(jobs[w].tx, "authorize") /\ Posted(jobs[w].tx, KindOf[jobs[w].to])
    BY <1>5 DEF StatusStep, HandlerBacked
  <2>3. StatusIsBacked'
    BY <2>1, <2>2, KindsOfStatuses DEF StatusIsBacked, Posted
  <2> QED BY <1>a, <1>b, <1>c, <2>1, <2>3 DEF HandlerBacked, Posted
<1>6. CASE UNCHANGED vars
  BY <1>6, <1>a, <1>b DEF vars, StatusIsBacked, HandlerBacked, Posted
<1> QED BY <1>1, <1>2, <1>3, <1>4, <1>5, <1>6 DEF Next, Continue

LEMMA BackedHolds == UniqueKeys => (Spec => []BackedInv)
<1> SUFFICES ASSUME UniqueKeys PROVE Spec => []BackedInv
  OBVIOUS
<1>1. BackedInv /\ [Next]_vars => BackedInv'
  BY BackedNext
<1> QED BY <1>1, BackedInit, PTL DEF Spec

\* When keys are not shared, a status that says money moved is backed by the
\* posting that moved it in the payment's own wallet, however many handlers run
\* and wherever they are dropped.
THEOREM StatusIsBackedHolds == UniqueKeys => (Spec => []StatusIsBacked)
BY BackedHolds, PTL DEF BackedInv

\* When keys are not shared, the reserved account is debited for a payment only
\* after it was credited for it.
THEOREM DebitsOnlyWhatWasReservedHolds ==
  UniqueKeys => (Spec => []DebitsOnlyWhatWasReserved)
BY BackedHolds, PTL DEF BackedInv

-----------------------------------------------------------------------------
(* Payments on which no call met a different one under way: everybody at    *)
(* work on such a payment takes it to the same status, and what a lost      *)
(* handler left is there for the same call to finish.                       *)

Agreed(t) ==
  /\ \A v, w \in On(t) : jobs[v].to = jobs[w].to
  /\ \A w \in On(t) : jobs[w].to = status[t] \/ <<status[t], jobs[w].to>> \in CanTransition

\* A handler that fails an authorized payment gives the reservation back first.
FailsInOrder(t) ==
  \A w \in On(t) : jobs[w].to = "FAILED" =>
    /\ jobs[w].at = "post" => status[t] # "PENDING"
    /\ jobs[w].at = "status" /\ status[t] = "AUTHORIZED" => Posted(t, "failRelease")

Unended(t) == \A a \in Endings : ~ Posted(t, a)

\* What is in the books has its status, or everybody at work is on the way to it.
Accounted(t) ==
  /\ \A a, b \in Endings : Posted(t, a) /\ Posted(t, b) => a = b
  /\ \A a \in Endings : Posted(t, a) =>
       \/ status[t] = Records[a]
       \/ status[t] = "AUTHORIZED" /\ \A w \in On(t) : jobs[w].to = Records[a]
  /\ Posted(t, "authorize") /\ Unended(t) =>
       \/ status[t] = "AUTHORIZED"
       \/ status[t] = "PENDING" /\ \A w \in On(t) : jobs[w].to = "AUTHORIZED"

Calm(t) == Agreed(t) /\ FailsInOrder(t) /\ Accounted(t)

CalmInv == BackedInv /\ \A t \in Tx \ disturbed : Calm(t)

LEMMA EndingKinds ==
  /\ Endings = {"capture", "reverse", "failRelease"}
  /\ Endings \subseteq Kinds /\ "authorize" \in Kinds
  /\ Records["capture"] = "CAPTURED" /\ Records["reverse"] = "REVERSED"
  /\ Records["failRelease"] = "FAILED"
BY DEF Endings, Kinds, Records

\* A step of a handler at work on s is not seen by another payment.
LEMMA Elsewhere ==
  ASSUME TypeOK, NEW w \in Worker, NEW s \in Tx, NEW t \in Tx, t # s,
         jobs[w] # Idle => jobs[w].tx = s,
         jobs'[w] # Idle => jobs'[w].tx = s,
         \A v \in Worker : v # w => jobs'[v] = jobs[v],
         status'[t] = status[t],
         \A kind \in Kinds : Posted(t, kind)' <=> Posted(t, kind),
         Calm(t)
  PROVE  Calm(t)'
<1>1. On(t)' = On(t) /\ \A v \in On(t) : jobs'[v] = jobs[v]
  BY DEF On
<1>2. Agreed(t)'
  BY <1>1 DEF Calm, Agreed
<1>3. FailsInOrder(t)'
  BY <1>1 DEF Calm, FailsInOrder, Kinds
<1>4. Accounted(t)'
  BY <1>1, EndingKinds DEF Calm, Accounted, Unended
<1> QED BY <1>2, <1>3, <1>4 DEF Calm

\* A handler that ends leaves what is said of its payment true.
LEMMA Fewer ==
  ASSUME TypeOK, NEW t \in Tx, Calm(t), On(t)' \subseteq On(t),
         \A v \in On(t)' : jobs'[v] = jobs[v],
         status'[t] = status[t], ledger' = ledger
  PROVE  Calm(t)'
<1>1. \A kind : Posted(t, kind)' <=> Posted(t, kind)
  BY DEF Posted
<1>2. Agreed(t)'
  BY DEF Calm, Agreed
<1>3. FailsInOrder(t)'
  BY <1>1 DEF Calm, FailsInOrder
<1>4. Accounted(t)'
  BY <1>1 DEF Calm, Accounted, Unended
<1> QED BY <1>2, <1>3, <1>4 DEF Calm

LEMMA CalmInit == Init => CalmInv
<1> SUFFICES ASSUME Init, NEW t \in Tx PROVE Calm(t)
  BY BackedInit DEF CalmInv
<1>1. On(t) = {}
  BY DEF Init, On
<1>2. \A kind \in Kinds : ~ Posted(t, kind)
  BY TxParts, TransactionsAssumption DEF Init, Posted
<1> QED BY <1>1, <1>2, EndingKinds DEF Calm, Agreed, FailsInOrder, Accounted

LEMMA CalmAfterCall ==
  ASSUME CalmInv, NEW w \in Worker, Call(w)
  PROVE  \A t \in Tx \ disturbed' : Calm(t)'
<1> USE DEF CalmInv, BackedInv
<1> PICK s \in Tx, to \in DOMAIN KindOf, first \in {"post", "status"} :
      /\ <<status[s], to>> \in CanTransition
      /\ disturbed' = IF UnderWay(s) \subseteq {to} THEN disturbed ELSE disturbed \cup {s}
      /\ first = "status" <=> (to = "FAILED" /\ status[s] # "AUTHORIZED")
      /\ jobs' = [jobs EXCEPT ![w] = [at |-> first, tx |-> s, to |-> to]]
  BY BeginFacts
<1>1. jobs[w] = Idle /\ status' = status /\ ledger' = ledger
  BY BeginFacts
<1>2. /\ jobs'[w] = [at |-> first, tx |-> s, to |-> to]
      /\ \A v \in Worker : v # w => jobs'[v] = jobs[v]
  BY DEF TypeOK
<1>3. \A t, kind : Posted(t, kind)' <=> Posted(t, kind)
  BY <1>1 DEF Posted
<1> SUFFICES ASSUME NEW t \in Tx, t \notin disturbed' PROVE Calm(t)'
  OBVIOUS
<1>4. Calm(t)
  OBVIOUS
<1>5. CASE t # s
  BY <1>1, <1>2, <1>3, <1>4, <1>5, Elsewhere
<1>6. CASE t = s
  <2>1. UnderWay(s) \subseteq {to}
    BY <1>6
  <2>2. On(s)' = On(s) \cup {w} /\ w \notin On(s) /\ \A v \in On(s) : jobs'[v] = jobs[v]
    BY <1>1, <1>2 DEF On, Idle
  <2>3. \A v \in On(s) : jobs[v].to = to
    <3> SUFFICES ASSUME NEW v \in On(s) PROVE jobs[v].to \in UnderWay(s)
      BY <2>1
    <3>1. jobs[v].to \in DOMAIN KindOf
      BY JobKinds DEF On, TypeOK
    <3> QED BY <3>1 DEF UnderWay
  <2>4. jobs'[w].to = to /\ jobs'[w].at = first
    BY <1>2
  <2>5. \A v \in On(s)' : jobs'[v].to = to
    BY <2>2, <2>3, <2>4
  <2>6. \A x \in DOMAIN KindOf :
          Posted(s, KindOf[x]) /\ <<status[s], x>> \in CanTransition => x = to
    BY <2>1 DEF UnderWay
  <2>7. Agreed(s)'
    BY <1>1, <2>5 DEF Agreed
  <2>8. FailsInOrder(s)'
    <3> SUFFICES ASSUME NEW v \in On(s)', jobs'[v].to = "FAILED"
                 PROVE  /\ jobs'[v].at = "post" => status[s] # "PENDING"
                        /\ jobs'[v].at = "status" /\ status[s] = "AUTHORIZED" =>
                             Posted(s, "failRelease")
      BY <1>1, <1>3 DEF FailsInOrder
    <3>1. CASE v = w
      BY <2>4, <3>1
    <3>2. CASE v # w
      BY <1>4, <1>6, <2>2, <3>2 DEF Calm, FailsInOrder
    <3> QED BY <3>1, <3>2
  <2>9. Accounted(s)'
    <3>1. ASSUME NEW a \in Endings, Posted(s, a), status[s] = "AUTHORIZED"
          PROVE  to = Records[a]
      <4>1. <<status[s], Records[a]>> \in CanTransition /\ Records[a] \in DOMAIN KindOf
            /\ KindOf[Records[a]] = a
        BY <3>1, EndingKinds, KindsOfStatuses DEF CanTransition
      <4> QED BY <2>6, <3>1, <4>1
    <3>2. status[s] = "PENDING" /\ Posted(s, "authorize") => to = "AUTHORIZED"
      BY <2>6, KindsOfStatuses DEF CanTransition
    <3> QED BY <1>1, <1>3, <1>4, <1>6, <2>5, <3>1, <3>2 DEF Calm, Accounted, Unended
  <2> QED BY <1>6, <2>7, <2>8, <2>9 DEF Calm
<1> QED BY <1>5, <1>6

LEMMA CalmAfterPost ==
  ASSUME UniqueKeys, CalmInv, NEW w \in Worker, PostStep(w)
  PROVE  \A t \in Tx \ disturbed' : Calm(t)'
<1> USE DEF CalmInv, BackedInv
<1>0. disturbed' = disturbed /\ status' = status
  BY DEF PostStep
<1>1. /\ jobs[w] \in Running /\ jobs[w].at = "post" /\ jobs[w] # Idle
      /\ jobs[w].tx \in Tx /\ jobs[w].to \in DOMAIN KindOf
  BY PostFacts, JobKinds DEF TypeOK
<1> PICK s \in Tx, to \in DOMAIN KindOf : s = jobs[w].tx /\ to = jobs[w].to
  BY <1>1
<1>a. \A v \in Worker : jobs'[v] = IF v = w THEN [jobs[w] EXCEPT !.at = "status"]
                                   ELSE jobs[v]
  BY PostFacts DEF PostStep
<1>2. /\ jobs'[w].at = "status" /\ jobs'[w].tx = s /\ jobs'[w].to = to /\ jobs'[w] # Idle
      /\ \A v \in Worker : v # w => jobs'[v] = jobs[v]
  BY <1>1, <1>a DEF Running, Idle
<1>3. \A t \in Tx, kind \in Kinds :
        Posted(t, kind)' <=> Posted(t, kind) \/ (t = s /\ kind = KindOf[to])
  BY PostFacts
<1> SUFFICES ASSUME NEW t \in Tx, t \notin disturbed' PROVE Calm(t)'
  OBVIOUS
<1>4. Calm(t)
  BY <1>0
<1>5. CASE t # s
  BY <1>0, <1>1, <1>2, <1>3, <1>4, <1>5, Elsewhere
<1>6. CASE t = s
  <2>1. /\ w \in On(s) /\ On(s)' = On(s)
        /\ \A v \in On(s) : jobs'[v].to = jobs[v].to
        /\ \A v \in On(s) : v # w => jobs'[v] = jobs[v]
    BY <1>1, <1>2 DEF On
  <2>2. Agreed(s)'
    BY <1>0, <1>4, <1>6, <2>1 DEF Calm, Agreed
  <2>3. \A v \in On(s) : jobs[v].to = to
    BY <1>4, <1>6, <2>1 DEF Calm, Agreed
  <2>4. to = status[s] \/ <<status[s], to>> \in CanTransition
    BY <1>4, <1>6, <2>1 DEF Calm, Agreed
  <2>5. to = "FAILED" => status[s] # "PENDING"
    BY <1>1, <1>4, <1>6, <2>1 DEF Calm, FailsInOrder
  <2>6. FailsInOrder(s)'
    <3> SUFFICES ASSUME NEW v \in On(s), jobs'[v].to = "FAILED"
                 PROVE  /\ jobs'[v].at = "post" => status[s] # "PENDING"
                        /\ jobs'[v].at = "status" /\ status[s] = "AUTHORIZED" =>
                             Posted(s, "failRelease")'
      BY <1>0, <2>1 DEF FailsInOrder
    <3>1. to = "FAILED"
      BY <2>1, <2>3
    <3>2. Posted(s, "failRelease")'
      BY <1>3, <3>1, KindsOfStatuses, EndingKinds
    <3>3. status[s] # "PENDING"
      BY <2>5, <3>1
    <3> QED BY <3>2, <3>3
  <2>7. CASE to = "AUTHORIZED"
    <3>1. \A a \in Endings : Posted(s, a)' <=> Posted(s, a)
      BY <1>3, <2>7, KindsOfStatuses, EndingKinds
    <3>2. status[s] \in {"PENDING", "AUTHORIZED"}
      BY <2>4, <2>7 DEF CanTransition
    <3>3. Accounted(s)'
      BY <1>0, <1>4, <1>6, <2>1, <2>3, <2>7, <3>1, <3>2 DEF Calm, Accounted, Unended
    <3> QED BY <1>6, <2>2, <2>6, <3>3 DEF Calm
  <2>8. CASE to # "AUTHORIZED"
    <3> DEFINE done == KindOf[to]
    <3>1. done \in Endings /\ Records[done] = to
      BY <2>8, KindsOfStatuses, EndingKinds
    <3>2. status[s] \in {to, "AUTHORIZED"}
      BY <2>4, <2>5, <2>8, KindsOfStatuses DEF CanTransition
    <3>3. \A a \in Endings : Posted(s, a) => a = done
      <4> SUFFICES ASSUME NEW a \in Endings, Posted(s, a) PROVE Records[a] = to
        BY <3>1, EndingKinds
      <4>1. status[s] = Records[a] \/ (status[s] = "AUTHORIZED" /\ to = Records[a])
        BY <1>4, <1>6, <2>1, <2>3 DEF Calm, Accounted
      <4>2. Records[a] # "AUTHORIZED"
        BY EndingKinds
      <4> QED BY <3>2, <4>1, <4>2
    <3>4. \A a \in Endings : Posted(s, a)' => a = done
      BY <1>3, <3>3, EndingKinds
    <3>5. Posted(s, done)'
      BY <1>3, <3>1, EndingKinds
    <3>6. Accounted(s)'
      BY <1>0, <2>1, <2>3, <3>1, <3>2, <3>4, <3>5 DEF Accounted, Unended
    <3> QED BY <1>6, <2>2, <2>6, <3>6 DEF Calm
  <2> QED BY <2>7, <2>8
<1> QED BY <1>5, <1>6

\* A handler of an undisturbed payment writes a status the row has or may take,
\* and one that its posting has earned.
LEMMA StatusFacts ==
  ASSUME CalmInv, NEW w \in Worker, StatusStep(w), jobs[w].tx \notin disturbed
  PROVE  /\ jobs[w].tx \in Tx /\ w \in On(jobs[w].tx)
         /\ jobs[w].to = status[jobs[w].tx] \/ <<status[jobs[w].tx], jobs[w].to>> \in CanTransition
         /\ \A v \in On(jobs[w].tx) : jobs[v].to = jobs[w].to
         /\ jobs[w].to \in {"AUTHORIZED", "CAPTURED", "REVERSED", "FAILED"}
<1> USE DEF CalmInv, BackedInv
<1>1. /\ jobs[w] # Idle /\ jobs[w].tx \in Tx
      /\ jobs[w].to \in {"AUTHORIZED", "CAPTURED", "REVERSED", "FAILED"}
  BY JobKinds, KindsOfStatuses DEF StatusStep, TypeOK
<1>2. w \in On(jobs[w].tx) /\ Calm(jobs[w].tx)
  BY <1>1 DEF On
<1> QED BY <1>1, <1>2 DEF Calm, Agreed

LEMMA CalmAfterStatus ==
  ASSUME CalmInv, NEW w \in Worker, StatusStep(w)
  PROVE  \A t \in Tx \ disturbed' : Calm(t)'
<1> USE DEF CalmInv, BackedInv
<1>0. disturbed' = disturbed /\ ledger' = ledger
  BY DEF StatusStep
<1>1. jobs[w].at = "status" /\ jobs[w] # Idle /\ jobs[w].tx \in Tx
  BY JobKinds DEF StatusStep, TypeOK
<1> PICK s \in Tx : s = jobs[w].tx
  BY <1>1
<1> DEFINE to == jobs[w].to
<1>2. /\ jobs'[w] = Idle /\ \A v \in Worker : v # w => jobs'[v] = jobs[v]
      /\ \A t \in Tx : status'[t] = IF t = s THEN to ELSE status[t]
  BY <1>1 DEF StatusStep, TypeOK
<1>3. \A t, kind : Posted(t, kind)' <=> Posted(t, kind)
  BY <1>0 DEF Posted
<1> SUFFICES ASSUME NEW t \in Tx, t \notin disturbed' PROVE Calm(t)'
  OBVIOUS
<1>4. Calm(t)
  BY <1>0
<1>5. CASE t # s
  BY <1>1, <1>2, <1>3, <1>4, <1>5, Elsewhere
<1>6. CASE t = s
  <2>1. /\ to = status[s] \/ <<status[s], to>> \in CanTransition
        /\ \A v \in On(s) : jobs[v].to = to
        /\ to \in {"AUTHORIZED", "CAPTURED", "REVERSED", "FAILED"}
        /\ w \in On(s)
    BY <1>0, <1>6, StatusFacts
  <2>2. On(s)' \subseteq On(s) /\ \A v \in On(s)' : jobs'[v] = jobs[v]
    BY <1>2 DEF On
  <2>3. status'[s] = to
    BY <1>2
  <2>4. Agreed(s)'
    BY <2>1, <2>2, <2>3 DEF Agreed
  <2>5. FailsInOrder(s)'
    BY <2>1, <2>2, <2>3 DEF FailsInOrder
  <2>6. ASSUME NEW a \in Endings, Posted(s, a) PROVE to = Records[a]
    <3>1. status[s] = Records[a] \/ (status[s] = "AUTHORIZED" /\ to = Records[a])
      BY <1>4, <1>6, <2>1, <2>6 DEF Calm, Accounted
    <3>2. status[s] = Records[a] => to = status[s]
      BY <2>1, EndingKinds DEF CanTransition
    <3> QED BY <3>1, <3>2
  <2>7. ASSUME Posted(s, "authorize"), Unended(s) PROVE to = "AUTHORIZED"
    <3>1. status[s] = "AUTHORIZED" \/ (status[s] = "PENDING" /\ to = "AUTHORIZED")
      BY <1>4, <1>6, <2>1, <2>7 DEF Calm, Accounted
    <3>2. to # "FAILED" => Posted(s, KindOf[to])
      BY <1>1 DEF HandlerBacked
    <3>3. to = "FAILED" /\ status[s] = "AUTHORIZED" => Posted(s, "failRelease")
      BY <1>1, <1>4, <1>6, <2>1 DEF Calm, FailsInOrder
    <3> QED BY <2>1, <2>7, <3>1, <3>2, <3>3, KindsOfStatuses, EndingKinds DEF Unended
  <2>8. Accounted(s)'
    BY <1>3, <1>4, <1>6, <2>3, <2>6, <2>7 DEF Calm, Accounted, Unended
  <2> QED BY <1>6, <2>4, <2>5, <2>8 DEF Calm
<1> QED BY <1>5, <1>6

LEMMA CalmNext == UniqueKeys /\ CalmInv /\ [Next]_vars => CalmInv'
<1> SUFFICES ASSUME UniqueKeys, CalmInv, [Next]_vars PROVE CalmInv'
  OBVIOUS
<1>a. BackedInv'
  BY BackedNext DEF CalmInv
<1>1. CASE \E s \in Tx : Create(s)
  <2> USE DEF CalmInv, BackedInv
  <2> PICK s \in Tx : Create(s)
    BY <1>1
  <2>1. /\ ledger' = ledger /\ jobs' = jobs /\ disturbed' = disturbed /\ status[s] = "NONE"
        /\ \A t \in Tx : status'[t] = IF t = s THEN "PENDING" ELSE status[t]
    BY DEF Create, TypeOK
  <2>2. \A t : On(t)' = On(t) /\ \A kind : Posted(t, kind)' <=> Posted(t, kind)
    BY <2>1 DEF On, Posted
  <2> SUFFICES ASSUME NEW t \in Tx, t \notin disturbed PROVE Calm(t)'
    BY <1>a, <2>1
  <2>3. Calm(t)
    OBVIOUS
  <2>4. CASE t = s
    <3>1. On(s) = {}
      <4> SUFFICES ASSUME NEW w \in On(s) PROVE FALSE
        OBVIOUS
      <4>1. jobs[w].to \in {"AUTHORIZED", "CAPTURED", "REVERSED", "FAILED"}
        BY JobKinds, KindsOfStatuses DEF On, TypeOK
      <4> QED BY <2>1, <2>3, <2>4, <4>1 DEF Calm, Agreed, CanTransition
    <3>2. \A a \in Endings : ~ Posted(s, a)
      BY <2>1, <2>3, <2>4, EndingKinds DEF Calm, Accounted
    <3>3. ~ Posted(s, "authorize")
      BY <2>1, <2>3, <2>4, <3>2 DEF Calm, Accounted, Unended
    <3> QED BY <2>2, <2>4, <3>1, <3>2, <3>3
            DEF Calm, Agreed, FailsInOrder, Accounted, Unended
  <2>5. CASE t # s
    BY <2>1, <2>2, <2>3, <2>5, Fewer
  <2> QED BY <2>4, <2>5
<1>2. ASSUME NEW w \in Worker, Call(w) PROVE CalmInv'
  BY <1>a, <1>2, CalmAfterCall DEF CalmInv
<1>3. ASSUME NEW w \in Worker, PostStep(w) PROVE CalmInv'
  BY <1>a, <1>3, CalmAfterPost DEF CalmInv
<1>4. ASSUME NEW w \in Worker, ReserveRefused(w) \/ Drop(w) PROVE CalmInv'
  <2> USE DEF CalmInv, BackedInv
  <2>1. /\ UNCHANGED <<status, ledger, disturbed>>
        /\ \A v \in Worker : jobs'[v] = IF v = w THEN Idle ELSE jobs[v]
    BY <1>4 DEF ReserveRefused, Drop, TypeOK
  <2> SUFFICES ASSUME NEW t \in Tx, t \notin disturbed PROVE Calm(t)'
    BY <1>a, <2>1
  <2>2. On(t)' \subseteq On(t) /\ \A v \in On(t)' : jobs'[v] = jobs[v]
    BY <2>1 DEF On
  <2> QED BY <2>1, <2>2, Fewer
<1>5. ASSUME NEW w \in Worker, StatusStep(w) PROVE CalmInv'
  BY <1>a, <1>5, CalmAfterStatus DEF CalmInv
<1>6. CASE UNCHANGED vars
  <2> USE DEF CalmInv, BackedInv
  <2> SUFFICES ASSUME NEW t \in Tx, t \notin disturbed PROVE Calm(t)'
    BY <1>a, <1>6 DEF vars
  <2> QED BY <1>6, Fewer DEF vars, On
<1> QED BY <1>1, <1>2, <1>3, <1>4, <1>5, <1>6 DEF Next, Continue

LEMMA CalmHolds == UniqueKeys => (Spec => []CalmInv)
<1> SUFFICES ASSUME UniqueKeys PROVE Spec => []CalmInv
  OBVIOUS
<1>1. CalmInv /\ [Next]_vars => CalmInv'
  BY CalmNext
<1> QED BY <1>1, CalmInit, PTL DEF Spec

\* When keys are not shared, whatever handlers run and are lost on it, a payment no
\* different call met under way is settled or given back at most once, and stays
\* in a status from which the call that was cut short can be made again.
THEOREM NothingIsStrandedHolds == UniqueKeys => (Spec => []NothingIsStranded)
<1> SUFFICES ASSUME UniqueKeys PROVE Spec => []NothingIsStranded
  OBVIOUS
<1>1. CalmInv => NothingIsStranded
  BY DEF CalmInv, Calm, Accounted, Unended, NothingIsStranded
<1> QED BY <1>1, CalmHolds, PTL

\* When keys are not shared, the status of a payment no different call met under
\* way only changes by the engine's table, although its handlers write it by id.
THEOREM FollowsTheTableHolds == UniqueKeys => (Spec => FollowsTheTable)
<1> SUFFICES ASSUME UniqueKeys PROVE Spec => FollowsTheTable
  OBVIOUS
<1>1. CalmInv /\ [Next]_vars =>
        [\A t \in Tx \ disturbed :
           status'[t] # status[t] =>
             \/ status[t] = "NONE"
             \/ <<status[t], status'[t]>> \in CanTransition]_vars
  <2> SUFFICES ASSUME CalmInv, Next, NEW t \in Tx, t \notin disturbed,
                      status'[t] # status[t]
               PROVE  status[t] = "NONE" \/ <<status[t], status'[t]>> \in CanTransition
    OBVIOUS
  <2> USE DEF CalmInv, BackedInv, TypeOK
  <2>1. CASE \E s \in Tx : Create(s)
    BY <2>1 DEF Create
  <2>2. ASSUME NEW w \in Worker, StatusStep(w)
        PROVE  <<status[t], status'[t]>> \in CanTransition
    <3>1. t = jobs[w].tx /\ status'[t] = jobs[w].to
      BY <2>2 DEF StatusStep
    <3> QED BY <2>2, <3>1, StatusFacts
  <2>3. ASSUME NEW w \in Worker, Call(w) PROVE FALSE
    BY <2>3, BeginFacts
  <2>4. ASSUME NEW w \in Worker, PostStep(w) \/ ReserveRefused(w) \/ Drop(w)
        PROVE  FALSE
    BY <2>4 DEF PostStep, ReserveRefused, Drop
  <2> QED BY <2>1, <2>2, <2>3, <2>4 DEF Next, Continue
<1> QED BY <1>1, CalmHolds, PTL DEF Spec, FollowsTheTable

\* When keys are not shared, no step of the engine but a posting or the meeting of
\* two calls changes what became of a reservation, and each is a step of the
\* abstract reservation.
LEMMA StepSimulates ==
  UniqueKeys /\ CalmInv /\ [Next]_vars => [R!Next]_([t \in Tx |-> Hold(t)])
<1> SUFFICES ASSUME UniqueKeys, CalmInv, [Next]_vars
             PROVE  [R!Next]_([t \in Tx |-> Hold(t)])
  OBVIOUS
<1> USE DEF CalmInv, BackedInv
<1>1. ASSUME \A t \in Tx, kind \in Kinds : Posted(t, kind)' <=> Posted(t, kind),
             disturbed' = disturbed
      PROVE  [t \in Tx |-> Hold(t)]' = [t \in Tx |-> Hold(t)]
  <2> SUFFICES ASSUME NEW t \in Tx PROVE Hold(t)' = Hold(t)
    OBVIOUS
  <2>1. {a \in Endings : Posted(t, a)}' = {a \in Endings : Posted(t, a)}
    BY <1>1, EndingKinds
  <2> QED BY <1>1, <2>1, EndingKinds DEF Hold
<1>2. ASSUME NEW w \in Worker, PostStep(w) PROVE [R!Next]_([t \in Tx |-> Hold(t)])
  <2>1. /\ jobs[w] \in Running /\ jobs[w].at = "post" /\ jobs[w] # Idle
        /\ jobs[w].tx \in Tx /\ jobs[w].to \in DOMAIN KindOf
    BY <1>2, PostFacts, JobKinds DEF TypeOK
  <2> PICK s \in Tx, to \in DOMAIN KindOf : s = jobs[w].tx /\ to = jobs[w].to
    BY <2>1
  <2>2. \A t \in Tx, kind \in Kinds :
          Posted(t, kind)' <=> Posted(t, kind) \/ (t = s /\ kind = KindOf[to])
    BY <1>2, PostFacts
  <2>3. disturbed' = disturbed
    BY <1>2 DEF PostStep
  <2>4. CASE s \in disturbed \/ Posted(s, KindOf[to])
    <3>1. CASE Posted(s, KindOf[to])
      BY <1>1, <2>2, <2>3, <3>1
    <3>2. CASE s \in disturbed
      <4> SUFFICES ASSUME NEW t \in Tx PROVE Hold(t)' = Hold(t)
        OBVIOUS
      <4>1. CASE t = s
        BY <2>3, <3>2, <4>1 DEF Hold
      <4>2. CASE t # s
        <5>1. {a \in Endings : Posted(t, a)}' = {a \in Endings : Posted(t, a)}
          BY <2>2, <4>2, EndingKinds
        <5> QED BY <2>2, <2>3, <4>2, <5>1, EndingKinds DEF Hold
      <4> QED BY <4>1, <4>2
    <3> QED BY <2>4, <3>1, <3>2
  <2>5. CASE s \notin disturbed /\ ~ Posted(s, KindOf[to])
    <3> DEFINE ended(t) == {a \in Endings : Posted(t, a)}
               from == IF to = "AUTHORIZED" THEN "none" ELSE "held"
               next == IF to = "AUTHORIZED" THEN "held"
                       ELSE IF to = "CAPTURED" THEN "settled" ELSE "released"
    <3>1. Calm(s) /\ w \in On(s)
      BY <2>1, <2>5 DEF On
    <3>2. to = status[s] \/ <<status[s], to>> \in CanTransition
      BY <3>1 DEF Calm, Agreed
    <3>3. to = "FAILED" => status[s] # "PENDING"
      BY <2>1, <3>1 DEF Calm, FailsInOrder
    <3>4. ended(s) = {}
      <4> SUFFICES ASSUME NEW a \in Endings, Posted(s, a) PROVE FALSE
        OBVIOUS
      <4>1. status[s] = Records[a] \/ (status[s] = "AUTHORIZED" /\ to = Records[a])
        BY <3>1 DEF Calm, Accounted
      <4>2. Posted(s, "authorize")
        BY EndingKinds DEF DebitsOnlyWhatWasReserved
      <4>3. to # "AUTHORIZED"
        BY <2>5, <4>2, KindsOfStatuses
      <4>4. to = Records[a]
        BY <3>2, <4>1, <4>3, EndingKinds, KindsOfStatuses DEF CanTransition
      <4>5. KindOf[to] = a
        BY <4>4, EndingKinds, KindsOfStatuses
      <4> QED BY <2>5, <4>5
    <3>5. Posted(s, "authorize") <=> to # "AUTHORIZED"
      BY <2>1, <2>5, KindsOfStatuses DEF HandlerBacked
    <3>6. Hold(s) = from
      BY <2>5, <3>4, <3>5 DEF Hold
    <3>7. Hold(s)' = next
      <4>1. CASE to = "AUTHORIZED"
        <5>1. ended(s)' = {}
          BY <2>2, <3>4, <4>1, KindsOfStatuses, EndingKinds
        <5>2. Posted(s, "authorize")'
          BY <2>2, <4>1, KindsOfStatuses, EndingKinds
        <5> QED BY <2>3, <2>5, <4>1, <5>1, <5>2 DEF Hold
      <4>2. CASE to # "AUTHORIZED"
        <5>1. KindOf[to] \in Endings
          BY <4>2, KindsOfStatuses, EndingKinds
        <5>2. ended(s)' = {KindOf[to]}
          BY <2>2, <3>4, <5>1, EndingKinds
        <5> HIDE DEF ended
        <5>3. Hold(s)' = CASE ended(s)' = {} -> IF Posted(s, "authorize")' THEN "held" ELSE "none"
                           [] ended(s)' = {"capture"} -> "settled"
                           [] ended(s)' \in {{"reverse"}, {"failRelease"}} -> "released"
                           [] OTHER -> "ended twice"
          BY <2>3, <2>5 DEF Hold, ended
        <5> QED BY <4>2, <5>2, <5>3, KindsOfStatuses
      <4> QED BY <4>1, <4>2
    <3>8. \A t \in Tx : t # s => Hold(t)' = Hold(t)
      <4> SUFFICES ASSUME NEW t \in Tx, t # s PROVE Hold(t)' = Hold(t)
        OBVIOUS
      <4>1. {a \in Endings : Posted(t, a)}' = {a \in Endings : Posted(t, a)}
        BY <2>2, EndingKinds
      <4> QED BY <2>2, <2>3, <4>1, EndingKinds DEF Hold
    <3>9. R!Change(s, from, next)
      BY <3>6, <3>7, <3>8 DEF R!Change
    <3> QED BY <3>9 DEF R!Next, R!Reserve, R!Settle, R!Release
  <2> QED BY <2>4, <2>5
<1>3. ASSUME NEW w \in Worker, Call(w) PROVE [R!Next]_([t \in Tx |-> Hold(t)])
  <2> PICK s \in Tx : disturbed' = disturbed \/ disturbed' = disturbed \cup {s}
    BY <1>3, BeginFacts
  <2>1. \A t, kind : Posted(t, kind)' <=> Posted(t, kind)
    BY <1>3, BeginFacts DEF Posted
  <2>2. CASE disturbed' = disturbed
    BY <1>1, <2>1, <2>2
  <2>3. CASE disturbed' = disturbed \cup {s}
    <3>1. Hold(s)' = "torn"
      BY <2>3 DEF Hold
    <3>2. \A t \in Tx : t # s => Hold(t)' = Hold(t)
      <4> SUFFICES ASSUME NEW t \in Tx, t # s PROVE Hold(t)' = Hold(t)
        OBVIOUS
      <4>1. {a \in Endings : Posted(t, a)}' = {a \in Endings : Posted(t, a)}
        BY <2>1
      <4> QED BY <2>1, <2>3, <4>1 DEF Hold
    <3>3. R!Tear(s)
      BY <3>1, <3>2 DEF R!Tear, R!Change
    <3> QED BY <3>3 DEF R!Next
  <2> QED BY <2>2, <2>3
<1>4. ASSUME NEW w \in Worker, ReserveRefused(w) \/ StatusStep(w) \/ Drop(w)
      PROVE  [R!Next]_([t \in Tx |-> Hold(t)])
  BY <1>1, <1>4 DEF ReserveRefused, StatusStep, Drop, Posted
<1>5. CASE (\E t \in Tx : Create(t)) \/ UNCHANGED vars
  BY <1>1, <1>5 DEF Create, vars, Posted
<1> QED BY <1>2, <1>3, <1>4, <1>5 DEF Next, Continue

\* When keys are not shared, the engine implements, whatever overlaps and whatever
\* is lost, the reservation that is settled or given back, never both and never
\* twice, until two different calls on it meet.
THEOREM TransactionsImplementReservation == UniqueKeys => (Spec => ImplementsReservation)
<1> SUFFICES ASSUME UniqueKeys PROVE Spec => R!Spec
  BY DEF ImplementsReservation
<1>1. Init => R!Init
  <2> SUFFICES ASSUME Init, NEW t \in Tx PROVE Hold(t) = "none"
    BY DEF R!Init
  <2>1. \A kind \in Kinds : ~ Posted(t, kind)
    BY TxParts, TransactionsAssumption DEF Init, Posted
  <2>2. {a \in Endings : Posted(t, a)} = {} /\ t \notin disturbed
    BY <2>1, EndingKinds DEF Init
  <2> QED BY <2>1, <2>2, EndingKinds DEF Hold
<1>2. CalmInv /\ [Next]_vars => [R!Next]_([t \in Tx |-> Hold(t)])
  BY StepSimulates
<1> QED BY <1>1, <1>2, CalmHolds, PTL DEF Spec, R!Spec

=============================================================================
