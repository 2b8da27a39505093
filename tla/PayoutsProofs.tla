---------------------------- MODULE PayoutsProofs ----------------------------
(***************************************************************************)
(* Theorems about Payouts for every set of payouts, handlers, amounts and  *)
(* fees, checked by TLAPS.                                                 *)
(***************************************************************************)
EXTENDS Payouts, TLAPS

Running == [at : Steps, payout : Payout, seen : Status, to : Status,
            evidence : BOOLEAN, fee : Nat]

Inserting == [at : {"insert"}, payout : Payout, amount : Amounts]

LEMMA JobKinds ==
  ASSUME NEW j \in Job
  PROVE  /\ j # Idle => j \in Running \/ j \in Inserting
         /\ j.at = "insert" => j \in Inserting
         /\ j.at \in Steps => j \in Running
BY DEF Job, Running, Inserting, Idle, Steps

LEMMA AmountIsNat ==
  ASSUME NEW amount \in Amounts \cup {0}
  PROVE  amount \in Nat
BY PayoutsAssumption

LEMMA GotoType ==
  ASSUME jobs \in [Worker -> Job], NEW w \in Worker, NEW step,
         step = "idle" \/ (step \in Steps /\ jobs[w] \in Running), Goto(w, step)
  PROVE  jobs' \in [Worker -> Job]
<1>1. CASE step = "idle"
  BY <1>1 DEF Goto, Job
<1>2. CASE step # "idle"
  <2>1. step \in Steps /\ jobs[w] \in Running
    BY <1>2
  <2>2. [jobs[w] EXCEPT !.at = step] \in Job
    BY <2>1 DEF Running, Job
  <2> QED BY <1>2, <2>2 DEF Goto
<1> QED BY <1>1, <1>2

LEMMA OnErrorStep ==
  ASSUME NEW j \in Job
  PROVE  \/ OnError(j) = "idle"
         \/ OnError(j) = "undo" /\ j \in Running
BY JobKinds DEF OnError, Steps


\* What the database statements do to the types.
LEMMA MovedRowType ==
  ASSUME payouts \in [Payout -> Row], NEW p \in Payout,
         NEW from \in Status, NEW to \in Status
  PROVE  MovedRow(p, from, to) \in [Payout -> Row]
BY DEF MovedRow, Row

LEMMA PostType ==
  ASSUME TypeOK, NEW w \in Worker, jobs[w] \in Running,
         NEW kind \in Kinds, NEW n \in Nat,
         NEW next \in Steps \cup {"idle"}, Post(w, kind, n, next)
  PROVE  TypeOK'
<1> USE PayoutsAssumption
<1>1. jobs[w] \in Job /\ jobs[w].payout \in Payout
  BY DEF TypeOK, Running
<1>2. ledger' \in [Payout -> [Kinds -> Nat]]
  BY <1>1 DEF TypeOK, Post
<1>3. CASE Goto(w, next) /\ UNCHANGED errors
  BY <1>2, <1>3, GotoType DEF TypeOK, Post
<1>4. CASE errors < MaxErrors /\ errors' = errors + 1 /\ Goto(w, OnError(jobs[w]))
  <2>1. jobs' \in [Worker -> Job]
    BY <1>1, <1>4, GotoType, OnErrorStep DEF TypeOK, Steps
  <2> QED BY <1>2, <1>4, <2>1 DEF TypeOK, Post
<1> QED BY <1>3, <1>4 DEF Post

LEMMA BeginType ==
  ASSUME TypeOK, NEW w \in Worker, NEW p \in Payout, NEW first \in Steps,
         NEW to \in Status, NEW evidence \in BOOLEAN,
         Begin(w, p, first, to, evidence)
  PROVE  TypeOK'
<1>1. payouts[p].status \in Status
  BY DEF TypeOK, Row
<1>2. [at |-> first, payout |-> p, seen |-> payouts[p].status, to |-> to,
       evidence |-> evidence, fee |-> 0] \in Job
  BY <1>1 DEF Job
<1> QED BY <1>2 DEF Begin, TypeOK

LEMMA CallType ==
  ASSUME TypeOK, NEW w \in Worker, Call(w)
  PROVE  TypeOK'
<1> PICK p \in Payout :
      \/ \E amount \in Amounts : Initiate(w, p, amount)
      \/ Process(w, p)
      \/ MarkSent(w, p)
      \/ Confirm(w, p)
      \/ \E evidence \in BOOLEAN : Fail(w, p, evidence)
      \/ MarkReturned(w, p)
  BY DEF Call
<1> USE DEF Steps, Status
<1>1. CASE \E amount \in Amounts : Initiate(w, p, amount)
  BY <1>1 DEF Initiate, TypeOK, Job
<1>2. CASE Process(w, p)
  BY <1>2, BeginType DEF Process
<1>3. CASE MarkSent(w, p)
  BY <1>3, BeginType DEF MarkSent
<1>4. CASE Confirm(w, p)
  BY <1>4, BeginType DEF Confirm
<1>5. CASE \E evidence \in BOOLEAN : Fail(w, p, evidence)
  BY <1>5, BeginType DEF Fail
<1>6. CASE MarkReturned(w, p)
  BY <1>6, BeginType DEF MarkReturned
<1> QED BY <1>1, <1>2, <1>3, <1>4, <1>5, <1>6

LEMMA ContinueType ==
  ASSUME TypeOK, NEW w \in Worker, Continue(w)
  PROVE  TypeOK'
<1> USE PayoutsAssumption
<1> DEFINE j == jobs[w]
<1>0. j \in Job
  BY DEF TypeOK
<1>a. j.at \in Steps => /\ j \in Running
                        /\ j.payout \in Payout
                        /\ j.seen \in Status
                        /\ j.to \in Status
                        /\ j.fee \in Nat
                        /\ payouts[j.payout] \in Row
                        /\ ledger[j.payout] \in [Kinds -> Nat]
  BY <1>0, JobKinds DEF Running, TypeOK
<1>1. CASE Insert(w)
  <2>1. j.payout \in Payout /\ j.amount \in Amounts
    BY <1>0, <1>1, JobKinds DEF Insert, Inserting
  <2>2. payouts' \in [Payout -> Row]
    BY <1>1, <2>1 DEF Insert, TypeOK, Row, NoRow, Status
  <2> QED BY <1>1, <2>2, GotoType DEF Insert, TypeOK
<1>2. CASE Claim(w)
  <2>1. AfterClaim(j) = "idle" \/ AfterClaim(j) \in Steps
    BY DEF AfterClaim, Steps
  <2>2. j \in Running /\ payouts' \in [Payout -> Row]
    BY <1>a, <1>2, MovedRowType DEF Claim, TypeOK, Steps
  <2>3. jobs' \in [Worker -> Job]
    BY <1>2, <2>1, <2>2, GotoType DEF Claim, TypeOK
  <2> QED BY <1>2, <2>2, <2>3 DEF Claim, TypeOK
<1>3. CASE \E fee \in Fees : Price(w, fee)
  <2> PICK fee \in Fees : Price(w, fee)
    BY <1>3
  <2>1. j \in Running
    BY <1>a DEF Price, Steps
  <2>2. payouts' \in [Payout -> Row]
    BY <1>a DEF Price, TypeOK, Row, Steps
  <2>3. [j EXCEPT !.at = "net", !.fee = fee] \in Job
    BY <2>1 DEF Running, Job, Steps
  <2>4. jobs' \in [Worker -> Job]
    BY <2>3 DEF Price, TypeOK
  <2> QED BY <2>2, <2>4 DEF Price, TypeOK
<1>4. CASE PriceRefused(w)
  BY <1>0, <1>4, GotoType, OnErrorStep DEF PriceRefused, TypeOK, Steps
<1>5. CASE PostNet(w)
  <2> DEFINE net == payouts[j.payout].amount - j.fee
  <2>0. j.at \in Steps /\ net > 0
    BY <1>5 DEF PostNet, Steps
  <2>1. j \in Running /\ payouts[j.payout] \in Row /\ j.fee \in Nat
    BY <1>a, <2>0
  <2>4. payouts[j.payout].amount \in Amounts \cup {0}
    BY <2>1 DEF Row
  <2>5. payouts[j.payout].amount \in Nat
    BY <2>4, AmountIsNat
  <2>3. net \in Nat
    BY <2>0, <2>1, <2>5
  <2>2. Post(w, "net", net, IF j.fee > 0 THEN "fee" ELSE "record")
    BY <1>5 DEF PostNet
  <2> QED BY <2>1, <2>2, <2>3, PostType DEF Kinds, Steps
<1>6. CASE NetRefused(w)
  BY <1>0, <1>6, GotoType, OnErrorStep DEF NetRefused, TypeOK, Steps
<1>7. CASE PostFee(w)
  BY <1>a, <1>7, PostType DEF PostFee, Kinds, Steps
<1>8. CASE Record(w)
  <2>1. payouts' \in [Payout -> Row]
    BY <1>a, <1>8 DEF Record, TypeOK, Row, Steps
  <2> QED BY <1>8, <2>1, GotoType DEF Record, TypeOK
<1>9. CASE Extinguish(w)
  BY <1>a, <1>9, PostType DEF Extinguish, Kinds, Steps
<1>10. CASE RecordEvidence(w)
  <2>1. j \in Running /\ payouts' \in [Payout -> Row]
    BY <1>a, <1>10 DEF RecordEvidence, TypeOK, Row, Steps
  <2>2. jobs' \in [Worker -> Job]
    BY <1>10, <2>1, GotoType DEF RecordEvidence, TypeOK, Steps
  <2> QED BY <1>10, <2>1, <2>2 DEF RecordEvidence, TypeOK
<1>11. CASE Restore(w)
  BY <1>a, <1>11, PostType, GotoType DEF Restore, Reverse, TypeOK, Kinds, Steps
<1>12. CASE RestoreFee(w)
  BY <1>a, <1>12, PostType, GotoType DEF RestoreFee, Reverse, TypeOK, Kinds, Steps
<1>13. CASE Undo(w)
  <2>1. payouts' \in [Payout -> Row]
    BY <1>a, <1>13, MovedRowType DEF Undo, TypeOK, Steps
  <2> QED BY <1>13, <2>1, GotoType DEF Undo, TypeOK
<1> QED
  BY <1>1, <1>2, <1>3, <1>4, <1>5, <1>6, <1>7, <1>8, <1>9, <1>10, <1>11,
     <1>12, <1>13 DEF Continue

LEMMA FaultType ==
  ASSUME TypeOK, NEW w \in Worker, DbError(w) \/ Abort(w)
  PROVE  TypeOK'
<1> USE PayoutsAssumption
<1>1. CASE DbError(w)
  <2>1. jobs' \in [Worker -> Job]
    BY <1>1, GotoType, OnErrorStep DEF DbError, TypeOK, Steps
  <2> QED BY <1>1, <2>1 DEF DbError, TypeOK
<1>2. CASE Abort(w)
  BY <1>2, GotoType DEF Abort, TypeOK
<1> QED BY <1>1, <1>2

LEMMA InitType == Init => TypeOK
BY PayoutsAssumption DEF Init, TypeOK, Row, NoRow, Status, Job

\* Rows, postings and handlers keep their types, whatever the interleaving of
\* the engine's statements, failures and drops.
THEOREM TypeCorrect == Spec => []TypeOK
<1>1. Init => TypeOK
  BY InitType
<1>2. TypeOK /\ [Next]_vars => TypeOK'
  <2> SUFFICES ASSUME TypeOK, [Next]_vars PROVE TypeOK'
    OBVIOUS
  <2>1. CASE UNCHANGED vars
    BY <2>1 DEF vars, TypeOK
  <2>2. CASE Next
    BY <2>2, CallType, ContinueType, FaultType DEF Next
  <2> QED BY <2>1, <2>2
<1> QED BY <1>1, <1>2, PTL DEF Spec

-----------------------------------------------------------------------------
(* A payout handed to the rail has its money in the ledger.                *)

\* The strengthening: a recorded posting exists, and a handler that may make a
\* payout SENT, or put it back to SENT, works on one whose posting is recorded.
RecordedIsPosted ==
  \A p \in Payout : payouts[p].recorded =>
                       ledger[p].net > 0 /\ payouts[p].status # "NONE"

HandlerBacked(j) ==
  /\ j.seen \in {"PENDING", "PROCESSING", "SENT"}
  /\ j.to # "NONE"
  /\ j.seen = "SENT" \/ j.to \in {"SENT", "CONFIRMED", "RETURNED"}
       => payouts[j.payout].recorded
  /\ j.at \in {"fee", "record"} => ledger[j.payout].net > 0
  /\ j.at = "fee" => j.fee > 0

HandlersBacked == \A w \in Worker : jobs[w].at \in Steps => HandlerBacked(jobs[w])

RailInv == TypeOK /\ RailHasBacking /\ RecordedIsPosted /\ HandlersBacked

\* A posting is never changed and a recorded id is never cleared.
Monotone ==
  \A p \in Payout :
    /\ payouts[p].recorded => payouts'[p].recorded
    /\ \A k \in Kinds : ledger[p][k] > 0 => ledger'[p][k] = ledger[p][k]

LEMMA MovedRowFacts ==
  ASSUME payouts \in [Payout -> Row], NEW p \in Payout, NEW from, NEW to,
         payouts' = MovedRow(p, from, to), NEW q \in Payout
  PROVE  /\ payouts'[q].recorded = payouts[q].recorded
         /\ payouts'[q].evidence = payouts[q].evidence
         /\ q # p \/ payouts[q].status # from => payouts'[q] = payouts[q]
         /\ q = p /\ payouts[q].status = from =>
              /\ payouts'[q].status = to
              /\ payouts'[q].sent = (payouts[q].sent \/ to = "SENT")
BY DEF MovedRow, Row

LEMMA PostFacts ==
  ASSUME TypeOK, NEW w \in Worker, jobs[w] \in Running,
         NEW kind \in Kinds, NEW n \in Nat, NEW next,
         Post(w, kind, n, next), NEW q \in Payout, NEW k \in Kinds
  PROVE  /\ ledger[q][k] > 0 => ledger'[q][k] = ledger[q][k]
         /\ q # jobs[w].payout \/ k # kind => ledger'[q][k] = ledger[q][k]
         /\ q = jobs[w].payout /\ k = kind /\ ledger[q][k] = 0 => ledger'[q][k] = n
         /\ UNCHANGED payouts
<1>1. jobs[w].payout \in Payout /\ ledger[q] \in [Kinds -> Nat]
  BY DEF TypeOK, Running
<1>2. ledger[q][k] \in Nat
  BY <1>1
<1> QED BY <1>1, <1>2 DEF TypeOK, Post

LEMMA GotoFacts ==
  ASSUME jobs \in [Worker -> Job], NEW w \in Worker, NEW step,
         Goto(w, step), NEW v \in Worker
  PROVE  /\ v # w => jobs'[v] = jobs[v]
         /\ v = w /\ step = "idle" => jobs'[v] = Idle
         /\ v = w /\ step \in Steps /\ jobs[w] \in Running =>
              /\ jobs'[v].at = step
              /\ jobs'[v].payout = jobs[v].payout
              /\ jobs'[v].seen = jobs[v].seen
              /\ jobs'[v].to = jobs[v].to
              /\ jobs'[v].evidence = jobs[v].evidence
              /\ jobs'[v].fee = jobs[v].fee
BY DEF Goto, Running, Steps

\* A handler that is not the one taking the step stays backed.
LEMMA OthersStayBacked ==
  ASSUME RailInv, Monotone, ledger' \in [Payout -> [Kinds -> Nat]],
         NEW w \in Worker,
         \A v \in Worker : v # w => jobs'[v] = jobs[v],
         jobs'[w].at \in Steps => HandlerBacked(jobs[w])'
  PROVE  HandlersBacked'
<1> SUFFICES ASSUME NEW v \in Worker, jobs'[v].at \in Steps, v # w
             PROVE  HandlerBacked(jobs[v])'
  BY DEF HandlersBacked
<1>1. jobs'[v] = jobs[v] /\ HandlerBacked(jobs[v])
  BY DEF RailInv, HandlersBacked
<1>2. jobs[v] \in Running /\ jobs[v].payout \in Payout
  BY <1>1, JobKinds DEF RailInv, TypeOK, Running
<1>3. /\ payouts[jobs[v].payout].recorded => payouts'[jobs[v].payout].recorded
      /\ ledger[jobs[v].payout].net > 0 => ledger'[jobs[v].payout].net > 0
  BY <1>2 DEF Monotone, Kinds
<1> QED BY <1>1, <1>3 DEF HandlerBacked

LEMMA BeginBacked ==
  ASSUME RailInv, NEW w \in Worker, NEW p \in Payout, NEW first \in {"claim", "price"},
         NEW to \in Status \ {"NONE"}, NEW evidence \in BOOLEAN,
         payouts[p].status \in {"PENDING", "PROCESSING", "SENT"},
         payouts[p].status = "SENT" \/ to \in {"SENT", "CONFIRMED", "RETURNED"}
           => payouts[p].recorded,
         Begin(w, p, first, to, evidence)
  PROVE  RailInv'
<1>1. TypeOK'
  BY BeginType DEF RailInv, Steps
<1>2. Monotone
  BY DEF Monotone, Begin, RailInv, TypeOK
<1>3. jobs' = [jobs EXCEPT ![w] =
                [at |-> first, payout |-> p, seen |-> payouts[p].status,
                 to |-> to, evidence |-> evidence, fee |-> 0]]
  BY DEF Begin
<1>4. HandlerBacked(jobs[w])'
  BY <1>3 DEF HandlerBacked, Begin, RailInv, TypeOK
<1>5. \A v \in Worker : v # w => jobs'[v] = jobs[v]
  BY <1>3 DEF RailInv, TypeOK
<1>6. HandlersBacked'
  BY <1>1, <1>2, <1>4, <1>5, OthersStayBacked DEF TypeOK
<1> QED BY <1>1, <1>6 DEF RailInv, RailHasBacking, RecordedIsPosted, Begin

LEMMA CallBacked ==
  ASSUME RailInv, NEW w \in Worker, Call(w)
  PROVE  RailInv'
<1> PICK p \in Payout :
      \/ \E amount \in Amounts : Initiate(w, p, amount)
      \/ Process(w, p)
      \/ MarkSent(w, p)
      \/ Confirm(w, p)
      \/ \E evidence \in BOOLEAN : Fail(w, p, evidence)
      \/ MarkReturned(w, p)
  BY DEF Call
<1>0. payouts[p].status = "SENT" => payouts[p].recorded
  BY DEF RailInv, RailHasBacking
<1>1. CASE \E amount \in Amounts : Initiate(w, p, amount)
  <2>1. TypeOK'
    BY CallType DEF RailInv
  <2>2. /\ \A v \in Worker : v # w => jobs'[v] = jobs[v]
        /\ jobs'[w].at = "insert"
        /\ UNCHANGED <<payouts, ledger>>
    BY <1>1 DEF Initiate, RailInv, TypeOK
  <2>3. HandlersBacked'
    BY <2>1, <2>2, OthersStayBacked DEF TypeOK, Monotone, Steps
  <2> QED BY <2>1, <2>2, <2>3 DEF RailInv, RailHasBacking, RecordedIsPosted
<1> USE DEF Status, CanTransition
<1>2. CASE Process(w, p)
  BY <1>2, BeginBacked DEF Process
<1>3. CASE MarkSent(w, p)
  BY <1>3, BeginBacked DEF MarkSent
<1>4. CASE Confirm(w, p)
  BY <1>0, <1>4, BeginBacked DEF Confirm
<1>5. CASE \E evidence \in BOOLEAN : Fail(w, p, evidence)
  BY <1>0, <1>5, BeginBacked DEF Fail
<1>6. CASE MarkReturned(w, p)
  BY <1>0, <1>6, BeginBacked DEF MarkReturned
<1> QED BY <1>1, <1>2, <1>3, <1>4, <1>5, <1>6

\* A step that only moves handler w along, with the same target and payout.
LEMMA SameRowsBacked ==
  ASSUME RailInv, NEW w \in Worker, NEW step, Goto(w, step),
         step = "idle" \/ (jobs[w] \in Running /\ step \in Steps \ {"fee", "record"}),
         UNCHANGED ledger, payouts' \in [Payout -> Row],
         RailHasBacking', RecordedIsPosted',
         \A p \in Payout : payouts[p].recorded => payouts'[p].recorded,
         TypeOK'
  PROVE  RailInv'
<1>1. Monotone
  BY DEF Monotone
<1>2. \A v \in Worker : v # w => jobs'[v] = jobs[v]
  BY GotoFacts DEF RailInv, TypeOK
<1>3. ASSUME jobs'[w].at \in Steps PROVE HandlerBacked(jobs[w])'
  <2>1. step # "idle"
    BY <1>3, GotoFacts DEF RailInv, TypeOK, Idle, Steps
  <2>2. /\ jobs[w] \in Running /\ jobs[w].at \in Steps /\ jobs[w].payout \in Payout
        /\ HandlerBacked(jobs[w])
    BY <2>1 DEF RailInv, HandlersBacked, Running
  <2>3. /\ jobs'[w].at = step /\ jobs'[w].payout = jobs[w].payout
        /\ jobs'[w].seen = jobs[w].seen /\ jobs'[w].to = jobs[w].to
    BY <2>1, <2>2, GotoFacts DEF RailInv, TypeOK
  <2> QED BY <2>1, <2>2, <2>3 DEF HandlerBacked
<1>4. HandlersBacked'
  BY <1>1, <1>2, <1>3, OthersStayBacked DEF TypeOK
<1> QED BY <1>4 DEF RailInv

\* A posting step: the rows stay, one key may be posted.
LEMMA PostBacked ==
  ASSUME RailInv, NEW w \in Worker, jobs[w] \in Running,
         NEW kind \in Kinds, NEW n \in Nat, n > 0,
         NEW next \in Steps \cup {"idle"},
         next \in {"fee", "record"} => kind = "net" \/ ledger[jobs[w].payout].net > 0,
         next = "fee" => jobs[w].fee > 0,
         Post(w, kind, n, next)
  PROVE  RailInv'
<1>0. TypeOK /\ TypeOK' /\ jobs[w].payout \in Payout /\ jobs[w].at \in Steps
  BY PostType DEF RailInv, Running
<1>1. Monotone /\ UNCHANGED payouts
  BY <1>0, PostFacts DEF Monotone, Post
<1>2. PICK step \in Steps \cup {"idle"} :
        /\ Goto(w, step)
        /\ step = next \/ step = OnError(jobs[w])
  BY <1>0, OnErrorStep DEF Post, Steps, TypeOK
<1>3. \A v \in Worker : v # w => jobs'[v] = jobs[v]
  BY <1>0, <1>2, GotoFacts DEF TypeOK
<1>4. RailHasBacking' /\ RecordedIsPosted'
  BY <1>0, <1>1 DEF RailInv, RailHasBacking, RecordedIsPosted, Monotone, Kinds
<1>5. ASSUME jobs'[w].at \in Steps PROVE HandlerBacked(jobs[w])'
  <2>1. step \in Steps
    BY <1>0, <1>2, <1>5, GotoFacts DEF TypeOK, Idle, Steps
  <2>2. /\ jobs'[w].at = step /\ jobs'[w].payout = jobs[w].payout
        /\ jobs'[w].seen = jobs[w].seen /\ jobs'[w].to = jobs[w].to
        /\ jobs'[w].fee = jobs[w].fee
    BY <1>0, <1>2, <2>1, GotoFacts DEF TypeOK
  <2>3. HandlerBacked(jobs[w])
    BY <1>0 DEF RailInv, HandlersBacked
  <2>4. ASSUME step \in {"fee", "record"} PROVE ledger'[jobs[w].payout].net > 0
    <3>1. step = next
      BY <1>0, <1>2, <2>4, OnErrorStep DEF TypeOK
    <3>2. CASE ledger[jobs[w].payout].net > 0
      BY <1>0, <1>1, <3>2 DEF Monotone, Kinds
    <3>3. CASE ~ (ledger[jobs[w].payout].net > 0)
      <4>1. kind = "net" /\ ledger[jobs[w].payout].net = 0
        BY <1>0, <2>4, <3>1, <3>3 DEF TypeOK, Kinds
      <4> QED BY <1>0, <4>1, PostFacts DEF Kinds
    <3> QED BY <3>2, <3>3
  <2>5. step = "fee" => jobs[w].fee > 0
    BY <1>0, <1>2, OnErrorStep DEF TypeOK
  <2> QED BY <1>0, <1>1, <2>2, <2>3, <2>4, <2>5 DEF HandlerBacked, Monotone
<1>6. HandlersBacked'
  BY <1>0, <1>1, <1>3, <1>5, OthersStayBacked DEF TypeOK
<1> QED BY <1>0, <1>4, <1>6 DEF RailInv

LEMMA ContinueBacked ==
  ASSUME RailInv, NEW w \in Worker, Continue(w)
  PROVE  RailInv'
<1> DEFINE j == jobs[w]
<1>0. TypeOK /\ TypeOK' /\ j \in Job
  BY ContinueType DEF RailInv, TypeOK
<1>a. j.at \in Steps => /\ j \in Running
                        /\ j.payout \in Payout
                        /\ j.fee \in Nat
                        /\ HandlerBacked(j)
  BY <1>0, JobKinds DEF Running, RailInv, HandlersBacked
<1>b. OnError(j) \in {"idle", "undo"}
  BY <1>0, OnErrorStep
<1>c. payouts \in [Payout -> Row] /\ payouts' \in [Payout -> Row]
  BY <1>0 DEF TypeOK
<1>1. CASE Insert(w)
  <2>1. j.payout \in Payout
    BY <1>0, <1>1, JobKinds DEF Insert, Inserting
  <2>2. RailHasBacking' /\ RecordedIsPosted'
    BY <1>1, <1>c, <2>1 DEF Insert, RailInv, RailHasBacking, RecordedIsPosted, NoRow
  <2>3. \A p \in Payout : payouts[p].recorded => payouts'[p].recorded
    BY <1>1, <1>c, <2>1 DEF Insert, RailInv, RecordedIsPosted
  <2> QED BY <1>0, <1>1, <1>c, <2>2, <2>3, SameRowsBacked DEF Insert
<1>2. CASE Claim(w)
  <2>1. j \in Running /\ j.payout \in Payout /\ HandlerBacked(j)
    BY <1>2, <1>a DEF Claim, Steps
  <2>2. \A p \in Payout : payouts'[p].recorded = payouts[p].recorded
    BY <1>2, <1>c, <2>1, MovedRowFacts DEF Claim
  <2>3. \A p \in Payout : \/ payouts'[p].status = payouts[p].status
                          \/ p = j.payout /\ payouts'[p].status = j.to
    BY <1>2, <1>c, <2>1, MovedRowFacts DEF Claim
  <2>4. RailHasBacking' /\ RecordedIsPosted'
    BY <1>2, <2>1, <2>2, <2>3
       DEF Claim, RailInv, RailHasBacking, RecordedIsPosted, HandlerBacked
  <2>5. AfterClaim(j) \in {"price", "idle", "extinguish", "evidence", "restore"}
    BY DEF AfterClaim
  <2>6. PICK step \in {"price", "idle", "extinguish", "evidence", "restore"} : Goto(w, step)
    BY <1>2, <2>5 DEF Claim
  <2> QED BY <1>0, <1>2, <1>c, <2>1, <2>2, <2>4, <2>6, SameRowsBacked DEF Claim, Steps
<1>3. CASE \E fee \in Fees : Price(w, fee)
  <2> PICK fee \in Fees : Price(w, fee)
    BY <1>3
  <2>1. j \in Running /\ j.payout \in Payout /\ HandlerBacked(j)
    BY <1>a DEF Price, Steps
  <2>2. /\ UNCHANGED ledger
        /\ \A p \in Payout : /\ payouts'[p].recorded = payouts[p].recorded
                             /\ payouts'[p].status = payouts[p].status
    BY <1>c, <2>1 DEF Price, Row
  <2>3. jobs'[w] = [j EXCEPT !.at = "net", !.fee = fee]
    BY <1>0 DEF Price, TypeOK
  <2>4. /\ jobs'[w].at = "net" /\ jobs'[w].payout = j.payout
        /\ jobs'[w].seen = j.seen /\ jobs'[w].to = j.to
    BY <2>1, <2>3 DEF Running
  <2>5. HandlerBacked(jobs[w])'
    BY <2>1, <2>2, <2>4 DEF HandlerBacked
  <2>6. \A v \in Worker : v # w => jobs'[v] = jobs[v]
    BY <1>0 DEF Price, TypeOK
  <2>7. HandlersBacked'
    BY <1>0, <2>2, <2>5, <2>6, OthersStayBacked DEF TypeOK, Monotone
  <2> QED BY <1>0, <2>2, <2>7 DEF RailInv, RailHasBacking, RecordedIsPosted
<1>4. CASE PriceRefused(w)
  BY <1>0, <1>4, <1>a, <1>b, <1>c, SameRowsBacked
     DEF PriceRefused, RailInv, RailHasBacking, RecordedIsPosted, Steps
<1>5. CASE PostNet(w)
  <2> DEFINE net == payouts[j.payout].amount - j.fee
  <2>1. j.at = "net" /\ net > 0
    BY <1>5 DEF PostNet
  <2>2. j \in Running /\ payouts[j.payout].amount \in Amounts \cup {0} /\ j.fee \in Nat
    BY <1>a, <1>c, <2>1 DEF Steps, Row
  <2>3. net \in Nat
    BY <2>1, <2>2, AmountIsNat
  <2>4. Post(w, "net", net, IF j.fee > 0 THEN "fee" ELSE "record")
    BY <1>5 DEF PostNet
  <2> QED BY <2>1, <2>2, <2>3, <2>4, PostBacked DEF Kinds, Steps
<1>6. CASE NetRefused(w)
  BY <1>0, <1>6, <1>a, <1>b, <1>c, SameRowsBacked
     DEF NetRefused, RailInv, RailHasBacking, RecordedIsPosted, Steps
<1>7. CASE PostFee(w)
  <2>1. /\ j.at = "fee" /\ j \in Running /\ j.fee \in Nat /\ j.fee > 0
        /\ ledger[j.payout].net > 0
    BY <1>7, <1>a DEF PostFee, Steps, HandlerBacked, RailInv
  <2> QED BY <1>7, <2>1, PostBacked DEF PostFee, Kinds, Steps
<1>8. CASE Record(w)
  <2>1. j \in Running /\ j.payout \in Payout /\ ledger[j.payout].net > 0
    BY <1>8, <1>a DEF Record, Steps, HandlerBacked
  <2>2. \A p \in Payout : /\ payouts'[p].status = payouts[p].status
                          /\ payouts[p].recorded => payouts'[p].recorded
                          /\ p # j.payout => payouts'[p].recorded = payouts[p].recorded
    BY <1>8, <1>c, <2>1 DEF Record, Row
  <2>3. RailHasBacking' /\ RecordedIsPosted'
    BY <1>8, <2>1, <2>2 DEF Record, RailInv, RailHasBacking, RecordedIsPosted
  <2> QED BY <1>0, <1>8, <1>c, <2>2, <2>3, SameRowsBacked DEF Record
<1>9. CASE Extinguish(w)
  BY <1>0, <1>9, <1>a, PostBacked DEF Extinguish, Kinds, Steps, TypeOK
<1>10. CASE RecordEvidence(w)
  <2>1. j \in Running /\ j.payout \in Payout
    BY <1>10, <1>a DEF RecordEvidence, Steps
  <2>2. \A p \in Payout : /\ payouts'[p].status = payouts[p].status
                          /\ payouts'[p].recorded = payouts[p].recorded
    BY <1>10, <1>c, <2>1 DEF RecordEvidence, Row
  <2>3. RailHasBacking' /\ RecordedIsPosted'
    BY <1>10, <2>2 DEF RecordEvidence, RailInv, RailHasBacking, RecordedIsPosted
  <2> QED BY <1>0, <1>10, <1>c, <2>1, <2>2, <2>3, SameRowsBacked
          DEF RecordEvidence, Steps
<1>11. CASE Restore(w)
  <2>1. j \in Running /\ j.payout \in Payout
    BY <1>11, <1>a DEF Restore, Steps
  <2>2. CASE ledger[j.payout].net > 0 /\ Post(w, "reverse", ledger[j.payout].net, "restoreFee")
    BY <1>0, <2>1, <2>2, PostBacked DEF TypeOK, Kinds, Steps
  <2>3. CASE Goto(w, "restoreFee") /\ UNCHANGED <<payouts, ledger, errors, aborts>>
    BY <1>0, <1>c, <2>1, <2>3, SameRowsBacked
       DEF Steps, RailInv, RailHasBacking, RecordedIsPosted
  <2> QED BY <1>11, <2>2, <2>3 DEF Restore, Reverse
<1>12. CASE RestoreFee(w)
  <2>1. j \in Running /\ j.payout \in Payout
    BY <1>12, <1>a DEF RestoreFee, Steps
  <2>2. CASE ledger[j.payout].fee > 0 /\ Post(w, "reverseFee", ledger[j.payout].fee, "idle")
    BY <1>0, <2>1, <2>2, PostBacked DEF TypeOK, Kinds, Steps
  <2>3. CASE Goto(w, "idle") /\ UNCHANGED <<payouts, ledger, errors, aborts>>
    BY <1>0, <1>c, <2>1, <2>3, SameRowsBacked
       DEF Steps, RailInv, RailHasBacking, RecordedIsPosted
  <2> QED BY <1>12, <2>2, <2>3 DEF RestoreFee, Reverse
<1>13. CASE Undo(w)
  <2>1. j \in Running /\ j.payout \in Payout /\ HandlerBacked(j)
    BY <1>13, <1>a DEF Undo, Steps
  <2>2. \A p \in Payout : payouts'[p].recorded = payouts[p].recorded
    BY <1>13, <1>c, <2>1, MovedRowFacts DEF Undo
  <2>3. \A p \in Payout : \/ payouts'[p].status = payouts[p].status
                          \/ p = j.payout /\ payouts'[p].status = j.seen
                             /\ payouts[p].status = j.to
    BY <1>13, <1>c, <2>1, MovedRowFacts DEF Undo
  <2>4. RailHasBacking' /\ RecordedIsPosted'
    BY <1>13, <2>1, <2>2, <2>3
       DEF Undo, RailInv, RailHasBacking, RecordedIsPosted, HandlerBacked
  <2> QED BY <1>0, <1>13, <1>c, <2>2, <2>4, SameRowsBacked DEF Undo
<1> QED
  BY <1>1, <1>2, <1>3, <1>4, <1>5, <1>6, <1>7, <1>8, <1>9, <1>10, <1>11,
     <1>12, <1>13 DEF Continue

LEMMA FaultBacked ==
  ASSUME RailInv, NEW w \in Worker, DbError(w) \/ Abort(w)
  PROVE  RailInv'
<1>0. TypeOK /\ TypeOK' /\ payouts' \in [Payout -> Row] /\ jobs[w] \in Job
  BY FaultType DEF RailInv, TypeOK
<1>1. PICK step \in {"idle", "undo"} :
        Goto(w, step) /\ (step = "idle" \/ jobs[w] \in Running)
  BY <1>0, OnErrorStep DEF DbError, Abort
<1>2. UNCHANGED <<payouts, ledger>>
  BY DEF DbError, Abort
<1> QED BY <1>0, <1>1, <1>2, SameRowsBacked
        DEF RailInv, RailHasBacking, RecordedIsPosted, Steps

\* Whatever errors, drops and races came before, a payout that was handed to
\* the rail has its recorded net posting.
THEOREM RailHasBackingHolds == Spec => []RailHasBacking
<1>1. Init => RailInv
  BY InitType DEF Init, RailInv, RailHasBacking, RecordedIsPosted,
     HandlersBacked, NoRow, Idle, Steps
<1>2. RailInv /\ [Next]_vars => RailInv'
  <2> SUFFICES ASSUME RailInv, [Next]_vars PROVE RailInv'
    OBVIOUS
  <2>1. CASE UNCHANGED vars
    BY <2>1 DEF vars, RailInv, TypeOK, RailHasBacking, RecordedIsPosted,
                HandlersBacked, HandlerBacked
  <2>2. CASE Next
    BY <2>2, CallBacked, ContinueBacked, FaultBacked DEF Next
  <2> QED BY <2>1, <2>2
<1>3. RailInv => RailHasBacking
  BY DEF RailInv
<1> QED BY <1>1, <1>2, <1>3, PTL DEF Spec

-----------------------------------------------------------------------------
(* What is given back, and what the bank pays, is what was posted.         *)

LEMMA PostKeepsMoves ==
  ASSUME TypeOK, MovesWhatWasPosted, NEW w \in Worker, jobs[w] \in Running,
         NEW kind \in Kinds, NEW n \in Nat, NEW next, Post(w, kind, n, next),
         kind \in {"confirm", "reverse"} => n = ledger[jobs[w].payout].net /\ n > 0,
         kind = "reverseFee" => n = ledger[jobs[w].payout].fee /\ n > 0
  PROVE  MovesWhatWasPosted'
<1> SUFFICES ASSUME NEW q \in Payout
             PROVE  /\ ledger'[q].reverse \in {0, ledger'[q].net}
                    /\ ledger'[q].reverseFee \in {0, ledger'[q].fee}
                    /\ ledger'[q].confirm \in {0, ledger'[q].net}
  BY DEF MovesWhatWasPosted
<1>1. \A k \in Kinds :
        /\ ledger[q][k] \in Nat
        /\ ledger[q][k] > 0 => ledger'[q][k] = ledger[q][k]
        /\ q # jobs[w].payout \/ k # kind => ledger'[q][k] = ledger[q][k]
        /\ q = jobs[w].payout /\ k = kind /\ ledger[q][k] = 0 => ledger'[q][k] = n
  BY PostFacts DEF TypeOK
<1>2. /\ ledger[q].reverse \in {0, ledger[q].net}
      /\ ledger[q].reverseFee \in {0, ledger[q].fee}
      /\ ledger[q].confirm \in {0, ledger[q].net}
  BY DEF MovesWhatWasPosted
<1> QED BY <1>1, <1>2 DEF Kinds

\* Giving back and paying out move exactly what processing posted, even when
\* the fee was resolved differently by two attempts.
THEOREM MovesWhatWasPostedHolds == Spec => []MovesWhatWasPosted
<1>1. Init => MovesWhatWasPosted
  BY DEF Init, MovesWhatWasPosted, Kinds
<1>2. TypeOK /\ MovesWhatWasPosted /\ [Next]_vars => MovesWhatWasPosted'
  <2> SUFFICES ASSUME TypeOK, MovesWhatWasPosted, [Next]_vars
               PROVE  MovesWhatWasPosted'
    OBVIOUS
  <2>1. CASE UNCHANGED ledger
    BY <2>1 DEF MovesWhatWasPosted
  <2>2. ASSUME NEW w \in Worker, Continue(w), ledger' # ledger
        PROVE  MovesWhatWasPosted'
    <3>1. jobs[w].at \in Steps => /\ jobs[w] \in Running
                                  /\ jobs[w].payout \in Payout
                                  /\ jobs[w].fee \in Nat
                                  /\ payouts[jobs[w].payout] \in Row
                                  /\ \A k \in Kinds : ledger[jobs[w].payout][k] \in Nat
      BY JobKinds DEF TypeOK, Running
    <3>2. CASE PostNet(w)
      <4> DEFINE net == payouts[jobs[w].payout].amount - jobs[w].fee
      <4>1. jobs[w].at = "net" /\ net > 0
        BY <3>2 DEF PostNet
      <4>2. payouts[jobs[w].payout].amount \in Amounts \cup {0}
        BY <3>1, <4>1 DEF Steps, Row
      <4>3. net \in Nat
        BY <3>1, <4>1, <4>2, AmountIsNat DEF Steps
      <4>4. PICK next : Post(w, "net", net, next)
        BY <3>2 DEF PostNet
      <4> QED BY <3>1, <4>1, <4>3, <4>4, PostKeepsMoves DEF Kinds, Steps
    <3>3. CASE PostFee(w)
      BY <3>1, <3>3, PostKeepsMoves DEF PostFee, Kinds, Steps
    <3>4. CASE Extinguish(w)
      BY <3>1, <3>4, PostKeepsMoves DEF Extinguish, Kinds, Steps
    <3>5. CASE Restore(w)
      BY <2>2, <3>1, <3>5, PostKeepsMoves DEF Restore, Reverse, Kinds, Steps
    <3>6. CASE RestoreFee(w)
      BY <2>2, <3>1, <3>6, PostKeepsMoves DEF RestoreFee, Reverse, Kinds, Steps
    <3> QED BY <2>2, <3>2, <3>3, <3>4, <3>5, <3>6
            DEF Continue, Insert, Claim, Price, PriceRefused, NetRefused, Record,
                RecordEvidence, Undo
  <2>3. ASSUME NEW w \in Worker, Call(w) PROVE UNCHANGED ledger
    BY <2>3 DEF Call, Initiate, Process, MarkSent, Confirm, Fail, MarkReturned, Begin
  <2>4. ASSUME NEW w \in Worker, DbError(w) \/ Abort(w) PROVE UNCHANGED ledger
    BY <2>4 DEF DbError, Abort
  <2> QED BY <2>1, <2>2, <2>3, <2>4 DEF Next, vars
<1> QED BY <1>1, <1>2, TypeCorrect, PTL DEF Spec

-----------------------------------------------------------------------------
(* Without failed database calls, the claim decides: races between any     *)
(* number of handlers, refused prices and dropped handlers never let the   *)
(* same money be paid by the bank and given back.                          *)

Terminal == {"CONFIRMED", "FAILED", "RETURNED"}

GivenBack(p) == ledger[p].reverse > 0 \/ ledger[p].reverseFee > 0

\* A confirmation or a reversal exists only under the status that claims it.
RowDecided(p) ==
  /\ ledger[p].confirm > 0 => payouts[p].status = "CONFIRMED"
  /\ GivenBack(p) => /\ payouts[p].status \in {"FAILED", "RETURNED"}
                     /\ payouts[p].sent => payouts[p].evidence
  /\ payouts[p].sent => payouts[p].status \in {"SENT"} \cup Terminal
  /\ payouts[p].evidence => payouts[p].status # "NONE"

\* A handler about to post one holds that status; only process ever undoes.
HandlerHolds(j) ==
  /\ j.seen \in {"PENDING", "PROCESSING", "SENT"}
  /\ j.to \in {"PROCESSING", "SENT"} \cup Terminal
  /\ j.to = "PROCESSING" => j.seen # "SENT"
  /\ j.to \in {"FAILED", "RETURNED"} /\ j.seen = "SENT" => j.evidence
  /\ j.at \in {"price", "net", "fee", "record", "undo"} => j.to = "PROCESSING"
  /\ j.at = "extinguish" => payouts[j.payout].status = "CONFIRMED"
  /\ j.at \in {"evidence", "restore", "restoreFee"}
       => payouts[j.payout].status \in {"FAILED", "RETURNED"}
  /\ j.at \in {"restore", "restoreFee"} /\ payouts[j.payout].sent
       => payouts[j.payout].evidence

ClaimInv ==
  /\ TypeOK
  /\ MovesWhatWasPosted
  /\ \A p \in Payout : RowDecided(p)
  /\ \A w \in Worker : jobs[w].at \in Steps => HandlerHolds(jobs[w])

\* What no step of the system does to a row.
Lasting ==
  \A p \in Payout :
    /\ payouts[p].status \in Terminal => /\ payouts'[p].status = payouts[p].status
                                         /\ payouts'[p].sent = payouts[p].sent
    /\ payouts[p].evidence => payouts'[p].evidence

LEMMA OthersStillHold ==
  ASSUME ClaimInv, Lasting, NEW w \in Worker,
         \A v \in Worker : v # w => jobs'[v] = jobs[v],
         jobs'[w].at \in Steps => HandlerHolds(jobs[w])'
  PROVE  \A v \in Worker : jobs'[v].at \in Steps => HandlerHolds(jobs[v])'
<1> SUFFICES ASSUME NEW v \in Worker, jobs'[v].at \in Steps, v # w
             PROVE  HandlerHolds(jobs[v])'
  OBVIOUS
<1>1. jobs'[v] = jobs[v] /\ HandlerHolds(jobs[v])
  BY DEF ClaimInv
<1>2. jobs[v] \in Running /\ jobs[v].payout \in Payout
  BY <1>1, JobKinds DEF ClaimInv, TypeOK, Running
<1> DEFINE p == jobs[v].payout
<1>3. /\ payouts[p].status \in Terminal => /\ payouts'[p].status = payouts[p].status
                                           /\ payouts'[p].sent = payouts[p].sent
      /\ payouts[p].evidence => payouts'[p].evidence
  BY <1>2 DEF Lasting
<1> QED BY <1>1, <1>3 DEF HandlerHolds, Terminal

\* Without failures OnError is reached only by a refused price.
LEMMA RefusalUndoes ==
  ASSUME NEW j \in Running, HandlerHolds(j), j.at \in {"price", "net"}
  PROVE  OnError(j) \in {"idle", "undo"} /\ j.to = "PROCESSING"
BY DEF OnError, HandlerHolds

LEMMA HoldsAfterGoto ==
  ASSUME ClaimInv, NEW w \in Worker, NEW step, Goto(w, step),
         step = "idle" \/ (step \in Steps /\ jobs[w] \in Running),
         step \in {"price", "net", "fee", "record", "undo"}
           => jobs[w].to = "PROCESSING",
         step = "extinguish" => payouts'[jobs[w].payout].status = "CONFIRMED",
         step \in {"evidence", "restore", "restoreFee"} =>
           payouts'[jobs[w].payout].status \in {"FAILED", "RETURNED"},
         step \in {"restore", "restoreFee"} =>
           (payouts'[jobs[w].payout].sent => payouts'[jobs[w].payout].evidence)
  PROVE  /\ jobs'[w].at \in Steps => HandlerHolds(jobs[w])'
         /\ \A v \in Worker : v # w => jobs'[v] = jobs[v]
<1>1. \A v \in Worker : v # w => jobs'[v] = jobs[v]
  BY GotoFacts DEF ClaimInv, TypeOK
<1>2. CASE step = "idle"
  BY <1>1, <1>2, GotoFacts DEF ClaimInv, TypeOK, Idle, Steps
<1>3. CASE step \in Steps /\ jobs[w] \in Running
  <2>1. /\ jobs'[w].at = step /\ jobs'[w].payout = jobs[w].payout
        /\ jobs'[w].seen = jobs[w].seen /\ jobs'[w].to = jobs[w].to
        /\ jobs'[w].evidence = jobs[w].evidence
    BY <1>3, GotoFacts DEF ClaimInv, TypeOK
  <2>2. HandlerHolds(jobs[w])
    BY <1>3 DEF ClaimInv, Running
  <2> QED BY <1>1, <2>1, <2>2 DEF HandlerHolds
<1> QED BY <1>2, <1>3

LEMMA CallHolds ==
  ASSUME ClaimInv, NEW w \in Worker, Call(w)
  PROVE  ClaimInv' /\ Lasting /\ UNCHANGED ledger
<1> PICK p \in Payout :
      \/ \E amount \in Amounts : Initiate(w, p, amount)
      \/ Process(w, p)
      \/ MarkSent(w, p)
      \/ Confirm(w, p)
      \/ \E evidence \in BOOLEAN : Fail(w, p, evidence)
      \/ MarkReturned(w, p)
  BY DEF Call
<1>1. TypeOK'
  BY CallType DEF ClaimInv
<1>2. UNCHANGED <<payouts, ledger>>
  BY DEF Initiate, Process, MarkSent, Confirm, Fail, MarkReturned, Begin
<1>3. Lasting /\ MovesWhatWasPosted' /\ \A q \in Payout : RowDecided(q)'
  BY <1>2 DEF ClaimInv, Lasting, MovesWhatWasPosted, RowDecided, GivenBack
<1>4. CASE \E amount \in Amounts : Initiate(w, p, amount)
  <2>1. /\ \A v \in Worker : v # w => jobs'[v] = jobs[v]
        /\ jobs'[w].at = "insert"
    BY <1>4 DEF Initiate, ClaimInv, TypeOK
  <2>2. \A v \in Worker : jobs'[v].at \in Steps => HandlerHolds(jobs[v])'
    BY <1>3, <2>1, OthersStillHold DEF Steps
  <2> QED BY <1>1, <1>2, <1>3, <2>2 DEF ClaimInv
<1>5. ASSUME NEW first \in {"claim", "price"}, NEW to, NEW evidence,
             Begin(w, p, first, to, evidence),
             payouts[p].status \in {"PENDING", "PROCESSING", "SENT"},
             to \in {"PROCESSING", "SENT"} \cup Terminal,
             to = "PROCESSING" => payouts[p].status # "SENT",
             to \in {"FAILED", "RETURNED"} /\ payouts[p].status = "SENT" => evidence,
             first = "price" => to = "PROCESSING"
      PROVE  ClaimInv'
  <2>1. /\ \A v \in Worker : v # w => jobs'[v] = jobs[v]
        /\ jobs'[w] = [at |-> first, payout |-> p, seen |-> payouts[p].status,
                       to |-> to, evidence |-> evidence, fee |-> 0]
    BY <1>5 DEF Begin, ClaimInv, TypeOK
  <2>2. HandlerHolds(jobs[w])'
    BY <1>5, <2>1 DEF HandlerHolds
  <2>3. \A v \in Worker : jobs'[v].at \in Steps => HandlerHolds(jobs[v])'
    BY <1>3, <2>1, <2>2, OthersStillHold
  <2> QED BY <1>1, <1>3, <2>3 DEF ClaimInv
<1> USE DEF CanTransition, Terminal
<1>6. CASE Process(w, p)
  BY <1>2, <1>3, <1>5, <1>6 DEF Process
<1>7. CASE MarkSent(w, p)
  BY <1>2, <1>3, <1>5, <1>7 DEF MarkSent
<1>8. CASE Confirm(w, p)
  BY <1>2, <1>3, <1>5, <1>8 DEF Confirm
<1>9. CASE \E evidence \in BOOLEAN : Fail(w, p, evidence)
  <2> PICK evidence \in BOOLEAN : Fail(w, p, evidence)
    BY <1>9
  <2>1. /\ Begin(w, p, "claim", "FAILED", evidence)
        /\ payouts[p].status \in {"PENDING", "PROCESSING", "SENT"}
        /\ payouts[p].status = "SENT" => evidence
    BY DEF Fail
  <2> QED BY <1>2, <1>3, <1>5, <2>1
<1>10. CASE MarkReturned(w, p)
  BY <1>2, <1>3, <1>5, <1>10 DEF MarkReturned
<1> QED BY <1>2, <1>3, <1>4, <1>6, <1>7, <1>8, <1>9, <1>10

\* What one posting may change, when no call fails.
LEMMA PostHolds ==
  ASSUME MaxErrors = 0, ClaimInv, NEW w \in Worker, jobs[w] \in Running,
         NEW kind \in Kinds, NEW n \in Nat, NEW next,
         Post(w, kind, n, next), kind \in {"net", "fee"} \/ n > 0,
         next = "idle" \/ (next \in Steps \ {"evidence", "extinguish"}),
         next \in {"price", "net", "fee", "record", "undo"}
           => jobs[w].to = "PROCESSING",
         next \in {"restore", "restoreFee"} => jobs[w].at \in {"restore", "restoreFee"},
         kind = "confirm" => jobs[w].at = "extinguish" /\ n = ledger[jobs[w].payout].net,
         kind = "reverse" => jobs[w].at = "restore" /\ n = ledger[jobs[w].payout].net,
         kind = "reverseFee" => jobs[w].at = "restoreFee" /\ n = ledger[jobs[w].payout].fee
  PROVE  ClaimInv' /\ Lasting
<1> DEFINE p == jobs[w].payout
<1>1. Goto(w, next) /\ UNCHANGED payouts
  BY DEF Post, ClaimInv, TypeOK
<1>2. TypeOK'
  BY PostType DEF ClaimInv
<1>3. MovesWhatWasPosted'
  BY PostKeepsMoves DEF ClaimInv
<1>4. HandlerHolds(jobs[w]) /\ p \in Payout
  BY DEF ClaimInv, Running
<1>5. Lasting
  BY <1>1 DEF Lasting
<1>6. \A q \in Payout : RowDecided(q)'
  <2> SUFFICES ASSUME NEW q \in Payout PROVE RowDecided(q)'
    OBVIOUS
  <2>1. \A k \in {"confirm", "reverse", "reverseFee"} :
          q # p \/ k # kind => ledger'[q][k] = ledger[q][k]
    BY PostFacts DEF ClaimInv, Kinds
  <2>2. RowDecided(q)
    BY DEF ClaimInv
  <2> QED BY <1>1, <1>4, <2>1, <2>2 DEF RowDecided, GivenBack, HandlerHolds
<1>7. /\ jobs'[w].at \in Steps => HandlerHolds(jobs[w])'
      /\ \A v \in Worker : v # w => jobs'[v] = jobs[v]
  BY <1>1, <1>4, HoldsAfterGoto DEF HandlerHolds
<1>8. \A v \in Worker : jobs'[v].at \in Steps => HandlerHolds(jobs[v])'
  BY <1>5, <1>7, OthersStillHold
<1> QED BY <1>2, <1>3, <1>5, <1>6, <1>8 DEF ClaimInv

\* A step that leaves the ledger alone.
LEMMA RowStepHolds ==
  ASSUME ClaimInv, TypeOK', Lasting, UNCHANGED ledger, NEW w \in Worker,
         \A v \in Worker : v # w => jobs'[v] = jobs[v],
         jobs'[w].at \in Steps => HandlerHolds(jobs[w])',
         \A p \in Payout : RowDecided(p)'
  PROVE  ClaimInv'
<1>1. \A v \in Worker : jobs'[v].at \in Steps => HandlerHolds(jobs[v])'
  BY OthersStillHold
<1> QED BY <1>1 DEF ClaimInv, MovesWhatWasPosted

LEMMA EvidenceFacts ==
  ASSUME payouts \in [Payout -> Row], NEW p \in Payout,
         payouts' = [payouts EXCEPT ![p].evidence = TRUE], NEW q \in Payout
  PROVE  /\ payouts'[q].status = payouts[q].status
         /\ payouts'[q].sent = payouts[q].sent
         /\ payouts[q].evidence => payouts'[q].evidence
         /\ q = p => payouts'[q].evidence
         /\ q # p => payouts'[q] = payouts[q]
<1>1. CASE q = p
  BY <1>1 DEF Row
<1>2. CASE q # p
  BY <1>2 DEF Row
<1> QED BY <1>1, <1>2

LEMMA ContinueHolds ==
  ASSUME MaxErrors = 0, ClaimInv, NEW w \in Worker, Continue(w)
  PROVE  ClaimInv' /\ Lasting
<1> DEFINE j == jobs[w]
<1>0. TypeOK /\ TypeOK' /\ j \in Job
  BY ContinueType DEF ClaimInv, TypeOK
<1>a. j.at \in Steps => /\ j \in Running
                        /\ j.payout \in Payout
                        /\ j.fee \in Nat
                        /\ HandlerHolds(j)
                        /\ RowDecided(j.payout)
  BY <1>0, JobKinds DEF Running, ClaimInv
<1>c. payouts \in [Payout -> Row] /\ payouts' \in [Payout -> Row]
  BY <1>0 DEF TypeOK
<1>d. \A p \in Payout : RowDecided(p)
  BY DEF ClaimInv
<1>1. CASE Insert(w)
  <2>1. j.payout \in Payout
    BY <1>0, <1>1, JobKinds DEF Insert, Inserting
  <2>2. \A p \in Payout :
          payouts'[p] # payouts[p] =>
            payouts[p].status = "NONE" /\ payouts'[p].status = "PENDING"
            /\ ~ payouts'[p].sent /\ ~ payouts'[p].evidence
    BY <1>1, <1>c, <2>1 DEF Insert, NoRow
  <2>3. UNCHANGED ledger /\ Goto(w, "idle")
    BY <1>1 DEF Insert
  <2>4. Lasting /\ \A p \in Payout : RowDecided(p)'
    BY <1>d, <2>2, <2>3 DEF Lasting, RowDecided, GivenBack, Terminal
  <2> QED BY <1>0, <2>3, <2>4, HoldsAfterGoto, RowStepHolds
<1>2. CASE Claim(w)
  <2>1. /\ j \in Running /\ j.payout \in Payout /\ HandlerHolds(j)
        /\ j.at = "claim" /\ UNCHANGED ledger
    BY <1>2, <1>a DEF Claim, Steps
  <2>2. \A p \in Payout :
          /\ payouts'[p].evidence = payouts[p].evidence
          /\ p # j.payout \/ payouts[p].status # j.seen => payouts'[p] = payouts[p]
          /\ p = j.payout /\ payouts[p].status = j.seen =>
               /\ payouts'[p].status = j.to
               /\ payouts'[p].sent = (payouts[p].sent \/ j.to = "SENT")
    BY <1>2, <1>c, <2>1, MovedRowFacts DEF Claim
  <2>3. Lasting
    BY <2>1, <2>2 DEF Lasting, Terminal, HandlerHolds
  <2>4. \A p \in Payout : RowDecided(p)'
    BY <1>d, <2>1, <2>2 DEF RowDecided, GivenBack, HandlerHolds, Terminal
  <2>5. CASE payouts[j.payout].status = j.seen
    <3>1. Goto(w, AfterClaim(j))
      BY <1>2, <2>5 DEF Claim
    <3>2. /\ payouts'[j.payout].status = j.to
          /\ payouts'[j.payout].sent = (payouts[j.payout].sent \/ j.to = "SENT")
      BY <2>1, <2>2, <2>5
    <3>3. j.to \in {"PROCESSING", "SENT", "CONFIRMED", "FAILED", "RETURNED"}
      BY <2>1 DEF HandlerHolds, Terminal
    <3>4. /\ AfterClaim(j) \in {"price", "idle", "extinguish", "evidence", "restore"}
          /\ AfterClaim(j) = "price" <=> j.to = "PROCESSING"
          /\ AfterClaim(j) = "extinguish" <=> j.to = "CONFIRMED"
          /\ AfterClaim(j) \in {"evidence", "restore"} <=> j.to \in {"FAILED", "RETURNED"}
          /\ AfterClaim(j) = "restore" => ~ j.evidence
      BY <3>3 DEF AfterClaim
    <3>5. AfterClaim(j) = "restore" => ~ payouts'[j.payout].sent
      BY <1>a, <2>1, <2>5, <3>2, <3>4 DEF HandlerHolds, RowDecided, Steps, Terminal
    <3>6. /\ jobs'[w].at \in Steps => HandlerHolds(jobs[w])'
          /\ \A v \in Worker : v # w => jobs'[v] = jobs[v]
      BY <2>1, <3>1, <3>2, <3>4, <3>5, HoldsAfterGoto DEF Steps
    <3> QED BY <1>0, <2>1, <2>3, <2>4, <3>6, RowStepHolds
  <2>6. CASE payouts[j.payout].status # j.seen
    BY <1>0, <1>2, <2>1, <2>3, <2>4, <2>6, HoldsAfterGoto, RowStepHolds DEF Claim
  <2> QED BY <2>5, <2>6
<1>3. CASE \E fee \in Fees : Price(w, fee)
  <2> PICK fee \in Fees : Price(w, fee)
    BY <1>3
  <2>1. j \in Running /\ j.payout \in Payout /\ HandlerHolds(j) /\ j.at = "price"
    BY <1>a DEF Price, Steps
  <2>2. /\ UNCHANGED ledger
        /\ \A p \in Payout : /\ payouts'[p].evidence = payouts[p].evidence
                             /\ payouts'[p].status = payouts[p].status
                             /\ payouts'[p].sent = payouts[p].sent
    BY <1>c, <2>1 DEF Price, Row
  <2>3. jobs'[w] = [j EXCEPT !.at = "net", !.fee = fee]
    BY <1>0 DEF Price, TypeOK
  <2>4. /\ jobs'[w].at = "net" /\ jobs'[w].payout = j.payout
        /\ jobs'[w].seen = j.seen /\ jobs'[w].to = j.to
        /\ jobs'[w].evidence = j.evidence
    BY <2>1, <2>3 DEF Running
  <2>5. HandlerHolds(jobs[w])'
    BY <2>1, <2>2, <2>4 DEF HandlerHolds
  <2>6. \A v \in Worker : v # w => jobs'[v] = jobs[v]
    BY <1>0 DEF Price, TypeOK
  <2>7. Lasting /\ \A p \in Payout : RowDecided(p)'
    BY <1>d, <2>2 DEF Lasting, RowDecided, GivenBack
  <2> QED BY <1>0, <2>2, <2>5, <2>6, <2>7, RowStepHolds
<1>4. CASE PriceRefused(w) \/ NetRefused(w)
  <2>1. /\ j \in Running /\ HandlerHolds(j)
        /\ j.at \in {"price", "net"} /\ Goto(w, OnError(j))
        /\ UNCHANGED <<payouts, ledger>>
    BY <1>4, <1>a DEF PriceRefused, NetRefused, Steps
  <2>2. OnError(j) \in {"idle", "undo"} /\ j.to = "PROCESSING"
    BY <2>1, RefusalUndoes
  <2>3. /\ jobs'[w].at \in Steps => HandlerHolds(jobs[w])'
        /\ \A v \in Worker : v # w => jobs'[v] = jobs[v]
    BY <2>1, <2>2, HoldsAfterGoto DEF Steps
  <2>4. Lasting /\ \A p \in Payout : RowDecided(p)'
    BY <1>d, <2>1 DEF Lasting, RowDecided, GivenBack
  <2> QED BY <1>0, <2>1, <2>3, <2>4, RowStepHolds
<1>5. CASE PostNet(w)
  <2> DEFINE net == payouts[j.payout].amount - j.fee
  <2>1. j.at = "net" /\ net > 0
    BY <1>5 DEF PostNet
  <2>2. /\ j \in Running /\ payouts[j.payout].amount \in Amounts \cup {0}
        /\ j.fee \in Nat /\ j.to = "PROCESSING"
    BY <1>a, <1>c, <2>1 DEF Steps, Row, HandlerHolds
  <2>3. net \in Nat
    BY <2>1, <2>2, AmountIsNat
  <2>4. PICK next \in {"fee", "record"} : Post(w, "net", net, next)
    BY <1>5 DEF PostNet
  <2> QED BY <2>1, <2>2, <2>3, <2>4, PostHolds DEF Kinds, Steps
<1>7. CASE PostFee(w)
  <2>1. /\ j.at = "fee" /\ j \in Running /\ j.fee \in Nat /\ j.to = "PROCESSING"
        /\ Post(w, "fee", j.fee, "record")
    BY <1>7, <1>a DEF PostFee, Steps, HandlerHolds
  <2> QED BY <2>1, PostHolds DEF Kinds, Steps
<1>8. CASE Record(w)
  <2>1. j \in Running /\ j.payout \in Payout /\ Goto(w, "idle") /\ UNCHANGED ledger
    BY <1>8, <1>a DEF Record, Steps
  <2>2. \A p \in Payout : /\ payouts'[p].status = payouts[p].status
                          /\ payouts'[p].sent = payouts[p].sent
                          /\ payouts'[p].evidence = payouts[p].evidence
    BY <1>8, <1>c, <2>1 DEF Record, Row
  <2>3. Lasting /\ \A p \in Payout : RowDecided(p)'
    BY <1>d, <2>1, <2>2 DEF Lasting, RowDecided, GivenBack
  <2> QED BY <1>0, <2>1, <2>3, HoldsAfterGoto, RowStepHolds
<1>9. CASE Extinguish(w)
  <2>1. /\ j.at = "extinguish" /\ j \in Running
        /\ ledger[j.payout].net \in Nat /\ ledger[j.payout].net > 0
        /\ Post(w, "confirm", ledger[j.payout].net, "idle")
    BY <1>0, <1>9, <1>a DEF Extinguish, Steps, TypeOK, Kinds
  <2> QED BY <2>1, PostHolds DEF Kinds, Steps
<1>10. CASE RecordEvidence(w)
  <2>1. /\ j \in Running /\ j.payout \in Payout /\ HandlerHolds(j)
        /\ j.at = "evidence" /\ Goto(w, "restore") /\ UNCHANGED ledger
    BY <1>10, <1>a DEF RecordEvidence, Steps
  <2>2. \A p \in Payout : /\ payouts'[p].status = payouts[p].status
                          /\ payouts'[p].sent = payouts[p].sent
                          /\ payouts[p].evidence => payouts'[p].evidence
                          /\ p = j.payout => payouts'[p].evidence
                          /\ p # j.payout => payouts'[p] = payouts[p]
    BY <1>10, <1>c, <2>1, EvidenceFacts DEF RecordEvidence
  <2>3. Lasting /\ \A p \in Payout : RowDecided(p)'
    BY <1>d, <2>1, <2>2 DEF Lasting, RowDecided, GivenBack, HandlerHolds
  <2>4. /\ jobs'[w].at \in Steps => HandlerHolds(jobs[w])'
        /\ \A v \in Worker : v # w => jobs'[v] = jobs[v]
    BY <2>1, <2>2, HoldsAfterGoto DEF Steps, HandlerHolds
  <2> QED BY <1>0, <2>1, <2>3, <2>4, RowStepHolds
<1>11. CASE Restore(w)
  <2>1. /\ j \in Running /\ j.payout \in Payout /\ HandlerHolds(j)
        /\ j.at = "restore" /\ ledger[j.payout].net \in Nat
    BY <1>0, <1>11, <1>a DEF Restore, Steps, TypeOK, Kinds
  <2>2. CASE ledger[j.payout].net > 0 /\ Post(w, "reverse", ledger[j.payout].net, "restoreFee")
    BY <2>1, <2>2, PostHolds DEF Kinds, Steps
  <2>3. CASE Goto(w, "restoreFee") /\ UNCHANGED <<payouts, ledger, errors, aborts>>
    <3>1. /\ jobs'[w].at \in Steps => HandlerHolds(jobs[w])'
          /\ \A v \in Worker : v # w => jobs'[v] = jobs[v]
      BY <2>1, <2>3, HoldsAfterGoto DEF Steps, HandlerHolds
    <3>2. Lasting /\ \A p \in Payout : RowDecided(p)'
      BY <1>d, <2>3 DEF Lasting, RowDecided, GivenBack
    <3> QED BY <1>0, <2>3, <3>1, <3>2, RowStepHolds
  <2> QED BY <1>11, <2>2, <2>3 DEF Restore, Reverse
<1>12. CASE RestoreFee(w)
  <2>1. /\ j \in Running /\ j.payout \in Payout
        /\ j.at = "restoreFee" /\ ledger[j.payout].fee \in Nat
    BY <1>0, <1>12, <1>a DEF RestoreFee, Steps, TypeOK, Kinds
  <2>2. CASE ledger[j.payout].fee > 0 /\ Post(w, "reverseFee", ledger[j.payout].fee, "idle")
    BY <2>1, <2>2, PostHolds DEF Kinds, Steps
  <2>3. CASE Goto(w, "idle") /\ UNCHANGED <<payouts, ledger, errors, aborts>>
    <3>1. Lasting /\ \A p \in Payout : RowDecided(p)'
      BY <1>d, <2>3 DEF Lasting, RowDecided, GivenBack
    <3> QED BY <1>0, <2>3, <3>1, HoldsAfterGoto, RowStepHolds
  <2> QED BY <1>12, <2>2, <2>3 DEF RestoreFee, Reverse
<1>13. CASE Undo(w)
  <2>1. /\ j \in Running /\ j.payout \in Payout /\ HandlerHolds(j)
        /\ j.to = "PROCESSING" /\ j.seen \in {"PENDING", "PROCESSING"}
        /\ UNCHANGED ledger /\ Goto(w, "idle")
    BY <1>13, <1>a DEF Undo, Steps, HandlerHolds
  <2>2. \A p \in Payout :
          /\ payouts'[p].evidence = payouts[p].evidence
          /\ p # j.payout \/ payouts[p].status # j.to => payouts'[p] = payouts[p]
          /\ p = j.payout /\ payouts[p].status = j.to =>
               /\ payouts'[p].status = j.seen
               /\ payouts'[p].sent = (payouts[p].sent \/ j.seen = "SENT")
    BY <1>13, <1>c, <2>1, MovedRowFacts DEF Undo
  <2>3. Lasting
    BY <2>1, <2>2 DEF Lasting, Terminal
  <2>4. \A p \in Payout : RowDecided(p)'
    BY <1>d, <1>c, <2>1, <2>2 DEF RowDecided, GivenBack, Terminal, Row
  <2> QED BY <1>0, <2>1, <2>3, <2>4, HoldsAfterGoto, RowStepHolds
<1> QED
  BY <1>1, <1>2, <1>3, <1>4, <1>5, <1>7, <1>8, <1>9, <1>10, <1>11,
     <1>12, <1>13 DEF Continue

LEMMA FaultHolds ==
  ASSUME MaxErrors = 0, ClaimInv, NEW w \in Worker, DbError(w) \/ Abort(w)
  PROVE  ClaimInv' /\ Lasting /\ UNCHANGED ledger
<1>1. Goto(w, "idle") /\ UNCHANGED <<payouts, ledger>>
  BY DEF DbError, Abort, ClaimInv, TypeOK
<1>2. Lasting /\ \A p \in Payout : RowDecided(p)'
  BY <1>1 DEF ClaimInv, Lasting, RowDecided, GivenBack
<1> QED BY <1>1, <1>2, FaultType, HoldsAfterGoto, RowStepHolds DEF ClaimInv

LEMMA ClaimInvInit == Init => ClaimInv
<1> SUFFICES ASSUME Init PROVE ClaimInv
  OBVIOUS
<1>1. MovesWhatWasPosted
  BY DEF Init, MovesWhatWasPosted, Kinds
<1>2. \A p \in Payout : RowDecided(p)
  BY DEF Init, RowDecided, GivenBack, NoRow, Kinds
<1> QED BY <1>1, <1>2, InitType DEF Init, ClaimInv, Idle, Steps

LEMMA ClaimInvNext ==
  ASSUME MaxErrors = 0, ClaimInv, [Next]_vars
  PROVE  ClaimInv' /\ Lasting
<1>1. CASE UNCHANGED vars
  BY <1>1 DEF vars, ClaimInv, TypeOK, MovesWhatWasPosted, RowDecided, GivenBack,
              HandlerHolds, Lasting
<1>2. CASE Next
  BY <1>2, CallHolds, ContinueHolds, FaultHolds DEF Next
<1> QED BY <1>1, <1>2

LEMMA ClaimInvHolds == MaxErrors = 0 => (Spec => []ClaimInv)
<1> SUFFICES ASSUME MaxErrors = 0 PROVE Spec => []ClaimInv
  OBVIOUS
<1>1. ClaimInv /\ [Next]_vars => ClaimInv'
  BY ClaimInvNext
<1> QED BY <1>1, ClaimInvInit, PTL DEF Spec

\* Without failed database calls, no interleaving and no dropped handler lets
\* the bank pay a withdrawal whose money, or fee, was given back.
THEOREM NeverRestoredAndPaidHolds ==
  MaxErrors = 0 => (Spec => []NeverRestoredAndPaid)
<1> SUFFICES ASSUME MaxErrors = 0 PROVE Spec => []NeverRestoredAndPaid
  OBVIOUS
<1>1. ClaimInv => NeverRestoredAndPaid
  <2> SUFFICES ASSUME ClaimInv, NEW p \in Payout, ledger[p].confirm > 0
               PROVE  ledger[p].reverse = 0 /\ ledger[p].reverseFee = 0
    BY DEF NeverRestoredAndPaid
  <2>1. RowDecided(p) /\ ledger[p].reverse \in Nat /\ ledger[p].reverseFee \in Nat
    BY DEF ClaimInv, TypeOK, Kinds
  <2> QED BY <2>1 DEF RowDecided, GivenBack
<1> QED BY <1>1, ClaimInvHolds, PTL

\* Without failed database calls, what the rail had in its hands is given back
\* only once its evidence is recorded.
THEOREM RestoredOnEvidenceHolds ==
  MaxErrors = 0 => (Spec => []RestoredOnEvidence)
<1> SUFFICES ASSUME MaxErrors = 0 PROVE Spec => []RestoredOnEvidence
  OBVIOUS
<1>1. ClaimInv => RestoredOnEvidence
  BY DEF ClaimInv, RestoredOnEvidence, RowDecided, GivenBack
<1> QED BY <1>1, ClaimInvHolds, PTL

\* Without failed database calls, a terminal status is never left.
THEOREM TerminalIsFinalHolds == MaxErrors = 0 => (Spec => TerminalIsFinal)
<1> SUFFICES ASSUME MaxErrors = 0 PROVE Spec => TerminalIsFinal
  OBVIOUS
<1>1. ClaimInv /\ [Next]_vars =>
        [\A p \in Payout :
           payouts[p].status \in {"CONFIRMED", "FAILED", "RETURNED"} =>
             payouts'[p].status = payouts[p].status]_vars
  BY ClaimInvNext DEF Lasting, Terminal
<1> QED BY <1>1, ClaimInvHolds, PTL DEF Spec, TerminalIsFinal

-----------------------------------------------------------------------------
(* Refinement: every step is a step of the abstract withdrawal.            *)

LEMMA NewPostingSimulates ==
  ASSUME ClaimInv, NEW p \in Payout, NEW kind \in Kinds, NEW n \in Nat, n > 0,
         ledger[p][kind] = 0,
         ledger' = [ledger EXCEPT ![p][kind] = n],
         kind = "confirm" => /\ ledger[p].net > 0
                             /\ payouts[p].status = "CONFIRMED",
         kind = "reverse" => ledger[p].net > 0,
         kind \in {"reverse", "reverseFee"} =>
           payouts[p].status \in {"FAILED", "RETURNED"}
  PROVE  [W!Next]_(W!vars)
<1>0. /\ ledger \in [Payout -> [Kinds -> Nat]]
      /\ \A k \in Kinds : ledger[p][k] \in Nat
  BY DEF ClaimInv, TypeOK
<1>1. /\ ledger'[p][kind] = n
      /\ \A k \in Kinds : k # kind => ledger'[p][k] = ledger[p][k]
      /\ \A q \in Payout : q # p => ledger'[q] = ledger[q]
  BY <1>0
<1>2. /\ ledger[p].confirm > 0 => payouts[p].status = "CONFIRMED"
      /\ GivenBack(p) => payouts[p].status \in {"FAILED", "RETURNED"}
      /\ ledger[p].reverse \in {0, ledger[p].net}
      /\ ledger[p].confirm \in {0, ledger[p].net}
  BY DEF ClaimInv, RowDecided, MovesWhatWasPosted
<1> DEFINE position == [q \in Payout |-> Position(q)]
           feeBack == {q \in Payout : ledger[q].reverseFee > 0}
<1>3. /\ position' = [q \in Payout |-> Position(q)']
      /\ \A q \in Payout : q # p => Position(q)' = Position(q)
  BY <1>1 DEF Position
<1>4. kind # "reverseFee" => feeBack' = feeBack
  <2>1. kind # "reverseFee" => \A q \in Payout : ledger'[q].reverseFee = ledger[q].reverseFee
    BY <1>1 DEF Kinds
  <2> QED BY <2>1
<1>5. ASSUME NEW to, Position(p)' = to
      PROVE  position' = [position EXCEPT ![p] = to]
  BY <1>3, <1>5
<1>6. CASE kind = "net"
  <2>1. Position(p) = "owed" /\ Position(p)' = "inFlight"
    BY <1>0, <1>1, <1>2, <1>6 DEF Position, Kinds
  <2> QED BY <1>4, <1>5, <1>6, <2>1 DEF W!Next, W!Reserve
<1>7. CASE kind = "confirm"
  <2>1. ~ GivenBack(p)
    BY <1>2, <1>7
  <2>2. Position(p) = "inFlight" /\ Position(p)' = "paid" /\ p \notin feeBack
    BY <1>0, <1>1, <1>7, <2>1 DEF Position, GivenBack, Kinds
  <2> QED BY <1>4, <1>5, <1>7, <2>2 DEF W!Next, W!Pay
<1>8. CASE kind = "reverse"
  <2>1. Position(p) = "inFlight" /\ Position(p)' = "restored"
    BY <1>0, <1>1, <1>2, <1>8 DEF Position, Kinds
  <2> QED BY <1>4, <1>5, <1>8, <2>1 DEF W!Next, W!Restore
<1>9. CASE kind = "reverseFee"
  <2>1. Position(p) # "paid" /\ Position(p)' = Position(p)
    BY <1>0, <1>1, <1>2, <1>9 DEF Position, Kinds
  <2>2. feeBack' = feeBack \cup {p}
    BY <1>1, <1>9
  <2>3. position' = position
    BY <1>3, <2>1
  <2> QED BY <2>1, <2>2, <2>3 DEF W!Next, W!ReturnFee
<1>10. CASE kind = "fee"
  <2>1. Position(p)' = Position(p)
    BY <1>1, <1>10 DEF Position, Kinds
  <2>2. position' = position
    BY <1>3, <2>1
  <2> QED BY <1>4, <1>10, <2>2 DEF W!vars
<1> QED BY <1>6, <1>7, <1>8, <1>9, <1>10 DEF Kinds

LEMMA PostSimulates ==
  ASSUME ClaimInv, NEW w \in Worker, jobs[w] \in Running, HandlerHolds(jobs[w]),
         NEW kind \in Kinds, NEW n \in Nat, n > 0, NEW next, Post(w, kind, n, next),
         kind = "confirm" => /\ ledger[jobs[w].payout].net > 0
                             /\ jobs[w].at = "extinguish",
         kind = "reverse" => ledger[jobs[w].payout].net > 0,
         kind \in {"reverse", "reverseFee"} => jobs[w].at \in {"restore", "restoreFee"}
  PROVE  [W!Next]_(W!vars)
<1> DEFINE p == jobs[w].payout
<1>1. p \in Payout /\ ledger \in [Payout -> [Kinds -> Nat]]
  BY DEF Running, ClaimInv, TypeOK
<1>2. ledger' = [ledger EXCEPT ![p][kind] = IF ledger[p][kind] = 0 THEN n ELSE ledger[p][kind]]
  BY <1>1 DEF Post
<1>3. CASE ledger[p][kind] = 0
  <2>1. ledger' = [ledger EXCEPT ![p][kind] = n]
    BY <1>2, <1>3
  <2> QED BY <1>1, <1>3, <2>1, NewPostingSimulates DEF HandlerHolds
<1>4. CASE ledger[p][kind] # 0
  <2>1. ledger' = ledger
    BY <1>1, <1>2, <1>4
  <2> QED BY <2>1 DEF W!vars, Position
<1> QED BY <1>3, <1>4

LEMMA StepSimulates ==
  ASSUME ClaimInv, [Next]_vars
  PROVE  [W!Next]_(W!vars)
<1>1. CASE UNCHANGED ledger
  BY <1>1 DEF W!vars, Position
<1>2. ASSUME NEW w \in Worker, Continue(w), ledger' # ledger
      PROVE  [W!Next]_(W!vars)
  <2>1. jobs[w].at \in Steps =>
          /\ jobs[w] \in Running
          /\ HandlerHolds(jobs[w])
          /\ jobs[w].payout \in Payout
          /\ jobs[w].fee \in Nat
          /\ payouts[jobs[w].payout] \in Row
          /\ \A k \in Kinds : ledger[jobs[w].payout][k] \in Nat
    BY JobKinds DEF ClaimInv, TypeOK, Running
  <2>2. CASE PostNet(w)
    <3> DEFINE net == payouts[jobs[w].payout].amount - jobs[w].fee
    <3>1. jobs[w].at = "net" /\ net > 0
      BY <2>2 DEF PostNet
    <3>2. payouts[jobs[w].payout].amount \in Amounts \cup {0}
      BY <2>1, <3>1 DEF Steps, Row
    <3>3. net \in Nat
      BY <2>1, <3>1, <3>2, AmountIsNat DEF Steps
    <3>4. PICK next : Post(w, "net", net, next)
      BY <2>2 DEF PostNet
    <3> QED BY <2>1, <3>1, <3>3, <3>4, PostSimulates DEF Kinds, Steps
  <2>3. CASE PostFee(w)
    <3>1. CASE jobs[w].fee > 0
      BY <2>1, <2>3, <3>1, PostSimulates DEF PostFee, Kinds, Steps
    <3>2. CASE jobs[w].fee = 0
      <4>1. ledger' = ledger
        BY <2>1, <2>3, <3>2 DEF PostFee, Post, ClaimInv, TypeOK, Kinds, Steps
      <4> QED BY <1>2, <4>1
    <3> QED BY <2>1, <2>3, <3>1, <3>2 DEF PostFee, Steps
  <2>4. CASE Extinguish(w)
    BY <2>1, <2>4, PostSimulates DEF Extinguish, Kinds, Steps
  <2>5. CASE Restore(w)
    BY <1>2, <2>1, <2>5, PostSimulates DEF Restore, Reverse, Kinds, Steps
  <2>6. CASE RestoreFee(w)
    BY <1>2, <2>1, <2>6, PostSimulates DEF RestoreFee, Reverse, Kinds, Steps
  <2> QED BY <1>2, <2>2, <2>3, <2>4, <2>5, <2>6
          DEF Continue, Insert, Claim, Price, PriceRefused, NetRefused, Record,
              RecordEvidence, Undo
<1>3. ASSUME NEW w \in Worker, Call(w) PROVE UNCHANGED ledger
  BY <1>3 DEF Call, Initiate, Process, MarkSent, Confirm, Fail, MarkReturned, Begin
<1>4. ASSUME NEW w \in Worker, DbError(w) \/ Abort(w) PROVE UNCHANGED ledger
  BY <1>4 DEF DbError, Abort
<1> QED BY <1>1, <1>2, <1>3, <1>4 DEF Next, vars

\* Without failed database calls, the engine implements the withdrawal that is
\* paid out or given back, never both, for any number of payouts and handlers.
THEOREM PayoutsImplementWithdrawal ==
  MaxErrors = 0 => (Spec => ImplementsWithdrawal)
<1> SUFFICES ASSUME MaxErrors = 0 PROVE Spec => W!Spec
  BY DEF ImplementsWithdrawal
<1>1. Init => W!Init
  BY DEF Init, W!Init, Position, Kinds
<1>2. ClaimInv /\ [Next]_vars => [W!Next]_(W!vars)
  BY StepSimulates
<1> QED BY <1>1, <1>2, ClaimInvHolds, PTL DEF Spec, W!Spec

=============================================================================
