------------------------ MODULE PaymentSessionsProofs ------------------------
(***************************************************************************)
(* Theorems about PaymentSessions for every set of sessions, payers and    *)
(* handlers and every number of failures, checked by TLAPS.                *)
(***************************************************************************)
EXTENDS PaymentSessions, FiniteSetTheorems, TLAPS

Busy(w) == jobs[w] # Idle

\* A handler's request: what a payment claims to pay is the session it works on.
Asked(j) ==
  /\ j.call \in Rails \cup {"cancel", "linkCancel"}
  /\ j.call \in Rails =>
       /\ j.payment \in Payment
       /\ j.payment.session = j.session
       /\ j.payment.via = j.call
  /\ j.call \notin Rails => j.payment = NoPayment

\* Which requests come to which statement, and what they have locked by then.
Placed(j) ==
  /\ j.at = "transfer" => j.call = "link"
  /\ j.at = "write" => j.call = "linkCancel"
  /\ j.at = "claim" => j.call \in Rails
  /\ j.at \in {"session", "siblings"} => j.call \in Rails \cup {"cancel"}
  /\ j.at = "record" => j.call = "qr"
  /\ j.at \notin {"session", "siblings"} => j.locked = {}
  /\ j.at \in {"session", "siblings"} /\ j.call \in {"link", "qr"} =>
       OwnRow[j.call] \in j.locked
  /\ j.at = "session" => "session" \notin j.locked
  /\ "session" \notin j.locked /\ j.call \in Rails => j.locked \subseteq {OwnRow[j.call]}
  /\ "session" \notin j.locked /\ j.call \notin Rails => j.locked = {}

\* Money a request has behind it before it records it.
Backed(j) ==
  /\ j.call = "link" /\ j.at \in {"claim", "session", "siblings"} => j.payment \in moved
  /\ j.at = "record" => j.payment \in moved

\* What a row was when it was locked it still is; a hosted payment that went on
\* without its link found one that will never be paid.
Found(j) ==
  /\ \A part \in j.locked :
       \/ rows[j.session][part] = "ACTIVE"
       \/ part = "link" /\ j.call = "hosted"
  /\ j.call = "hosted" /\ j.at \in {"session", "siblings"} /\ "link" \notin j.locked =>
       rows[j.session].link # "ACTIVE"

\* A row is locked by one handler at most.
OneHolder ==
  \A v, w \in Worker :
    v # w /\ Busy(v) /\ Busy(w) /\ jobs[v].session = jobs[w].session =>
      jobs[v].locked \cap jobs[w].locked = {}

JobsOK == \A w \in Worker : Busy(w) =>
  Asked(jobs[w]) /\ Placed(jobs[w]) /\ Backed(jobs[w]) /\ Found(jobs[w])

Inv ==
  /\ TypeOK
  /\ JobsOK
  /\ OneHolder
  /\ InterfacesEndWithTheSession
  /\ PaidIsAnnounced

Work == [at : Steps, call : Operations, session : Session,
         payment : Payment \cup {NoPayment}, locked : SUBSET Parts]

LEMMA JobKinds ==
  ASSUME NEW j \in Job
  PROVE  /\ j # Idle => j \in Work
         /\ j.at \in Steps => j \in Work /\ j # Idle
         /\ j \in Work => j # Idle
BY DEF Job, Work, Idle, Steps

LEMMA RowKinds ==
  ASSUME NEW r \in Rows
  PROVE  /\ r.session \in {"ACTIVE", "PAID", "CANCELLED"}
         /\ r.link \in {"ACTIVE", "USED", "CANCELLED", "EXPIRED"}
         /\ r.qr \in {"ACTIVE", "USED", "EXPIRED"}
         /\ r["session"] = r.session /\ r["link"] = r.link /\ r["qr"] = r.qr
BY DEF Rows

\* What a transaction leaves in the rows it has locked.
LEMMA EndedFacts ==
  ASSUME NEW call
  PROVE  /\ Ended(call).session \in {"PAID", "CANCELLED"}
         /\ Ended(call).session = "PAID" <=> call # "cancel"
         /\ Ended(call).link \in {"USED", "CANCELLED"}
         /\ Ended(call).qr \in {"USED", "EXPIRED"}
         /\ \A part \in Parts : Ended(call)[part] # "ACTIVE"
BY DEF Ended, Parts

-----------------------------------------------------------------------------
(* What a step of one handler does to the others.                          *)

\* Rows do not become ACTIVE again, and what others have locked stays.
LEMMA OthersStay ==
  ASSUME Inv, NEW v \in Worker, Busy(v), jobs'[v] = jobs[v],
         moved \subseteq moved',
         rows[jobs[v].session].link # "ACTIVE" => rows'[jobs[v].session].link # "ACTIVE",
         \A part \in jobs[v].locked : rows'[jobs[v].session][part] = rows[jobs[v].session][part]
  PROVE  /\ Busy(v)'
         /\ Asked(jobs[v])' /\ Placed(jobs[v])' /\ Backed(jobs[v])' /\ Found(jobs[v])'
<1>1. Asked(jobs[v]) /\ Placed(jobs[v]) /\ Backed(jobs[v]) /\ Found(jobs[v])
  BY DEF Inv, JobsOK
<1>2. Busy(v)' /\ Asked(jobs[v])' /\ Placed(jobs[v])'
  BY <1>1 DEF Busy, Asked, Placed
<1>3. Backed(jobs[v])'
  BY <1>1 DEF Backed
<1>4. Found(jobs[v])'
  BY <1>1 DEF Found
<1> QED BY <1>2, <1>3, <1>4

\* A step of handler w that changes no row another handler has locked.
LEMMA HandlerStep ==
  ASSUME Inv, TypeOK', NEW w \in Worker,
         \A v \in Worker \ {w} : jobs'[v] = jobs[v],
         moved \subseteq moved',
         \A s \in Session : rows[s].link # "ACTIVE" => rows'[s].link # "ACTIVE",
         \A v \in Worker \ {w} : Busy(v) =>
           \A part \in jobs[v].locked :
             rows'[jobs[v].session][part] = rows[jobs[v].session][part],
         Busy(w)' => /\ Asked(jobs[w])' /\ Placed(jobs[w])' /\ Backed(jobs[w])'
                     /\ Found(jobs[w])',
         Busy(w)' => \A v \in Worker \ {w} :
           Busy(v) /\ jobs[v].session = jobs'[w].session =>
             jobs[v].locked \cap jobs'[w].locked = {}
  PROVE  JobsOK' /\ OneHolder'
<1>1. \A v \in Worker : Busy(v) => jobs[v].session \in Session
  BY JobKinds DEF Inv, TypeOK, Busy, Work
<1>2. \A v \in Worker \ {w} : Busy(v) =>
        Asked(jobs[v])' /\ Placed(jobs[v])' /\ Backed(jobs[v])' /\ Found(jobs[v])'
  BY <1>1, OthersStay
<1>3. \A v \in Worker \ {w} : Busy(v)' => Busy(v)
  BY DEF Busy
<1>4. JobsOK'
  BY <1>2, <1>3 DEF JobsOK
<1>5. OneHolder
  BY DEF Inv
<1>6. ASSUME NEW u \in Worker, NEW v \in Worker,
             u # v, Busy(u)', Busy(v)', jobs'[u].session = jobs'[v].session
      PROVE  jobs'[u].locked \cap jobs'[v].locked = {}
  <2>1. CASE u # w /\ v # w
    BY <1>3, <1>5, <1>6, <2>1 DEF OneHolder
  <2>2. CASE u = w
    BY <1>3, <1>6, <2>2
  <2>3. CASE v = w
    BY <1>3, <1>6, <2>3
  <2> QED BY <2>1, <2>2, <2>3
<1>7. OneHolder'
  BY <1>6 DEF OneHolder
<1> QED BY <1>4, <1>7

\* A step outside the handlers.
LEMMA OutsideStep ==
  ASSUME Inv, TypeOK', jobs' = jobs, moved \subseteq moved',
         \A s \in Session : rows[s].link # "ACTIVE" => rows'[s].link # "ACTIVE",
         \A v \in Worker : Busy(v) =>
           \A part \in jobs[v].locked :
             rows'[jobs[v].session][part] = rows[jobs[v].session][part]
  PROVE  JobsOK' /\ OneHolder'
<1>1. \A v \in Worker : Busy(v) => jobs[v].session \in Session
  BY JobKinds DEF Inv, TypeOK, Busy, Work
<1>2. \A v \in Worker : Busy(v) =>
        Asked(jobs[v])' /\ Placed(jobs[v])' /\ Backed(jobs[v])' /\ Found(jobs[v])'
  BY <1>1, OthersStay
<1>3. JobsOK'
  BY <1>2 DEF JobsOK, Busy
<1>4. OneHolder'
  BY DEF Inv, OneHolder, Busy
<1> QED BY <1>3, <1>4

\* A step that decides nothing.
LEMMA DecidesNothing ==
  ASSUME Inv, event' = event, moved \subseteq moved', recorded \subseteq recorded',
         \A s \in Session :
           /\ rows'[s].session = rows[s].session
           /\ rows[s].link # "ACTIVE" => rows'[s].link # "ACTIVE"
           /\ rows[s].qr # "ACTIVE" => rows'[s].qr # "ACTIVE"
  PROVE  InterfacesEndWithTheSession' /\ PaidIsAnnounced'
<1>1. InterfacesEndWithTheSession'
  BY DEF Inv, InterfacesEndWithTheSession
<1>2. PaidIsAnnounced'
  BY DEF Inv, PaidIsAnnounced
<1> QED BY <1>1, <1>2

-----------------------------------------------------------------------------
(* The steps that leave the rows alone.                                    *)

\* A step of handler w that changes no row: what is left to show is its request.
LEMMA QuietStep ==
  ASSUME Inv, NEW w \in Worker, DOMAIN jobs' = Worker, jobs'[w] \in Job,
         \A v \in Worker \ {w} : jobs'[v] = jobs[v], jobs' \in [Worker -> Job],
         rows' = rows, overtaken' = overtaken,
         late' = late, event' = event, drops' \in 0 .. MaxDrops,
         moved \subseteq moved', moved' \subseteq Payment,
         recorded \subseteq recorded', recorded' \subseteq moved',
         unconfirmed' \subseteq moved',
         Busy(w)' => /\ Asked(jobs[w])' /\ Placed(jobs[w])' /\ Backed(jobs[w])'
                     /\ Found(jobs[w])',
         Busy(w)' => \A v \in Worker \ {w} :
           Busy(v) /\ jobs[v].session = jobs'[w].session =>
             jobs[v].locked \cap jobs'[w].locked = {}
  PROVE  Inv'
<1>1. TypeOK'
  BY DEF Inv, TypeOK
<1>2. JobsOK' /\ OneHolder'
  BY <1>1, HandlerStep
<1>3. InterfacesEndWithTheSession' /\ PaidIsAnnounced'
  BY DecidesNothing
<1> QED BY <1>1, <1>2, <1>3 DEF Inv

\* What is known of a handler's request.
LEMMA AtWork ==
  ASSUME Inv, NEW w \in Worker, Busy(w)
  PROVE  /\ jobs[w] \in Work
         /\ On(w) \in Session
         /\ rows[On(w)] \in Rows
         /\ Asked(jobs[w]) /\ Placed(jobs[w]) /\ Backed(jobs[w]) /\ Found(jobs[w])
BY JobKinds DEF Inv, TypeOK, JobsOK, Busy, Work, On

\* The request after it went to another statement with its locks.
LEMMA GotoStep ==
  ASSUME Inv, NEW w \in Worker, Busy(w), NEW step \in Steps, Goto(w, step)
  PROVE  /\ jobs'[w] = [jobs[w] EXCEPT !.at = step]
         /\ jobs'[w].at = step /\ jobs'[w].call = jobs[w].call
         /\ jobs'[w].session = jobs[w].session /\ jobs'[w].payment = jobs[w].payment
         /\ jobs'[w].locked = jobs[w].locked
         /\ jobs'[w] \in Work
         /\ jobs' \in [Worker -> Job]
         /\ \A v \in Worker \ {w} : jobs'[v] = jobs[v]
<1>1. jobs \in [Worker -> Job]
  BY DEF Inv, TypeOK
<1>2. jobs[w] \in Work
  BY AtWork
<1>3. jobs'[w] = [jobs[w] EXCEPT !.at = step]
  BY <1>1 DEF Goto
<1>4. jobs'[w] \in Work
  BY <1>2, <1>3 DEF Work
<1>5. jobs'[w] \in Job
  BY <1>4 DEF Work, Job
<1>6. \A v \in Worker \ {w} : jobs'[v] = jobs[v]
  BY <1>1 DEF Goto
<1>7. jobs' \in [Worker -> Job]
  BY <1>1, <1>5, <1>6 DEF Goto
<1> QED BY <1>2, <1>3, <1>4, <1>6, <1>7 DEF Work

\* The request after it locked a row.
LEMMA LockStep ==
  ASSUME Inv, NEW w \in Worker, Busy(w), NEW step \in Steps, NEW part \in Parts,
         Lock(w, part, step)
  PROVE  /\ jobs'[w].at = step /\ jobs'[w].call = jobs[w].call
         /\ jobs'[w].session = jobs[w].session /\ jobs'[w].payment = jobs[w].payment
         /\ jobs'[w].locked = jobs[w].locked \cup {part}
         /\ jobs'[w] \in Work
         /\ jobs' \in [Worker -> Job]
         /\ \A v \in Worker \ {w} : jobs'[v] = jobs[v]
<1>1. jobs \in [Worker -> Job]
  BY DEF Inv, TypeOK
<1>2. jobs[w] \in Work
  BY AtWork
<1>3. jobs'[w] = [jobs[w] EXCEPT !.at = step, !.locked = @ \cup {part}]
  BY <1>1, <1>2 DEF Lock, Work
<1>4. jobs'[w] \in Work
  BY <1>2, <1>3 DEF Work
<1>5. jobs'[w] \in Job
  BY <1>4 DEF Work, Job
<1>6. \A v \in Worker \ {w} : jobs'[v] = jobs[v]
  BY <1>1 DEF Lock
<1>7. jobs' \in [Worker -> Job]
  BY <1>1, <1>5, <1>6 DEF Lock
<1>8. jobs'[w].locked = jobs[w].locked \cup {part}
  BY <1>2, <1>3 DEF Work
<1>9. /\ jobs'[w].at = step /\ jobs'[w].call = jobs[w].call
      /\ jobs'[w].session = jobs[w].session /\ jobs'[w].payment = jobs[w].payment
  BY <1>2, <1>3 DEF Work
<1> QED BY <1>4, <1>6, <1>7, <1>8, <1>9

LEMMA EndStep ==
  ASSUME Inv, NEW w \in Worker, End(w)
  PROVE  /\ ~ Busy(w)'
         /\ jobs'[w] \in Job
         /\ jobs' \in [Worker -> Job]
         /\ \A v \in Worker \ {w} : jobs'[v] = jobs[v]
BY DEF Inv, TypeOK, End, Busy, Job

\* A row that is free is in no other handler's locks.
LEMMA FreeRow ==
  ASSUME NEW s, NEW part, Free(s, part), NEW v \in Worker, Busy(v), jobs[v].session = s
  PROVE  part \notin jobs[v].locked
BY DEF Free, Holds, Busy

LEMMA InitInv == Init => Inv
<1> SUFFICES ASSUME Init PROVE Inv
  OBVIOUS
<1>1. TypeOK
  BY SessionsAssumption DEF Init, TypeOK, Rows, Job
<1>2. JobsOK /\ OneHolder
  BY DEF Init, JobsOK, OneHolder, Busy
<1>3. InterfacesEndWithTheSession /\ PaidIsAnnounced
  BY DEF Init, InterfacesEndWithTheSession, PaidIsAnnounced
<1> QED BY <1>1, <1>2, <1>3 DEF Inv

\* A step in which the handler ends and nothing was written.
LEMMA QuietEnd ==
  ASSUME Inv, NEW w \in Worker, End(w), drops' \in 0 .. MaxDrops,
         rows' = rows, overtaken' = overtaken, late' = late, event' = event, moved' = moved,
         recorded \subseteq recorded', recorded' \subseteq moved,
         unconfirmed' \subseteq moved
  PROVE  Inv'
<1>1. ~ Busy(w)' /\ jobs'[w] \in Job /\ jobs' \in [Worker -> Job]
  BY EndStep
<1>2. \A v \in Worker \ {w} : jobs'[v] = jobs[v]
  BY EndStep
<1>3. moved' \subseteq Payment
  BY DEF Inv, TypeOK
<1> QED BY <1>1, <1>2, <1>3, QuietStep

\* A step in which the handler goes on with the locks it has.
LEMMA QuietGoto ==
  ASSUME Inv, NEW w \in Worker, Busy(w), NEW step \in Steps, Goto(w, step),
         rows' = rows, overtaken' = overtaken, late' = late, event' = event, drops' = drops,
         moved \subseteq moved', moved' \subseteq Payment,
         recorded' = recorded, unconfirmed' = unconfirmed,
         Placed(jobs[w])', Backed(jobs[w])', Found(jobs[w])'
  PROVE  Inv'
<1> USE GotoStep
<1>1. Asked(jobs[w])'
  BY AtWork DEF Asked
<1>2. jobs'[w] \in Job /\ jobs' \in [Worker -> Job]
  BY DEF Work, Job
<1>3. \A v \in Worker \ {w} :
        Busy(v) /\ jobs[v].session = jobs'[w].session =>
          jobs[v].locked \cap jobs'[w].locked = {}
  <2>1. jobs'[w].session = jobs[w].session /\ jobs'[w].locked = jobs[w].locked
    OBVIOUS
  <2>2. OneHolder
    BY DEF Inv
  <2> QED BY <2>1, <2>2 DEF OneHolder
<1>4. \A v \in Worker \ {w} : jobs'[v] = jobs[v]
  OBVIOUS
<1>5. recorded' \subseteq moved' /\ unconfirmed' \subseteq moved' /\ drops' \in 0 .. MaxDrops
  BY DEF Inv, TypeOK
<1> QED BY <1>1, <1>2, <1>3, <1>4, <1>5, QuietStep

\* A step in which the handler locks one more row.
LEMMA QuietLock ==
  ASSUME Inv, NEW w \in Worker, Busy(w), NEW step \in Steps, NEW part \in Parts,
         Lock(w, part, step), Free(On(w), part),
         rows' = rows, overtaken' = overtaken,
         late' = late, drops' = drops, UNCHANGED money,
         Placed(jobs[w])', Backed(jobs[w])', Found(jobs[w])'
  PROVE  Inv'
<1> USE LockStep
<1>1. Asked(jobs[w])'
  BY AtWork DEF Asked
<1>2. jobs'[w] \in Job /\ jobs' \in [Worker -> Job]
  BY DEF Work, Job
<1>3. \A v \in Worker \ {w} :
        Busy(v) /\ jobs[v].session = jobs'[w].session =>
          jobs[v].locked \cap jobs'[w].locked = {}
  BY FreeRow DEF Inv, OneHolder, On
<1>4. \A v \in Worker \ {w} : jobs'[v] = jobs[v]
  OBVIOUS
<1>5. recorded' \subseteq moved' /\ unconfirmed' \subseteq moved' /\ drops' \in 0 .. MaxDrops
  BY DEF Inv, TypeOK, money
<1>6. moved' \subseteq Payment /\ event' = event /\ moved' = moved /\ recorded' = recorded
  BY DEF Inv, TypeOK, money
<1> QED BY <1>1, <1>2, <1>3, <1>4, <1>5, <1>6, QuietStep

-----------------------------------------------------------------------------
(* Each operation preserves the invariant.                                 *)

LEMMA CallInv ==
  ASSUME Inv, NEW w \in Worker, Call(w)
  PROVE  Inv'
<1>1. PICK s \in Session, call \in Rails \cup {"cancel", "linkCancel"},
           p \in Payment \cup {NoPayment} :
        /\ Start(w, call, s, p)
        /\ call \in Rails => p \in Payment /\ p.session = s /\ p.via = call
        /\ call \notin Rails => p = NoPayment
  <2>1. \A s \in Session, call \in Rails, p \in Payer :
          /\ [session |-> s, via |-> call, payer |-> p] \in Payment
          /\ [session |-> s, via |-> call, payer |-> p].session = s
          /\ [session |-> s, via |-> call, payer |-> p].via = call
    BY DEF Payment
  <2>2. CASE \E s \in Session, call \in Calls \cap Rails, p \in Payer :
               Start(w, call, s, [session |-> s, via |-> call, payer |-> p])
    BY <2>1, <2>2
  <2>3. CASE \E s \in Session, call \in Calls \cap {"cancel", "linkCancel"} :
               Start(w, call, s, NoPayment)
    BY <2>3 DEF Rails
  <2> QED BY <2>2, <2>3 DEF Call
<1> DEFINE j == [at |-> IF call = "hosted" THEN "claim" ELSE "read",
                 call |-> call, session |-> s, payment |-> p, locked |-> {}]
<1>2. jobs \in [Worker -> Job] /\ jobs' = [jobs EXCEPT ![w] = j]
  BY <1>1 DEF Start, Inv, TypeOK
<1>3. j \in Work
  BY <1>1 DEF Work, Steps, Operations
<1>4. j \in Job
  BY <1>3 DEF Work, Job
<1>5. jobs'[w] = j /\ jobs' \in [Worker -> Job] /\ \A v \in Worker \ {w} : jobs'[v] = jobs[v]
  BY <1>2, <1>4
<1> HIDE DEF j
<1>6. /\ j.at = (IF call = "hosted" THEN "claim" ELSE "read")
      /\ j.call = call /\ j.session = s /\ j.payment = p /\ j.locked = {}
  BY DEF j
<1>7. Asked(jobs[w])'
  BY <1>1, <1>5, <1>6 DEF Asked, Rails
<1>8. Placed(jobs[w])'
  BY <1>1, <1>5, <1>6 DEF Placed, Rails
<1>9. Backed(jobs[w])' /\ Found(jobs[w])'
  BY <1>5, <1>6 DEF Backed, Found
<1>10. UNCHANGED <<rows, overtaken, late, money, drops>>
  BY <1>1 DEF Start
<1>11. /\ moved' \subseteq Payment /\ recorded' \subseteq moved'
       /\ unconfirmed' \subseteq moved' /\ drops' \in 0 .. MaxDrops
       /\ rows' = rows /\ overtaken' = overtaken
       /\ late' = late /\ event' = event /\ moved' = moved
       /\ recorded' = recorded
  BY <1>10 DEF Inv, TypeOK, money
<1>12. \A v \in Worker \ {w} : jobs[v].locked \cap jobs'[w].locked = {}
  BY <1>5, <1>6
<1> QED BY <1>4, <1>5, <1>7, <1>8, <1>9, <1>11, <1>12, QuietStep

\* Read: nothing is locked yet, and only the statement changes.
LEMMA ReadInv ==
  ASSUME Inv, NEW w \in Worker, Read(w)
  PROVE  Inv'
<1>1. jobs[w].at = "read" /\ UNCHANGED <<rows, overtaken, late, money, drops>>
  BY DEF Read
<1>2. Busy(w) /\ jobs[w] \in Work
  BY <1>1, JobKinds DEF Inv, TypeOK, Busy, Steps
<1>3. Asked(jobs[w]) /\ Placed(jobs[w])
  BY <1>2, AtWork
<1>4. /\ rows' = rows /\ overtaken' = overtaken
      /\ late' = late /\ event' = event /\ drops' = drops
      /\ moved' = moved /\ recorded' = recorded /\ unconfirmed' = unconfirmed
      /\ moved \subseteq Payment /\ recorded \subseteq moved /\ unconfirmed \subseteq moved
      /\ drops' \in 0 .. MaxDrops
  BY <1>1 DEF money, Inv, TypeOK
<1>5. CASE End(w)
  BY <1>4, <1>5, QuietEnd
<1>6. ASSUME NEW step \in {"transfer", "claim", "session", "write"}, Goto(w, step),
             /\ step = "transfer" => jobs[w].call = "link"
             /\ step = "claim" => jobs[w].call = "qr"
             /\ step = "session" => jobs[w].call = "cancel"
             /\ step = "write" => jobs[w].call = "linkCancel"
      PROVE  Inv'
  <2>1. /\ jobs'[w].at = step /\ jobs'[w].call = jobs[w].call
        /\ jobs'[w].locked = jobs[w].locked /\ step \in Steps
    BY <1>2, <1>6, GotoStep DEF Steps
  <2>2. jobs[w].locked = {}
    BY <1>1, <1>3 DEF Placed
  <2>3. Placed(jobs[w])'
    BY <1>6, <2>1, <2>2 DEF Placed, Rails
  <2>4. Backed(jobs[w])' /\ Found(jobs[w])'
    BY <1>6, <2>1, <2>2 DEF Backed, Found
  <2> QED BY <1>2, <1>4, <1>6, <2>1, <2>3, <2>4, QuietGoto
<1> QED BY <1>5, <1>6 DEF Read

LEMMA TransferInv ==
  ASSUME Inv, NEW w \in Worker, Transfer(w)
  PROVE  Inv'
<1>1. /\ jobs[w].at = "transfer"
      /\ rows' = rows /\ overtaken' = overtaken
      /\ late' = late /\ event' = event /\ drops' = drops
      /\ recorded' = recorded /\ unconfirmed' = unconfirmed
  BY DEF Transfer
<1>2. Busy(w)
  BY <1>1, JobKinds DEF Inv, TypeOK, Busy, Steps
<1>3. Asked(jobs[w]) /\ Placed(jobs[w])
  BY <1>2, AtWork
<1>4. jobs[w].call = "link" /\ jobs[w].locked = {} /\ jobs[w].payment \in Payment
  BY <1>1, <1>3 DEF Placed, Asked, Rails
<1>5. /\ moved \subseteq Payment /\ recorded \subseteq moved /\ unconfirmed \subseteq moved
      /\ drops \in 0 .. MaxDrops
  BY DEF Inv, TypeOK
<1>6. CASE End(w) /\ moved' = moved
  BY <1>1, <1>5, <1>6, QuietEnd
<1>7. CASE moved' = moved \cup {jobs[w].payment} /\ Goto(w, "claim")
  <2>1. /\ jobs'[w].at = "claim" /\ jobs'[w].call = "link" /\ jobs'[w].locked = {}
        /\ jobs'[w].payment = jobs[w].payment
    BY <1>2, <1>4, <1>7, GotoStep DEF Steps
  <2>2. Placed(jobs[w])' /\ Backed(jobs[w])' /\ Found(jobs[w])'
    BY <1>7, <2>1 DEF Placed, Backed, Found, Rails
  <2>3. moved \subseteq moved' /\ moved' \subseteq Payment /\ "claim" \in Steps
    BY <1>4, <1>5, <1>7 DEF Steps
  <2> QED BY <1>1, <1>2, <1>7, <2>2, <2>3, QuietGoto
<1> QED BY <1>6, <1>7 DEF Transfer

\* Claim: the row that is locked is ACTIVE, but for an EXPIRED link on the hosted
\* rail; a hosted payment that locks nothing found its link over.
LEMMA ClaimInv ==
  ASSUME Inv, NEW w \in Worker, Claim(w)
  PROVE  Inv'
<1>1. /\ jobs[w].at = "claim" /\ UNCHANGED <<rows, overtaken, late, money, drops>>
      /\ Free(On(w), OwnRow[jobs[w].call])
  BY DEF Claim
<1>2. Busy(w)
  BY <1>1, JobKinds DEF Inv, TypeOK, Busy, Steps
<1>3. /\ jobs[w] \in Work /\ rows[On(w)] \in Rows
      /\ Asked(jobs[w]) /\ Placed(jobs[w]) /\ Backed(jobs[w]) /\ Found(jobs[w])
  BY <1>2, AtWork
<1>4. jobs[w].call \in Rails /\ jobs[w].locked = {}
  BY <1>1, <1>3 DEF Placed
<1>5. OwnRow[jobs[w].call] \in {"link", "qr"}
  BY <1>4 DEF OwnRow, Rails
<1>6. /\ rows' = rows /\ overtaken' = overtaken
      /\ late' = late /\ event' = event /\ drops' = drops
      /\ moved' = moved /\ recorded' = recorded /\ unconfirmed' = unconfirmed
      /\ moved \subseteq Payment /\ recorded \subseteq moved /\ unconfirmed \subseteq moved
      /\ drops' \in 0 .. MaxDrops
  BY <1>1 DEF money, Inv, TypeOK
<1>7. CASE End(w)
  BY <1>6, <1>7, QuietEnd
<1>8. CASE jobs[w].call = "hosted" /\ ~ Claimable(w) /\ Goto(w, "session")
  <2>1. /\ jobs'[w].at = "session" /\ jobs'[w].call = "hosted" /\ jobs'[w].locked = {}
        /\ jobs'[w].session = jobs[w].session
    BY <1>2, <1>4, <1>8, GotoStep DEF Steps
  <2>2. rows[jobs[w].session].link # "ACTIVE"
    BY <1>3, <1>8, RowKinds DEF Claimable, Status, On
  <2>3. Placed(jobs[w])' /\ Backed(jobs[w])'
    BY <2>1 DEF Placed, Backed, Rails
  <2>4. Found(jobs[w])'
    BY <1>6, <2>1, <2>2 DEF Found
  <2> QED BY <1>2, <1>6, <1>8, <2>3, <2>4, QuietGoto DEF Steps
<1>9. CASE Claimable(w) /\ Lock(w, OwnRow[jobs[w].call], "session")
  <2> DEFINE part == OwnRow[jobs[w].call]
  <2>1. "session" \in Steps /\ part \in Parts
    BY <1>5 DEF Steps, Parts
  <2>2. /\ jobs'[w].at = "session" /\ jobs'[w].call = jobs[w].call
        /\ jobs'[w].session = jobs[w].session /\ jobs'[w].payment = jobs[w].payment
        /\ jobs'[w].locked = {part}
    <3>1. jobs'[w].locked = jobs[w].locked \cup {part}
      BY <1>2, <1>9, <2>1, LockStep
    <3> QED BY <1>2, <1>4, <1>9, <2>1, <3>1, LockStep
  <2>3. rows[jobs[w].session][part] = "ACTIVE" \/ (part = "link" /\ jobs[w].call = "hosted")
    BY <1>4, <1>9, <1>3, RowKinds DEF Claimable, Status, On, OwnRow, Rails
  <2>4. part # "session"
    BY <1>5
  <2>5. jobs[w].call = "hosted" => part = "link"
    BY DEF OwnRow
  <2> HIDE DEF part
  <2>6. part = OwnRow[jobs[w].call]
    BY DEF part
  <2>7. Placed(jobs[w])'
    BY <1>4, <2>2, <2>4, <2>6 DEF Placed, Rails
  <2>8. Backed(jobs[w])'
    BY <1>1, <1>3, <1>6, <2>2 DEF Backed
  <2>9. Found(jobs[w])'
    BY <1>6, <2>2, <2>3, <2>5 DEF Found
  <2> QED BY <1>1, <1>2, <1>6, <1>9, <2>1, <2>6, <2>7, <2>8, <2>9, QuietLock
<1> QED BY <1>7, <1>8, <1>9 DEF Claim

LEMMA SettleSessionInv ==
  ASSUME Inv, NEW w \in Worker, SettleSession(w)
  PROVE  Inv'
<1>1. jobs[w].at = "session" /\ UNCHANGED <<rows, overtaken, late, money, drops>>
  BY DEF SettleSession
<1>2. Busy(w)
  BY <1>1, JobKinds DEF Inv, TypeOK, Busy, Steps
<1>3. /\ jobs[w] \in Work /\ rows[On(w)] \in Rows
      /\ Asked(jobs[w]) /\ Placed(jobs[w]) /\ Backed(jobs[w]) /\ Found(jobs[w])
  BY <1>2, AtWork
<1>4. /\ rows' = rows /\ overtaken' = overtaken
      /\ late' = late /\ event' = event /\ drops' = drops
      /\ moved' = moved /\ recorded' = recorded /\ unconfirmed' = unconfirmed
      /\ moved \subseteq Payment
  BY <1>1 DEF money, Inv, TypeOK
<1>5. "siblings" \in Steps /\ "session" \in Parts
  BY DEF Steps, Parts
<1>6. CASE Goto(w, "siblings")
  <2>1. /\ jobs'[w].at = "siblings" /\ jobs'[w].call = jobs[w].call
        /\ jobs'[w].session = jobs[w].session /\ jobs'[w].payment = jobs[w].payment
        /\ jobs'[w].locked = jobs[w].locked
    BY <1>2, <1>5, <1>6, GotoStep
  <2>2. Placed(jobs[w])' /\ Backed(jobs[w])'
    BY <1>1, <1>3, <1>4, <2>1 DEF Placed, Backed
  <2>3. Found(jobs[w])'
    BY <1>1, <1>3, <1>4, <2>1 DEF Found
  <2> QED BY <1>2, <1>4, <1>5, <1>6, <2>2, <2>3, QuietGoto
<1>7. CASE /\ Status(w, "session") = "ACTIVE" /\ Free(On(w), "session")
           /\ Lock(w, "session", "siblings")
  <2>1. /\ jobs'[w].at = "siblings" /\ jobs'[w].call = jobs[w].call
        /\ jobs'[w].session = jobs[w].session /\ jobs'[w].payment = jobs[w].payment
        /\ jobs'[w].locked = jobs[w].locked \cup {"session"}
    BY <1>2, <1>5, <1>7, LockStep
  <2>2. Placed(jobs[w])' /\ Backed(jobs[w])'
    BY <1>1, <1>3, <1>4, <2>1 DEF Placed, Backed
  <2>3. rows[jobs[w].session]["session"] = "ACTIVE"
    BY <1>7 DEF Status, On
  <2>4. Found(jobs[w])'
    BY <1>1, <1>3, <1>4, <2>1, <2>3 DEF Found
  <2>5. UNCHANGED money
    BY <1>1
  <2> QED BY <1>2, <1>4, <1>5, <1>7, <2>2, <2>4, <2>5, QuietLock
<1> QED BY <1>6, <1>7 DEF SettleSession

LEMMA RetireInv ==
  ASSUME Inv, NEW w \in Worker, Retire(w)
  PROVE  Inv'
<1>1. jobs[w].at = "siblings" /\ UNCHANGED <<rows, overtaken, late, money, drops>>
  BY DEF Retire
<1>2. Busy(w)
  BY <1>1, JobKinds DEF Inv, TypeOK, Busy, Steps
<1>3. /\ jobs[w] \in Work /\ rows[On(w)] \in Rows
      /\ Asked(jobs[w]) /\ Placed(jobs[w]) /\ Backed(jobs[w]) /\ Found(jobs[w])
  BY <1>2, AtWork
<1>4. /\ rows' = rows /\ overtaken' = overtaken
      /\ late' = late /\ event' = event /\ drops' = drops
      /\ moved' = moved /\ recorded' = recorded /\ unconfirmed' = unconfirmed
  BY <1>1 DEF money
<1>5. PICK part \in ToRetire(w) : Free(On(w), part) /\ Lock(w, part, "siblings")
  BY DEF Retire
<1>6. /\ part \in Siblings[jobs[w].call] /\ "session" \in jobs[w].locked
      /\ rows[jobs[w].session][part] = "ACTIVE"
  BY <1>5 DEF ToRetire, Status, On
<1>7. part \in Parts /\ part # "session" /\ "siblings" \in Steps
  BY <1>1, <1>3, <1>6 DEF Placed, Siblings, Rails, Parts, Steps
<1>8. /\ jobs'[w].at = "siblings" /\ jobs'[w].call = jobs[w].call
      /\ jobs'[w].session = jobs[w].session /\ jobs'[w].payment = jobs[w].payment
      /\ jobs'[w].locked = jobs[w].locked \cup {part}
  BY <1>2, <1>5, <1>7, LockStep
<1>9. Placed(jobs[w])' /\ Backed(jobs[w])'
  BY <1>1, <1>3, <1>4, <1>6, <1>8 DEF Placed, Backed
<1>10. Found(jobs[w])'
  BY <1>1, <1>3, <1>4, <1>6, <1>8 DEF Found
<1> QED BY <1>1, <1>2, <1>4, <1>5, <1>7, <1>9, <1>10, QuietLock

LEMMA RecordInv ==
  ASSUME Inv, NEW w \in Worker, Record(w)
  PROVE  Inv'
<1>1. /\ jobs[w].at = "record" /\ recorded' = recorded \cup {jobs[w].payment} /\ End(w)
      /\ rows' = rows /\ overtaken' = overtaken
      /\ late' = late /\ event' = event /\ drops' = drops
      /\ moved' = moved /\ unconfirmed' = unconfirmed
  BY DEF Record
<1>2. Busy(w)
  BY <1>1, JobKinds DEF Inv, TypeOK, Busy, Steps
<1>3. jobs[w].payment \in moved
  BY <1>1, <1>2, AtWork DEF Backed
<1>4. /\ recorded \subseteq recorded' /\ recorded' \subseteq moved
      /\ unconfirmed' \subseteq moved /\ drops' \in 0 .. MaxDrops
  BY <1>1, <1>3 DEF Inv, TypeOK
<1> QED BY <1>1, <1>4, QuietEnd

\* What a handler that fails may leave: a payment answered as not confirmed.
LEMMA FailsInv ==
  ASSUME Inv, NEW w \in Worker, Fails(w), drops' \in 0 .. MaxDrops
  PROVE  Inv'
<1>1. /\ End(w) /\ rows' = rows /\ overtaken' = overtaken /\ late' = late /\ event' = event
      /\ moved' = moved /\ recorded' = recorded
  BY DEF Fails
<1>2. unconfirmed' \subseteq moved
  <2>1. CASE unconfirmed' = unconfirmed
    BY <2>1 DEF Inv, TypeOK
  <2>2. CASE /\ jobs[w].call = "link"
             /\ jobs[w].at \in {"claim", "session", "siblings"}
             /\ unconfirmed' = unconfirmed \cup {jobs[w].payment}
    <3>1. Busy(w)
      BY <2>2, JobKinds DEF Inv, TypeOK, Busy, Steps
    <3>2. jobs[w].payment \in moved
      BY <2>2, <3>1, AtWork DEF Backed
    <3> QED BY <2>2, <3>2 DEF Inv, TypeOK
  <2> QED BY <2>1, <2>2 DEF Fails
<1>3. recorded \subseteq recorded' /\ recorded' \subseteq moved
  BY <1>1 DEF Inv, TypeOK
<1> QED BY <1>1, <1>2, <1>3, QuietEnd

LEMMA DropInv ==
  ASSUME Inv, NEW w \in Worker, Drop(w) \/ Deadlock(w)
  PROVE  Inv'
<1>1. Fails(w) /\ drops' \in 0 .. MaxDrops
  BY SessionsAssumption DEF Drop, Deadlock, Inv, TypeOK
<1> QED BY <1>1, FailsInv

LEMMA RefuseInv ==
  ASSUME Inv, NEW w \in Worker, Refuse(w)
  PROVE  Inv'
<1>1. /\ End(w) /\ rows' = rows /\ overtaken' = overtaken
      /\ late' = late /\ event' = event /\ drops' = drops
      /\ moved' = moved /\ recorded' = recorded /\ unconfirmed' = unconfirmed
  BY DEF Refuse, money
<1>2. /\ recorded \subseteq recorded' /\ recorded' \subseteq moved
      /\ unconfirmed' \subseteq moved /\ drops' \in 0 .. MaxDrops
  BY <1>1 DEF Inv, TypeOK
<1> QED BY <1>1, <1>2, QuietEnd

-----------------------------------------------------------------------------
(* The steps that end one interface on its own.                            *)

\* One interface that is over, and every other row as it was.
LEMMA OneRow ==
  ASSUME Inv, NEW s \in Session, NEW part \in {"link", "qr"}, NEW value,
         part = "link" => value \in {"USED", "CANCELLED", "EXPIRED"},
         part = "qr" => value \in {"USED", "EXPIRED"},
         rows' = [rows EXCEPT ![s][part] = value]
  PROVE  /\ rows' \in [Session -> Rows]
         /\ \A t \in Session :
              /\ rows'[t].session = rows[t].session
              /\ rows[t].link # "ACTIVE" => rows'[t].link # "ACTIVE"
              /\ rows[t].qr # "ACTIVE" => rows'[t].qr # "ACTIVE"
         /\ \A t \in Session, other \in Parts :
              t # s \/ other # part => rows'[t][other] = rows[t][other]
<1>1. rows \in [Session -> Rows]
  BY DEF Inv, TypeOK
<1>2. rows[s] \in Rows
  BY <1>1
<1>3. \A t \in Session \ {s} : rows'[t] = rows[t]
  BY <1>1
<1>4. DOMAIN rows' = Session /\ rows' = [t \in Session |-> rows'[t]]
  BY <1>1
<1>5. CASE part = "link"
  <2>1. rows'[s] = [rows[s] EXCEPT !.link = value]
    BY <1>1, <1>5
  <2>2. /\ rows'[s].session = rows[s].session /\ rows'[s].link = value
        /\ rows'[s].qr = rows[s].qr /\ rows'[s] \in Rows
    BY <1>2, <1>5, <2>1 DEF Rows
  <2>3. rows' \in [Session -> Rows]
    BY <1>1, <1>3, <1>4, <2>2
  <2>4. \A other \in Parts : other # "link" => rows'[s][other] = rows[s][other]
    BY <2>2 DEF Parts
  <2> QED BY <1>3, <1>5, <2>2, <2>3, <2>4
<1>6. CASE part = "qr"
  <2>1. rows'[s] = [rows[s] EXCEPT !.qr = value]
    BY <1>1, <1>6
  <2>2. /\ rows'[s].session = rows[s].session /\ rows'[s].link = rows[s].link
        /\ rows'[s].qr = value /\ rows'[s] \in Rows
    BY <1>2, <1>6, <2>1 DEF Rows
  <2>3. rows' \in [Session -> Rows]
    BY <1>1, <1>3, <1>4, <2>2
  <2>4. \A other \in Parts : other # "qr" => rows'[s][other] = rows[s][other]
    BY <2>2 DEF Parts
  <2> QED BY <1>3, <1>6, <2>2, <2>3, <2>4
<1> QED BY <1>5, <1>6

\* What handlers hold is not touched by an update that found its row free.
LEMMA HeldStays ==
  ASSUME Inv, NEW s \in Session, NEW part \in {"link", "qr"}, Free(s, part),
         \A t \in Session, other \in Parts :
           t # s \/ other # part => rows'[t][other] = rows[t][other]
  PROVE  \A v \in Worker : Busy(v) =>
           \A other \in jobs[v].locked :
             rows'[jobs[v].session][other] = rows[jobs[v].session][other]
<1> SUFFICES ASSUME NEW v \in Worker, Busy(v), NEW other \in jobs[v].locked
             PROVE  rows'[jobs[v].session][other] = rows[jobs[v].session][other]
  OBVIOUS
<1>1. jobs[v].session \in Session /\ other \in Parts
  BY AtWork DEF Work
<1>2. jobs[v].session # s \/ other # part
  BY FreeRow
<1> QED BY <1>1, <1>2

\* A row that another step leaves, outside every handler.
LEMMA OutsideInv ==
  ASSUME Inv, NEW s \in Session, NEW part \in {"link", "qr"}, NEW value,
         part = "link" => value \in {"USED", "CANCELLED", "EXPIRED"},
         part = "qr" => value \in {"USED", "EXPIRED"},
         rows' = [rows EXCEPT ![s][part] = value], Free(s, part),
         overtaken' \subseteq Session, UNCHANGED <<late, money, jobs, drops>>
  PROVE  Inv'
<1>1. /\ rows' \in [Session -> Rows]
      /\ \A t \in Session :
           /\ rows'[t].session = rows[t].session
           /\ rows[t].link # "ACTIVE" => rows'[t].link # "ACTIVE"
           /\ rows[t].qr # "ACTIVE" => rows'[t].qr # "ACTIVE"
      /\ \A t \in Session, other \in Parts :
           t # s \/ other # part => rows'[t][other] = rows[t][other]
  BY OneRow
<1>2. \A v \in Worker : Busy(v) =>
        \A other \in jobs[v].locked :
          rows'[jobs[v].session][other] = rows[jobs[v].session][other]
  BY <1>1, HeldStays
<1>3. TypeOK'
  BY <1>1 DEF Inv, TypeOK, money
<1>4. jobs' = jobs /\ moved' = moved /\ recorded' = recorded /\ event' = event
  BY DEF money
<1>5. JobsOK' /\ OneHolder'
  BY <1>1, <1>2, <1>3, <1>4, OutsideStep
<1>6. InterfacesEndWithTheSession' /\ PaidIsAnnounced'
  BY <1>1, <1>4, DecidesNothing
<1> QED BY <1>3, <1>5, <1>6 DEF Inv

LEMMA LinkCloseInv ==
  ASSUME Inv, NEW s \in Session, LinkClose(s)
  PROVE  Inv'
<1>1. /\ rows' = [rows EXCEPT ![s]["link"] = "USED"] /\ Free(s, "link")
      /\ overtaken' = overtaken \cup {s} /\ UNCHANGED <<late, money, jobs, drops>>
  BY DEF LinkClose
<1>2. overtaken' \subseteq Session
  BY <1>1 DEF Inv, TypeOK
<1> QED BY <1>1, <1>2, OutsideInv

LEMMA ExpireInv ==
  ASSUME Inv, NEW s \in Session, NEW part \in {"link", "qr"}, Expire(s, part)
  PROVE  Inv'
<1>1. /\ rows' = [rows EXCEPT ![s][part] = "EXPIRED"] /\ Free(s, part)
      /\ UNCHANGED <<late, money, jobs, drops>>
  BY DEF Expire
<1>2. overtaken' \subseteq Session
  BY DEF Expire, Inv, TypeOK
<1> QED BY <1>1, <1>2, OutsideInv

LEMMA PassInv ==
  ASSUME Inv, NEW s \in Session, Pass(s)
  PROVE  Inv'
<1>1. /\ rows' = rows /\ jobs' = jobs /\ drops' = drops /\ moved' = moved
      /\ overtaken' = overtaken /\ recorded' = recorded /\ event' = event /\ unconfirmed' = unconfirmed
      /\ late' = late \cup {s}
  BY DEF Pass, money
<1>2. TypeOK'
  BY <1>1 DEF Inv, TypeOK
<1>3. JobsOK' /\ OneHolder'
  BY <1>1, <1>2, OutsideStep
<1>4. InterfacesEndWithTheSession' /\ PaidIsAnnounced'
  BY <1>1, DecidesNothing
<1> QED BY <1>2, <1>3, <1>4 DEF Inv

\* The cancellation of a link writes its row whatever it has become.
LEMMA WriteInv ==
  ASSUME Inv, NEW w \in Worker, Write(w)
  PROVE  Inv'
<1>1. /\ jobs[w].at = "write" /\ Free(On(w), "link") /\ End(w)
      /\ rows' = [rows EXCEPT ![On(w)]["link"] = "CANCELLED"]
      /\ late' = late /\ moved' = moved /\ recorded' = recorded /\ event' = event
      /\ unconfirmed' = unconfirmed /\ drops' = drops
      /\ overtaken' = overtaken \cup {On(w)}
  BY DEF Write, money
<1>2. Busy(w)
  BY <1>1, JobKinds DEF Inv, TypeOK, Busy, Steps
<1>3. On(w) \in Session
  BY <1>2, AtWork
<1>4. /\ rows' \in [Session -> Rows]
      /\ \A t \in Session :
           /\ rows'[t].session = rows[t].session
           /\ rows[t].link # "ACTIVE" => rows'[t].link # "ACTIVE"
           /\ rows[t].qr # "ACTIVE" => rows'[t].qr # "ACTIVE"
      /\ \A t \in Session, other \in Parts :
           t # On(w) \/ other # "link" => rows'[t][other] = rows[t][other]
  BY <1>1, <1>3, OneRow
<1>5. \A v \in Worker : Busy(v) =>
        \A other \in jobs[v].locked :
          rows'[jobs[v].session][other] = rows[jobs[v].session][other]
  BY <1>1, <1>3, <1>4, HeldStays
<1>6. ~ Busy(w)' /\ jobs' \in [Worker -> Job] /\ \A v \in Worker \ {w} : jobs'[v] = jobs[v]
  BY <1>1, EndStep
<1>7. TypeOK'
  BY <1>1, <1>3, <1>4, <1>6 DEF Inv, TypeOK
<1>8. JobsOK' /\ OneHolder'
  BY <1>1, <1>4, <1>5, <1>6, <1>7, HandlerStep
<1>9. InterfacesEndWithTheSession' /\ PaidIsAnnounced'
  BY <1>1, <1>4, DecidesNothing
<1> QED BY <1>7, <1>8, <1>9 DEF Inv

-----------------------------------------------------------------------------
(* The commit, in which all that a transaction wrote takes effect.         *)

\* Where a handler that commits stands.
LEMMA AtCommit ==
  ASSUME Inv, NEW w \in Worker, Commit(w)
  PROVE  /\ Busy(w)
         /\ jobs[w].at = "siblings"
         /\ jobs[w].call \in Rails \cup {"cancel"}
         /\ jobs[w].call \in Rails => jobs[w].payment \in Payment
         /\ jobs[w] \in Work /\ jobs[w].session \in Session /\ rows[jobs[w].session] \in Rows
         /\ Asked(jobs[w]) /\ Placed(jobs[w]) /\ Backed(jobs[w]) /\ Found(jobs[w])
<1>1. jobs[w].at = "siblings"
  BY DEF Commit
<1>2. Busy(w)
  BY <1>1, JobKinds DEF Inv, TypeOK, Busy, Steps
<1>3. /\ jobs[w] \in Work /\ jobs[w].session \in Session /\ rows[jobs[w].session] \in Rows
      /\ Asked(jobs[w]) /\ Placed(jobs[w]) /\ Backed(jobs[w]) /\ Found(jobs[w])
  BY <1>2, AtWork DEF On
<1> QED BY <1>1, <1>2, <1>3 DEF Placed, Asked

\* What the commit does to the rows.
LEMMA CommitRows ==
  ASSUME Inv, NEW w \in Worker, Commit(w)
  PROVE  /\ rows' \in [Session -> Rows]
         /\ \A t \in Session \ {jobs[w].session} : rows'[t] = rows[t]
         /\ \A part \in Parts :
              rows'[jobs[w].session][part] =
                IF part \in jobs[w].locked THEN Ended(jobs[w].call)[part]
                ELSE rows[jobs[w].session][part]
<1> DEFINE s == jobs[w].session
           Row(part) == IF part \in jobs[w].locked THEN Ended(jobs[w].call)[part]
                        ELSE rows[s][part]
<1>1. s \in Session /\ rows[s] \in Rows /\ rows \in [Session -> Rows]
  BY AtCommit DEF Inv, TypeOK
<1>2. rows' = [rows EXCEPT ![s] = [part \in Parts |-> Row(part)]]
  BY <1>1 DEF Commit, Committed, On
<1>3. rows'[s] = [part \in Parts |-> Row(part)] /\ \A t \in Session \ {s} : rows'[t] = rows[t]
  BY <1>1, <1>2
<1>4. /\ Row("session") \in {"ACTIVE", "PAID", "CANCELLED"}
      /\ Row("link") \in {"ACTIVE", "USED", "CANCELLED", "EXPIRED"}
      /\ Row("qr") \in {"ACTIVE", "USED", "EXPIRED"}
  BY <1>1, EndedFacts, RowKinds
<1>5. rows'[s] = [session |-> Row("session"), link |-> Row("link"), qr |-> Row("qr")]
  BY <1>3 DEF Parts
<1>6. rows'[s] \in Rows
  <2> HIDE DEF Row
  <2> QED BY <1>4, <1>5 DEF Rows
<1>7. rows' \in [Session -> Rows]
  <2> HIDE DEF Row
  <2> QED BY <1>1, <1>2, <1>3, <1>6
<1>8. \A part \in Parts : rows'[s][part] = Row(part)
  BY <1>3
<1> QED BY <1>3, <1>7, <1>8

\* Of the session that commits: whether it was moved, and what became of the rest.
LEMMA CommitEnds ==
  ASSUME Inv, NEW w \in Worker, Commit(w)
  PROVE  LET s == jobs[w].session IN
         /\ "session" \in jobs[w].locked =>
              /\ rows[s].session = "ACTIVE"
              /\ rows'[s].session = IF jobs[w].call = "cancel" THEN "CANCELLED" ELSE "PAID"
              /\ rows'[s].link # "ACTIVE" /\ rows'[s].qr # "ACTIVE"
         /\ "session" \notin jobs[w].locked => rows'[s].session = rows[s].session
         /\ rows[s].link # "ACTIVE" => rows'[s].link # "ACTIVE"
         /\ rows[s].qr # "ACTIVE" => rows'[s].qr # "ACTIVE"
<1> DEFINE s == jobs[w].session
           j == jobs[w]
<1>1. /\ j.at = "siblings" /\ j.call \in Rails \cup {"cancel"}
      /\ Placed(j) /\ Found(j) /\ s \in Session /\ rows[s] \in Rows
  BY AtCommit
<1>2. rows'[s] \in Rows
  BY <1>1, CommitRows
<1>3. /\ rows'[s].session =
           IF "session" \in j.locked THEN Ended(j.call).session ELSE rows[s].session
      /\ rows'[s].link = IF "link" \in j.locked THEN Ended(j.call).link ELSE rows[s].link
      /\ rows'[s].qr = IF "qr" \in j.locked THEN Ended(j.call).qr ELSE rows[s].qr
  <2>1. \A part \in Parts :
          rows'[s][part] = IF part \in j.locked THEN Ended(j.call)[part] ELSE rows[s][part]
    BY CommitRows
  <2> QED BY <2>1 DEF Parts
<1>4. /\ Ended(j.call).link # "ACTIVE" /\ Ended(j.call).qr # "ACTIVE"
      /\ Ended(j.call).session = IF j.call = "cancel" THEN "CANCELLED" ELSE "PAID"
  BY DEF Ended
<1>5. /\ rows[s].link # "ACTIVE" => rows'[s].link # "ACTIVE"
      /\ rows[s].qr # "ACTIVE" => rows'[s].qr # "ACTIVE"
  BY <1>3, <1>4
<1>6. ASSUME "session" \in j.locked
      PROVE  /\ rows[s].session = "ACTIVE"
             /\ rows'[s].link # "ACTIVE" /\ rows'[s].qr # "ACTIVE"
  <2>1. rows[s].session = "ACTIVE"
    BY <1>1, <1>6 DEF Found
  <2>2. \A part \in Siblings[j.call] : part \in j.locked \/ rows[s][part] # "ACTIVE"
    BY <1>6 DEF Commit, ToRetire, Status, On
  <2>3. "link" \in j.locked \/ rows[s].link # "ACTIVE"
    <3>1. CASE j.call \in {"qr", "cancel"}
      BY <2>2, <3>1 DEF Siblings
    <3>2. CASE j.call = "link"
      BY <1>1, <3>2 DEF Placed, OwnRow
    <3>3. CASE j.call = "hosted"
      BY <1>1, <3>3 DEF Found
    <3> QED BY <1>1, <3>1, <3>2, <3>3 DEF Rails
  <2>4. "qr" \in j.locked \/ rows[s].qr # "ACTIVE"
    <3>1. CASE j.call \in {"link", "hosted", "cancel"}
      BY <2>2, <3>1 DEF Siblings
    <3>2. CASE j.call = "qr"
      BY <1>1, <3>2 DEF Placed, OwnRow
    <3> QED BY <1>1, <3>1, <3>2 DEF Rails
  <2> QED BY <1>3, <1>4, <2>1, <2>3, <2>4
<1> QED BY <1>3, <1>4, <1>5, <1>6

\* What the commit does to the money.
LEMMA CommitMoney ==
  ASSUME Inv, NEW w \in Worker, Commit(w)
  PROVE  /\ moved \subseteq moved' /\ moved' \subseteq Payment
         /\ recorded \subseteq recorded' /\ recorded' \subseteq moved'
         /\ unconfirmed' = unconfirmed
         /\ jobs[w].call \in Rails => jobs[w].payment \in moved'
         /\ jobs[w].call \in {"link", "qr"} /\ "session" \in jobs[w].locked =>
              jobs[w].payment \in recorded'
<1> DEFINE j == jobs[w]
<1>1. /\ j.at = "siblings" /\ j.call \in Rails \cup {"cancel"} /\ Backed(j)
      /\ j.call \in Rails => j.payment \in Payment
  BY AtCommit
<1>2. /\ moved' = IF j.call \in {"qr", "hosted"} THEN moved \cup {j.payment} ELSE moved
      /\ recorded' = recorded \cup Records(j) /\ unconfirmed' = unconfirmed
  BY DEF Commit
<1>3. moved \subseteq Payment /\ recorded \subseteq moved
  BY DEF Inv, TypeOK
<1>4. moved \subseteq moved' /\ moved' \subseteq Payment
  BY <1>1, <1>2, <1>3 DEF Rails
<1>5. j.call \in Rails => j.payment \in moved'
  BY <1>1, <1>2 DEF Backed, Rails
<1>6. /\ Records(j) \subseteq {j.payment}
      /\ Records(j) # {} => j.call \in Rails
      /\ j.call \in {"link", "qr"} /\ "session" \in j.locked => Records(j) = {j.payment}
  BY DEF Records, Rails
<1>7. recorded' \subseteq moved'
  BY <1>2, <1>3, <1>4, <1>5, <1>6
<1> QED BY <1>2, <1>4, <1>5, <1>6, <1>7

LEMMA CommitAnnounces ==
  ASSUME Inv, NEW w \in Worker, Commit(w)
  PROVE  /\ event' \in [Session -> Payment \cup {NoPayment}]
         /\ \A t \in Session : event[t] # NoPayment => event'[t] = event[t]
         /\ PaidIsAnnounced'
<1> DEFINE s == jobs[w].session
           j == jobs[w]
<1>1. /\ j.call \in Rails \cup {"cancel"} /\ s \in Session /\ Asked(j)
      /\ j.call \in Rails => j.payment \in Payment
  BY AtCommit
<1>2. event \in [Session -> Payment \cup {NoPayment}]
  BY DEF Inv, TypeOK
<1>3. /\ "session" \in j.locked => rows[s].session = "ACTIVE"
      /\ "session" \in j.locked =>
           rows'[s].session = IF j.call = "cancel" THEN "CANCELLED" ELSE "PAID"
      /\ "session" \notin j.locked => rows'[s].session = rows[s].session
  BY CommitEnds
<1>4. \A t \in Session \ {s} : rows'[t] = rows[t]
  BY CommitRows
<1>5. PaidIsAnnounced
  BY DEF Inv
<1>6. "session" \in j.locked => event[s] = NoPayment
  BY <1>1, <1>3, <1>5 DEF PaidIsAnnounced
<1>7. /\ moved \subseteq moved' /\ recorded \subseteq recorded'
      /\ j.call \in Rails => j.payment \in moved'
      /\ j.call \in {"link", "qr"} /\ "session" \in j.locked => j.payment \in recorded'
  BY CommitMoney
<1>8. event' = Emitted(j)
  BY DEF Commit
<1>9. CASE j.call \in Rails /\ "session" \in j.locked
  <2>1. event' = [event EXCEPT ![s] = j.payment]
    BY <1>1, <1>2, <1>6, <1>8, <1>9 DEF Emitted
  <2>2. event'[s] = j.payment /\ \A t \in Session \ {s} : event'[t] = event[t]
    BY <1>1, <1>2, <2>1
  <2>3. event' \in [Session -> Payment \cup {NoPayment}]
    BY <1>1, <1>2, <1>9, <2>1
  <2>4. j.payment # NoPayment
    BY <1>1, <1>9, SessionsAssumption DEF Payment
  <2>5. j.payment.via # "hosted" => j.payment \in recorded'
    BY <1>1, <1>7, <1>9 DEF Asked, Rails
  <2>6. rows'[s].session = "PAID"
    BY <1>3, <1>9 DEF Rails
  <2>7. PaidIsAnnounced'
    BY <1>4, <1>5, <1>7, <1>9, <2>2, <2>4, <2>5, <2>6 DEF PaidIsAnnounced
  <2> QED BY <1>1, <1>6, <1>9, <2>2, <2>3, <2>7
<1>10. CASE ~ (j.call \in Rails /\ "session" \in j.locked)
  <2>1. event' = event
    BY <1>8, <1>10 DEF Emitted
  <2>2. \/ rows'[s].session = rows[s].session
        \/ rows[s].session = "ACTIVE" /\ rows'[s].session = "CANCELLED"
    BY <1>1, <1>3, <1>10
  <2>3. PaidIsAnnounced'
    BY <1>4, <1>5, <1>7, <2>1, <2>2 DEF PaidIsAnnounced
  <2> QED BY <1>2, <2>1, <2>3
<1> QED BY <1>9, <1>10

LEMMA CommitInv ==
  ASSUME Inv, NEW w \in Worker, Commit(w)
  PROVE  Inv'
<1> DEFINE s == jobs[w].session
           j == jobs[w]
<1>1. /\ j.call \in Rails \cup {"cancel"} /\ s \in Session /\ j \in Work /\ Asked(j)
  BY AtCommit
<1>2. rows' \in [Session -> Rows] /\ \A t \in Session \ {s} : rows'[t] = rows[t]
  BY CommitRows
<1>3. /\ rows[s].link # "ACTIVE" => rows'[s].link # "ACTIVE"
      /\ rows[s].qr # "ACTIVE" => rows'[s].qr # "ACTIVE"
      /\ "session" \in j.locked => rows'[s].link # "ACTIVE" /\ rows'[s].qr # "ACTIVE"
      /\ "session" \notin j.locked => rows'[s].session = rows[s].session
  BY CommitEnds
<1>4. /\ moved \subseteq moved' /\ moved' \subseteq Payment /\ recorded' \subseteq moved'
      /\ unconfirmed' = unconfirmed
      /\ j.call \in Rails => j.payment \in moved'
  BY CommitMoney
<1>5. event' \in [Session -> Payment \cup {NoPayment}] /\ PaidIsAnnounced'
  BY CommitAnnounces
<1>6. jobs \in [Worker -> Job] /\ late' = late /\ drops' = drops
  BY DEF Commit, Inv, TypeOK
<1> DEFINE done == IF j.call = "qr" THEN [j EXCEPT !.at = "record", !.locked = {}] ELSE Idle
<1>7. jobs' = [jobs EXCEPT ![w] = done]
  BY DEF Commit
<1>8. done \in Job
  <2>1. [j EXCEPT !.at = "record", !.locked = {}] \in Work
    BY <1>1 DEF Work, Steps
  <2> QED BY <2>1 DEF Work, Job
<1>9. jobs'[w] = done /\ jobs' \in [Worker -> Job] /\ \A v \in Worker \ {w} : jobs'[v] = jobs[v]
  <2> HIDE DEF done
  <2> QED BY <1>6, <1>7, <1>8
<1>10. Busy(w)' =>
         /\ j.call = "qr" /\ jobs'[w].at = "record" /\ jobs'[w].call = "qr"
         /\ jobs'[w].session = s /\ jobs'[w].payment = j.payment /\ jobs'[w].locked = {}
  BY <1>1, <1>9 DEF Busy, Work
<1>11. TypeOK'
  <2>1. late' \subseteq Session /\ drops' \in 0 .. MaxDrops /\ unconfirmed' \subseteq moved'
    BY <1>4, <1>6 DEF Inv, TypeOK
  <2>2. overtaken' \subseteq Session
    BY <1>1 DEF Commit, Inv, TypeOK
  <2> QED BY <1>2, <1>4, <1>5, <1>9, <2>1, <2>2 DEF TypeOK
<1>12. Busy(w)' => Asked(jobs[w])' /\ Placed(jobs[w])' /\ Backed(jobs[w])' /\ Found(jobs[w])'
  <2> SUFFICES ASSUME Busy(w)'
               PROVE  Asked(jobs[w])' /\ Placed(jobs[w])' /\ Backed(jobs[w])' /\ Found(jobs[w])'
    OBVIOUS
  <2>1. Asked(jobs[w])'
    BY <1>1, <1>10 DEF Asked
  <2>2. Placed(jobs[w])'
    BY <1>10 DEF Placed, Rails
  <2>3. jobs'[w].payment \in moved'
    BY <1>4, <1>10 DEF Rails
  <2>5. Backed(jobs[w])'
    BY <1>10, <2>3 DEF Backed
  <2>4. Found(jobs[w])'
    BY <1>10 DEF Found
  <2> QED BY <2>1, <2>2, <2>4, <2>5
<1>13. \A v \in Worker \ {w} : Busy(v) =>
         \A part \in jobs[v].locked :
           rows'[jobs[v].session][part] = rows[jobs[v].session][part]
  <2> SUFFICES ASSUME NEW v \in Worker \ {w}, Busy(v), NEW part \in jobs[v].locked
               PROVE  rows'[jobs[v].session][part] = rows[jobs[v].session][part]
    OBVIOUS
  <2>1. jobs[v].session \in Session /\ part \in Parts
    BY AtWork DEF Work
  <2>2. CASE jobs[v].session # s
    BY <1>2, <2>1, <2>2
  <2>3. CASE jobs[v].session = s
    <3>1. part \notin j.locked
      BY <2>3, AtCommit DEF Inv, OneHolder
    <3> QED BY <2>1, <2>3, <3>1, CommitRows
  <2> QED BY <2>2, <2>3
<1>14. JobsOK' /\ OneHolder'
  <2>1. \A t \in Session : rows[t].link # "ACTIVE" => rows'[t].link # "ACTIVE"
    BY <1>2, <1>3
  <2>2. Busy(w)' => \A v \in Worker \ {w} : jobs[v].locked \cap jobs'[w].locked = {}
    BY <1>10
  <2> QED BY <1>4, <1>9, <1>11, <1>12, <1>13, <2>1, <2>2, HandlerStep
<1>15. InterfacesEndWithTheSession'
  BY <1>2, <1>3 DEF Inv, InterfacesEndWithTheSession
<1> QED BY <1>5, <1>11, <1>14, <1>15 DEF Inv

-----------------------------------------------------------------------------
(* The invariant, and what it gives.                                       *)

LEMMA NextInv == Inv /\ [Next]_vars => Inv'
<1> SUFFICES ASSUME Inv, [Next]_vars PROVE Inv'
  OBVIOUS
<1>1. ASSUME NEW w \in Worker, Call(w) \/ Continue(w) \/ Drop(w) \/ Refuse(w) \/ Deadlock(w)
      PROVE  Inv'
  BY <1>1, CallInv, ReadInv, TransferInv, ClaimInv, SettleSessionInv, RetireInv, CommitInv,
     RecordInv, WriteInv, DropInv, RefuseInv DEF Continue
<1>2. ASSUME NEW s \in Session,
             LinkClose(s) \/ Pass(s) \/ \E part \in {"link", "qr"} : Expire(s, part)
      PROVE  Inv'
  BY <1>2, LinkCloseInv, PassInv, ExpireInv
<1>3. CASE UNCHANGED vars
  BY <1>3 DEF vars, money, Inv, TypeOK, JobsOK, OneHolder, InterfacesEndWithTheSession,
     PaidIsAnnounced, Busy, Asked, Placed, Backed, Found
<1> QED BY <1>1, <1>2, <1>3 DEF Next

\* The inductive invariant: every handler is where its request could have brought
\* it, holds only rows that are as it found them, and shares none of them.
THEOREM Invariant == Spec => []Inv
<1> QED BY InitInv, NextInv, PTL DEF Spec

\* The states of a session, its interfaces and its handlers are those the code
\* writes, and nothing is recorded or answered without the money having moved.
THEOREM TypeCorrect == Spec => []TypeOK
<1>1. Inv => TypeOK
  BY DEF Inv
<1> QED BY <1>1, Invariant, PTL

\* mark_paid_in and cancel: no interface outlives its session, for any number of
\* payments, cancellations and failures at once.
THEOREM InterfacesEnd == Spec => []InterfacesEndWithTheSession
<1>1. Inv => InterfacesEndWithTheSession
  BY DEF Inv
<1> QED BY <1>1, Invariant, PTL

\* settle_for_interface_in: a session is PAID exactly when its event names a
\* payment, whose money moved and, on a wallet rail, is recorded.
THEOREM Announced == Spec => []PaidIsAnnounced
<1>1. Inv => PaidIsAnnounced
  BY DEF Inv
<1> QED BY <1>1, Invariant, PTL

-----------------------------------------------------------------------------
(* What a step may do to the rows and the money.                           *)

\* Of the steps only a transfer, a commit and the end of one interface show.
Ends(s, part, value) ==
  /\ rows' = [rows EXCEPT ![s][part] = value]
  /\ part = "qr" => value = "EXPIRED"
  /\ overtaken' = IF part = "link" THEN overtaken \cup {s} ELSE overtaken
  /\ UNCHANGED money

Over == {"USED", "CANCELLED", "EXPIRED"}

Shows ==
  \/ \E w \in Worker : Transfer(w) \/ Commit(w)
  \/ \E s \in Session, part \in {"link", "qr"}, value \in Over : Ends(s, part, value)

LEMMA StepKinds ==
  ASSUME Inv, [Next]_vars, ~ Shows
  PROVE  /\ rows' = rows /\ event' = event /\ moved' = moved
         /\ overtaken' = overtaken /\ recorded \subseteq recorded'
<1> DEFINE Goal == /\ rows' = rows /\ event' = event /\ moved' = moved
                   /\ overtaken' = overtaken /\ recorded \subseteq recorded'
<1>1. ASSUME NEW w \in Worker, Call(w) \/ Drop(w) \/ Refuse(w) \/ Deadlock(w) \/ Read(w)
                 \/ Claim(w) \/ SettleSession(w) \/ Retire(w) \/ Record(w)
      PROVE  Goal
  <2>1. CASE Call(w)
    BY <2>1 DEF Call, Start, money
  <2>2. CASE Drop(w) \/ Deadlock(w)
    BY <2>2 DEF Drop, Deadlock, Fails
  <2>3. CASE Refuse(w) \/ Read(w) \/ Claim(w) \/ SettleSession(w) \/ Retire(w)
    BY <2>3 DEF Refuse, Read, Claim, SettleSession, Retire, money
  <2>4. CASE Record(w)
    BY <2>4 DEF Record
  <2> QED BY <1>1, <2>1, <2>2, <2>3, <2>4
<1>2. ASSUME NEW w \in Worker PROVE ~ Transfer(w) /\ ~ Commit(w)
  BY DEF Shows
<1>4. ASSUME NEW s \in Session, NEW value \in Over,
             rows' = [rows EXCEPT ![s].link = value], UNCHANGED money,
             overtaken' = overtaken \cup {s}
      PROVE  FALSE
  <2>1. Ends(s, "link", value)
    BY <1>4 DEF Ends
  <2> QED BY <1>4, <2>1 DEF Shows
<1>5. ASSUME NEW w \in Worker, Write(w) PROVE FALSE
  <2>1. jobs[w].at = "write" /\ UNCHANGED money
    BY <1>5 DEF Write
  <2>2. Busy(w)
    BY <2>1, JobKinds DEF Inv, TypeOK, Busy, Steps
  <2>3. On(w) \in Session
    BY <2>2, AtWork
  <2> QED BY <1>4, <1>5, <2>1, <2>3 DEF Write, Over
<1>6. ASSUME NEW s \in Session, LinkClose(s) PROVE FALSE
  BY <1>4, <1>6 DEF LinkClose, Over
<1>7. ASSUME NEW s \in Session, NEW part \in {"link", "qr"}, Expire(s, part) PROVE FALSE
  <2>1. /\ rows' = [rows EXCEPT ![s][part] = "EXPIRED"] /\ UNCHANGED money
        /\ overtaken' = IF part = "link" THEN overtaken \cup {s} ELSE overtaken
    BY <1>7 DEF Expire
  <2>2. CASE part = "link"
    BY <1>4, <2>1, <2>2 DEF Over
  <2>3. CASE part = "qr"
    <3>1. Ends(s, "qr", "EXPIRED")
      BY <2>1, <2>3 DEF Ends
    <3> QED BY <3>1 DEF Shows, Over
  <2> QED BY <2>2, <2>3
<1>8. ASSUME NEW s \in Session, Pass(s) PROVE Goal
  BY <1>8 DEF Pass, money
<1>9. CASE UNCHANGED vars
  BY <1>9 DEF vars, money
<1>10. ASSUME NEW w \in Worker,
              Call(w) \/ Continue(w) \/ Drop(w) \/ Refuse(w) \/ Deadlock(w)
       PROVE  Goal
  BY <1>1, <1>2, <1>5, <1>10 DEF Continue
<1>11. ASSUME NEW s \in Session,
              LinkClose(s) \/ Pass(s) \/ \E part \in {"link", "qr"} : Expire(s, part)
       PROVE  Goal
  BY <1>6, <1>7, <1>8, <1>11
<1> QED BY <1>9, <1>10, <1>11 DEF Next

LEMMA EndsOneRow ==
  ASSUME Inv, NEW s \in Session, NEW part \in {"link", "qr"}, NEW value \in Over,
         Ends(s, part, value)
  PROVE  \A t \in Session :
           /\ rows'[t].session = rows[t].session
           /\ rows[t].qr # "ACTIVE" => rows'[t].qr # "ACTIVE"
           /\ t # s \/ part = "qr" => rows'[t].link = rows[t].link
<1>1. /\ part = "link" => value \in {"USED", "CANCELLED", "EXPIRED"}
      /\ part = "qr" => value \in {"USED", "EXPIRED"}
      /\ rows' = [rows EXCEPT ![s][part] = value]
  BY DEF Ends, Over
<1>2. /\ \A t \in Session :
           /\ rows'[t].session = rows[t].session
           /\ rows[t].qr # "ACTIVE" => rows'[t].qr # "ACTIVE"
      /\ \A t \in Session, other \in Parts :
           t # s \/ other # part => rows'[t][other] = rows[t][other]
  BY <1>1, OneRow
<1> QED BY <1>2 DEF Parts

\* mark_paid_in: what became of a session, and the payment its event names, are
\* decided by the one transaction that found it ACTIVE.
THEOREM Decided == Spec => DecidedOnce
<1> DEFINE Once == \A s \in Session :
             /\ rows[s].session # "ACTIVE" => rows'[s].session = rows[s].session
             /\ event[s] # NoPayment => event'[s] = event[s]
<1>1. ASSUME Inv, [Next]_vars PROVE [Once]_vars
  <2>1. CASE ~ Shows
    BY <1>1, <2>1, StepKinds
  <2>2. ASSUME NEW w \in Worker, Transfer(w) PROVE Once
    BY <2>2 DEF Transfer
  <2>3. ASSUME NEW w \in Worker, Commit(w) PROVE Once
    <3>1. \A t \in Session : event[t] # NoPayment => event'[t] = event[t]
      BY <1>1, <2>3, CommitAnnounces
    <3>2. \A t \in Session \ {jobs[w].session} : rows'[t] = rows[t]
      BY <1>1, <2>3, CommitRows
    <3>3. rows[jobs[w].session].session # "ACTIVE" =>
            rows'[jobs[w].session].session = rows[jobs[w].session].session
      BY <1>1, <2>3, CommitEnds
    <3> QED BY <3>1, <3>2, <3>3
  <2>4. ASSUME NEW s \in Session, NEW part \in {"link", "qr"}, NEW value \in Over,
               Ends(s, part, value)
        PROVE  Once
    <3>1. \A t \in Session : rows'[t].session = rows[t].session
      BY <1>1, <2>4, EndsOneRow
    <3> QED BY <2>4, <3>1 DEF Ends, money
  <2> HIDE DEF Once
  <2> QED BY <2>2, <2>3, <2>4, <2>1 DEF Shows
<1> QED BY <1>1, Invariant, PTL DEF Spec, DecidedOnce

-----------------------------------------------------------------------------
(* The money of a session.                                                 *)

\* The money of a session that came by one of the rails.
OfRail(s, rail) == {p \in moved : p.session = s /\ p.via = rail}

\* Of a session's link one payment is taken from a wallet, and of its code one.
TakenOnce ==
  \A s \in Session :
    /\ \A p, q \in OfRail(s, "link") : p = q
    /\ \A p, q \in OfRail(s, "qr") : p = q
    /\ OfRail(s, "qr") # {} => rows[s].qr # "ACTIVE"

\* What happens comes of the operations that are used.
CallsOnly ==
  /\ \A p \in moved : p.via \in Calls
  /\ \A w \in Worker : Busy(w) => jobs[w].call \in Calls

\* A link that is over was paid, and the payment is recorded, or something else
\* ended it.
OverIsExplained ==
  \A s \in Session :
    rows[s].link # "ACTIVE" =>
      s \in overtaken \/ \E p \in recorded : p.session = s /\ p.via = "link"

MoneyInv == TakenOnce /\ CallsOnly /\ OverIsExplained

LEMMA InitMoney == Init => MoneyInv
BY DEF Init, MoneyInv, TakenOnce, CallsOnly, OverIsExplained, OfRail, Busy

\* What a transfer adds to the money, and what a commit adds.
LEMMA TransferAdds ==
  ASSUME Inv, NEW w \in Worker, Transfer(w)
  PROVE  /\ rows' = rows /\ recorded' = recorded /\ overtaken' = overtaken
         /\ Busy(w) /\ jobs[w].call = "link"
         /\ jobs[w].payment.via = "link"
         /\ \/ moved' = moved
            \/ /\ moved' = moved \cup {jobs[w].payment}
               /\ OfRail(jobs[w].payment.session, "link") \subseteq {jobs[w].payment}
<1>1. /\ jobs[w].at = "transfer" /\ rows' = rows /\ recorded' = recorded
      /\ overtaken' = overtaken
  BY DEF Transfer
<1>2. Busy(w)
  BY <1>1, JobKinds DEF Inv, TypeOK, Busy, Steps
<1>3. jobs[w].call = "link" /\ jobs[w].payment.via = "link"
  BY <1>1, <1>2, AtWork DEF Placed, Asked, Rails
<1>4. \/ moved' = moved
      \/ /\ moved' = moved \cup {jobs[w].payment}
         /\ OfRail(jobs[w].payment.session, "link") \subseteq {jobs[w].payment}
  BY DEF Transfer, OfRail
<1> QED BY <1>1, <1>2, <1>3, <1>4

LEMMA CommitAdds ==
  ASSUME Inv, NEW w \in Worker, Commit(w)
  PROVE  LET j == jobs[w] IN
         /\ \/ moved' = moved
            \/ /\ moved' = moved \cup {j.payment}
               /\ j.payment.session = j.session /\ j.payment.via = j.call
               /\ j.call \in {"qr", "hosted"}
         /\ j.call = "qr" => rows[j.session].qr = "ACTIVE" /\ rows'[j.session].qr # "ACTIVE"
         /\ j.call = "link" =>
              /\ j.payment \in recorded' /\ j.payment.session = j.session
              /\ j.payment.via = "link"
<1> DEFINE j == jobs[w]
<1>1. /\ j.at = "siblings" /\ j.session \in Session /\ rows[j.session] \in Rows
      /\ Asked(j) /\ Placed(j) /\ Found(j)
  BY AtCommit
<1>2. /\ moved' = IF j.call \in {"qr", "hosted"} THEN moved \cup {j.payment} ELSE moved
      /\ recorded' = recorded \cup Records(j)
  BY DEF Commit
<1>3. j.call \in Rails => j.payment.session = j.session /\ j.payment.via = j.call
  BY <1>1 DEF Asked
<1>4. j.call = "link" => j.payment \in recorded'
  BY <1>2 DEF Records
<1>5. ASSUME j.call = "qr"
      PROVE  rows[j.session].qr = "ACTIVE" /\ rows'[j.session].qr # "ACTIVE"
  <2>1. "qr" \in j.locked
    BY <1>1, <1>5 DEF Placed, OwnRow
  <2>2. rows[j.session]["qr"] = "ACTIVE"
    BY <1>1, <2>1 DEF Found
  <2>3. rows'[j.session]["qr"] = Ended(j.call)["qr"]
    BY <2>1, CommitRows DEF Parts
  <2> QED BY <2>2, <2>3, EndedFacts
<1> QED BY <1>2, <1>3, <1>4, <1>5 DEF Rails

\* The link's transfer is made once under its key, and a code's row is claimed once.
LEMMA TakenOnceStep ==
  ASSUME Inv, TakenOnce, [Next]_vars
  PROVE  TakenOnce'
<1>1. CASE ~ Shows
  BY <1>1, StepKinds DEF TakenOnce, OfRail
<1>2. ASSUME NEW w \in Worker, Transfer(w) PROVE TakenOnce'
  <2>1. PICK p : p = jobs[w].payment
    OBVIOUS
  <2>2. /\ rows' = rows /\ p.via = "link"
        /\ \/ moved' = moved
           \/ moved' = moved \cup {p} /\ OfRail(p.session, "link") \subseteq {p}
    BY <1>2, <2>1, TransferAdds
  <2>3. \A s \in Session : OfRail(s, "qr")' = OfRail(s, "qr")
    BY <2>2 DEF OfRail
  <2>4. \A s \in Session : s # p.session => OfRail(s, "link")' = OfRail(s, "link")
    BY <2>2 DEF OfRail
  <2>5. \/ OfRail(p.session, "link")' = OfRail(p.session, "link")
        \/ OfRail(p.session, "link")' \subseteq {p}
    BY <2>2 DEF OfRail
  <2> QED BY <2>2, <2>3, <2>4, <2>5 DEF TakenOnce
<1>3. ASSUME NEW w \in Worker, Commit(w) PROVE TakenOnce'
  <2> DEFINE j == jobs[w]
  <2>1. /\ \/ moved' = moved
           \/ /\ moved' = moved \cup {j.payment}
              /\ j.payment.session = j.session /\ j.payment.via = j.call
              /\ j.call \in {"qr", "hosted"}
        /\ j.call = "qr" => rows[j.session].qr = "ACTIVE" /\ rows'[j.session].qr # "ACTIVE"
        /\ j.session \in Session
    BY <1>3, CommitAdds, AtCommit
  <2>2. \A s \in Session : rows[s].qr # "ACTIVE" => rows'[s].qr # "ACTIVE"
    BY <1>3, CommitRows, CommitEnds
  <2>3. \A s \in Session : OfRail(s, "link")' = OfRail(s, "link")
    BY <2>1 DEF OfRail
  <2>4. CASE j.call = "qr"
    <3> PICK p : p = j.payment
      OBVIOUS
    <3>1. PICK o \in Session : p = j.payment /\ o = j.session
      BY <2>1
    <3>2. OfRail(o, "qr") = {}
      BY <2>1, <2>4, <3>1 DEF TakenOnce
    <3>3. OfRail(o, "qr")' \subseteq {p}
      BY <2>1, <3>1, <3>2 DEF OfRail
    <3>4. \A s \in Session : s # o => OfRail(s, "qr")' = OfRail(s, "qr")
      BY <2>1, <3>1 DEF OfRail
    <3>5. rows'[o].qr # "ACTIVE"
      BY <2>1, <2>4, <3>1
    <3> QED BY <2>2, <2>3, <3>3, <3>4, <3>5 DEF TakenOnce
  <2>5. CASE j.call # "qr"
    <3>1. \A s \in Session : OfRail(s, "qr")' = OfRail(s, "qr")
      BY <2>1, <2>5 DEF OfRail
    <3> QED BY <2>2, <2>3, <3>1 DEF TakenOnce
  <2> QED BY <2>4, <2>5
<1>4. ASSUME NEW s \in Session, NEW part \in {"link", "qr"}, NEW value \in Over,
             Ends(s, part, value)
      PROVE  TakenOnce'
  <2>1. \A t \in Session : rows[t].qr # "ACTIVE" => rows'[t].qr # "ACTIVE"
    BY <1>4, EndsOneRow
  <2>2. moved' = moved
    BY <1>4 DEF Ends, money
  <2> QED BY <2>1, <2>2 DEF TakenOnce, OfRail
<1> QED BY <1>1, <1>2, <1>3, <1>4 DEF Shows

LEMMA CallsOnlyStep ==
  ASSUME Inv, CallsOnly, [Next]_vars
  PROVE  CallsOnly'
<1>1. \A p \in moved' : p.via \in Calls
  <2>1. CASE ~ Shows
    BY <2>1, StepKinds DEF CallsOnly
  <2>2. ASSUME NEW w \in Worker, Transfer(w) PROVE \A p \in moved' : p.via \in Calls
    BY <2>2, TransferAdds DEF CallsOnly
  <2>3. ASSUME NEW w \in Worker, Commit(w) PROVE \A p \in moved' : p.via \in Calls
    BY <2>3, CommitAdds, AtCommit DEF CallsOnly
  <2>4. ASSUME NEW s \in Session, NEW part \in {"link", "qr"}, NEW value \in Over,
               Ends(s, part, value)
        PROVE  \A p \in moved' : p.via \in Calls
    BY <2>4 DEF Ends, money, CallsOnly
  <2> QED BY <2>1, <2>2, <2>3, <2>4 DEF Shows
<1>2. \A v \in Worker : Busy(v)' => jobs'[v].call \in Calls
  <2>1. jobs \in [Worker -> Job]
    BY DEF Inv, TypeOK
  <2>2. CASE jobs' = jobs
    BY <2>2 DEF CallsOnly, Busy
  <2>3. ASSUME NEW w \in Worker, End(w) PROVE \A v \in Worker : Busy(v)' => jobs'[v].call \in Calls
    BY <2>3, EndStep DEF CallsOnly, Busy
  <2>4. ASSUME NEW w \in Worker, Busy(w), \A v \in Worker \ {w} : jobs'[v] = jobs[v],
               jobs'[w].call = jobs[w].call
        PROVE  \A v \in Worker : Busy(v)' => jobs'[v].call \in Calls
    BY <2>4 DEF CallsOnly, Busy
  <2>5. ASSUME NEW w \in Worker, Call(w) PROVE \A v \in Worker : Busy(v)' => jobs'[v].call \in Calls
    BY <2>1, <2>5 DEF Call, Start, CallsOnly, Busy
  <2>6. ASSUME NEW w \in Worker, Busy(w), NEW step \in Steps, Goto(w, step)
        PROVE  \A v \in Worker : Busy(v)' => jobs'[v].call \in Calls
    BY <2>4, <2>6, GotoStep
  <2>7. ASSUME NEW w \in Worker, Busy(w), NEW step \in Steps, NEW part \in Parts,
               Lock(w, part, step)
        PROVE  \A v \in Worker : Busy(v)' => jobs'[v].call \in Calls
    BY <2>4, <2>7, LockStep
  <2>8. ASSUME NEW w \in Worker, Commit(w)
        PROVE  \A v \in Worker : Busy(v)' => jobs'[v].call \in Calls
    <3>1. Busy(w) /\ jobs[w] \in Work
      BY <2>8, AtCommit
    <3>2. /\ jobs'[w] \in {Idle, [jobs[w] EXCEPT !.at = "record", !.locked = {}]}
          /\ \A v \in Worker \ {w} : jobs'[v] = jobs[v]
      BY <2>1, <2>8 DEF Commit
    <3>3. jobs'[w] = Idle \/ jobs'[w].call = jobs[w].call
      BY <3>1, <3>2 DEF Work
    <3> QED BY <2>4, <3>1, <3>2, <3>3 DEF Busy, CallsOnly
  <2>9. ASSUME NEW w \in Worker, Read(w) \/ Transfer(w) \/ Claim(w) \/ SettleSession(w) \/ Retire(w)
        PROVE  \A v \in Worker : Busy(v)' => jobs'[v].call \in Calls
    <3>1. jobs[w].at \in Steps
      BY <2>9 DEF Read, Transfer, Claim, SettleSession, Retire, Steps
    <3>2. Busy(w) /\ Placed(jobs[w])
      BY <2>1, <3>1, JobKinds, AtWork DEF Busy
    <3>3. \/ End(w)
          \/ \E step \in Steps : Goto(w, step)
          \/ \E step \in Steps, part \in Parts : Lock(w, part, step)
      <4>1. CASE Read(w)
        BY <4>1 DEF Read, Steps
      <4>2. CASE Transfer(w)
        BY <4>2 DEF Transfer, Steps
      <4>3. CASE Claim(w)
        <5>1. OwnRow[jobs[w].call] \in Parts
          BY <3>2, <4>3 DEF Claim, Placed, OwnRow, Rails, Parts
        <5> QED BY <4>3, <5>1 DEF Claim, Steps
      <4>4. CASE SettleSession(w)
        BY <4>4 DEF SettleSession, Steps, Parts
      <4>5. CASE Retire(w)
        <5>1. ToRetire(w) \subseteq Parts
          BY <3>2, <4>5 DEF Retire, ToRetire, Placed, Siblings, Rails, Parts
        <5> QED BY <4>5, <5>1 DEF Retire, Steps
      <4> QED BY <2>9, <4>1, <4>2, <4>3, <4>4, <4>5
    <3> QED BY <2>3, <2>6, <2>7, <3>2, <3>3
  <2>10. ASSUME NEW w \in Worker, Record(w) \/ Write(w) \/ Drop(w) \/ Refuse(w) \/ Deadlock(w)
         PROVE  End(w)
    BY <2>10 DEF Record, Write, Drop, Refuse, Deadlock, Fails
  <2>11. ASSUME NEW w \in Worker, Continue(w)
         PROVE  \A v \in Worker : Busy(v)' => jobs'[v].call \in Calls
    BY <2>3, <2>8, <2>9, <2>10, <2>11 DEF Continue
  <2>12. ASSUME NEW s \in Session,
                LinkClose(s) \/ Pass(s) \/ \E part \in {"link", "qr"} : Expire(s, part)
         PROVE  jobs' = jobs
    BY <2>12 DEF LinkClose, Pass, Expire
  <2> QED BY <2>2, <2>3, <2>5, <2>10, <2>11, <2>12 DEF Next, vars
<1> QED BY <1>1, <1>2 DEF CallsOnly

\* The rows of a link change by the commit of its payment, or by what overtakes it.
LEMMA OverIsExplainedStep ==
  ASSUME Inv, OverIsExplained, [Next]_vars
  PROVE  OverIsExplained'
<1> DEFINE Explained(s) ==
             s \in overtaken' \/ \E p \in recorded' : p.session = s /\ p.via = "link"
<1> SUFFICES ASSUME NEW s \in Session, rows'[s].link # "ACTIVE" PROVE Explained(s)
  BY DEF OverIsExplained
<1>1. CASE ~ Shows
  BY <1>1, StepKinds DEF OverIsExplained
<1>2. ASSUME NEW w \in Worker, Transfer(w) PROVE Explained(s)
  BY <1>2, TransferAdds DEF OverIsExplained
<1>3. ASSUME NEW w \in Worker, Commit(w) PROVE Explained(s)
  <2> DEFINE j == jobs[w]
  <2>1. /\ recorded \subseteq recorded' /\ overtaken \subseteq overtaken'
        /\ j.call # "link" /\ "link" \in j.locked => j.session \in overtaken'
    BY <1>3, CommitMoney DEF Commit
  <2>2. CASE s # j.session \/ "link" \notin j.locked
    <3>1. rows'[s].link = rows[s].link
      BY <1>3, <2>2, CommitRows DEF Parts
    <3> QED BY <2>1, <3>1 DEF OverIsExplained
  <2>3. CASE s = j.session /\ "link" \in j.locked /\ j.call # "link"
    BY <2>1, <2>3
  <2>4. CASE s = j.session /\ j.call = "link"
    BY <1>3, <2>4, CommitAdds
  <2> QED BY <2>2, <2>3, <2>4
<1>4. ASSUME NEW o \in Session, NEW part \in {"link", "qr"}, NEW value \in Over,
             Ends(o, part, value)
      PROVE  Explained(s)
  <2>1. overtaken \subseteq overtaken' /\ recorded' = recorded
    BY <1>4 DEF Ends, money
  <2>2. CASE s = o /\ part = "link"
    BY <1>4, <2>2 DEF Ends
  <2>3. CASE s # o \/ part = "qr"
    <3>1. rows'[s].link = rows[s].link
      BY <1>4, <2>3, EndsOneRow
    <3> QED BY <2>1, <3>1 DEF OverIsExplained
  <2> QED BY <2>2, <2>3
<1> QED BY <1>1, <1>2, <1>3, <1>4 DEF Shows

LEMMA MoneyInvariant == Spec => [](Inv /\ MoneyInv)
<1>1. Init => Inv /\ MoneyInv
  BY InitInv, InitMoney
<1>2. Inv /\ MoneyInv /\ [Next]_vars => (Inv /\ MoneyInv)'
  BY NextInv, TakenOnceStep, CallsOnlyStep, OverIsExplainedStep DEF MoneyInv
<1> QED BY <1>1, <1>2, PTL DEF Spec

\* The key of a link's transfer and the claim of a code's row: whatever else pays
\* or ends the session, its link takes one payment and its code one.
THEOREM EachInterfaceOnce == Spec => []EachInterfacePaidOnce
<1>1. Inv /\ MoneyInv => EachInterfacePaidOnce
  <2> SUFFICES ASSUME Inv, MoneyInv, NEW p \in moved, NEW q \in moved,
                      p.session = q.session, p.via = q.via, p.via \in {"link", "qr"}
               PROVE  p = q
    BY DEF EachInterfacePaidOnce
  <2>1. p.session \in Session
    BY DEF Inv, TypeOK, Payment
  <2> QED BY <2>1 DEF MoneyInv, TakenOnce, OfRail
<1> QED BY <1>1, MoneyInvariant, PTL

\* "A session is paid once": so it is as long as its payers use one of the two
\* interfaces, for any number of them, of retries and of failures.  With both in use
\* it may be paid twice.
THEOREM OneInterfacePaidOnce ==
  ASSUME NEW rail \in {"link", "qr"}, Calls \cap Rails \subseteq {rail}
  PROVE  Spec => []PaidOnce
<1>1. Inv /\ MoneyInv => PaidOnce
  <2> SUFFICES ASSUME Inv, MoneyInv, NEW s \in Session
               PROVE  Cardinality({p \in moved : p.session = s}) <= 1
    BY DEF PaidOnce
  <2> DEFINE taken == {p \in moved : p.session = s}
  <2>1. \A p \in moved : p.via = rail
    BY DEF Inv, TypeOK, Payment, MoneyInv, CallsOnly
  <2>2. \A p, q \in taken : p = q
    BY <2>1 DEF MoneyInv, TakenOnce, OfRail
  <2>3. CASE taken = {}
    BY <2>3, FS_EmptySet
  <2>4. CASE taken # {}
    <3>1. PICK p \in taken : taken = {p}
      BY <2>2, <2>4
    <3>2. Cardinality({p}) = 1
      BY FS_Singleton
    <3> QED BY <3>1, <3>2
  <2> QED BY <2>3, <2>4
<1> QED BY <1>1, MoneyInvariant, PTL

\* mark_used: "the payer's retry replays the same transfer ... and completes it
\* here".  Money taken for a link is recorded, or the link is still ACTIVE for the
\* retry, or something other than its payment ended the link; no failure, no second
\* payer and no order of the calls leaves it any other way.
THEOREM LinkMoneyIsRecordable == Spec => []TakenIsRecordable
<1>1. Inv /\ MoneyInv => TakenIsRecordable
  <2> SUFFICES ASSUME Inv, MoneyInv, NEW p \in moved, p.via = "link",
                      rows[p.session].link # "ACTIVE", p.session \notin overtaken
               PROVE  p \in recorded
    BY DEF TakenIsRecordable
  <2>1. p.session \in Session
    BY DEF Inv, TypeOK, Payment
  <2>2. PICK q \in recorded : q.session = p.session /\ q.via = "link"
    BY <2>1 DEF MoneyInv, OverIsExplained
  <2>3. q \in moved
    BY DEF Inv, TypeOK
  <2>4. p = q
    BY <2>1, <2>2, <2>3 DEF MoneyInv, TakenOnce, OfRail
  <2> QED BY <2>2, <2>4
<1> QED BY <1>1, MoneyInvariant, PTL

=============================================================================
