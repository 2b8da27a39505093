------------------------- MODULE ValidationRunsProofs -------------------------
(***************************************************************************)
(* Theorems about ValidationRuns for every set of executors, every plan    *)
(* and every number of faults, checked by TLAPS.                           *)
(***************************************************************************)
EXTENDS ValidationRuns, TLAPS

Counting == {"plan", "check", "start", "harness", "mark", "barrier", "final", "complete"}
Closing == {"completed", "abandon", "reconcile"}

\* What is so of an executor whatever the others do.
Placed(e) ==
  ex[e] # None =>
    /\ ex[e].at \in {"start", "harness", "mark"} => ex[e].j \in Journey
    /\ \/ ex[e].late = 0
       \/ ex[e].late = 1 /\ state = "CANCELLED" /\ ex[e].at # "start"
    /\ ex[e].at \in {"peeked", "plan"} => ex[e].j = 1 /\ ~ ex[e].failed /\ ~ ex[e].stopped
    /\ ex[e].at = "barrier" => ex[e].stopped
    /\ ex[e].at \in Counting /\ ~ ex[e].failed /\ ~ ex[e].stopped =>
         \A i \in Executable : i < ex[e].j => i \in ex[e].passed
    /\ ex[e].at \in {"final", "complete"} /\ ~ ex[e].failed /\ ~ ex[e].stopped
         /\ state # "CANCELLED" => ex[e].j = Last + 1
    /\ Live(e) => state \in Terminal \cup {"RUNNING"}

\* What is so of one that is the only one while it lives: the rows say what it has
\* counted.
Alone(e) ==
  Live(e) =>
    /\ \A f \in Executor : Live(f) => f = e
    /\ state = "RUNNING" => leased
    /\ state = "COMPLETED" => ex[e].at \in Closing
    /\ ex[e].at \in Counting /\ ~ ex[e].failed /\ ~ ex[e].stopped =>
         \A i \in Executable : i < ex[e].j => rows[i] = "PASSED"

VerdictOfCompleted == verdict # None <=> state = "COMPLETED"

Inv ==
  /\ TypeOK
  /\ VerdictOfCompleted
  /\ PassMeansPassed
  /\ \A e \in Executor : Placed(e)
  /\ ~ overrun => \A e \in Executor : Alone(e)

LEMMA Constants ==
  /\ Last \in Nat /\ MaxFaults \in Nat /\ Executable \subseteq Journey
  /\ None \notin Outcomes /\ None \notin {"PASS", "FAIL"}
  /\ \A j \in Journey : j \in Nat /\ 1 <= j /\ j <= Last /\ j + 1 \in 1 .. Last + 1
BY ValidationRunsAssumption DEF Journey, Outcomes

\* A statement of an executor that has claimed the run.
LEMMA LiveStep ==
  ASSUME Inv, NEW e \in Executor, Live(e),
         ex' \in [Executor -> Working \cup {None}],
         \A f \in Executor \ {e} : ex'[f] = ex[f],
         overrun' = overrun, leased' = leased,
         \/ state' = state
         \/ state = "RUNNING" /\ state' \in {"COMPLETED", "ABANDONED"},
         faults' \in 0 .. MaxFaults, verdict' \in {"PASS", "FAIL", None},
         earned' \subseteq Journey,
         rows' \in [Journey -> Outcomes \cup {None}],
         VerdictOfCompleted', PassMeansPassed', Placed(e)', ~ overrun => Alone(e)'
  PROVE  Inv'
<1>1. TypeOK'
  BY DEF Inv, TypeOK, States, Terminal
<1>2. ASSUME NEW f \in Executor PROVE Placed(f)'
  <2>1. CASE f # e
    BY <2>1 DEF Inv, Placed, Live, Terminal
  <2> QED BY <2>1
<1>3. ASSUME ~ overrun, NEW f \in Executor PROVE Alone(f)'
  <2>1. CASE f # e
    BY <1>3, <2>1 DEF Inv, Alone, Live
  <2> QED BY <1>3, <2>1
<1> QED BY <1>1, <1>2, <1>3 DEF Inv

LEMMA LiveFacts ==
  ASSUME Inv, NEW e \in Executor, ex[e] # None
  PROVE  /\ ex[e] \in Working /\ Placed(e) /\ (~ overrun => Alone(e))
         /\ ex[e].at \in Steps /\ ex[e].j \in 1 .. Last + 1 /\ ex[e].j \in Nat
         /\ ex[e].late \in 0 .. Last /\ ex[e].failed \in BOOLEAN /\ ex[e].stopped \in BOOLEAN
         /\ ex[e].passed \subseteq Journey
<1>1. ex[e] \in Working /\ Placed(e) /\ (~ overrun => Alone(e))
  BY DEF Inv, TypeOK
<1>2. ex[e].j \in 1 .. Last + 1
  BY <1>1 DEF Working
<1> QED BY <1>1, <1>2, Constants DEF Working

\* An executor is gone.
LEMMA ExitKeeps ==
  ASSUME Inv, NEW e \in Executor, Live(e), Exit(e), UNCHANGED <<run, overrun>>,
         faults' \in 0 .. MaxFaults,
         rows' \in [Journey -> Outcomes \cup {None}],
         PassMeansPassed'
  PROVE  Inv'
<1>1. ex' = [ex EXCEPT ![e] = None] /\ ex[e] # None
  BY DEF Exit, Live
<1>2. ex' \in [Executor -> Working \cup {None}] /\ ex'[e] = None
  BY <1>1 DEF Inv, TypeOK
<1>3. Placed(e)' /\ Alone(e)'
  BY <1>2 DEF Placed, Alone, Live
<1>4. VerdictOfCompleted'
  BY DEF Inv, VerdictOfCompleted, run
<1> QED BY <1>1, <1>2, <1>3, <1>4, LiveStep DEF Inv, TypeOK, run

\* An executor goes on, in a step that leaves the run and its rows alone.
LEMMA GoesOn ==
  ASSUME Inv, NEW e \in Executor, Live(e), NEW r \in Working,
         ex' = [ex EXCEPT ![e] = r], UNCHANGED <<run, rows, overrun>>,
         faults' \in 0 .. MaxFaults,
         r.at # "peeked",
         r.at \in {"start", "harness", "mark"} => r.j \in Journey,
         r.late = 0 \/ (r.late = 1 /\ state = "CANCELLED" /\ r.at # "start"),
         r.at = "plan" => r.j = 1 /\ ~ r.failed /\ ~ r.stopped,
         r.at = "barrier" => r.stopped,
         r.at \in Counting /\ ~ r.failed /\ ~ r.stopped =>
           \A i \in Executable : i < r.j => i \in r.passed,
         r.at \in {"final", "complete"} /\ ~ r.failed /\ ~ r.stopped
           /\ state # "CANCELLED" => r.j = Last + 1,
         ~ overrun =>
           /\ state = "COMPLETED" => r.at \in Closing
           /\ r.at \in Counting /\ ~ r.failed /\ ~ r.stopped =>
                \A i \in Executable : i < r.j => rows[i] = "PASSED"
  PROVE  Inv'
<1>1. ex' \in [Executor -> Working \cup {None}] /\ ex'[e] = r
      /\ \A f \in Executor \ {e} : ex'[f] = ex[f]
  BY DEF Inv, TypeOK
<1>2. Placed(e)'
  BY <1>1, LiveFacts DEF Placed, Live, run
<1>3. ASSUME ~ overrun PROVE Alone(e)'
  <2>1. \A f \in Executor : Live(f)' => f = e
    BY <1>1, <1>3 DEF Inv, Alone, Live
  <2>2. Alone(e) /\ Live(e)
    BY <1>3 DEF Inv
  <2> QED BY <1>1, <1>3, <2>1, <2>2 DEF Alone, run
<1>4. VerdictOfCompleted' /\ PassMeansPassed'
  BY DEF Inv, VerdictOfCompleted, PassMeansPassed, run
<1> QED BY <1>1, <1>2, <1>3, <1>4, LiveStep DEF Inv, TypeOK, run

LEMMA CheckKeeps ==
  ASSUME Inv, NEW e \in Executor, NEW spent \in BOOLEAN, Check(e, spent)
  PROVE  Inv'
<1>1. Live(e) /\ ex[e].at = "check" /\ ex[e] # None
  BY DEF Check, At, Live
<1>2. ex[e] \in Working /\ Placed(e) /\ (~ overrun => Alone(e)) /\ ex[e].j \in 1 .. Last + 1
  BY <1>1, LiveFacts
<1> DEFINE over == ex[e].j > Last \/ state = "CANCELLED" \/ spent
<1> SUFFICES ASSUME NEW at, at = (IF over THEN "final" ELSE "start"),
                    NEW stop \in BOOLEAN,
                    stop <=> ex[e].stopped \/ (spent /\ ex[e].j <= Last /\ state # "CANCELLED"),
                    NEW r, r = [ex[e] EXCEPT !.at = at, !.stopped = stop],
                    ex' = [ex EXCEPT ![e] = r]
             PROVE  Inv'
  BY <1>2 DEF Check, Working
<1>3. /\ r \in Working /\ r.at = at /\ r.stopped = stop /\ r.j = ex[e].j
      /\ r.late = ex[e].late /\ r.failed = ex[e].failed /\ r.passed = ex[e].passed
  BY <1>2 DEF Working, Steps
<1>4. at = "start" => r.j \in Journey /\ state # "CANCELLED"
  BY <1>2, <1>3, Constants DEF Journey
<1>5. at = "final" /\ ~ stop /\ state # "CANCELLED" => r.j = Last + 1
  BY <1>2, <1>3, Constants
<1>6. ~ stop => ~ ex[e].stopped
  OBVIOUS
<1>7. UNCHANGED <<run, rows, overrun>> /\ faults' \in 0 .. MaxFaults
  BY DEF Check, Inv, TypeOK
<1>8. ~ overrun =>
        /\ state = "COMPLETED" => r.at \in Closing
        /\ r.at \in Counting /\ ~ r.failed /\ ~ r.stopped =>
             \A i \in Executable : i < r.j => rows[i] = "PASSED"
  BY <1>1, <1>2, <1>3, <1>6 DEF Alone, Counting, Closing
<1>13. /\ ~ r.failed /\ ~ r.stopped => \A i \in Executable : i < r.j => i \in r.passed
       /\ r.at \in {"final", "complete"} /\ ~ r.failed /\ ~ r.stopped
            /\ state # "CANCELLED" => r.j = Last + 1
  BY <1>1, <1>2, <1>3, <1>5, <1>6 DEF Placed, Counting
<1>9. r.late = 0 \/ (r.late = 1 /\ state = "CANCELLED" /\ r.at # "start")
  BY <1>1, <1>2, <1>3, <1>4 DEF Placed
<1>10. r.at \in {"final", "start"}
  BY <1>3
<1>11. r.at \in {"start", "harness", "mark"} => r.j \in Journey
  BY <1>3, <1>4, <1>10
<1>12. r.at # "peeked" /\ r.at # "plan" /\ r.at # "barrier"
  BY <1>10
<1> HIDE DEF over
<1> QED BY <1>1, <1>3, <1>7, <1>8, <1>9, <1>11, <1>12, <1>13, GoesOn

LEMMA HarnessKeeps ==
  ASSUME Inv, NEW e \in Executor, NEW functional \in BOOLEAN, NEW leak \in BOOLEAN,
         Harness(e, functional, leak)
  PROVE  Inv'
<1>1. Live(e) /\ ex[e].at = "harness" /\ ex[e] # None
  BY DEF Harness, At, Live
<1>2. ex[e] \in Working /\ Placed(e) /\ (~ overrun => Alone(e))
  BY <1>1, LiveFacts
<1> SUFFICES ASSUME NEW outcome \in {"PASSED", "FAILED"},
                    NEW r, r = [ex[e] EXCEPT !.at = "mark", !.leak = leak, !.outcome = outcome],
                    ex' = [ex EXCEPT ![e] = r]
             PROVE  Inv'
  BY <1>2 DEF Harness, Working
<1>3. /\ r \in Working /\ r.at = "mark" /\ r.stopped = ex[e].stopped /\ r.j = ex[e].j
      /\ r.late = ex[e].late /\ r.failed = ex[e].failed /\ r.passed = ex[e].passed
  BY <1>2 DEF Working, Steps
<1>4. UNCHANGED <<run, rows, overrun>> /\ faults' \in 0 .. MaxFaults
  BY DEF Harness, Inv, TypeOK
<1>5. ~ overrun =>
        /\ state = "COMPLETED" => r.at \in Closing
        /\ r.at \in Counting /\ ~ r.failed /\ ~ r.stopped =>
             \A i \in Executable : i < r.j => rows[i] = "PASSED"
  BY <1>1, <1>2, <1>3 DEF Alone, Counting, Closing
<1>7. ~ r.failed /\ ~ r.stopped => \A i \in Executable : i < r.j => i \in r.passed
  BY <1>1, <1>2, <1>3 DEF Placed, Counting
<1>6. r.j \in Journey /\ (r.late = 0 \/ (r.late = 1 /\ state = "CANCELLED" /\ r.at # "start"))
  BY <1>1, <1>2, <1>3 DEF Placed
<1> QED BY <1>1, <1>3, <1>4, <1>5, <1>6, <1>7, GoesOn

\* Whatever goes wrong, an executor in its catch block counts no more.
LEMMA ToTheCatchBlock ==
  ASSUME Inv, NEW e \in Executor, Live(e), Goto(e, "abandon"),
         UNCHANGED <<run, rows, overrun>>, faults' \in 0 .. MaxFaults
  PROVE  Inv'
<1>1. ex[e] \in Working /\ Placed(e)
  BY LiveFacts DEF Live
<1> SUFFICES ASSUME NEW r, r = [ex[e] EXCEPT !.at = "abandon"], ex' = [ex EXCEPT ![e] = r]
             PROVE  Inv'
  BY DEF Goto
<1>2. r \in Working /\ r.at = "abandon" /\ r.late = ex[e].late
  BY <1>1 DEF Working, Steps
<1>3. r.late = 0 \/ (r.late = 1 /\ state = "CANCELLED" /\ r.at # "start")
  BY <1>1, <1>2 DEF Placed, Live
<1>4. r.at \notin Counting /\ r.at \in Closing
  BY <1>2 DEF Counting, Closing
<1> QED BY <1>2, <1>3, <1>4, GoesOn

LEMMA FinalKeeps ==
  ASSUME Inv, NEW e \in Executor, NEW over \in BOOLEAN, Final(e, over)
  PROVE  Inv'
<1>1. Live(e) /\ ex[e].at = "final" /\ ex[e] # None
  BY DEF Final, At, Live
<1>2. ex[e] \in Working /\ Placed(e) /\ (~ overrun => Alone(e))
  BY <1>1, LiveFacts
<1>3. UNCHANGED <<run, rows, overrun>> /\ faults' \in 0 .. MaxFaults
  BY DEF Final, Inv, TypeOK
<1>4. CASE state = "CANCELLED"
  <2>1. PassMeansPassed' /\ rows' \in [Journey -> Outcomes \cup {None}]
    BY <1>3 DEF Inv, PassMeansPassed, TypeOK, run
  <2> QED BY <1>1, <1>3, <1>4, <2>1, ExitKeeps DEF Final
<1>5. CASE state # "CANCELLED"
  <2> SUFFICES ASSUME NEW stop \in BOOLEAN, stop <=> ex[e].stopped \/ over,
                      NEW r, r = [ex[e] EXCEPT !.at = "complete", !.stopped = stop],
                      ex' = [ex EXCEPT ![e] = r]
               PROVE  Inv'
    BY <1>2, <1>5 DEF Final, Working
  <2>1. /\ r \in Working /\ r.at = "complete" /\ r.stopped = stop /\ r.j = ex[e].j
        /\ r.late = ex[e].late /\ r.failed = ex[e].failed
    BY <1>2 DEF Working, Steps
  <2>2. ~ stop => ~ ex[e].stopped
    OBVIOUS
  <2>3. ~ overrun =>
          /\ state = "COMPLETED" => r.at \in Closing
          /\ r.at \in Counting /\ ~ r.failed /\ ~ r.stopped =>
               \A i \in Executable : i < r.j => rows[i] = "PASSED"
    BY <1>1, <1>2, <2>1, <2>2 DEF Alone, Counting, Closing
  <2>5. /\ ~ r.failed /\ ~ r.stopped => \A i \in Executable : i < r.j => i \in r.passed
        /\ ~ r.failed /\ ~ r.stopped /\ state # "CANCELLED" => r.j = Last + 1
    BY <1>1, <1>2, <2>1, <2>2 DEF Placed, Counting
  <2>4. r.late = 0 \/ (r.late = 1 /\ state = "CANCELLED" /\ r.at # "start")
    BY <1>1, <1>2, <2>1 DEF Placed
  <2> QED BY <1>1, <1>3, <2>1, <2>3, <2>4, <2>5, GoesOn
<1> QED BY <1>4, <1>5

LEMMA FaultsKeep ==
  ASSUME Inv, NEW e \in Executor, Fail(e) \/ Crash(e)
  PROVE  Inv'
<1>1. faults' \in 0 .. MaxFaults /\ UNCHANGED <<run, rows, overrun>> /\ Live(e)
  BY Constants DEF Fail, Crash, Inv, TypeOK
<1>2. PassMeansPassed' /\ rows' \in [Journey -> Outcomes \cup {None}]
  BY <1>1 DEF Inv, PassMeansPassed, TypeOK, run
<1>3. CASE Exit(e)
  BY <1>1, <1>2, <1>3, ExitKeeps
<1>4. CASE Goto(e, "abandon")
  BY <1>1, <1>4, ToTheCatchBlock
<1> QED BY <1>3, <1>4 DEF Fail, Crash

LEMMA ConcludeKeeps ==
  ASSUME Inv, NEW e \in Executor, Conclude(e)
  PROVE  Inv'
<1>1. /\ Live(e) /\ Exit(e) /\ UNCHANGED <<run, rows, overrun>> /\ faults' \in 0 .. MaxFaults
  BY DEF Conclude, At, Live, Inv, TypeOK
<1>2. PassMeansPassed' /\ rows' \in [Journey -> Outcomes \cup {None}]
  BY <1>1 DEF Inv, PassMeansPassed, TypeOK, run
<1> QED BY <1>1, <1>2, ExitKeeps

\* At the end of the catch block: a row that passed stays.
LEMMA ReconcileKeeps ==
  ASSUME Inv, NEW e \in Executor, Reconcile(e)
  PROVE  Inv'
<1>1. /\ Live(e) /\ Exit(e) /\ UNCHANGED <<run, overrun>> /\ faults' \in 0 .. MaxFaults
  BY DEF Reconcile, At, Live, Inv, TypeOK
<1>2. rows' \in [Journey -> Outcomes \cup {None}]
  BY DEF Reconcile, Inv, TypeOK, Outcomes
<1>3. PassMeansPassed'
  BY <1>1, Constants DEF Reconcile, Inv, PassMeansPassed, run
<1> QED BY <1>1, <1>2, <1>3, ExitKeeps

-----------------------------------------------------------------------------
(* The statements that write the rows.                                      *)

\* A run that is counted has no verdict yet.
LEMMA CountingHasNoVerdict ==
  ASSUME Inv, NEW e \in Executor, Live(e), ex[e].at \in Counting,
         overrun' = overrun, UNCHANGED run
  PROVE  PassMeansPassed' /\ VerdictOfCompleted'
<1>1. ~ overrun => state # "COMPLETED"
  BY DEF Inv, Alone, Counting, Closing
<1>2. ~ overrun => verdict # "PASS"
  BY <1>1, Constants DEF Inv, VerdictOfCompleted
<1> QED BY <1>2 DEF Inv, PassMeansPassed, VerdictOfCompleted, run

\* A counting executor writes a row or more and goes on.
LEMMA CountsOn ==
  ASSUME Inv, NEW e \in Executor, Live(e), ex[e].at \in Counting, NEW r \in Working,
         ex' = [ex EXCEPT ![e] = r], UNCHANGED <<run, overrun, faults>>,
         rows' \in [Journey -> Outcomes \cup {None}],
         r.at \in {"check", "harness", "barrier", "final"},
         r.at = "harness" => r.j \in Journey,
         r.late = 0 \/ (r.late = 1 /\ state = "CANCELLED"),
         r.at = "barrier" => r.stopped,
         ~ r.failed /\ ~ r.stopped =>
           /\ \A i \in Executable : i < r.j => i \in r.passed
           /\ r.at = "final" /\ state # "CANCELLED" => r.j = Last + 1
           /\ overrun \/ \A i \in Executable : i < r.j => rows'[i] = "PASSED"
  PROVE  Inv'
<1>1. ex' \in [Executor -> Working \cup {None}] /\ ex'[e] = r
      /\ \A f \in Executor \ {e} : ex'[f] = ex[f]
  BY DEF Inv, TypeOK
<1>2. Placed(e)'
  BY <1>1, LiveFacts DEF Placed, Live, run
<1>3. ASSUME ~ overrun PROVE Alone(e)'
  <2>1. \A f \in Executor : Live(f)' => f = e
    BY <1>1, <1>3 DEF Inv, Alone, Live
  <2>2. Alone(e) /\ Live(e) /\ state # "COMPLETED"
    BY <1>3 DEF Inv, Alone, Counting, Closing
  <2> QED BY <1>1, <1>3, <2>1, <2>2 DEF Alone, run
<1>4. VerdictOfCompleted' /\ PassMeansPassed'
  BY CountingHasNoVerdict
<1> QED BY <1>1, <1>2, <1>3, <1>4, LiveStep DEF Inv, TypeOK, run

LEMMA PlanKeeps ==
  ASSUME Inv, NEW e \in Executor, NEW refused \in BOOLEAN, Plan(e, refused)
  PROVE  Inv'
<1>1. Live(e) /\ ex[e].at = "plan" /\ ex[e] # None /\ ex[e].at \in Counting
  BY DEF Plan, At, Live, Counting
<1>2. ex[e] \in Working /\ Placed(e) /\ ex[e].j = 1 /\ ~ ex[e].failed /\ ~ ex[e].stopped
      /\ ex[e].late \in 0 .. Last
  BY <1>1, LiveFacts DEF Placed
<1>3. rows' \in [Journey -> Outcomes \cup {None}]
  BY DEF Plan, Inv, TypeOK, Outcomes
<1>4. UNCHANGED <<run, overrun>> /\ PassMeansPassed'
  BY <1>1, CountingHasNoVerdict DEF Plan
<1>5. CASE refused
  <2>1. faults' \in 0 .. MaxFaults
    BY <1>5, Constants DEF Plan, Inv, TypeOK
  <2> QED BY <1>1, <1>3, <1>4, <1>5, <2>1, ExitKeeps DEF Plan
<1>6. CASE ~ refused
  <2> SUFFICES ASSUME NEW r, r = [ex[e] EXCEPT !.at = "check"], ex' = [ex EXCEPT ![e] = r]
               PROVE  Inv'
    BY <1>6 DEF Plan, Goto
  <2>1. /\ r \in Working /\ r.at = "check" /\ r.j = 1 /\ r.late = ex[e].late
    BY <1>2 DEF Working, Steps
  <2>2. r.late = 0 \/ (r.late = 1 /\ state = "CANCELLED")
    BY <1>1, <1>2, <2>1 DEF Placed
  <2>3. \A i \in Executable : ~ (i < r.j)
    BY <2>1, Constants
  <2>4. faults' = faults
    BY <1>6 DEF Plan
  <2> QED BY <1>1, <1>3, <1>4, <2>1, <2>2, <2>3, <2>4, CountsOn
<1> QED BY <1>5, <1>6

LEMMA StartKeeps ==
  ASSUME Inv, NEW e \in Executor, Start(e)
  PROVE  Inv'
<1>1. Live(e) /\ ex[e].at = "start" /\ ex[e] # None /\ ex[e].at \in Counting
  BY DEF Start, At, Live, Counting
<1>2. ex[e] \in Working /\ Placed(e) /\ (~ overrun => Alone(e)) /\ ex[e].j \in Journey
      /\ ex[e].late = 0
  BY <1>1, LiveFacts DEF Placed
<1>0. ex' = [ex EXCEPT ![e] = [ex[e] EXCEPT !.at = "harness",
                                            !.late = IF state = "CANCELLED" THEN 1 ELSE 0]]
  <2>1. CASE state = "CANCELLED"
    <3>1. ex' = [ex EXCEPT ![e] = [ex[e] EXCEPT !.at = "harness", !.late = ex[e].late + 1]]
      BY <2>1 DEF Start
    <3>2. ex[e].late + 1 = 1
      BY <1>2
    <3> QED BY <2>1, <3>1, <3>2
  <2>2. CASE state # "CANCELLED"
    <3>1. ex' = [ex EXCEPT ![e] = [ex[e] EXCEPT !.at = "harness", !.late = ex[e].late]]
      BY <2>2 DEF Start
    <3> QED BY <1>2, <2>2, <3>1
  <2> QED BY <2>1, <2>2
<1> SUFFICES ASSUME NEW late, late = (IF state = "CANCELLED" THEN 1 ELSE 0),
                    NEW r, r = [ex[e] EXCEPT !.at = "harness", !.late = late],
                    ex' = [ex EXCEPT ![e] = r]
             PROVE  Inv'
  BY <1>0
<1>3. late \in 0 .. Last
  <2>1. Last \in Nat /\ 1 <= ex[e].j /\ ex[e].j <= Last /\ ex[e].j \in Nat
    BY <1>2, Constants
  <2>2. late \in {0, 1}
    OBVIOUS
  <2> QED BY <2>1, <2>2
<1>4. /\ r \in Working /\ r.at = "harness" /\ r.stopped = ex[e].stopped /\ r.j = ex[e].j
      /\ r.late = late /\ r.failed = ex[e].failed /\ r.passed = ex[e].passed
  BY <1>2, <1>3 DEF Working, Steps
<1>5. rows' \in [Journey -> Outcomes \cup {None}]
  BY DEF Start, Inv, TypeOK, Outcomes
<1>6. UNCHANGED <<run, overrun, faults>>
  BY DEF Start
<1>7. ~ overrun /\ ~ r.failed /\ ~ r.stopped =>
        \A i \in Executable : i < r.j => rows'[i] = "PASSED"
  <2> SUFFICES ASSUME ~ overrun, ~ ex[e].failed, ~ ex[e].stopped, NEW i \in Executable, i < ex[e].j
               PROVE  rows'[i] = "PASSED"
    BY <1>4
  <2>1. rows[i] = "PASSED"
    BY <1>1, <1>2 DEF Alone
  <2>2. i \in Journey /\ i # ex[e].j
    BY <1>2, Constants
  <2> QED BY <2>1, <2>2 DEF Start, Inv, TypeOK
<1>8. ~ r.failed /\ ~ r.stopped => \A i \in Executable : i < r.j => i \in r.passed
  BY <1>1, <1>2, <1>4 DEF Placed
<1> QED BY <1>1, <1>2, <1>4, <1>5, <1>6, <1>7, <1>8, CountsOn

LEMMA UnavailableKeeps ==
  ASSUME Inv, NEW e \in Executor, Unavailable(e)
  PROVE  Inv'
<1>1. Live(e) /\ ex[e].at = "start" /\ ex[e] # None /\ ex[e].at \in Counting
  BY DEF Unavailable, At, Live, Counting
<1>2. ex[e] \in Working /\ Placed(e) /\ (~ overrun => Alone(e)) /\ ex[e].j \in Journey
      /\ ex[e].late = 0 /\ ex[e].j \notin Executable
  BY <1>1, LiveFacts DEF Placed, Unavailable
<1> SUFFICES ASSUME NEW r, r = [ex[e] EXCEPT !.at = "check", !.j = ex[e].j + 1],
                    ex' = [ex EXCEPT ![e] = r]
             PROVE  Inv'
  BY <1>2 DEF Unavailable
<1>3. ex[e].j + 1 \in 1 .. Last + 1
  BY <1>2, Constants
<1>4. /\ r \in Working /\ r.at = "check" /\ r.stopped = ex[e].stopped /\ r.j = ex[e].j + 1
      /\ r.late = 0 /\ r.failed = ex[e].failed /\ r.passed = ex[e].passed
  <2> SUFFICES ASSUME NEW next, next = ex[e].j + 1, r = [ex[e] EXCEPT !.at = "check", !.j = next]
               PROVE  /\ r \in Working /\ r.at = "check" /\ r.stopped = ex[e].stopped
                      /\ r.j = next /\ r.late = 0 /\ r.failed = ex[e].failed
                      /\ r.passed = ex[e].passed
    OBVIOUS
  <2>1. next \in 1 .. Last + 1
    BY <1>3
  <2> QED BY <1>2, <2>1 DEF Working, Steps
<1>5. rows' \in [Journey -> Outcomes \cup {None}]
  BY DEF Unavailable, Inv, TypeOK, Outcomes
<1>6. UNCHANGED <<run, overrun, faults>>
  BY DEF Unavailable
<1>7. ~ overrun /\ ~ r.failed /\ ~ r.stopped =>
        \A i \in Executable : i < r.j => rows'[i] = "PASSED"
  <2> SUFFICES ASSUME ~ overrun, ~ ex[e].failed, ~ ex[e].stopped,
                      NEW i \in Executable, i < ex[e].j + 1
               PROVE  rows'[i] = "PASSED"
    BY <1>4
  <2>1. i \in Journey /\ i # ex[e].j /\ i < ex[e].j
    BY <1>2, Constants
  <2>2. rows[i] = "PASSED"
    BY <1>1, <1>2, <2>1 DEF Alone
  <2> QED BY <2>1, <2>2 DEF Unavailable, Inv, TypeOK
<1>8. ~ r.failed /\ ~ r.stopped => \A i \in Executable : i < r.j => i \in r.passed
  <2> SUFFICES ASSUME ~ ex[e].failed, ~ ex[e].stopped, NEW i \in Executable, i < ex[e].j + 1
               PROVE  i \in ex[e].passed
    BY <1>4
  <2>1. i < ex[e].j
    BY <1>2, Constants
  <2> QED BY <1>1, <1>2, <2>1 DEF Placed
<1> QED BY <1>1, <1>4, <1>5, <1>6, <1>7, <1>8, CountsOn

LEMMA MarkKeeps ==
  ASSUME Inv, NEW e \in Executor, Mark(e)
  PROVE  Inv'
<1>1. Live(e) /\ ex[e].at = "mark" /\ ex[e] # None /\ ex[e].at \in Counting
  BY DEF Mark, At, Live, Counting
<1>2. ex[e] \in Working /\ Placed(e) /\ (~ overrun => Alone(e)) /\ ex[e].j \in Journey
      /\ ex[e].outcome \in {"PASSED", "FAILED"} /\ ex[e].passed \subseteq Journey
  BY <1>1, LiveFacts DEF Placed, Working
<1>0. ex' = [ex EXCEPT ![e] = [ex[e] EXCEPT !.at = IF ex[e].leak THEN "barrier" ELSE "check",
                                 !.failed = ex[e].failed \/ ex[e].outcome = "FAILED",
                                 !.passed = IF ex[e].outcome = "PASSED"
                                            THEN ex[e].passed \cup {ex[e].j}
                                            ELSE ex[e].passed,
                                 !.stopped = ex[e].stopped \/ ex[e].leak, !.j = ex[e].j + 1,
                                 !.outcome = "PASSED", !.leak = FALSE]]
  BY DEF Mark
<1>10. /\ (ex[e].failed \/ ex[e].outcome = "FAILED") \in BOOLEAN
      /\ (ex[e].stopped \/ ex[e].leak) \in BOOLEAN
  OBVIOUS
<1> DEFINE seen == IF ex[e].outcome = "PASSED" THEN ex[e].passed \cup {ex[e].j}
                   ELSE ex[e].passed
<1> DEFINE stepTo == IF ex[e].leak THEN "barrier" ELSE "check"
<1> SUFFICES ASSUME NEW at, at = stepTo, NEW next, next = ex[e].j + 1,
                    NEW failed \in BOOLEAN, failed <=> ex[e].failed \/ ex[e].outcome = "FAILED",
                    NEW stopped \in BOOLEAN, stopped <=> ex[e].stopped \/ ex[e].leak,
                    NEW passed, passed = seen,
                    NEW r, r = [ex[e] EXCEPT !.at = at, !.failed = failed,
                                             !.passed = passed, !.stopped = stopped,
                                             !.j = next, !.outcome = "PASSED", !.leak = FALSE],
                    ex' = [ex EXCEPT ![e] = r]
             PROVE  Inv'
  BY <1>0, <1>10
<1>3. next \in 1 .. Last + 1 /\ at \in {"barrier", "check"} /\ (at = "barrier" => stopped)
  <2>1. next \in 1 .. Last + 1
    BY <1>2, Constants
  <2>2. at \in {"barrier", "check"} /\ (at = "barrier" => stopped)
    BY Zenon
  <2> QED BY <2>1, <2>2
<1>11. passed \subseteq Journey /\ (ex[e].outcome = "PASSED" => passed = ex[e].passed \cup {ex[e].j})
  BY <1>2
<1> HIDE DEF stepTo, seen
<1>4. /\ r \in Working /\ r.at = at /\ r.stopped = stopped /\ r.j = next
      /\ r.late = ex[e].late /\ r.failed = failed /\ r.passed = passed
  BY <1>2, <1>3, <1>11 DEF Working, Steps
<1>5. rows' \in [Journey -> Outcomes \cup {None}]
  BY <1>2 DEF Mark, Inv, TypeOK, Outcomes
<1>6. UNCHANGED <<run, overrun, faults>>
  BY DEF Mark
<1>7. ~ overrun /\ ~ r.failed /\ ~ r.stopped =>
        \A i \in Executable : i < r.j => rows'[i] = "PASSED"
  <2> SUFFICES ASSUME ~ overrun, ~ failed, ~ stopped, NEW i \in Executable, i < next
               PROVE  rows'[i] = "PASSED"
    BY <1>4
  <2>1. ex[e].outcome = "PASSED" /\ ~ ex[e].failed /\ ~ ex[e].stopped
    BY <1>2
  <2>2. i \in Journey /\ (i = ex[e].j \/ i < ex[e].j)
    BY <1>2, Constants
  <2>3. i < ex[e].j => rows[i] = "PASSED"
    BY <1>1, <1>2, <2>1 DEF Alone
  <2> QED BY <2>1, <2>2, <2>3 DEF Mark, Inv, TypeOK
<1>8. r.late = 0 \/ (r.late = 1 /\ state = "CANCELLED")
  BY <1>1, <1>2, <1>4 DEF Placed
<1>9. r.at \in {"check", "harness", "barrier", "final"} /\ r.at # "harness" /\ r.at # "final"
      /\ (r.at = "barrier" => r.stopped)
  BY <1>3, <1>4
<1>12. ~ r.failed /\ ~ r.stopped => \A i \in Executable : i < r.j => i \in r.passed
  <2> SUFFICES ASSUME ~ failed, ~ stopped, NEW i \in Executable, i < next
               PROVE  i \in passed
    BY <1>4
  <2>1. ex[e].outcome = "PASSED" /\ ~ ex[e].failed /\ ~ ex[e].stopped
    BY <1>2
  <2>2. i \in Journey /\ (i = ex[e].j \/ i < ex[e].j)
    BY <1>2, Constants
  <2>3. i < ex[e].j => i \in ex[e].passed
    BY <1>1, <1>2, <2>1 DEF Placed
  <2> QED BY <1>11, <2>1, <2>2, <2>3
<1> QED BY <1>1, <1>4, <1>5, <1>6, <1>7, <1>8, <1>9, <1>12, CountsOn

LEMMA BarrierKeeps ==
  ASSUME Inv, NEW e \in Executor, Barrier(e)
  PROVE  Inv'
<1>1. Live(e) /\ ex[e].at = "barrier" /\ ex[e] # None /\ ex[e].at \in Counting
  BY DEF Barrier, At, Live, Counting
<1>2. ex[e] \in Working /\ Placed(e) /\ ex[e].stopped /\ ex[e].j \in 1 .. Last + 1
  BY <1>1, LiveFacts DEF Placed
<1>3. rows' \in [Journey -> Outcomes \cup {None}]
  BY DEF Barrier, Inv, TypeOK, Outcomes
<1>4. UNCHANGED <<run, overrun, faults>>
  BY DEF Barrier
<1>5. ex[e].late = 0 \/ (ex[e].late = 1 /\ state = "CANCELLED")
  BY <1>1, <1>2 DEF Placed
<1>6. CASE ex[e].j > Last \/ state = "CANCELLED"
  <2> SUFFICES ASSUME NEW r, r = [ex[e] EXCEPT !.at = "final"], ex' = [ex EXCEPT ![e] = r]
               PROVE  Inv'
    BY <1>6 DEF Barrier
  <2>1. r \in Working /\ r.at = "final" /\ r.stopped /\ r.late = ex[e].late
    BY <1>2 DEF Working, Steps
  <2> QED BY <1>1, <1>3, <1>4, <1>5, <2>1, CountsOn
<1>7. CASE ~ (ex[e].j > Last \/ state = "CANCELLED")
  <2> SUFFICES ASSUME NEW next, next = ex[e].j + 1,
                      NEW r, r = [ex[e] EXCEPT !.j = next], ex' = [ex EXCEPT ![e] = r]
               PROVE  Inv'
    BY <1>7 DEF Barrier
  <2>1. next \in 1 .. Last + 1
    BY <1>2, <1>7, Constants
  <2>2. r \in Working /\ r.at = "barrier" /\ r.stopped /\ r.late = ex[e].late
    BY <1>1, <1>2, <2>1 DEF Working, Steps
  <2> QED BY <1>1, <1>3, <1>4, <1>5, <2>2, CountsOn
<1> QED BY <1>6, <1>7

-----------------------------------------------------------------------------
(* The statements that change the run.                                      *)

LEMMA CompleteKeeps ==
  ASSUME Inv, NEW e \in Executor, Complete(e)
  PROVE  Inv'
<1>1. Live(e) /\ ex[e].at = "complete" /\ ex[e] # None /\ ex[e].at \in Counting
  BY DEF Complete, At, Live, Counting
<1>2. ex[e] \in Working /\ Placed(e) /\ (~ overrun => Alone(e))
  BY <1>1, LiveFacts
<1>3. UNCHANGED <<leased, rows, overrun>> /\ faults' \in 0 .. MaxFaults
  BY DEF Complete, Inv, TypeOK
<1>4. CASE Passes("COMPLETED")
  <2>1. state \in {"RUNNING", "COMPLETED"}
    BY <1>4 DEF Passes, Legal
  <2>2. state' = "COMPLETED" /\ verdict' \in {"PASS", "FAIL", None}
        /\ (verdict' = "PASS" => ~ ex[e].failed /\ ~ ex[e].stopped)
        /\ verdict' # None /\ earned' = ex[e].passed /\ earned' \subseteq Journey
    BY <1>1, <1>4, LiveFacts, Constants DEF Complete
  <2> SUFFICES ASSUME NEW r, r = [ex[e] EXCEPT !.at = "completed"], ex' = [ex EXCEPT ![e] = r]
               PROVE  Inv'
    BY <1>4 DEF Complete, Goto
  <2>3. /\ r \in Working /\ r.at = "completed" /\ r.late = ex[e].late
    BY <1>2 DEF Working, Steps
  <2>4. ex' \in [Executor -> Working \cup {None}] /\ ex'[e] = r
        /\ \A f \in Executor \ {e} : ex'[f] = ex[f]
    BY <2>3 DEF Inv, TypeOK
  <2>5. Placed(e)'
    <3>1. r.late = 0
      BY <1>1, <1>2, <2>1, <2>3 DEF Placed
    <3> QED BY <2>2, <2>3, <2>4, <3>1 DEF Placed, Live, Terminal, Counting
  <2>6. ASSUME ~ overrun PROVE Alone(e)'
    <3>1. \A f \in Executor : Live(f)' => f = e
      BY <1>1, <2>4, <2>6 DEF Inv, Alone, Live
    <3> QED BY <2>2, <2>3, <2>4, <3>1 DEF Alone, Counting, Closing
  <2>7. PassMeansPassed'
    <3> SUFFICES ASSUME verdict' = "PASS", NEW i \in Executable
                 PROVE  i \in ex[e].passed /\ (overrun \/ rows[i] = "PASSED")
      BY <1>3, <2>2 DEF PassMeansPassed
    <3>1. ex[e].j = Last + 1
      BY <1>1, <1>2, <2>1, <2>2 DEF Placed
    <3>2. i < ex[e].j
      BY <3>1, Constants
    <3>3. i \in ex[e].passed
      BY <1>1, <1>2, <2>2, <3>2 DEF Placed
    <3> QED BY <1>1, <1>2, <2>2, <3>2, <3>3 DEF Alone
  <2>8. VerdictOfCompleted'
    BY <2>2 DEF VerdictOfCompleted
  <2> QED BY <1>1, <1>3, <2>1, <2>2, <2>4, <2>5, <2>6, <2>7, <2>8, LiveStep DEF Inv, TypeOK
<1>5. CASE ~ Passes("COMPLETED")
  BY <1>1, <1>3, <1>5, ToTheCatchBlock DEF Complete, run
<1> QED BY <1>4, <1>5

LEMMA AbandonKeeps ==
  ASSUME Inv, NEW e \in Executor, Abandon(e)
  PROVE  Inv'
<1>1. Live(e) /\ ex[e].at = "abandon" /\ ex[e] # None
  BY DEF Abandon, At, Live
<1>2. ex[e] \in Working /\ Placed(e) /\ (~ overrun => Alone(e))
  BY <1>1, LiveFacts
<1>3. UNCHANGED <<verdict, earned, leased, rows, overrun, faults>>
      /\ (state' = state \/ (state = "RUNNING" /\ state' = "ABANDONED"))
      /\ state' # "RUNNING"
  BY DEF Abandon
<1> SUFFICES ASSUME NEW r, r = [ex[e] EXCEPT !.at = "reconcile"], ex' = [ex EXCEPT ![e] = r]
             PROVE  Inv'
  BY DEF Abandon, Goto
<1>4. r \in Working /\ r.at = "reconcile" /\ r.late = ex[e].late
  BY <1>2 DEF Working, Steps
<1>5. ex' \in [Executor -> Working \cup {None}] /\ ex'[e] = r
      /\ \A f \in Executor \ {e} : ex'[f] = ex[f]
  BY <1>4 DEF Inv, TypeOK
<1>6. Placed(e)'
  BY <1>1, <1>2, <1>3, <1>4, <1>5 DEF Placed, Live, Terminal, Counting
<1>7. ASSUME ~ overrun PROVE Alone(e)'
  <2>1. \A f \in Executor : Live(f)' => f = e
    BY <1>1, <1>5, <1>7 DEF Inv, Alone, Live
  <2> QED BY <1>3, <1>4, <1>5, <2>1 DEF Alone, Counting, Closing
<1>8. VerdictOfCompleted' /\ PassMeansPassed'
  BY <1>3 DEF Inv, VerdictOfCompleted, PassMeansPassed
<1> QED BY <1>1, <1>3, <1>5, <1>6, <1>7, <1>8, LiveStep DEF Inv, TypeOK

LEMMA ClaimKeeps ==
  ASSUME Inv, NEW e \in Executor, Claim(e)
  PROVE  Inv'
<1>1. ex[e] # None /\ ex[e].at = "peeked" /\ ex[e] \in Working /\ Placed(e)
  BY LiveFacts DEF Claim, At
<1>2. /\ state' = "RUNNING" /\ leased' = TRUE /\ UNCHANGED <<verdict, earned, rows, overrun, faults>>
      /\ (state = "QUEUED" \/ (state = "RUNNING" /\ ~ leased))
  BY DEF Claim, Claimable
<1> SUFFICES ASSUME NEW r, r = [ex[e] EXCEPT !.at = "plan"], ex' = [ex EXCEPT ![e] = r]
             PROVE  Inv'
  BY DEF Claim, Goto
<1>3. /\ r \in Working /\ r.at = "plan" /\ r.j = 1 /\ ~ r.failed /\ ~ r.stopped
      /\ r.late = ex[e].late
  BY <1>1 DEF Working, Steps, Placed
<1>4. ex' \in [Executor -> Working \cup {None}] /\ ex'[e] = r
      /\ \A f \in Executor \ {e} : ex'[f] = ex[f]
  BY <1>3 DEF Inv, TypeOK
<1>5. TypeOK'
  BY <1>2, <1>4 DEF Inv, TypeOK, States
<1>6. ASSUME NEW f \in Executor PROVE Placed(f)'
  <2>1. CASE f = e
    <3>1. r.late = 0
      BY <1>1, <1>2, <1>3 DEF Placed
    <3>2. \A i \in Executable : ~ (i < r.j)
      BY <1>3, Constants
    <3> QED BY <1>2, <1>3, <1>4, <2>1, <3>1, <3>2 DEF Placed, Live
  <2>2. CASE f # e
    BY <1>2, <1>4, <2>2 DEF Inv, Placed, Live
  <2> QED BY <2>1, <2>2
<1>7. ASSUME ~ overrun, NEW f \in Executor PROVE Alone(f)'
  <2>1. \A g \in Executor \ {e} : ~ Live(g)
    <3> SUFFICES ASSUME NEW g \in Executor, g # e, Live(g) PROVE FALSE
      OBVIOUS
    <3>1. state \in Terminal \cup {"RUNNING"} /\ (state = "RUNNING" => leased)
      BY <1>7 DEF Inv, Placed, Alone, Live
    <3> QED BY <1>2, <3>1 DEF Terminal
  <2>2. \A g \in Executor : Live(g)' => g = e
    BY <1>4, <2>1 DEF Live
  <2>3. CASE f = e
    <3>1. \A i \in Executable : ~ (i < r.j)
      BY <1>3, Constants
    <3> QED BY <1>2, <1>3, <1>4, <2>2, <2>3, <3>1 DEF Alone, Live
  <2>4. CASE f # e
    BY <2>2, <2>4 DEF Alone
  <2> QED BY <2>3, <2>4
<1>8. VerdictOfCompleted' /\ PassMeansPassed'
  BY <1>2, Constants DEF Inv, VerdictOfCompleted, PassMeansPassed
<1> QED BY <1>2, <1>5, <1>6, <1>7, <1>8 DEF Inv

\* Steps that leave every executor that has claimed the run as it is.
LEMMA OutsideKeeps ==
  ASSUME Inv,
         ex' \in [Executor -> Working \cup {None}],
         \A e \in Executor : ex'[e] = ex[e]
           \/ (~ Live(e) /\ ~ Live(e)' /\ Placed(e)'),
         UNCHANGED <<verdict, earned, rows>>, faults' \in 0 .. MaxFaults,
         overrun' \in BOOLEAN,
         overrun => overrun',
         state' \in States, leased' \in BOOLEAN,
         \/ state' = state
         \/ state # "RUNNING" /\ state \notin Terminal /\ state' # "COMPLETED"
         \/ state # "COMPLETED" /\ state' = "CANCELLED",
         leased' = leased \/ (~ overrun' => \A e \in Executor : ~ Live(e))
  PROVE  Inv'
<1>1. TypeOK'
  BY DEF Inv, TypeOK
<1>2. \A e \in Executor : Live(e) => state \in Terminal \cup {"RUNNING"} /\ Live(e)' /\ ex'[e] = ex[e]
  BY DEF Inv, Placed, Live
<1>3. ASSUME NEW e \in Executor PROVE Placed(e)'
  <2>1. CASE ex'[e] = ex[e]
    <3>1. Placed(e)
      BY DEF Inv
    <3>2. CASE state' = state
      BY <2>1, <3>1, <3>2 DEF Placed, Live
    <3>3. CASE state # "RUNNING" /\ state \notin Terminal /\ state' # "COMPLETED"
      BY <1>2, <2>1, <3>1, <3>3 DEF Placed, Live, Terminal
    <3>4. CASE state # "COMPLETED" /\ state' = "CANCELLED"
      BY <2>1, <3>1, <3>4 DEF Placed, Live, Terminal
    <3> QED BY <3>2, <3>3, <3>4
  <2> QED BY <2>1
<1>4. ASSUME ~ overrun', NEW e \in Executor, Live(e)' PROVE Alone(e)'
  <2>1. Live(e) /\ ex'[e] = ex[e] /\ Alone(e) /\ state \in Terminal \cup {"RUNNING"}
    <3>1. Live(e)
      BY <1>4 DEF Live
    <3> QED BY <1>2, <1>4, <3>1 DEF Inv
  <2>2. \A f \in Executor : Live(f)' => f = e
    <3>1. \A f \in Executor : Live(f)' => Live(f)
      BY DEF Live
    <3> QED BY <2>1, <3>1 DEF Alone
  <2>3. leased' = leased
    BY <1>4, <2>1
  <2>4. state' = state \/ (state # "COMPLETED" /\ state' = "CANCELLED")
    BY <2>1
  <2> QED BY <2>1, <2>2, <2>3, <2>4 DEF Alone
<1>5. ASSUME ~ overrun', NEW e \in Executor PROVE Alone(e)'
  BY <1>4, <1>5 DEF Alone
<1>6. VerdictOfCompleted' /\ PassMeansPassed'
  BY DEF Inv, VerdictOfCompleted, PassMeansPassed, Terminal
<1> QED BY <1>1, <1>3, <1>5, <1>6 DEF Inv

LEMMA OthersKeep ==
  ASSUME Inv,
         \/ \E next \in {"READY", "BLOCKED"} : Preflight(next)
         \/ \E to \in {"QUEUED", "CANCELLED"} : Operate(to)
         \/ \E e \in Executor : Peek(e) \/ TurnedAway(e) \/ NothingToClaim(e)
         \/ LeaseExpires
         \/ UNCHANGED vars
  PROVE  Inv'
<1>1. CASE \E next \in {"READY", "BLOCKED"} : Preflight(next)
  BY <1>1, OutsideKeeps DEF Preflight, States, Terminal, Inv, TypeOK
<1>2. ASSUME NEW to \in {"QUEUED", "CANCELLED"}, Operate(to) PROVE Inv'
  <2>1. \/ state' = state
        \/ state # "RUNNING" /\ state \notin Terminal /\ state' # "COMPLETED"
        \/ state # "COMPLETED" /\ state' = "CANCELLED"
    BY <1>2 DEF Operate, Passes, Legal, Terminal
  <2> QED BY <1>2, <2>1, OutsideKeeps DEF Operate, States, Terminal, Inv, TypeOK
<1>3. ASSUME NEW e \in Executor, Peek(e) PROVE Inv'
  <2> SUFFICES ASSUME NEW r, r = [at |-> "peeked", j |-> 1, outcome |-> "PASSED", leak |-> FALSE,
                                  failed |-> FALSE, stopped |-> FALSE, passed |-> {},
                                  late |-> 0],
                      ex' = [ex EXCEPT ![e] = r]
               PROVE  Inv'
    BY <1>3 DEF Peek
  <2>1. r \in Working
    BY Constants DEF Working, Steps
  <2>2. /\ ex' \in [Executor -> Working \cup {None}] /\ ex'[e] = r
        /\ \A f \in Executor \ {e} : ex'[f] = ex[f]
    BY <2>1 DEF Inv, TypeOK
  <2>3. ~ Live(e) /\ ~ Live(e)' /\ Placed(e)'
    BY <1>3, <2>2 DEF Peek, Live, Placed, Counting
  <2> QED BY <1>3, <2>2, <2>3, OutsideKeeps DEF Peek, run, Inv, TypeOK
<1>4. ASSUME NEW e \in Executor, NothingToClaim(e) PROVE Inv'
  <2>1. /\ ex' \in [Executor -> Working \cup {None}] /\ ex'[e] = None
        /\ \A f \in Executor \ {e} : ex'[f] = ex[f]
    BY <1>4 DEF NothingToClaim, Exit, Inv, TypeOK
  <2>2. ~ Live(e) /\ ~ Live(e)' /\ Placed(e)'
    BY <1>4, <2>1 DEF NothingToClaim, At, Live, Placed
  <2> QED BY <1>4, <2>1, <2>2, OutsideKeeps DEF NothingToClaim, run, Inv, TypeOK
<1>5. CASE LeaseExpires
  BY <1>5, OutsideKeeps DEF LeaseExpires, Inv, TypeOK
<1>6. CASE UNCHANGED vars
  BY <1>6, OutsideKeeps DEF vars, Inv, TypeOK
<1>7. ASSUME NEW e \in Executor, TurnedAway(e) PROVE Inv'
  <2>1. faults' \in 0 .. MaxFaults
    BY <1>7, Constants DEF TurnedAway, Inv, TypeOK
  <2> QED BY <1>7, <2>1, OutsideKeeps DEF TurnedAway, run, Inv, TypeOK
<1> QED BY <1>1, <1>2, <1>3, <1>4, <1>5, <1>6, <1>7

-----------------------------------------------------------------------------
(* The theorems.                                                            *)

LEMMA InitInv == Init => Inv
<1> SUFFICES ASSUME Init PROVE Inv
  OBVIOUS
<1>1. TypeOK
  <2>1. faults \in 0 .. MaxFaults
    BY Constants DEF Init
  <2> QED BY <2>1 DEF Init, TypeOK, States
<1>2. VerdictOfCompleted /\ PassMeansPassed
  BY Constants DEF Init, VerdictOfCompleted, PassMeansPassed
<1>3. \A e \in Executor : Placed(e) /\ Alone(e)
  BY DEF Init, Placed, Alone, Live
<1> QED BY <1>1, <1>2, <1>3 DEF Inv

LEMMA NextInv == Inv /\ [Next]_vars => Inv'
<1> SUFFICES ASSUME Inv, [Next]_vars PROVE Inv'
  OBVIOUS
<1>1. ASSUME NEW e \in Executor, Execute(e) PROVE Inv'
  <2>1. CASE Claim(e)
    BY <2>1, ClaimKeeps
  <2>2. CASE NothingToClaim(e)
    BY <2>2, OthersKeep
  <2>3. CASE Start(e) \/ Unavailable(e) \/ Mark(e) \/ Barrier(e)
    BY <2>3, StartKeeps, UnavailableKeeps, MarkKeeps, BarrierKeeps
  <2>4. ASSUME NEW yes \in BOOLEAN, Plan(e, yes) \/ Check(e, yes) \/ Final(e, yes) PROVE Inv'
    BY <2>4, PlanKeeps, CheckKeeps, FinalKeeps
  <2>5. ASSUME NEW functional \in BOOLEAN, NEW leak \in BOOLEAN, Harness(e, functional, leak)
        PROVE Inv'
    BY <2>5, HarnessKeeps
  <2>6. CASE Complete(e) \/ Abandon(e)
    BY <2>6, CompleteKeeps, AbandonKeeps
  <2>7. CASE Reconcile(e) \/ Conclude(e)
    BY <2>7, ReconcileKeeps, ConcludeKeeps
  <2> QED BY <1>1, <2>1, <2>2, <2>3, <2>4, <2>5, <2>6, <2>7 DEF Execute
<1>2. ASSUME NEW e \in Executor, Fail(e) \/ Crash(e) PROVE Inv'
  BY <1>2, FaultsKeep
<1> QED BY <1>1, <1>2, OthersKeep DEF Next

THEOREM Invariant == Spec => []Inv
BY InitInv, NextInv, PTL DEF Spec

\* The run, its rows and every executor keep their type.
THEOREM TypeCorrect == Spec => []TypeOK
<1>1. Inv => TypeOK
  BY DEF Inv
<1> QED BY <1>1, Invariant, PTL

\* A verdict of PASS was written by an executor that saw every journey with a harness
\* pass, whatever crashed, was taken over or overlapped; and the rows say the same
\* unless a lease ran out on an executor at work.
THEOREM PassIsEarned == Spec => []PassMeansPassed
<1>1. Inv => PassMeansPassed
  BY DEF Inv
<1> QED BY <1>1, Invariant, PTL

\* An executor learns before its next journey that the run was cancelled.
THEOREM CancelIsHeard == Spec => []CancelStopsTheRun
<1>1. Inv => CancelStopsTheRun
  <2> SUFFICES ASSUME Inv, NEW e \in Executor, ex[e] # None PROVE ex[e].late <= 1
    BY DEF CancelStopsTheRun
  <2>1. ex[e].late \in {0, 1}
    BY DEF Inv, Placed
  <2> QED BY <2>1
<1> QED BY <1>1, Invariant, PTL

\* A completed run stays completed, with a verdict; and what it says of its journeys and
\* its verdict stays said unless a lease ran out on an executor at work.
THEOREM RecordStays == Spec => RecordIsFinal
<1> DEFINE Kept ==
      /\ verdict' = verdict
      /\ \A j \in Journey :
           rows'[j] = rows[j] \/ (rows[j] = "PLANNED" /\ rows'[j] = "NOT_REACHED")
<1> DEFINE Stays ==
      state = "COMPLETED" => state' = "COMPLETED" /\ verdict' # None /\ (overrun \/ Kept)
<1>1. Inv /\ [Next]_vars => Stays
  <2> SUFFICES ASSUME Inv, [Next]_vars, state = "COMPLETED"
               PROVE  state' = "COMPLETED" /\ verdict' # None /\ (overrun \/ Kept)
    OBVIOUS
  <2>1. state' = "COMPLETED"
    <3>1. ASSUME NEW e \in Executor, Execute(e) PROVE state' = "COMPLETED"
      <4>1. CASE Claim(e)
        BY <4>1 DEF Claim, Claimable
      <4>2. CASE Complete(e) \/ Abandon(e)
        BY <4>2 DEF Complete, Abandon
      <4>3. ASSUME ~ Claim(e), ~ Complete(e), ~ Abandon(e) PROVE UNCHANGED run
        BY <3>1, <4>3 DEF Execute, NothingToClaim, Start, Unavailable, Mark, Plan, Check,
                          Final, Harness, Barrier, Reconcile, Conclude
      <4> QED BY <4>1, <4>2, <4>3 DEF run
    <3>2. ASSUME NEW e \in Executor, Peek(e) \/ TurnedAway(e) \/ Fail(e) \/ Crash(e)
          PROVE  state' = "COMPLETED"
      BY <3>2 DEF Peek, TurnedAway, Fail, Crash, run
    <3>3. CASE \/ \E next \in {"READY", "BLOCKED"} : Preflight(next)
               \/ \E to \in {"QUEUED", "CANCELLED"} : Operate(to)
               \/ LeaseExpires \/ UNCHANGED vars
      BY <3>3 DEF Preflight, Operate, Passes, Legal, LeaseExpires, vars
    <3> QED BY <3>1, <3>2, <3>3 DEF Next
  <2>2. verdict' # None
    BY <2>1, NextInv DEF Inv, VerdictOfCompleted
  <2>3. ASSUME ~ overrun PROVE Kept
    <3>1. \A e \in Executor : Live(e) => ex[e].at \in Closing
      BY <2>3 DEF Inv, Alone
    <3>2. CASE UNCHANGED <<verdict, rows>>
      BY <3>2
    <3>3. ASSUME NEW e \in Executor, Execute(e), ~ UNCHANGED <<verdict, rows>>
          PROVE  Reconcile(e)
      <4>1. ex[e] # None /\ (ex[e].at = "peeked" \/ ex[e].at \in Closing)
        BY <3>1, <3>3 DEF Execute, At, Live, Claim, NothingToClaim, Start, Unavailable,
           Mark, Plan, Check, Final, Harness, Barrier, Complete, Abandon, Reconcile, Conclude
      <4> QED BY <3>3, <4>1 DEF Execute, At, Claim, NothingToClaim, Start, Unavailable,
              Mark, Plan, Check, Final, Harness, Barrier, Complete, Abandon, Conclude, run,
              Closing
    <3>4. ASSUME NEW e \in Executor, Reconcile(e) PROVE Kept
      BY <3>4 DEF Reconcile, run
    <3>5. ~ UNCHANGED <<verdict, rows>> => \E e \in Executor : Execute(e)
      BY DEF Next, Preflight, Operate, Peek, TurnedAway, Fail, Crash, LeaseExpires, run, vars
    <3> QED BY <3>2, <3>3, <3>4, <3>5
  <2> QED BY <2>1, <2>2, <2>3
<1>2. Stays => [state = "COMPLETED" =>
                  /\ state' = "COMPLETED" /\ verdict' # None
                  /\ \/ overrun
                     \/ /\ verdict' = verdict
                        /\ \A j \in Journey :
                             rows'[j] = rows[j]
                             \/ (rows[j] = "PLANNED" /\ rows'[j] = "NOT_REACHED")]_vars
  OBVIOUS
<1> QED BY <1>1, <1>2, Invariant, PTL DEF Spec, RecordIsFinal

=============================================================================
