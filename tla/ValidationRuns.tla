--------------------------- MODULE ValidationRuns ---------------------------
(***************************************************************************)
(* A validation run: an operator prepares, starts and cancels it           *)
(* (src/services/admin-api/internal/validation/store.go), executors claim  *)
(* it under a lease and work through its journeys                          *)
(* (src/tools/validation-runner.mjs), and a trigger of the database        *)
(* refuses illegal transitions (src/db/migrations/0160).                   *)
(*                                                                         *)
(* Every statement of an executor is a step of its own.  The trigger lets  *)
(* any UPDATE pass that leaves the state as it is.  The                    *)
(* heartbeat that should renew the lease is a timer of a process whose     *)
(* main() never yields to the event loop, so nothing renews it: a lease    *)
(* runs out LEASE_SECONDS after the claim, whether or not the executor is  *)
(* still at work.  overrun records that one was: from then on two may be   *)
(* at work on one run.  What the properties say despite it, and what only  *)
(* without it, is spelt out in each.                                       *)
(*                                                                         *)
(* The journeys of the plan are 1 .. Last.  The inserts of the plan are    *)
(* one step: nothing reads it half written.  Events, exposure, samples and *)
(* evidence are left out but for what they decide: the outcome of a        *)
(* journey, whether it left funds behind, whether the budget is spent.     *)
(***************************************************************************)
EXTENDS Integers

CONSTANTS
  Executor,     \* processes of the runner
  Last,         \* number of journeys in the plan
  Executable,   \* the journeys that have a harness
  None,         \* no row, no verdict, no process
  MaxFaults     \* bound on crashes, failed statements and refusals to start

Journey == 1 .. Last

ASSUME ValidationRunsAssumption ==
  /\ Last \in Nat /\ MaxFaults \in Nat
  /\ Executable \subseteq Journey
  /\ None \notin {"PLANNED", "OBSERVED", "PASSED", "FAILED", "UNAVAILABLE", "NOT_REACHED",
                  "PASS", "FAIL"}

VARIABLES
  state,     \* the run's state
  verdict,   \* its verdict, or None
  earned,    \* the journeys that passed in the hands of who wrote the verdict
  leased,    \* whether the last claim's lease is running
  rows,      \* rows[j]: the outcome in the run's row of journey j, or None
  ex,        \* ex[e]: what executor e is doing, or None
  overrun,   \* whether a lease ran out on an executor that was still at work
  faults     \* crashes, failed statements and refusals so far

vars == <<state, verdict, earned, leased, rows, ex, overrun, faults>>
run == <<state, verdict, earned, leased>>

-----------------------------------------------------------------------------

Terminal == {"COMPLETED", "CANCELLED", "ABANDONED"}
States == Terminal \cup {"PREPARING", "BLOCKED", "READY", "QUEUED", "RUNNING"}
Outcomes == {"PLANNED", "OBSERVED", "PASSED", "FAILED", "UNAVAILABLE", "NOT_REACHED"}

\* The transitions the trigger allows, PREFLIGHT_RUNNING left out: it is entered
\* and left in one transaction.
Legal == {<<"PREPARING", "READY">>, <<"PREPARING", "BLOCKED">>, <<"PREPARING", "CANCELLED">>,
          <<"BLOCKED", "READY">>, <<"BLOCKED", "CANCELLED">>,
          <<"READY", "BLOCKED">>, <<"READY", "QUEUED">>, <<"READY", "CANCELLED">>,
          <<"QUEUED", "RUNNING">>, <<"QUEUED", "CANCELLED">>, <<"QUEUED", "ABANDONED">>,
          <<"RUNNING", "COMPLETED">>, <<"RUNNING", "CANCELLED">>, <<"RUNNING", "ABANDONED">>}

Passes(to) == state = to \/ <<state, to>> \in Legal

Steps == {"peeked", "plan", "check", "start", "harness", "mark", "barrier",
          "final", "complete", "completed", "abandon", "reconcile"}

\* at is the next statement; j, the journey it is about; outcome and leak, what
\* its harness answered; failed and stopped, what the verdict is made from;
\* passed, the journeys it saw pass; late, how many it started in a cancelled run.
Working == [at : Steps, j : 1 .. Last + 1, outcome : {"PASSED", "FAILED"}, leak : BOOLEAN,
            failed : BOOLEAN, stopped : BOOLEAN, passed : SUBSET Journey, late : 0 .. Last]

Init ==
  /\ state = "PREPARING"
  /\ verdict = None
  /\ earned = {}
  /\ leased = FALSE
  /\ rows = [j \in Journey |-> None]
  /\ ex = [e \in Executor |-> None]
  /\ overrun = FALSE
  /\ faults = 0

-----------------------------------------------------------------------------
(* The operator's plane.                                                   *)

\* RecordPreflight: one transaction.
Preflight(next) ==
  /\ state \in {"PREPARING", "BLOCKED", "READY"}
  /\ state' = next
  /\ UNCHANGED <<verdict, earned, leased, rows, ex, overrun, faults>>

\* Start and Cancel: an UPDATE by id.  Start reads READY first, and any other state
\* the UPDATE may find since is one the trigger refuses to take it from, or QUEUED.
Operate(to) ==
  /\ to \in {"QUEUED", "CANCELLED"} /\ Passes(to)
  /\ state' = to
  /\ UNCHANGED <<verdict, earned, leased, rows, ex, overrun, faults>>

-----------------------------------------------------------------------------
(* An executor.                                                            *)

At(e, step) == ex[e] # None /\ ex[e].at = step
Goto(e, step) == ex' = [ex EXCEPT ![e].at = step]
Exit(e) == ex' = [ex EXCEPT ![e] = None]

\* Executors that have claimed the run.
Live(e) == ex[e] # None /\ ex[e].at # "peeked"

ClaimableOnce == state = "QUEUED"
ClaimableWhileLeased == state \in {"QUEUED", "RUNNING"}

Claimable == state = "QUEUED" \/ (state = "RUNNING" /\ ~ leased)

\* peekQueued finds nothing that waits, or a run there is capacity for: the claim
\* comes in either case.
Peek(e) ==
  /\ ex[e] = None
  /\ ex' = [ex EXCEPT ![e] =
       [at |-> "peeked", j |-> 1, outcome |-> "PASSED", leak |-> FALSE,
        failed |-> FALSE, stopped |-> FALSE, passed |-> {}, late |-> 0]]
  /\ UNCHANGED <<run, rows, overrun, faults>>

\* The run that waits is one the Sandbox has no capacity for: the process ends and
\* leaves it as it is.
TurnedAway(e) ==
  /\ ex[e] = None /\ Claimable
  /\ faults < MaxFaults
  /\ faults' = faults + 1
  /\ UNCHANGED <<run, rows, ex, overrun>>

\* claim: one UPDATE over the run, if it is queued or its lease is over.
Claim(e) ==
  /\ At(e, "peeked") /\ Claimable
  /\ state' = "RUNNING" /\ leased' = TRUE
  /\ Goto(e, "plan")
  /\ UNCHANGED <<verdict, earned, rows, overrun, faults>>

NothingToClaim(e) ==
  /\ At(e, "peeked") /\ ~ Claimable
  /\ Exit(e)
  /\ UNCHANGED <<run, rows, overrun, faults>>

PlanResuming(e, refused) ==
  LET waiting == {j \in Journey : rows[j] \in {None, "PLANNED"}} IN
  /\ At(e, "plan")
  /\ refused => faults < MaxFaults
  /\ rows' = [j \in Journey |-> IF rows[j] = None THEN "PLANNED" ELSE rows[j]]
  /\ IF refused
     THEN Exit(e)
     ELSE ex' = [ex EXCEPT ![e].at = "check",
                           ![e].j = IF waiting = {} THEN Last + 1
                                    ELSE CHOOSE j \in waiting : \A i \in waiting : j <= i]
  /\ faults' = IF refused THEN faults + 1 ELSE faults
  /\ UNCHANGED <<run, overrun>>

\* The plan is inserted, rows that are there kept.  Then the budgets are checked;
\* a refusal ends the process where it stands.
Plan(e, refused) ==
  /\ At(e, "plan")
  /\ refused => faults < MaxFaults
  /\ rows' = [j \in Journey |-> IF rows[j] = None THEN "PLANNED" ELSE rows[j]]
  /\ IF refused THEN Exit(e) ELSE Goto(e, "check")
  /\ faults' = IF refused THEN faults + 1 ELSE faults
  /\ UNCHANGED <<run, overrun>>

CheckPastTheEnd(e, spent) ==
  /\ At(e, "check")
  /\ ex' = [ex EXCEPT
       ![e].at = IF ex[e].j > Last + 1 \/ state = "CANCELLED" \/ spent THEN "final" ELSE "start",
       ![e].stopped = @ \/ (spent /\ ex[e].j <= Last /\ state # "CANCELLED")]
  /\ UNCHANGED <<run, rows, overrun, faults>>

CheckBudgetOnly(e, spent) ==
  /\ At(e, "check")
  /\ ex' = [ex EXCEPT ![e].at = IF ex[e].j > Last \/ spent THEN "final" ELSE "start",
                      ![e].stopped = @ \/ (spent /\ ex[e].j <= Last)]
  /\ UNCHANGED <<run, rows, overrun, faults>>

\* Before every journey: a cancelled run is left, a spent budget stops it.
Check(e, spent) ==
  /\ At(e, "check")
  /\ ex' = [ex EXCEPT
       ![e].at = IF ex[e].j > Last \/ state = "CANCELLED" \/ spent THEN "final" ELSE "start",
       ![e].stopped = @ \/ (spent /\ ex[e].j <= Last /\ state # "CANCELLED")]
  /\ UNCHANGED <<run, rows, overrun, faults>>

Start(e) ==
  LET j == ex[e].j IN
  /\ At(e, "start") /\ j \in Executable
  /\ rows' = [rows EXCEPT ![j] = "OBSERVED"]
  /\ ex' = [ex EXCEPT ![e].at = "harness",
                      ![e].late = IF state = "CANCELLED" THEN @ + 1 ELSE @]
  /\ UNCHANGED <<run, overrun, faults>>

\* A journey without a harness.
Unavailable(e) ==
  LET j == ex[e].j IN
  /\ At(e, "start") /\ j \notin Executable
  /\ rows' = [rows EXCEPT ![j] = "UNAVAILABLE"]
  /\ ex' = [ex EXCEPT ![e].at = "check", ![e].j = j + 1]
  /\ UNCHANGED <<run, overrun, faults>>

\* The harness and the reading of what it left behind.  A journey has passed when
\* both its functional result and its cleanup have.
Harness(e, functional, leak) ==
  /\ At(e, "harness")
  /\ ex' = [ex EXCEPT ![e].at = "mark", ![e].leak = leak,
                      ![e].outcome = IF functional /\ ~ leak THEN "PASSED" ELSE "FAILED"]
  /\ UNCHANGED <<run, rows, overrun, faults>>

\* The outcome is written; a leak raises the cleanup barrier.
Mark(e) ==
  LET j == ex[e].j IN
  /\ At(e, "mark")
  /\ rows' = [rows EXCEPT ![j] = ex[e].outcome]
  /\ ex' = [ex EXCEPT ![e].at = IF ex[e].leak THEN "barrier" ELSE "check",
                      ![e].failed = @ \/ ex[e].outcome = "FAILED",
                      ![e].passed = IF ex[e].outcome = "PASSED" THEN @ \cup {j} ELSE @,
                      ![e].stopped = @ \/ ex[e].leak, ![e].j = j + 1,
                      ![e].outcome = "PASSED", ![e].leak = FALSE]
  /\ UNCHANGED <<run, overrun, faults>>

\* Behind the barrier every later journey is marked not reached, unless the run
\* is cancelled meanwhile.
Barrier(e) ==
  LET j == ex[e].j  over == j > Last \/ state = "CANCELLED" IN
  /\ At(e, "barrier")
  /\ rows' = IF over THEN rows ELSE [rows EXCEPT ![j] = "NOT_REACHED"]
  /\ ex' = IF over THEN [ex EXCEPT ![e].at = "final"] ELSE [ex EXCEPT ![e].j = j + 1]
  /\ UNCHANGED <<run, overrun, faults>>

\* A cancelled run is left as it is.  In any other the last readings are taken:
\* over is a budget found exceeded or an exposure under-declared.
Final(e, over) ==
  /\ At(e, "final")
  /\ IF state = "CANCELLED"
     THEN Exit(e)
     ELSE ex' = [ex EXCEPT ![e].at = "complete", ![e].stopped = @ \/ over]
  /\ UNCHANGED <<run, rows, overrun, faults>>

\* The verdict is made from what this process counted.  The trigger refuses it in
\* a run that was cancelled or abandoned since, and the process fails.
Complete(e) ==
  /\ At(e, "complete")
  /\ IF Passes("COMPLETED")
     THEN /\ state' = "COMPLETED"
          /\ verdict' = IF ex[e].failed \/ ex[e].stopped THEN "FAIL" ELSE "PASS"
          /\ earned' = ex[e].passed
          /\ Goto(e, "completed")
     ELSE Goto(e, "abandon") /\ UNCHANGED <<state, verdict, earned>>
  /\ UNCHANGED <<leased, rows, overrun, faults>>

\* A statement fails: the process goes to its catch block, and in it a failed
\* reconciliation is passed over.
Fail(e) ==
  /\ Live(e) /\ ex[e].at # "abandon"
  /\ faults < MaxFaults
  /\ faults' = faults + 1
  /\ IF ex[e].at = "reconcile" THEN Exit(e) ELSE Goto(e, "abandon")
  /\ UNCHANGED <<run, rows, overrun>>

Abandon(e) ==
  /\ At(e, "abandon")
  /\ state' = IF state = "RUNNING" THEN "ABANDONED" ELSE state
  /\ Goto(e, "reconcile")
  /\ UNCHANGED <<verdict, earned, leased, rows, overrun, faults>>

\* Rows that were never reached say so.
Reconcile(e) ==
  /\ At(e, "reconcile")
  /\ rows' = [j \in Journey |-> IF rows[j] = "PLANNED" THEN "NOT_REACHED" ELSE rows[j]]
  /\ Exit(e)
  /\ UNCHANGED <<run, overrun, faults>>

\* The closing event and the summary, which may still fail.
Conclude(e) ==
  /\ At(e, "completed")
  /\ Exit(e)
  /\ UNCHANGED <<run, rows, overrun, faults>>

Crash(e) ==
  /\ Live(e) /\ faults < MaxFaults
  /\ faults' = faults + 1
  /\ Exit(e)
  /\ UNCHANGED <<run, rows, overrun>>

\* LEASE_SECONDS after the claim, whatever the executor is at.
LeaseExpires ==
  /\ state = "RUNNING" /\ leased
  /\ leased' = FALSE
  /\ overrun' = (overrun \/ \E e \in Executor : Live(e))
  /\ UNCHANGED <<state, verdict, earned, rows, ex, faults>>

Execute(e) ==
  \/ Claim(e) \/ NothingToClaim(e) \/ Start(e) \/ Unavailable(e) \/ Mark(e)
  \/ \E yes \in BOOLEAN : Plan(e, yes) \/ Check(e, yes) \/ Final(e, yes)
  \/ \E functional, leak \in BOOLEAN : Harness(e, functional, leak)
  \/ Barrier(e) \/ Complete(e) \/ Abandon(e) \/ Reconcile(e) \/ Conclude(e)

Next ==
  \/ \E next \in {"READY", "BLOCKED"} : Preflight(next)
  \/ \E to \in {"QUEUED", "CANCELLED"} : Operate(to)
  \/ \E e \in Executor : Peek(e) \/ TurnedAway(e) \/ Execute(e) \/ Fail(e) \/ Crash(e)
  \/ LeaseExpires

Spec == Init /\ [][Next]_vars

\* An executor that runs goes on, a lease runs out, and the operator starts runners
\* for as long as there is something to claim.
Fairness ==
  /\ \A e \in Executor :
       /\ WF_vars(Execute(e))
       /\ WF_vars(Claimable /\ Peek(e))
  /\ WF_vars(LeaseExpires)

FairSpec == Spec /\ Fairness

-----------------------------------------------------------------------------
(* Properties.                                                             *)

TypeOK ==
  /\ state \in States /\ verdict \in {"PASS", "FAIL", None}
  /\ earned \subseteq Journey
  /\ leased \in BOOLEAN /\ overrun \in BOOLEAN
  /\ rows \in [Journey -> Outcomes \cup {None}]
  /\ ex \in [Executor -> Working \cup {None}]
  /\ faults \in 0 .. MaxFaults

\* A PASS is written by an executor that has itself seen every executable journey
\* pass, whoever else is at work on the run and whatever was begun, crashed or
\* taken over before it.  Unless a lease ran out on an executor at work, the rows
\* say the same: a second one begins at the first journey again and overwrites
\* them.
PassMeansPassed ==
  verdict = "PASS" =>
    /\ Executable \subseteq earned
    /\ overrun \/ \A j \in Executable : rows[j] = "PASSED"

\* A completed run stays completed, with a verdict.  Unless a lease ran out on an
\* executor at work, which may yet write its own, its record is final too: the
\* verdict, and the rows but for those never reached, which may still come to say so.
RecordIsFinal ==
  [][state = "COMPLETED" =>
       /\ state' = "COMPLETED" /\ verdict' # None
       /\ \/ overrun
          \/ /\ verdict' = verdict
             /\ \A j \in Journey :
                  rows'[j] = rows[j] \/ (rows[j] = "PLANNED" /\ rows'[j] = "NOT_REACHED")]_vars

\* However late it learns of it, an executor starts at most one journey in a run
\* that has been cancelled.
CancelStopsTheRun == \A e \in Executor : ex[e] # None => ex[e].late <= 1

\* A run that is claimed ends, though executors crash or refuse half way: the
\* lease passes it on ("A crashed executor must not leave a run claiming to be
\* RUNNING forever", validation-runner.mjs:1444).
ClaimedRunEnds == state = "RUNNING" ~> state \in Terminal

\* Said, and not so: a run is taken "either from the queue or from an executor
\* that stopped" (validation-runner.mjs:888).
OneExecutor == \A e, f \in Executor : Live(e) /\ Live(f) => e = f

\* Said, and not so: a terminal run has no row that says it waits to start
\* (validation-runner.mjs:1447).
NothingIsStillPlanned ==
  state \in Terminal /\ faults = 0 /\ (\A e \in Executor : ex[e] = None) =>
    \A j \in Journey : rows[j] # "PLANNED"

=============================================================================
