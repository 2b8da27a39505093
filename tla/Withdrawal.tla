----------------------------- MODULE Withdrawal -----------------------------
(***************************************************************************)
(* What a withdrawal promises, whatever the interleaving of the handlers   *)
(* that carry it out: the participant's money is owed to the participant,  *)
(* then in flight, then EITHER paid out by the bank OR given back -- and   *)
(* once any part of it (the fee included) was given back, the bank never   *)
(* pays it.  The payout engine states it at its two claims ("would pay it  *)
(* out twice", src/core/payouts/src/engine.rs:559).                        *)
(***************************************************************************)

CONSTANT Payout

VARIABLES
  position,  \* position[p]: where the net amount of payout p is
  feeBack    \* the payouts whose fee was given back

vars == <<position, feeBack>>

Positions == {"owed", "inFlight", "paid", "restored"}

TypeOK ==
  /\ position \in [Payout -> Positions]
  /\ feeBack \subseteq Payout

Init ==
  /\ position = [p \in Payout |-> "owed"]
  /\ feeBack = {}

\* The net amount leaves the participant and waits for the rail.
Reserve(p) ==
  /\ position[p] = "owed"
  /\ position' = [position EXCEPT ![p] = "inFlight"]
  /\ UNCHANGED feeBack

\* The rail executed it: the obligation is extinguished against the bank.
Pay(p) ==
  /\ position[p] = "inFlight"
  /\ p \notin feeBack
  /\ position' = [position EXCEPT ![p] = "paid"]
  /\ UNCHANGED feeBack

\* The rail did not execute it: the net amount goes back to the participant.
Restore(p) ==
  /\ position[p] = "inFlight"
  /\ position' = [position EXCEPT ![p] = "restored"]
  /\ UNCHANGED feeBack

\* The fee goes back to the participant.
ReturnFee(p) ==
  /\ position[p] # "paid"
  /\ feeBack' = feeBack \cup {p}
  /\ UNCHANGED position

Next == \E p \in Payout : Reserve(p) \/ Pay(p) \/ Restore(p) \/ ReturnFee(p)

Spec == Init /\ [][Next]_vars

=============================================================================
