----------------------------- MODULE MCPayouts -----------------------------
(***************************************************************************)
(* Instances of Payouts for TLC.  Handlers are interchangeable, and so are *)
(* payouts; the symmetry is used by the runs without liveness properties.  *)
(***************************************************************************)
EXTENDS Payouts, TLC

Interchangeable == Permutations(Worker) \cup Permutations(Payout)

=============================================================================
