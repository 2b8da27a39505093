------------------------- MODULE MCPaymentSessions -------------------------
(***************************************************************************)
(* Instances of PaymentSessions for TLC.                                   *)
(***************************************************************************)
EXTENDS PaymentSessions, TLC

Interchangeable == Permutations(Worker) \cup Permutations(Payer)

=============================================================================
