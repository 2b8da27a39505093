----------------------------- MODULE Reservation -----------------------------
(***************************************************************************)
(* What a two-step payment promises: the amount is reserved once, and the  *)
(* reservation is settled to the merchant or given back, never both and    *)
(* never twice.  docs/validation/INVARIANT_TAXONOMY.md states it as        *)
(* INV-WALLET-003: every reserve is paired with exactly one release or     *)
(* settle.  The engine keeps the promise until two different calls on the  *)
(* payment meet; such a reservation is torn, for good.                     *)
(***************************************************************************)

CONSTANT Tx

VARIABLE hold  \* hold[t]: what became of the reservation of payment t

TypeOK == hold \in [Tx -> {"none", "held", "settled", "released", "torn"}]

Init == hold = [t \in Tx |-> "none"]

Change(t, from, to) ==
  /\ hold[t] = from
  /\ hold' = [hold EXCEPT ![t] = to]

Reserve(t) == Change(t, "none", "held")

Settle(t) == Change(t, "held", "settled")

Release(t) == Change(t, "held", "released")

Tear(t) == Change(t, hold[t], "torn")

Next == \E t \in Tx : Reserve(t) \/ Settle(t) \/ Release(t) \/ Tear(t)

Spec == Init /\ [][Next]_hold

=============================================================================
