--------------------------- MODULE MCTransactions ---------------------------
(***************************************************************************)
(* Instances of Transactions for TLC.                                      *)
(***************************************************************************)
EXTENDS Transactions, TLC

CONSTANTS m1, m2, k1, k2

\* Two payments of two merchants, under different keys.
OwnKeys == {<<m1, k1>>, <<m2, k2>>}

\* Two merchants that chose the same key.
SharedKey == {<<m1, k1>>, <<m2, k1>>}

\* One payment.
Alone == {<<m1, k1>>}

Interchangeable == Permutations(Worker)

=============================================================================
