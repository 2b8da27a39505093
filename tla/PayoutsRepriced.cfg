SPECIFICATION Spec
CONSTANTS
  Worker = {w1, w2}
  Payout = {p1}
  Amounts = {2}
  Fees = {0, 1}
  Opening = 3
  MaxErrors = 0
  MaxAborts = 1
  Unpriced = Unpriced
CHECK_DEADLOCK FALSE
SYMMETRY Interchangeable
INVARIANTS
  ChargedExactlyGross
