SPECIFICATION Spec
CONSTANTS
  Worker = {w1}
  Payout = {p1, p2}
  Amounts = {2}
  Fees = {0, 1}
  Opening = 3
  MaxErrors = 0
  MaxAborts = 0
  Unpriced = Unpriced
CHECK_DEADLOCK FALSE
SYMMETRY Interchangeable
INVARIANTS
  AvailableNeverOverdrawn
