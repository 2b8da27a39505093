SPECIFICATION Spec
CONSTANTS
  Worker = {w1, w2}
  Payout = {p1}
  Amounts = {2}
  Fees = {0, 1, 2}
  Opening = 3
  MaxErrors = 2
  MaxAborts = 1
  Unpriced = Unpriced
CHECK_DEADLOCK FALSE
SYMMETRY Interchangeable
INVARIANTS
  RailHasBacking
  MovesWhatWasPosted
