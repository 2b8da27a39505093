SPECIFICATION Spec
CONSTANTS
  m1 = m1
  m2 = m2
  k1 = k1
  k2 = k2
  Merchant = {m1, m2}
  Key = {k1, k2}
  Tx <- SharedKey
  Worker = {w1}
  NoMerchant = NoMerchant
  MaxLost = 0
CHECK_DEADLOCK FALSE
SYMMETRY Interchangeable
INVARIANTS
  StatusIsBacked
