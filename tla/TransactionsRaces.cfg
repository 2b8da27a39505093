SPECIFICATION FairSpec
CONSTANTS
  m1 = m1
  m2 = m2
  k1 = k1
  k2 = k2
  Merchant = {m1, m2}
  Key = {k1, k2}
  Tx <- OwnKeys
  Worker = {w1, w2}
  NoMerchant = NoMerchant
  MaxLost = 2
CHECK_DEADLOCK FALSE
INVARIANTS
  TypeOK
  StatusIsBacked
  DebitsOnlyWhatWasReserved
  NothingIsStranded
PROPERTIES
  ImplementsReservation
  CapturedIsRecorded
