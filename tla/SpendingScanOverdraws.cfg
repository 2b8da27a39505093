SPECIFICATION Spec
CONSTANTS
  alice = alice
  bob = bob
  k1 = k1
  k2 = k2
  k3 = k3
  code = code
  other = other
  Consumer = {alice, bob}
  Key = {k1, k2}
  Object = {}
  Request <- ScanAndSend
  Worker = {w1, w2}
  Opening = 1
  NoObject = NoObject
  NoRow = NoRow
  MaxDrops = 0
CHECK_DEADLOCK FALSE
SYMMETRY Interchangeable
INVARIANTS
  NoOverdraft
