SPECIFICATION Spec
CONSTANTS
  Session = {s1}
  Payer = {alice, bob}
  Worker = {w1, w2}
  Calls = {"link", "qr"}
  NoPayment = NoPayment
  MaxDrops = 0
CHECK_DEADLOCK FALSE
SYMMETRY Interchangeable
INVARIANTS
  RetryCompletes
