SPECIFICATION FairSpec
CONSTANTS
  Session = {s1}
  Payer = {alice, bob}
  Worker = {w1, w2}
  Calls = {"link", "hosted", "qr", "cancel", "linkCancel", "linkClose", "expire"}
  NoPayment = NoPayment
  MaxDrops = 1
CHECK_DEADLOCK FALSE
INVARIANTS
  TypeOK
  InterfacesEndWithTheSession
  PaidIsAnnounced
  TakenIsRecordable
  EachInterfacePaidOnce
PROPERTIES
  DecidedOnce
  EveryHandlerEnds
