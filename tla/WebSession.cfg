SPECIFICATION Spec
CONSTANTS
  Slot = {s1, s2}
  Kinds = {"open", "consumerSignIn", "businessSignIn", "consumerCall", "businessCall", "context", "consumerLogout", "businessLogout", "logoutAll"}
  Widths = {1, 2}
  Access = 1
  Idle = 2
  Absolute = 3
  None = None
  MaxTime = 4
  MaxIds = 4
  MaxTokens = 3
  MaxSent = 4
  MaxLost = 1
  MaxBarred = 1
CHECK_DEADLOCK FALSE
SYMMETRY Interchangeable
INVARIANTS
  TypeOK
  LifetimeIsAbsolute
  PreauthIdIsSpent
  SignOutEndsTheSignIn
  OneTokenPerSignIn
PROPERTIES
  OneAtATimeIsSignedIn
