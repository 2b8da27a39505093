SPECIFICATION StreamSpec
CONSTANTS
  Client = {page, tab}
  Place = {k1, k2}
  MaxPerSession = 2
  Buffer = 2
  MaxFailures = 1
  None = None
CHECK_DEADLOCK FALSE
SYMMETRY Interchangeable
INVARIANTS
  EachChangeIsSent
