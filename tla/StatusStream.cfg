SPECIFICATION StreamSpec
CONSTANTS
  Client = {c1, c2}
  Place = {k1, k2, k3}
  MaxPerSession = 2
  Buffer = 2
  MaxFailures = 1
  None = None
SYMMETRY Interchangeable
CHECK_DEADLOCK FALSE
INVARIANTS
  OneWatcherServesAll
PROPERTIES
  EachHasItsFeed
