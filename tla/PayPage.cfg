SPECIFICATION FairSpec
CONSTANTS
  Client = {page}
  Page = page
  Place = {k1, k2}
  MaxPerSession = 1
  Buffer = 2
  MaxFailures = 1
  None = None
CHECK_DEADLOCK FALSE
PROPERTIES
  PlacesAreFreed
  PaidIsShown
