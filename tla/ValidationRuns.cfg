SPECIFICATION FairSpec
CONSTANTS
  Executor = {e1, e2}
  Last = 3
  Executable = {1, 3}
  None = None
  MaxFaults = 2
CHECK_DEADLOCK FALSE
INVARIANTS
  TypeOK
  PassMeansPassed
  CancelStopsTheRun
PROPERTIES
  RecordIsFinal
  ClaimedRunEnds
