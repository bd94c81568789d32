CONSTANTS
  Interval = 2
  Origins = {0}
  Counters = {}
  Snapshots = {}
  Second = 2
  HalfRange = 4
  Arguments <- MCArguments
  Threads <- MCThreads
  CommOf <- MCCommOf
  EventRows <- MCEventRows
  MaxScan = 1
  MaxClock = 6
SPECIFICATION AppSpec
INVARIANTS
  CountIsKept
  StatusTellsOutcome
  TickersArePositive
  WorkIsShown
PROPERTIES
  RunsEnd
CHECK_DEADLOCK FALSE
