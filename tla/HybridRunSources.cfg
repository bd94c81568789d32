CONSTANTS
  Interval = 1
  Origins = {1}
  Counters = {}
  Snapshots = {}
  Threads <- MCThreads
  MaxClock = 3
SPECIFICATION RunSpec
INVARIANTS
  SourcesAreThoseUsed
CHECK_DEADLOCK FALSE
