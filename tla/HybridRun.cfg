CONSTANTS
  Interval = 1
  Origins = {1}
  Counters = {}
  Snapshots = {}
  Threads <- MCThreads
  MaxClock = 3
SPECIFICATION RunSpec
INVARIANTS
  AuxReportsAreMerged
  PendingReportsAreAhead
  DelaysStayWithTheirThread
  ReportsCoverThreads
CHECK_DEADLOCK FALSE
