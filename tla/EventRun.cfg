CONSTANTS
  Interval = 2
  Scenarios <- MCScenarios
  MaxInt = 31
  nanosecondsPerSecond = 4
  ticksPerSecond = 2
  RingCapacity = 1
  Events <- RunEvents
  Snapshots <- RunSnapshots
SPECIFICATION RunSpec
INVARIANTS
  InexactReportsLeaveEvidence
  RowsOfOneTidAreDisjoint
  ThreadsHaveOneRow
  LatencyIsRunnableTime
  EventsAreAccounted
  StartTimesAgreeWithProc
CHECK_DEADLOCK FALSE
