CONSTANTS
  Interval = 2
  Scenarios <- SeedScenarios
  MaxInt = 31
  nanosecondsPerSecond = 4
  ticksPerSecond = 2
  RingCapacity = 1
  Events <- RunEvents
  Snapshots <- RunSnapshots
SPECIFICATION RunSpec
INVARIANTS
  RunningSeedsAreUnknown
CHECK_DEADLOCK FALSE
