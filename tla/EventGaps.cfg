CONSTANTS
  Interval = 1
  Scenarios <- GapScenarios
  MaxInt = 31
  nanosecondsPerSecond = 4
  ticksPerSecond = 2
  RingCapacity = 1
  Events <- RunEvents
  Snapshots <- RunSnapshots
SPECIFICATION GapSpec
INVARIANTS
  GapsEndWithTheNextSwitch
CHECK_DEADLOCK FALSE
