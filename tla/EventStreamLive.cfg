CONSTANTS
  Records = {r1}
  RingCapacity = 1
  EventsCapacity = 1
SPECIFICATION FairSpec
PROPERTIES
  FlushEnds
  RunStops
  StopIsClean
CHECK_DEADLOCK FALSE
