CONSTANTS
  Records = {r1, r2}
  RingCapacity = 2
  EventsCapacity = 2
SPECIFICATION Spec
INVARIANTS
  TypeOK
  NoStaleFlush
  ExitIsReal
PROPERTIES
  PipeSpec
CHECK_DEADLOCK FALSE
