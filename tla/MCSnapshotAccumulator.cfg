CONSTANTS
  Interval = 2
  Origins = {0, 3}
  Counters <- MCCounters
  Snapshots <- MCSnapshots
SPECIFICATION Spec
INVARIANTS
  TypeOK
  ReportsCoverThreads
  RowsOfOneTidAreDisjoint
  CountersAreConserved
CHECK_DEADLOCK FALSE
