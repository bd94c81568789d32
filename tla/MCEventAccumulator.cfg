CONSTANTS
  Interval <- MCInterval
  Events <- MCEvents
  Snapshots <- MCSnapshots
  MaxEvents = 3
  MaxWindows = 2
  MaxLost = 1
SPECIFICATION MCSpec
INVARIANTS
  TypeOK
  OpenWindowsAreUnreported
  TrackedTimeIsCredited
  PendingWakeupIsRunnable
  RowsAreConsistent
PROPERTIES
  ReportsCoverLiveThreads
CHECK_DEADLOCK FALSE
