CONSTANTS
  Tids = {1, 2}
  Leader = 1
  MaxThreads = 2
  Targets <- MCTargets
  Subjects <- MCSubjects
  Contents <- MCContents
  Modulus = 6
  Deadline = 0
  MaxRequests = 7
SPECIFICATION Spec
INVARIANTS
  ExitsAreSurvived
CHECK_DEADLOCK FALSE
