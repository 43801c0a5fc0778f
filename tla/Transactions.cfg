CONSTANTS
  Workers = {w1, w2}
  Platforms = {p1, p2}
  Names = {n1}
  ActivityIds = {x1, x2}
  NoId = NoId
  MaxBatch = 2
  MaxTime = 3
  Crashes = TRUE
SPECIFICATION Spec
SYMMETRY Symmetry
INVARIANTS
  PlatformsUndisturbed
  DeadlockOnlyWithinPlatform
PROPERTIES
  CommittedHistoryKept
  NeverAbsent
  RefusedOnlyIfDeactivated
CHECK_DEADLOCK FALSE
