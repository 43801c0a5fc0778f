CONSTANTS
  Workers = {w1, w2}
  Platforms = {p1}
  Names = {n1}
  ActivityIds = {x1, x2}
  NoId = NoId
  MaxBatch = 2
  MaxTime = 3
  Crashes = FALSE
SPECIFICATION Spec
INVARIANT TypeOK
PROPERTY EveryRequestEnds
CHECK_DEADLOCK FALSE
