CONSTANTS
  Workers = {w1}
  Platforms = {p1}
  Names = {n1, n2}
  ActivityIds = {x1, x2}
  NoId = NoId
  MaxBatch = 2
  MaxTime = 4
  Crashes = TRUE
SPECIFICATION Spec
SYMMETRY Symmetry
PROPERTY ImplementsActivityService
CHECK_DEADLOCK FALSE
