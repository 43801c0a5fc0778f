CONSTANTS
  Workers = {w1, w2}
  Platforms = {p1}
  Names = {n1}
  ActivityIds = {x1}
  NoId = NoId
  MaxBatch = 1
  MaxTime = 3
  Crashes = FALSE
SPECIFICATION Spec
SYMMETRY Symmetry
PROPERTY NeverRefusedByMistake
CHECK_DEADLOCK FALSE
