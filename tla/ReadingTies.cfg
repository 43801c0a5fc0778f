CONSTANTS
  CompetentAuthorities = {ca1}
  AreaIds = {a1, a2}
  Platforms = {p1}
  Names = {n1}
  ActivityIds = {x1, x2}
  NoId = NoId
  MaxBatch = 2
  MaxTime = 3
  Limits = {1, 2}
SPECIFICATION ReadingSpec
SYMMETRY Symmetry
INVARIANT UnchangedListReadOnce
CHECK_DEADLOCK FALSE
