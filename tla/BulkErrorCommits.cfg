CONSTANTS
  CompetentAuthorities = {ca1}
  AreaIds = {a1}
  Platforms = {p1}
  Names = {n1, n2}
  ActivityIds = {x1}
  NoId = NoId
  MaxBatch = 1
  MaxTime = 4
SPECIFICATION Spec
PROPERTY ErrorChangesNothing
CHECK_DEADLOCK FALSE
