CONSTANTS
  CompetentAuthorities = {ca1}
  AreaIds = {a1}
  Platforms = {p1}
  Names = {n1}
  ActivityIds = {x1, x2}
  NoId = NoId
  MaxBatch = 1
  MaxTime = 5
SPECIFICATION Spec
PROPERTY NoInternalError
CHECK_DEADLOCK FALSE
