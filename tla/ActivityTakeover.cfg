CONSTANTS
  CompetentAuthorities = {ca1}
  AreaIds = {a1}
  Platforms = {p1, p2}
  Names = {n1, n2}
  ActivityIds = {x1}
  NoId = NoId
  MaxBatch = 0
  MaxTime = 4
SPECIFICATION Spec
PROPERTY OnlyOwnPlatformEnds
CHECK_DEADLOCK FALSE
