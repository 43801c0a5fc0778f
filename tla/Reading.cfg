CONSTANTS
  CompetentAuthorities = {ca1, ca2}
  AreaIds = {a1, a2}
  Platforms = {p1, p2}
  Names = {n1}
  ActivityIds = {x1, x2}
  NoId = NoId
  MaxBatch = 0
  MaxTime = 5
  Limits = {1}
SPECIFICATION ReadingSpec
SYMMETRY Symmetry
INVARIANTS
  AreaTimelinesKept
  AnnouncedByAuthorityInForce
  EveryAreaHasOneOwner
  ActivityVersionsStacked
  EveryActivityReachesOneAuthority
  PagesMeet
CHECK_DEADLOCK FALSE
