CONSTANTS
  CompetentAuthorities = {ca1, ca2}
  AreaIds = {a1, a2}
  Platforms = {p1, p2}
  Names = {n1}
  ActivityIds = {x1, x2}
  NoId = NoId
  MaxBatch = 0
  MaxTime = 6
SPECIFICATION Spec
SYMMETRY Symmetry
INVARIANTS
  AreaTimelinesKept
  AnnouncedByAuthorityInForce
  EveryAreaHasOneOwner
  ActivityVersionsStacked
  EveryActivityReachesOneAuthority
PROPERTIES
  HistoryKept
  NoResurrection
  NoInternalError
CHECK_DEADLOCK FALSE
