CONSTANTS
  CompetentAuthorities = {ca1, ca2}
  AreaIds = {a1, a2, a3}
  NoId = NoId
  MaxTime = 6
SPECIFICATION AreaSpec
SYMMETRY AreaSymmetry
INVARIANTS
  AreaTypeOK
  AuthorityVersionsStacked
  AreaVersionsStacked
  NoAreaGap
  AnnouncedByAuthorityInForce
  EveryAreaHasOneOwner
PROPERTIES
  AreaHistoryKept
  NoAreaResurrection
CHECK_DEADLOCK FALSE
