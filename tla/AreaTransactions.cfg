CONSTANTS
  Workers = {w1, w2}
  CompetentAuthorities = {ca1, ca2}
  AreaIds = {a1}
  NoId = NoId
  MaxTime = 3
  Crashes = TRUE
SPECIFICATION Spec
INVARIANTS
  VersionsStacked
  ReferencesInForce
PROPERTIES
  DeletionHolds
  ImplementsAreaService
  EveryRequestEnds
CHECK_DEADLOCK FALSE
