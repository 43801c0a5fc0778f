CONSTANTS
  CompetentAuthorities = {ca1}
  AreaIds = {a1, a2}
  Platforms = {p1}
  Names = {n1, n2}
  ActivityIds = {x1, x2}
  NoId = NoId
  MaxBatch = 2
  MaxTime = 5
SPECIFICATION Spec
SYMMETRY Symmetry
INVARIANTS
  TypeOK
  PlatformTimelinesKept
  SubmissionsStacked
  ReportedUnderVersionsInForce
PROPERTIES
  HistoryKept
  NoResurrection
  EndsOnlyByReplacement
  AnswerMatchesStore
  LastItemDecides
CHECK_DEADLOCK FALSE
