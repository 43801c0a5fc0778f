CONSTANTS
  CompetentAuthorities = {ca1}
  AreaIds = {a1}
  Platforms = {p1}
  Names = {n1}
  x1 = x1
  x2 = x2
  ActivityIds = {x1, x2}
  NoId = NoId
  EmptyId = EmptyId
  NotText = NotText
  Items <- MCItems
  Filenames <- MCFilenames
  MaxInteger = 3
  MaxBatch = 2
  MaxTime = 2
SPECIFICATION IntakeSpec
PROPERTY InvalidItemBlocksNothing
CHECK_DEADLOCK FALSE
