CONSTANTS
  CompetentAuthorities = {ca1, ca2}
  AreaIds = {a1, a2}
  NoId = NoId
  MaxTime = 4
SPECIFICATION AreaSpec
PROPERTY OnlyOwnerEndsArea
CHECK_DEADLOCK FALSE
