CONSTANTS
  Workers = {w1, w2}
  CompetentAuthorities = {ca1}
  AreaIds = {a1}
  NoId = NoId
  MaxTime = 3
  Crashes = FALSE
SPECIFICATION Spec
SYMMETRY Symmetry
PROPERTY NeverRevived
CHECK_DEADLOCK FALSE
