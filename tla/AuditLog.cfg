CONSTANTS
  Requests = {r1, r2, r3}
  Replicas = {a, b}
  BATCH_SIZE = 2
  MaxFailures = 2
  MaxStops = 1
  StopsForever = FALSE
SPECIFICATION Spec
INVARIANTS
  TypeOK
  OnlyExpiredDeleted
  LoggedAsDeleted
  LostOnlyByFailure
PROPERTIES
  CompleteCycle
  ExpiredDeleted
