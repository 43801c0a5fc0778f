CONSTANTS
  Requests = {r1, r2}
  Replicas = {a}
  BATCH_SIZE = 2
  MaxFailures = 0
  MaxStops = 0
  StopsForever = TRUE
SPECIFICATION Spec
PROPERTY ExpiredDeleted
