CONSTANTS
  Requests = {r1, r2}
  Replicas = {a, b}
  BATCH_SIZE = 2
  MaxFailures = 0
  MaxStops = 1
  StopsForever = FALSE
SPECIFICATION Spec
INVARIANT EveryRequestTracked
