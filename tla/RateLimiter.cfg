SPECIFICATION Spec
CONSTANTS
  Workers = {w1, w2}
  IPs = {a,b}
  RATE_LIMIT_ENABLED = TRUE
  CAPACITY = 2
  UNIT = 2
  RATE = 3
  TICKS = 1
  STALE_THRESHOLD = 2
  PRUNE_PERIOD = 1
  MaxTime = 3
INVARIANTS TypeOK BucketBurstBound RegistryBurstBound
PROPERTY RetryAfterHonest
SYMMETRY Interchangeable
