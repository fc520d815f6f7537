SPECIFICATION Spec
CONSTANTS
  Workers = {w1, w2}
  Keys = {a, b, c}
  Sizes = {1, 2, 3}
  CACHE_ENABLED = TRUE
  CAPACITY = 2
  MAX_OBJECT_SIZE = 2
  CACHE_TTL = 1
  MaxTime = 3
  MaxOps = 4
INVARIANTS TypeOK CountersAgree BytesAgree CapacityHeld
PROPERTIES EvictsLeastRecent ImplementsAtomicCache
SYMMETRY Interchangeable
