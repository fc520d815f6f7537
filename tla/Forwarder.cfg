SPECIFICATION FairSpec
CONSTANTS
  Workers = {w1, w2}
  Keys = {a}
  Methods = {"GET", "POST"}
  Statuses = {200, 404}
  Lengths = {2}
  BUFFER_SIZE = 2
  MAX_OBJECT_SIZE = 2
  MaxUnits = 3
  CACHE_ENABLED = TRUE
INVARIANTS CacheHonest ChunksAreRelayed
PROPERTIES WholeResponsesStored FetchEnds
