SPECIFICATION FairDashboardSpec
CONSTANTS
  Viewers = {v1}
  RING_SIZE = 2
  MaxEvents = 3
  Workers = {w1, w2}
  MaxRequests = 2
INVARIANTS FeedInOrder SnapshotCoherent LogsAreCounted
PROPERTY FreshEntriesArrive
CHECK_DEADLOCK FALSE
