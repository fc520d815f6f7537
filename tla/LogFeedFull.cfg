SPECIFICATION FairSpec
CONSTANTS
  Viewers = {v1}
  RING_SIZE = 2
  MaxEvents = 4
PROPERTY EntriesArrive
CHECK_DEADLOCK FALSE
