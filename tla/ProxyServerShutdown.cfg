SPECIFICATION FairSpec
CONSTANTS
  Conns = {c1}
  Workers = {w1}
  MAX_CONN = 1
  MAX_FILES = 2
PROPERTY ShutdownEnds
CHECK_DEADLOCK FALSE
