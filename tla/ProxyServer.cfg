SPECIFICATION FairSpec
CONSTANTS
  Conns = {c1, c2}
  Workers = {w1}
  MAX_CONN = 2
  MAX_FILES = 3
INVARIANTS OneOwner Ledger OneAnswer OnlyAdmitted
PROPERTIES ServiceEnds DrainEnds
CHECK_DEADLOCK FALSE
