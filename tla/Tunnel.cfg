SPECIFICATION FairSpec
CONSTANT BUFFER = 2
INVARIANTS CleanEnd HalfClose
PROPERTY TunnelEnds
CHECK_DEADLOCK FALSE
