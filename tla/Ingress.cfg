SPECIFICATION FairIngressSpec
CONSTANTS
  BUFFER_SIZE = 2
  MAX_HEADER_SIZE = 2
  MaxHeader = 6
  MaxLength = 3
  MaxSent = 10
  Messages <- MCMessages
INVARIANTS TypeOK HeaderBound BodyExact HostNamesDestination HeadersPass 
PROPERTY ReceiveEnds
CHECK_DEADLOCK FALSE
