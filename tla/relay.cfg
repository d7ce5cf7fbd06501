SPECIFICATION Spec
CONSTANTS
  BufferSize = 5
  MaxInt = 8
  Response <- Responses
  Timeout = 2
  MaxSent = 2
INVARIANTS
  TypeOK
  
  Entire
  NoOverrun
PROPERTIES
  HangUpEnds
  CompleteEnds
  QuietTunnelCloses
  NoSpin
CHECK_DEADLOCK FALSE
