SPECIFICATION Spec
CONSTANTS
  BufferSize = 5
  MaxInt = 8
  Response <- Responses
  Timeout = 2
  MaxSent = 2
PROPERTIES
  TunnelCloses
CHECK_DEADLOCK FALSE
