SPECIFICATION Spec
CONSTANTS
  Type <- Types
  MaxLength = 15
  Radix = 10
  HexRadix = 16
  Digit <- Digits
  HexDigit <- HexDigits
  VersionDigit <- VersionDigits
  StatusCode <- StatusCodes
  MethodWord <- MethodWords
  MaxMessages = 2
  MaxLines = 2
  MaxFolds = 1
  MaxPieces = 1
INVARIANTS
  TypeOK
  BodyAsAnnounced
  FramingAsSaid
  FieldsPaired
PROPERTIES
  CloseEnds
  ImplementsMessage
CHECK_DEADLOCK FALSE
