SPECIFICATION Spec
CONSTANTS
  Url = {a, b, c}
  NoUrl = NoUrl
  Response <- RaceResponse
  Reply <- RaceReply
  Node = {n1, n2, n3}
  NoNode = NoNode
  Freed = Freed
  Capacity = 1
  Thread = {t1, t2}
  NoResponse = NoResponse
  BadGateway = BadGateway
SYMMETRY AgentSymmetry
INVARIANTS
  AgentTypeOK
  DefinedUntilFull
  OwnUntilFull
  OnlyCacheableCached
PROPERTIES
  UsesCacheAsAsked
CHECK_DEADLOCK FALSE
