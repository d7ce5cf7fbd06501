SPECIFICATION Spec
CONSTANTS
  Url = {a, b}
  NoUrl = NoUrl
  Response <- EveryResponse
  Reply <- EveryReply
  Node = {n1, n2}
  NoNode = NoNode
  Freed = Freed
  Capacity = 0
  Thread = {t1}
  NoResponse = NoResponse
  BadGateway = BadGateway
INVARIANTS
  NoCacheValidated
  OnlyCacheableCached
CHECK_DEADLOCK FALSE
