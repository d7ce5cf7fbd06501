SPECIFICATION Spec
CONSTANTS
  Url = {a}
  NoUrl = NoUrl
  Response <- RaceResponse
  Reply <- RaceReply
  Node = {n1}
  NoNode = NoNode
  Freed = Freed
  Capacity = 1
  Thread = {t1, t2}
  NoResponse = NoResponse
  BadGateway = BadGateway
INVARIANTS
  NoCacheValidated
