SPECIFICATION CallSpec
CONSTANTS
  Url = {a, b, c, d}
  NoUrl = NoUrl
  Response <- MixedResponse
  Reply <- MixedReply
  Node = {n1, n2, n3, n4}
  NoNode = NoNode
  Freed = Freed
  Capacity = 2
SYMMETRY NodeSymmetry
INVARIANTS
  CacheTypeOK
  ListOwnsNodes
  SizeBound
  MatchedUntilFull
  DefinedUntilFull
PROPERTIES
  LruWhileMatched
CHECK_DEADLOCK FALSE
