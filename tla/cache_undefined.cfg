SPECIFICATION CacheSpec
CONSTANTS
  Url = {a, b, c, d}
  NoUrl = NoUrl
  Response <- PlainResponse
  Reply <- PlainReply
  Node = {n1, n2, n3, n4}
  NoNode = NoNode
  Freed = Freed
  Capacity = 1
SYMMETRY NodeSymmetry
INVARIANTS
  NeverUndefined
CHECK_DEADLOCK FALSE
