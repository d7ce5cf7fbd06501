SPECIFICATION Spec
CONSTANTS
  Header <- MCHeader
  Request <- MCRequest
  Absent = Absent
  Malformed = Malformed
  NoValue = NoValue
  Junk <- MCJunk
  Zone = 2
  Shift = 2
  NoEntry = NoEntry
  Revalidate = Revalidate
  MaxNow = 4
INVARIANTS
  TypeOK
  ExpiryKept
  RevalidationKept
  MaxAgeKept
