SPECIFICATION ServerSpec
CONSTANTS
  Thread = {t1, t2}
  Modulus = 8
  Fd = {4, 5, 6}
  MaxAddresses = 2
  MaxAccepted = 3
SYMMETRY ThreadSymmetry
INVARIANTS
  ServerTypeOK
  NoLeak
  OwnedUntilFailure
  TypeOK
  LaterIsGreater
CHECK_DEADLOCK FALSE
