SPECIFICATION ServerSpec
CONSTANTS
  Thread = {t1, t2}
  Modulus = 8
  Fd = {4, 5, 6}
  MaxAddresses = 2
  MaxAccepted = 3
SYMMETRY ThreadSymmetry
INVARIANTS
  ClientOwned
CHECK_DEADLOCK FALSE
