SPECIFICATION Spec
CONSTANTS
  a1 = a1
  a2 = a2
  b1 = b1
  Device = {a1, a2, b1}
  UserOf <- Users
  MaxPackage = 2
  PoolMin = 1
  PoolTarget = 1
  MaxFaults = 1
SYMMETRY Symm
CONSTRAINT OthersStay
INVARIANTS
  NoFork
  CatchesUp
  NobodyLeftOut
  PackageOpens
CHECK_DEADLOCK FALSE
