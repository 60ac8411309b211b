SPECIFICATION FairSpec
CONSTANTS
  c1 = c1
  c2 = c2
  c3 = c3
  user = user
  other = other
  addr = addr
  Conn = {c1, c2, c3}
  Key = {user, other, addr}
  KeysOf <- Shared
  Cap <- Caps
  Stale = 2
  MaxFaults = 2
INVARIANTS
  CapKept
PROPERTIES
  DeadDropOut
CHECK_DEADLOCK FALSE
