SPECIFICATION RefreshSpec
CONSTANTS
  f1 = f1
  f2 = f2
  f3 = f3
  Flight = {f1, f2, f3}
  TabOf <- Tabs
  MaxToken = 5
  MaxFaults = 3
  NoToken = NoToken
INVARIANTS
  NoSelfLogout
  DroppedWhenOver
CHECK_DEADLOCK FALSE
