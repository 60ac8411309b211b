SPECIFICATION SocketsSpec
CONSTANTS
  Session = {a1, a2}
  Conn = {c1}
  Instance = {i1}
  HomeOf <- Together
  SessionRecheck = 3
  InboundRecheck = 2
  MaxAge = 10
  MaxKicks = 3
  MaxOutages = 2
  NoSession = NoSession
SYMMETRY Symm
INVARIANTS
  FollowsSession
  FrameWithinMemory
CHECK_DEADLOCK FALSE
