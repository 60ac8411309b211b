SPECIFICATION Spec
CONSTANTS
  User = {u1, u2, u3}
  CallId = {c1, c2, c3}
  Handler = {h1, h2}
  Wakeable = {}
  Faults = {"reconnect"}
  MaxActs = 1
  None = None
  u2 = u2
CONSTRAINT FewCalls
SYMMETRY Symm
INVARIANTS
  OneLiveCall
CHECK_DEADLOCK FALSE
