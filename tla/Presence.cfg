SPECIFICATION FairSpec
CONSTANTS
  Socket = {s1, s2, s3}
  Ping = 1
  TTL = 3
  MaxFaults = 2
  None = None
INVARIANTS
  PresenceTrue
PROPERTIES
  SinkOnLast
  StaleReaped
CHECK_DEADLOCK FALSE
