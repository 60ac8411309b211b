SPECIFICATION FairSpec
CONSTANTS
  Sock = {s1, s2, s3}
  MaxDials = 1
  MaxFrames = 2
  MaxDrops = 2
  None = None
INVARIANTS
  OneSocket
  NeverStranded
PROPERTIES
  KeptInOrder
  QueuedGoes
CHECK_DEADLOCK FALSE
