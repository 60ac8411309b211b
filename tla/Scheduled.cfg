SPECIFICATION FairSpec
CONSTANTS
  Row = {r1, r2}
  Chat = {c1}
  Att = {a1}
  Body = {b1}
  Worker = {w1, w2}
  Request = {q1}
  Gates = {"left", "refused", "blocked"}
  Batch = 2
  MaxPending = 2
  MinDelay = 1
  MaxTime = 1
  MaxFaults = 1
  None = None
  r1 = r1
  r2 = r2
CONSTRAINT
  Bounded
INVARIANTS
  DeliveredOnce
  UploadInOneMessage
PROPERTIES
  ImplementsOutbox
  DueHandled
CHECK_DEADLOCK FALSE
