SPECIFICATION Spec
CONSTRAINT InOrder
CONSTANTS
  t1 = t1
  t2 = t2
  t3 = t3
  Direct = {d1}
  Forwarded = {w1}
  Batched = {b1}
  Scheduled = {s1}
  Theirs = {t1, t2, t3}
  Timed = {s1}
  Late = {t2}
  Unsent = {d1, t2}
  Fetch = {f1}
  NoMsg = NoMsg
  NoFeed = NoFeed
  Nobody = Nobody
  Window = 0
  MaxCatchUp = 2
  MaxOwn = 1
  MaxSent = 3
  MaxGone = 1
  MaxFaults = 1
INVARIANTS
  OwnTextKept
  TheirTextKept
  ShownOnce
  Mirrors
  Forgotten
CHECK_DEADLOCK FALSE
