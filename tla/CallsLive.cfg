SPECIFICATION FairSpec
CONSTANTS
  User = {u1, u2}
  CallId = {c1}
  Handler = {h1, h2}
  Wakeable = {u1, u2}
  Faults = {"crash", "db", "reconnect"}
  MaxActs = 2
  None = None
  u2 = u2
CONSTRAINT OneCalls
INVARIANTS
  JournalTruth
  MissedWasNotAnswered
PROPERTIES
  LastWord
  BothHear
CHECK_DEADLOCK FALSE
