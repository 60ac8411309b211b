SPECIFICATION Spec
CONSTANTS
  Sanction = {s1, s2, s3, s4}
  Handler = {h1, h2}
  WarnLimit = 2
  RestoreWindow = 1
  MuteDurations <- Durations
  SlowTx = {"warn", "mute", "delete", "founder", "ceo", "restore"}
  MaxTime = 3
  None = None
SYMMETRY Symm
INVARIANTS WarnedOut  DeletionOnRecord RestoredWhole
PROPERTIES DeletionStaysRestorable
CHECK_DEADLOCK FALSE
