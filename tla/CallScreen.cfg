SPECIFICATION Spec
CONSTANTS
  In = {1, 2}
  Pushed = {1}
  Out = {3}
  NoCall = 0
  NoSession = NoSession
  MaxAttempts = 2
  MaxWakes = 1
  MaxTaps = 1
CONSTRAINTS TwoCalls Undecided
INVARIANTS Released AnswerWanted ServerKnows NotStuck
CHECK_DEADLOCK FALSE
