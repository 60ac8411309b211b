---------------------------- MODULE MCCallScreen ----------------------------
EXTENDS CallScreen

Calls == {c \in Call : srv[c] # "none"}

\* Two of the three calls take place, any two.
TwoCalls == Cardinality(Calls) <= 2

\* Once a continuation has run for a session that is gone, or two calls have
\* crossed, only AnswerWanted has something to say.  It can still fail for a call
\* that the user has not answered, that may yet be ringing and that a run of
\* accept answers or may answer; where there is none, the states that follow
\* need not be looked at.
Undecided ==
  slip \cap {"crossed", "double", "stale"} # {} =>
    \E c \in In \ wanted :
      /\ srv[c] = "ringing" \/ (srv[c] = "none" /\ Cardinality(Calls) < 2)
      /\ \E a \in Attempt : attempt[a].at = "unused" \/ (InFlight(a) /\ attempt[a].call = c)
=============================================================================
