------------------------------- MODULE MCCalls -------------------------------
(* Instances of Calls for TLC: up to three calls whose invites cross, and one *)
(* call with every fault. *)
EXTENDS Calls, TLC

CONSTANT u2

\* Two calls among any of the users, or three between the same two; then the
\* users who place no call stay away.
FewCalls ==
  LET placed == {c \in CallId : Invited(c)} IN
  Cardinality(placed) <= 2 \/ \A c, d \in placed : Parties(c) = Parties(d) /\ online \subseteq Parties(c)

\* Of the two users in calls_live, u1 calls; the other case is the same with
\* the names exchanged.
OneCalls == \A c \in CallId : party[c].caller # u2

Symm == Permutations(User) \cup Permutations(CallId) \cup Permutations(Handler)
=============================================================================
