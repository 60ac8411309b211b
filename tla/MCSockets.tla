----------------------------- MODULE MCSockets ------------------------------
(* An instance of Sockets for TLC: two sessions and one socket.  Sockets      *)
(* share nothing but the sessions and the kicks, which reach each by itself.  *)
(* MaxAge is past what two failed checks can add to one interval.             *)
EXTENDS Sockets, TLC

Together == [c \in Conn |-> CHOOSE i \in Instance : TRUE]

Symm == Permutations(Session)
=============================================================================
