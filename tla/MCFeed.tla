------------------------------- MODULE MCFeed -------------------------------
(* Instance of Feed for TLC: one message of every kind, and two more of the *)
(* other side that come after the first, the third beyond what one catch-up *)
(* walks back through. *)
EXTENDS Feed

CONSTANTS t1, t2, t3

\* The foreign messages come in this order, an own message is deleted only while
\* it is alone, and the third foreign one comes only to the other two, none
\* of which is deleted or disappears.
InOrder ==
  /\ Begun(t2) => Begun(t1)
  /\ Begun(t3) => Begun(t2) /\ timer = {} /\ \A m \in Msg : status[m] \in {"none", "there"}
  /\ \A m \in Own : status[m] = "deleted" => ~Begun(t1)
  /\ (\E m \in Own : Begun(m)) => ~(Begun(t1) /\ Begun(t2))
=============================================================================
