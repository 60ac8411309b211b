---------------------------- MODULE MCConnCaps ------------------------------
(* An instance of ConnCaps for TLC: two accounts behind one address, two     *)
(* sockets of the one and one of the other, a socket too many for each cap.  *)
EXTENDS ConnCaps

CONSTANTS c1, c2, c3, user, other, addr

Shared == [c \in Conn |-> {addr} \cup (IF c = c3 THEN {other} ELSE {user})]
Caps == [k \in Key |-> IF k = addr THEN 2 ELSE 1]
=============================================================================
