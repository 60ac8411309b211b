----------------------------- MODULE MCPresence -----------------------------
(* An instance of Presence for TLC: three sockets, two faults, a key that   *)
(* lives for three ping periods, as in the code (150 s and 54 s).           *)
EXTENDS Presence
=============================================================================
