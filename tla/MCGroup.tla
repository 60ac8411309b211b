------------------------------- MODULE MCGroup -------------------------------
(* Instances of Group for TLC: two devices of one user, one of the other. *)
EXTENDS Group, TLC

CONSTANTS a1, a2, b1

Users == (a1 :> "a" @@ a2 :> "a" @@ b1 :> "b")

\* The page that may be closed is b1's; requests may be lost everywhere.
OthersStay == \A d \in {a1, a2} : made[d] > 0 => page[d].at # "off"

Symm == Permutations({a1, a2})
=============================================================================
