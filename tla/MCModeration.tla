---------------------------- MODULE MCModeration ----------------------------
(* Instances of Moderation for TLC. *)
EXTENDS Moderation, TLC

Symm == Permutations(Sanction) \cup Permutations(Handler)

Durations == {0, 1}
=============================================================================
