----------------------------- MODULE MCRefresh ------------------------------
(* An instance of Refresh for TLC: two requests of one tab and one of another. *)
EXTENDS Refresh

CONSTANTS f1, f2, f3

Tabs == [f \in Flight |-> IF f = f3 THEN "other" ELSE "tab"]
=============================================================================
