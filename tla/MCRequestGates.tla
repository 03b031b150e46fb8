--------------------------- MODULE MCRequestGates ---------------------------
(* RequestGates on two sessions: one may be starting while the other is closed, rolled back or contained. *)
EXTENDS RequestGates, TLC

AnySession == Permutations(Sessions)
=============================================================================
