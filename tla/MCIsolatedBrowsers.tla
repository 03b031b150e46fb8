------------------------- MODULE MCIsolatedBrowsers -------------------------
(* IsolatedBrowsers on two sessions and a pool of two subnets. *)
EXTENDS IsolatedBrowsers, TLC

AnySession == Permutations(Sessions) \union Permutations(Subnets)
=============================================================================
