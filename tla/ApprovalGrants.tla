--------------------------- MODULE ApprovalGrants ---------------------------
(***************************************************************************)
(* What an approval promises, whatever claims it and however that ends:    *)
(* one use, only while it stands granted, and nothing after a use or after *)
(* it was forfeited without one.  ApprovalClaims implements this.          *)
(***************************************************************************)
CONSTANT Approvals

VARIABLE grant

States == {"none", "asked", "granted", "denied", "used", "forfeited"}

GrantTypeOK == grant \in [Approvals -> States]

GrantInit == grant = [a \in Approvals |-> "none"]

Ask(a) ==
  /\ grant[a] = "none"
  /\ grant' = [grant EXCEPT ![a] = "asked"]

\* Until it is used or forfeited an approval can be decided, and decided again.
Settle(a, verdict) ==
  /\ grant[a] \in {"asked", "granted", "denied"}
  /\ grant' = [grant EXCEPT ![a] = verdict]

\* One effect may use several approvals at once: a governed call's, and its action's own.
Use(S) ==
  /\ \A a \in S : grant[a] = "granted"
  /\ grant' = [a \in Approvals |-> IF a \in S THEN "used" ELSE grant[a]]

\* Claims whose execution ends without an effect and without a give-back: an error, a restart.
Forfeit(S) ==
  /\ \A a \in S : grant[a] \in {"granted", "denied"}
  /\ grant' = [a \in Approvals |-> IF a \in S THEN "forfeited" ELSE grant[a]]

GrantNext ==
  \/ \E a \in Approvals : Ask(a) \/ Settle(a, "granted") \/ Settle(a, "denied")
  \/ \E S \in SUBSET Approvals : Use(S) \/ Forfeit(S)

GrantSpec == GrantInit /\ [][GrantNext]_grant
=============================================================================
