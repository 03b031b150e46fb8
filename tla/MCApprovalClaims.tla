-------------------------- MODULE MCApprovalClaims --------------------------
EXTENDS ApprovalClaims, TLC

CONSTANTS a1, a2, h1, h2, h3, t1, t2

\* The two approvals ask for the same action, so a reject of one bears on the other.
SameAction == [a \in {a1, a2} |-> "action"]
OneAction == [a \in {a1} |-> "action"]

Interchangeable == Permutations(Holds) \union Permutations(Tasks)
=============================================================================
