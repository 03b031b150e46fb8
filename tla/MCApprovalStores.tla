-------------------------- MODULE MCApprovalStores --------------------------
EXTENDS ApprovalStores, TLC

CONSTANTS a1, a2

Interchangeable == Permutations(Approvals)
=============================================================================
