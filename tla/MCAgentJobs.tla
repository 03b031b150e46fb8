---------------------------- MODULE MCAgentJobs ----------------------------
EXTENDS AgentJobs, TLC

CONSTANTS j1, j2, j3

Interchangeable == Permutations(Jobs)
=============================================================================
