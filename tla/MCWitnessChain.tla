--------------------------- MODULE MCWitnessChain ---------------------------
EXTENDS WitnessChain, TLC

CONSTANTS r1, r2, r3, r4, l1

AnyReceipt == Permutations(Receipts)
=============================================================================
