------------------------- MODULE MCSessionLifecycle -------------------------
EXTENDS SessionLifecycle, TLC

CONSTANTS s1, s2, s3, c1, c2, k1
=============================================================================
