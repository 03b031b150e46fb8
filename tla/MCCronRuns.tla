----------------------------- MODULE MCCronRuns -----------------------------
EXTENDS CronRuns, TLC

CONSTANTS j1, j2, j3, c1

OneCron == [j \in Hosted |-> c1]
Interchangeable == Permutations(Hosted)
=============================================================================
