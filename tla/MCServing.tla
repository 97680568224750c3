------------------------------ MODULE MCServing ------------------------------
EXTENDS Serving, TLC

CONSTANTS r1, r2, r3

MCRequests == {r1, r2, r3}
=============================================================================
