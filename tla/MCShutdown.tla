----------------------------- MODULE MCShutdown -----------------------------
\* The times of main.go and of the unit file.
EXTENDS Shutdown

CONSTANTS a1, a2, r1, r2

mcAgent == {a1, a2}
mcRequest == {r1, r2}
=============================================================================
