--------------------------- MODULE MCSessionDaemon ---------------------------
EXTENDS SessionDaemon, TLC
CONSTANTS p1, p2, p3
Symmetry == Permutations(Pids)
=============================================================================
