---------------------------- MODULE MCSpoolState ----------------------------
EXTENDS SpoolState, TLC
CONSTANTS p1, p2, i1, i2, i3, i4
Symmetry == Permutations(Writers) \cup Permutations(Inodes)
=============================================================================
