------------------------------ MODULE MCMirror ------------------------------
(* Mirror on a small instance. *)
EXTENDS Mirror, TLC

CONSTANTS s1, s2, x1, p1, g1, hall, dm

OwnerOf == [x \in Sessions |-> p1]
FirstDefault == [p \in People |-> g1]

AsksOrNot == {"no", "on"}

Symmetry == Permutations(Servers)
=============================================================================
