---------------------------- MODULE MCDeriveJobs ----------------------------
(* DeriveJobs on small instances. *)
EXTENDS DeriveJobs, TLC

CONSTANTS i1, i2

(* An index, the turns and the skills; the last is new in this version.    *)
StepsSince == <<1, 1, 2>>
PoisonTurns == {<<2, 1>>}

Symmetry == Permutations(Instances)

=============================================================================
