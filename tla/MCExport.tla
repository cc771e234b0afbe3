------------------------------ MODULE MCExport ------------------------------
(* Export on small instances. MCExport.cfg: two sessions, one of which may   *)
(* turn out to have started a day earlier, and runs that take one start day  *)
(* and one event day, so that a plan is cut, also in the middle of a tie.    *)
(* MCExportThree.cfg: a third session, and runs cut at two sessions.         *)
EXTENDS Export, TLC

CONSTANTS w1, w2                        \* open transactions

StartDaysOf == [s \in Sessions |-> IF s = Max(Sessions) THEN {1, 2} ELSE {1}]
PlaceOf == [t \in SessionTables |-> IF t = "turns" THEN 1 ELSE 2]

Symmetry == Permutations(Writers)

=============================================================================
