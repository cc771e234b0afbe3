------------------------------ MODULE MCOutbox ------------------------------
(* Outbox on small instances. *)
EXTENDS Outbox, TLC

CONSTANTS a, b,                       \* keys
          h1, d1, d2, r1, r2, y1      \* processes

(* Two captures with keys of their own. *)
OwnKeys == [n \in Names |-> IF n % 2 = 1 THEN a ELSE b]

(* Two walks of one byte range: both files carry one key. *)
SameKey == [n \in Names |-> a]

(* Interchangeable processes. *)
Symmetry == Permutations(Drains) \cup Permutations(Redrivers)

=============================================================================
