--------------------------- MODULE MCSessionStore ---------------------------
(* Two sessions, the second a fork of the first that carries a copy of the  *)
(* same model call. Session 1's answer was captured by the hook (h), walked *)
(* as t, and walked again by a newer extraction under another id (u).       *)
EXTENDS SessionStore
CONSTANTS h, t, u, k, da, db, alice, bob, i1, i2

TwoSessions == {1, 2}
SessionMap == [e \in {h, t, u, k} |-> IF e = k THEN 2 ELSE 1]
RecordMap == [e \in {h, t, u, k} |-> IF e = k THEN "copied" ELSE "answer"]
CallMap == [r \in {"answer", "copied"} |-> "call"]
CopySet == {<<h, 1>>, <<t, 1>>, <<u, 2>>, <<k, 1>>}
TwoPeople == [d \in {da, db} |-> IF d = da THEN alice ELSE bob]
=============================================================================
