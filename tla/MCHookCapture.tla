---------------------------- MODULE MCHookCapture ----------------------------
EXTENDS HookCapture
CONSTANTS v1, own

Rec(kind, key, agent) == [kind |-> kind, key |-> key, agent |-> agent]

(* A subagent's call and its result. *)
Subagent == <<Rec("call", "t", TRUE), Rec("result", "t", TRUE)>>

(* Text and the answer it comes before. *)
Answer == <<Rec("aside", "p", FALSE), Rec("answer", "p", FALSE)>>

=============================================================================
