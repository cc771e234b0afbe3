---------------------------- MODULE StoreContract ----------------------------
(***************************************************************************)
(* What the session store promises, without transactions, row locks, dirty *)
(* flags or instances. An upload is one step: it is written under one      *)
(* person, into sessions that are that person's or nobody's; what is       *)
(* stored is neither lost nor taken back to an older extraction; a call is *)
(* filed once. A session whose copies change is no longer current, and it  *)
(* is current again only when its view is what it holds at that moment.    *)
(* Only what has outlived its window is removed, copy by copy, and its     *)
(* owner and its calls go with the last.                                   *)
(***************************************************************************)
EXTENDS Naturals

CONSTANTS Sessions, People, Calls, SessionOf, Removable, None

VARIABLES
  facts,     \* the stored copies: <<event, capture version>>
  owner,     \* the person of a session, None before there is one
  filed,     \* the session a call is priced in
  view,      \* the copies a session's turns were derived from
  current    \* sessions that are derived from all they hold, as they say

contractVars == <<facts, owner, filed, view, current>>

Held(F, s) == {c \in F : SessionOf[c[1]] = s}

ContractInit ==
  /\ facts = {} /\ current = {}
  /\ owner = [s \in Sessions |-> None]
  /\ filed = [c \in Calls |-> None]
  /\ view = [s \in Sessions |-> {}]

(* One person's batch. The copies it adds or replaces are any that respect *)
(* the sessions it was let into.                                           *)
Write(p) ==
  \E S \in SUBSET Sessions :
    /\ \A s \in S : owner[s] \in {None, p}
    /\ owner' = [s \in Sessions |-> IF s \in S THEN p ELSE owner[s]]
    /\ \A s \in Sessions :
         Held(facts', s) # Held(facts, s) => s \in S /\ s \notin current'
    /\ \A c \in facts : \E d \in facts' : d[1] = c[1] /\ c[2] <= d[2]
    /\ \A c, d \in facts' : c[1] = d[1] => c = d
    /\ \A c \in Calls : filed'[c] = filed[c] \/ (filed[c] = None /\ filed'[c] \in S)
    /\ current' \subseteq current
    /\ UNCHANGED view

(* A session is derived, from whatever was read of it before. It may call  *)
(* itself current only if that is what it holds now.                       *)
Derive(s) ==
  /\ owner[s] # None
  /\ \A u \in Sessions \ {s} : view'[u] = view[u]
  /\ current' \ {s} = current \ {s}
  /\ s \in current' /\ s \notin Removable => view'[s] = Held(facts, s)
  /\ UNCHANGED <<facts, owner, filed>>

(* Retention takes one copy, or what is left of a session without any.     *)
RemoveCopy(s) ==
  /\ s \in Removable
  /\ \E c \in Held(facts, s) : facts' = facts \ {c}
  /\ UNCHANGED <<owner, filed, view, current>>

RemoveSession(s) ==
  /\ s \in Removable /\ Held(facts, s) = {}
  /\ owner' = [owner EXCEPT ![s] = None]
  /\ filed' = [c \in Calls |-> IF filed[c] = s THEN None ELSE filed[c]]
  /\ view' = [view EXCEPT ![s] = {}]
  /\ current' = current \ {s}
  /\ UNCHANGED facts

ContractNext ==
  \/ \E p \in People : Write(p)
  \/ \E s \in Sessions : Derive(s) \/ RemoveCopy(s) \/ RemoveSession(s)

ContractSpec == ContractInit /\ [][ContractNext]_contractVars

=============================================================================
