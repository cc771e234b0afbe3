--------------------------- MODULE OutboxContract ---------------------------
(***************************************************************************)
(* What the outbox promises, without files or processes: an item is owed   *)
(* from the moment Add returns. The debt ends when the server has stored   *)
(* the item's key, never before, or by a named loss (the cap, a redrive    *)
(* that unlinked the last copy). A copy in flight that is written back     *)
(* late revives a debt: delivery is at least once, the key makes the       *)
(* repeats harmless.                                                       *)
(***************************************************************************)
CONSTANTS Items, Keys, KeyOf

VARIABLES
  captured,    \* items whose Add has returned
  owed,        \* those the machine still holds a copy of
  delivered,   \* keys the server has stored
  dropped      \* items lost by name

contractVars == <<captured, owed, delivered, dropped>>

ContractInit == captured = {} /\ owed = {} /\ delivered = {} /\ dropped = {}

(* Add returned: the item is owed.                                         *)
Capture(n) ==
  /\ n \notin captured
  /\ captured' = captured \cup {n}
  /\ owed' = owed \cup {n}
  /\ UNCHANGED <<delivered, dropped>>

(* The server stores the keys of items that were captured.                 *)
Store(K) ==
  /\ K \subseteq {KeyOf[n] : n \in captured}
  /\ delivered' = delivered \cup K
  /\ UNCHANGED <<captured, owed, dropped>>

(* A debt is settled only once its key is stored.                          *)
Release(n) ==
  /\ n \in owed
  /\ KeyOf[n] \in delivered
  /\ owed' = owed \ {n}
  /\ UNCHANGED <<captured, delivered, dropped>>

(* A named loss.                                                           *)
Drop(n) ==
  /\ n \in owed
  /\ owed' = owed \ {n}
  /\ dropped' = dropped \cup {n}
  /\ UNCHANGED <<captured, delivered>>

(* A copy in flight is written back after the item was settled or dropped. *)
Revive(n) ==
  /\ n \in captured \ owed
  /\ owed' = owed \cup {n}
  /\ UNCHANGED <<captured, delivered, dropped>>

ContractNext ==
  \/ \E n \in Items : Capture(n) \/ Release(n) \/ Drop(n) \/ Revive(n)
  \/ \E K \in SUBSET Keys : Store(K)

ContractSpec == ContractInit /\ [][ContractNext]_contractVars

=============================================================================
