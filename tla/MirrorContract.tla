--------------------------- MODULE MirrorContract ---------------------------
(***************************************************************************)
(* What the mirror promises about one message, without instances, sweeps   *)
(* or leases. The right to say it is claimed, one claim at a time and a    *)
(* bounded number of times; a claim is spent by one message at most; and a *)
(* message is settled, which ends its claims for good, only after somebody *)
(* has read it. A claim may be late: one spent after another was settled   *)
(* repeats the message, and nothing else does.                             *)
(***************************************************************************)
EXTENDS Naturals

CONSTANTS Keys, MaxClaims

VARIABLES
  claims,    \* how often a message was claimed, MaxClaims when it was given up
  said,      \* how often people see it
  settled    \* the messages nobody claims again

contractVars == <<claims, said, settled>>

ContractInit ==
  claims = [k \in Keys |-> 0] /\ said = [k \in Keys |-> 0] /\ settled = {}

Claim(k) ==
  /\ k \notin settled /\ claims[k] < MaxClaims
  /\ claims' = [claims EXCEPT ![k] = @ + 1]
  /\ UNCHANGED <<said, settled>>

Say(k) ==
  /\ said[k] < claims[k]
  /\ said' = [said EXCEPT ![k] = @ + 1]
  /\ UNCHANGED <<claims, settled>>

Settle(k) ==
  /\ said[k] > 0
  /\ settled' = settled \cup {k}
  /\ UNCHANGED <<claims, said>>

(* A refusal for good: a claim comes to nothing, and there will be no more. *)
GiveUp(k) ==
  /\ said[k] < claims[k]
  /\ claims' = [claims EXCEPT ![k] = MaxClaims]
  /\ UNCHANGED <<said, settled>>

ContractNext == \E k \in Keys : Claim(k) \/ Say(k) \/ Settle(k) \/ GiveUp(k)

ContractSpec == ContractInit /\ [][ContractNext]_contractVars
=============================================================================
