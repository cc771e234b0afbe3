---------------------------- MODULE OutboxProofs ----------------------------
EXTENDS Outbox, FiniteSetTheorems, TLAPS

USE ConstantsAssumption

(* A set of names is finite and has a natural number of elements.          *)
LEMMA NamesFinite ==
  ASSUME NEW S \in SUBSET Names
  PROVE  IsFiniteSet(S) /\ Cardinality(S) \in Nat
<1>1. IsFiniteSet(Names)
  BY FS_Interval DEF Names
<1>. QED
  BY <1>1, FS_Subset, FS_CardinalityType

(* Oldest picks from its set.                                              *)
LEMMA OldestSubset ==
  ASSUME NEW S, NEW k
  PROVE  Oldest(S, k) \subseteq S
BY DEF Oldest

-----------------------------------------------------------------------------
(* Type correctness.                                                       *)

LEMMA InitTypeOK == Init => TypeOK
BY DEF Init, TypeOK, IdleHook, IdleDrain, IdleRedrive, IdleReplay, HookState,
       DrainState, RedriveState, ReplayState, Names

LEMMA HookTypeOK ==
  ASSUME TypeOK, NEW h \in Hooks, HookStep(h)
  PROVE  TypeOK'
<1>. USE DEF TypeOK, disk, procs, server, history, HookState, IdleHook
<1>1. CASE TrustEstimate(h)
  BY <1>1 DEF TrustEstimate, SweepTemp
<1>2. CASE Scan(h)
  <2>1. Cardinality(pending) \in Nat
    BY NamesFinite
  <2>. QED
    BY <1>2, <2>1 DEF Scan, SweepTemp
<1>3. CASE Evict(h)
  <2>1. PICK n \in Oldest(hook[h].scan, 1) :
          /\ pending' = pending \ {n}
          /\ torn' = torn \ {n}
          /\ evicted' = evicted \cup (({n} \cap pending) \ HeldNames)
          /\ hook' = [hook EXCEPT ![h] =
               [pc |-> "scanned", scan |-> @.scan \ {n}, name |-> 0,
                total |-> IF n \in pending THEN @.total - 1 ELSE @.total]]
    BY <1>3 DEF Evict
  <2>2. hook' \in [Hooks -> HookState]
    BY <2>1
  <2>3. /\ pending' \subseteq Names /\ torn' \subseteq pending'
        /\ evicted' \subseteq Names
    BY <2>1
  <2>. QED
    BY <1>3, <2>2, <2>3 DEF Evict
<1>4. CASE Admit(h)
  BY <1>4 DEF Admit
<1>5. CASE Overflow(h)
  BY <1>5 DEF Overflow
<1>6. CASE WriteTemp(h)
  <2>1. clock + 1 \in Names /\ clock + 1 \in 0 .. MaxName
    BY <1>6 DEF WriteTemp, Names
  <2>2. hook' \in [Hooks -> HookState]
    BY <1>6, <2>1 DEF WriteTemp
  <2>3. tmp' \subseteq Names /\ clock' \in 0 .. MaxName
    BY <1>6, <2>1 DEF WriteTemp
  <2>. QED
    BY <1>6, <2>2, <2>3 DEF WriteTemp
<1>7. CASE Publish(h)
  BY <1>7 DEF Publish
<1>8. CASE PublishFails(h)
  BY <1>8 DEF PublishFails
<1>9. CASE HookKilled(h)
  BY <1>9 DEF HookKilled
<1>. QED
  BY <1>1, <1>2, <1>3, <1>4, <1>5, <1>6, <1>7, <1>8, <1>9 DEF HookStep

(* The values a step puts into drain have their type.                      *)
LEMMA IdleDrainType == IdleDrain \in DrainState
<1>1. [n \in Names |-> 0] \in [Names -> 0 .. MaxUndecided - 1]
  OBVIOUS
<1>. QED
  BY <1>1 DEF IdleDrain, DrainState

LEMMA AdvanceType ==
  ASSUME TypeOK, NEW d \in Drains, NEW n, Advance(d, n)
  PROVE  drain' \in [Drains -> DrainState] /\ lock' \in Drains \cup {None}
<1>1. drain[d] \in DrainState
  BY DEF TypeOK
<1>2. [drain[d] EXCEPT !.batch = @ \ {n}] \in DrainState
  BY <1>1 DEF DrainState
<1>. QED
  BY <1>2, IdleDrainType DEF TypeOK, Advance

LEMMA DrainTypeOK ==
  ASSUME TypeOK, NEW d \in Drains, DrainStep(d)
  PROVE  TypeOK'
<1>. USE DEF disk, procs, server, history
<1>1. CASE Lease(d)
  <2>1. /\ pending' \subseteq Names /\ torn' \subseteq pending'
        /\ held' \subseteq HeldFile /\ tmp' \subseteq Names
    BY <1>1, OldestSubset DEF TypeOK, Lease, SweepTemp, Quarantined, HeldFile
  <2>2. drain' \in [Drains -> DrainState] /\ lock' \in Drains \cup {None}
    <3>1. CASE UNCHANGED <<drain, lock>>
      BY <3>1 DEF TypeOK
    <3>2. CASE \E batch \in SUBSET Names :
                 /\ lock' = d
                 /\ drain' = [drain EXCEPT ![d] =
                      [pc |-> "sending", batch |-> batch,
                       copy |-> [n \in Names |-> IF n \in batch
                                                   THEN undecided[n] ELSE 0],
                       acc |-> {}, rej |-> {}]]
      <4>1. PICK batch \in SUBSET Names :
              /\ lock' = d
              /\ drain' = [drain EXCEPT ![d] =
                   [pc |-> "sending", batch |-> batch,
                    copy |-> [n \in Names |-> IF n \in batch
                                                THEN undecided[n] ELSE 0],
                    acc |-> {}, rej |-> {}]]
        BY <3>2
      <4>2. [n \in Names |-> IF n \in batch THEN undecided[n] ELSE 0]
              \in [Names -> 0 .. MaxUndecided - 1]
        BY DEF TypeOK
      <4>. QED
        BY <4>1, <4>2 DEF TypeOK, DrainState
    <3>. QED
      <4>1. Oldest(pending, BatchSize) \subseteq Names
        BY OldestSubset DEF TypeOK
      <4>2. \A k : Oldest(Oldest(pending, BatchSize) \ torn, k) \subseteq Names
        BY <4>1, OldestSubset
      <4>. QED
        BY <1>1, <3>1, <3>2, <4>2 DEF Lease
  <2>. QED
    BY <1>1, <2>1, <2>2 DEF TypeOK, Lease
<1>2. CASE Answer(d)
  <2>1. PICK acc \in SUBSET KeysOf(drain[d].batch),
             rej \in SUBSET KeysOf(drain[d].batch) :
          /\ stored' = stored \cup acc
          /\ refused' = refused \cup rej
          /\ drain' = [drain EXCEPT ![d] =
               [pc |-> "applying", batch |-> @.batch, copy |-> @.copy,
                acc |-> acc, rej |-> rej]]
          /\ silent' = [n \in Names |->
               IF n \in drain[d].batch /\ IdOf[n] \notin acc \cup rej
                  /\ silent[n] < MaxUndecided
                 THEN silent[n] + 1 ELSE silent[n]]
    BY <1>2 DEF Answer
  <2>2. drain[d] \in DrainState
    BY DEF TypeOK
  <2>3. acc \subseteq Ids /\ rej \subseteq Ids
    BY <2>2 DEF KeysOf, DrainState
  <2>4. drain' \in [Drains -> DrainState]
    BY <2>1, <2>2, <2>3 DEF TypeOK, DrainState
  <2>5. silent' \in [Names -> 0 .. MaxUndecided]
    BY <2>1 DEF TypeOK
  <2>6. stored' \subseteq Ids /\ refused' \subseteq Ids
    BY <2>1, <2>3 DEF TypeOK
  <2>. QED
    BY <1>2, <2>4, <2>5, <2>6 DEF TypeOK, Answer
<1>3. KeysOf(drain[d].batch) \subseteq Ids
  BY DEF KeysOf, TypeOK, DrainState
<1>4. CASE NoAnswer(d)
  BY <1>3, <1>4, IdleDrainType DEF TypeOK, NoAnswer
<1>5. CASE DrainKilled(d)
  BY <1>3, <1>5, IdleDrainType DEF TypeOK, DrainKilled
<1>6. ASSUME NEW n \in Names, Ack(d, n)
      PROVE  TypeOK'
  BY <1>6, AdvanceType DEF TypeOK, Ack
<1>7. ASSUME NEW n \in Names, Quarantine(d, n)
      PROVE  TypeOK'
  BY <1>7, AdvanceType
     DEF TypeOK, Quarantine, Quarantined, MoveOut, HeldFile
<1>8. ASSUME NEW n \in Names, Rewrite(d, n)
      PROVE  TypeOK'
  <2>1. drain[d].copy[n] + 1 \in 0 .. MaxUndecided - 1
    BY <1>8 DEF TypeOK, DrainState, Rewrite
  <2>2. undecided' \in [Names -> 0 .. MaxUndecided - 1]
    BY <1>8, <2>1 DEF TypeOK, Rewrite
  <2>. QED
    BY <1>8, <2>2, AdvanceType DEF TypeOK, Rewrite
<1>9. ASSUME NEW n \in Names, Park(d, n)
      PROVE  TypeOK'
  BY <1>9, AdvanceType DEF TypeOK, Park, Parked, MoveOut, HeldFile
<1>10. ASSUME NEW n \in Names, LocalError(d, n)
       PROVE  TypeOK'
  BY <1>10, AdvanceType DEF TypeOK, LocalError
<1>. QED
  BY <1>1, <1>2, <1>4, <1>5, <1>6, <1>7, <1>8, <1>9, <1>10
     DEF DrainStep, ApplyTo

LEMMA RedriveTypeOK ==
  ASSUME TypeOK, NEW r \in Redrivers, RedriveStep(r)
  PROVE  TypeOK'
<1>. USE DEF TypeOK, disk, procs, server, history, RedriveState, IdleRedrive
<1>1. CASE List(r)
  BY <1>1 DEF List, Listing, SweepTemp
<1>2. CASE ReadHeld(r)
  BY <1>2 DEF ReadHeld
<1>3. CASE SkipHeld(r)
  BY <1>3 DEF SkipHeld
<1>4. CASE RenameBack(r)
  BY <1>4 DEF RenameBack, HeldFile
<1>5. CASE RemoveSource(r)
  BY <1>5 DEF RemoveSource, HeldFile
<1>6. CASE RedriveEnds(r)
  BY <1>6 DEF RedriveEnds
<1>. QED
  BY <1>1, <1>2, <1>3, <1>4, <1>5, <1>6 DEF RedriveStep

LEMMA ReplayTypeOK ==
  ASSUME TypeOK, NEW y \in Replayers, ReplayStep(y)
  PROVE  TypeOK'
<1>. USE DEF TypeOK, disk, procs, server, history, ReplayState, IdleReplay
<1>1. CASE Pick(y)
  BY <1>1 DEF Pick, QuarantineHead, Listing, SweepTemp
<1>2. CASE ReplayAnswer(y)
  BY <1>2 DEF ReplayAnswer, KeysOf, HeldFile
<1>3. CASE ReplayAck(y)
  BY <1>3 DEF ReplayAck
<1>4. CASE ReplayKilled(y)
  BY <1>4 DEF ReplayKilled
<1>. QED
  BY <1>1, <1>2, <1>3, <1>4 DEF ReplayStep

LEMMA PowerLossTypeOK ==
  ASSUME TypeOK, PowerLoss
  PROVE  TypeOK'
<1>1. drain' \in [Drains -> DrainState] /\ lock' \in Drains \cup {None}
  BY IdleDrainType DEF PowerLoss
<1>2. hook' \in [Hooks -> HookState]
  BY DEF PowerLoss, IdleHook, HookState
<1>3. /\ redrive' \in [Redrivers -> RedriveState]
      /\ replay' \in [Replayers -> ReplayState]
  BY DEF PowerLoss, IdleRedrive, RedriveState, IdleReplay, ReplayState
<1>. QED
  BY <1>1, <1>2, <1>3 DEF PowerLoss, TypeOK, server, history

LEMMA TypeInductive == TypeOK /\ [Next]_vars => TypeOK'
<1>. SUFFICES ASSUME TypeOK, [Next]_vars PROVE TypeOK'
  OBVIOUS
<1>1. CASE UNCHANGED vars
  BY <1>1 DEF TypeOK, vars, disk, procs, server, history
<1>2. CASE Next
  BY <1>2, HookTypeOK, DrainTypeOK, RedriveTypeOK, ReplayTypeOK,
     PowerLossTypeOK DEF Next
<1>. QED
  BY <1>1, <1>2

(* Every variable keeps its type, for every number of files, processes,    *)
(* keys and every setting of the batch, the cutoff and the cap.            *)
THEOREM TypeCorrect == Spec => []TypeOK
BY InitTypeOK, TypeInductive, PTL DEF Spec

-----------------------------------------------------------------------------
(* The inductive invariant.                                                *)

LEMMA InitIInv == Init => IInv
<1>1. Init => TypeOK
  BY InitTypeOK
<1>. QED
  BY <1>1 DEF Init, IInv, LockHeld, VerdictTrue, CopyHonest, OnlyRedriveOrphans,
              LostOnlyByRedrive, QuarantineHasReason, ParkedWasIgnored,
              CounterHonest, IdleDrain, IdleReplay

(* A hook touches neither the drains nor what left pending/.               *)
LEMMA HookIInv ==
  ASSUME IInv, NEW h \in Hooks, HookStep(h)
  PROVE  IInv'
<1>1. TypeOK /\ TypeOK'
  BY HookTypeOK DEF IInv
<1>2. /\ UNCHANGED <<undecided, held, drain, lock, replay, stored, refused,
                     silent, orphaned>>
      /\ \/ UNCHANGED <<pending, published, evicted>>
         \/ Evict(h)
         \/ Publish(h)
  BY DEF HookStep, TrustEstimate, Scan, Evict, Admit, Overflow, WriteTemp,
         Publish, PublishFails, HookKilled, disk, server, history
<1>3. LostOnlyByRedrive'
  <2>1. CASE UNCHANGED <<pending, published, evicted>>
    BY <1>2, <2>1 DEF IInv, LostOnlyByRedrive, OnDisk, HeldNames
  <2>2. CASE Evict(h)
    BY <1>2, <2>2 DEF IInv, LostOnlyByRedrive, OnDisk, HeldNames, Evict
  <2>3. CASE Publish(h)
    BY <1>2, <2>3 DEF IInv, LostOnlyByRedrive, OnDisk, HeldNames, Publish
  <2>. QED
    BY <1>2, <2>1, <2>2, <2>3
<1>. QED
  BY <1>1, <1>2, <1>3
     DEF IInv, LockHeld, VerdictTrue, CopyHonest, OnlyRedriveOrphans,
         QuarantineHasReason, ParkedWasIgnored, CounterHonest

(* Moving past an item keeps the lock, the verdict and the copies honest.   *)
LEMMA AdvanceIInv ==
  ASSUME IInv, NEW d \in Drains, NEW n \in Names, Turn(d, n), Advance(d, n),
         UNCHANGED <<stored, refused, silent, replay>>
  PROVE  LockHeld' /\ VerdictTrue' /\ CopyHonest'
<1>1. drain \in [Drains -> DrainState] /\ drain[d].pc = "applying" /\ lock = d
  BY DEF IInv, TypeOK, LockHeld, Turn
<1>2. \A e \in Drains \ {d} : drain'[e] = drain[e] /\ lock' # e
  BY <1>1 DEF Advance
<1>3. CASE drain[d].batch = {n}
  <2>1. drain'[d] = IdleDrain /\ lock' = None
    BY <1>1, <1>3 DEF Advance
  <2>. QED
    BY <1>1, <1>2, <2>1
       DEF IInv, LockHeld, VerdictTrue, CopyHonest, IdleDrain
<1>4. CASE drain[d].batch # {n}
  <2>1. lock' = lock /\ drain'[d] = [drain[d] EXCEPT !.batch = @ \ {n}]
    BY <1>1, <1>4 DEF Advance
  <2>2. /\ drain'[d].pc = "applying" /\ drain'[d].copy = drain[d].copy
        /\ drain'[d].acc = drain[d].acc /\ drain'[d].rej = drain[d].rej
        /\ drain'[d].batch = drain[d].batch \ {n}
    BY <1>1, <2>1 DEF DrainState
  <2>. QED
    BY <1>1, <1>2, <2>1, <2>2 DEF IInv, LockHeld, VerdictTrue, CopyHonest
<1>. QED
  BY <1>3, <1>4

(* The steps of a delivery cycle.                                          *)
LEMMA DrainIInv ==
  ASSUME IInv, NEW d \in Drains, DrainStep(d)
  PROVE  IInv'
<1>. USE DEF disk, server, history
<1>1. TypeOK /\ TypeOK'
  BY DrainTypeOK DEF IInv
<1>2. CASE Lease(d)
  <2>1. OnlyRedriveOrphans' /\ ParkedWasIgnored' /\ CounterHonest'
    BY <1>2 DEF IInv, Lease, OnlyRedriveOrphans, ParkedWasIgnored,
                CounterHonest, Quarantined
  <2>2. QuarantineHasReason'
    BY <1>2 DEF IInv, Lease, QuarantineHasReason, Quarantined
  <2>3. LostOnlyByRedrive'
    <3>. DEFINE corrupt == Oldest(pending, BatchSize) \cap torn
    <3>2. /\ pending' = pending \ corrupt
          /\ held' = held \cup {Quarantined(n, "corrupt") : n \in corrupt}
      BY <1>2 DEF Lease
    <3>. HIDE DEF corrupt
    <3>3. \A n \in corrupt : n \in HeldNames'
      <4>1. \A n \in corrupt : /\ Quarantined(n, "corrupt") \in held'
                               /\ Quarantined(n, "corrupt").name = n
        BY <3>2 DEF Quarantined
      <4>. QED
        BY <4>1 DEF HeldNames
    <3>1. OnDisk \subseteq OnDisk'
      BY <3>2, <3>3 DEF OnDisk, HeldNames
    <3>. QED
      BY <1>2, <3>1 DEF IInv, Lease, LostOnlyByRedrive
  <2>4. LockHeld' /\ VerdictTrue' /\ CopyHonest'
    <3>1. CASE UNCHANGED <<drain, lock>>
      BY <1>2, <3>1 DEF IInv, Lease, LockHeld, VerdictTrue, CopyHonest
    <3>2. CASE ~ UNCHANGED <<drain, lock>>
      <4>1. PICK batch \in SUBSET Names :
              /\ batch # {}
              /\ lock' = d
              /\ drain' = [drain EXCEPT ![d] =
                   [pc |-> "sending", batch |-> batch,
                    copy |-> [n \in Names |-> IF n \in batch
                                                THEN undecided[n] ELSE 0],
                    acc |-> {}, rej |-> {}]]
        <5>1. \A k : Oldest(Oldest(pending, BatchSize) \ torn, k) \subseteq Names
          BY <1>1, OldestSubset DEF TypeOK
        <5>. QED
          BY <1>2, <3>2, <5>1 DEF Lease
      <4>2. /\ lock = None
            /\ \A e \in Drains \ {d} : drain'[e] = drain[e]
            /\ drain'[d].pc = "sending"
            /\ drain'[d].batch = batch
            /\ \A n \in batch : drain'[d].copy[n] = undecided[n]
        BY <1>1, <1>2, <4>1 DEF TypeOK, Lease
      <4>. QED
        BY <1>2, <4>1, <4>2
           DEF IInv, Lease, LockHeld, VerdictTrue, CopyHonest, CounterHonest
    <3>. QED
      BY <3>1, <3>2
  <2>. QED
    BY <1>1, <2>1, <2>2, <2>3, <2>4 DEF IInv
<1>3. CASE Answer(d)
  <2>1. PICK acc \in SUBSET KeysOf(drain[d].batch),
             rej \in SUBSET KeysOf(drain[d].batch) :
          /\ stored' = stored \cup acc
          /\ refused' = refused \cup rej
          /\ drain' = [drain EXCEPT ![d] =
               [pc |-> "applying", batch |-> @.batch, copy |-> @.copy,
                acc |-> acc, rej |-> rej]]
          /\ silent' = [n \in Names |->
               IF n \in drain[d].batch /\ IdOf[n] \notin acc \cup rej
                  /\ silent[n] < MaxUndecided
                 THEN silent[n] + 1 ELSE silent[n]]
    BY <1>3 DEF Answer
  <2>2. \A n \in Names : silent[n] <= silent'[n]
    BY <1>1, <2>1 DEF TypeOK
  <2>3. /\ \A e \in Drains \ {d} : drain'[e] = drain[e]
        /\ drain'[d].pc = "applying" /\ drain'[d].batch = drain[d].batch
        /\ drain'[d].copy = drain[d].copy
        /\ drain'[d].acc = acc /\ drain'[d].rej = rej
    BY <1>1, <2>1 DEF TypeOK
  <2>4. LockHeld' /\ VerdictTrue'
    BY <1>3, <2>1, <2>3 DEF IInv, Answer, LockHeld, VerdictTrue
  <2>5. CopyHonest'
    <3>1. ASSUME NEW e \in Drains \ {d}, NEW n \in drain[e].batch
          PROVE  drain'[e].batch = {}
      BY <1>3, <2>3 DEF IInv, LockHeld, Answer
    <3>2. ASSUME NEW n \in drain[d].batch
          PROVE  /\ n \in Names
                 /\ drain[d].copy[n] \in 0 .. MaxUndecided - 1
                 /\ drain[d].copy[n] <= silent[n]
                 /\ silent[n] \in 0 .. MaxUndecided
      BY <1>1 DEF IInv, TypeOK, DrainState, CopyHonest
    <3>3. ASSUME NEW n \in drain[d].batch
          PROVE  /\ drain[d].copy[n] <= silent'[n]
                 /\ IdOf[n] \notin acc \cup rej => drain[d].copy[n] < silent'[n]
      BY <2>1, <3>2
    <3>. QED
      BY <2>3, <3>1, <3>3 DEF CopyHonest
  <2>6. CounterHonest' /\ ParkedWasIgnored'
    BY <1>1, <1>3, <2>2 DEF IInv, Answer, TypeOK, CounterHonest,
                            ParkedWasIgnored, HeldFile
  <2>7. OnlyRedriveOrphans' /\ LostOnlyByRedrive' /\ QuarantineHasReason'
    BY <1>3, <2>1 DEF IInv, Answer, OnlyRedriveOrphans, LostOnlyByRedrive,
                      QuarantineHasReason, OnDisk, HeldNames
  <2>. QED
    BY <1>1, <2>4, <2>5, <2>6, <2>7 DEF IInv
<1>4. CASE NoAnswer(d) \/ DrainKilled(d)
  BY <1>1, <1>4
     DEF IInv, OnDisk, HeldNames, NoAnswer, DrainKilled, IdleDrain, TypeOK,
         LockHeld, VerdictTrue, CopyHonest, OnlyRedriveOrphans,
         LostOnlyByRedrive, QuarantineHasReason, ParkedWasIgnored,
         CounterHonest
<1>5. ASSUME NEW n \in Names, Ack(d, n)
      PROVE  IInv'
  <2>1. LockHeld' /\ VerdictTrue' /\ CopyHonest'
    BY <1>5, AdvanceIInv DEF Ack
  <2>2. LostOnlyByRedrive'
    BY <1>5 DEF IInv, Ack, Turn, VerdictTrue, LostOnlyByRedrive, OnDisk,
                HeldNames
  <2>. QED
    BY <1>1, <1>5, <2>1, <2>2
       DEF IInv, Ack, OnlyRedriveOrphans, QuarantineHasReason,
           ParkedWasIgnored, CounterHonest
<1>6. ASSUME NEW n \in Names, Quarantine(d, n)
      PROVE  IInv'
  <2>1. LockHeld' /\ VerdictTrue' /\ CopyHonest'
    BY <1>6, AdvanceIInv DEF Quarantine
  <2>2. PICK tag \in Tags : MoveOut(n, Quarantined(n, tag))
    BY <1>6 DEF Quarantine
  <2>3. OnDisk \subseteq OnDisk'
    BY <2>2 DEF MoveOut, Quarantined, OnDisk, HeldNames
  <2>4. IdOf[n] \in refused
    BY <1>6 DEF IInv, Quarantine, Turn, VerdictTrue
  <2>5. QuarantineHasReason' /\ ParkedWasIgnored'
    BY <1>6, <2>2, <2>4 DEF IInv, Quarantine, MoveOut, Quarantined,
                            QuarantineHasReason, ParkedWasIgnored
  <2>. QED
    BY <1>1, <1>6, <2>1, <2>3, <2>5
       DEF IInv, Quarantine, OnlyRedriveOrphans, LostOnlyByRedrive,
           CounterHonest
<1>7. ASSUME NEW n \in Names, Rewrite(d, n)
      PROVE  IInv'
  <2>1. LockHeld' /\ VerdictTrue' /\ CopyHonest'
    BY <1>7, AdvanceIInv DEF Rewrite
  <2>2. OnDisk \subseteq OnDisk'
    BY <1>7 DEF Rewrite, OnDisk, HeldNames
  <2>3. n \in drain[d].batch
    BY <1>7, OldestSubset DEF Rewrite, Turn
  <2>4. /\ drain[d].copy[n] < silent[n]
        /\ drain[d].copy[n] \in Nat /\ silent[n] \in Nat
    BY <1>1, <1>7, <2>3 DEF IInv, Rewrite, Turn, CopyHonest, TypeOK, DrainState
  <2>5. CounterHonest'
    BY <1>1, <1>7, <2>4 DEF IInv, Rewrite, CounterHonest, TypeOK
  <2>. QED
    BY <1>1, <1>7, <2>1, <2>2, <2>5
       DEF IInv, Rewrite, OnlyRedriveOrphans, LostOnlyByRedrive,
           QuarantineHasReason, ParkedWasIgnored
<1>8. ASSUME NEW n \in Names, Park(d, n)
      PROVE  IInv'
  <2>1. LockHeld' /\ VerdictTrue' /\ CopyHonest'
    BY <1>8, AdvanceIInv DEF Park
  <2>2. OnDisk \subseteq OnDisk'
    BY <1>8 DEF Park, MoveOut, Parked, OnDisk, HeldNames
  <2>3. n \in drain[d].batch
    BY <1>8, OldestSubset DEF Park, Turn
  <2>4. silent[n] >= MaxUndecided
    BY <1>1, <1>8, <2>3 DEF IInv, Park, Turn, CopyHonest, TypeOK, DrainState
  <2>5. ParkedWasIgnored' /\ QuarantineHasReason'
    BY <1>8, <2>4 DEF IInv, Park, MoveOut, Parked, ParkedWasIgnored,
                      QuarantineHasReason
  <2>. QED
    BY <1>1, <1>8, <2>1, <2>2, <2>5
       DEF IInv, Park, OnlyRedriveOrphans, LostOnlyByRedrive, CounterHonest
<1>9. ASSUME NEW n \in Names, LocalError(d, n)
      PROVE  IInv'
  <2>1. LockHeld' /\ VerdictTrue' /\ CopyHonest'
    BY <1>9, AdvanceIInv DEF LocalError
  <2>. QED
    BY <1>1, <1>9, <2>1
       DEF IInv, LocalError, OnlyRedriveOrphans, LostOnlyByRedrive, OnDisk,
           HeldNames, QuarantineHasReason, ParkedWasIgnored, CounterHonest
<1>. QED
  BY <1>2, <1>3, <1>4, <1>5, <1>6, <1>7, <1>8, <1>9 DEF DrainStep, ApplyTo

(* A redrive: only the unlink of a source can cost a last copy.            *)
LEMMA RedriveIInv ==
  ASSUME IInv, NEW r \in Redrivers, RedriveStep(r)
  PROVE  IInv'
<1>. USE DEF disk, server, history
<1>1. TypeOK /\ TypeOK'
  BY RedriveTypeOK DEF IInv
<1>2. /\ LockHeld' /\ VerdictTrue' /\ CopyHonest' /\ OnlyRedriveOrphans'
      /\ QuarantineHasReason' /\ ParkedWasIgnored'
  BY DEF IInv, RedriveStep, List, ReadHeld, SkipHeld, RenameBack, RemoveSource,
         RedriveEnds, LockHeld, VerdictTrue, CopyHonest, OnlyRedriveOrphans,
         QuarantineHasReason, ParkedWasIgnored
<1>3. CounterHonest'
  BY <1>1 DEF IInv, RedriveStep, List, ReadHeld, SkipHeld, RenameBack,
              RemoveSource, RedriveEnds, CounterHonest, TypeOK
<1>4. LostOnlyByRedrive'
  <2>1. CASE RenameBack(r)
    BY <2>1 DEF IInv, RenameBack, LostOnlyByRedrive, OnDisk, HeldNames
  <2>2. CASE RemoveSource(r)
    <3>1. OnDisk \ OnDisk' \subseteq orphaned'
      BY <2>2 DEF RemoveSource, OnDisk, HeldNames
    <3>. QED
      BY <2>2, <3>1 DEF IInv, RemoveSource, LostOnlyByRedrive
  <2>3. CASE List(r) \/ ReadHeld(r) \/ SkipHeld(r) \/ RedriveEnds(r)
    BY <2>3 DEF IInv, List, ReadHeld, SkipHeld, RedriveEnds,
                LostOnlyByRedrive, OnDisk, HeldNames
  <2>. QED
    BY <2>1, <2>2, <2>3 DEF RedriveStep
<1>. QED
  BY <1>1, <1>2, <1>3, <1>4 DEF IInv

(* A replay unlinks what the server has just accepted.                     *)
LEMMA ReplayIInv ==
  ASSUME IInv, NEW y \in Replayers, ReplayStep(y)
  PROVE  IInv'
<1>. USE DEF disk, server, history
<1>1. TypeOK /\ TypeOK'
  BY ReplayTypeOK DEF IInv
<1>2. /\ LockHeld' /\ CopyHonest' /\ OnlyRedriveOrphans'
      /\ QuarantineHasReason' /\ ParkedWasIgnored' /\ CounterHonest'
  BY DEF IInv, ReplayStep, Pick, ReplayAnswer, ReplayAck, ReplayKilled,
         LockHeld, CopyHonest, OnlyRedriveOrphans, QuarantineHasReason,
         ParkedWasIgnored, CounterHonest
<1>3. VerdictTrue'
  <2>1. CASE ReplayAnswer(y)
    <3>1. stored \subseteq stored'
      BY <2>1 DEF ReplayAnswer
    <3>2. \A z \in Replayers \ {y} : replay'[z] = replay[z]
      BY <1>1, <2>1 DEF TypeOK, ReplayAnswer
    <3>3. replay'[y].pc = "accepted" =>
            \A f \in replay'[y].cur : IdOf[f.name] \in stored'
      BY <1>1, <2>1 DEF TypeOK, ReplayAnswer, IdleReplay
    <3>. QED
      BY <2>1, <3>1, <3>2, <3>3 DEF IInv, ReplayAnswer, VerdictTrue
  <2>2. CASE Pick(y) \/ ReplayAck(y) \/ ReplayKilled(y)
    BY <1>1, <2>2 DEF IInv, TypeOK, Pick, ReplayAck, ReplayKilled, VerdictTrue,
                      IdleReplay
  <2>. QED
    BY <2>1, <2>2 DEF ReplayStep
<1>4. LostOnlyByRedrive'
  <2>1. CASE ReplayAck(y)
    BY <2>1 DEF IInv, ReplayAck, VerdictTrue, LostOnlyByRedrive, OnDisk,
                HeldNames
  <2>2. CASE Pick(y) \/ ReplayAnswer(y) \/ ReplayKilled(y)
    BY <2>2 DEF IInv, Pick, ReplayAnswer, ReplayKilled, LostOnlyByRedrive,
                OnDisk, HeldNames
  <2>. QED
    BY <2>1, <2>2 DEF ReplayStep
<1>. QED
  BY <1>1, <1>2, <1>3, <1>4 DEF IInv

LEMMA PowerLossIInv ==
  ASSUME IInv, PowerLoss
  PROVE  IInv'
<1>1. TypeOK /\ TypeOK'
  BY PowerLossTypeOK DEF IInv
<1>. QED
  BY <1>1 DEF IInv, PowerLoss, server, history, LockHeld, VerdictTrue,
              CopyHonest, OnlyRedriveOrphans, LostOnlyByRedrive, OnDisk,
              HeldNames, QuarantineHasReason, ParkedWasIgnored, CounterHonest,
              IdleDrain, IdleReplay

LEMMA NextIInv == IInv /\ [Next]_vars => IInv'
<1>. SUFFICES ASSUME IInv, [Next]_vars PROVE IInv'
  OBVIOUS
<1>1. CASE UNCHANGED vars
  BY <1>1 DEF IInv, vars, disk, procs, server, history, TypeOK, LockHeld,
              VerdictTrue, CopyHonest, OnlyRedriveOrphans, LostOnlyByRedrive,
              OnDisk, HeldNames, QuarantineHasReason, ParkedWasIgnored,
              CounterHonest
<1>2. CASE Next
  BY <1>2, HookIInv, DrainIInv, RedriveIInv, ReplayIInv, PowerLossIInv DEF Next
<1>. QED
  BY <1>1, <1>2

THEOREM Inductive == Spec => []IInv
BY InitIInv, NextIInv, PTL DEF Spec

(* An item Add has published is on disk, stored by the server, evicted by  *)
(* the cap, or had its last copy unlinked by a redrive: nothing else, no   *)
(* crash and no interleaving, loses one.                                   *)
THEOREM LossIsAccounted == Spec => []LostOnlyByRedrive
<1>1. IInv => LostOnlyByRedrive
  BY DEF IInv
<1>. QED
  BY <1>1, Inductive, PTL

(* Where no redrive runs, "nothing is lost until the server has it" holds. *)
THEOREM NoRedriveNoLoss == Redrivers = {} => (Spec => []NothingLost)
<1>1. ASSUME Redrivers = {}
      PROVE  Spec => []NothingLost
  <2>1. IInv => NothingLost
    BY <1>1 DEF IInv, OnlyRedriveOrphans, LostOnlyByRedrive, NothingLost
  <2>. QED
    BY <2>1, Inductive, PTL
<1>. QED
  BY <1>1

(* What lies in quarantine/ was rejected by name or does not parse.        *)
THEOREM QuarantineIsEvidence == Spec => []QuarantineHasReason
<1>1. IInv => QuarantineHasReason
  BY DEF IInv
<1>. QED
  BY <1>1, Inductive, PTL

(* What is parked was ignored by MaxUndecided answers.                     *)
THEOREM ParkingIsEarned == Spec => []ParkedWasIgnored
<1>1. IInv => ParkedWasIgnored
  BY DEF IInv
<1>. QED
  BY <1>1, Inductive, PTL

(* No file is in two delivery cycles at a time.                            *)
THEOREM CyclesAreExclusive == Spec => []SingleFlight
<1>1. IInv => SingleFlight
  <2>. SUFFICES ASSUME IInv, NEW d \in Drains, NEW e \in Drains, d # e
                PROVE  drain[d].batch \cap drain[e].batch = {}
    BY DEF SingleFlight
  <2>1. drain[d].pc = "idle" \/ drain[e].pc = "idle"
    BY DEF IInv, LockHeld
  <2>. QED
    BY <2>1 DEF IInv, LockHeld
<1>. QED
  BY <1>1, Inductive, PTL

-----------------------------------------------------------------------------
(* The outbox implements OutboxContract.                                   *)

(* The inductive invariant of the refinement.                              *)
RInv == IInv /\ FreshNames /\ OnlyPublished

LEMMA InitRInv == Init => RInv
BY InitIInv DEF Init, RInv, FreshNames, OnlyPublished, OnDisk, HeldNames,
                IdleHook, IdleDrain, IdleRedrive, IdleReplay

(* Only WriteTemp hands out a name and only Publish publishes one.         *)
LEMMA NextFreshNames ==
  ASSUME RInv, [Next]_vars
  PROVE  FreshNames'
<1>1. TypeOK /\ TypeOK'
  BY TypeInductive DEF RInv, IInv
<1>2. CASE UNCHANGED <<clock, published, hook>>
  BY <1>2 DEF RInv, FreshNames
<1>3. ASSUME NEW h \in Hooks, HookStep(h)
      PROVE  FreshNames'
  <2>1. /\ \A g \in Hooks \ {h} : hook'[g] = hook[g]
        /\ \/ hook'[h].pc # "written" /\ UNCHANGED <<clock, published>>
           \/ WriteTemp(h)
           \/ Publish(h)
    <3>1. hook[h] \in HookState
      BY <1>1 DEF TypeOK
    <3>2. CASE TrustEstimate(h)
      BY <1>1, <3>1, <3>2 DEF TypeOK, TrustEstimate, HookState, history
    <3>3. CASE Scan(h) \/ Evict(h)
      BY <1>1, <3>3 DEF TypeOK, Scan, Evict, history
    <3>6. CASE Admit(h)
      BY <1>1, <3>6 DEF TypeOK, Admit, IdleHook, history
    <3>4. CASE Overflow(h) \/ PublishFails(h) \/ HookKilled(h)
      BY <1>1, <3>4 DEF TypeOK, Overflow, PublishFails, HookKilled, IdleHook,
                        history
    <3>5. CASE WriteTemp(h) \/ Publish(h)
      BY <1>1, <3>5 DEF TypeOK, WriteTemp, Publish
    <3>. QED
      BY <1>3, <3>2, <3>3, <3>4, <3>5, <3>6 DEF HookStep
  <2>2. CASE hook'[h].pc # "written" /\ UNCHANGED <<clock, published>>
    BY <2>1, <2>2 DEF RInv, FreshNames
  <2>3. CASE WriteTemp(h)
    <3>1. /\ clock' = clock + 1 /\ clock \in Nat
          /\ hook'[h].pc = "written" /\ hook'[h].name = clock + 1
          /\ published' = published
      BY <1>1, <2>3 DEF TypeOK, WriteTemp, history
    <3>. QED
      BY <2>1, <3>1 DEF RInv, FreshNames
  <2>4. CASE Publish(h)
    <3>1. /\ clock' = clock /\ published' = published \cup {hook[h].name}
          /\ hook[h].pc = "written" /\ hook'[h].pc = "idle"
      BY <1>1, <2>4 DEF TypeOK, Publish, IdleHook
    <3>. QED
      BY <2>1, <3>1 DEF RInv, FreshNames
  <2>. QED
    BY <2>1, <2>2, <2>3, <2>4
<1>4. CASE PowerLoss
  BY <1>4 DEF PowerLoss, RInv, FreshNames, IdleHook, history
<1>5. ASSUME NEW d \in Drains, DrainStep(d)
      PROVE  UNCHANGED <<clock, published, hook>>
  BY <1>5 DEF DrainStep, Lease, Answer, NoAnswer, DrainKilled, ApplyTo, Ack,
              Quarantine, Rewrite, Park, LocalError, disk, history
<1>6. ASSUME NEW r \in Redrivers, RedriveStep(r)
      PROVE  UNCHANGED <<clock, published, hook>>
  BY <1>6 DEF RedriveStep, List, ReadHeld, SkipHeld, RenameBack, RemoveSource,
              RedriveEnds, disk, history
<1>7. ASSUME NEW y \in Replayers, ReplayStep(y)
      PROVE  UNCHANGED <<clock, published, hook>>
  BY <1>7 DEF ReplayStep, Pick, ReplayAnswer, ReplayAck, ReplayKilled, disk,
              history
<1>. QED
  BY <1>2, <1>3, <1>4, <1>5, <1>6, <1>7 DEF Next, vars, procs, history

(* A file no process has heard of does not appear in anybody's hands.      *)
LEMMA NextOnlyPublished ==
  ASSUME RInv, [Next]_vars
  PROVE  OnlyPublished'
<1>. USE DEF disk, server, history
<1>1. TypeOK /\ TypeOK'
  BY TypeInductive DEF RInv, IInv
<1>2. ASSUME NEW h \in Hooks, HookStep(h)
      PROVE  OnlyPublished'
  <2>1. CASE Publish(h)
    BY <2>1 DEF RInv, OnlyPublished, OnDisk, HeldNames, Publish
  <2>2. CASE Evict(h)
    BY <2>2 DEF RInv, OnlyPublished, OnDisk, HeldNames, Evict
  <2>3. CASE ~ Publish(h) /\ ~ Evict(h)
    BY <1>2, <2>3
       DEF RInv, OnlyPublished, OnDisk, HeldNames, HookStep, TrustEstimate,
           Scan, Admit, Overflow, WriteTemp, PublishFails, HookKilled
  <2>. QED
    BY <2>1, <2>2, <2>3
<1>3. ASSUME NEW d \in Drains, DrainStep(d)
      PROVE  OnlyPublished'
  <2>1. /\ UNCHANGED <<published, redrive, replay>>
        /\ \A e \in Drains \ {d} : drain'[e] = drain[e]
    BY <1>1, <1>3
       DEF TypeOK, DrainStep, Lease, Answer, NoAnswer, DrainKilled, ApplyTo,
           Ack, Quarantine, Rewrite, Park, LocalError, Advance
  <2>2. drain'[d].batch \subseteq drain[d].batch \cup pending
    <3>1. CASE Lease(d)
      <4>1. \A k, l : Oldest(Oldest(pending, k) \ torn, l) \subseteq pending
        BY OldestSubset
      <4>. QED
        BY <1>1, <3>1, <4>1 DEF TypeOK, Lease
    <3>2. CASE Answer(d) \/ NoAnswer(d) \/ DrainKilled(d)
      BY <1>1, <3>2 DEF TypeOK, Answer, NoAnswer, DrainKilled, IdleDrain
    <3>3. ASSUME NEW n \in Names, Advance(d, n)
          PROVE  drain'[d].batch \subseteq drain[d].batch
      BY <1>1, <3>3 DEF TypeOK, DrainState, Advance, IdleDrain
    <3>. QED
      BY <1>3, <3>1, <3>2, <3>3
         DEF DrainStep, ApplyTo, Ack, Quarantine, Rewrite, Park, LocalError
  <2>3. OnDisk' \subseteq OnDisk \cup drain[d].batch
    <3>1. CASE Lease(d)
      BY <3>1, OldestSubset DEF Lease, OnDisk, HeldNames, Quarantined
    <3>2. ASSUME NEW n \in Names, Turn(d, n)
          PROVE  n \in drain[d].batch
      BY <3>2, OldestSubset DEF Turn
    <3>3. ASSUME NEW n \in Names, Quarantine(d, n) \/ Park(d, n)
          PROVE  OnDisk' \subseteq OnDisk
      BY <3>3 DEF Quarantine, Park, MoveOut, Quarantined, Parked, OnDisk,
                  HeldNames
    <3>4. ASSUME NEW n \in Names, Ack(d, n) \/ Rewrite(d, n) \/ LocalError(d, n)
          PROVE  OnDisk' \subseteq OnDisk \cup drain[d].batch
      BY <3>2, <3>4 DEF Ack, Rewrite, LocalError, OnDisk, HeldNames
    <3>5. CASE Answer(d) \/ NoAnswer(d) \/ DrainKilled(d)
      BY <3>5 DEF Answer, NoAnswer, DrainKilled, OnDisk, HeldNames
    <3>. QED
      BY <1>3, <3>1, <3>3, <3>4, <3>5 DEF DrainStep, ApplyTo
  <2>4. pending \subseteq published /\ drain[d].batch \subseteq published
    BY DEF RInv, OnlyPublished, OnDisk
  <2>. QED
    BY <2>1, <2>2, <2>3, <2>4 DEF RInv, OnlyPublished
<1>4. ASSUME NEW r \in Redrivers, RedriveStep(r)
      PROVE  OnlyPublished'
  <2>1. /\ UNCHANGED <<published, drain, replay>>
        /\ \A q \in Redrivers \ {r} : redrive'[q] = redrive[q]
    BY <1>1, <1>4 DEF TypeOK, RedriveStep, List, ReadHeld, SkipHeld,
                      RenameBack, RemoveSource, RedriveEnds
  <2>2. redrive'[r].list \cup redrive'[r].cur
          \subseteq held \cup redrive[r].list \cup redrive[r].cur
    BY <1>1, <1>4 DEF TypeOK, RedriveState, RedriveStep, List, Listing,
                      ReadHeld, SkipHeld, RenameBack, RemoveSource,
                      RedriveEnds, IdleRedrive
  <2>3. OnDisk' \subseteq OnDisk \cup {f.name : f \in redrive[r].cur}
    BY <1>4 DEF RedriveStep, List, ReadHeld, SkipHeld, RenameBack,
                RemoveSource, RedriveEnds, OnDisk, HeldNames
  <2>4. \A f \in held \cup redrive[r].list \cup redrive[r].cur :
          f.name \in published
    BY DEF RInv, OnlyPublished, OnDisk, HeldNames
  <2>. QED
    BY <2>1, <2>2, <2>3, <2>4 DEF RInv, OnlyPublished
<1>5. ASSUME NEW y \in Replayers, ReplayStep(y)
      PROVE  OnlyPublished'
  <2>1. /\ UNCHANGED <<published, drain, redrive>>
        /\ \A z \in Replayers \ {y} : replay'[z] = replay[z]
    BY <1>1, <1>5 DEF TypeOK, ReplayStep, Pick, ReplayAnswer, ReplayAck,
                      ReplayKilled
  <2>2. replay'[y].cur \subseteq held \cup replay[y].cur
    BY <1>1, <1>5 DEF TypeOK, ReplayStep, Pick, QuarantineHead, Listing,
                      ReplayAnswer, ReplayAck, ReplayKilled, IdleReplay
  <2>3. OnDisk' \subseteq OnDisk
    BY <1>5 DEF ReplayStep, Pick, ReplayAnswer, ReplayAck, ReplayKilled,
                OnDisk, HeldNames
  <2>4. \A f \in held \cup replay[y].cur : f.name \in published
    BY DEF RInv, OnlyPublished, OnDisk, HeldNames
  <2>. QED
    BY <2>1, <2>2, <2>3, <2>4 DEF RInv, OnlyPublished
<1>6. CASE PowerLoss
  BY <1>6 DEF PowerLoss, RInv, OnlyPublished, OnDisk, HeldNames, IdleDrain,
              IdleRedrive, IdleReplay
<1>7. CASE UNCHANGED vars
  BY <1>7 DEF vars, procs, RInv, OnlyPublished, OnDisk, HeldNames
<1>. QED
  BY <1>2, <1>3, <1>4, <1>5, <1>6, <1>7 DEF Next

-----------------------------------------------------------------------------
(* Every step is a step of the contract or stutters.                       *)

(* moveOut never takes the last copy away.                                 *)
LEMMA MoveOutKeepsOnDisk ==
  ASSUME NEW n, NEW file, file.name = n, MoveOut(n, file)
  PROVE  OnDisk' = OnDisk
<1>1. CASE n \in pending
  <2>1. HeldNames' = HeldNames \cup {n}
    BY <1>1 DEF MoveOut, HeldNames
  <2>. QED
    BY <1>1, <2>1 DEF MoveOut, OnDisk
<1>2. CASE n \notin pending
  BY <1>2 DEF MoveOut, OnDisk, HeldNames
<1>. QED
  BY <1>1, <1>2

LEMMA InitRefines == Init => Contract!ContractInit
BY DEF Init, Contract!ContractInit, OnDisk, HeldNames

LEMMA StepRefines ==
  ASSUME RInv, [Next]_vars
  PROVE  [Contract!ContractNext]_(Contract!contractVars)
<1>. USE DEF disk, server, history, Contract!contractVars
<1>1. TypeOK /\ TypeOK' /\ OnlyPublished /\ OnlyPublished'
  BY TypeInductive, NextOnlyPublished DEF RInv, IInv
<1>2. /\ published \cap OnDisk = OnDisk
      /\ (published \cap OnDisk)' = OnDisk'
      /\ OnDisk \subseteq Names /\ published \subseteq Names
  BY <1>1 DEF OnlyPublished, TypeOK
<1>3. ASSUME UNCHANGED <<published, stored, evicted, orphaned>>, OnDisk' = OnDisk
      PROVE  UNCHANGED Contract!contractVars
  BY <1>2, <1>3
<1>4. ASSUME NEW K \in SUBSET Ids, K \subseteq KeysOf(published),
             stored' = stored \cup K, OnDisk' = OnDisk,
             UNCHANGED <<published, evicted, orphaned>>
      PROVE  Contract!ContractNext
  <2>1. Contract!Store(K)
    BY <1>2, <1>4 DEF Contract!Store, KeysOf
  <2>. QED
    BY <2>1 DEF Contract!ContractNext
<1>5. ASSUME NEW n \in Names, OnDisk' = OnDisk \/ OnDisk' = OnDisk \cup {n},
             n \in published,
             UNCHANGED <<published, stored, evicted, orphaned>>
      PROVE  [Contract!ContractNext]_(Contract!contractVars)
  <2>1. CASE OnDisk' = OnDisk
    BY <1>3, <1>5, <2>1
  <2>2. CASE n \notin OnDisk /\ OnDisk' = OnDisk \cup {n}
    BY <1>2, <1>5, <2>2 DEF Contract!ContractNext, Contract!Revive
  <2>. QED
    BY <1>5, <2>1, <2>2
<1>6. ASSUME NEW n \in Names, OnDisk' = OnDisk \/ OnDisk' = OnDisk \ {n},
             IdOf[n] \in stored,
             UNCHANGED <<published, stored, evicted, orphaned>>
      PROVE  [Contract!ContractNext]_(Contract!contractVars)
  <2>1. CASE OnDisk' = OnDisk
    BY <1>3, <1>6, <2>1
  <2>2. CASE n \in OnDisk /\ OnDisk' = OnDisk \ {n}
    BY <1>2, <1>6, <2>2 DEF Contract!ContractNext, Contract!Release
  <2>. QED
    BY <1>6, <2>1, <2>2
<1>7. ASSUME NEW h \in Hooks, HookStep(h)
      PROVE  [Contract!ContractNext]_(Contract!contractVars)
  <2>1. CASE Publish(h)
    <3>1. hook[h].name \in Names \ published
      BY <1>1, <2>1 DEF RInv, FreshNames, Publish, TypeOK, Names
    <3>2. OnDisk' = OnDisk \cup {hook[h].name}
      BY <2>1 DEF Publish, OnDisk, HeldNames
    <3>3. Contract!Capture(hook[h].name)
      BY <1>2, <2>1, <3>1, <3>2 DEF Publish, Contract!Capture
    <3>. QED
      BY <3>1, <3>3 DEF Contract!ContractNext
  <2>2. CASE Evict(h)
    <3>1. PICK n \in Oldest(hook[h].scan, 1) :
            /\ pending' = pending \ {n}
            /\ evicted' = evicted \cup (({n} \cap pending) \ HeldNames)
      BY <2>2 DEF Evict
    <3>2. CASE n \in pending /\ n \notin HeldNames
      <4>1. n \in OnDisk /\ OnDisk' = OnDisk \ {n}
        BY <2>2, <3>1, <3>2 DEF Evict, OnDisk, HeldNames
      <4>2. Contract!Drop(n)
        BY <1>2, <2>2, <3>1, <3>2, <4>1 DEF Evict, Contract!Drop
      <4>. QED
        BY <1>2, <4>1, <4>2 DEF Contract!ContractNext
    <3>3. CASE ~ (n \in pending /\ n \notin HeldNames)
      <4>1. OnDisk' = OnDisk /\ evicted' = evicted
        BY <2>2, <3>1, <3>3 DEF Evict, OnDisk, HeldNames
      <4>. QED
        BY <1>3, <2>2, <4>1 DEF Evict
    <3>. QED
      BY <3>2, <3>3
  <2>3. CASE ~ Publish(h) /\ ~ Evict(h)
    BY <1>3, <1>7, <2>3
       DEF HookStep, TrustEstimate, Scan, Admit, Overflow, WriteTemp,
           PublishFails, HookKilled, OnDisk, HeldNames
  <2>. QED
    BY <2>1, <2>2, <2>3
<1>8. ASSUME NEW d \in Drains, DrainStep(d)
      PROVE  [Contract!ContractNext]_(Contract!contractVars)
  <2>1. KeysOf(drain[d].batch) \subseteq KeysOf(published) \cap Ids
    BY <1>1 DEF OnlyPublished, KeysOf, TypeOK, DrainState
  <2>2. CASE Lease(d)
    <3>. DEFINE corrupt == Oldest(pending, BatchSize) \cap torn
    <3>1. /\ pending' = pending \ corrupt
          /\ held' = held \cup {Quarantined(n, "corrupt") : n \in corrupt}
      BY <2>2 DEF Lease
    <3>2. corrupt \subseteq pending
      BY OldestSubset
    <3>. HIDE DEF corrupt
    <3>3. HeldNames' = HeldNames \cup corrupt
      <4>1. \A n \in corrupt : Quarantined(n, "corrupt").name = n
        BY DEF Quarantined
      <4>2. HeldNames' \subseteq HeldNames \cup corrupt
        BY <3>1, <4>1 DEF HeldNames
      <4>3. HeldNames \cup corrupt \subseteq HeldNames'
        BY <3>1, <4>1 DEF HeldNames
      <4>. QED
        BY <4>2, <4>3
    <3>. QED
      BY <1>3, <2>2, <3>1, <3>2, <3>3 DEF Lease, OnDisk
  <2>3. CASE Answer(d)
    BY <1>4, <2>1, <2>3 DEF Answer, OnDisk, HeldNames
  <2>4. CASE NoAnswer(d)
    BY <1>4, <2>1, <2>4 DEF NoAnswer, OnDisk, HeldNames
  <2>5. CASE DrainKilled(d)
    <3>1. PICK K \in SUBSET KeysOf(drain[d].batch) : stored' = stored \cup K
      BY <2>5 DEF DrainKilled
    <3>. QED
      BY <1>4, <2>1, <2>5, <3>1 DEF DrainKilled, OnDisk, HeldNames
  <2>6. ASSUME NEW n \in Names, Ack(d, n)
        PROVE  [Contract!ContractNext]_(Contract!contractVars)
    <3>1. IdOf[n] \in stored
      BY <2>6 DEF RInv, IInv, VerdictTrue, Ack, Turn
    <3>2. OnDisk' = OnDisk \/ OnDisk' = OnDisk \ {n}
      BY <2>6 DEF Ack, OnDisk, HeldNames
    <3>. QED
      BY <1>6, <2>6, <3>1, <3>2 DEF Ack
  <2>7. ASSUME NEW n \in Names, Quarantine(d, n) \/ Park(d, n)
        PROVE  [Contract!ContractNext]_(Contract!contractVars)
    <3>1. PICK file \in {Quarantined(n, tag) : tag \in Tags} \cup {Parked(n)} :
            MoveOut(n, file)
      BY <2>7 DEF Quarantine, Park
    <3>2. OnDisk' = OnDisk
      BY <3>1, MoveOutKeepsOnDisk DEF Quarantined, Parked
    <3>. QED
      BY <1>3, <2>7, <3>2 DEF Quarantine, Park
  <2>8. ASSUME NEW n \in Names, Rewrite(d, n)
        PROVE  [Contract!ContractNext]_(Contract!contractVars)
    <3>1. OnDisk' = OnDisk \cup {n}
      BY <2>8 DEF Rewrite, OnDisk, HeldNames
    <3>2. n \in published
      BY <1>1, <2>8, OldestSubset DEF Rewrite, Turn, OnlyPublished
    <3>. QED
      BY <1>5, <2>8, <3>1, <3>2 DEF Rewrite
  <2>9. ASSUME NEW n \in Names, LocalError(d, n)
        PROVE  [Contract!ContractNext]_(Contract!contractVars)
    BY <1>3, <2>9 DEF LocalError, OnDisk, HeldNames
  <2>. QED
    BY <1>8, <2>2, <2>3, <2>4, <2>5, <2>6, <2>7, <2>8, <2>9
       DEF DrainStep, ApplyTo
<1>9. ASSUME NEW r \in Redrivers, RedriveStep(r)
      PROVE  [Contract!ContractNext]_(Contract!contractVars)
  <2>1. CASE RenameBack(r)
    <3>1. PICK f \in redrive[r].cur : pending' = pending \cup {f.name}
      BY <2>1 DEF RenameBack
    <3>2. f.name \in published /\ OnDisk' = OnDisk \cup {f.name}
      BY <1>1, <2>1, <3>1 DEF OnlyPublished, RenameBack, OnDisk, HeldNames
    <3>. QED
      BY <1>2, <1>5, <2>1, <3>2 DEF RenameBack
  <2>2. CASE RemoveSource(r)
    <3>1. PICK f \in redrive[r].cur :
            /\ held' = held \ {f}
            /\ orphaned' = IF f \in held /\ f.name \notin pending
                               /\ \A e \in held \ {f} : e.name # f.name
                            THEN orphaned \cup {f.name} ELSE orphaned
      BY <2>2 DEF RemoveSource
    <3>2. CASE f \in held /\ f.name \notin pending
               /\ \A e \in held \ {f} : e.name # f.name
      <4>1. f.name \in OnDisk /\ OnDisk' = OnDisk \ {f.name}
        BY <2>2, <3>1, <3>2 DEF RemoveSource, OnDisk, HeldNames
      <4>2. Contract!Drop(f.name)
        BY <1>2, <2>2, <3>1, <3>2, <4>1 DEF RemoveSource, Contract!Drop
      <4>. QED
        BY <1>2, <4>1, <4>2 DEF Contract!ContractNext
    <3>3. CASE ~ (f \in held /\ f.name \notin pending
                  /\ \A e \in held \ {f} : e.name # f.name)
      <4>1. OnDisk' = OnDisk /\ orphaned' = orphaned
        BY <2>2, <3>1, <3>3 DEF RemoveSource, OnDisk, HeldNames
      <4>. QED
        BY <1>3, <2>2, <4>1 DEF RemoveSource
    <3>. QED
      BY <3>2, <3>3
  <2>3. CASE List(r) \/ ReadHeld(r) \/ SkipHeld(r) \/ RedriveEnds(r)
    BY <1>3, <2>3 DEF List, ReadHeld, SkipHeld, RedriveEnds, OnDisk, HeldNames
  <2>. QED
    BY <1>9, <2>1, <2>2, <2>3 DEF RedriveStep
<1>10. ASSUME NEW y \in Replayers, ReplayStep(y)
       PROVE  [Contract!ContractNext]_(Contract!contractVars)
  <2>1. CASE ReplayAnswer(y)
    <3>1. PICK f \in replay[y].cur :
            stored' = stored \/ stored' = stored \cup {IdOf[f.name]}
      BY <2>1 DEF ReplayAnswer
    <3>2. /\ f.name \in published /\ f.name \in Names
          /\ {IdOf[f.name]} \in SUBSET Ids
      BY <1>1, <1>2 DEF OnlyPublished
    <3>3. OnDisk' = OnDisk /\ UNCHANGED <<published, evicted, orphaned>>
      BY <2>1 DEF ReplayAnswer, OnDisk, HeldNames
    <3>. QED
      BY <1>3, <1>4, <3>1, <3>2, <3>3 DEF KeysOf
  <2>2. CASE ReplayAck(y)
    <3>1. PICK f \in replay[y].cur : held' = held \ {f}
      BY <2>2 DEF ReplayAck
    <3>2. f.name \in Names /\ IdOf[f.name] \in stored
      BY <1>1, <1>2, <2>2 DEF RInv, IInv, VerdictTrue, ReplayAck, OnlyPublished
    <3>3. OnDisk' = OnDisk \/ OnDisk' = OnDisk \ {f.name}
      BY <2>2, <3>1 DEF ReplayAck, OnDisk, HeldNames
    <3>. QED
      BY <1>6, <2>2, <3>2, <3>3 DEF ReplayAck
  <2>3. CASE Pick(y) \/ ReplayKilled(y)
    BY <1>3, <2>3 DEF Pick, ReplayKilled, OnDisk, HeldNames
  <2>. QED
    BY <1>10, <2>1, <2>2, <2>3 DEF ReplayStep
<1>11. CASE PowerLoss
  BY <1>3, <1>11 DEF PowerLoss, OnDisk, HeldNames
<1>12. CASE UNCHANGED vars
  BY <1>3, <1>12 DEF vars, procs, OnDisk, HeldNames
<1>. QED
  BY <1>7, <1>8, <1>9, <1>10, <1>11, <1>12 DEF Next

(* The outbox implements the contract: whatever the processes, the crashes *)
(* and their interleaving, no item leaves the disk before its key is       *)
(* stored, except by the losses the contract names.                        *)
THEOREM OutboxRefines == Spec => ImplementsContract
<1>1. RInv /\ [Next]_vars => RInv'
  BY NextIInv, NextFreshNames, NextOnlyPublished DEF RInv
<1>2. RInv /\ [Next]_vars => [Contract!ContractNext]_(Contract!contractVars)
  BY StepRefines
<1>. QED
  BY InitRInv, InitRefines, <1>1, <1>2, PTL
     DEF Spec, ImplementsContract, Contract!ContractSpec

=============================================================================
