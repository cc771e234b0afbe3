------------------------- MODULE SessionStoreProofs -------------------------
(* For any number of laptops, people, sessions, events and instances, and  *)
(* with no bound on uploads or faults: types, one owner per transcript, a  *)
(* clean session folded from all it stores and counted exactly, every call *)
(* priced once, no record born beside its twin, and every step a step of   *)
(* StoreContract.                                                          *)
EXTENDS SessionStore, FiniteSetTheorems, WellFoundedInduction, TLAPS

USE StoreAssumption

(* A claim holds the row lock and has read an owner that stays true.       *)
ClaimsHold ==
  \A d \in Devices : \A s \in tx[d].owned :
    lock[s] = d /\ row[s].owner \in {None, PersonOf[d]}

(* updated_at never repeats.                                               *)
StampsPast == \A s \in Sessions : row[s].stamp < clock

(* A fold whose session was not touched since its facts were read has read *)
(* what the session still stores.                                          *)
FoldsCurrent ==
  \A i \in Instances :
    LET s == fold[i].s IN
    fold[i].st # "idle" /\ s \notin OldSessions =>
      /\ s \in Sessions /\ Exists(s) /\ fold[i].stamp <= row[s].stamp
      /\ fold[i].st = "read" /\ row[s].stamp = fold[i].stamp
           => fold[i].read = CopiesIn(s)

(* What a clean session promises, for one that is not being removed.       *)
CleanOK(s) ==
  Exists(s) /\ ~row[s].dirty =>
    turns[s] = CopiesIn(s) /\ row[s].content = Content(Stored \cap In(s))

StoreInv ==
  /\ TypeOK
  /\ ClaimsHold
  /\ OneOwner
  /\ StampsPast
  /\ FoldsCurrent
  /\ \A s \in Sessions \ OldSessions : CleanOK(s)
  /\ CostIsLedger

-----------------------------------------------------------------------------
LEMMA NatOrder ==
  \E R : IsWellFoundedOn(R, Nat) /\ \A x, y \in Nat : x < y => <<x, y>> \in R
<1>. DEFINE R == OpToRel(<, Nat)
<1>1. \A x, y \in Nat : x < y => <<x, y>> \in R
  BY DEF OpToRel
<1>2. IsWellFoundedOn(R, Nat)
  BY NatLessThanWellFounded
<1>. HIDE DEF R
<1>. QED
  BY <1>1, <1>2

(* A set of naturals has a least element, and a bounded one a greatest.    *)
LEMMA LeastExists ==
  ASSUME NEW S, S \subseteq Nat, S # {}
  PROVE  Least(S) \in S /\ \A y \in S : Least(S) <= y
<1>1. PICK R : IsWellFoundedOn(R, Nat) /\ \A x, y \in Nat : x < y => <<x, y>> \in R
  BY NatOrder
<1>2. IsWellFoundedOn(R, Nat)
  BY <1>1
<1>3. \E x \in S : \A y \in S : ~(<<y, x>> \in R)
  BY <1>2, WFMin
<1>4. PICK x \in S : \A y \in S : ~(<<y, x>> \in R)
  BY <1>3
<1>5. ASSUME NEW y \in S
      PROVE  x <= y
  <2>1. x \in Nat /\ y \in Nat /\ ~(<<y, x>> \in R)
    BY <1>4
  <2>2. ~(y < x)
    BY <2>1, <1>1
  <2>. QED
    BY <2>1, <2>2
<1>. QED
  BY <1>5 DEF Least

LEMMA GreatestExists ==
  ASSUME NEW S, NEW n \in Nat, S \subseteq 0 .. n, S # {}
  PROVE  Greatest(S) \in S /\ \A y \in S : y <= Greatest(S)
<1>. DEFINE T == {n - x : x \in S}
<1>1. T \subseteq Nat
  OBVIOUS
<1>2. T # {}
  OBVIOUS
<1>3. Least(T) \in T /\ \A y \in T : Least(T) <= y
  <2>. HIDE DEF T
  <2>. QED
    BY <1>1, <1>2, LeastExists
<1>4. PICK x \in S : Least(T) = n - x
  BY <1>3
<1>5. \A y \in S : y <= x
  <2>1. \A y \in S : n - x <= n - y
    BY <1>3, <1>4
  <2>. QED
    BY <2>1
<1>. QED
  BY <1>5 DEF Greatest
(* Least and greatest of the sets the actions take them of.                *)
LEMMA CopyParts ==
  \A c \in Copies : c[1] \in Events /\ c[2] \in Nat \ {0} /\ SessionOf[c[1]] \in Sessions
OBVIOUS

LEMMA VersionType ==
  ASSUME TypeOK, NEW ix \in BOOLEAN, NEW B \in SUBSET Copies, NEW f \in Events
  PROVE  VersionAfter(ix, B, f) \in Nat
<1>. DEFINE n == MaxVersion
            m == IF version[f] > n THEN version[f] ELSE n
            S == {version[f]} \cup Offered(ix, B, f)
<1>2. m \in Nat /\ version[f] \in 0 .. m /\ n <= m
  BY DEF TypeOK
<1>3. S \subseteq 0 .. m /\ S # {}
  <2>1. \A c \in B : c[2] \in 1 .. n
    OBVIOUS
  <2>. QED
    BY <2>1, <1>2 DEF Offered, Matched
<1>4. Greatest(S) \in S
  <2>. HIDE DEF S, m
  <2>. QED
    BY <1>2, <1>3, GreatestExists
<1>. QED
  BY <1>3, <1>4, <1>2 DEF VersionAfter

LEMMA NextClaim ==
  ASSUME TypeOK, NEW d \in Devices, Unclaimed(d) # {}
  PROVE  Least(Unclaimed(d)) \in Unclaimed(d) /\ Least(Unclaimed(d)) \in Sessions
<1>1. Unclaimed(d) \subseteq Sessions
  BY CopyParts DEF Unclaimed, TypeOK
<1>2. Unclaimed(d) \subseteq Nat
  BY <1>1
<1>. QED
  BY <1>1, <1>2, LeastExists

LEMMA OldestDue ==
  ASSUME TypeOK, NEW i \in Instances, Due(i) # {}
  PROVE  Oldest(Due(i)) \in Due(i) /\ Oldest(Due(i)) \in Sessions
<1>1. Due(i) \subseteq Sessions
  BY DEF Due
<1>. DEFINE S == {row[s].stamp : s \in Due(i)}
<1>2. S \subseteq Nat
  <2>1. \A s \in Sessions : row[s].stamp \in Nat
    BY DEF TypeOK
  <2>. QED
    BY <1>1, <2>1
<1>3. S # {}
  OBVIOUS
<1>4. Least(S) \in S /\ \A y \in S : Least(S) <= y
  <2>. HIDE DEF S
  <2>. QED
    BY <1>2, <1>3, LeastExists
<1>5. PICK s \in Due(i) : row[s].stamp = Least(S)
  BY <1>4
<1>6. \A u \in Due(i) : row[s].stamp <= row[u].stamp
  <2>1. \A u \in Due(i) : row[u].stamp \in S
    OBVIOUS
  <2>. HIDE DEF S
  <2>. QED
    BY <1>4, <1>5, <2>1
<1>. QED
  BY <1>1, <1>6 DEF Oldest

(* A batch's new rows are its own, and of sessions that are its own.       *)
Carriers(B, c) == {SessionOf[k[1]] : k \in {x \in B : CallOf[RecordOf[x[1]]] = c}}

(* A call that is filed keeps its session, and one that is filed now goes  *)
(* to a session of the batch.                                              *)
LEMMA CreditOf ==
  ASSUME TypeOK, NEW B \in SUBSET Copies, NEW c \in Calls
  PROVE  /\ ledger[c] # None => Credit(B)[c] = ledger[c]
         /\ ledger[c] = None =>
              \/ Credit(B)[c] = None
              \/ Credit(B)[c] \in Sessions /\ \E k \in B : SessionOf[k[1]] = Credit(B)[c]
<1>. DEFINE from == Carriers(B, c)
<1>1. Credit(B)[c] = IF ledger[c] = None /\ from # {} THEN Least(from) ELSE ledger[c]
  BY DEF Credit, Carriers
<1>2. from \subseteq Sessions /\ \A s \in from : \E k \in B : SessionOf[k[1]] = s
  BY CopyParts DEF Carriers
<1>3. from # {} => Least(from) \in from
  <2>1. from \subseteq Nat
    BY <1>2
  <2>. HIDE DEF from
  <2>. QED
    BY <2>1, LeastExists
<1>. HIDE DEF from
<1>. QED
  BY <1>1, <1>2, <1>3

LEMMA CreditType ==
  ASSUME TypeOK, NEW B \in SUBSET Copies
  PROVE  Credit(B) \in [Calls -> Sessions \cup {None}]
<1>1. \A c \in Calls : Credit(B)[c] \in Sessions \cup {None}
  BY CreditOf DEF TypeOK
<1>2. Credit(B) = [c \in Calls |-> Credit(B)[c]]
  BY DEF Credit
<1>. QED
  BY <1>1, <1>2

LEMMA Finite ==
  /\ \A S \in SUBSET Events : IsFiniteSet(S) /\ Cardinality(S) \in Nat
  /\ \A S \in SUBSET Calls : IsFiniteSet(S) /\ Cardinality(S) \in Nat
<1>. DEFINE f == [e \in Events |-> CallOf[RecordOf[e]]]
<1>1. f \in Surjection(Events, Calls)
  BY DEF Surjection, Calls
<1>2. IsFiniteSet(Calls)
  <2>. HIDE DEF f
  <2>. QED
    BY <1>1, FS_Surjection
<1>3. ASSUME NEW T, IsFiniteSet(T), NEW S \in SUBSET T
      PROVE  IsFiniteSet(S) /\ Cardinality(S) \in Nat
  BY <1>3, FS_Subset, FS_CardinalityType
<1>. QED
  BY <1>2, <1>3

-----------------------------------------------------------------------------
(* Types.                                                                  *)
LEMMA BatchType ==
  ASSUME TypeOK, NEW d \in Devices
  PROVE  Admitted(d) \in SUBSET Copies
BY DEF Admitted, TypeOK

LEMMA DeltaType ==
  ASSUME TypeOK, NEW ix \in BOOLEAN, NEW B \in SUBSET Copies, NEW s \in Sessions
  PROVE  Delta(ix, B, s) \in [content : Nat, cost : Nat]
<1>1. Fresh(ix, B) \cap In(s) \in SUBSET Events /\ Credited(B, s) \in SUBSET Calls
  BY DEF In, Credited
<1>. QED
  BY <1>1, Finite DEF Delta

LEMMA RowType ==
  ASSUME TypeOK, NEW d \in Devices, NEW ix \in BOOLEAN, NEW s \in Sessions
  PROVE  RowAfter(d, ix, Admitted(d), s) \in
           [owner : {PersonOf[x] : x \in Devices} \cup {None},
            dirty : BOOLEAN, stamp : Nat, content : Nat, cost : Nat]
<1>1. Delta(ix, Admitted(d), s).content \in Nat /\ Delta(ix, Admitted(d), s).cost \in Nat
  BY BatchType, DeltaType
<1>2. /\ row[s].dirty \in BOOLEAN /\ row[s].stamp \in Nat /\ row[s].content \in Nat
      /\ row[s].cost \in Nat /\ clock \in Nat
  BY DEF TypeOK
<1>3. Touched(ix, Admitted(d), s) \in BOOLEAN
  BY DEF Touched
<1>. QED
  BY <1>1, <1>2, <1>3 DEF RowAfter

LEMMA CommitType ==
  ASSUME TypeOK, NEW d \in Devices, NEW ix \in BOOLEAN, Commit(d, ix)
  PROVE  TypeOK'
<1>. DEFINE B == Admitted(d)
<1>1. version' \in [Events -> Nat]
  BY BatchType, VersionType DEF Commit
<1>2. Fresh(ix, B) \subseteq Events /\ Moved(ix, B) \subseteq Events
  BY BatchType, CopyParts DEF Fresh, Moved, Stored
<1>3. email' \in [Events -> {PersonOf[x] : x \in Devices} \cup {None}]
  BY DEF Commit, TypeOK
<1>4. row' \in [Sessions -> [owner : {PersonOf[x] : x \in Devices} \cup {None},
                             dirty : BOOLEAN, stamp : Nat, content : Nat, cost : Nat]]
  <2>1. \A s \in Sessions : row'[s] \in {RowAfter(d, ix, B, s), row[s]}
    BY DEF Commit
  <2>2. row' = [s \in Sessions |-> row'[s]]
    BY DEF Commit
  <2>3. \A s \in Sessions : row'[s] \in
          [owner : {PersonOf[x] : x \in Devices} \cup {None},
           dirty : BOOLEAN, stamp : Nat, content : Nat, cost : Nat]
    <3>1. \A s \in Sessions : row[s] \in
            [owner : {PersonOf[x] : x \in Devices} \cup {None},
             dirty : BOOLEAN, stamp : Nat, content : Nat, cost : Nat]
      BY DEF TypeOK
    <3>2. \A s \in Sessions : RowAfter(d, ix, B, s) \in
            [owner : {PersonOf[x] : x \in Devices} \cup {None},
             dirty : BOOLEAN, stamp : Nat, content : Nat, cost : Nat]
      BY RowType
    <3>. HIDE DEF B
    <3>. QED
      BY <2>1, <3>1, <3>2
  <2>. QED
    BY <2>2, <2>3
<1>5. ledger' \in [Calls -> Sessions \cup {None}]
  BY BatchType, CreditType DEF Commit
<1>6. lock' \in [Sessions -> Devices \cup {None}]
  BY DEF Commit, Release, TypeOK
<1>7. tx' \in [Devices -> [st : {"idle", "open"}, batch : SUBSET Copies,
                           claimed : SUBSET Sessions, owned : SUBSET Sessions]]
  BY DEF Commit, Idle, TypeOK
<1>. QED
  BY <1>1, <1>2, <1>3, <1>4, <1>5, <1>6, <1>7 DEF Commit, TypeOK

LEMMA ContentType ==
  ASSUME NEW S, S \subseteq Events
  PROVE  Content(S) \in Nat
BY Finite DEF Content, Superseded

LEMMA FoldType ==
  ASSUME TypeOK, NEW i \in Instances, Tick(i)
  PROVE  TypeOK'
<1>. DEFINE Folds == [st : {"idle", "facts", "read"}, s : Sessions \cup {None},
                      stamp : Nat, read : SUBSET (Events \X Nat)]
<1>0. NoFold \in Folds
  BY DEF NoFold
<1>1. CASE Pass(i)
  <2>1. fold' \in [Instances -> Folds]
    <3>1. Due(i) # {} => row[Oldest(Due(i))].stamp \in Nat
      BY OldestDue DEF TypeOK
    <3>. QED
      BY <1>0, <1>1, <3>1, OldestDue DEF Pass, TypeOK
  <2>2. \A j \in Instances : fold'[j].st # "idle" => fold'[j].s \in Sessions
    BY <1>1, OldestDue DEF Pass, NoFold, TypeOK
  <2>3. parked' \in [Instances -> SUBSET Sessions]
    BY <1>1 DEF Pass, TypeOK
  <2>. QED
    BY <1>1, <2>1, <2>2, <2>3 DEF Pass, TypeOK, events, upload
<1>2. CASE FoldRead(i)
  <2>1. CopiesIn(fold[i].s) \in SUBSET (Events \X Nat)
    BY DEF CopiesIn, Stored, TypeOK
  <2>2. fold' \in [Instances -> Folds]
    <3>. DEFINE g == [st |-> "read", s |-> fold[i].s, stamp |-> fold[i].stamp,
                      read |-> CopiesIn(fold[i].s)]
    <3>1. g \in Folds
      BY <2>1 DEF TypeOK
    <3>2. fold' = [fold EXCEPT ![i] = g]
      BY <1>2 DEF FoldRead
    <3>. QED
      BY <3>1, <3>2 DEF TypeOK
  <2>. QED
    BY <1>2, <2>2 DEF FoldRead, TypeOK, events, upload
<1>3. CASE FoldCommit(i)
  <2>. DEFINE s == fold[i].s
              n == Content({c[1] : c \in fold[i].read})
              r == [owner |-> row[s].owner, dirty |-> row[s].stamp # fold[i].stamp,
                    stamp |-> Bumped(s, n),
                    content |-> n, cost |-> row[s].cost]
  <2>1. fold[i].read \in SUBSET (Events \X Nat) /\ s \in Sessions
    BY <1>3 DEF FoldCommit, TypeOK
  <2>2. n \in Nat
    BY <2>1, ContentType
  <2>3. row' = [row EXCEPT ![s] = r]
    BY <1>3, <2>1 DEF FoldCommit
  <2>4. row' \in [Sessions -> [owner : {PersonOf[x] : x \in Devices} \cup {None},
                               dirty : BOOLEAN, stamp : Nat, content : Nat, cost : Nat]]
    BY <2>1, <2>2, <2>3 DEF TypeOK, Bumped
  <2>5. clock' \in Nat
    <3>1. clock' \in {clock, clock + 1}
      BY <1>3 DEF FoldCommit
    <3>. QED
      BY <3>1 DEF TypeOK
  <2>7. fold' \in [Instances -> Folds]
    BY <1>0, <1>3 DEF FoldCommit, TypeOK
  <2>6. turns' \in [Sessions -> SUBSET (Events \X Nat)]
    BY <1>3, <2>1 DEF FoldCommit, TypeOK
  <2>. QED
    BY <1>3, <2>4, <2>5, <2>6, <2>7 DEF FoldCommit, NoFold, TypeOK, events, upload
<1>4. CASE FoldFail(i)
  <2>1. fold' \in [Instances -> Folds]
    BY <1>0, <1>4 DEF FoldFail, TypeOK
  <2>2. used' \in [uploads : Nat, faults : Nat]
    <3>1. used.uploads \in Nat /\ used.faults \in Nat
      BY DEF TypeOK
    <3>2. [used EXCEPT !.faults = @ + 1]
          = [uploads |-> used.uploads, faults |-> used.faults + 1]
      BY DEF TypeOK
    <3>. QED
      BY <1>4, <3>1, <3>2 DEF FoldFail, TypeOK
  <2>3. \A j \in Instances : fold'[j].st # "idle" => fold'[j].s \in Sessions
    BY <1>4 DEF FoldFail, NoFold, TypeOK
  <2>4. parked' \in [Instances -> SUBSET Sessions]
    BY <1>4 DEF FoldFail, TypeOK
  <2>. QED
    BY <1>4, <2>1, <2>2, <2>3, <2>4 DEF FoldFail, TypeOK, events, upload
<1>. QED
  BY <1>1, <1>2, <1>3, <1>4 DEF Tick

LEMMA TypeStep ==
  ASSUME TypeOK, Next
  PROVE  TypeOK'
<1>1. ASSUME NEW d \in Devices, Upload(d)
      PROVE  TypeOK'
  <2>1. CASE Begin(d)
    <3>1. used' = [uploads |-> used.uploads + 1, faults |-> used.faults]
      BY <2>1 DEF Begin, TypeOK
    <3>2. used' \in [uploads : Nat, faults : Nat]
      BY <3>1 DEF TypeOK
    <3>. QED
      BY <2>1, <3>2 DEF Begin, TypeOK, events
  <2>2. CASE Claim(d)
    <3>. DEFINE s == Least(Unclaimed(d))
    <3>1. s \in Sessions
      BY <2>2, NextClaim DEF Claim
    <3>2. WithClaim(d, s) \in [st : {"idle", "open"}, batch : SUBSET Copies,
                               claimed : SUBSET Sessions, owned : SUBSET Sessions]
      BY <3>1 DEF WithClaim, TypeOK
    <3>3. lock' = [lock EXCEPT ![s] = d] /\ tx' = [tx EXCEPT ![d] = WithClaim(d, s)]
      BY <2>2 DEF Claim
    <3>. HIDE DEF s
    <3>4. /\ lock' \in [Sessions -> Devices \cup {None}]
          /\ tx' \in [Devices -> [st : {"idle", "open"}, batch : SUBSET Copies,
                                claimed : SUBSET Sessions, owned : SUBSET Sessions]]
      BY <3>1, <3>2, <3>3 DEF TypeOK
    <3>. QED
      BY <2>2, <3>4 DEF Claim, TypeOK, events
  <2>3. CASE Abort(d)
    BY <2>3 DEF Abort, Release, Idle, TypeOK, events
  <2>. QED
    BY <1>1, <2>1, <2>2, <2>3, CommitType DEF Upload, Commits
<1>2. CASE Versioned
  <2>. USE DEF TypeOK, events, upload
  <2>1. CASE RebuildRead
    <3>1. rebuild' = [st |-> "read", s |-> rebuild.s,
                      read |-> Changes \cap In(rebuild.s) \cap full]
      BY <2>1 DEF RebuildRead
    <3>. QED
      BY <2>1, <3>1 DEF RebuildRead
  <2>2. CASE RebuildWrite
    <3>1. rebuild' = [st |-> "idle", s |-> rebuild.s, read |-> {}]
      BY <2>2 DEF RebuildWrite
    <3>. QED
      BY <2>2, <3>1 DEF RebuildWrite
  <2>3. ASSUME NEW s \in Sessions, RebuildProbe(s)
        PROVE  TypeOK'
    BY <2>3 DEF RebuildProbe
  <2>. QED
    BY <1>2, <2>1, <2>2, <2>3 DEF Versioned
<1>3. ASSUME NEW e \in Events, Expire(e)
      PROVE  TypeOK'
  BY <1>3 DEF Expire, TypeOK, upload
<1>4. ASSUME NEW s \in Sessions, DeleteSlice(s)
      PROVE  TypeOK'
  <2>1. CASE Stored \cap In(s) # {}
    <3>1. PICK e \in Stored \cap In(s) :
            /\ version' = [version EXCEPT ![e] = 0]
            /\ email' = [email EXCEPT ![e] = None]
            /\ full' = full \ {e} /\ expired' = expired \ {e} /\ art' = art \ {e}
            /\ twins' = twins \ {e}
            /\ UNCHANGED <<row, turns, ledger>>
      BY <1>4, <2>1 DEF DeleteSlice
    <3>2. /\ UNCHANGED <<lock, tx, fold, parked, rebuild, clock, used>>
          /\ e \in Events
      BY <1>4, <3>1 DEF DeleteSlice, upload, In
    <3>3. /\ version' \in [Events -> Nat]
          /\ email' \in [Events -> {PersonOf[x] : x \in Devices} \cup {None}]
      BY <3>1, <3>2 DEF TypeOK
    <3>. QED
      BY <3>1, <3>2, <3>3 DEF TypeOK
  <2>2. CASE Stored \cap In(s) = {}
    <3>1. ledger' \in [Calls -> Sessions \cup {None}]
      BY <1>4, <2>2 DEF DeleteSlice, TypeOK
    <3>2. NoRow \in [owner : {PersonOf[x] : x \in Devices} \cup {None},
                    dirty : BOOLEAN, stamp : Nat, content : Nat, cost : Nat]
      BY DEF NoRow
    <3>3. row' = [row EXCEPT ![s] = NoRow] /\ turns' = [turns EXCEPT ![s] = {}]
      BY <1>4, <2>2 DEF DeleteSlice
    <3>. QED
      BY <1>4, <2>2, <3>1, <3>2, <3>3 DEF DeleteSlice, TypeOK, upload, events
  <2>. QED
    BY <2>1, <2>2
<1>. QED
  BY <1>1, <1>2, <1>3, <1>4, FoldType DEF Next, Sweep

-----------------------------------------------------------------------------
(* Steps that write no event, no row and no claim.                         *)
Quiet == UNCHANGED <<version, email, row, turns, ledger, lock, clock>>

LEMMA QuietSteps ==
  /\ \A d \in Devices : Begin(d) => Quiet /\ UNCHANGED fold
  /\ \A i \in Instances : Pass(i) \/ FoldRead(i) \/ FoldFail(i) => Quiet /\ UNCHANGED tx
  /\ Versioned => Quiet /\ UNCHANGED <<tx, fold>>
  /\ \A e \in Events : Expire(e) => Quiet /\ UNCHANGED <<tx, fold>>
<1>1. \A d \in Devices : Begin(d) => Quiet /\ UNCHANGED fold
  BY DEF Begin, Quiet, events
<1>2. \A i \in Instances : Pass(i) \/ FoldRead(i) \/ FoldFail(i) => Quiet /\ UNCHANGED tx
  BY DEF Pass, FoldRead, FoldFail, Quiet, events, upload
<1>3. Versioned => Quiet /\ UNCHANGED <<tx, fold>>
  BY DEF Versioned, RebuildProbe, RebuildRead, RebuildWrite, Quiet, events, upload
<1>4. \A e \in Events : Expire(e) => Quiet /\ UNCHANGED <<tx, fold>>
  BY DEF Expire, Quiet, upload
<1>. QED
  BY <1>1, <1>2, <1>3, <1>4

(* Owners: a claim is released only with its transaction, nobody else      *)
(* claims meanwhile, and only the holder or the sweep writes an owner.     *)
LEMMA OwnersStep ==
  ASSUME TypeOK, ClaimsHold, OneOwner, Next
  PROVE  ClaimsHold' /\ OneOwner'
<1>1. ASSUME NEW d \in Devices, Begin(d)
      PROVE  ClaimsHold' /\ OneOwner'
  <2>1. \A x \in Devices : tx'[x].owned \subseteq tx[x].owned
    BY <1>1 DEF Begin, TypeOK
  <2>. QED
    BY <1>1, <2>1, QuietSteps DEF Quiet, ClaimsHold, OneOwner, Stored
<1>2. ASSUME NEW d \in Devices, Claim(d)
      PROVE  ClaimsHold' /\ OneOwner'
  <2>. DEFINE s == Least(Unclaimed(d))
  <2>1. /\ s \in Sessions /\ lock[s] = None
        /\ lock' = [lock EXCEPT ![s] = d] /\ tx' = [tx EXCEPT ![d] = WithClaim(d, s)]
        /\ UNCHANGED <<row, version, email>>
    BY <1>2, NextClaim DEF Claim, events
  <2>. HIDE DEF s
  <2>2. ClaimsHold'
    <3>1. ASSUME NEW x \in Devices, NEW u \in tx[x].owned
          PROVE  lock'[u] = x
      BY <2>1 DEF ClaimsHold, TypeOK
    <3>2. \A x \in Devices :
            tx'[x].owned = IF x = d THEN WithClaim(d, s).owned ELSE tx[x].owned
      BY <2>1 DEF TypeOK
    <3>3. ASSUME NEW x \in Devices, NEW u \in tx'[x].owned, u \notin tx[x].owned
          PROVE  x = d /\ u = s /\ row[s].owner \in {None, PersonOf[d]}
      <4>1. x = d /\ u \in WithClaim(d, s).owned /\ u \notin tx[d].owned
        BY <3>2, <3>3
      <4>. QED
        BY <4>1 DEF WithClaim
    <3>4. ASSUME NEW x \in Devices, NEW u \in tx'[x].owned
          PROVE  lock'[u] = x /\ row'[u].owner \in {None, PersonOf[x]}
      <4>1. CASE u \in tx[x].owned
        BY <2>1, <3>1, <4>1 DEF ClaimsHold
      <4>2. CASE u \notin tx[x].owned
        BY <2>1, <3>3, <4>2 DEF TypeOK
      <4>. QED
        BY <4>1, <4>2
    <3>. QED
      BY <3>4 DEF ClaimsHold
  <2>. QED
    BY <2>1, <2>2 DEF OneOwner, Stored
<1>3. ASSUME NEW d \in Devices, NEW ix \in BOOLEAN, Commit(d, ix)
      PROVE  ClaimsHold' /\ OneOwner'
  <2>. DEFINE B == Admitted(d)
              mine == {SessionOf[c[1]] : c \in B}
  <2>1. mine \subseteq tx[d].owned
    BY DEF Admitted
  <2>2. ASSUME NEW s \in Sessions
        PROVE  row'[s].owner = IF s \in mine THEN PersonOf[d] ELSE row[s].owner
    BY <1>3 DEF Commit, RowAfter
  <2>3. ASSUME NEW x \in Devices, x # d, NEW s \in tx[x].owned
        PROVE  lock'[s] = x /\ row'[s].owner = row[s].owner
    <3>0. s \in Sessions
      BY <2>3 DEF TypeOK
    <3>1. s \in Sessions /\ lock[s] = x /\ s \notin tx[d].owned
      BY <2>3, <3>0 DEF ClaimsHold
    <3>2. lock'[s] = x
      BY <1>3, <2>3, <3>1 DEF Commit, Release
    <3>. QED
      BY <2>1, <2>2, <3>1, <3>2
  <2>4. \A x \in Devices : tx'[x].owned = IF x = d THEN {} ELSE tx[x].owned
    BY <1>3 DEF Commit, Idle, TypeOK
  <2>5. ClaimsHold'
    BY <2>3, <2>4 DEF ClaimsHold
  <2>6. ASSUME NEW e \in Events, version'[e] # 0
        PROVE  email'[e] = row'[SessionOf[e]].owner /\ email'[e] # None
    <3>1. e \in Stored \cup Fresh(ix, B)
      BY <1>3, <2>6 DEF Commit, VersionAfter
    <3>2. email'[e] = IF e \in Fresh(ix, B) THEN PersonOf[d] ELSE email[e]
      BY <1>3 DEF Commit
    <3>3. CASE e \in Fresh(ix, B)
      <4>1. SessionOf[e] \in mine
        BY <3>3 DEF Fresh
      <4>. QED
        BY <2>2, <3>2, <3>3, <4>1
    <3>4. CASE e \notin Fresh(ix, B)
      <4>1. email[e] = row[SessionOf[e]].owner /\ email[e] # None
        BY <3>1, <3>4 DEF OneOwner
      <4>2. SessionOf[e] \in mine => row[SessionOf[e]].owner \in {None, PersonOf[d]}
        BY <2>1 DEF ClaimsHold
      <4>. QED
        BY <2>2, <3>2, <3>4, <4>1, <4>2
    <3>. QED
      BY <3>3, <3>4
  <2>. QED
    BY <2>5, <2>6 DEF OneOwner, Stored
<1>4. ASSUME NEW d \in Devices, Abort(d)
      PROVE  ClaimsHold' /\ OneOwner'
  <2>1. /\ \A x \in Devices : tx'[x].owned = IF x = d THEN {} ELSE tx[x].owned
        /\ \A s \in Sessions : lock[s] # d => lock'[s] = lock[s]
        /\ UNCHANGED <<row, version, email>>
    BY <1>4 DEF Abort, Release, Idle, TypeOK, events
  <2>2. ClaimsHold'
    <3>1. ASSUME NEW x \in Devices, NEW u \in tx'[x].owned
          PROVE  lock'[u] = x /\ row'[u].owner \in {None, PersonOf[x]}
      <4>1. x # d /\ u \in tx[x].owned
        BY <2>1, <3>1
      <4>2. lock[u] = x /\ u \in Sessions /\ row[u].owner \in {None, PersonOf[x]}
        BY <4>1 DEF ClaimsHold, TypeOK
      <4>. QED
        BY <2>1, <4>1, <4>2
    <3>. QED
      BY <3>1 DEF ClaimsHold
  <2>. QED
    BY <2>1, <2>2 DEF OneOwner, Stored
<1>5. ASSUME NEW i \in Instances, FoldCommit(i)
      PROVE  ClaimsHold' /\ OneOwner'
  <2>1. \A s \in Sessions : row'[s].owner = row[s].owner
    BY <1>5 DEF FoldCommit, TypeOK
  <2>2. UNCHANGED <<version, email, lock, tx>>
    BY <1>5 DEF FoldCommit, events, upload
  <2>. QED
    BY <2>1, <2>2 DEF ClaimsHold, OneOwner, Stored, TypeOK
<1>6. ASSUME NEW s \in Sessions, DeleteSlice(s)
      PROVE  ClaimsHold' /\ OneOwner'
  <2>1. UNCHANGED <<lock, tx>> /\ lock[s] = None
    BY <1>6 DEF DeleteSlice, upload
  <2>2. \A u \in Sessions \ {s} : row'[u] = row[u]
    BY <1>6 DEF DeleteSlice, TypeOK
  <2>3. ClaimsHold'
    <3>1. ASSUME NEW x \in Devices, NEW u \in tx[x].owned
          PROVE  row'[u].owner = row[u].owner
      <4>0. u \in Sessions /\ x # None
        BY DEF TypeOK
      <4>1. u \in Sessions \ {s}
        BY <2>1, <4>0 DEF ClaimsHold
      <4>. QED
        BY <2>2, <4>1
    <3>. QED
      BY <2>1, <3>1 DEF ClaimsHold
  <2>4. CASE Stored \cap In(s) # {}
    <3>1. \A e \in Events : version'[e] # 0 => version[e] # 0 /\ email'[e] = email[e]
      BY <1>6, <2>4 DEF DeleteSlice, TypeOK, Stored
    <3>2. UNCHANGED row
      BY <1>6, <2>4 DEF DeleteSlice
    <3>. QED
      BY <2>3, <3>1, <3>2 DEF OneOwner, Stored
  <2>5. CASE Stored \cap In(s) = {}
    <3>1. UNCHANGED <<version, email>>
      BY <1>6, <2>5 DEF DeleteSlice, events
    <3>2. \A e \in Stored : SessionOf[e] \in Sessions \ {s}
      BY <2>5 DEF In, Stored
    <3>. QED
      BY <2>2, <2>3, <3>1, <3>2 DEF OneOwner, Stored
  <2>. QED
    BY <2>4, <2>5
<1>7. ASSUME Quiet, UNCHANGED tx
      PROVE  ClaimsHold' /\ OneOwner'
  BY <1>7 DEF Quiet, ClaimsHold, OneOwner, Stored
<1>. QED
  BY <1>1, <1>2, <1>3, <1>4, <1>5, <1>6, <1>7, QuietSteps
     DEF Next, Upload, Commits, Tick, Sweep

-----------------------------------------------------------------------------
(* What an upload does to a session: it leaves its rows and its flag       *)
(* alone, or marks it with a stamp never used before.                      *)
LEMMA CommitEffect ==
  ASSUME TypeOK, OneOwner, NEW d \in Devices, NEW ix \in BOOLEAN, Commit(d, ix), NEW s \in Sessions
  PROVE  \/ row'[s].dirty /\ row'[s].stamp = clock /\ row'[s].owner # None
         \/ /\ CopiesIn(s)' = CopiesIn(s) /\ (Stored \cap In(s))' = Stored \cap In(s)
            /\ row'[s].dirty = row[s].dirty /\ row'[s].stamp = row[s].stamp
            /\ row'[s].content = row[s].content
            /\ Exists(s)' <=> Exists(s)
<1>. DEFINE B == Admitted(d)
            mine == {SessionOf[c[1]] : c \in B}
<1>1. row'[s] = IF s \in mine THEN RowAfter(d, ix, B, s) ELSE row[s]
  BY DEF Commit
<1>2. CASE Touched(ix, B, s)
  <2>1. s \in mine
    <3>1. Fresh(ix, B) \cap In(s) # {} => s \in mine
      BY DEF Fresh, In
    <3>2. Credited(B, s) # {} => s \in mine
      BY BatchType, CreditOf DEF Credited
    <3>3. ASSUME NEW f \in Moved(ix, B) \cap In(s)
          PROVE  s \in mine
      <4>1. CASE Offered(ix, B, f) # {}
        BY <4>1, <3>3 DEF Offered, Matched, Rows, In
      <4>2. CASE Offered(ix, B, f) = {}
        <5>1. version[f] \in Nat /\ f \in Stored /\ VersionAfter(ix, B, f) # version[f]
          BY DEF Moved, Stored, TypeOK
        <5>2. {version[f]} \cup Offered(ix, B, f) = {version[f]}
          BY <4>2
        <5>3. Greatest({version[f]}) \in {version[f]}
          BY <5>1, GreatestExists
        <5>. QED
          BY <5>1, <5>2, <5>3 DEF VersionAfter
      <4>. QED
        BY <4>1, <4>2
    <3>. QED
      BY <1>2, <3>1, <3>2, <3>3 DEF Touched
  <2>2. PersonOf[d] # None
    OBVIOUS
  <2>3. row'[s].dirty /\ row'[s].stamp = clock /\ row'[s].owner # None
    <3>1. row'[s] = RowAfter(d, ix, B, s)
      BY <1>1, <2>1
    <3>2. row'[s].stamp = clock /\ row'[s].owner = PersonOf[d]
      BY <1>2, <3>1 DEF RowAfter
    <3>3. row'[s].dirty
      <4>1. RowAfter(d, ix, B, s).dirty = (Touched(ix, B, s) \/ row[s].dirty)
        BY DEF RowAfter
      <4>2. Touched(ix, B, s) \/ row[s].dirty
        BY <1>2
      <4>. QED
        BY <3>1, <4>1, <4>2, Zenon
    <3>. QED
      BY <2>2, <3>2, <3>3
  <2>. QED
    BY <2>3
<1>3. CASE ~Touched(ix, B, s)
  <2>1. ASSUME NEW f \in In(s)
        PROVE  version'[f] = version[f]
    <3>1. f \in Events /\ version'[f] = VersionAfter(ix, B, f) /\ f \notin Fresh(ix, B)
      BY <1>3 DEF Commit, Touched, In
    <3>2. f \in Stored => version'[f] = version[f]
      BY <1>3, <3>1 DEF Touched, Moved
    <3>. QED
      BY <3>1, <3>2 DEF VersionAfter, Stored
  <2>2. CopiesIn(s)' = CopiesIn(s) /\ (Stored \cap In(s))' = Stored \cap In(s)
    BY <2>1 DEF CopiesIn, Stored, In
  <2>3. Delta(ix, B, s).content = 0
    BY <1>3, FS_EmptySet DEF Delta, Touched
  <2>4. CASE s \in mine
    <3>1. Exists(s)
      <4>1. SUFFICES ASSUME ~Exists(s) PROVE FALSE
        OBVIOUS
      <4>2. PICK c \in B : SessionOf[c[1]] = s
        BY <2>4
      <4>3. c[1] \in Events
        BY BatchType, CopyParts
      <4>4. \A f \in Events : SessionOf[f] = s => version[f] = 0
        BY <4>1 DEF Exists, OneOwner, Stored
      <4>5. version[c[1]] = 0 /\ Rows(c[1]) = {}
        BY <4>2, <4>3, <4>4 DEF Rows, Stored
      <4>6. c[1] \in Fresh(ix, B) \cap In(s)
        BY <4>2, <4>3, <4>5 DEF Fresh, Matched, In
      <4>. QED
        BY <1>3, <4>6 DEF Touched
    <3>2. row[s].content \in Nat /\ row[s].dirty \in BOOLEAN
      BY DEF TypeOK
    <3>. QED
      BY <1>1, <1>3, <2>2, <2>3, <2>4, <3>1, <3>2 DEF RowAfter, Exists
  <2>5. CASE s \notin mine
    BY <1>1, <2>2, <2>5 DEF Exists
  <2>. QED
    BY <2>4, <2>5
<1>. QED
  BY <1>2, <1>3

(* The same for the commit of a fold and for the sweep.                    *)
LEMMA FoldEffect ==
  ASSUME TypeOK, StampsPast, NEW i \in Instances, FoldCommit(i), NEW s \in Sessions
  PROVE  /\ CopiesIn(s)' = CopiesIn(s) /\ (Stored \cap In(s))' = Stored \cap In(s)
         /\ Exists(s)' <=> Exists(s)
         /\ row'[s].cost = row[s].cost
         /\ row'[s].stamp \in Nat /\ row'[s].stamp < clock' /\ clock <= clock'
         /\ row'[s].stamp = row[s].stamp \/ row'[s].stamp = clock
         /\ fold[i].s # s => row'[s] = row[s] /\ turns'[s] = turns[s]
<1>1. CopiesIn(s)' = CopiesIn(s) /\ (Stored \cap In(s))' = Stored \cap In(s)
  BY DEF FoldCommit, events, CopiesIn, Stored, In
<1>2. fold[i].s \in Sessions
  BY DEF FoldCommit, TypeOK
<1>. DEFINE n == Content({c[1] : c \in fold[i].read})
            b == Bumped(fold[i].s, n)
<1>3. fold[i].s # s => row'[s] = row[s] /\ turns'[s] = turns[s]
  BY <1>2 DEF FoldCommit, TypeOK
<1>4. fold[i].s = s => row'[s] = [owner |-> row[s].owner,
                                  dirty |-> row[s].stamp # fold[i].stamp,
                                  stamp |-> b, content |-> n, cost |-> row[s].cost]
  BY <1>2 DEF FoldCommit, TypeOK
<1>5. clock' = IF row[fold[i].s].content = n THEN clock ELSE clock + 1
  BY DEF FoldCommit
<1>6. /\ clock \in Nat /\ row[s].stamp \in Nat /\ row[fold[i].s].stamp \in Nat
      /\ row[s].stamp < clock
  BY <1>2 DEF TypeOK, StampsPast
<1>11. ASSUME fold[i].s = s
       PROVE  row'[s].stamp = b
  <2>. HIDE DEF b, n
  <2>. QED
    BY <1>4, <1>11
<1>7. ASSUME fold[i].s # s
      PROVE  row'[s].stamp = row[s].stamp
  BY <1>3, <1>7
<1>8. b = IF row[fold[i].s].content = n THEN row[fold[i].s].stamp ELSE clock
  BY DEF Bumped
<1>. HIDE DEF b, n
<1>9. /\ row'[s].stamp \in Nat /\ row'[s].stamp < clock' /\ clock <= clock'
      /\ row'[s].stamp = row[s].stamp \/ row'[s].stamp = clock
  BY <1>5, <1>6, <1>7, <1>8, <1>11
<1>10. row'[s].cost = row[s].cost /\ row'[s].owner = row[s].owner
  BY <1>3, <1>4
<1>. QED
  BY <1>1, <1>3, <1>9, <1>10 DEF Exists

LEMMA DeleteEffect ==
  ASSUME TypeOK, NEW u \in Sessions, DeleteSlice(u), NEW s \in Sessions \ {u}
  PROVE  /\ CopiesIn(s)' = CopiesIn(s) /\ (Stored \cap In(s))' = Stored \cap In(s)
         /\ row'[s] = row[s] /\ turns'[s] = turns[s]
<1>1. \A e \in In(s) : version'[e] = version[e]
  BY DEF DeleteSlice, In, TypeOK, events
<1>2. row'[s] = row[s] /\ turns'[s] = turns[s]
  BY DEF DeleteSlice, TypeOK
<1>. QED
  BY <1>1, <1>2 DEF CopiesIn, Stored, In

LEMMA StampsStep ==
  ASSUME TypeOK, OneOwner, StampsPast, Next
  PROVE  StampsPast' /\ clock <= clock'
<1>0. clock \in Nat
  BY DEF TypeOK
<1>8. ASSUME NEW s \in Sessions
      PROVE  row[s].stamp \in Nat /\ row[s].stamp < clock
  BY DEF TypeOK, StampsPast
<1>9. clock <= clock'
  <2>1. ASSUME NEW c, c = clock \/ c = clock + 1
        PROVE  clock <= c
    BY <1>0, <2>1
  <2>2. clock' = clock \/ clock' = clock + 1
    BY QuietSteps DEF Next, Upload, Commits, Tick, Sweep, Claim, Abort, Commit, FoldCommit,
                      DeleteSlice, Quiet
  <2>. QED
    BY <2>1, <2>2
<1>1. ASSUME NEW d \in Devices, NEW ix \in BOOLEAN, Commit(d, ix), NEW s \in Sessions
      PROVE  row'[s].stamp < clock'
  <2>1. clock' = clock + 1
    BY <1>1 DEF Commit
  <2>2. row'[s].stamp = clock \/ row'[s].stamp = row[s].stamp
    BY <1>1, CommitEffect
  <2>3. row[s].stamp \in Nat /\ row[s].stamp < clock
    BY <1>8
  <2>. QED
    BY <1>0, <2>1, <2>2, <2>3
<1>2. ASSUME NEW i \in Instances, FoldCommit(i), NEW s \in Sessions
      PROVE  row'[s].stamp < clock'
  BY <1>2, FoldEffect
<1>3. ASSUME NEW u \in Sessions, DeleteSlice(u), NEW s \in Sessions
      PROVE  row'[s].stamp < clock'
  <2>1. row' = row \/ row' = [row EXCEPT ![u] = NoRow]
    BY <1>3 DEF DeleteSlice
  <2>2. row'[s].stamp = row[s].stamp \/ row'[s].stamp = 0
    BY <2>1 DEF NoRow, TypeOK
  <2>3. row[s].stamp \in Nat /\ row[s].stamp < clock
    BY <1>8
  <2>4. clock' = clock
    BY <1>3 DEF DeleteSlice
  <2>. QED
    BY <1>0, <2>2, <2>3, <2>4
<1>4. ASSUME NEW d \in Devices, Claim(d) \/ Abort(d)
      PROVE  UNCHANGED <<row, clock>>
  BY <1>4 DEF Claim, Abort
<1>5. ASSUME UNCHANGED <<row, clock>>, NEW s \in Sessions
      PROVE  row'[s].stamp < clock'
  BY <1>5, <1>8
<1>6. ASSUME NEW s \in Sessions
      PROVE  row'[s].stamp < clock'
  BY <1>1, <1>2, <1>3, <1>4, <1>5, <1>6, QuietSteps
     DEF Next, Upload, Commits, Tick, Sweep, Quiet
<1>. QED
  BY <1>6, <1>9 DEF StampsPast

-----------------------------------------------------------------------------
(* A fold's reading is current while its session's stamp is: what changes  *)
(* the rows moves the stamp past the one the fold remembers.               *)
FoldOK(i) ==
  fold[i].st # "idle" /\ fold[i].s \notin OldSessions =>
    /\ fold[i].s \in Sessions /\ Exists(fold[i].s)
    /\ fold[i].stamp <= row[fold[i].s].stamp
    /\ fold[i].st = "read" /\ row[fold[i].s].stamp = fold[i].stamp
         => fold[i].read = CopiesIn(fold[i].s)

LEMMA FoldOKIs == FoldsCurrent <=> \A i \in Instances : FoldOK(i)
BY DEF FoldsCurrent, FoldOK

Same(s) ==
  Exists(s)' = Exists(s) /\ row'[s].stamp = row[s].stamp /\ CopiesIn(s)' = CopiesIn(s)
Later(s) == Exists(s)' /\ row'[s].stamp = clock

LEMMA FoldKept ==
  ASSUME TypeOK, StampsPast, FoldsCurrent, NEW i \in Instances, fold'[i] = fold[i],
         \A s \in Sessions \ OldSessions :
           fold[i].st # "idle" /\ fold[i].s = s => Same(s) \/ Later(s)
  PROVE  FoldOK(i)'
<1>1. CASE fold[i].st # "idle" /\ fold[i].s \notin OldSessions
  <2>1. PICK s \in Sessions \ OldSessions : fold[i].s = s
    BY <1>1 DEF TypeOK
  <2>2. /\ Exists(s) /\ fold[i].stamp <= row[s].stamp
        /\ fold[i].st = "read" /\ row[s].stamp = fold[i].stamp => fold[i].read = CopiesIn(s)
    BY <1>1, <2>1, FoldOKIs DEF FoldOK
  <2>3. /\ row[s].stamp < clock /\ row[s].stamp \in Nat
        /\ fold[i].stamp \in Nat /\ clock \in Nat
    BY <2>1 DEF StampsPast, TypeOK
  <2>4. /\ Exists(s)' /\ fold[i].stamp <= row'[s].stamp
        /\ fold[i].st = "read" /\ row'[s].stamp = fold[i].stamp => fold[i].read = CopiesIn(s)'
    <3>1. CASE Same(s)
      BY <2>2, <3>1 DEF Same
    <3>2. CASE Later(s)
      <4>1. fold[i].stamp < clock
        BY <2>2, <2>3
      <4>. QED
        BY <2>3, <3>2, <4>1 DEF Later
    <3>. QED
      BY <1>1, <2>1, <3>1, <3>2
  <2>. QED
    BY <2>1, <2>4 DEF FoldOK
<1>. QED
  BY <1>1 DEF FoldOK

LEMMA FoldsStep ==
  ASSUME TypeOK, OneOwner, StampsPast, FoldsCurrent, Next
  PROVE  FoldsCurrent'
<1>1. ASSUME Quiet \/ UNCHANGED <<version, row>>, NEW s \in Sessions
      PROVE  Same(s)
  BY <1>1 DEF Quiet, Same, Exists, CopiesIn, Stored, In
<1>2. ASSUME Quiet \/ UNCHANGED <<version, row>>, NEW i \in Instances, fold'[i] = fold[i]
      PROVE  FoldOK(i)'
  BY <1>1, <1>2, FoldKept
<1>3. ASSUME NEW d \in Devices, Upload(d), NEW i \in Instances
      PROVE  FoldOK(i)'
  <2>1. CASE Commits(d)
    <3>. PICK ix \in BOOLEAN : Commit(d, ix)
      BY <2>1 DEF Commits
    <3>1. fold'[i] = fold[i]
      BY DEF Commit
    <3>2. ASSUME NEW s \in Sessions
          PROVE  Same(s) \/ Later(s)
      BY CommitEffect DEF Exists, Same, Later
    <3>. QED
      BY <3>1, <3>2, FoldKept
  <2>2. CASE ~Commits(d)
    BY <1>2, <1>3, <2>2 DEF Upload, Commits, Begin, Claim, Abort, events
  <2>. QED
    BY <2>1, <2>2
<1>4. ASSUME NEW j \in Instances, Tick(j), NEW i \in Instances
      PROVE  FoldOK(i)'
  <2>1. CASE FoldCommit(j)
    <3>1. CASE i = j
      <4>1. fold'[i].st = "idle"
        BY <2>1, <3>1 DEF FoldCommit, NoFold, TypeOK
      <4>. QED
        BY <4>1 DEF FoldOK
    <3>2. CASE i # j
      <4>1. fold'[i] = fold[i]
        BY <2>1, <3>2 DEF FoldCommit, TypeOK
      <4>2. ASSUME NEW s \in Sessions \ OldSessions, fold[i].st # "idle", fold[i].s = s
            PROVE  Same(s) \/ Later(s)
        <5>1. Exists(s)
          BY <4>2, FoldOKIs DEF FoldOK
        <5>. QED
          BY <2>1, <5>1, FoldEffect DEF Same, Later, Exists
      <4>. QED
        BY <4>1, <4>2, FoldKept
    <3>. QED
      BY <3>1, <3>2
  <2>2. CASE FoldFail(j)
    <3>1. fold'[i] = fold[i] \/ fold'[i].st = "idle"
      BY <2>2 DEF FoldFail, NoFold, TypeOK
    <3>. QED
      BY <1>2, <2>2, <3>1, QuietSteps DEF FoldOK
  <2>3. CASE Pass(j)
    <3>1. Quiet
      BY <2>3, QuietSteps
    <3>2. CASE fold'[i] = fold[i] \/ fold'[i].st = "idle"
      BY <1>2, <3>1, <3>2 DEF FoldOK
    <3>3. CASE ~(fold'[i] = fold[i] \/ fold'[i].st = "idle")
      <4>1. PICK s \in Sessions :
              /\ Exists(s)
              /\ fold'[i] = [st |-> "facts", s |-> s, stamp |-> row[s].stamp, read |-> {}]
        <5>1. /\ i = j /\ Due(j) # {}
              /\ fold'[i] = [st |-> "facts", s |-> Oldest(Due(j)),
                             stamp |-> row[Oldest(Due(j))].stamp, read |-> {}]
          BY <2>3, <3>3 DEF Pass, NoFold, TypeOK
        <5>. QED
          BY <5>1, OldestDue DEF Due
      <4>2. row' = row /\ row[s].stamp \in Nat
        BY <3>1 DEF Quiet, TypeOK
      <4>. QED
        BY <4>1, <4>2 DEF FoldOK, Exists
    <3>. QED
      BY <3>2, <3>3
  <2>4. CASE FoldRead(j)
    <3>1. Quiet
      BY <2>4, QuietSteps
    <3>2. CASE i # j
      <4>1. fold'[i] = fold[i]
        BY <2>4, <3>2 DEF FoldRead, TypeOK
      <4>. QED
        BY <1>2, <3>1, <4>1
    <3>3. CASE i = j
      <4>1. PICK s \in Sessions :
              /\ fold[i].s = s /\ fold[i].st # "idle"
              /\ fold'[i] = [st |-> "read", s |-> s, stamp |-> fold[i].stamp,
                             read |-> CopiesIn(s)]
        BY <2>4, <3>3 DEF FoldRead, TypeOK
      <4>2. Same(s)
        BY <1>1, <3>1
      <4>3. s \notin OldSessions => Exists(s) /\ fold[i].stamp <= row[s].stamp
        BY <4>1, FoldOKIs DEF FoldOK
      <4>. QED
        BY <4>1, <4>2, <4>3 DEF FoldOK, Same
    <3>. QED
      BY <3>2, <3>3
  <2>. QED
    BY <1>4, <2>1, <2>2, <2>3, <2>4 DEF Tick
<1>5. ASSUME NEW u \in Sessions, DeleteSlice(u), NEW i \in Instances
      PROVE  FoldOK(i)'
  <2>1. fold'[i] = fold[i] /\ u \in OldSessions
    BY <1>5 DEF DeleteSlice
  <2>2. ASSUME NEW s \in Sessions \ OldSessions
        PROVE  Same(s)
    BY <1>5, <2>1, DeleteEffect DEF Exists, Same
  <2>. QED
    BY <2>1, <2>2, FoldKept
<1>6. ASSUME Versioned \/ \E e \in Events : Expire(e), NEW i \in Instances
      PROVE  FoldOK(i)'
  BY <1>2, <1>6, QuietSteps
<1>. QED
  BY <1>3, <1>4, <1>5, <1>6, FoldOKIs DEF Next, Sweep, FoldOK, FoldsCurrent

-----------------------------------------------------------------------------
(* A session becomes clean only by a fold whose reading is current, and    *)
(* what changes its rows afterwards makes it dirty.                        *)
LEMMA CleanStep ==
  ASSUME TypeOK, OneOwner, StampsPast, FoldsCurrent, Next,
         NEW s \in Sessions \ OldSessions, CleanOK(s)
  PROVE  CleanOK(s)'
<1>1. ASSUME UNCHANGED <<version, row, turns>>
      PROVE  CleanOK(s)'
  BY <1>1 DEF CleanOK, Exists, CopiesIn, Stored, In, Content, Superseded
<1>2. ASSUME NEW d \in Devices, NEW ix \in BOOLEAN, Commit(d, ix)
      PROVE  CleanOK(s)'
  <2>1. turns' = turns
    BY <1>2 DEF Commit
  <2>. QED
    BY <1>2, <2>1, CommitEffect DEF CleanOK, Content, Superseded
<1>3. ASSUME NEW i \in Instances, FoldCommit(i)
      PROVE  CleanOK(s)'
  <2>1. CASE fold[i].s # s
    BY <1>3, <2>1, FoldEffect DEF CleanOK, Content, Superseded
  <2>2. CASE fold[i].s = s
    <3>. DEFINE n == Content({c[1] : c \in fold[i].read})
    <3>1. /\ row'[s].dirty = (row[s].stamp # fold[i].stamp)
          /\ row'[s].content = n /\ turns'[s] = fold[i].read
      BY <1>3, <2>2 DEF FoldCommit, TypeOK
    <3>2. fold[i].st = "read"
      BY <1>3 DEF FoldCommit
    <3>3. ASSUME row[s].stamp = fold[i].stamp
          PROVE  fold[i].read = CopiesIn(s)
      BY <2>2, <3>2, <3>3, FoldOKIs DEF FoldOK
    <3>4. {c[1] : c \in CopiesIn(s)} = Stored \cap In(s)
      <4>1. ASSUME NEW e \in Stored \cap In(s)
            PROVE  \E c \in CopiesIn(s) : e = c[1]
        <5>1. <<e, version[e]>> \in CopiesIn(s) /\ e = <<e, version[e]>>[1]
          BY DEF CopiesIn
        <5>. QED
          BY <5>1
      <4>2. ASSUME NEW c \in CopiesIn(s)
            PROVE  c[1] \in Stored \cap In(s)
        BY DEF CopiesIn
      <4>. QED
        BY <4>1, <4>2
    <3>5. CopiesIn(s)' = CopiesIn(s) /\ (Stored \cap In(s))' = Stored \cap In(s)
      BY <1>3, FoldEffect
    <3>. QED
      BY <3>1, <3>3, <3>4, <3>5 DEF CleanOK, Content, Superseded
  <2>. QED
    BY <2>1, <2>2
<1>4. ASSUME NEW u \in Sessions, DeleteSlice(u)
      PROVE  CleanOK(s)'
  <2>1. u # s
    BY <1>4 DEF DeleteSlice
  <2>. QED
    BY <1>4, <2>1, DeleteEffect DEF CleanOK, Exists, Content, Superseded
<1>5. \A d \in Devices : Begin(d) \/ Claim(d) \/ Abort(d) => UNCHANGED <<version, row, turns>>
  BY DEF Begin, Claim, Abort, events
<1>. QED
  BY <1>1, <1>2, <1>3, <1>4, <1>5, QuietSteps DEF Next, Upload, Commits, Tick, Sweep, Quiet

(* A commit files a call once and adds it to the session it is filed       *)
(* under; the sweep takes a session with its calls.                        *)
Filed(s) == {c \in Calls : ledger[c] = s}

LEMMA CostStep ==
  ASSUME TypeOK, OneOwner, StampsPast, CostIsLedger, Next
  PROVE  CostIsLedger'
<1>0. \A s \in Sessions : row[s].cost = Cardinality(Filed(s)) /\ s # None
  BY DEF CostIsLedger, Filed
<1>1. ASSUME NEW d \in Devices, NEW ix \in BOOLEAN, Commit(d, ix), NEW s \in Sessions
      PROVE  row'[s].cost = Cardinality(Filed(s)')
  <2>. DEFINE B == Admitted(d)
              mine == {SessionOf[c[1]] : c \in B}
  <2>1. ledger' = Credit(B) /\ B \in SUBSET Copies
    BY <1>1, BatchType DEF Commit
  <2>2. Filed(s)' = Filed(s) \cup Credited(B, s)
    BY <2>1, CreditOf, <1>0 DEF Filed, Credited
  <2>3. Filed(s) \cap Credited(B, s) = {}
    BY <1>0 DEF Filed, Credited
  <2>4. Filed(s) \in SUBSET Calls /\ Credited(B, s) \in SUBSET Calls
    BY DEF Filed, Credited
  <2>5. Cardinality(Filed(s)') = Cardinality(Filed(s)) + Cardinality(Credited(B, s))
    <3>1. /\ IsFiniteSet(Filed(s)) /\ IsFiniteSet(Credited(B, s))
          /\ Cardinality(Filed(s)) \in Nat /\ Cardinality(Credited(B, s)) \in Nat
      BY <2>4, Finite
    <3>2. Cardinality(Filed(s) \cup Credited(B, s))
          = Cardinality(Filed(s)) + Cardinality(Credited(B, s)) - Cardinality({})
      BY <2>3, <3>1, FS_Union
    <3>. QED
      BY <2>2, <3>1, <3>2, FS_EmptySet
  <2>6. CASE s \in mine
    <3>1. row'[s] = RowAfter(d, ix, B, s)
      BY <1>1, <2>6 DEF Commit
    <3>2. row'[s].cost = row[s].cost + Cardinality(Credited(B, s))
      BY <3>1 DEF RowAfter, Delta
    <3>. QED
      BY <1>0, <2>5, <3>2
  <2>7. CASE s \notin mine
    <3>1. Credited(B, s) = {}
      BY <2>1, <2>7, CreditOf, <1>0 DEF Credited
    <3>2. row'[s] = row[s]
      BY <1>1, <2>7 DEF Commit
    <3>. QED
      BY <1>0, <2>2, <3>1, <3>2
  <2>. QED
    BY <2>6, <2>7
<1>2. ASSUME NEW i \in Instances, FoldCommit(i), NEW s \in Sessions
      PROVE  row'[s].cost = Cardinality(Filed(s)')
  <2>1. ledger' = ledger
    BY <1>2 DEF FoldCommit
  <2>2. row'[s].cost = row[s].cost
    BY <1>2, FoldEffect
  <2>. QED
    BY <1>0, <2>1, <2>2 DEF Filed
<1>3. ASSUME NEW u \in Sessions, DeleteSlice(u), NEW s \in Sessions
      PROVE  row'[s].cost = Cardinality(Filed(s)')
  <2>1. CASE Stored \cap In(u) # {}
    <3>1. UNCHANGED <<row, ledger>>
      BY <1>3, <2>1 DEF DeleteSlice
    <3>. QED
      BY <1>0, <3>1 DEF Filed
  <2>2. CASE Stored \cap In(u) = {}
    <3>1. ledger' = [c \in Calls |-> IF ledger[c] = u THEN None ELSE ledger[c]]
      BY <1>3, <2>2 DEF DeleteSlice
    <3>2. Filed(s)' = IF s = u THEN {} ELSE Filed(s)
      BY <1>0, <3>1 DEF Filed
    <3>3. row'[s].cost = IF s = u THEN 0 ELSE row[s].cost
      BY <1>3, <2>2 DEF DeleteSlice, NoRow, TypeOK
    <3>. QED
      BY <1>0, <3>2, <3>3, FS_EmptySet
  <2>. QED
    BY <2>1, <2>2
<1>4. \A d \in Devices : Begin(d) \/ Claim(d) \/ Abort(d) => UNCHANGED <<row, ledger>>
  BY DEF Begin, Claim, Abort
<1>5. ASSUME UNCHANGED <<row, ledger>>
      PROVE  CostIsLedger'
  BY <1>5 DEF CostIsLedger
<1>. QED
  BY <1>1, <1>2, <1>3, <1>4, <1>5, QuietSteps
     DEF Next, Upload, Commits, Tick, Sweep, Quiet, CostIsLedger, Filed

-----------------------------------------------------------------------------
LEMMA InitHolds == Init => StoreInv
<1>. SUFFICES ASSUME Init PROVE StoreInv
  OBVIOUS
<1>1. TypeOK
  BY DEF Init, TypeOK, NoRow, Idle, NoFold
<1>2. ClaimsHold
  BY DEF Init, ClaimsHold, Idle
<1>3. OneOwner
  BY DEF Init, OneOwner, Stored
<1>4. StampsPast
  BY DEF Init, StampsPast, NoRow
<1>5. FoldsCurrent
  BY DEF Init, FoldsCurrent, NoFold
<1>6. \A s \in Sessions : CleanOK(s)
  BY DEF Init, CleanOK, Exists, NoRow
<1>7. CostIsLedger
  <2>1. \A s \in Sessions : row[s].cost = 0 /\ {c \in Calls : ledger[c] = s} = {}
    BY DEF Init, NoRow
  <2>. QED
    BY <2>1, FS_EmptySet DEF CostIsLedger
<1>. QED
  BY <1>1, <1>2, <1>3, <1>4, <1>5, <1>6, <1>7 DEF StoreInv

LEMMA Stutter ==
  ASSUME StoreInv, UNCHANGED vars
  PROVE  StoreInv'
<1>. USE DEF StoreInv, vars, events, upload
<1>1. TypeOK'
  BY DEF TypeOK
<1>2. ClaimsHold' /\ OneOwner' /\ StampsPast'
  BY DEF ClaimsHold, OneOwner, Stored, StampsPast
<1>3. FoldsCurrent'
  BY DEF FoldsCurrent, Exists, CopiesIn, Stored, In
<1>4. ASSUME NEW s \in Sessions \ OldSessions
      PROVE  CleanOK(s)'
  <2>1. CopiesIn(s)' = CopiesIn(s) /\ Content(Stored \cap In(s))' = Content(Stored \cap In(s))
    BY DEF CopiesIn, Stored, In, Content, Superseded
  <2>. QED
    BY <2>1 DEF CleanOK, Exists
<1>5. CostIsLedger'
  BY DEF CostIsLedger
<1>. QED
  BY <1>1, <1>2, <1>3, <1>4, <1>5

LEMMA StoreInvariant == Spec => []StoreInv
<1>1. StoreInv /\ [Next]_vars => StoreInv'
  <2>1. StoreInv /\ Next => StoreInv'
    BY TypeStep, OwnersStep, StampsStep, FoldsStep, CleanStep, CostStep DEF StoreInv
  <2>. QED
    BY <2>1, Stutter
<1>. QED
  BY <1>1, InitHolds, PTL DEF Spec

-----------------------------------------------------------------------------
(* Every value the store writes has its type, whatever the batches.        *)
THEOREM TypeCorrect == Spec => []TypeOK
BY StoreInvariant, PTL DEF StoreInv

(* Two laptops that race to create a session id resolve to one owner, and  *)
(* every event filed under the id is that person's.                        *)
THEOREM OwnersAreOne == Spec => []OneOwner
BY StoreInvariant, PTL DEF StoreInv

(* derive_dirty is cleared only by a fold that read all the session        *)
(* stores and counts its logical events once, however batches, folds and   *)
(* instances interleave.                                                   *)
THEOREM CleanMeansFolded == Spec => []CleanIsFolded
<1>1. StoreInv => CleanIsFolded
  BY DEF StoreInv, CleanOK, CleanIsFolded
<1>. QED
  BY <1>1, StoreInvariant, PTL

(* A session's cost is the calls filed under it: none twice, none lost.    *)
THEOREM CostsExact == Spec => []CostIsLedger
BY StoreInvariant, PTL DEF StoreInv

(* Only an upload gives birth to a row, and only where no walked row of    *)
(* its record is stored, or its process has not found the identity index   *)
(* valid: a batch sent before a repaired transcript's walk and landing     *)
(* after it upgrades the twin instead (insertEvents, upgradeByIdentity).   *)
THEOREM TwinsAreNotBorn == Spec => NoLateTwin
<1>1. ASSUME TypeOK, [Next]_vars
      PROVE  [\A e \in Events : version[e] = 0 /\ version'[e] # 0 =>
                Rows(e) = {} \/ e \in twins']_vars
  <2>1. SUFFICES ASSUME Next, NEW e \in Events, version[e] = 0, version'[e] # 0
                 PROVE  Rows(e) = {} \/ e \in twins'
    BY <1>1
  <2>2. ASSUME NEW d \in Devices, NEW ix \in BOOLEAN, Commit(d, ix)
        PROVE  Rows(e) = {} \/ e \in twins'
    <3>1. version'[e] = VersionAfter(ix, Admitted(d), e)
      BY <2>2 DEF Commit
    <3>2. e \in Fresh(ix, Admitted(d))
      BY <2>1, <3>1 DEF VersionAfter, Stored
    <3>3. ix => Rows(e) = {}
      BY <3>2 DEF Fresh, Matched
    <3>4. ~ix /\ Rows(e) # {} => e \in twins'
      BY <2>2, <3>2 DEF Commit
    <3>. QED
      BY <3>3, <3>4
  <2>3. \A s \in Sessions : ~DeleteSlice(s)
    BY <1>1, <2>1 DEF DeleteSlice, TypeOK, events
  <2>4. \A d \in Devices : ~Claim(d) /\ ~Abort(d)
    BY <2>1 DEF Claim, Abort, events
  <2>5. \A i \in Instances : ~FoldCommit(i)
    BY <2>1 DEF FoldCommit, events
  <2>6. ~Quiet
    BY <2>1 DEF Quiet
  <2>. QED
    BY <2>1, <2>2, <2>3, <2>4, <2>5, <2>6, QuietSteps
       DEF Next, Upload, Commits, Tick, Sweep
<1>2. StoreInv => TypeOK
  BY DEF StoreInv
<1>. QED
  BY <1>1, <1>2, StoreInvariant, PTL DEF Spec, NoLateTwin

-----------------------------------------------------------------------------
(* The contract.                                                           *)

Facts == {<<e, version[e]>> : e \in Stored}
Owners == [s \in Sessions |-> row[s].owner]
Currents == {s \in Sessions : Exists(s) /\ ~row[s].dirty}

LEMMA Mapped ==
  /\ \A s \in Sessions : Contract!Held(Facts, s) = CopiesIn(s)
  /\ \A s \in Sessions : Contract!Held(Facts', s) = CopiesIn(s)'
<1>1. \A s \in Sessions : Contract!Held(Facts, s) = CopiesIn(s)
  BY DEF Contract!Held, Facts, CopiesIn, In, Stored
<1>2. \A s \in Sessions : Contract!Held(Facts', s) = CopiesIn(s)'
  BY DEF Contract!Held, Facts, CopiesIn, In, Stored
<1>. QED
  BY <1>1, <1>2

(* An upgrade only ever takes a newer extraction.                          *)
LEMMA VersionGrows ==
  ASSUME TypeOK, NEW ix \in BOOLEAN, NEW B \in SUBSET Copies, NEW f \in Stored
  PROVE  version[f] <= VersionAfter(ix, B, f) /\ VersionAfter(ix, B, f) # 0
<1>. DEFINE n == MaxVersion
            m == IF version[f] > n THEN version[f] ELSE n
            S == {version[f]} \cup Offered(ix, B, f)
<1>1. f \in Events /\ version[f] \in Nat \ {0} /\ VersionAfter(ix, B, f) = Greatest(S)
  BY DEF Stored, TypeOK, VersionAfter
<1>2. m \in Nat /\ version[f] \in 0 .. m /\ n <= m
  BY <1>1
<1>3. S \subseteq 0 .. m /\ version[f] \in S
  <2>1. \A c \in B : c[2] \in 1 .. n
    OBVIOUS
  <2>. QED
    BY <2>1, <1>2 DEF Offered, Matched
<1>4. Greatest(S) \in S /\ \A y \in S : y <= Greatest(S)
  <2>. HIDE DEF S, m
  <2>. QED
    BY <1>2, <1>3, GreatestExists
<1>5. Greatest(S) \in Nat /\ version[f] <= Greatest(S)
  <2>1. Greatest(S) \in 0 .. m
    BY <1>3, <1>4, Zenon
  <2>2. version[f] <= Greatest(S)
    BY <1>3, <1>4, Zenon
  <2>. HIDE DEF S, m
  <2>. QED
    BY <1>2, <2>1, <2>2
<1>. QED
  BY <1>1, <1>5

LEMMA CommitWrites ==
  ASSUME StoreInv, NEW d \in Devices, NEW ix \in BOOLEAN, Commit(d, ix)
  PROVE  Contract!Write(PersonOf[d])
<1>. DEFINE B == Admitted(d)
            mine == {SessionOf[c[1]] : c \in B}
<1>0. TypeOK /\ ClaimsHold /\ OneOwner /\ StampsPast /\ B \in SUBSET Copies
  BY BatchType DEF StoreInv
<1>1. mine \in SUBSET Sessions /\ \A s \in mine : row[s].owner \in {None, PersonOf[d]}
  <2>1. mine \subseteq tx[d].owned
    BY DEF Admitted
  <2>2. mine \subseteq Sessions
    BY <1>0, CopyParts
  <2>. QED
    BY <1>0, <2>1, <2>2 DEF ClaimsHold
<1>2. ASSUME NEW s \in Sessions
      PROVE  row'[s] = IF s \in mine THEN RowAfter(d, ix, B, s) ELSE row[s]
  BY DEF Commit
<1>3. Owners' = [s \in Sessions |-> IF s \in mine THEN PersonOf[d] ELSE Owners[s]]
  <2>1. \A s \in Sessions : row'[s].owner = IF s \in mine THEN PersonOf[d] ELSE row[s].owner
    <3>1. \A s \in Sessions : RowAfter(d, ix, B, s).owner = PersonOf[d]
      BY DEF RowAfter
    <3>. HIDE DEF B, mine
    <3>. QED
      BY <1>2, <3>1
  <2>. QED
    BY <2>1 DEF Owners
<1>4. ASSUME NEW s \in Sessions
      PROVE  /\ CopiesIn(s)' # CopiesIn(s) => s \in mine /\ s \notin Currents'
             /\ s \in Currents' => s \in Currents
  <2>1. CASE row'[s].dirty /\ row'[s].stamp = clock
    <3>1. row[s].stamp < clock /\ row[s].stamp \in Nat /\ clock \in Nat
      <4>1. row[s].stamp \in Nat /\ clock \in Nat
        BY <1>0 DEF TypeOK
      <4>. QED
        BY <1>0, <4>1 DEF StampsPast
    <3>2. row[s].stamp # clock
      BY <3>1
    <3>3. row'[s] # row[s]
      BY <2>1, <3>2, Zenon
    <3>. QED
      BY <1>2, <2>1, <3>3 DEF Currents
  <2>2. CASE /\ CopiesIn(s)' = CopiesIn(s) /\ row'[s].dirty = row[s].dirty
             /\ Exists(s)' <=> Exists(s)
    BY <2>2 DEF Currents, Exists
  <2>. QED
    BY <1>0, <2>1, <2>2, CommitEffect
<1>5. ASSUME NEW c \in Facts
      PROVE  \E x \in Facts' : x[1] = c[1] /\ c[2] <= x[2]
  <2>1. PICK e \in Stored : c = <<e, version[e]>>
    BY DEF Facts
  <2>2. e \in Events /\ version'[e] = VersionAfter(ix, B, e)
    BY DEF Commit, Stored
  <2>3. version[e] <= version'[e] /\ version'[e] # 0
    BY <1>0, <2>2, VersionGrows
  <2>4. <<e, version'[e]>> \in Facts'
    BY <2>2, <2>3 DEF Facts, Stored
  <2>. QED
    BY <2>1, <2>3, <2>4
<1>6. \A c, x \in Facts' : c[1] = x[1] => c = x
  BY DEF Facts
<1>7. \A c \in Calls : ledger'[c] = ledger[c] \/ (ledger[c] = None /\ ledger'[c] \in mine)
  <2>1. ledger' = Credit(B)
    BY DEF Commit
  <2>2. ASSUME NEW c \in Calls
        PROVE  Credit(B)[c] = ledger[c] \/ (ledger[c] = None /\ Credit(B)[c] \in mine)
    BY <1>0, CreditOf
  <2>. QED
    BY <2>1, <2>2
<1>8. turns' = turns
  BY DEF Commit
<1>9. \A s \in mine : Owners[s] \in {None, PersonOf[d]}
  BY <1>1 DEF Owners
<1>10. \A s \in Sessions :
         Contract!Held(Facts', s) # Contract!Held(Facts, s) => s \in mine /\ s \notin Currents'
  BY <1>4, Mapped
<1>11. Currents' \subseteq Currents
  BY <1>4 DEF Currents
<1>. HIDE DEF mine, B
<1>. QED
  BY <1>1, <1>3, <1>5, <1>6, <1>7, <1>8, <1>9, <1>10, <1>11
     DEF Contract!Write, Facts, Owners, Currents

LEMMA FoldDerives ==
  ASSUME StoreInv, NEW i \in Instances, FoldCommit(i)
  PROVE  \E s \in Sessions : Contract!Derive(s)
<1>0. TypeOK /\ FoldsCurrent /\ StampsPast
  BY DEF StoreInv
<1>1. PICK s \in Sessions : s = fold[i].s
  BY <1>0 DEF FoldCommit, TypeOK
<1>2. /\ Exists(s) /\ fold[i].st = "read" /\ turns' = [turns EXCEPT ![s] = fold[i].read]
      /\ UNCHANGED <<version, ledger>>
  BY <1>1 DEF FoldCommit, events
<1>3. row'[s].dirty = (row[s].stamp # fold[i].stamp) /\ row'[s].owner = row[s].owner
  BY <1>0, <1>1 DEF FoldCommit, TypeOK
<1>4. \A u \in Sessions \ {s} : row'[u] = row[u] /\ turns'[u] = turns[u]
  BY <1>0, <1>1, FoldEffect
<1>5. Facts' = Facts /\ Owners' = Owners
  <2>1. \A u \in Sessions : row'[u].owner = row[u].owner
    BY <1>3, <1>4
  <2>. QED
    BY <1>2, <2>1 DEF Facts, Owners, Stored
<1>6. Currents' \ {s} = Currents \ {s}
  BY <1>4 DEF Currents, Exists
<1>7. s \in Currents' /\ s \notin OldSessions => turns'[s] = Contract!Held(Facts, s)
  <2>1. SUFFICES ASSUME s \in Currents', s \notin OldSessions
                 PROVE  turns'[s] = CopiesIn(s)
    BY Mapped
  <2>2. row[s].stamp = fold[i].stamp
    BY <1>3, <2>1 DEF Currents
  <2>3. fold[i].read = CopiesIn(s)
    BY <1>0, <1>1, <1>2, <2>1, <2>2 DEF FoldsCurrent
  <2>. QED
    BY <1>0, <1>2, <2>3 DEF TypeOK
<1>8. Owners[s] # None
  BY <1>2 DEF Owners, Exists
<1>9. Contract!Derive(s)
  BY <1>2, <1>4, <1>5, <1>6, <1>7, <1>8 DEF Contract!Derive, Facts, Owners, Currents
<1>. QED
  BY <1>1, <1>9

LEMMA DeleteRemoves ==
  ASSUME StoreInv, NEW s \in Sessions, DeleteSlice(s)
  PROVE  Contract!RemoveCopy(s) \/ Contract!RemoveSession(s)
<1>0. TypeOK /\ s \in OldSessions
  BY DEF StoreInv, DeleteSlice
<1>1. CASE Stored \cap In(s) # {}
  <2>1. PICK e \in Stored \cap In(s) : version' = [version EXCEPT ![e] = 0]
    BY <1>1 DEF DeleteSlice
  <2>2. UNCHANGED <<row, turns, ledger>>
    BY <1>1 DEF DeleteSlice
  <2>3. Facts' = Facts \ {<<e, version[e]>>}
    <3>1. \A f \in Events : version'[f] = IF f = e THEN 0 ELSE version[f]
      BY <1>0, <2>1 DEF TypeOK
    <3>2. Stored' = Stored \ {e}
      BY <3>1 DEF Stored
    <3>. QED
      BY <3>1, <3>2 DEF Facts, Stored
  <2>4. <<e, version[e]>> \in Contract!Held(Facts, s)
    BY Mapped, <2>1 DEF CopiesIn
  <2>5. Owners' = Owners /\ Currents' = Currents
    BY <2>2 DEF Owners, Currents, Exists
  <2>. QED
    BY <1>0, <2>2, <2>3, <2>4, <2>5 DEF Contract!RemoveCopy, Facts, Owners, Currents
<1>2. CASE Stored \cap In(s) = {}
  <2>1. /\ ledger' = [c \in Calls |-> IF ledger[c] = s THEN None ELSE ledger[c]]
        /\ row' = [row EXCEPT ![s] = NoRow] /\ turns' = [turns EXCEPT ![s] = {}]
        /\ UNCHANGED version
    BY <1>2 DEF DeleteSlice, events
  <2>2. Facts' = Facts
    BY <2>1 DEF Facts, Stored
  <2>3. Contract!Held(Facts, s) = {}
    BY <1>2, Mapped DEF CopiesIn
  <2>4. \A u \in Sessions : row'[u] = IF u = s THEN NoRow ELSE row[u]
    BY <1>0, <2>1 DEF TypeOK
  <2>5. Owners' = [Owners EXCEPT ![s] = None]
    <3>1. \A u \in Sessions : row'[u].owner = IF u = s THEN None ELSE row[u].owner
      <4>1. NoRow.owner = None
        BY DEF NoRow
      <4>. QED
        BY <2>4, <4>1
    <3>. QED
      BY <3>1 DEF Owners
  <2>6. Currents' = Currents \ {s}
    <3>1. row'[s].owner = None
      BY <2>4 DEF NoRow
    <3>2. \A u \in Sessions \ {s} : row'[u] = row[u]
      BY <2>4
    <3>. QED
      BY <3>1, <3>2 DEF Currents, Exists
  <2>. QED
    BY <1>0, <2>1, <2>2, <2>3, <2>5, <2>6 DEF Contract!RemoveSession, Facts, Owners, Currents
<1>. QED
  BY <1>1, <1>2

LEMMA StepRefines ==
  ASSUME StoreInv, [Next]_vars
  PROVE  [Contract!ContractNext]_(Contract!contractVars)
<1>1. ASSUME UNCHANGED <<version, row, turns, ledger>>
      PROVE  UNCHANGED Contract!contractVars
  BY <1>1 DEF Contract!contractVars, Stored, Exists
<1>2. ASSUME NEW d \in Devices, NEW ix \in BOOLEAN, Commit(d, ix)
      PROVE  Contract!ContractNext
  BY <1>2, CommitWrites DEF Contract!ContractNext
<1>3. ASSUME NEW i \in Instances, FoldCommit(i)
      PROVE  Contract!ContractNext
  BY <1>3, FoldDerives DEF Contract!ContractNext
<1>4. ASSUME NEW s \in Sessions, DeleteSlice(s)
      PROVE  Contract!ContractNext
  BY <1>4, DeleteRemoves DEF Contract!ContractNext
<1>5. \A d \in Devices : Claim(d) \/ Abort(d) => UNCHANGED <<version, row, turns, ledger>>
  BY DEF Claim, Abort, events
<1>6. Quiet => UNCHANGED <<version, row, turns, ledger>>
  <2>. SUFFICES ASSUME Quiet, TypeOK
                PROVE  UNCHANGED <<version, row, turns, ledger>>
    BY DEF StoreInv
  <2>. QED
    BY DEF Quiet
<1>7. UNCHANGED vars => UNCHANGED <<version, row, turns, ledger>>
  BY DEF vars, events
<1>. QED
  BY <1>1, <1>2, <1>3, <1>4, <1>5, <1>6, <1>7, QuietSteps DEF Next, Upload, Commits, Tick, Sweep

(* The store keeps its contract: a transaction that claims its sessions    *)
(* one by one commits as one write of one person, which loses no copy and  *)
(* files each call once; a fold that read in several statements vouches    *)
(* only for what the session holds when it commits; and only retention     *)
(* takes anything away.                                                    *)
THEOREM StoreRefines == Spec => ImplementsContract
<1>1. Init => Contract!ContractInit
  BY DEF Init, NoRow, Stored, Exists, Contract!ContractInit
<1>2. StoreInv /\ [Next]_vars => [Contract!ContractNext]_(Contract!contractVars)
  BY StepRefines
<1>. QED
  BY <1>1, <1>2, StoreInvariant, PTL DEF Spec, ImplementsContract, Contract!ContractSpec

=============================================================================
