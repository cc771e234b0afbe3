--------------------------- MODULE HookCaptureProofs ---------------------------
(***************************************************************************)
(* For every story, any number of visitors and any bound on the faults:    *)
(* types, NeverForgotten and LedgerVouches of HookCapture.                 *)
(***************************************************************************)
EXTENDS HookCapture, TLAPS

(* What a hook's place says of its event and of its marker.                *)
HookOK(i) ==
  /\ i > said => hook[i] = "none"
  /\ hook[i] # "none" => i \in Hooked
  /\ hook[i] \in {"none", "begun"} => i \notin insured /\ marker[i] = "none"
  /\ hook[i] \in {"ledger", "clear", "done"} => i \in spool
  /\ marker[i] \in {"torn", "torn_old"} => i \notin insured
  /\ marker[i] \in {"old", "torn_old"} => i <= flushed \/ ~alive

(* NeverForgotten, whether or not the hook is known to be dead, and while  *)
(* the record may yet be written.                                          *)
Kept(i) ==
  i \in insured \ unread /\ (i <= flushed \/ alive) /\ ~gone
    => i \in spool \/ marker[i] \in {"young", "old"}

(* What a pass will clear, it has read, or is about to walk, or has walked.*)
PassOK(q) ==
  /\ pass[q].emitted \subseteq spool
  /\ pass[q].pc # "idle" => \A i \in pass[q].settled :
       /\ i <= flushed \/ ~alive
       /\ hook[i] \notin {"none", "begun"} /\ marker[i] # "young"
  /\ pass[q].pc = "diff" => \A i \in pass[q].settled :
       i <= flushed => i <= pass[q].seen
  /\ pass[q].pc \in {"walk", "record"} => \A i \in (pass[q].settled \cap insured) \ unread :
       i <= flushed /\ ~gone => i \in spool \cup pass[q].todo
  /\ pass[q].pc = "clear" => \A i \in (pass[q].settled \cap insured) \ unread :
       i <= flushed /\ ~gone => i \in spool

IInv ==
  /\ TypeOK
  /\ \A i \in Items : HookOK(i) /\ Kept(i)
  /\ LedgerVouches
  /\ \A q \in Passes : PassOK(q)

-----------------------------------------------------------------------------
(* The lines of the ledger name their records.                             *)

LEMMA SeqFacts ==
  ASSUME NEW S, NEW s \in Seq(S)
  PROVE  Len(s) \in Nat /\ \A i \in 1 .. Len(s) : s[i] \in S
OBVIOUS

LEMMA StoryFacts ==
  /\ Len(Story) \in Nat /\ MaxFaults \in Nat /\ Own \notin Visitors
  /\ \A i \in Items : i \in Nat /\ Kind(i) \in Kinds /\ Story[i].key \in STRING
<1>1. Story \in Seq([kind : Kinds, key : STRING, agent : BOOLEAN])
  BY StoryAssumption
<1>2. Len(Story) \in Nat /\ \A i \in 1 .. Len(Story) :
        Story[i] \in [kind : Kinds, key : STRING, agent : BOOLEAN]
  BY <1>1, SeqFacts
<1>. QED
  BY <1>2, StoryAssumption DEF Items, Kind

(* A hook's line is its own record's.                                      *)
LEMMA HookLine ==
  ASSUME NEW i \in Hooked, NEW j \in Items, Hook(j) = Hook(i) \/ Walked(j) = Hook(i)
  PROVE  j = i
<1>1. i \in Items /\ Kind(i) \in Kinds /\ Kind(i) # "aside" /\ Hook(i).type # "record"
  BY StoryFacts DEF Hooked, Hook, Kinds
<1>2. Hook(j) = Hook(i)
  <2>1. CASE j \in Text
    BY <1>1, <2>1 DEF Walked, Hook
  <2>2. CASE j \notin Text
    BY <2>2 DEF Walked
  <2>. QED
    BY <2>1, <2>2
<1>3. j \in Hooked
  BY <1>1, <1>2 DEF Hooked, Hook
<1>. QED
  BY <1>2, <1>3, StoryAssumption

(* So is a walked record's line.                                           *)
LEMMA WalkedLine ==
  ASSUME NEW i \in Items, NEW j \in Items, Hook(j) = Walked(i) \/ Walked(j) = Walked(i)
  PROVE  j = i
<1>1. CASE i \in Text
  <2>1. Kind(j) # "record"
    BY StoryFacts DEF Kinds
  <2>2. Hook(j) # Walked(i)
    <3>1. Hook(j).type = Kind(j)
      BY DEF Hook
    <3>2. Walked(i).type = "record"
      BY <1>1 DEF Walked
    <3>. QED
      BY <2>1, <3>1, <3>2
  <2>3. Walked(j) = Walked(i)
    BY <2>2
  <2>4. j \in Text
    BY <2>2, <2>3 DEF Walked
  <2>5. Walked(i).uuid = i /\ Walked(j).uuid = j
    BY <1>1, <2>4 DEF Walked
  <2>. QED
    BY <2>3, <2>5
<1>2. CASE i \notin Text
  <2>1. i \in Hooked /\ Walked(i) = Hook(i)
    BY <1>2 DEF Hooked, Text, Walked
  <2>. QED
    BY <2>1, HookLine
<1>. QED
  BY <1>1, <1>2

(* Where the ledger is honest, it vouches for hooked records in the spool. *)
LEMMA VouchedSpooled ==
  ASSUME ledger \subseteq Lines, LedgerVouches, NEW i \in Hooked, Vouched(i, ledger)
  PROVE  i \in spool
<1>1. i \in Items
  BY DEF Hooked
<1>2. CASE Hook(i) \in ledger \/ Walked(i) \in ledger
  BY <1>1, <1>2 DEF LedgerVouches
<1>3. CASE i \in Text /\ \E l \in ledger : l.type = "answer" /\ l.key = Story[i].key
  <2>1. PICK l \in ledger : l.type = "answer" /\ l.key = Story[i].key
    BY <1>3
  <2>2. PICK j \in Items : l = Hook(j) \/ l = Walked(j)
    BY <2>1 DEF Lines
  <2>3. l = Hook(j)
    <3>1. CASE l = Walked(j) /\ j \in Text
      BY <2>1, <3>1 DEF Walked
    <3>2. CASE l = Walked(j) /\ j \notin Text
      BY <3>2 DEF Walked
    <3>. QED
      BY <2>2, <3>1, <3>2
  <2>4. Kind(i) = "answer"
    BY <1>3 DEF Hooked, Text
  <2>5. l = Hook(i)
    BY <2>1, <2>3, <2>4 DEF Hook
  <2>. QED
    BY <1>1, <2>1, <2>5 DEF LedgerVouches
<1>. QED
  BY <1>2, <1>3 DEF Vouched

-----------------------------------------------------------------------------
(* Types.                                                                  *)

LEMMA InitTypeOK == Init => TypeOK
<1>1. 0 \in 0 .. Len(Story) /\ 0 \in 0 .. MaxFaults
  BY StoryFacts
<1>2. IdlePass \in PassState
  BY <1>1 DEF IdlePass, PassState
<1>3. 0 \in 0 .. 0
  OBVIOUS
<1>4. ASSUME Init PROVE TypeOK
  <2>1. /\ said = 0 /\ flushed = 0 /\ alive = TRUE /\ gone = FALSE /\ insured = {}
        /\ spool = {} /\ ledger = {} /\ daemon = "none" /\ faults = 0
        /\ unread = {}
    BY <1>4 DEF Init
  <2>2. pass \in [Passes -> PassState]
    BY <1>2, <1>4 DEF Init
  <2>3. hook \in [Items -> Phases] /\ marker \in [Items -> Markers]
    BY <1>4 DEF Init, Phases, Markers
  <2>. QED
    BY <1>1, <1>3, <2>1, <2>2, <2>3 DEF TypeOK
<1>. QED
  BY <1>4

LEMMA HarnessTypeOK ==
  ASSUME TypeOK, Harness
  PROVE  TypeOK'
<1>1. CASE Happens
  <2>1. said + 1 \in Items /\ said' \in 0 .. Len(Story) /\ flushed \in 0 .. said'
    BY <1>1, StoryFacts DEF Happens, TypeOK, Items
  <2>2. hook' \in [Items -> Phases]
    BY <1>1, <2>1 DEF Happens, TypeOK, Phases
  <2>. QED
    BY <1>1, <2>1, <2>2 DEF Happens, TypeOK
<1>2. CASE Flush
  <2>1. flushed' \in 0 .. said /\ said' = said
    BY <1>2, StoryFacts DEF Flush, TypeOK
  <2>. QED
    BY <1>2, <2>1 DEF Flush, TypeOK, hooks
<1>3. CASE HarnessDies
  BY <1>3 DEF HarnessDies, TypeOK, hooks
<1>4. CASE TranscriptGone
  BY <1>4 DEF TranscriptGone, TypeOK, hooks
<1>. QED
  BY <1>1, <1>2, <1>3, <1>4 DEF Harness

LEMMA HookTypeOK ==
  ASSUME TypeOK, NEW i \in Items, HookSteps(i) \/ HookDies(i) \/ Settle(i)
  PROVE  TypeOK'
<1>1. CASE WriteMarker(i)
  BY <1>1 DEF WriteMarker, TypeOK, Phases, Markers, story
<1>2. CASE Spool(i)
  BY <1>2 DEF Spool, TypeOK, Phases, story
<1>3. CASE SpoolRefuses(i)
  BY <1>3 DEF SpoolRefuses, TypeOK, Phases, story
<1>4. CASE Captured(i)
  <2>1. Hook(i) \in Lines
    BY DEF Lines
  <2>2. ledger' \subseteq Lines
    BY <1>4, <2>1 DEF Captured, TypeOK
  <2>. QED
    BY <1>4, <2>2 DEF Captured, TypeOK, Phases, story
<1>5. CASE Clear(i)
  BY <1>5 DEF Clear, TypeOK, Phases, Markers, story
<1>6. CASE HookDies(i)
  BY <1>6 DEF HookDies, TypeOK, Phases, Markers, story
<1>7. CASE Settle(i)
  BY <1>7 DEF Settle, TypeOK, Markers, story, hooks
<1>. QED
  BY <1>1, <1>2, <1>3, <1>4, <1>5, <1>6, <1>7 DEF HookSteps

LEMMA ClearedType ==
  ASSUME marker \in [Items -> Markers], NEW old
  PROVE  Cleared(old) \in [Items -> Markers]
BY DEF Cleared, Markers

LEMMA BeginType ==
  ASSUME TypeOK, NEW q \in Passes, Begin(q)
  PROVE  pass' \in [Passes -> PassState]
<1>1. [pc |-> "anchors", settled |-> Settled, seen |-> 0, todo |-> {}, emitted |-> {}]
        \in PassState
  BY StoryFacts DEF PassState, Settled
<1>. QED
  BY <1>1 DEF Begin, TypeOK

LEMMA DaemonTypeOK ==
  ASSUME TypeOK, DaemonStarts \/ DaemonEnds \/ DaemonLeaves \/ ClearTorn
  PROVE  TypeOK'
<1>1. CASE DaemonStarts
  BY <1>1 DEF DaemonStarts, TypeOK, story, hooks
<1>2. CASE DaemonEnds
  <2>1. pass' \in [Passes -> PassState]
    BY <1>2, BeginType DEF DaemonEnds, Passes
  <2>. QED
    BY <1>2, <2>1 DEF DaemonEnds, TypeOK, story, hooks
<1>3. CASE DaemonLeaves
  BY <1>3 DEF DaemonLeaves, TypeOK, story, hooks
<1>4. CASE ClearTorn
  BY <1>4, ClearedType DEF ClearTorn, TypeOK, story, hooks
<1>. QED
  BY <1>1, <1>2, <1>3, <1>4

LEMMA PassTypeOK ==
  ASSUME TypeOK, NEW q \in Passes,
         RecoverMarked(q) \/ Reconcile(q) \/ PassSteps(q) \/ ReadFails(q) \/ Killed(q)
  PROVE  TypeOK'
<1>0. /\ pass[q] \in PassState /\ 0 \in 0 .. Len(Story)
      /\ flushed \in 0 .. Len(Story) /\ MaxFaults \in Nat
  BY StoryFacts DEF TypeOK
<1>1. CASE RecoverMarked(q)
  BY <1>1, BeginType DEF RecoverMarked, TypeOK, story, hooks
<1>2. CASE Reconcile(q)
  BY <1>2, BeginType DEF Reconcile, TypeOK, story, hooks
<1>3. CASE Anchors(q)
  <2>1. [pc |-> IF gone THEN "clear" ELSE "diff", settled |-> pass[q].settled,
         seen |-> IF gone THEN 0 ELSE flushed, todo |-> {}, emitted |-> {}]
          \in PassState
    BY <1>0 DEF PassState
  <2>2. pass' \in [Passes -> PassState]
    BY <1>3, <2>1 DEF Anchors, TypeOK
  <2>. QED
    BY <1>3, <2>2 DEF Anchors, TypeOK, story, hooks
<1>4. CASE Diff(q)
  <2>1. Missing(pass[q].seen, AgentsRead(q), ledger) \subseteq Items
    BY DEF Missing
  <2>2. [pc |-> "walk", settled |-> pass[q].settled, seen |-> 0,
         todo |-> Missing(pass[q].seen, AgentsRead(q), ledger), emitted |-> {}]
          \in PassState
    BY <1>0, <2>1 DEF PassState
  <2>3. pass' \in [Passes -> PassState]
    BY <1>4, <2>2 DEF Diff, TypeOK
  <2>. QED
    BY <1>4, <2>3 DEF Diff, TypeOK, story, hooks
<1>5. CASE Emit(q)
  <2>1. PICK i \in pass[q].todo : /\ spool' = spool \cup {i}
          /\ pass' = [pass EXCEPT ![q] =
               [pc |-> "walk", settled |-> @.settled, seen |-> 0,
                todo |-> @.todo \ {i}, emitted |-> @.emitted \cup {i}]]
    BY <1>5 DEF Emit
  <2>2. i \in Items
    BY <1>0, <2>1 DEF PassState
  <2>3. [pc |-> "walk", settled |-> pass[q].settled, seen |-> 0,
         todo |-> pass[q].todo \ {i}, emitted |-> pass[q].emitted \cup {i}]
          \in PassState
    BY <1>0, <2>2 DEF PassState
  <2>4. pass' \in [Passes -> PassState]
    BY <2>1, <2>3 DEF TypeOK
  <2>. QED
    BY <1>5, <2>1, <2>2, <2>4 DEF Emit, TypeOK, story, hooks
<1>6. CASE WalkEnds(q)
  <2>1. [pc |-> "record", settled |-> pass[q].settled, seen |-> 0,
         todo |-> IF gone THEN {} ELSE pass[q].todo, emitted |-> pass[q].emitted]
          \in PassState
    BY <1>0 DEF PassState
  <2>2. pass' \in [Passes -> PassState]
    BY <1>6, <2>1 DEF WalkEnds, TypeOK
  <2>3. faults' \in 0 .. MaxFaults
    BY <1>0, <1>6 DEF WalkEnds, TypeOK
  <2>. QED
    BY <1>6, <2>2, <2>3 DEF WalkEnds, TypeOK, story, hooks
<1>7. CASE RecordLines(q)
  <2>1. [pc |-> "clear", settled |-> pass[q].settled, seen |-> 0, todo |-> {},
         emitted |-> {}] \in PassState /\ IdlePass \in PassState
    BY <1>0 DEF PassState, IdlePass
  <2>2. pass' \in [Passes -> PassState]
    BY <1>7, <2>1 DEF RecordLines, TypeOK
  <2>3. faults' \in 0 .. MaxFaults
    BY <1>0, <1>7 DEF RecordLines, TypeOK
  <2>4. \A i \in pass[q].emitted : Walked(i) \in Lines
    BY <1>0 DEF PassState, Lines
  <2>5. ledger' \subseteq Lines
    BY <1>7, <2>4 DEF RecordLines, TypeOK
  <2>. QED
    BY <1>7, <2>2, <2>3, <2>5 DEF RecordLines, TypeOK, story, hooks
<1>8. CASE ClearSettled(q)
  <2>1. pass' \in [Passes -> PassState]
    BY <1>0, <1>8 DEF ClearSettled, TypeOK, PassState, IdlePass
  <2>. QED
    BY <1>8, <2>1, ClearedType DEF ClearSettled, TypeOK, story, hooks
<1>9. CASE Killed(q)
  <2>1. pass' \in [Passes -> PassState]
    BY <1>0, <1>9 DEF Killed, TypeOK, PassState, IdlePass
  <2>2. faults' \in 0 .. MaxFaults
    BY <1>0, <1>9 DEF Killed, TypeOK
  <2>. QED
    BY <1>9, <2>1, <2>2 DEF Killed, TypeOK, story, hooks
<1>10. CASE ReadFails(q)
  <2>1. PICK S \in SUBSET Items, pc \in {"clear", "walk", "record"}, todo \in SUBSET Items :
          GoesOn(q, S, pc, todo)
    <3>1. /\ Missing(pass[q].seen, 0, ledger) \subseteq Items /\ Agents \subseteq Items
          /\ pass[q].todo \subseteq Items
      BY <1>0 DEF Missing, Agents, PassState
    <3>. QED
      BY <1>10, <3>1 DEF ReadFails
  <2>2. [pc |-> pc, settled |-> pass[q].settled, seen |-> 0, todo |-> todo,
         emitted |-> pass[q].emitted] \in PassState
    BY <1>0 DEF PassState
  <2>3. pass' \in [Passes -> PassState]
    BY <2>1, <2>2 DEF GoesOn, TypeOK
  <2>4. faults' \in 0 .. MaxFaults /\ unread' \subseteq Items
    BY <1>0, <2>1 DEF GoesOn, TypeOK
  <2>. QED
    BY <2>1, <2>3, <2>4 DEF GoesOn, TypeOK, story, hooks
<1>. QED
  BY <1>1, <1>2, <1>3, <1>4, <1>5, <1>6, <1>7, <1>8, <1>9, <1>10 DEF PassSteps

-----------------------------------------------------------------------------
(* The inductive invariant.                                                *)

LEMMA InitIInv == Init => IInv
<1>1. ASSUME Init PROVE IInv
  <2>1. TypeOK
    BY <1>1, InitTypeOK
  <2>2. \A i \in Items : HookOK(i) /\ Kept(i)
    BY <1>1 DEF Init, HookOK, Kept
  <2>3. LedgerVouches
    BY <1>1 DEF Init, LedgerVouches
  <2>4. \A q \in Passes : PassOK(q)
    BY <1>1 DEF Init, PassOK, IdlePass
  <2>. QED
    BY <2>1, <2>2, <2>3, <2>4 DEF IInv
<1>. QED
  BY <1>1

(* A pass that takes no step keeps its promise while the spool grows, the  *)
(* harness writes what it still can and hooks move on.                     *)
LEMMA PassStable ==
  ASSUME TypeOK, NEW q \in Passes, PassOK(q), pass'[q] = pass[q],
         spool \subseteq spool', unread \subseteq unread',
         flushed' = flushed \/ (alive /\ flushed' \in Nat /\ flushed < flushed'),
         alive' => alive, gone => gone',
         \A i \in Items : i \in insured' => i \in insured \/ hook[i] = "begun",
         \A i \in Items : hook'[i] \in {"none", "begun"} => hook[i] \in {"none", "begun"},
         \A i \in Items : marker'[i] = "young" => marker[i] = "young" \/ hook[i] = "begun"
  PROVE  PassOK(q)'
<1>1. /\ pass[q].settled \subseteq Items /\ flushed \in Nat
      /\ pass[q].seen \in Nat /\ \A i \in Items : i \in Nat
  BY StoryFacts DEF TypeOK, PassState
<1>2. ASSUME NEW i \in pass[q].settled, pass[q].pc # "idle"
      PROVE  /\ i <= flushed' \/ ~alive'
             /\ i <= flushed' => i <= flushed
             /\ hook'[i] \notin {"none", "begun"} /\ marker'[i] # "young"
             /\ i \in insured' => i \in insured
  <2>1. i \in Nat /\ i \in Items
    BY <1>1
  <2>2. i <= flushed \/ ~alive
    BY <1>2 DEF PassOK
  <2>3. hook[i] \notin {"none", "begun"} /\ marker[i] # "young"
    BY <1>2 DEF PassOK
  <2>4. i <= flushed => i <= flushed'
    BY <1>1, <2>1
  <2>5. i <= flushed' => i <= flushed
    BY <1>1, <2>1, <2>2
  <2>. QED
    BY <2>1, <2>2, <2>3, <2>4, <2>5
<1>3. (pass[q].emitted \subseteq spool)'
  BY DEF PassOK
<1>4. pass'[q].pc = "diff" => \A i \in pass'[q].settled :
        i <= flushed' => i <= pass'[q].seen
  BY <1>2 DEF PassOK
<1>5. pass'[q].pc \in {"walk", "record"} => \A i \in (pass'[q].settled \cap insured') \ unread' :
        i <= flushed' /\ ~gone' => i \in spool' \cup pass'[q].todo
  BY <1>2 DEF PassOK
<1>6. pass'[q].pc = "clear" => \A i \in (pass'[q].settled \cap insured') \ unread' :
        i <= flushed' /\ ~gone' => i \in spool'
  BY <1>2 DEF PassOK
<1>. QED
  BY <1>2, <1>3, <1>4, <1>5, <1>6 DEF PassOK

LEMMA HarnessIInv ==
  ASSUME IInv, Harness
  PROVE  IInv'
<1>0. TypeOK /\ TypeOK' /\ \A i \in Items : HookOK(i) /\ Kept(i)
  BY HarnessTypeOK DEF IInv
<1>1. /\ UNCHANGED <<insured, marker, spool, ledger, pass, unread>>
      /\ alive' => alive
      /\ gone => gone'
  BY DEF Harness, Happens, Flush, HarnessDies, TranscriptGone, hooks, TypeOK
<1>2. flushed' = flushed \/ (alive /\ flushed' \in Nat /\ flushed < flushed')
  BY <1>0, StoryFacts DEF Harness, Happens, Flush, HarnessDies, TranscriptGone, TypeOK
<1>3. flushed <= flushed' /\ flushed \in Nat /\ flushed' \in Nat
  BY <1>0, <1>2, StoryFacts DEF TypeOK
<1>4. /\ \A i \in Items : hook'[i] \in {"none", "begun"} => hook[i] \in {"none", "begun"}
      /\ \A i \in Items : HookOK(i)'
  <2>1. CASE Happens
    <3>1. said + 1 \in Items /\ said \in Nat /\ hook \in [Items -> Phases]
      BY <1>0, <2>1, StoryFacts DEF Happens, TypeOK, Items
    <3>2. hook[said + 1] = "none" /\ said + 1 > said
      BY <1>0, <3>1 DEF HookOK
    <3>3. /\ hook'[said + 1] = IF said + 1 \in Hooked THEN "begun" ELSE "none"
          /\ \A i \in Items : i # said + 1 => hook'[i] = hook[i]
      BY <2>1, <3>1 DEF Happens
    <3>4. \A i \in Items : hook'[i] \in {"none", "begun"} => hook[i] \in {"none", "begun"}
      BY <3>2, <3>3
    <3>5. ASSUME NEW i \in Items PROVE HookOK(i)'
      <4>1. i \in Nat /\ said' = said + 1 /\ (i > said' => i > said /\ i # said + 1)
        BY <2>1, <3>1, StoryFacts DEF Happens
      <4>2. flushed' = flushed /\ alive' = alive
        BY <2>1 DEF Happens
      <4>3. CASE i = said + 1
        BY <1>0, <1>1, <3>1, <3>2, <3>3, <4>1, <4>2, <4>3 DEF HookOK
      <4>4. CASE i # said + 1
        BY <1>0, <1>1, <3>1, <3>3, <4>1, <4>2, <4>4 DEF HookOK
      <4>. QED
        BY <4>3, <4>4
    <3>. QED
      BY <3>4, <3>5
  <2>2. CASE ~Happens
    <3>1. UNCHANGED <<hook, said>>
      BY <2>2 DEF Harness, Flush, HarnessDies, TranscriptGone, hooks
    <3>2. ASSUME NEW i \in Items PROVE HookOK(i)'
      <4>1. i \in Nat
        BY StoryFacts
      <4>2. i <= flushed \/ ~alive => i <= flushed' \/ ~alive'
        BY <1>1, <1>3, <4>1
      <4>. QED
        BY <1>0, <1>1, <3>1, <4>2 DEF HookOK
    <3>. QED
      BY <3>1, <3>2
  <2>. QED
    BY <2>1, <2>2
<1>5. \A i \in Items : Kept(i)'
  <2>1. ASSUME NEW i \in Items PROVE i <= flushed' \/ alive' => i <= flushed \/ alive
    BY <1>1, <1>2, StoryFacts
  <2>. QED
    BY <1>0, <1>1, <2>1 DEF Kept
<1>6. LedgerVouches'
  BY <1>1 DEF IInv, LedgerVouches, Hook, Walked
<1>7. ASSUME NEW q \in Passes PROVE PassOK(q)'
  <2>1. PassOK(q)
    BY DEF IInv
  <2>. QED
    BY <1>0, <1>1, <1>2, <1>4, <2>1, PassStable
<1>. QED
  BY <1>0, <1>4, <1>5, <1>6, <1>7 DEF IInv

(* A step of a hook, or of time on its marker.                             *)
LEMMA HookIInv ==
  ASSUME IInv, NEW i \in Items, HookSteps(i) \/ HookDies(i) \/ Settle(i)
  PROVE  IInv'
<1>0. TypeOK /\ TypeOK' /\ \A j \in Items : HookOK(j) /\ Kept(j)
  BY HookTypeOK DEF IInv
<1>1. /\ UNCHANGED <<said, flushed, alive, gone, pass, unread>> /\ spool \subseteq spool'
      /\ hook \in [Items -> Phases] /\ marker \in [Items -> Markers]
      /\ \A j \in Items : j \in Nat
  BY <1>0, StoryFacts DEF HookSteps, WriteMarker, Spool, SpoolRefuses, Captured, Clear,
     HookDies, Settle, story, TypeOK
<1>2. \A j \in Items \ {i} : /\ hook'[j] = hook[j] /\ marker'[j] = marker[j]
                             /\ j \in insured' <=> j \in insured
  BY <1>1 DEF HookSteps, WriteMarker, Spool, SpoolRefuses, Captured, Clear,
     HookDies, Settle, hooks
<1>3. /\ HookOK(i)' /\ Kept(i)'
      /\ i \in insured' => i \in insured \/ hook[i] = "begun"
      /\ hook'[i] \in {"none", "begun"} => hook[i] \in {"none", "begun"}
      /\ marker'[i] = "young" => marker[i] = "young" \/ hook[i] = "begun"
  <2>1. CASE WriteMarker(i)
    BY <1>0, <1>1, <2>1 DEF WriteMarker, HookOK, Kept
  <2>2. CASE Spool(i)
    BY <1>0, <1>1, <2>2 DEF Spool, HookOK, Kept
  <2>3. CASE SpoolRefuses(i)
    BY <1>0, <1>1, <2>3 DEF SpoolRefuses, HookOK, Kept
  <2>4. CASE Captured(i)
    BY <1>0, <1>1, <2>4 DEF Captured, HookOK, Kept
  <2>5. CASE Clear(i)
    BY <1>0, <1>1, <2>5 DEF Clear, HookOK, Kept
  <2>6. CASE HookDies(i)
    BY <1>0, <1>1, <2>6 DEF HookDies, HookOK, Kept
  <2>7. CASE Settle(i)
    BY <1>0, <1>1, <2>7 DEF Settle, HookOK, Kept, hooks
  <2>. QED
    BY <2>1, <2>2, <2>3, <2>4, <2>5, <2>6, <2>7 DEF HookSteps
<1>4. ASSUME NEW j \in Items \ {i} PROVE HookOK(j)' /\ Kept(j)'
  <2>1. HookOK(j) /\ Kept(j)
    BY <1>0
  <2>2. /\ hook'[j] = hook[j] /\ marker'[j] = marker[j]
        /\ j \in insured' <=> j \in insured
    BY <1>2
  <2>3. HookOK(j)'
    BY <1>1, <2>1, <2>2 DEF HookOK
  <2>4. Kept(j)'
    BY <1>1, <2>1, <2>2 DEF Kept
  <2>. QED
    BY <2>3, <2>4
<1>5. LedgerVouches'
  <2>1. CASE Captured(i)
    <3>1. i \in Hooked /\ i \in spool
      BY <1>0, <2>1 DEF Captured, HookOK
    <3>2. spool' = spool /\ ledger' \in {ledger, ledger \cup {Hook(i)}}
      BY <2>1 DEF Captured
    <3>3. ASSUME NEW j \in Items, Hook(j) \in ledger' \/ Walked(j) \in ledger'
          PROVE  j \in spool'
      <4>1. CASE Hook(j) \in ledger \/ Walked(j) \in ledger
        BY <3>2, <4>1 DEF IInv, LedgerVouches
      <4>2. CASE Hook(j) = Hook(i) \/ Walked(j) = Hook(i)
        BY <3>1, <3>2, <4>2, HookLine
      <4>. QED
        BY <3>2, <3>3, <4>1, <4>2
    <3>. QED
      BY <3>3 DEF LedgerVouches, Hook, Walked
  <2>2. CASE ~Captured(i)
    <3>1. ledger' = ledger
      BY <2>2 DEF HookSteps, WriteMarker, Spool, SpoolRefuses, Clear, HookDies, Settle
    <3>. QED
      BY <1>1, <3>1 DEF IInv, LedgerVouches, Hook, Walked
  <2>. QED
    BY <2>1, <2>2
<1>6. ASSUME NEW q \in Passes PROVE PassOK(q)'
  <2>1. PassOK(q)
    BY DEF IInv
  <2>2. ASSUME NEW j \in Items
        PROVE  /\ j \in insured' => j \in insured \/ hook[j] = "begun"
               /\ hook'[j] \in {"none", "begun"} => hook[j] \in {"none", "begun"}
               /\ marker'[j] = "young" => marker[j] = "young" \/ hook[j] = "begun"
    <3>1. CASE j = i
      BY <1>3, <3>1
    <3>2. CASE j # i
      BY <1>2, <3>2
    <3>. QED
      BY <3>1, <3>2
  <2>. QED
    BY <1>0, <1>1, <2>1, <2>2, PassStable
<1>. QED
  BY <1>0, <1>3, <1>4, <1>5, <1>6 DEF IInv

-----------------------------------------------------------------------------
(* The steps of daemons and passes.                                        *)

(* They leave the story and the hooks alone; a marker may go, the spool    *)
(* may grow.                                                               *)
LEMMA PassFrame ==
  ASSUME IInv, TypeOK', UNCHANGED <<story, hooks>>, spool \subseteq spool',
         unread \subseteq unread',
         \A i \in Items : marker'[i] = marker[i] \/ (marker'[i] = "none" /\ Kept(i)'),
         LedgerVouches',
         \A q \in Passes : pass'[q] = pass[q] \/ PassOK(q)'
  PROVE  IInv'
<1>1. UNCHANGED <<said, flushed, alive, gone, hook, insured>>
  BY DEF story, hooks
<1>2. TypeOK /\ \A i \in Items : HookOK(i) /\ Kept(i)
  BY DEF IInv
<1>3. ASSUME NEW i \in Items PROVE HookOK(i)'
  BY <1>1, <1>2 DEF HookOK
<1>4. ASSUME NEW i \in Items PROVE Kept(i)'
  <2>1. CASE marker'[i] = marker[i]
    BY <1>1, <1>2, <2>1 DEF Kept
  <2>. QED
    BY <2>1
<1>5. ASSUME NEW q \in Passes PROVE PassOK(q)'
  <2>1. CASE pass'[q] = pass[q]
    <3>1. PassOK(q)
      BY DEF IInv
    <3>2. \A i \in Items : marker'[i] = "young" => marker[i] = "young"
      OBVIOUS
    <3>. QED
      BY <1>1, <1>2, <2>1, <3>1, <3>2, PassStable
  <2>. QED
    BY <2>1
<1>. QED
  BY <1>3, <1>4, <1>5 DEF IInv

LEMMA LedgerFrame ==
  ASSUME LedgerVouches, spool \subseteq spool', UNCHANGED ledger
  PROVE  LedgerVouches'
BY DEF LedgerVouches, Hook, Walked

(* A pass begins with markers older than the grace.                        *)
LEMMA BeginOK ==
  ASSUME IInv, NEW q \in Passes, Begin(q), UNCHANGED <<story, hooks, marker>>
  PROVE  /\ PassOK(q)'
         /\ \A r \in Passes : pass'[r] = pass[r] \/ PassOK(r)'
<1>1. /\ UNCHANGED <<flushed, alive, hook>>
      /\ TypeOK /\ \A i \in Items : HookOK(i)
  BY DEF IInv, story, hooks
<1>2. /\ pass'[q] = [pc |-> "anchors", settled |-> Settled, seen |-> 0, todo |-> {},
                    emitted |-> {}]
      /\ \A r \in Passes : r # q => pass'[r] = pass[r]
  BY <1>1 DEF Begin, TypeOK
<1>3. ASSUME NEW i \in Settled
      PROVE  /\ i <= flushed \/ ~alive
             /\ hook[i] \notin {"none", "begun"} /\ marker[i] # "young"
  BY <1>1 DEF Settled, HookOK
<1>4. PassOK(q)'
  BY <1>1, <1>2, <1>3 DEF PassOK
<1>. QED
  BY <1>2, <1>4

LEMMA DaemonIInv ==
  ASSUME IInv, DaemonStarts \/ DaemonEnds \/ DaemonLeaves \/ ClearTorn
  PROVE  IInv'
<1>0. TypeOK /\ TypeOK' /\ LedgerVouches
  BY DaemonTypeOK DEF IInv
<1>1. CASE DaemonStarts \/ DaemonLeaves
  <2>1. UNCHANGED <<story, hooks, marker, spool, ledger, pass, unread>>
    BY <1>1 DEF DaemonStarts, DaemonLeaves
  <2>2. LedgerVouches'
    BY <1>0, <2>1, LedgerFrame
  <2>. QED
    BY <1>0, <2>1, <2>2, PassFrame
<1>2. CASE DaemonEnds
  <2>1. UNCHANGED <<story, hooks, marker, spool, ledger, unread>> /\ Begin(Own) /\ Own \in Passes
    BY <1>2 DEF DaemonEnds, Passes
  <2>2. LedgerVouches'
    BY <1>0, <2>1, LedgerFrame
  <2>3. \A r \in Passes : pass'[r] = pass[r] \/ PassOK(r)'
    BY <2>1, BeginOK
  <2>. QED
    BY <1>0, <2>1, <2>2, <2>3, PassFrame
<1>3. CASE ClearTorn
  <2>1. UNCHANGED <<story, hooks, spool, ledger, pass, unread>>
    BY <1>3 DEF ClearTorn
  <2>2. ASSUME NEW i \in Items
        PROVE  marker'[i] = marker[i] \/ (marker'[i] = "none" /\ Kept(i)')
    <3>1. marker'[i] = IF i \in Settled THEN "none" ELSE marker[i]
      BY <1>3 DEF ClearTorn, Cleared
    <3>2. CASE i \in Settled
      <4>1. marker[i] = "torn_old"
        BY <1>3, <3>2 DEF ClearTorn, Settled, Named
      <4>2. i \notin insured /\ insured' = insured
        BY <2>1, <4>1 DEF IInv, HookOK, hooks
      <4>. QED
        BY <3>1, <3>2, <4>2 DEF Kept
    <3>. QED
      BY <3>1, <3>2
  <2>3. LedgerVouches'
    BY <1>0, <2>1, LedgerFrame
  <2>. QED
    BY <1>0, <2>1, <2>2, <2>3, PassFrame
<1>. QED
  BY <1>1, <1>2, <1>3

(* The walk a pass plans covers every marked event it has not found vouched*)
(* for: the ledger is read after the transcript, the markers with it.      *)
LEMMA DiffCovers ==
  ASSUME IInv, NEW q \in Passes, pass[q].pc = "diff", NEW m,
         NEW i \in (pass[q].settled \cap insured) \ unread, i <= flushed, ~gone,
         i \in Agents => m = AgentsRead(q)
  PROVE  i \in spool \cup Missing(pass[q].seen, m, ledger)
<1>1. /\ TypeOK /\ PassOK(q) /\ \A j \in Items : HookOK(j) /\ Kept(j)
      /\ pass[q].settled \subseteq Items
      /\ ledger \subseteq Lines /\ LedgerVouches
  BY DEF IInv, TypeOK, PassState
<1>2. hook[i] \notin {"none", "begun"} /\ marker[i] # "young"
  BY <1>1 DEF PassOK
<1>3. i \in Items /\ i \in Hooked /\ i <= pass[q].seen
  BY <1>1, <1>2 DEF PassOK, HookOK
<1>4. i \in spool \/ marker[i] = "old"
  BY <1>1, <1>2, <1>3 DEF Kept
<1>5. CASE Vouched(i, ledger)
  BY <1>1, <1>3, <1>5, VouchedSpooled
<1>6. CASE ~Vouched(i, ledger) /\ i \in Agents /\ marker[i] = "old"
  <2>1. i \in Agents \cap Named \cap pass[q].settled
    BY <1>3, <1>6 DEF Named
  <2>2. m = flushed
    BY <1>6, <2>1 DEF AgentsRead
  <2>3. i \notin Text
    BY <1>6, StoryAssumption DEF Tool, Text
  <2>. QED
    BY <1>3, <1>6, <2>2, <2>3 DEF Missing
<1>7. CASE ~Vouched(i, ledger) /\ i \notin Agents
  <2>1. ASSUME i \in Text PROVE Final(i, pass[q].seen)
    <3>1. i \in Text /\ Kind(i) = "answer"
      BY <1>3, <2>1 DEF Hooked, Text
    <3>2. \A j \in Text : Story[j].key = Story[i].key => j <= i
      BY <3>1, StoryAssumption
    <3>3. \A j \in Text : j \in Nat /\ i \in Nat
      BY <1>3, StoryFacts DEF Text
    <3>4. \A j \in Text : i < j => ~(j <= i)
      BY <3>3
    <3>. QED
      BY <3>2, <3>4 DEF Final
  <2>. QED
    BY <1>3, <1>7, <2>1 DEF Missing
<1>. QED
  BY <1>4, <1>5, <1>6, <1>7

LEMMA DiffOK ==
  ASSUME IInv, NEW q \in Passes, Diff(q)
  PROVE  PassOK(q)'
<1>1. /\ UNCHANGED <<flushed, alive, gone, hook, insured, marker, spool, unread>>
      /\ TypeOK /\ PassOK(q) /\ pass[q].pc = "diff"
  BY DEF Diff, IInv, TypeOK, story, hooks
<1>2. pass'[q] = [pc |-> "walk", settled |-> pass[q].settled, seen |-> 0,
                 todo |-> Missing(pass[q].seen, AgentsRead(q), ledger), emitted |-> {}]
  BY <1>1 DEF Diff, TypeOK
<1>3. ASSUME NEW i \in pass[q].settled
      PROVE  /\ i <= flushed \/ ~alive
             /\ hook[i] \notin {"none", "begun"} /\ marker[i] # "young"
  BY <1>1 DEF PassOK
<1>4. ASSUME NEW i \in (pass[q].settled \cap insured) \ unread, i <= flushed, ~gone
      PROVE  i \in spool \cup Missing(pass[q].seen, AgentsRead(q), ledger)
  BY <1>1, <1>4, DiffCovers
<1>. QED
  BY <1>1, <1>2, <1>3, <1>4 DEF PassOK

(* A pass that cannot read a file answers for the records of the others.   *)
LEMMA UnreadOK ==
  ASSUME IInv, NEW q \in Passes, ReadFails(q)
  PROVE  PassOK(q)'
<1>1. /\ TypeOK /\ PassOK(q) /\ pass[q].settled \subseteq Items
      /\ pass \in [Passes -> PassState]
  BY DEF IInv, TypeOK, PassState
<1>2. UNCHANGED <<flushed, alive, gone, hook, insured, marker, spool>>
  BY DEF ReadFails, GoesOn, story, hooks
<1>3. ASSUME pass[q].pc # "idle", NEW i \in pass[q].settled
      PROVE  /\ i <= flushed \/ ~alive
             /\ hook[i] \notin {"none", "begun"} /\ marker[i] # "young"
  BY <1>1, <1>3 DEF PassOK
<1>4. CASE pass[q].pc = "anchors" /\ GoesOn(q, Items, "clear", {})
  <2>1. /\ pass'[q] = [pc |-> "clear", settled |-> pass[q].settled, seen |-> 0,
                       todo |-> {}, emitted |-> pass[q].emitted]
        /\ pass[q].settled \subseteq unread'
    BY <1>1, <1>4 DEF GoesOn
  <2>. QED
    BY <1>1, <1>2, <1>3, <1>4, <2>1 DEF PassOK
<1>5. CASE /\ pass[q].pc = "diff"
           /\ GoesOn(q, Agents, "walk", Missing(pass[q].seen, 0, ledger))
  <2>1. /\ pass'[q] = [pc |-> "walk", settled |-> pass[q].settled, seen |-> 0,
                       todo |-> Missing(pass[q].seen, 0, ledger),
                       emitted |-> pass[q].emitted]
        /\ unread' = unread \cup (pass[q].settled \cap Agents)
    BY <1>1, <1>5 DEF GoesOn
  <2>2. ASSUME NEW i \in (pass[q].settled \cap insured) \ unread', i <= flushed, ~gone
        PROVE  i \in spool \cup Missing(pass[q].seen, 0, ledger)
    <3>1. i \in (pass[q].settled \cap insured) \ unread /\ i \notin Agents
      BY <2>1, <2>2
    <3>. QED
      BY <1>5, <2>2, <3>1, DiffCovers
  <2>. QED
    BY <1>1, <1>2, <1>3, <1>5, <2>1, <2>2 DEF PassOK
<1>6. CASE pass[q].pc = "walk" /\ GoesOn(q, pass[q].todo, "record", {})
  <2>1. /\ pass'[q] = [pc |-> "record", settled |-> pass[q].settled, seen |-> 0,
                       todo |-> {}, emitted |-> pass[q].emitted]
        /\ unread' = unread \cup (pass[q].settled \cap pass[q].todo)
    BY <1>1, <1>6 DEF GoesOn
  <2>2. \A i \in (pass[q].settled \cap insured) \ unread :
          i <= flushed /\ ~gone => i \in spool \cup pass[q].todo
    BY <1>1, <1>6 DEF PassOK
  <2>3. \A i \in (pass[q].settled \cap insured) \ unread' :
          i <= flushed /\ ~gone => i \in spool
    BY <2>1, <2>2
  <2>. QED
    BY <1>1, <1>2, <1>3, <1>6, <2>1, <2>3 DEF PassOK
<1>. QED
  BY <1>4, <1>5, <1>6 DEF ReadFails

LEMMA WalkOK ==
  ASSUME IInv, NEW q \in Passes, Anchors(q) \/ Emit(q) \/ WalkEnds(q) \/ RecordLines(q)
  PROVE  PassOK(q)'
<1>1. /\ UNCHANGED <<flushed, alive, gone, hook, insured, marker, unread>>
      /\ TypeOK /\ PassOK(q) /\ pass[q].settled \subseteq Items
      /\ pass \in [Passes -> PassState]
  BY DEF Anchors, Emit, WalkEnds, RecordLines, IInv, TypeOK, PassState, story, hooks
<1>2. ASSUME pass[q].pc # "idle", NEW i \in pass[q].settled
      PROVE  /\ i <= flushed \/ ~alive
             /\ hook[i] \notin {"none", "begun"} /\ marker[i] # "young"
  BY <1>1, <1>2 DEF PassOK
<1>3. CASE Anchors(q)
  <2>1. pass'[q] = [pc |-> IF gone THEN "clear" ELSE "diff", settled |-> pass[q].settled,
                    seen |-> IF gone THEN 0 ELSE flushed, todo |-> {}, emitted |-> {}]
        /\ spool' = spool /\ pass[q].pc = "anchors"
    BY <1>1, <1>3 DEF Anchors
  <2>2. CASE gone
    BY <1>1, <1>2, <2>1, <2>2 DEF PassOK
  <2>3. CASE ~gone
    BY <1>1, <1>2, <2>1, <2>3 DEF PassOK
  <2>. QED
    BY <2>2, <2>3
<1>4. CASE Emit(q)
  <2>1. PICK i \in pass[q].todo : /\ spool' = spool \cup {i}
          /\ pass' = [pass EXCEPT ![q] =
               [pc |-> "walk", settled |-> @.settled, seen |-> 0,
                todo |-> @.todo \ {i}, emitted |-> @.emitted \cup {i}]]
    BY <1>4 DEF Emit
  <2>2. pass'[q] = [pc |-> "walk", settled |-> pass[q].settled, seen |-> 0,
                    todo |-> pass[q].todo \ {i}, emitted |-> pass[q].emitted \cup {i}]
        /\ pass[q].pc = "walk"
    BY <1>1, <1>4, <2>1 DEF Emit
  <2>3. \A j \in (pass[q].settled \cap insured) \ unread :
          j <= flushed /\ ~gone => j \in spool \cup pass[q].todo
    BY <1>1, <2>2 DEF PassOK
  <2>. QED
    BY <1>1, <1>2, <2>1, <2>2, <2>3 DEF PassOK
<1>5. CASE WalkEnds(q)
  <2>1. pass'[q] = [pc |-> "record", settled |-> pass[q].settled, seen |-> 0,
                    todo |-> IF gone THEN {} ELSE pass[q].todo,
                    emitted |-> pass[q].emitted]
        /\ pass[q].pc = "walk" /\ spool' = spool
    BY <1>1, <1>5 DEF WalkEnds
  <2>2. \A j \in (pass[q].settled \cap insured) \ unread :
          j <= flushed /\ ~gone => j \in spool \cup pass[q].todo
    BY <1>1, <2>1 DEF PassOK
  <2>3. gone \/ pass'[q].todo = pass[q].todo
    BY <2>1
  <2>. QED
    BY <1>1, <1>2, <2>1, <2>2, <2>3 DEF PassOK
<1>6. CASE RecordLines(q)
  <2>1. /\ pass'[q] = IF pass[q].todo = {}
                      THEN [pc |-> "clear", settled |-> pass[q].settled, seen |-> 0,
                            todo |-> {}, emitted |-> {}]
                      ELSE IdlePass
        /\ pass[q].pc = "record" /\ spool' = spool
    BY <1>1, <1>6 DEF RecordLines
  <2>2. CASE pass[q].todo = {}
    <3>1. \A j \in (pass[q].settled \cap insured) \ unread : j <= flushed /\ ~gone => j \in spool
      BY <1>1, <2>1, <2>2 DEF PassOK
    <3>. QED
      BY <1>1, <1>2, <2>1, <2>2, <3>1 DEF PassOK
  <2>3. CASE pass[q].todo # {}
    BY <2>1, <2>3 DEF PassOK, IdlePass
  <2>. QED
    BY <2>2, <2>3
<1>. QED
  BY <1>3, <1>4, <1>5, <1>6

(* The lines a pass adds are of records the spool has accepted.            *)
LEMMA RecordVouches ==
  ASSUME IInv, NEW q \in Passes, RecordLines(q)
  PROVE  LedgerVouches'
<1>1. /\ spool' = spool /\ pass[q].emitted \subseteq spool /\ spool \subseteq Items
      /\ ledger' = ledger \/ ledger' = ledger \cup {Walked(i) : i \in pass[q].emitted}
  BY DEF RecordLines, IInv, PassOK, TypeOK
<1>2. ASSUME NEW j \in Items, Hook(j) \in ledger' \/ Walked(j) \in ledger'
      PROVE  j \in spool'
  <2>1. CASE Hook(j) \in ledger \/ Walked(j) \in ledger
    BY <1>1, <2>1 DEF IInv, LedgerVouches
  <2>2. ASSUME NEW i \in pass[q].emitted, Hook(j) = Walked(i) \/ Walked(j) = Walked(i)
        PROVE  j \in spool'
    BY <1>1, <2>2, WalkedLine
  <2>. QED
    BY <1>1, <1>2, <2>1, <2>2
<1>. QED
  BY <1>2 DEF LedgerVouches, Hook, Walked

LEMMA PassIInv ==
  ASSUME IInv, NEW q \in Passes,
         RecoverMarked(q) \/ Reconcile(q) \/ PassSteps(q) \/ ReadFails(q) \/ Killed(q)
  PROVE  IInv'
<1>0. /\ TypeOK /\ TypeOK' /\ LedgerVouches /\ pass \in [Passes -> PassState]
  BY PassTypeOK DEF IInv, TypeOK
<1>1. CASE RecoverMarked(q) \/ Reconcile(q)
  <2>1. UNCHANGED <<story, hooks, marker, spool, ledger, unread>> /\ Begin(q)
    BY <1>1 DEF RecoverMarked, Reconcile
  <2>2. LedgerVouches'
    BY <1>0, <2>1, LedgerFrame
  <2>3. \A r \in Passes : pass'[r] = pass[r] \/ PassOK(r)'
    BY <2>1, BeginOK
  <2>. QED
    BY <1>0, <2>1, <2>2, <2>3, PassFrame
<1>2. CASE Anchors(q) \/ Diff(q) \/ Emit(q) \/ WalkEnds(q) \/ RecordLines(q)
  <2>1. UNCHANGED <<story, hooks, marker, unread>> /\ spool \subseteq spool'
    BY <1>2 DEF Anchors, Diff, Emit, WalkEnds, RecordLines
  <2>2. LedgerVouches'
    <3>1. CASE RecordLines(q)
      BY <3>1, RecordVouches
    <3>2. CASE ~RecordLines(q)
      <4>1. ledger' = ledger
        BY <1>2, <3>2 DEF Anchors, Diff, Emit, WalkEnds
      <4>. QED
        BY <1>0, <2>1, <4>1, LedgerFrame
    <3>. QED
      BY <3>1, <3>2
  <2>3. PassOK(q)'
    BY <1>2, DiffOK, WalkOK
  <2>4. \A r \in Passes : r # q => pass'[r] = pass[r]
    BY <1>0, <1>2 DEF Anchors, Diff, Emit, WalkEnds, RecordLines
  <2>5. \A r \in Passes : pass'[r] = pass[r] \/ PassOK(r)'
    BY <2>3, <2>4
  <2>. QED
    BY <1>0, <2>1, <2>2, <2>5, PassFrame
<1>3. CASE ClearSettled(q) \/ Killed(q)
  <2>1. UNCHANGED <<story, hooks, spool, ledger, unread>>
    BY <1>3 DEF ClearSettled, Killed
  <2>2. /\ pass'[q] = IdlePass
        /\ \A r \in Passes : r # q => pass'[r] = pass[r]
    BY <1>0, <1>3 DEF ClearSettled, Killed
  <2>3. LedgerVouches'
    BY <1>0, <2>1, LedgerFrame
  <2>4. PassOK(q)'
    BY <2>2 DEF PassOK, IdlePass
  <2>5. ASSUME NEW i \in Items
        PROVE  marker'[i] = marker[i] \/ (marker'[i] = "none" /\ Kept(i)')
    <3>1. CASE Killed(q)
      BY <3>1 DEF Killed
    <3>2. CASE ClearSettled(q) /\ i \notin pass[q].settled
      BY <3>2 DEF ClearSettled, Cleared
    <3>3. CASE ClearSettled(q) /\ i \in pass[q].settled
      <4>1. marker'[i] = "none" /\ pass[q].pc = "clear"
        BY <3>3 DEF ClearSettled, Cleared
      <4>2. PassOK(q)
        BY DEF IInv
      <4>3. i \in insured \ unread /\ (i <= flushed \/ alive) /\ ~gone => i \in spool
        BY <3>3, <4>1, <4>2 DEF PassOK
      <4>4. UNCHANGED <<insured, flushed, alive, gone, unread>>
        BY <2>1 DEF story, hooks
      <4>. QED
        BY <2>1, <4>1, <4>3, <4>4 DEF Kept
    <3>. QED
      BY <1>3, <3>1, <3>2, <3>3
  <2>6. \A r \in Passes : pass'[r] = pass[r] \/ PassOK(r)'
    BY <2>2, <2>4
  <2>. QED
    BY <1>0, <2>1, <2>3, <2>5, <2>6, PassFrame
<1>4. CASE ReadFails(q)
  <2>1. /\ UNCHANGED <<story, hooks, marker, spool, ledger>> /\ unread \subseteq unread'
        /\ \A r \in Passes : r # q => pass'[r] = pass[r]
    BY <1>0, <1>4 DEF ReadFails, GoesOn
  <2>2. LedgerVouches'
    BY <1>0, <2>1, LedgerFrame
  <2>3. \A r \in Passes : pass'[r] = pass[r] \/ PassOK(r)'
    BY <1>4, <2>1, UnreadOK
  <2>. QED
    BY <1>0, <2>1, <2>2, <2>3, PassFrame
<1>. QED
  BY <1>1, <1>2, <1>3, <1>4 DEF PassSteps

LEMMA NextIInv == IInv /\ [Next]_vars => IInv'
<1>1. ASSUME IInv, Next PROVE IInv'
  <2>1. CASE Harness
    BY <1>1, <2>1, HarnessIInv
  <2>2. CASE ClearTorn \/ DaemonStarts \/ DaemonEnds \/ DaemonLeaves
    BY <1>1, <2>2, DaemonIInv
  <2>3. CASE \E i \in Items : HookSteps(i) \/ HookDies(i) \/ Settle(i)
    BY <1>1, <2>3, HookIInv
  <2>4. CASE \E q \in Visitors : RecoverMarked(q) \/ Reconcile(q)
    BY <1>1, <2>4, PassIInv DEF Passes
  <2>5. CASE \E q \in Passes : PassSteps(q) \/ ReadFails(q) \/ Killed(q)
    BY <1>1, <2>5, PassIInv
  <2>. QED
    BY <1>1, <2>1, <2>2, <2>3, <2>4, <2>5 DEF Next
<1>2. ASSUME IInv, UNCHANGED vars PROVE IInv'
  BY <1>2 DEF vars, story, hooks, IInv, TypeOK, HookOK, Kept, LedgerVouches, PassOK,
     Hook, Walked
<1>. QED
  BY <1>1, <1>2

LEMMA Invariance == Spec => []IInv
BY InitIInv, NextIInv, PTL DEF Spec

-----------------------------------------------------------------------------
(* The results.                                                            *)

(* Every variable of the hooks, the ledger, the markers and the passes has *)
(* its type in every reachable state.                                      *)
THEOREM CaptureTypeCorrect == Spec => []TypeOK
<1>1. IInv => TypeOK
  BY DEF IInv
<1>. QED
  BY Invariance, <1>1, PTL

(* recoverLostEvents and clearRecovered never clear the marker of an event *)
(* that the spool has not accepted and the transcript still holds, unless  *)
(* the file of its record could not be read (backfill.Walk), however       *)
(* many passes, hooks and daemons race and wherever they die.              *)
THEOREM NothingForgotten == Spec => []NeverForgotten
<1>1. IInv => NeverForgotten
  <2>1. TypeOK => insured \subseteq Items
    BY DEF TypeOK
  <2>. QED
    BY <2>1 DEF IInv, Kept, NeverForgotten
<1>. QED
  BY Invariance, <1>1, PTL

(* A line of the ledger, a hook's or a pass's, is written only after the   *)
(* spool has accepted the record that it vouches for.                      *)
THEOREM LedgerIsHonest == Spec => []LedgerVouches
<1>1. IInv => LedgerVouches
  BY DEF IInv
<1>. QED
  BY Invariance, <1>1, PTL

=============================================================================
