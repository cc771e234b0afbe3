----------------------------- MODULE HookCapture -----------------------------
(***************************************************************************)
(* What one session's hooks capture, and how what they lose is found again *)
(* (cmd/loop-sessions/hook.go and recover.go, internal/capture/ledger.go). *)
(*                                                                         *)
(* A hook leaves a marker, spools its event, adds a line to the ledger and *)
(* removes the marker; it may die anywhere. A recovery pass subtracts the  *)
(* ledger from the transcript, spools the records that are missing, adds   *)
(* their lines and clears the markers that were settled when it began. The *)
(* daemon runs one when the session ends, a SessionStart of any session    *)
(* runs one for marked sessions without a daemon.                          *)
(***************************************************************************)
EXTENDS Naturals, Sequences, FiniteSets

CONSTANTS
  Story,       \* the records of the transcript, in file order
  Visitors,    \* SessionStart hooks that may recover this session at once
  Own,         \* the pass of the session's daemon
  MaxFaults    \* Bound: deaths of passes and daemons, files a pass cannot read or write.

(* "aside" is an assistant's text before the turn goes on: it has no hook, *)
(* and nothing in the file tells it from the turn's answer. "key" is the   *)
(* prompt id, or the tool use id of a call and its result; "agent" marks a *)
(* subagent's record, which stands in a file of its own.                   *)
Kinds   == {"prompt", "call", "result", "answer", "aside"}
Items   == 1 .. Len(Story)
Kind(i) == Story[i].kind
Hooked  == {i \in Items : Kind(i) # "aside"}
Tool    == {i \in Items : Kind(i) \in {"call", "result"}}
Agents  == {i \in Items : Story[i].agent}
Text    == {i \in Items : Kind(i) \in {"answer", "aside"}}

(* A line of the ledger. Stop names the prompt it answered; a walked       *)
(* assistant record carries no prompt, and its line names the record.      *)
Hook(i) == [type |-> Kind(i), key |-> Story[i].key, uuid |-> 0]
Walked(i) == IF i \in Text THEN [type |-> "record", key |-> "", uuid |-> i] ELSE Hook(i)
Lines   == {Hook(i) : i \in Items} \cup {Walked(i) : i \in Items}

Passes == Visitors \cup {Own}

(* Every hook has an id of its own, a turn has one answer and it comes     *)
(* last, a subagent's records are tool records.                            *)
ASSUME StoryAssumption ==
  /\ Story \in Seq([kind : Kinds, key : STRING, agent : BOOLEAN])
  /\ \A i, j \in Hooked : Hook(i) = Hook(j) => i = j
  /\ \A i, j \in Text : Kind(i) = "answer" /\ Story[i].key = Story[j].key => j <= i
  /\ Agents \subseteq Tool
  /\ Own \notin Visitors /\ MaxFaults \in Nat

VARIABLES
  said,        \* what has happened of the story; hooks start in its order
  flushed,     \* how much of it the harness has written to the transcript
  alive,       \* the harness runs
  gone,        \* the transcript has been deleted
  hook,        \* per item, the phase of its hook
  insured,     \* the hooks whose marker was written whole
  marker,      \* per item, the marker on disk and its age
  spool,       \* the items of which a copy was accepted
  ledger,      \* the lines of <session>.captured
  daemon,      \* the session's daemon: "none", "running" or "ending"
  pass,        \* per recovery pass
  unread,      \* history: settled when a pass could not read the file of their record
  faults

story == <<said, flushed, alive, gone>>
hooks == <<hook, insured>>
vars  == <<story, hooks, marker, spool, ledger, daemon, pass, unread, faults>>

Phases  == {"none", "begun", "write", "ledger", "clear", "done", "dead"}
Markers == {"none", "torn", "young", "torn_old", "old"}

(* A pass: the markers settled when it began, how much of the transcript   *)
(* it read, the records it has yet to walk and those it has emitted.       *)
IdlePass == [pc |-> "idle", settled |-> {}, seen |-> 0, todo |-> {},
             emitted |-> {}]
PassState ==
  [pc : {"idle", "anchors", "diff", "walk", "record", "clear"},
   settled : SUBSET Items, seen : 0 .. Len(Story), todo : SUBSET Items,
   emitted : SUBSET Items]

Init ==
  /\ said = 0 /\ flushed = 0 /\ alive = TRUE /\ gone = FALSE
  /\ hook = [i \in Items |-> "none"] /\ insured = {}
  /\ marker = [i \in Items |-> "none"]
  /\ spool = {} /\ ledger = {} /\ daemon = "none"
  /\ pass = [q \in Passes |-> IdlePass] /\ unread = {} /\ faults = 0

-----------------------------------------------------------------------------
(* The harness: something happens, its hook starts, the transcript follows *)
(* at the harness's leisure.                                               *)
Happens ==
  /\ alive /\ said < Len(Story)
  /\ said' = said + 1
  /\ hook' = [hook EXCEPT ![said + 1] = IF said + 1 \in Hooked THEN "begun" ELSE "none"]
  /\ UNCHANGED <<flushed, alive, gone, insured, marker, spool, ledger, daemon, pass, unread, faults>>

Flush ==
  /\ alive /\ flushed < said
  /\ flushed' = flushed + 1
  /\ UNCHANGED <<said, alive, gone, hooks, marker, spool, ledger, daemon, pass, unread, faults>>

HarnessDies ==
  /\ alive /\ alive' = FALSE
  /\ UNCHANGED <<said, flushed, gone, hooks, marker, spool, ledger, daemon, pass, unread, faults>>

(* The thirty-day cleanup, or the worktree is deleted.                     *)
TranscriptGone ==
  /\ ~alive /\ ~gone /\ gone' = TRUE
  /\ UNCHANGED <<said, flushed, alive, hooks, marker, spool, ledger, daemon, pass, unread, faults>>

(* A marker turns inflightGrace old. The harness writes its records well   *)
(* within that time, or died before it could; the hook may yet be alive,   *)
(* after a suspend or at a slow write.                                     *)
Settle(i) ==
  /\ marker[i] \in {"young", "torn"}
  /\ i <= flushed \/ ~alive
  /\ marker' = [marker EXCEPT ![i] = IF @ = "young" THEN "old" ELSE "torn_old"]
  /\ UNCHANGED <<story, hooks, spool, ledger, daemon, pass, unread, faults>>

-----------------------------------------------------------------------------
(* The hook of item i (hookRun.capture).                                   *)

(* The marker comes before any work; failing to write it stops nothing.    *)
WriteMarker(i) ==
  /\ hook[i] = "begun"
  /\ hook' = [hook EXCEPT ![i] = "write"]
  /\ \/ marker' = [marker EXCEPT ![i] = "young"] /\ insured' = insured \cup {i}
     \/ UNCHANGED <<marker, insured>>
  /\ UNCHANGED <<story, spool, ledger, daemon, pass, unread, faults>>

(* Mutant: the line is written first.                                      *)
SpoolLate(i) ==
  /\ hook[i] = "write"
  /\ ledger' = ledger \cup {Hook(i)}
  /\ hook' = [hook EXCEPT ![i] = "ledger"]
  /\ UNCHANGED <<story, insured, marker, spool, daemon, pass, unread, faults>>

Spool(i) ==
  /\ hook[i] = "write"
  /\ spool' = spool \cup {i}
  /\ hook' = [hook EXCEPT ![i] = "ledger"]
  /\ UNCHANGED <<story, insured, marker, ledger, daemon, pass, unread, faults>>

(* The spool refuses the event: the hook returns and leaves its marker.    *)
SpoolRefuses(i) ==
  /\ hook[i] = "write"
  /\ hook' = [hook EXCEPT ![i] = "dead"]
  /\ UNCHANGED <<story, insured, marker, spool, ledger, daemon, pass, unread, faults>>

(* One append; an error is logged and no more.                             *)
Captured(i) ==
  /\ hook[i] = "ledger"
  /\ hook' = [hook EXCEPT ![i] = "clear"]
  /\ ledger' \in {ledger, ledger \cup {Hook(i)}}
  /\ UNCHANGED <<story, insured, marker, spool, daemon, pass, unread, faults>>

Clear(i) ==
  /\ hook[i] = "clear"
  /\ hook' = [hook EXCEPT ![i] = "done"]
  /\ marker' = [marker EXCEPT ![i] = "none"]
  /\ UNCHANGED <<story, insured, spool, ledger, daemon, pass, unread, faults>>

(* The teardown of the harness, the hook's own timeout, a crash. Death in  *)
(* the middle of the marker's write leaves a torn one.                     *)
HookDies(i) ==
  /\ hook[i] \notin {"none", "done", "dead"}
  /\ hook' = [hook EXCEPT ![i] = "dead"]
  /\ \/ UNCHANGED marker
     \/ hook[i] = "begun" /\ marker' = [marker EXCEPT ![i] = "torn"]
  /\ UNCHANGED <<story, insured, spool, ledger, daemon, pass, unread, faults>>

-----------------------------------------------------------------------------
(* A recovery pass.                                                        *)

Settled == {i \in Items : marker[i] \in {"old", "torn_old"}}
Named   == {i \in Items : marker[i] = "old"}
Young   == {i \in Items : marker[i] = "young"}

(* Mutant: the markers' directory goes with them.                          *)
ClearedDir(old) == [i \in Items \ old |-> marker[i]]

(* ClearInflightBefore: the markers older than the pass's cutoff.          *)
Cleared(old) == [i \in Items |-> IF i \in old THEN "none" ELSE marker[i]]

(* Mutant: one set of tool ids, so that a call vouches for its lost result.*)
VouchedByEither(i, lines) ==
  \/ Hook(i) \in lines \/ Walked(i) \in lines
  \/ i \in Tool /\ \E l \in lines : l.type \in {"call", "result"} /\ l.key = Story[i].key

(* By the hook's line or a walked one's; Stop's vouches for the turn.      *)
Vouched(i, lines) ==
  \/ Hook(i) \in lines \/ Walked(i) \in lines
  \/ i \in Text /\ \E l \in lines : l.type = "answer" /\ l.key = Story[i].key

(* Mutant: the first text of its turn.                                     *)
Opening(i, n) == \A j \in Text : j < i => Story[j].key # Story[i].key

(* The last text of its turn among the first n records.                    *)
Final(i, n) == \A j \in Text : i < j /\ j <= n => Story[j].key # Story[i].key

(* missingRecords, missingToolRecords: the records that no line vouches    *)
(* for, among the first n of the transcript and m of the subagent's file.  *)
Missing(n, m, lines) ==
  {i \in Items : /\ i <= (IF i \in Agents THEN m ELSE n)
                 /\ ~Vouched(i, lines)
                 /\ i \in Text => Final(i, n)}

Begin(q) == pass' = [pass EXCEPT ![q] =
  [pc |-> "anchors", settled |-> Settled, seen |-> 0, todo |-> {},
   emitted |-> {}]]

(* recoverMarked, at a SessionStart: no daemon, a settled marker that can  *)
(* be read, and none so young that its hook may be running.                *)
RecoverMarked(q) ==
  /\ pass[q].pc = "idle"
  /\ daemon = "none" /\ Named # {} /\ Young = {}
  /\ Begin(q)
  /\ UNCHANGED <<story, hooks, marker, spool, ledger, daemon, unread, faults>>

(* Torn markers alone name no transcript and go.                           *)
ClearTorn ==
  /\ daemon = "none" /\ Settled # {} /\ Named = {} /\ Young = {}
  /\ marker' = Cleared(Settled)
  /\ UNCHANGED <<story, hooks, spool, ledger, daemon, pass, unread, faults>>

(* The reconciler, for a session whose daemon and harness are both dead.   *)
Reconcile(q) ==
  /\ pass[q].pc = "idle"
  /\ daemon = "none" /\ ~alive
  /\ Begin(q)
  /\ UNCHANGED <<story, hooks, marker, spool, ledger, daemon, unread, faults>>

(* The session's daemon, at its end: hooks of the session may still run.   *)
DaemonEnds ==
  /\ daemon = "running"
  /\ daemon' = "ending"
  /\ Begin(Own)
  /\ UNCHANGED <<story, hooks, marker, spool, ledger, unread, faults>>

DaemonStarts ==
  /\ alive /\ daemon = "none"
  /\ daemon' = "running"
  /\ UNCHANGED <<story, hooks, marker, spool, ledger, pass, unread, faults>>

(* After its pass, or on a signal without one.                             *)
DaemonLeaves ==
  /\ daemon # "none" /\ pass[Own].pc = "idle"
  /\ daemon' = "none"
  /\ UNCHANGED <<story, hooks, marker, spool, ledger, pass, unread, faults>>

(* A transcript that cannot be read is a loss nothing can undo.            *)
Anchors(q) ==
  /\ pass[q].pc = "anchors"
  /\ pass' = [pass EXCEPT ![q] =
       [pc |-> IF gone THEN "clear" ELSE "diff", settled |-> @.settled,
        seen |-> IF gone THEN 0 ELSE flushed, todo |-> {}, emitted |-> {}]]
  /\ UNCHANGED <<story, hooks, marker, spool, ledger, daemon, unread, faults>>

(* The ledger and the markers are read, after the transcript; after them   *)
(* the subagent's file, if a settled marker names it and it is there.      *)
AgentsRead(q) == IF gone \/ Agents \cap Named \cap pass[q].settled = {}
                 THEN 0 ELSE flushed

Diff(q) ==
  /\ pass[q].pc = "diff"
  /\ pass' = [pass EXCEPT ![q] =
       [pc |-> "walk", settled |-> @.settled, seen |-> 0,
        todo |-> Missing(@.seen, AgentsRead(q), ledger),
        emitted |-> {}]]
  /\ UNCHANGED <<story, hooks, marker, spool, ledger, daemon, unread, faults>>

(* The walk, record by record in file order.                               *)
Emit(q) ==
  /\ pass[q].pc = "walk" /\ ~gone
  /\ \E i \in pass[q].todo :
       /\ \A j \in pass[q].todo : i <= j
       /\ spool' = spool \cup {i}
       /\ pass' = [pass EXCEPT ![q] =
            [pc |-> "walk", settled |-> @.settled, seen |-> 0,
             todo |-> @.todo \ {i}, emitted |-> @.emitted \cup {i}]]
  /\ UNCHANGED <<story, hooks, marker, ledger, daemon, unread, faults>>

(* It ends whole, or at a record the spool refuses; a file that has gone   *)
(* since is not walked.                                                    *)
WalkEnds(q) ==
  /\ pass[q].pc = "walk"
  /\ \/ (pass[q].todo = {} \/ gone) /\ UNCHANGED faults
     \/ pass[q].todo # {} /\ ~gone /\ faults < MaxFaults /\ faults' = faults + 1
  /\ pass' = [pass EXCEPT ![q] =
       [pc |-> "record", settled |-> @.settled, seen |-> 0,
        todo |-> IF gone THEN {} ELSE @.todo, emitted |-> @.emitted]]
  /\ UNCHANGED <<story, hooks, marker, spool, ledger, daemon, unread>>

(* The pass goes on without the records of S, whose markers it will clear. *)
GoesOn(q, S, pc, todo) ==
  /\ faults < MaxFaults /\ faults' = faults + 1
  /\ unread' = unread \cup (pass[q].settled \cap S)
  /\ pass' = [pass EXCEPT ![q] = [pc |-> pc, settled |-> @.settled, seen |-> 0,
                                  todo |-> todo, emitted |-> @.emitted]]
  /\ UNCHANGED <<story, hooks, marker, spool, ledger, daemon>>

(* A file is there and cannot be opened, or read to its end. The main one  *)
(* when it is first read, and the markers are cleared; a subagent's, which *)
(* is passed over; either in the walk, which then ends without an error.   *)
ReadFails(q) ==
  \/ pass[q].pc = "anchors" /\ GoesOn(q, Items, "clear", {})
  \/ pass[q].pc = "diff" /\ GoesOn(q, Agents, "walk", Missing(pass[q].seen, 0, ledger))
  \/ pass[q].pc = "walk" /\ GoesOn(q, pass[q].todo, "record", {})

(* What was emitted is recorded either way; the markers go only after a    *)
(* whole walk.                                                             *)
RecordLines(q) ==
  /\ pass[q].pc = "record"
  /\ \/ ledger' = ledger \cup {Walked(i) : i \in pass[q].emitted} /\ UNCHANGED faults
     \/ faults < MaxFaults /\ faults' = faults + 1 /\ UNCHANGED ledger
  /\ pass' = [pass EXCEPT ![q] =
       IF @.todo = {} THEN [pc |-> "clear", settled |-> @.settled, seen |-> 0,
                        todo |-> {}, emitted |-> {}]
       ELSE IdlePass]
  /\ UNCHANGED <<story, hooks, marker, spool, daemon, unread>>

ClearSettled(q) ==
  /\ pass[q].pc = "clear"
  /\ marker' = Cleared(pass[q].settled)
  /\ pass' = [pass EXCEPT ![q] = IdlePass]
  /\ UNCHANGED <<story, hooks, spool, ledger, daemon, unread, faults>>

(* A visitor dies, or the daemon and its pass with it.                     *)
Killed(q) ==
  /\ faults < MaxFaults /\ faults' = faults + 1
  /\ \/ q # Own /\ pass[q].pc # "idle" /\ UNCHANGED daemon
     \/ q = Own /\ daemon # "none" /\ daemon' = "none"
  /\ pass' = [pass EXCEPT ![q] = IdlePass]
  /\ UNCHANGED <<story, hooks, marker, spool, ledger, unread>>

-----------------------------------------------------------------------------
Harness == Happens \/ Flush \/ HarnessDies \/ TranscriptGone

HookSteps(i) == WriteMarker(i) \/ Spool(i) \/ SpoolRefuses(i)
                \/ Captured(i) \/ Clear(i)

PassSteps(q) == Anchors(q) \/ Diff(q) \/ Emit(q) \/ WalkEnds(q) \/ RecordLines(q)
                \/ ClearSettled(q)

Next ==
  \/ Harness \/ ClearTorn \/ DaemonStarts \/ DaemonEnds \/ DaemonLeaves
  \/ \E i \in Items : HookSteps(i) \/ HookDies(i) \/ Settle(i)
  \/ \E q \in Visitors : RecoverMarked(q) \/ Reconcile(q)
  \/ \E q \in Passes : PassSteps(q) \/ ReadFails(q) \/ Killed(q)

Spec == Init /\ [][Next]_vars

(* The harness writes its transcript, hooks and passes run, time passes,   *)
(* daemons leave in the end and other sessions keep starting.              *)
Fairness ==
  /\ WF_vars(Flush) /\ WF_vars(DaemonLeaves)
  /\ \A i \in Items : WF_vars(HookSteps(i)) /\ WF_vars(Settle(i))
  /\ \A q \in Passes : WF_vars(PassSteps(q))
  /\ \A q \in Visitors : SF_vars(RecoverMarked(q))

FairSpec == Spec /\ Fairness

-----------------------------------------------------------------------------
(* Properties.                                                             *)

TypeOK ==
  /\ said \in 0 .. Len(Story) /\ flushed \in 0 .. said
  /\ alive \in BOOLEAN /\ gone \in BOOLEAN
  /\ hook \in [Items -> Phases] /\ insured \subseteq Items
  /\ marker \in [Items -> Markers]
  /\ spool \subseteq Items /\ ledger \subseteq Lines
  /\ daemon \in {"none", "running", "ending"}
  /\ pass \in [Passes -> PassState] /\ unread \subseteq Items /\ faults \in 0 .. MaxFaults

(* An event whose hook died after its marker was written is in the spool,  *)
(* or still marked, as long as the transcript has its record and no pass   *)
(* failed to read the file it stands in: no pass clears a marker for a     *)
(* record it has not walked, whatever it raced with.                       *)
NeverForgotten ==
  \A i \in insured \ unread :
    hook[i] = "dead" /\ i <= flushed /\ ~gone
      => i \in spool \/ marker[i] \in {"young", "old"}

(* Whatever the ledger vouches for has been accepted by the spool.         *)
LedgerVouches ==
  \A i \in Items : Hook(i) \in ledger \/ Walked(i) \in ledger => i \in spool

(* A marked loss is made good from the transcript, if it can be read.      *)
LostIsRecovered ==
  \A i \in Items :
    (i \in insured /\ hook[i] = "dead" /\ i <= flushed) ~> (i \in spool \cup unread \/ gone)

=============================================================================
