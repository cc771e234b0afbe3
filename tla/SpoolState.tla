----------------------------- MODULE SpoolState -----------------------------
(***************************************************************************)
(* spool/state.json: what a machine remembers about its queue (internal/   *)
(* spool, State and mutateState). Every process that opens the spool       *)
(* updates it read-modify-write through ONE temp name, "state.json.tmp",   *)
(* without a lock: read, create-or-truncate the temp file, write it,       *)
(* rename it over state.json. Two processes may have the same temp file    *)
(* open, so files are inodes here and the two names point at them.         *)
(*                                                                         *)
(* Kept of the record: the drop tally and the last delivery's time. Any    *)
(* other update (the byte estimate, the last error) is a "touch".          *)
(***************************************************************************)
EXTENDS Integers, FiniteSets

CONSTANTS
  Writers,     \* processes that have the spool open
  Inodes,      \* enough for the two names and every open file
  MaxDrops,    \* Bound: how many drops are recorded.
  MaxTime,     \* Bound: how far the clock goes, in success intervals.
  NoFile

ASSUME StateAssumption ==
  /\ MaxDrops \in Nat /\ MaxTime \in Nat \ {0}
  /\ NoFile \notin Inodes

Kinds == {"drop", "success", "touch"}

(* A State record, and what a file may hold.                               *)
Record   == [drops : 0 .. MaxDrops, success : 0 .. MaxTime]
Zero     == [drops |-> 0, success |-> 0]
Contents == [form : {"empty", "mixed", "whole"}, rec : Record]
Empty    == [form |-> "empty", rec |-> Zero]
Mixed    == [form |-> "mixed", rec |-> Zero]
Whole(r) == [form |-> "whole", rec |-> r]

VARIABLES
  now,         \* the clock, in units of successWriteInterval
  total,       \* history: drops that happened
  accepted,    \* history: when the server accepted something
  mem,         \* per process: Spool.dropped
  written,     \* per process: Spool.lastSuccessWritten
  state,       \* the inode at state.json
  tmp,         \* the inode at state.json.tmp
  content,     \* per inode
  w,           \* per process: its place in mutateState
  overlapped   \* history: an update began while another was in progress

files == <<state, tmp, content>>
vars  == <<now, total, accepted, mem, written, files, w, overlapped>>

IdleWriter == [pc |-> "idle", rec |-> Zero, fd |-> NoFile]

Init ==
  /\ now = 1 /\ total = 0 /\ accepted = {}
  /\ mem = [p \in Writers |-> 0]
  /\ written = [p \in Writers |-> 0]
  /\ state = NoFile /\ tmp = NoFile
  /\ content = [i \in Inodes |-> Empty]
  /\ w = [p \in Writers |-> IdleWriter]
  /\ overlapped = FALSE

-----------------------------------------------------------------------------
(* State(): a missing file is a zero record; mutateState takes an          *)
(* unreadable one for a zero record too.                                   *)
Readable == state # NoFile /\ content[state].form = "whole"
Durable  == IF Readable THEN content[state].rec ELSE Zero

(* Inodes nobody names or has open.                                        *)
Free == Inodes \ ({state, tmp} \cup {w[p].fd : p \in Writers})

(* A file that lost its last name and its last descriptor is gone.         *)
Live(c) ==
  [i \in Inodes |-> IF i \in {state', tmp'} \cup {w'[p].fd : p \in Writers}
                      THEN c[i] ELSE Empty]

(* An update begins: does it find another in progress?                     *)
Begins == overlapped' = IF \E q \in Writers : w[q].pc # "idle" THEN TRUE ELSE overlapped

Later(s, t) == IF t > s THEN t ELSE s

(* Mutants: the tally read back is added to memory's whole count; memory   *)
(* counts a drop twice.                                                    *)
RecordDropAgain(p) ==
  /\ w[p].pc = "idle" /\ Begins
  /\ total < MaxDrops
  /\ total' = total + 1
  /\ mem' = [mem EXCEPT ![p] = @ + 1]
  /\ w' = [w EXCEPT ![p] = [pc |-> "computed", fd |-> NoFile,
             rec |-> [drops |-> Durable.drops + mem[p] + 1,
                      success |-> Durable.success]]]
  /\ UNCHANGED <<now, accepted, written, files>>

RecordDropTwice(p) ==
  /\ w[p].pc = "idle" /\ Begins
  /\ total < MaxDrops
  /\ total' = total + 1
  /\ mem' = [mem EXCEPT ![p] = @ + 2]
  /\ w' = [w EXCEPT ![p] = [pc |-> "computed", fd |-> NoFile,
             rec |-> [drops |-> Durable.drops + 1, success |-> Durable.success]]]
  /\ UNCHANGED <<now, accepted, written, files>>

(* Record: one more in memory, then the file is read and one is added.     *)
RecordDrop(p) ==
  /\ w[p].pc = "idle" /\ Begins
  /\ total < MaxDrops
  /\ total' = total + 1
  /\ mem' = [mem EXCEPT ![p] = @ + 1]
  /\ w' = [w EXCEPT ![p] = [pc |-> "computed", fd |-> NoFile,
             rec |-> [drops |-> Durable.drops + 1, success |-> Durable.success]]]
  /\ UNCHANGED <<now, accepted, written, files>>

(* recordSuccess: at most once per interval and process, never backwards   *)
(* from what was read.                                                     *)
RecordSuccess(p) ==
  /\ w[p].pc = "idle" /\ Begins
  /\ written[p] < now
  /\ written' = [written EXCEPT ![p] = now]
  /\ accepted' = accepted \cup {now}
  /\ w' = [w EXCEPT ![p] = [pc |-> "computed", fd |-> NoFile,
             rec |-> [drops |-> Durable.drops,
                      success |-> Later(Durable.success, now)]]]
  /\ UNCHANGED <<now, total, mem, files>>

(* Mutant: the update starts from a fresh record.                          *)
TouchFresh(p) ==
  /\ w[p].pc = "idle" /\ Begins
  /\ w' = [w EXCEPT ![p] = [pc |-> "computed", fd |-> NoFile, rec |-> Zero]]
  /\ UNCHANGED <<now, total, accepted, mem, written, files>>

(* Any other update: a byte estimate, a delivery failure.                  *)
Touch(p) ==
  /\ w[p].pc = "idle" /\ Begins
  /\ w' = [w EXCEPT ![p] = [pc |-> "computed", fd |-> NoFile, rec |-> Durable]]
  /\ UNCHANGED <<now, total, accepted, mem, written, files>>

(* os.WriteFile opens the temp name: created, or truncated as it stands.   *)
OpenTemp(p) ==
  /\ w[p].pc = "computed"
  /\ \E i \in IF tmp = NoFile THEN Free ELSE {tmp} :
       /\ tmp' = i
       /\ content' = [content EXCEPT ![i] = Empty]
       /\ w' = [w EXCEPT ![p] = [pc |-> "opened", fd |-> i, rec |-> @.rec]]
  /\ UNCHANGED <<now, total, accepted, mem, written, state, overlapped>>

(* ... and writes from offset zero. Over another process's longer text     *)
(* the tail of that text stays, and the file does not parse.               *)
WriteTemp(p) ==
  /\ w[p].pc = "opened"
  /\ w' = [w EXCEPT ![p] = [pc |-> "written", fd |-> NoFile, rec |-> Zero]]
  /\ UNCHANGED <<now, total, accepted, mem, written, state, tmp, overlapped>>
  /\ LET i == w[p].fd IN
       \E c \in {Whole(w[p].rec)}
                \cup (IF content[i] = Empty THEN {} ELSE {Mixed}) :
         content' = Live([content EXCEPT ![i] = c])

(* A full disk: the write fails, the truncated temp file stays behind.     *)
WriteFails(p) ==
  /\ w[p].pc = "opened"
  /\ w' = [w EXCEPT ![p] = IdleWriter]
  /\ UNCHANGED <<now, total, accepted, mem, written, state, tmp, overlapped>>
  /\ content' = Live(content)

(* Whatever stands at the temp name by now becomes state.json.             *)
Rename(p) ==
  /\ w[p].pc = "written"
  /\ tmp # NoFile
  /\ state' = tmp
  /\ tmp' = NoFile
  /\ w' = [w EXCEPT ![p] = IdleWriter]
  /\ content' = Live(content)
  /\ UNCHANGED <<now, total, accepted, mem, written, overlapped>>

(* The temp file is gone: another process renamed it. mutateState swallows *)
(* the error and removes the temp name, by then perhaps someone else's.    *)
RenameFails(p) ==
  /\ w[p].pc = "written"
  /\ tmp = NoFile
  /\ w' = [w EXCEPT ![p].pc = "failed"]
  /\ UNCHANGED <<now, total, accepted, mem, written, files, overlapped>>

RemoveTemp(p) ==
  /\ w[p].pc = "failed"
  /\ tmp' = NoFile
  /\ w' = [w EXCEPT ![p] = IdleWriter]
  /\ UNCHANGED <<now, total, accepted, mem, written, state, overlapped>>
  /\ content' = Live(content)

(* A process ends, anywhere; another takes its place with empty memory.    *)
Killed(p) ==
  /\ mem' = [mem EXCEPT ![p] = 0]
  /\ written' = [written EXCEPT ![p] = 0]
  /\ w' = [w EXCEPT ![p] = IdleWriter]
  /\ UNCHANGED <<now, total, accepted, state, tmp, overlapped>>
  /\ content' = Live(content)

Tick ==
  /\ now < MaxTime
  /\ now' = now + 1
  /\ UNCHANGED <<total, accepted, mem, written, files, w, overlapped>>

Update(p) == RecordDrop(p) \/ RecordSuccess(p) \/ Touch(p)
Finish(p) == OpenTemp(p) \/ WriteTemp(p) \/ WriteFails(p) \/ Rename(p)
             \/ RenameFails(p) \/ RemoveTemp(p)

Next == Tick \/ \E p \in Writers : Update(p) \/ Finish(p) \/ Killed(p)

Spec == Init /\ [][Next]_vars

(* snapshotDropped merges memory and file by maximum.                      *)
Reported(p) == Later(mem[p], Durable.drops)

-----------------------------------------------------------------------------
(* Properties.                                                             *)

TypeOK ==
  /\ now \in 1 .. MaxTime /\ total \in 0 .. MaxDrops
  /\ accepted \subseteq 0 .. MaxTime
  /\ mem \in [Writers -> 0 .. MaxDrops]
  /\ written \in [Writers -> 0 .. MaxTime]
  /\ state \in Inodes \cup {NoFile} /\ tmp \in Inodes \cup {NoFile}
  /\ content \in [Inodes -> Contents]
  /\ w \in [Writers -> [pc : {"idle", "computed", "opened", "written", "failed"},
                        rec : Record, fd : Inodes \cup {NoFile}]]
  /\ overlapped \in BOOLEAN

(* The tally never counts a drop that did not happen and never names a     *)
(* delivery time at which nothing was accepted, however updates are lost,  *)
(* mixed or repeated, and no health report says more drops than happened   *)
(* (snapshotDropped merges memory and file by maximum for this reason).    *)
NothingInvented ==
  /\ Durable.drops <= total
  /\ Durable.success \in accepted \cup {0}
  /\ \A p \in Writers : Reported(p) <= total

(* Processes that may be killed anywhere, between the truncation of the    *)
(* temp file and the rename too, leave a state file that can be read, until*)
(* two of them update at the same time.                                    *)
CrashAtomic == ~overlapped /\ state # NoFile => Readable

(* Until then nobody walks the tally or the delivery time back, across     *)
(* restarts, failed writes and temp files left by whoever came before.     *)
Monotone ==
  [][~overlapped' => /\ Durable'.drops >= Durable.drops
                     /\ Durable'.success >= Durable.success]_vars

=============================================================================
