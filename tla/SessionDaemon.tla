---------------------------- MODULE SessionDaemon ----------------------------
(***************************************************************************)
(* One session and the daemons that shadow it (internal/daemon and the     *)
(* hook, reap and restart code of cmd/loop-sessions).                      *)
(*                                                                         *)
(* A prompt's hook starts a daemon; the daemon claims the session's flock, *)
(* writes the state file, polls, beats, and finalizes the file when the    *)
(* harness is gone or the SessionEnd marker is there. Visitors, the        *)
(* SessionStart hooks and daemons of other sessions, close what a dead     *)
(* daemon left open (ReconcileWith) and stop daemons of other builds       *)
(* (StopStale). All of them read the file, decide, and write it later.     *)
(***************************************************************************)
EXTENDS Naturals, FiniteSets

CONSTANTS
  Pids,        \* process ids daemons and strangers get
  Reused,      \* the pids a stranger may get
  ReusedOwners,  \* the harnesses whose pid a stranger may get
  MaxBuild,    \* Bound: releases installed one after another.
  MaxOwner,    \* Bound: harness processes the session runs under in turn.
  MaxKills,    \* Bound: daemons and visitors that die with no warning.
  Probe,       \* the holder of a flock a visitor takes to test it
  None

Builds  == 1 .. MaxBuild
Owners  == 1 .. MaxOwner
Reasons == {"", "session_ended", "owner_exited", "daemon_died", "daemon_stale"}

(* State: the record in <session>.json. "fresh" is a heartbeat no older    *)
(* than StaleAfter.                                                        *)
States == [pid : Pids, build : Builds, owner : Owners, fin : BOOLEAN,
           reason : Reasons, fresh : BOOLEAN]

ASSUME DaemonAssumption ==
  /\ MaxBuild \in Nat \ {0} /\ MaxOwner \in Nat \ {0} /\ MaxKills \in Nat
  /\ Reused \subseteq Pids /\ ReusedOwners \subseteq Owners
  /\ None \notin Pids \cup States /\ Probe \notin Pids /\ Probe # None

VARIABLES
  harness,     \* the harness process: which one, and whether it runs
  taken,       \* the dead harnesses whose pid answers for a stranger
  session,     \* what the user is doing: "live" or "over"
  goodbye,     \* the SessionEnd hook has started and not written its marker
  installed,   \* the build at the daemons' path
  file,        \* the session's state file, or None
  ended,       \* the .ended marker
  lock,        \* who holds the session's flock
  proc,        \* per pid
  hook,        \* the prompt hook in flight
  visit,       \* a visitor: its place, what it read, its build
  kills

world == <<harness, taken, session, goodbye, installed>>
vars  == <<world, file, ended, lock, proc, hook, visit, kills>>

Daemons ==
  [pc : {"none", "foreign", "claim", "start", "run", "beat", "finish",
         "restart", "exit"},
   build : Builds, owner : Owners, term : BOOLEAN, reason : Reasons]

NoProc   == [pc |-> "none", build |-> 1, owner |-> 1, term |-> FALSE, reason |-> ""]
Stranger == [pc |-> "foreign", build |-> 1, owner |-> 1, term |-> FALSE, reason |-> ""]
NoVisit  == [pc |-> "none", seen |-> None, build |-> 1, live |-> FALSE]
Visits   == [pc : {"none", "reconcile", "recover", "reap", "probe", "probed",
                   "judge", "killed", "write"},
             seen : States \cup {None}, build : Builds, live : BOOLEAN]

Init ==
  /\ harness = [owner |-> 1, alive |-> TRUE] /\ taken = {}
  /\ session = "live" /\ goodbye = FALSE /\ installed = 1
  /\ file = None /\ ended = FALSE /\ lock = None
  /\ proc = [p \in Pids |-> NoProc]
  /\ hook = "none" /\ visit = NoVisit /\ kills = 0

-----------------------------------------------------------------------------
HarnessRuns(o) == harness.alive /\ o = harness.owner

(* processAlive, signal 0, of the harness's pid and of a daemon's: a pid   *)
(* that another process has got since answers too.                         *)
OwnerAlive(o) == HarnessRuns(o) \/ o \in taken
PidAlive(p)   == proc[p].pc # "none"

(* Mutant: a pid that answers is enough.                                   *)
StillLiveByPid(st) == PidAlive(st.pid)

(* daemonStillLive, and with it AlreadyRunning.                            *)
StillLive(st) == PidAlive(st.pid) /\ st.fresh
AlreadyRunning == file # None /\ ~file.fin /\ StillLive(file)

(* Mutant: the daemon's own pid is not recorded.                           *)
OwnNameless(p, fin, reason) ==
  [pid |-> None, build |-> proc[p].build, owner |-> proc[p].owner,
   fin |-> fin, reason |-> reason, fresh |-> TRUE]

(* What daemon p has in memory, as it writes it.                           *)
Own(p, fin, reason) ==
  [pid |-> p, build |-> proc[p].build, owner |-> proc[p].owner,
   fin |-> fin, reason |-> reason, fresh |-> TRUE]

(* A visitor's write: what it read, finalized.                             *)
Closing(st, reason) ==
  [pid |-> st.pid, build |-> st.build, owner |-> st.owner,
   fin |-> TRUE, reason |-> reason, fresh |-> st.fresh]

(* Mutant: a lock file, which stays.                                       *)
ReleasedNever(p) == lock

(* The kernel releases a lock with its holder.                             *)
Released(p) == IF lock = p THEN None ELSE lock

-----------------------------------------------------------------------------
(* The harness and the user.                                               *)

SessionEnds ==
  /\ session = "live"
  /\ session' = "over" /\ goodbye' = TRUE
  /\ UNCHANGED <<harness, taken, installed, file, ended, lock, proc, hook, visit, kills>>

(* By whatever means; a prompt hook in flight goes with it.                *)
HarnessDies ==
  /\ harness.alive
  /\ harness' = [owner |-> harness.owner, alive |-> FALSE]
  /\ session' = "over" /\ hook' = "none"
  /\ UNCHANGED <<taken, goodbye, installed, file, ended, lock, proc, visit, kills>>

(* The session is taken up again, under the same harness or a new one.     *)
Resume ==
  /\ session = "over"
  /\ session' = "live"
  /\ \/ harness.alive /\ UNCHANGED harness
     \/ /\ ~harness.alive /\ harness.owner < MaxOwner
        /\ harness' = [owner |-> harness.owner + 1, alive |-> TRUE]
  /\ UNCHANGED <<taken, goodbye, installed, file, ended, lock, proc, hook, visit, kills>>

(* The SessionEnd hook marks the end, or is killed before it does.         *)
MarkEnded ==
  /\ goodbye
  /\ goodbye' = FALSE
  /\ ended' \in {ended, TRUE}
  /\ UNCHANGED <<harness, taken, session, installed, file, lock, proc, hook, visit, kills>>

Install ==
  /\ installed < MaxBuild
  /\ installed' = installed + 1
  /\ UNCHANGED <<harness, taken, session, goodbye, file, ended, lock, proc, hook, visit, kills>>

(* A prompt: forget an earlier end, then start a daemon unless one runs.   *)
Prompt ==
  /\ session = "live" /\ hook = "none"
  /\ hook' = "clear"
  /\ UNCHANGED <<world, file, ended, lock, proc, visit, kills>>

ClearEnded ==
  /\ hook = "clear"
  /\ hook' = "launch"
  /\ ended' = FALSE
  /\ UNCHANGED <<world, file, lock, proc, visit, kills>>

LaunchDaemon ==
  /\ hook = "launch"
  /\ hook' = "none"
  /\ \/ AlreadyRunning /\ UNCHANGED proc
     \/ /\ ~AlreadyRunning
        /\ \E p \in Pids :
             /\ proc[p].pc = "none"
             /\ proc' = [proc EXCEPT ![p] =
                  [pc |-> "claim", build |-> installed, owner |-> harness.owner,
                   term |-> FALSE, reason |-> ""]]
  /\ UNCHANGED <<world, file, ended, lock, visit, kills>>

(* Pids of dead processes go to others, and those end too.                 *)
PidReused(p) ==
  /\ proc[p].pc \in {"none", "foreign"}
  /\ proc' = [proc EXCEPT ![p] =
       IF @.pc = "none" THEN Stranger ELSE NoProc]
  /\ UNCHANGED <<world, file, ended, lock, hook, visit, kills>>

(* A dead harness's pid goes to a process that has nothing to do with the  *)
(* session, and that one ends.                                             *)
OwnerPidReused(o) ==
  /\ o <= harness.owner /\ ~HarnessRuns(o)
  /\ taken' = IF o \in taken THEN taken \ {o} ELSE taken \cup {o}
  /\ UNCHANGED <<harness, session, goodbye, installed, file, ended, lock, proc, hook, visit, kills>>

(* Two minutes without a beat: a dead daemon, a suspended laptop, a long   *)
(* upload.                                                                 *)
GoesStale ==
  /\ file # None /\ file.fresh
  /\ file' = [file EXCEPT !.fresh = FALSE]
  /\ UNCHANGED <<world, ended, lock, proc, hook, visit, kills>>

-----------------------------------------------------------------------------
(* The daemon.                                                             *)

(* Mutant: the file is opened, not locked.                                 *)
ClaimUnlocked(p) ==
  /\ proc[p].pc = "claim"
  /\ lock' = p
  /\ proc' = [proc EXCEPT ![p].pc = "start"]
  /\ UNCHANGED <<world, file, ended, hook, visit, kills>>

(* ClaimSession.                                                           *)
Claim(p) ==
  /\ proc[p].pc = "claim"
  /\ lock = None
  /\ lock' = p
  /\ proc' = [proc EXCEPT ![p].pc = "start"]
  /\ UNCHANGED <<world, file, ended, hook, visit, kills>>

(* ErrLocked: the process exits in silence.                                *)
ClaimRefused(p) ==
  /\ proc[p].pc = "claim"
  /\ lock # None
  /\ proc' = [proc EXCEPT ![p] = NoProc]
  /\ UNCHANGED <<world, file, ended, lock, hook, visit, kills>>

(* New: the state file is written whatever stands there.                   *)
New(p) ==
  /\ proc[p].pc = "start"
  /\ file' = Own(p, FALSE, "")
  /\ proc' = [proc EXCEPT ![p].pc = "run"]
  /\ UNCHANGED <<world, ended, lock, hook, visit, kills>>

(* Mutants: the marker is not looked at; every end is the harness's.       *)
PollOwner(p) ==
  /\ proc[p].pc = "run"
  /\ ~OwnerAlive(proc[p].owner)
  /\ proc' = [proc EXCEPT ![p] =
       [pc |-> "finish", build |-> @.build, owner |-> @.owner, term |-> @.term,
        reason |-> "owner_exited"]]
  /\ UNCHANGED <<world, file, ended, lock, hook, visit, kills>>

PollBlamesOwner(p) ==
  /\ proc[p].pc = "run"
  /\ ended \/ ~OwnerAlive(proc[p].owner)
  /\ proc' = [proc EXCEPT ![p] =
       [pc |-> "finish", build |-> @.build, owner |-> @.owner, term |-> @.term,
        reason |-> "owner_exited"]]
  /\ UNCHANGED <<world, file, ended, lock, hook, visit, kills>>

(* A poll that finds the session over.                                     *)
PollEnds(p) ==
  /\ proc[p].pc = "run"
  /\ ended \/ ~OwnerAlive(proc[p].owner)
  /\ proc' = [proc EXCEPT ![p] =
       [pc |-> "finish", build |-> @.build, owner |-> @.owner, term |-> @.term,
        reason |-> IF ended THEN "session_ended" ELSE "owner_exited"]]
  /\ UNCHANGED <<world, file, ended, lock, hook, visit, kills>>

(* beat reads the file first: one finalized under this very pid stays. A   *)
(* flush tick does not beat after a signal, a poll tick does.              *)
BeatRead(p) ==
  /\ proc[p].pc = "run"
  /\ ~proc[p].term \/ (~ended /\ OwnerAlive(proc[p].owner))
  /\ ~(file # None /\ file.fin /\ file.pid = p)
  /\ proc' = [proc EXCEPT ![p].pc = "beat"]
  /\ UNCHANGED <<world, file, ended, lock, hook, visit, kills>>

BeatWrite(p) ==
  /\ proc[p].pc = "beat"
  /\ file' = Own(p, FALSE, "")
  /\ proc' = [proc EXCEPT ![p].pc = "run"]
  /\ UNCHANGED <<world, ended, lock, hook, visit, kills>>

(* After the recovery pass and the drain, Finalize writes unconditionally. *)
Finalize(p) ==
  /\ proc[p].pc = "finish"
  /\ file' = Own(p, TRUE, proc[p].reason)
  /\ proc' = [proc EXCEPT ![p].pc = "exit"]
  /\ UNCHANGED <<world, ended, lock, hook, visit, kills>>

(* A signal ends the run and drains; the file is left as it is.            *)
Cancelled(p) ==
  /\ proc[p].pc = "run" /\ proc[p].term
  /\ proc' = [proc EXCEPT ![p].pc = "exit"]
  /\ UNCHANGED <<world, file, ended, lock, hook, visit, kills>>

Exit(p) ==
  /\ proc[p].pc = "exit"
  /\ proc' = [proc EXCEPT ![p] = NoProc]
  /\ lock' = Released(p)
  /\ UNCHANGED <<world, file, ended, hook, visit, kills>>

(* watchBinary ends the run to restart in place ...                        *)
BinaryChanged(p) ==
  /\ proc[p].pc = "run" /\ proc[p].build # installed
  /\ proc' = [proc EXCEPT ![p].pc = "restart"]
  /\ UNCHANGED <<world, file, ended, lock, hook, visit, kills>>

(* ... and after the drain execs: same pid, new build, lock released.      *)
RestartInPlace(p) ==
  /\ proc[p].pc = "restart"
  /\ proc' = [proc EXCEPT ![p] =
       [pc |-> "claim", build |-> installed, owner |-> @.owner, term |-> FALSE,
        reason |-> ""]]
  /\ lock' = Released(p)
  /\ UNCHANGED <<world, file, ended, hook, visit, kills>>

(* SIGKILL, a crash, a configuration that does not load.                   *)
Killed(p) ==
  /\ proc[p].pc \notin {"none", "foreign"}
  /\ kills < MaxKills
  /\ kills' = kills + 1
  /\ proc' = [proc EXCEPT ![p] = NoProc]
  /\ lock' = Released(p)
  /\ UNCHANGED <<world, file, ended, hook, visit>>

-----------------------------------------------------------------------------
(* A visitor: a SessionStart hook of another session reconciles and then   *)
(* reaps, a daemon starting for another session reaps.                     *)

At(pc, seen, live) == [pc |-> pc, seen |-> seen, build |-> visit.build, live |-> live]

VisitStarts(pc) ==
  /\ visit.pc = "none"
  /\ visit' = [pc |-> pc, seen |-> None, build |-> installed, live |-> FALSE]
  /\ UNCHANGED <<world, file, ended, lock, proc, hook, kills>>

(* ReconcileWith: an open session whose daemon and owner are both gone.    *)
ReconcileReads ==
  /\ visit.pc = "reconcile"
  /\ visit' = IF file # None /\ ~file.fin /\ ~StillLive(file) /\ ~OwnerAlive(file.owner)
                THEN At("recover", file, FALSE) ELSE At("reap", None, FALSE)
  /\ UNCHANGED <<world, file, ended, lock, proc, hook, kills>>

(* The recovery pass is over; what was read is written back finalized.     *)
ReconcileWrites ==
  /\ visit.pc = "recover"
  /\ file' = Closing(visit.seen, "daemon_died")
  /\ visit' = At("reap", None, FALSE)
  /\ UNCHANGED <<world, ended, lock, proc, hook, kills>>

(* StopStale: read, then probe the lock by taking it.                      *)
ReapReads ==
  /\ visit.pc = "reap"
  /\ visit' = IF file # None /\ ~file.fin THEN At("probe", file, FALSE) ELSE NoVisit
  /\ UNCHANGED <<world, file, ended, lock, proc, hook, kills>>

ProbeTakes ==
  /\ visit.pc = "probe" /\ lock = None
  /\ lock' = Probe
  /\ visit' = At("probed", visit.seen, FALSE)
  /\ UNCHANGED <<world, file, ended, proc, hook, kills>>

ProbeReleases ==
  /\ visit.pc = "probed"
  /\ lock' = None
  /\ visit' = At("judge", visit.seen, StillLive(visit.seen))
  /\ UNCHANGED <<world, file, ended, proc, hook, kills>>

ProbeRefused ==
  /\ visit.pc = "probe" /\ lock # None
  /\ visit' = At("judge", visit.seen, TRUE)
  /\ UNCHANGED <<world, file, ended, lock, proc, hook, kills>>

(* Left alone: a live daemon of this build, a live one that cannot be      *)
(* signalled, a dead one whose owner is dead too.                          *)
LeftAlone ==
  /\ visit.pc = "judge"
  /\ LET st == visit.seen
         current == st.build = visit.build
     IN \/ visit.live /\ (current \/ ~PidAlive(st.pid))
        \/ ~visit.live /\ ~OwnerAlive(st.owner)
  /\ visit' = NoVisit
  /\ UNCHANGED <<world, file, ended, lock, proc, hook, kills>>

(* SIGTERM to the recorded pid. Before its handler is installed a process  *)
(* dies of it; a daemon that has left its loop takes no notice.            *)
Terminate ==
  /\ visit.pc = "judge" /\ visit.live
  /\ visit.seen.build # visit.build
  /\ LET p == visit.seen.pid IN
       /\ PidAlive(p)
       /\ proc' = [proc EXCEPT ![p] =
            IF @.pc \in {"claim", "start", "foreign"} THEN NoProc
            ELSE IF @.pc \in {"run", "beat"}
            THEN [pc |-> @.pc, build |-> @.build, owner |-> @.owner,
                  term |-> TRUE, reason |-> @.reason]
            ELSE @]
       /\ lock' = IF proc[p].pc = "start" THEN Released(p) ELSE lock
  /\ visit' = At("killed", visit.seen, TRUE)
  /\ UNCHANGED <<world, file, ended, hook, kills>>

(* A dead daemon under a live owner is finalized as it stands.             *)
FoundDead ==
  /\ visit.pc = "judge" /\ ~visit.live /\ OwnerAlive(visit.seen.owner)
  /\ visit' = At("write", visit.seen, FALSE)
  /\ UNCHANGED <<world, file, ended, lock, proc, hook, kills>>

ReapWrites ==
  /\ visit.pc \in {"killed", "write"}
  /\ file' = Closing(visit.seen,
       IF visit.pc = "write" /\ visit.seen.build = visit.build
         THEN "daemon_died" ELSE "daemon_stale")
  /\ visit' = NoVisit
  /\ UNCHANGED <<world, ended, lock, proc, hook, kills>>

VisitorKilled ==
  /\ visit.pc # "none"
  /\ kills < MaxKills
  /\ kills' = kills + 1
  /\ visit' = NoVisit
  /\ lock' = Released(Probe)
  /\ UNCHANGED <<world, file, ended, proc, hook>>

-----------------------------------------------------------------------------
User == SessionEnds \/ HarnessDies \/ Resume \/ MarkEnded \/ Install \/ GoesStale
        \/ \E p \in Reused : PidReused(p)
        \/ \E o \in ReusedOwners : OwnerPidReused(o)

Hook == Prompt \/ ClearEnded \/ LaunchDaemon

Daemon(p) ==
  \/ Claim(p) \/ ClaimRefused(p) \/ New(p) \/ PollEnds(p) \/ BeatRead(p)
  \/ BeatWrite(p) \/ Finalize(p) \/ Cancelled(p) \/ Exit(p)
  \/ BinaryChanged(p) \/ RestartInPlace(p) \/ Killed(p)

Visitor ==
  \/ VisitStarts("reconcile") \/ VisitStarts("reap")
  \/ ReconcileReads \/ ReconcileWrites \/ ReapReads \/ ProbeTakes
  \/ ProbeReleases \/ ProbeRefused \/ LeftAlone \/ Terminate
  \/ FoundDead \/ ReapWrites \/ VisitorKilled

Next == User \/ Hook \/ Visitor \/ \E p \in Pids : Daemon(p)

Spec == Init /\ [][Next]_vars

(* Processes run, both tickers keep firing, other sessions keep starting.  *)
(* Nothing is assumed of the user, of releases, or of the pids of others.  *)
Fairness ==
  /\ WF_vars(ClearEnded \/ LaunchDaemon)
  /\ SF_vars(VisitStarts("reconcile"))
  /\ WF_vars(ReconcileReads \/ ReconcileWrites \/ ReapReads \/ ProbeTakes
             \/ ProbeReleases \/ ProbeRefused \/ LeftAlone \/ Terminate
             \/ FoundDead \/ ReapWrites)
  /\ WF_vars(GoesStale /\ proc[file.pid].pc \in {"none", "foreign"})
  /\ \A p \in Pids :
       /\ WF_vars(Claim(p) \/ ClaimRefused(p) \/ New(p) \/ BeatWrite(p)
                  \/ Finalize(p) \/ Exit(p) \/ RestartInPlace(p))
       /\ SF_vars(PollEnds(p) \/ Cancelled(p) \/ BinaryChanged(p))

FairSpec == Spec /\ Fairness

-----------------------------------------------------------------------------
(* Properties.                                                             *)

TypeOK ==
  /\ harness \in [owner : Owners, alive : BOOLEAN] /\ taken \subseteq Owners
  /\ session \in {"live", "over"} /\ goodbye \in BOOLEAN /\ installed \in Builds
  /\ file \in States \cup {None} /\ ended \in BOOLEAN
  /\ lock \in Pids \cup {Probe, None}
  /\ proc \in [Pids -> Daemons]
  /\ hook \in {"none", "clear", "launch"}
  /\ visit \in Visits /\ kills \in 0 .. MaxKills

(* Past the claim, until its process is gone.                              *)
Shadowing(p) == proc[p].pc \in {"start", "run", "beat", "finish", "restart", "exit"}
Shadowed == \E p \in Pids : Shadowing(p)

(* One daemon per session, whatever restarts in place, probes and kills do *)
(* to the lock ("the gate that makes one daemon per session true").        *)
OneDaemon == \A p, q \in Pids : Shadowing(p) /\ Shadowing(q) => p = q

(* A session is never closed as left by its harness, by the daemon or by   *)
(* the reconciler, while the harness on record runs.                       *)
EndReasonHolds ==
  file # None /\ file.fin /\ file.reason = "owner_exited" => ~HarnessRuns(file.owner)

(* An ended session's daemon leaves, though the harness lives on.          *)
EndedDaemonLeaves ==
  (ended /\ Shadowed) ~> (~Shadowed \/ ~ended)

Closed == file # None => file.fin

(* A session whose harness is gone is closed, by its daemon or in the place *)
(* of a dead one: at once or, as a stranger that got the harness's pid looks *)
(* like the harness to both, after that one has ended.                     *)
OrphanIsClosed ==
  (file # None /\ ~OwnerAlive(file.owner)) ~> (Closed \/ OwnerAlive(file.owner))

(* A session that goes on being prompted is shadowed again and again, once *)
(* no visitor's probe gets in the way of a claim.                          *)
PromptsRestoreDaemon ==
  (<>[](session = "live" /\ lock # Probe) /\ []<>(hook = "launch"))
    => []<>(\E p \in Pids : proc[p].pc = "run")

(* The same without a word on probes: a claim that meets one gives up.     *)
PromptsWinOverProbes ==
  (<>[](session = "live") /\ []<>(hook = "launch"))
    => []<>(\E p \in Pids : proc[p].pc = "run")

(* A beat does not write the live state over a finalized one.              *)
FinalizedStays ==
  [][(file # None /\ file.fin /\ ~file'.fin /\ file'.pid = file.pid
      /\ file.reason = "daemon_stale")
       => proc[file.pid].pc = "start"]_vars

=============================================================================
