------------------------- MODULE SessionDaemonProofs -------------------------
(* For any number of pids, builds and harnesses: types, one daemon per     *)
(* session, and no session closed as left by a harness that runs.          *)
(*                                                                         *)
(* The invariant has a conjunct per lemma below; each lemma goes through   *)
(* the actions that can disturb its conjunct.                              *)
EXTENDS SessionDaemon, TLAPS

USE DaemonAssumption

(* Who shadows holds the lock, and so does a visitor that is testing it.   *)
HoldersHold ==
  /\ \A p \in Pids : Shadowing(p) => lock = p
  /\ visit.pc = "probed" => lock = Probe

(* Every harness on record is the present one or one before it.            *)
OwnersPast ==
  /\ \A p \in Pids : proc[p].owner <= harness.owner
  /\ file # None => file.owner <= harness.owner
  /\ visit.seen # None => visit.seen.owner <= harness.owner

(* A daemon about to blame its harness has seen it gone, and a harness     *)
(* that is gone never comes back: the next one is another.                 *)
BlamesTruly ==
  \A p \in Pids :
    proc[p].pc = "finish" /\ proc[p].reason = "owner_exited"
      => ~HarnessRuns(proc[p].owner)

(* A visitor past its read has read something.                             *)
SeenOpen ==
  visit.pc \in {"recover", "probe", "probed", "judge", "killed", "write"}
    => visit.seen \in States

DaemonInv ==
  TypeOK /\ HoldersHold /\ OwnersPast /\ BlamesTruly /\ EndReasonHolds /\ SeenOpen

LEMMA Values ==
  /\ NoProc \in Daemons /\ Stranger \in Daemons /\ NoVisit \in Visits
  /\ None \notin States
  /\ 1 \in Builds /\ 1 \in Owners
<1>1. 1 \in Builds /\ 1 \in Owners
  BY DEF Builds, Owners
<1>. QED
  BY <1>1 DEF NoProc, Stranger, NoVisit, Daemons, Visits, Reasons, States

(* What a daemon writes is a state of its own.                             *)
LEMMA OwnType ==
  ASSUME TypeOK, NEW p \in Pids, NEW fin \in BOOLEAN, NEW reason \in Reasons
  PROVE  /\ Own(p, fin, reason) \in States
         /\ Own(p, fin, reason).owner = proc[p].owner
         /\ Own(p, fin, reason).reason = reason
         /\ Own(p, fin, reason).fin = fin
BY DEF Own, TypeOK, Daemons, States

LEMMA InitHolds == Init => DaemonInv
<1>. SUFFICES ASSUME Init PROVE DaemonInv
  OBVIOUS
<1>1. TypeOK
  <2>1. /\ installed \in Builds /\ harness \in [owner : Owners, alive : BOOLEAN]
        /\ kills \in 0 .. MaxKills
    BY Values DEF Init
  <2>. QED
    BY <2>1, Values DEF Init, TypeOK
<1>2. HoldersHold
  BY DEF Init, HoldersHold, Shadowing, NoProc, NoVisit
<1>3. OwnersPast /\ BlamesTruly /\ EndReasonHolds /\ SeenOpen
  <2>1. \A p \in Pids : proc[p].owner = 1 /\ proc[p].pc = "none"
    BY DEF Init, NoProc
  <2>2. harness.owner = 1 /\ file = None /\ visit.seen = None /\ visit.pc = "none"
    BY DEF Init, NoVisit
  <2>. QED
    BY <2>1, <2>2 DEF OwnersPast, BlamesTruly, EndReasonHolds, SeenOpen
<1>. QED
  BY <1>1, <1>2, <1>3 DEF DaemonInv

(* Types.                                                                  *)
LEMMA TypeStep ==
  ASSUME DaemonInv, Next
  PROVE  TypeOK'
<1>. USE DEF DaemonInv, TypeOK, world
<1>1. CASE SessionEnds
  BY <1>1 DEF SessionEnds
<1>2. CASE HarnessDies
  BY <1>2 DEF HarnessDies
<1>3. CASE Resume
  <2>1. harness.owner < MaxOwner => harness.owner + 1 \in Owners
    BY DEF Owners
  <2>2. CASE harness' = [owner |-> harness.owner + 1, alive |-> TRUE]
    BY <1>3, <2>1, <2>2 DEF Resume
  <2>. QED
    BY <1>3, <2>2 DEF Resume
<1>4. CASE MarkEnded
  BY <1>4 DEF MarkEnded
<1>5. CASE Install
  BY <1>5 DEF Install, Builds
<1>6. CASE GoesStale
  BY <1>6 DEF GoesStale, States
<1>7. ASSUME NEW p \in Reused, PidReused(p)
      PROVE  TypeOK'
  BY <1>7, Values DEF PidReused
<1>8. CASE Prompt
  BY <1>8 DEF Prompt
<1>9. CASE ClearEnded
  BY <1>9 DEF ClearEnded
<1>10. CASE LaunchDaemon
  <2>1. CASE UNCHANGED proc
    BY <1>10, <2>1 DEF LaunchDaemon
  <2>2. ASSUME NEW p \in Pids, proc[p].pc = "none",
               proc' = [proc EXCEPT ![p] =
                  [pc |-> "claim", build |-> installed, owner |-> harness.owner,
                   term |-> FALSE, reason |-> ""]]
        PROVE  TypeOK'
    BY <1>10, <2>2 DEF LaunchDaemon, Daemons, Reasons
  <2>. QED
    BY <1>10, <2>1, <2>2 DEF LaunchDaemon
<1>11. ASSUME NEW p \in Pids, Claim(p)
      PROVE  TypeOK'
  BY <1>11 DEF Claim, Daemons
<1>12. ASSUME NEW p \in Pids, ClaimRefused(p)
      PROVE  TypeOK'
  BY <1>12, Values DEF ClaimRefused
<1>13. ASSUME NEW p \in Pids, New(p)
      PROVE  TypeOK'
  <2>1. file' = Own(p, FALSE, "") /\ file' \in States
    BY <1>13, OwnType DEF New, Reasons, Daemons
  <2>2. proc' \in [Pids -> Daemons]
    BY <1>13 DEF New, Daemons
  <2>. QED
    BY <1>13, <2>1, <2>2 DEF New
<1>14. ASSUME NEW p \in Pids, PollEnds(p)
      PROVE  TypeOK'
  <2>1. [pc |-> "finish", build |-> proc[p].build, owner |-> proc[p].owner,
         term |-> proc[p].term,
         reason |-> IF ended THEN "session_ended" ELSE "owner_exited"] \in Daemons
    BY DEF Daemons, Reasons
  <2>. QED
    BY <1>14, <2>1 DEF PollEnds
<1>15. ASSUME NEW p \in Pids, BeatRead(p)
      PROVE  TypeOK'
  BY <1>15 DEF BeatRead, Daemons
<1>16. ASSUME NEW p \in Pids, BeatWrite(p)
      PROVE  TypeOK'
  <2>1. file' = Own(p, FALSE, "") /\ file' \in States
    BY <1>16, OwnType DEF BeatWrite, Reasons, Daemons
  <2>2. proc' \in [Pids -> Daemons]
    BY <1>16 DEF BeatWrite, Daemons
  <2>. QED
    BY <1>16, <2>1, <2>2 DEF BeatWrite
<1>17. ASSUME NEW p \in Pids, Finalize(p)
      PROVE  TypeOK'
  <2>1. file' = Own(p, TRUE, proc[p].reason) /\ file' \in States
    BY <1>17, OwnType DEF Finalize, Reasons, Daemons
  <2>2. proc' \in [Pids -> Daemons]
    BY <1>17 DEF Finalize, Daemons
  <2>. QED
    BY <1>17, <2>1, <2>2 DEF Finalize
<1>18. ASSUME NEW p \in Pids, Cancelled(p)
      PROVE  TypeOK'
  BY <1>18 DEF Cancelled, Daemons
<1>19. ASSUME NEW p \in Pids, Exit(p)
      PROVE  TypeOK'
  <2>1. proc' \in [Pids -> Daemons]
    BY <1>19, Values DEF Exit
  <2>. QED
    BY <1>19, <2>1 DEF Exit, Released
<1>20. ASSUME NEW p \in Pids, BinaryChanged(p)
      PROVE  TypeOK'
  BY <1>20 DEF BinaryChanged, Daemons
<1>21. ASSUME NEW p \in Pids, RestartInPlace(p)
      PROVE  TypeOK'
  <2>1. [pc |-> "claim", build |-> installed, owner |-> proc[p].owner,
         term |-> FALSE, reason |-> ""] \in Daemons
    BY DEF Daemons, Reasons
  <2>. QED
    BY <1>21, <2>1 DEF RestartInPlace, Released
<1>22. ASSUME NEW p \in Pids, Killed(p)
      PROVE  TypeOK'
  <2>1. proc' \in [Pids -> Daemons]
    BY <1>22, Values DEF Killed
  <2>. QED
    BY <1>22, <2>1 DEF Killed, Released
<1>23. ASSUME NEW pc \in {"reconcile", "reap"}, VisitStarts(pc)
      PROVE  TypeOK'
  BY <1>23 DEF VisitStarts, Visits
<1>24. CASE ReconcileReads
  BY <1>24 DEF ReconcileReads, At, Visits
<1>25. CASE ReconcileWrites
  BY <1>25 DEF ReconcileWrites, At, Closing, Visits, States, Reasons, SeenOpen
<1>26. CASE ReapReads
  BY <1>26, Values DEF ReapReads, At, Visits
<1>27. CASE ProbeTakes
  BY <1>27 DEF ProbeTakes, At, Visits
<1>28. CASE ProbeReleases
  <2>1. StillLive(visit.seen) \in BOOLEAN
    BY <1>28 DEF ProbeReleases, SeenOpen, StillLive, PidAlive, States
  <2>. QED
    BY <1>28, <2>1 DEF ProbeReleases, At, Visits
<1>29. CASE ProbeRefused
  BY <1>29 DEF ProbeRefused, At, Visits
<1>30. CASE LeftAlone
  BY <1>30, Values DEF LeftAlone
<1>31. CASE Terminate
  <2>1. visit' \in Visits
    BY <1>31 DEF Terminate, At, Visits
  <2>2. ASSUME NEW d \in Daemons
        PROVE  [pc |-> d.pc, build |-> d.build, owner |-> d.owner,
                term |-> TRUE, reason |-> d.reason] \in Daemons
    BY DEF Daemons
  <2>3. proc' \in [Pids -> Daemons]
    BY <1>31, <2>2, Values DEF Terminate
  <2>4. lock' \in Pids \cup {Probe, None}
    BY <1>31 DEF Terminate, Released
  <2>. QED
    BY <1>31, <2>1, <2>3, <2>4 DEF Terminate
<1>32. CASE FoundDead
  BY <1>32 DEF FoundDead, At, Visits
<1>33. CASE ReapWrites
  BY <1>33, Values DEF ReapWrites, Closing, States, Reasons, SeenOpen
<1>34. CASE VisitorKilled
  BY <1>34, Values DEF VisitorKilled, Released
<1>35. ASSUME NEW o \in ReusedOwners, OwnerPidReused(o)
      PROVE  TypeOK'
  BY <1>35 DEF OwnerPidReused
<1>. QED
  BY <1>1, <1>2, <1>3, <1>4, <1>5, <1>6, <1>7, <1>8, <1>9, <1>10, <1>11, <1>12,
     <1>13, <1>14, <1>15, <1>16, <1>17, <1>18, <1>19, <1>20, <1>21, <1>22, <1>23, <1>24,
     <1>25, <1>26, <1>27, <1>28, <1>29, <1>30, <1>31, <1>32, <1>33, <1>34, <1>35
     DEF Next, User, Hook, Daemon, Visitor

(* The lock and its holder.                                                *)
LEMMA HoldersStep ==
  ASSUME DaemonInv, Next
  PROVE  HoldersHold'
<1>. USE DEF DaemonInv, TypeOK, HoldersHold, Shadowing, world
<1>1. CASE SessionEnds
  BY <1>1 DEF SessionEnds
<1>2. CASE HarnessDies
  BY <1>2 DEF HarnessDies
<1>3. CASE Resume
  BY <1>3 DEF Resume
<1>4. CASE MarkEnded
  BY <1>4 DEF MarkEnded
<1>5. CASE Install
  BY <1>5 DEF Install
<1>6. CASE GoesStale
  BY <1>6 DEF GoesStale
<1>7. ASSUME NEW p \in Reused, PidReused(p)
      PROVE  HoldersHold'
  BY <1>7 DEF PidReused, NoProc, Stranger
<1>8. CASE Prompt
  BY <1>8 DEF Prompt
<1>9. CASE ClearEnded
  BY <1>9 DEF ClearEnded
<1>10. CASE LaunchDaemon
  <2>1. CASE UNCHANGED proc
    BY <1>10, <2>1 DEF LaunchDaemon
  <2>2. ASSUME NEW p \in Pids, proc[p].pc = "none",
               proc' = [proc EXCEPT ![p] =
                  [pc |-> "claim", build |-> installed, owner |-> harness.owner,
                   term |-> FALSE, reason |-> ""]]
        PROVE  HoldersHold'
    BY <1>10, <2>2 DEF LaunchDaemon
  <2>. QED
    BY <1>10, <2>1, <2>2 DEF LaunchDaemon
<1>11. ASSUME NEW p \in Pids, Claim(p)
      PROVE  HoldersHold'
  BY <1>11 DEF Claim
<1>12. ASSUME NEW p \in Pids, ClaimRefused(p)
      PROVE  HoldersHold'
  BY <1>12 DEF ClaimRefused, NoProc
<1>13. ASSUME NEW p \in Pids, New(p)
      PROVE  HoldersHold'
  BY <1>13 DEF New
<1>14. ASSUME NEW p \in Pids, PollEnds(p)
      PROVE  HoldersHold'
  BY <1>14 DEF PollEnds
<1>15. ASSUME NEW p \in Pids, BeatRead(p)
      PROVE  HoldersHold'
  BY <1>15 DEF BeatRead
<1>16. ASSUME NEW p \in Pids, BeatWrite(p)
      PROVE  HoldersHold'
  BY <1>16 DEF BeatWrite
<1>17. ASSUME NEW p \in Pids, Finalize(p)
      PROVE  HoldersHold'
  BY <1>17 DEF Finalize
<1>18. ASSUME NEW p \in Pids, Cancelled(p)
      PROVE  HoldersHold'
  BY <1>18 DEF Cancelled
<1>19. ASSUME NEW p \in Pids, Exit(p)
      PROVE  HoldersHold'
  BY <1>19 DEF Exit, NoProc, Released
<1>20. ASSUME NEW p \in Pids, BinaryChanged(p)
      PROVE  HoldersHold'
  BY <1>20 DEF BinaryChanged
<1>21. ASSUME NEW p \in Pids, RestartInPlace(p)
      PROVE  HoldersHold'
  BY <1>21 DEF RestartInPlace, Released
<1>22. ASSUME NEW p \in Pids, Killed(p)
      PROVE  HoldersHold'
  BY <1>22 DEF Killed, NoProc, Released
<1>23. ASSUME NEW pc \in {"reconcile", "reap"}, VisitStarts(pc)
      PROVE  HoldersHold'
  BY <1>23 DEF VisitStarts
<1>24. CASE ReconcileReads
  BY <1>24 DEF ReconcileReads, At
<1>25. CASE ReconcileWrites
  BY <1>25 DEF ReconcileWrites, At, Closing
<1>26. CASE ReapReads
  BY <1>26 DEF ReapReads, At, NoVisit
<1>27. CASE ProbeTakes
  BY <1>27 DEF ProbeTakes, At
<1>28. CASE ProbeReleases
  BY <1>28 DEF ProbeReleases, At
<1>29. CASE ProbeRefused
  BY <1>29 DEF ProbeRefused, At
<1>30. CASE LeftAlone
  BY <1>30 DEF LeftAlone, NoVisit
<1>31. CASE Terminate
  BY <1>31 DEF Terminate, At, NoProc, Released
<1>32. CASE FoundDead
  BY <1>32 DEF FoundDead, At
<1>33. CASE ReapWrites
  BY <1>33 DEF ReapWrites, NoVisit, Closing
<1>34. CASE VisitorKilled
  BY <1>34 DEF VisitorKilled, NoVisit, Released
<1>35. ASSUME NEW o \in ReusedOwners, OwnerPidReused(o)
      PROVE  HoldersHold'
  BY <1>35 DEF OwnerPidReused
<1>. QED
  BY <1>1, <1>2, <1>3, <1>4, <1>5, <1>6, <1>7, <1>8, <1>9, <1>10, <1>11, <1>12,
     <1>13, <1>14, <1>15, <1>16, <1>17, <1>18, <1>19, <1>20, <1>21, <1>22, <1>23, <1>24,
     <1>25, <1>26, <1>27, <1>28, <1>29, <1>30, <1>31, <1>32, <1>33, <1>34, <1>35
     DEF Next, User, Hook, Daemon, Visitor

(* No harness of the future is on record.                                  *)
LEMMA OwnersStep ==
  ASSUME DaemonInv, Next
  PROVE  OwnersPast'
<1>. USE DEF DaemonInv, OwnersPast, world
<1>0. /\ harness.owner \in Nat /\ 1 <= harness.owner
      /\ proc \in [Pids -> Daemons] /\ \A p \in Pids : proc[p].owner \in Nat
      /\ file # None => file \in States /\ file.owner \in Nat
      /\ visit.seen # None => visit.seen \in States /\ visit.seen.owner \in Nat
      /\ None \notin States
  BY Values DEF TypeOK, Daemons, States, Visits, Owners
<1>1. CASE SessionEnds
  BY <1>1, <1>0 DEF SessionEnds
<1>2. CASE HarnessDies
  BY <1>2, <1>0 DEF HarnessDies
<1>3. CASE Resume
  BY <1>3, <1>0 DEF Resume
<1>4. CASE MarkEnded
  BY <1>4, <1>0 DEF MarkEnded
<1>5. CASE Install
  BY <1>5, <1>0 DEF Install
<1>6. CASE GoesStale
  BY <1>6, <1>0 DEF GoesStale, States
<1>7. ASSUME NEW p \in Reused, PidReused(p)
      PROVE  OwnersPast'
  BY <1>7, <1>0 DEF PidReused, NoProc, Stranger
<1>8. CASE Prompt
  BY <1>8, <1>0 DEF Prompt
<1>9. CASE ClearEnded
  BY <1>9, <1>0 DEF ClearEnded
<1>10. CASE LaunchDaemon
  <2>1. CASE UNCHANGED proc
    BY <1>10, <2>1 DEF LaunchDaemon
  <2>2. ASSUME NEW p \in Pids, proc[p].pc = "none",
               proc' = [proc EXCEPT ![p] =
                  [pc |-> "claim", build |-> installed, owner |-> harness.owner,
                   term |-> FALSE, reason |-> ""]]
        PROVE  OwnersPast'
    <3>1. UNCHANGED <<harness, file, visit>>
      BY <1>10 DEF LaunchDaemon
    <3>2. proc'[p].owner = harness.owner
      BY <2>2, <1>0
    <3>3. \A q \in Pids : q # p => proc'[q] = proc[q]
      BY <2>2, <1>0
    <3>. QED
      BY <3>1, <3>2, <3>3, <1>0
  <2>. QED
    BY <1>10, <2>1, <2>2 DEF LaunchDaemon
<1>11. ASSUME NEW p \in Pids, Claim(p)
      PROVE  OwnersPast'
  BY <1>11, <1>0 DEF Claim
<1>12. ASSUME NEW p \in Pids, ClaimRefused(p)
      PROVE  OwnersPast'
  <2>1. proc' = [proc EXCEPT ![p] = NoProc] /\ UNCHANGED <<harness, file, visit>>
    BY <1>12 DEF ClaimRefused
  <2>. QED
    BY <2>1, <1>0 DEF NoProc
<1>13. ASSUME NEW p \in Pids, New(p)
      PROVE  OwnersPast'
  <2>1. file' = Own(p, FALSE, "") /\ UNCHANGED <<harness, visit>>
    BY <1>13 DEF New
  <2>2. file'.owner = proc[p].owner
    BY <2>1 DEF Own
  <2>3. \A q \in Pids : proc'[q].owner = proc[q].owner
    BY <1>13, <1>0 DEF New, Daemons
  <2>. QED
    BY <2>1, <2>2, <2>3
<1>14. ASSUME NEW p \in Pids, PollEnds(p)
      PROVE  OwnersPast'
  BY <1>14, <1>0 DEF PollEnds
<1>15. ASSUME NEW p \in Pids, BeatRead(p)
      PROVE  OwnersPast'
  BY <1>15, <1>0 DEF BeatRead
<1>16. ASSUME NEW p \in Pids, BeatWrite(p)
      PROVE  OwnersPast'
  <2>1. file' = Own(p, FALSE, "") /\ UNCHANGED <<harness, visit>>
    BY <1>16 DEF BeatWrite
  <2>2. file'.owner = proc[p].owner
    BY <2>1 DEF Own
  <2>3. \A q \in Pids : proc'[q].owner = proc[q].owner
    BY <1>16, <1>0 DEF BeatWrite, Daemons
  <2>. QED
    BY <2>1, <2>2, <2>3
<1>17. ASSUME NEW p \in Pids, Finalize(p)
      PROVE  OwnersPast'
  <2>1. file' = Own(p, TRUE, proc[p].reason) /\ UNCHANGED <<harness, visit>>
    BY <1>17 DEF Finalize
  <2>2. file'.owner = proc[p].owner
    BY <2>1 DEF Own
  <2>3. \A q \in Pids : proc'[q].owner = proc[q].owner
    BY <1>17, <1>0 DEF Finalize, Daemons
  <2>. QED
    BY <2>1, <2>2, <2>3
<1>18. ASSUME NEW p \in Pids, Cancelled(p)
      PROVE  OwnersPast'
  BY <1>18, <1>0 DEF Cancelled
<1>19. ASSUME NEW p \in Pids, Exit(p)
      PROVE  OwnersPast'
  <2>1. proc' = [proc EXCEPT ![p] = NoProc] /\ UNCHANGED <<harness, file, visit>>
    BY <1>19 DEF Exit
  <2>. QED
    BY <2>1, <1>0 DEF NoProc
<1>20. ASSUME NEW p \in Pids, BinaryChanged(p)
      PROVE  OwnersPast'
  BY <1>20, <1>0 DEF BinaryChanged
<1>21. ASSUME NEW p \in Pids, RestartInPlace(p)
      PROVE  OwnersPast'
  BY <1>21, <1>0 DEF RestartInPlace, Released
<1>22. ASSUME NEW p \in Pids, Killed(p)
      PROVE  OwnersPast'
  <2>1. proc' = [proc EXCEPT ![p] = NoProc] /\ UNCHANGED <<harness, file, visit>>
    BY <1>22 DEF Killed
  <2>. QED
    BY <2>1, <1>0 DEF NoProc
<1>23. ASSUME NEW pc \in {"reconcile", "reap"}, VisitStarts(pc)
      PROVE  OwnersPast'
  BY <1>23, <1>0 DEF VisitStarts
<1>24. CASE ReconcileReads
  BY <1>24, <1>0 DEF ReconcileReads, At
<1>25. CASE ReconcileWrites
  BY <1>25, <1>0 DEF ReconcileWrites, At, Closing, SeenOpen, States
<1>26. CASE ReapReads
  BY <1>26, <1>0 DEF ReapReads, At, NoVisit
<1>27. CASE ProbeTakes
  BY <1>27, <1>0 DEF ProbeTakes, At
<1>28. CASE ProbeReleases
  BY <1>28, <1>0 DEF ProbeReleases, At
<1>29. CASE ProbeRefused
  BY <1>29, <1>0 DEF ProbeRefused, At
<1>30. CASE LeftAlone
  BY <1>30, <1>0 DEF LeftAlone, NoVisit
<1>31. CASE Terminate
  <2>1. \A p \in Pids : proc'[p].owner = proc[p].owner \/ proc'[p].owner = 1
    BY <1>31, <1>0 DEF Terminate, NoProc
  <2>2. visit'.seen = visit.seen /\ UNCHANGED <<harness, file>>
    BY <1>31 DEF Terminate, At
  <2>. QED
    BY <2>1, <2>2, <1>0
<1>32. CASE FoundDead
  BY <1>32, <1>0 DEF FoundDead, At
<1>33. CASE ReapWrites
  BY <1>33, <1>0 DEF ReapWrites, NoVisit, Closing, SeenOpen, States
<1>34. CASE VisitorKilled
  BY <1>34, <1>0 DEF VisitorKilled, NoVisit, Released
<1>35. ASSUME NEW o \in ReusedOwners, OwnerPidReused(o)
      PROVE  OwnersPast'
  BY <1>35 DEF OwnerPidReused
<1>. QED
  BY <1>1, <1>2, <1>3, <1>4, <1>5, <1>6, <1>7, <1>8, <1>9, <1>10, <1>11, <1>12,
     <1>13, <1>14, <1>15, <1>16, <1>17, <1>18, <1>19, <1>20, <1>21, <1>22, <1>23, <1>24,
     <1>25, <1>26, <1>27, <1>28, <1>29, <1>30, <1>31, <1>32, <1>33, <1>34, <1>35
     DEF Next, User, Hook, Daemon, Visitor

(* A harness blamed is gone for good.                                      *)
LEMMA BlamesStep ==
  ASSUME DaemonInv, Next
  PROVE  BlamesTruly'
<1>. USE DEF DaemonInv, TypeOK, OwnersPast, BlamesTruly, OwnerAlive, HarnessRuns, Owners, world
<1>1. CASE SessionEnds
  BY <1>1 DEF SessionEnds
<1>2. CASE HarnessDies
  BY <1>2 DEF HarnessDies
<1>3. CASE Resume
  BY <1>3 DEF Resume
<1>4. CASE MarkEnded
  BY <1>4 DEF MarkEnded
<1>5. CASE Install
  BY <1>5 DEF Install
<1>6. CASE GoesStale
  BY <1>6 DEF GoesStale
<1>7. ASSUME NEW p \in Reused, PidReused(p)
      PROVE  BlamesTruly'
  BY <1>7 DEF PidReused, NoProc, Stranger
<1>8. CASE Prompt
  BY <1>8 DEF Prompt
<1>9. CASE ClearEnded
  BY <1>9 DEF ClearEnded
<1>10. CASE LaunchDaemon
  <2>1. CASE UNCHANGED proc
    BY <1>10, <2>1 DEF LaunchDaemon
  <2>2. ASSUME NEW p \in Pids, proc[p].pc = "none",
               proc' = [proc EXCEPT ![p] =
                  [pc |-> "claim", build |-> installed, owner |-> harness.owner,
                   term |-> FALSE, reason |-> ""]]
        PROVE  BlamesTruly'
    BY <1>10, <2>2 DEF LaunchDaemon
  <2>. QED
    BY <1>10, <2>1, <2>2 DEF LaunchDaemon
<1>11. ASSUME NEW p \in Pids, Claim(p)
      PROVE  BlamesTruly'
  BY <1>11 DEF Claim
<1>12. ASSUME NEW p \in Pids, ClaimRefused(p)
      PROVE  BlamesTruly'
  BY <1>12 DEF ClaimRefused, NoProc
<1>13. ASSUME NEW p \in Pids, New(p)
      PROVE  BlamesTruly'
  <2>1. UNCHANGED harness /\ proc' = [proc EXCEPT ![p].pc = "run"]
    BY <1>13 DEF New
  <2>. QED
    BY <2>1
<1>14. ASSUME NEW p \in Pids, PollEnds(p)
      PROVE  BlamesTruly'
  BY <1>14 DEF PollEnds
<1>15. ASSUME NEW p \in Pids, BeatRead(p)
      PROVE  BlamesTruly'
  BY <1>15 DEF BeatRead
<1>16. ASSUME NEW p \in Pids, BeatWrite(p)
      PROVE  BlamesTruly'
  <2>1. UNCHANGED harness /\ proc' = [proc EXCEPT ![p].pc = "run"]
    BY <1>16 DEF BeatWrite
  <2>. QED
    BY <2>1
<1>17. ASSUME NEW p \in Pids, Finalize(p)
      PROVE  BlamesTruly'
  BY <1>17 DEF Finalize
<1>18. ASSUME NEW p \in Pids, Cancelled(p)
      PROVE  BlamesTruly'
  BY <1>18 DEF Cancelled
<1>19. ASSUME NEW p \in Pids, Exit(p)
      PROVE  BlamesTruly'
  BY <1>19 DEF Exit, NoProc, Released
<1>20. ASSUME NEW p \in Pids, BinaryChanged(p)
      PROVE  BlamesTruly'
  BY <1>20 DEF BinaryChanged
<1>21. ASSUME NEW p \in Pids, RestartInPlace(p)
      PROVE  BlamesTruly'
  BY <1>21 DEF RestartInPlace, Released
<1>22. ASSUME NEW p \in Pids, Killed(p)
      PROVE  BlamesTruly'
  BY <1>22 DEF Killed, NoProc, Released
<1>23. ASSUME NEW pc \in {"reconcile", "reap"}, VisitStarts(pc)
      PROVE  BlamesTruly'
  BY <1>23 DEF VisitStarts
<1>24. CASE ReconcileReads
  BY <1>24 DEF ReconcileReads, At
<1>25. CASE ReconcileWrites
  BY <1>25 DEF ReconcileWrites, At, Closing
<1>26. CASE ReapReads
  BY <1>26 DEF ReapReads, At, NoVisit
<1>27. CASE ProbeTakes
  BY <1>27 DEF ProbeTakes, At
<1>28. CASE ProbeReleases
  BY <1>28 DEF ProbeReleases, At
<1>29. CASE ProbeRefused
  BY <1>29 DEF ProbeRefused, At
<1>30. CASE LeftAlone
  BY <1>30 DEF LeftAlone, NoVisit
<1>31. CASE Terminate
  BY <1>31 DEF Terminate, At, NoProc, Released
<1>32. CASE FoundDead
  BY <1>32 DEF FoundDead, At
<1>33. CASE ReapWrites
  BY <1>33 DEF ReapWrites, NoVisit, Closing
<1>34. CASE VisitorKilled
  BY <1>34 DEF VisitorKilled, NoVisit, Released
<1>35. ASSUME NEW o \in ReusedOwners, OwnerPidReused(o)
      PROVE  BlamesTruly'
  BY <1>35 DEF OwnerPidReused
<1>. QED
  BY <1>1, <1>2, <1>3, <1>4, <1>5, <1>6, <1>7, <1>8, <1>9, <1>10, <1>11, <1>12,
     <1>13, <1>14, <1>15, <1>16, <1>17, <1>18, <1>19, <1>20, <1>21, <1>22, <1>23, <1>24,
     <1>25, <1>26, <1>27, <1>28, <1>29, <1>30, <1>31, <1>32, <1>33, <1>34, <1>35
     DEF Next, User, Hook, Daemon, Visitor

(* Who is named in a closed file stays gone.                               *)
LEMMA EndReasonStep ==
  ASSUME DaemonInv, Next
  PROVE  EndReasonHolds'
<1>. USE DEF DaemonInv, TypeOK, OwnersPast, BlamesTruly, EndReasonHolds, OwnerAlive, HarnessRuns, Owners, world
<1>1. CASE SessionEnds
  BY <1>1 DEF SessionEnds
<1>2. CASE HarnessDies
  BY <1>2 DEF HarnessDies
<1>3. CASE Resume
  BY <1>3 DEF Resume
<1>4. CASE MarkEnded
  BY <1>4 DEF MarkEnded
<1>5. CASE Install
  BY <1>5 DEF Install
<1>6. CASE GoesStale
  BY <1>6 DEF GoesStale
<1>7. ASSUME NEW p \in Reused, PidReused(p)
      PROVE  EndReasonHolds'
  BY <1>7 DEF PidReused, NoProc, Stranger
<1>8. CASE Prompt
  BY <1>8 DEF Prompt
<1>9. CASE ClearEnded
  BY <1>9 DEF ClearEnded
<1>10. CASE LaunchDaemon
  BY <1>10 DEF LaunchDaemon
<1>11. ASSUME NEW p \in Pids, Claim(p)
      PROVE  EndReasonHolds'
  BY <1>11 DEF Claim
<1>12. ASSUME NEW p \in Pids, ClaimRefused(p)
      PROVE  EndReasonHolds'
  BY <1>12 DEF ClaimRefused, NoProc
<1>13. ASSUME NEW p \in Pids, New(p)
      PROVE  EndReasonHolds'
  BY <1>13, OwnType DEF New, Reasons
<1>14. ASSUME NEW p \in Pids, PollEnds(p)
      PROVE  EndReasonHolds'
  BY <1>14 DEF PollEnds
<1>15. ASSUME NEW p \in Pids, BeatRead(p)
      PROVE  EndReasonHolds'
  BY <1>15 DEF BeatRead
<1>16. ASSUME NEW p \in Pids, BeatWrite(p)
      PROVE  EndReasonHolds'
  BY <1>16, OwnType DEF BeatWrite, Reasons
<1>17. ASSUME NEW p \in Pids, Finalize(p)
      PROVE  EndReasonHolds'
  <2>1. file' = Own(p, TRUE, proc[p].reason) /\ UNCHANGED harness
    BY <1>17 DEF Finalize
  <2>2. file'.owner = proc[p].owner /\ file'.reason = proc[p].reason
    BY <2>1 DEF Own
  <2>. QED
    BY <1>17, <2>1, <2>2 DEF Finalize
<1>18. ASSUME NEW p \in Pids, Cancelled(p)
      PROVE  EndReasonHolds'
  BY <1>18 DEF Cancelled
<1>19. ASSUME NEW p \in Pids, Exit(p)
      PROVE  EndReasonHolds'
  BY <1>19 DEF Exit, NoProc, Released
<1>20. ASSUME NEW p \in Pids, BinaryChanged(p)
      PROVE  EndReasonHolds'
  BY <1>20 DEF BinaryChanged
<1>21. ASSUME NEW p \in Pids, RestartInPlace(p)
      PROVE  EndReasonHolds'
  BY <1>21 DEF RestartInPlace, Released
<1>22. ASSUME NEW p \in Pids, Killed(p)
      PROVE  EndReasonHolds'
  BY <1>22 DEF Killed, NoProc, Released
<1>23. ASSUME NEW pc \in {"reconcile", "reap"}, VisitStarts(pc)
      PROVE  EndReasonHolds'
  BY <1>23 DEF VisitStarts
<1>24. CASE ReconcileReads
  BY <1>24 DEF ReconcileReads, At
<1>25. CASE ReconcileWrites
  BY <1>25 DEF ReconcileWrites, At, Closing
<1>26. CASE ReapReads
  BY <1>26 DEF ReapReads, At, NoVisit
<1>27. CASE ProbeTakes
  BY <1>27 DEF ProbeTakes, At
<1>28. CASE ProbeReleases
  BY <1>28 DEF ProbeReleases, At
<1>29. CASE ProbeRefused
  BY <1>29 DEF ProbeRefused, At
<1>30. CASE LeftAlone
  BY <1>30 DEF LeftAlone, NoVisit
<1>31. CASE Terminate
  BY <1>31 DEF Terminate, At, NoProc, Released
<1>32. CASE FoundDead
  BY <1>32 DEF FoundDead, At
<1>33. CASE ReapWrites
  BY <1>33 DEF ReapWrites, NoVisit, Closing
<1>34. CASE VisitorKilled
  BY <1>34 DEF VisitorKilled, NoVisit, Released
<1>35. ASSUME NEW o \in ReusedOwners, OwnerPidReused(o)
      PROVE  EndReasonHolds'
  BY <1>35 DEF OwnerPidReused
<1>. QED
  BY <1>1, <1>2, <1>3, <1>4, <1>5, <1>6, <1>7, <1>8, <1>9, <1>10, <1>11, <1>12,
     <1>13, <1>14, <1>15, <1>16, <1>17, <1>18, <1>19, <1>20, <1>21, <1>22, <1>23, <1>24,
     <1>25, <1>26, <1>27, <1>28, <1>29, <1>30, <1>31, <1>32, <1>33, <1>34, <1>35
     DEF Next, User, Hook, Daemon, Visitor

(* A visitor's copy.                                                       *)
LEMMA SeenStep ==
  ASSUME DaemonInv, Next
  PROVE  SeenOpen'
<1>. USE DEF DaemonInv, TypeOK, SeenOpen, world
<1>1. CASE SessionEnds
  BY <1>1 DEF SessionEnds
<1>2. CASE HarnessDies
  BY <1>2 DEF HarnessDies
<1>3. CASE Resume
  BY <1>3 DEF Resume
<1>4. CASE MarkEnded
  BY <1>4 DEF MarkEnded
<1>5. CASE Install
  BY <1>5 DEF Install
<1>6. CASE GoesStale
  BY <1>6 DEF GoesStale
<1>7. ASSUME NEW p \in Reused, PidReused(p)
      PROVE  SeenOpen'
  BY <1>7 DEF PidReused, NoProc, Stranger
<1>8. CASE Prompt
  BY <1>8 DEF Prompt
<1>9. CASE ClearEnded
  BY <1>9 DEF ClearEnded
<1>10. CASE LaunchDaemon
  BY <1>10 DEF LaunchDaemon
<1>11. ASSUME NEW p \in Pids, Claim(p)
      PROVE  SeenOpen'
  BY <1>11 DEF Claim
<1>12. ASSUME NEW p \in Pids, ClaimRefused(p)
      PROVE  SeenOpen'
  BY <1>12 DEF ClaimRefused, NoProc
<1>13. ASSUME NEW p \in Pids, New(p)
      PROVE  SeenOpen'
  BY <1>13 DEF New
<1>14. ASSUME NEW p \in Pids, PollEnds(p)
      PROVE  SeenOpen'
  BY <1>14 DEF PollEnds
<1>15. ASSUME NEW p \in Pids, BeatRead(p)
      PROVE  SeenOpen'
  BY <1>15 DEF BeatRead
<1>16. ASSUME NEW p \in Pids, BeatWrite(p)
      PROVE  SeenOpen'
  BY <1>16 DEF BeatWrite
<1>17. ASSUME NEW p \in Pids, Finalize(p)
      PROVE  SeenOpen'
  BY <1>17 DEF Finalize
<1>18. ASSUME NEW p \in Pids, Cancelled(p)
      PROVE  SeenOpen'
  BY <1>18 DEF Cancelled
<1>19. ASSUME NEW p \in Pids, Exit(p)
      PROVE  SeenOpen'
  BY <1>19 DEF Exit, NoProc, Released
<1>20. ASSUME NEW p \in Pids, BinaryChanged(p)
      PROVE  SeenOpen'
  BY <1>20 DEF BinaryChanged
<1>21. ASSUME NEW p \in Pids, RestartInPlace(p)
      PROVE  SeenOpen'
  BY <1>21 DEF RestartInPlace, Released
<1>22. ASSUME NEW p \in Pids, Killed(p)
      PROVE  SeenOpen'
  BY <1>22 DEF Killed, NoProc, Released
<1>23. ASSUME NEW pc \in {"reconcile", "reap"}, VisitStarts(pc)
      PROVE  SeenOpen'
  BY <1>23 DEF VisitStarts
<1>24. CASE ReconcileReads
  BY <1>24 DEF ReconcileReads, At
<1>25. CASE ReconcileWrites
  BY <1>25 DEF ReconcileWrites, At, Closing
<1>26. CASE ReapReads
  BY <1>26 DEF ReapReads, At, NoVisit
<1>27. CASE ProbeTakes
  BY <1>27 DEF ProbeTakes, At
<1>28. CASE ProbeReleases
  BY <1>28 DEF ProbeReleases, At
<1>29. CASE ProbeRefused
  BY <1>29 DEF ProbeRefused, At
<1>30. CASE LeftAlone
  BY <1>30 DEF LeftAlone, NoVisit
<1>31. CASE Terminate
  BY <1>31 DEF Terminate, At, NoProc, Released
<1>32. CASE FoundDead
  BY <1>32 DEF FoundDead, At
<1>33. CASE ReapWrites
  BY <1>33 DEF ReapWrites, NoVisit, Closing
<1>34. CASE VisitorKilled
  BY <1>34 DEF VisitorKilled, NoVisit, Released
<1>35. ASSUME NEW o \in ReusedOwners, OwnerPidReused(o)
      PROVE  SeenOpen'
  BY <1>35 DEF OwnerPidReused
<1>. QED
  BY <1>1, <1>2, <1>3, <1>4, <1>5, <1>6, <1>7, <1>8, <1>9, <1>10, <1>11, <1>12,
     <1>13, <1>14, <1>15, <1>16, <1>17, <1>18, <1>19, <1>20, <1>21, <1>22, <1>23, <1>24,
     <1>25, <1>26, <1>27, <1>28, <1>29, <1>30, <1>31, <1>32, <1>33, <1>34, <1>35
     DEF Next, User, Hook, Daemon, Visitor

LEMMA NextHolds == DaemonInv /\ [Next]_vars => DaemonInv'
<1>. SUFFICES ASSUME DaemonInv, [Next]_vars
              PROVE  DaemonInv'
  OBVIOUS
<1>1. CASE UNCHANGED vars
  BY <1>1 DEF vars, world, DaemonInv, TypeOK, HoldersHold, OwnersPast,
     BlamesTruly, EndReasonHolds, SeenOpen, Shadowing, HarnessRuns
<1>2. CASE Next
  BY <1>2, TypeStep, HoldersStep, OwnersStep, BlamesStep, EndReasonStep, SeenStep
     DEF DaemonInv
<1>. QED
  BY <1>1, <1>2

(* The invariant the three results rest on.                                *)
THEOREM DaemonInvariant == Spec => []DaemonInv
BY InitHolds, NextHolds, PTL DEF Spec

(* Type correctness of a session's daemons, files and visitors.            *)
THEOREM DaemonTypeCorrect == Spec => []TypeOK
<1>1. DaemonInv => TypeOK
  BY DEF DaemonInv
<1>. QED
  BY <1>1, DaemonInvariant, PTL

(* One daemon shadows a session at a time, across restarts in place,       *)
(* probes of its lock, kills and reused pids.                              *)
THEOREM OneDaemonPerSession == Spec => []OneDaemon
<1>1. DaemonInv => OneDaemon
  BY DEF DaemonInv, HoldersHold, OneDaemon
<1>. QED
  BY <1>1, DaemonInvariant, PTL

(* A session closed as left by its harness was left by it.                 *)
THEOREM OwnerExitedIsTrue == Spec => []EndReasonHolds
<1>1. DaemonInv => EndReasonHolds
  BY DEF DaemonInv
<1>. QED
  BY <1>1, DaemonInvariant, PTL

=============================================================================
