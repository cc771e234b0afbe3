----------------------------- MODULE DeriveJobs -----------------------------
(***************************************************************************)
(* The versioned derive pass (server/store/runner.go: RunDerive and what   *)
(* it calls) on several instances of the server, driven by the loop of     *)
(* app.go. A derivation version is a list of steps; each step walks all    *)
(* sessions in id order, batch by batch, with a cursor in derive_jobs that *)
(* commits with the batch's work, under one advisory lock for the fleet.   *)
(*                                                                         *)
(* Beside it run the dirty pass and the drain of the skill queue, uploads  *)
(* that this build or the one before it serves, the retention sweep and an *)
(* operator; the window in which bodies may be read shuts at any time. An  *)
(* instance dies at any point: its transaction is rolled back and its      *)
(* locks are free.                                                         *)
(*                                                                         *)
(* A row of a session is abstracted to whether the current rule derived    *)
(* it; the keys step, whose cursor counts events, is a step like the       *)
(* others. Wall-clock pauses are left out.                                 *)
(***************************************************************************)
EXTENDS Naturals, FiniteSets

CONSTANTS
  Instances,
  MaxSession,    \* session ids are 1..MaxSession, in their order
  Version,       \* DerivedSchema
  LastStep,      \* steps are 1..LastStep, in their order
  Since,         \* the version that introduced a step's rule
  IndexSteps,    \* steps that build an index
  BodyReading,   \* steps that wait for the window
  Folding,       \* steps the dirty pass redoes: turns, rollups, class
  SkillStep,     \* skill_invocations
  BatchSize,     \* deriveSessionsPerBatch
  RetryCap,      \* deriveRetryCap
  SkipCap,       \* deriveSkipCapPerBatch
  Poison,        \* <<step, session>> whose work fails every time
  MaxSpent,      \* faults, deaths, deletions, reruns, twins, older builds' uploads
  None

Ids == 1..MaxSession
Steps == 1..LastStep

ASSUME JobsAssumption ==
  /\ MaxSession \in Nat /\ Version \in Nat \ {0} /\ LastStep \in Nat \ {0}
  /\ BatchSize \in Nat \ {0} /\ RetryCap \in Nat \ {0} /\ SkipCap \in Nat
  /\ MaxSpent \in Nat
  /\ Since \in [Steps -> 1..Version]
  /\ IndexSteps \subseteq Steps /\ Folding \subseteq Steps
  /\ SkillStep \in Steps \ (IndexSteps \cup Folding) /\ Since[SkillStep] = Version
  /\ \A x \in Folding : Since[x] < Version  \* the build before folds by the same rules
  /\ None \notin Instances

VARIABLES
  sessions,     \* ids that have a committed row
  dirty,        \* derive_dirty
  queue,        \* skill_rederive_queue
  current,      \* <<step, session>> whose rows the current rule derived
  stored,       \* derived_schema.version
  job,          \* derive_jobs of this version
  index,        \* its index: "absent", "invalid" (a build was cut off), "valid"
  lock,         \* who holds deriveLockKey
  pass,         \* RunDerive of an instance
  folds,        \* sessions a dirty pass is folding
  spent,        \* faults and resets so far
  forgotten,    \* <<step, session>> passed over, or lost by an upload behind the
                \* cursor, with nothing to bring it back
  crossed       \* a reset came between two transactions of one pass's batch

db == <<sessions, dirty, queue, current, stored, job, index>>
vars == <<sessions, dirty, queue, current, stored, job, index, lock, pass, folds,
          spent, forgotten, crossed>>

Least(S) == CHOOSE s \in S : \A t \in S : s <= t
Largest(S) == CHOOSE s \in S : \A t \in S : t <= s

NoJob == [seeded |-> FALSE, finished |-> FALSE, cursor |-> 0, attempts |-> 0]
Asleep == [pc |-> "asleep", step |-> 1, ids |-> {}, todo |-> {}, skipped |-> 0, moved |-> FALSE,
           at |-> 0]

-----------------------------------------------------------------------------
(* What a batch reads.                                                     *)

(* The next sessions after the cursor, in id order.                        *)
After(c) == {s \in sessions : s > c}
NextSessions(c) == {s \in After(c) : Cardinality({t \in After(c) : t < s}) < BatchSize}

(* A batch's transaction holds the session locks of what it has worked.    *)
Worked(p) == p.ids \ p.todo
Held(s) == \/ s \in folds
           \/ \E j \in Instances : pass[j].pc \in {"work", "commit"} /\ s \in Worked(pass[j])

(* Statements fail: a session that always does, or a fault of the moment.  *)
Fails(x, s) == <<x, s>> \in Poison /\ s \in sessions
Quiet == spent.faults + spent.resets < MaxSpent
Faulty == Quiet /\ spent' = [spent EXCEPT !.faults = @ + 1]

(* The pass after a step, and a pass that stands down.                     *)
Onward(p) == IF p.step = LastStep THEN [Asleep EXCEPT !.pc = "stamp", !.step = LastStep]
             ELSE [Asleep EXCEPT !.pc = "step", !.step = p.step + 1]
Again(p) == [Asleep EXCEPT !.pc = "open", !.step = p.step]
Becomes(i, p) == pass' = [pass EXCEPT ![i] = p]
Moved(j, c, done) == [j EXCEPT !.cursor = c, !.finished = @ \/ done]
Tried(j, n) == [j EXCEPT !.attempts = n]
Advance(x, c, done) == job' = [job EXCEPT ![x] = Moved(job[x], c, done)]

(* The step's cursor has passed a session; a batch of the step is in hand, *)
(* its list of sessions read.                                              *)
Passed(x, s) == job[x].seeded /\ (job[x].finished \/ s <= job[x].cursor)
Listed(x) == \E j \in Instances :
               pass[j].step = x /\ pass[j].pc \in {"work", "commit", "empty", "one", "skip"}

-----------------------------------------------------------------------------
Init ==
  /\ sessions \in SUBSET Ids
  /\ dirty = {} /\ queue = {}
  /\ stored \in 0..(Version - 1)
  /\ current = {x \in Steps : Since[x] <= stored} \X sessions
  /\ job = [x \in Steps |-> NoJob]
  /\ index \in {f \in [IndexSteps -> {"absent", "invalid", "valid"}] :
                 \A x \in IndexSteps : Since[x] <= stored => f[x] = "valid"}
  /\ lock = None /\ forgotten = {} /\ crossed = FALSE
  /\ pass = [i \in Instances |-> Asleep]
  /\ folds = {}
  /\ spent = [faults |-> 0, resets |-> 0]

NewJob(x) == [seeded |-> TRUE, finished |-> Since[x] <= stored, cursor |-> 0, attempts |-> 0]

(* RunDerive begins: nothing to do at this version, or the ledger is       *)
(* seeded, with the steps the stored version covers already finished.      *)
Wake(i) ==
  /\ pass[i].pc = "asleep" /\ stored < Version
  /\ job' = [x \in Steps |-> IF job[x].seeded THEN job[x] ELSE NewJob(x)]
  /\ Becomes(i, [Asleep EXCEPT !.pc = "step"])
  /\ UNCHANGED <<sessions, dirty, queue, current, stored, index, lock, folds, spent,
                 forgotten, crossed>>

(* RunDerive at a version that is stamped.                                 *)
NothingToDo(i) ==
  /\ pass[i].pc = "asleep" /\ stored = Version
  /\ UNCHANGED vars

(* The step's job as readDeriveJob finds it: finished, parked or to do.    *)
EnterStep(i) ==
  /\ pass[i].pc = "step"
  /\ LET j == job[pass[i].step]
     IN Becomes(i, IF j.finished THEN Onward(pass[i])
                   ELSE IF j.attempts >= RetryCap THEN Asleep ELSE Again(pass[i]))
  /\ UNCHANGED <<db, lock, folds, spent, forgotten, crossed>>

(* The window in which bodies may be read is shut, or another instance has *)
(* the lock: try again later.                                              *)
StandDown(i) ==
  /\ \/ pass[i].pc = "open" /\ (pass[i].step \in BodyReading \/ lock # None)
     \/ pass[i].pc \in {"one", "stamp"} /\ lock # None
  /\ Becomes(i, Asleep)
  /\ UNCHANGED <<db, lock, folds, spent, forgotten, crossed>>

Opens(i) == pass[i].pc = "open" /\ lock = None

(* Another instance has finished the step meanwhile.                       *)
FoundDone(i) ==
  /\ \/ Opens(i)
     \/ pass[i].pc = "one" /\ lock = None
  /\ job[pass[i].step].finished
  /\ Becomes(i, Onward(pass[i]))
  /\ UNCHANGED <<db, lock, folds, spent, forgotten, crossed>>

(* deriveBatch and nextSessions. An empty batch is rolled back; the step   *)
(* is closed in a transaction of its own (CloseStep).                      *)
OpenBatch(i) ==
  LET x == pass[i].step
      ids == NextSessions(job[x].cursor)
  IN /\ Opens(i) /\ x \notin IndexSteps /\ ~job[x].finished
     /\ lock' = IF ids = {} THEN None ELSE i
     /\ Becomes(i, [Again(pass[i]) EXCEPT !.pc = IF ids = {} THEN "empty" ELSE "work",
                                          !.ids = ids, !.todo = ids, !.at = job[x].cursor])
     /\ UNCHANGED <<db, folds, spent, forgotten, crossed>>

(* The next session of the batch. One that retention has deleted since is  *)
(* passed over.                                                            *)
WorkSession(i) ==
  LET p == pass[i]
      s == Least(p.todo)
  IN /\ p.pc = "work" /\ p.todo # {} /\ ~Held(s) /\ ~Fails(p.step, s)
     /\ Becomes(i, [p EXCEPT !.todo = @ \ {s}])
     /\ UNCHANGED <<db, lock, folds, spent, forgotten, crossed>>

(* A session another fold holds ends the batch before it; if it is the     *)
(* first, the batch is asked for again, or after a minute of that given up.*)
MeetHeld(i) ==
  LET p == pass[i]
  IN /\ p.pc = "work" /\ p.todo # {} /\ Held(Least(p.todo))
     /\ \/ Worked(p) # {} /\ Becomes(i, [p EXCEPT !.pc = "commit"]) /\ lock' = lock
        \/ Worked(p) = {} /\ (Becomes(i, Again(p)) \/ Becomes(i, Asleep)) /\ lock' = None
     /\ UNCHANGED <<db, folds, spent, forgotten, crossed>>

(* A session whose work fails rolls the batch back; the sessions are then  *)
(* tried one by one. A row of skill_invocations that ingest holds is       *)
(* waited for instead.                                                     *)
WorkFails(i) ==
  LET p == pass[i]
      s == Least(p.todo)
  IN /\ p.pc = "work" /\ p.todo # {} /\ ~Held(s)
     /\ \/ Fails(p.step, s) /\ UNCHANGED spent
        \/ Faulty
     /\ Becomes(i, [Again(p) EXCEPT !.pc = "one", !.todo = p.ids])
     /\ lock' = None
     /\ UNCHANGED <<db, folds, forgotten, crossed>>

SkillRowHeld(i) ==
  LET p == pass[i]
  IN /\ p.pc = "work" /\ p.todo # {} /\ ~Held(Least(p.todo)) /\ p.step = SkillStep
     /\ Faulty
     /\ Becomes(i, Again(p)) \/ Becomes(i, Asleep)
     /\ lock' = None
     /\ UNCHANGED <<db, folds, forgotten, crossed>>

(* commitBatch: the work and the cursor, and the end of the step when the  *)
(* batch was short and met nobody's lock.                                  *)
CommitBatch(i) ==
  LET p == pass[i]
      done == p.todo = {} /\ Cardinality(p.ids) < BatchSize
  IN /\ p.pc = "commit" \/ (p.pc = "work" /\ p.todo = {})
     /\ Advance(p.step, Largest(Worked(p)), done)
     /\ current' = current \cup ({p.step} \X (Worked(p) \cap sessions))
     /\ lock' = None
     /\ Becomes(i, IF done THEN Onward(p) ELSE Again(p))
     /\ UNCHANGED <<sessions, dirty, queue, stored, index, folds, spent, forgotten, crossed>>

(* commitBatchAlone with the cursor the rolled back batch had read. It     *)
(* says nothing if the lock is taken or the step has finished.             *)
(* (mutant: a cursor past what was read)                                   *)
CloseStepPast(i) ==
  LET p == pass[i]
  IN /\ p.pc = "empty"
     /\ IF lock = None /\ ~job[p.step].finished THEN Advance(p.step, p.at + 1, TRUE)
        ELSE UNCHANGED job
     /\ Becomes(i, Again(p))
     /\ UNCHANGED <<sessions, dirty, queue, current, stored, index, lock, folds, spent, forgotten,
                    crossed>>
CloseStep(i) ==
  LET p == pass[i]
  IN /\ p.pc = "empty"
     /\ IF lock = None /\ ~job[p.step].finished THEN Advance(p.step, p.at, TRUE) ELSE UNCHANGED job
     /\ Becomes(i, Again(p))
     /\ UNCHANGED <<sessions, dirty, queue, current, stored, index, lock, folds, spent,
                    forgotten, crossed>>

-----------------------------------------------------------------------------
(* perSessionOneByOne: a transaction for each session of the failed batch. *)

(* The list after its first session.                                       *)
Rest(p, moved) ==
  LET left == p.todo \ {Least(p.todo)}
  IN IF left = {} THEN Again(p) ELSE [p EXCEPT !.pc = "one", !.todo = left, !.moved = @ \/ moved]

Tries(i) == pass[i].pc = "one" /\ lock = None /\ ~job[pass[i].step].finished

(* Another instance has taken the step past this session.                  *)
Behind(i) ==
  LET p == pass[i]
  IN /\ Tries(i) /\ Least(p.todo) <= job[p.step].cursor
     /\ Becomes(i, Rest(p, FALSE))
     /\ UNCHANGED <<db, lock, folds, spent, forgotten, crossed>>

(* Held by a fold, or a row of it by ingest: what was done stands; if      *)
(* nothing was, as in MeetHeld.                                            *)
AloneHeld(i) ==
  LET p == pass[i]
      s == Least(p.todo)
  IN /\ Tries(i) /\ s > job[p.step].cursor
     /\ \/ Held(s) /\ UNCHANGED spent
        \/ ~Held(s) /\ p.step = SkillStep /\ Faulty
     /\ Becomes(i, Again(p)) \/ (~p.moved /\ Becomes(i, Asleep))
     /\ UNCHANGED <<db, lock, folds, forgotten, crossed>>

(* (mutant: without the comparison with the cursor)                        *)
AloneWorksAnywhere(i) ==
  LET p == pass[i]
      s == Least(p.todo)
  IN /\ Tries(i) /\ ~Held(s) /\ ~Fails(p.step, s)
     /\ Advance(p.step, s, FALSE)
     /\ current' = current \cup ({p.step} \X ({s} \cap sessions))
     /\ Becomes(i, Rest(p, TRUE))
     /\ UNCHANGED <<sessions, dirty, queue, stored, index, lock, folds, spent, forgotten,
                    crossed>>
AloneWorks(i) ==
  LET p == pass[i]
      s == Least(p.todo)
  IN /\ Tries(i) /\ s > job[p.step].cursor /\ ~Held(s) /\ ~Fails(p.step, s)
     /\ Advance(p.step, s, FALSE)
     /\ current' = current \cup ({p.step} \X ({s} \cap sessions))
     /\ Becomes(i, Rest(p, TRUE))
     /\ UNCHANGED <<sessions, dirty, queue, stored, index, lock, folds, spent, forgotten,
                    crossed>>

(* It fails alone too: skipped, or too many for this to be the sessions'.  *)
AloneFails(i) ==
  LET p == pass[i]
      s == Least(p.todo)
  IN /\ Tries(i) /\ s > job[p.step].cursor /\ ~Held(s)
     /\ \/ Fails(p.step, s) /\ UNCHANGED spent
        \/ Faulty
     /\ Becomes(i, IF p.skipped >= SkipCap THEN [Again(p) EXCEPT !.pc = "failed"]
                   ELSE [p EXCEPT !.pc = "skip", !.skipped = @ + 1])
     /\ UNCHANGED <<db, lock, folds, forgotten, crossed>>

(* skipSession, in a transaction of its own: dirty for the dirty pass,     *)
(* queued if it is the skills' step, the cursor past it. If the lock is    *)
(* taken just then, or the step has finished, nothing is recorded and the  *)
(* list goes on all the same.                                              *)
(* (mutant: the session is not left dirty)                                 *)
SkipUnrecorded(i) ==
  LET p == pass[i]
      s == Least(p.todo)
  IN /\ p.pc = "skip" /\ lock = None /\ ~job[p.step].finished
     /\ Becomes(i, Rest(p, TRUE))
     /\ Advance(p.step, s, FALSE)
     /\ UNCHANGED <<sessions, dirty, queue, current, stored, index, lock, folds, spent,
                    forgotten, crossed>>
Skip(i) ==
  LET p == pass[i]
      s == Least(p.todo)
      recorded == lock = None /\ ~job[p.step].finished
  IN /\ p.pc = "skip"
     /\ Becomes(i, Rest(p, TRUE))
     /\ dirty' = IF recorded THEN dirty \cup ({s} \cap sessions) ELSE dirty
     /\ queue' = IF recorded /\ p.step = SkillStep THEN queue \cup {s} ELSE queue
     /\ IF recorded THEN Advance(p.step, s, FALSE) ELSE UNCHANGED job
     /\ forgotten' = IF recorded /\ p.step \in Folding \cup {SkillStep} THEN forgotten
                     ELSE forgotten \cup {<<p.step, s>>}
     /\ UNCHANGED <<sessions, current, stored, index, lock, folds, spent, crossed>>

(* Any other statement of a batch fails.                                   *)
Errs(i) ==
  /\ pass[i].pc \in {"open", "work", "commit", "empty", "one", "skip", "build"}
  /\ Faulty
  /\ Becomes(i, [Again(pass[i]) EXCEPT !.pc = "failed"])
  /\ lock' = IF lock = i THEN None ELSE lock
  /\ UNCHANGED <<db, folds, forgotten, crossed>>

(* recordDeriveFailure: the failure counts against the step, which at the  *)
(* cap parks the pass.                                                     *)
RecordFailure(i) ==
  LET p == pass[i]
  IN /\ p.pc = "failed"
     /\ job' = [job EXCEPT ![p.step] = Tried(job[p.step], job[p.step].attempts + 1)]
     /\ Becomes(i, IF job[p.step].attempts + 1 >= RetryCap THEN Asleep ELSE Again(p))
     /\ UNCHANGED <<sessions, dirty, queue, current, stored, index, lock, folds, spent,
                    forgotten, crossed>>

-----------------------------------------------------------------------------
(* indexStep: outside a transaction, under the lock of its connection.     *)

(* An invalid index is dropped, an absent one is built, a valid one is     *)
(* recorded as it is.                                                      *)
(* (mutant: any index there is honoured, as IF NOT EXISTS would)           *)
BuildHonours(i) ==
  LET x == pass[i].step
  IN /\ Opens(i) /\ x \in IndexSteps /\ ~job[x].finished
     /\ lock' = i
     /\ index' = [index EXCEPT ![x] = IF @ = "absent" THEN "invalid" ELSE @]
     /\ Becomes(i, [Again(pass[i]) EXCEPT !.pc = IF index[x] # "absent" THEN "built" ELSE "build"])
     /\ UNCHANGED <<sessions, dirty, queue, current, stored, job, folds, spent, forgotten, crossed>>
Build(i) ==
  LET x == pass[i].step
  IN /\ Opens(i) /\ x \in IndexSteps /\ ~job[x].finished
     /\ lock' = i
     /\ index' = [index EXCEPT ![x] = IF @ = "valid" THEN @ ELSE "invalid"]
     /\ Becomes(i, [Again(pass[i]) EXCEPT !.pc = IF index[x] = "valid" THEN "built" ELSE "build"])
     /\ UNCHANGED <<sessions, dirty, queue, current, stored, job, folds, spent, forgotten,
                    crossed>>

BuildEnds(i) ==
  /\ pass[i].pc = "build"
  /\ index' = [index EXCEPT ![pass[i].step] = "valid"]
  /\ Becomes(i, [pass[i] EXCEPT !.pc = "built"])
  /\ UNCHANGED <<sessions, dirty, queue, current, stored, job, lock, folds, spent,
                 forgotten, crossed>>

RecordIndex(i) ==
  /\ pass[i].pc = "built"
  /\ Advance(pass[i].step, 0, TRUE)
  /\ lock' = None
  /\ Becomes(i, Onward(pass[i]))
  /\ UNCHANGED <<sessions, dirty, queue, current, stored, index, folds, spent, forgotten,
                 crossed>>

(* stampDerived: two statements of one transaction, each with a snapshot   *)
(* of its own. Nothing but the advisory lock is held between them.         *)
(* (mutant: no count of the pending steps)                                 *)
StampUncounted(i) ==
  /\ pass[i].pc = "stamp" /\ lock = None
  /\ lock' = i
  /\ Becomes(i, [pass[i] EXCEPT !.pc = "stamping"])
  /\ UNCHANGED <<db, folds, spent, forgotten, crossed>>
CountPending(i) ==
  /\ pass[i].pc = "stamp" /\ lock = None
  /\ LET clear == \A x \in Steps : job[x].finished
     IN /\ lock' = IF clear THEN i ELSE None
        /\ Becomes(i, IF clear THEN [pass[i] EXCEPT !.pc = "stamping"] ELSE Asleep)
  /\ UNCHANGED <<db, folds, spent, forgotten, crossed>>

Stamp(i) ==
  /\ pass[i].pc = "stamping"
  /\ stored' = Version
  /\ lock' = None
  /\ Becomes(i, Asleep)
  /\ UNCHANGED <<sessions, dirty, queue, current, job, index, folds, spent, forgotten,
                 crossed>>

-----------------------------------------------------------------------------
(* What runs beside the pass.                                              *)

(* The dirty pass folds a session under its lock, without waiting for it.  *)
(* A fold that fails leaves it dirty.                                      *)
FoldBegin(s) ==
  /\ s \in dirty /\ ~Held(s)
  /\ folds' = folds \cup {s}
  /\ UNCHANGED <<db, lock, pass, spent, forgotten, crossed>>

FoldEnd(s) ==
  /\ s \in folds /\ \A x \in Folding : ~Fails(x, s)
  /\ folds' = folds \ {s}
  /\ dirty' = dirty \ {s}
  /\ current' = current \cup (Folding \X ({s} \cap sessions))
  /\ UNCHANGED <<sessions, queue, stored, job, index, lock, pass, spent, forgotten, crossed>>

FoldFails(s) ==
  /\ s \in folds
  /\ \/ (\E x \in Folding : Fails(x, s)) /\ UNCHANGED spent
     \/ Faulty
  /\ folds' = folds \ {s}
  /\ UNCHANGED <<db, lock, pass, forgotten, crossed>>

(* DrainSkillRederive: one queued session rebuilt and taken off the queue. *)
Drain(s) ==
  /\ s \in queue /\ ~Held(s) /\ ~Fails(SkillStep, s)
  /\ queue' = queue \ {s}
  /\ current' = current \cup ({SkillStep} \X ({s} \cap sessions))
  /\ UNCHANGED <<sessions, dirty, stored, job, index, lock, pass, folds, spent, forgotten,
                 crossed>>

(* An upload to a new session or a known one (to one in a fold's hands:    *)
(* SessionStore). It is left dirty; the rows no fold makes are derived with*)
(* it, except those of the steps in gone.                                  *)
Upload(s, gone) ==
  /\ s \notin folds
  /\ sessions' = sessions \cup {s}
  /\ dirty' = dirty \cup {s}
  /\ current' = (current \cup (IF s \in sessions THEN {} ELSE (Steps \ Folding) \X {s}))
                \ (gone \X {s})
  /\ UNCHANGED <<stored, job, index, lock, pass, folds, crossed>>

(* What the pass will not come to any more.                                *)
Lose(s, gone) ==
  forgotten' = forgotten \cup ({x \in gone : Passed(x, s) \/ Listed(x)} \X {s})

(* UpsertEvents of this build: deriveSkillsAtIngest succeeds (and queues a *)
(* session that has the twin of a new row), or is rolled back and queues   *)
(* the session, or that write fails too and the upload stands all the same.*)
Ingest(s) ==
  \/ /\ Upload(s, {})
     /\ \/ UNCHANGED <<queue, spent>>
        \/ s \in sessions /\ queue' = queue \cup {s} /\ Faulty
     /\ UNCHANGED forgotten
  \/ /\ Upload(s, {SkillStep}) /\ Faulty
     /\ \/ queue' = queue \cup {s} /\ UNCHANGED forgotten
        \/ queue' = queue /\ Lose(s, {SkillStep})

(* An instance of the version before, during a deploy or after a rollback, *)
(* knows nothing of the rules that are new.                                *)
Newer == {x \in Steps \ IndexSteps : Since[x] = Version}
OlderIngest(s) ==
  /\ Upload(s, Newer) /\ Faulty
  /\ Lose(s, Newer)
  /\ UNCHANGED queue

(* Retention deletes a session, once no transaction holds rows of it.      *)
Delete(s) ==
  /\ s \in sessions /\ ~Held(s)
  /\ Faulty
  /\ sessions' = sessions \ {s}
  /\ dirty' = dirty \ {s}
  /\ current' = {c \in current : c[2] # s}
  /\ UNCHANGED <<queue, stored, job, index, lock, pass, folds, forgotten, crossed>>

(* The admin's rerun of skill_invocations: its rows are not trusted, the   *)
(* job starts over, the stamp is lowered. It waits for a batch that has    *)
(* the job's row, and for no other lock.                                   *)
Reset ==
  LET mid(S) == \E j \in Instances : pass[j].pc \in S /\ pass[j].step = SkillStep
      stamping == \E j \in Instances : pass[j].pc = "stamping"
  IN /\ Quiet /\ ~mid({"work", "commit"})
     /\ spent' = [spent EXCEPT !.resets = @ + 1]
     /\ job' = [job EXCEPT ![SkillStep] = [NoJob EXCEPT !.seeded = job[SkillStep].seeded]]
     /\ stored' = IF stored = Version THEN Version - 1 ELSE stored
     /\ current' = {c \in current : c[1] # SkillStep}
     /\ crossed' = (crossed \/ stamping \/ mid({"empty", "one", "skip"}))
     /\ UNCHANGED <<sessions, dirty, queue, index, lock, pass, folds, forgotten>>

(* The rerun of a window of sessions: they are queued.                     *)
Requeue(S) ==
  /\ S # {} /\ S \subseteq sessions /\ Quiet
  /\ spent' = [spent EXCEPT !.resets = @ + 1]
  /\ queue' = queue \cup S
  /\ UNCHANGED <<sessions, dirty, current, stored, job, index, lock, pass, folds, forgotten, crossed>>

(* The statement the parked step's log line names.                         *)
Resume(x) ==
  /\ job[x].attempts >= RetryCap
  /\ job' = [job EXCEPT ![x] = Tried(job[x], 0)]
  /\ UNCHANGED <<sessions, dirty, queue, current, stored, index, lock, pass, folds, spent,
                 forgotten, crossed>>

(* An instance is killed or shut down.                                     *)
Kill(i) ==
  /\ pass[i].pc # "asleep"
  /\ Faulty
  /\ Becomes(i, Asleep)
  /\ lock' = IF lock = i THEN None ELSE lock
  /\ UNCHANGED <<db, folds, forgotten, crossed>>

-----------------------------------------------------------------------------
Batch(i) == FoundDone(i) \/ OpenBatch(i) \/ WorkSession(i) \/ MeetHeld(i) \/ WorkFails(i)
            \/ SkillRowHeld(i) \/ CommitBatch(i) \/ CloseStep(i)
Alone(i) == Behind(i) \/ AloneHeld(i) \/ AloneWorks(i) \/ AloneFails(i) \/ Skip(i)
Index(i) == Build(i) \/ BuildEnds(i) \/ RecordIndex(i)
PassStep(i) == Wake(i) \/ NothingToDo(i) \/ EnterStep(i) \/ StandDown(i) \/ Batch(i) \/ Alone(i)
               \/ Index(i) \/ Errs(i) \/ RecordFailure(i) \/ CountPending(i) \/ Stamp(i) \/ Kill(i)

Beside ==
  \/ \E s \in Ids : FoldBegin(s) \/ FoldEnd(s) \/ FoldFails(s) \/ Drain(s) \/ Delete(s)
                    \/ Ingest(s) \/ OlderIngest(s)
  \/ Reset \/ \E S \in SUBSET sessions : Requeue(S)
  \/ \E x \in Steps : Resume(x)

Next == Beside \/ \E i \in Instances : PassStep(i)

Spec == Init /\ [][Next]_vars

-----------------------------------------------------------------------------
PCs == {"asleep", "step", "open", "work", "commit", "empty", "one", "skip", "failed", "build",
        "built", "stamp", "stamping"}
JobType == [seeded : BOOLEAN, finished : BOOLEAN, cursor : 0..MaxSession, attempts : Nat]
PassType == [pc : PCs, step : Steps, ids : SUBSET Ids, todo : SUBSET Ids, skipped : Nat,
             moved : BOOLEAN, at : 0..MaxSession]

TypeOK ==
  /\ sessions \subseteq Ids /\ dirty \subseteq Ids /\ queue \subseteq Ids
  /\ current \subseteq Steps \X Ids /\ forgotten \subseteq Steps \X Ids
  /\ stored \in 0..Version
  /\ job \in [Steps -> JobType]
  /\ index \in [IndexSteps -> {"absent", "invalid", "valid"}]
  /\ lock \in Instances \cup {None}
  /\ pass \in [Instances -> PassType]
  /\ folds \subseteq Ids
  /\ crossed \in BOOLEAN
  /\ spent \in [faults : Nat, resets : Nat]

(* What the dirty pass or the drain will come back for.                    *)
Owed(x, s) == (x \in Folding /\ s \in dirty) \/ (x = SkillStep /\ s \in queue)

(* A session the cursor of a step has passed is derived by the current     *)
(* rule, or somebody comes back for it: whatever batches were rolled back, *)
(* split, resumed by another instance or met a fold's lock, and whatever   *)
(* was uploaded ahead of the cursor, behind it or during a batch. The      *)
(* exceptions: what Skip could not hand to anybody, the rows an upload     *)
(* behind the cursor lost without being queued, or an older build did not  *)
(* derive, which only the operator's Requeue brings back, and a rerun that *)
(* crossed a batch.                                                        *)
PassedIsDerived ==
  ~crossed => \A x \in Steps \ IndexSteps, s \in sessions :
                Passed(x, s) => \/ <<x, s>> \in current \/ Owed(x, s) \/ <<x, s>> \in forgotten

(* The stamp says that every step has finished, unless a rerun was asked   *)
(* for while it was being written.                                         *)
StampIsEarned == ~crossed /\ stored = Version => \A x \in Steps : job[x].finished

(* Two instances never do a batch twice: between reruns a finished step    *)
(* stays finished, and a cursor only advances, except that Skip does not   *)
(* compare as AloneWorks does and may take it back behind what another     *)
(* instance has done meanwhile. (CloseStep may write an older cursor too,  *)
(* but it finishes the step.)                                              *)
Skipping(x) == \E i \in Instances : pass[i].pc = "skip" /\ pass[i].step = x /\ pass'[i] # pass[i]
NeverBack ==
  [][ \A x \in Steps :
        job'[x] = job[x] \/ spent'.resets # spent.resets
        \/ /\ job[x].finished => job'[x].finished
           /\ job'[x].cursor >= job[x].cursor \/ job'[x].finished \/ Skipping(x) ]_vars

(* A step that says its index is built left a valid index, however builds  *)
(* were cut off: an invalid one is not honoured by IF NOT EXISTS.          *)
IndexIsValid ==
  \A x \in IndexSteps : job[x].finished => index[x] = "valid"

(* The same without the exceptions, as the comments of skipSession and     *)
(* perSession have it: what a step passes over comes back.                 *)
NothingForgotten ==
  \A x \in Steps \ IndexSteps, s \in sessions : Passed(x, s) => <<x, s>> \in current \/ Owed(x, s)

=============================================================================
