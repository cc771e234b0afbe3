-------------------------- MODULE DeriveJobsProofs --------------------------
(* For any number of instances, sessions, steps and faults, and whatever   *)
(* sessions fail: types; the index of a finished step is valid; a stamp is *)
(* earned; what a step has passed is derived, owed or on the list of what  *)
(* a skip could not hand to anybody and an upload lost behind the cursor.  *)
EXTENDS DeriveJobs, FiniteSetTheorems, WellFoundedInduction, TLAPS

USE JobsAssumption

Good(x, s) == <<x, s>> \in current \/ Owed(x, s) \/ <<x, s>> \in forgotten

Holding == {"work", "commit", "build", "built", "stamping"}

(* Before anybody woke there is no ledger, and what the stored version     *)
(* covers is as that version left it, or owed.                             *)
Seeded ==
  \/ \A x \in Steps : job[x].seeded
  \/ /\ \A x \in Steps : job[x] = NoJob
     /\ \A i \in Instances : pass[i].pc = "asleep"
     /\ stored < Version
     /\ \A x \in Steps : Since[x] <= stored =>
          /\ \A s \in sessions : Good(x, s)
          /\ x \in IndexSteps => index[x] = "valid"

(* What a pass has left behind it: a batch, sessions before those it has   *)
(* read; an empty batch, all; a list, sessions between those still on it.  *)
Left(p) ==
  /\ p.pc \in {"work", "commit"} =>
       \A s \in sessions \ p.ids :
         s <= p.at \/ (Cardinality(p.ids) >= BatchSize /\ \A t \in p.ids : t <= s) \/ Good(p.step, s)
  /\ p.pc = "empty" => \A s \in sessions : Good(p.step, s)
  /\ p.pc \in {"one", "skip"} =>
       \A s \in sessions \ p.todo : (\A t \in p.todo : t <= s) \/ Good(p.step, s)

Shape(p) ==
  /\ p.pc = "work" => p.ids # {}
  /\ p.pc = "commit" => p.ids \ p.todo # {}
  /\ p.pc \in {"one", "skip"} => p.todo # {}
  /\ p.pc \in {"work", "commit"} =>
       p.todo \subseteq p.ids /\ \A a \in p.ids \ p.todo, b \in p.todo : a < b
  /\ p.pc \in {"work", "commit", "empty", "one", "skip"} => p.step \notin IndexSteps
  /\ p.pc \in {"build", "built"} => p.step \in IndexSteps

(* A pass that holds the lock finds the database as it left it.            *)
Holds(i, p) ==
  /\ p.pc \in Holding => lock = i
  /\ p.pc \in {"work", "commit"} => p.at = job[p.step].cursor
  /\ p.pc = "built" => index[p.step] = "valid"
  /\ p.pc = "stamping" /\ ~crossed => \A x \in Steps : job[x].finished

PassOK(i, p) == p \in PassType /\ Shape(p) /\ Holds(i, p) /\ (~crossed => Left(p))

JobsInv ==
  /\ TypeOK /\ Seeded /\ PassedIsDerived /\ StampIsEarned /\ IndexIsValid
  /\ \A i \in Instances : PassOK(i, pass[i])

-----------------------------------------------------------------------------
LEMMA LeastIs ==
  ASSUME NEW S, S \subseteq Nat, S # {}
  PROVE  Least(S) \in S /\ \A t \in S : Least(S) <= t
<1>1. PICK s \in S : \A t \in S : ~(<<t, s>> \in OpToRel(<, Nat))
  BY NatLessThanWellFounded, WFMin, Zenon
<1>2. ASSUME NEW t \in S PROVE s <= t
  <2>1. <<t, s>> \in OpToRel(<, Nat) <=> t < s
    BY DEF OpToRel
  <2>2. s \in Nat /\ t \in Nat
    OBVIOUS
  <2>3. ~(t < s)
    BY <1>1, <2>1, Zenon
  <2> QED BY <2>2, <2>3
<1> QED BY <1>2 DEF Least

LEMMA LargestIs ==
  ASSUME NEW S, S \subseteq Ids, S # {}
  PROVE  Largest(S) \in S /\ \A t \in S : t <= Largest(S)
<1> DEFINE D == {MaxSession - s : s \in S}
<1>1. D \subseteq Nat /\ D # {}
  <2>1. MaxSession \in Nat
    OBVIOUS
  <2>2. \A s \in S : MaxSession - s \in Nat
    BY <2>1 DEF Ids
  <2> QED BY <2>2
<1>2. Least(D) \in D /\ \A t \in D : Least(D) <= t
  BY <1>1, LeastIs
<1>3. PICK s \in S : Least(D) = MaxSession - s
  BY <1>2
<1>4. ASSUME NEW t \in S PROVE t <= s
  <2>1. Least(D) <= MaxSession - t
    BY <1>2
  <2>2. s \in Int /\ t \in Int /\ MaxSession \in Int
    BY DEF Ids
  <2>3. MaxSession - s <= MaxSession - t
    BY <2>1, <1>3
  <2> HIDE DEF D
  <2> QED BY ONLY <2>2, <2>3
<1> QED BY <1>4 DEF Largest

LEMMA Finite ==
  ASSUME NEW S, S \subseteq Ids
  PROVE  IsFiniteSet(S) /\ Cardinality(S) \in Nat
<1>1. IsFiniteSet(1..MaxSession)
  BY FS_Interval
<1>2. IsFiniteSet(S)
  BY <1>1, FS_Subset DEF Ids
<1> QED BY <1>2, FS_CardinalityType

(* A batch takes the first sessions after the cursor, and a short one all. *)
LEMMA NextAre ==
  ASSUME NEW c \in 0..MaxSession, sessions \subseteq Ids
  PROVE  /\ NextSessions(c) \subseteq sessions
         /\ \A s \in NextSessions(c) : s > c
         /\ \A s \in sessions \ NextSessions(c) :
              s <= c \/ (/\ Cardinality(NextSessions(c)) >= BatchSize
                         /\ \A t \in NextSessions(c) : t <= s)
         /\ NextSessions(c) = {} => \A s \in sessions : s <= c
<1> DEFINE ids == NextSessions(c)
           Below(s) == {t \in After(c) : t < s}
<1>1. ids \subseteq After(c) /\ After(c) \subseteq Ids /\ After(c) \subseteq sessions
  BY DEF NextSessions, After
<1>2. ASSUME NEW s \in After(c) \ ids PROVE Cardinality(Below(s)) >= BatchSize
  <2>1. ~(Cardinality(Below(s)) < BatchSize)
    BY DEF NextSessions
  <2>2. Cardinality(Below(s)) \in Nat
    BY <1>1, Finite
  <2> QED BY <2>1, <2>2
<1>3. ASSUME NEW s \in After(c) \ ids, NEW t \in ids PROVE t <= s
  <2> SUFFICES ASSUME s < t PROVE FALSE
    BY <1>1 DEF Ids
  <2>1. Below(s) \subseteq Below(t)
    BY <1>1 DEF Ids
  <2>2. IsFiniteSet(Below(t)) /\ Below(t) \subseteq Ids /\ Below(s) \subseteq Ids
    BY <1>1, Finite
  <2>3. Cardinality(Below(s)) <= Cardinality(Below(t))
    BY <2>1, <2>2, FS_Subset
  <2>4. Cardinality(Below(t)) < BatchSize
    BY DEF NextSessions
  <2>5. Cardinality(Below(s)) \in Nat /\ Cardinality(Below(t)) \in Nat
    BY <2>2, Finite
  <2> QED BY <1>2, <2>3, <2>4, <2>5
<1>4. ASSUME After(c) \ ids # {} PROVE Cardinality(ids) >= BatchSize
  <2> DEFINE s == Least(After(c) \ ids)
  <2>1. s \in After(c) \ ids /\ \A t \in After(c) \ ids : s <= t
    <3>1. After(c) \ ids \subseteq Nat
      BY <1>1 DEF Ids
    <3> QED BY <3>1, <1>4, LeastIs
  <2> HIDE DEF s
  <2>2. Below(s) \subseteq ids
    BY <2>1, <1>1 DEF Ids
  <2>3. Cardinality(Below(s)) <= Cardinality(ids)
    BY <2>2, <1>1, Finite, FS_Subset
  <2>4. Cardinality(Below(s)) \in Nat /\ Cardinality(ids) \in Nat
    BY <2>2, <1>1, Finite
  <2> QED BY <2>1, <2>3, <2>4, <1>2
<1>5. ASSUME ids = {} PROVE After(c) = {}
  <2>1. Cardinality(ids) = 0
    BY <1>5, FS_EmptySet
  <2> QED BY <2>1, <1>4, <1>5
<1>6. \A s \in sessions : s \in After(c) <=> s > c
  BY DEF After
<1> HIDE DEF ids
<1>7. \A s \in sessions \ ids : s <= c \/ (Cardinality(ids) >= BatchSize /\ \A t \in ids : t <= s)
  <2> TAKE s \in sessions \ ids
  <2> CASE s > c
    BY <1>3, <1>4, <1>6
  <2> CASE ~(s > c)
    BY DEF Ids
  <2> QED OBVIOUS
<1>8. \A s \in ids : s > c
  BY <1>1, <1>6
<1>9. ids = {} => \A s \in sessions : s <= c
  BY <1>5, <1>6 DEF Ids
<1> QED BY <1>1, <1>7, <1>8, <1>9 DEF ids

-----------------------------------------------------------------------------
(* Steps that leave a pass alone, or change only it.                       *)

(* A pass nobody touched stays in order while what it has seen stays so.   *)
LEMMA Others ==
  ASSUME JobsInv, NEW j \in Instances, NEW p, p = pass[j],
         p.pc \in Holding => lock' = lock /\ index' = index,
         p.pc \in {"work", "commit"} => job'[p.step].cursor = job[p.step].cursor,
         p.pc = "stamping" /\ ~crossed' => ~crossed /\ \A x \in Steps : job'[x].finished,
         crossed => crossed',
         p.pc \in {"work", "commit", "empty", "one", "skip"} /\ ~crossed' =>
           \A s \in sessions' : Good(p.step, s)' \/ (s \in sessions /\ ~Good(p.step, s))
  PROVE  PassOK(j, p)'
<1>1. p \in PassType /\ Shape(p) /\ Holds(j, p) /\ (~crossed => Left(p))
  BY DEF JobsInv, PassOK
<1>2. Shape(p)'
  BY <1>1 DEF Shape
<1>3. Holds(j, p)'
  BY <1>1 DEF Holds, Holding
<1>4. ASSUME ~crossed' PROVE Left(p)'
  <2>1. Left(p)
    BY <1>1, <1>4
  <2>2. p.pc \in {"work", "commit"} =>
          \A s \in sessions' \ p.ids :
            s <= p.at \/ (Cardinality(p.ids) >= BatchSize /\ \A t \in p.ids : t <= s)
            \/ Good(p.step, s)'
    BY <2>1, <1>4 DEF Left
  <2>3. p.pc = "empty" => \A s \in sessions' : Good(p.step, s)'
    BY <2>1, <1>4 DEF Left
  <2>4. p.pc \in {"one", "skip"} =>
          \A s \in sessions' \ p.todo : (\A t \in p.todo : t <= s) \/ Good(p.step, s)'
    BY <2>1, <1>4 DEF Left
  <2> QED BY <2>2, <2>3, <2>4 DEF Left
<1> QED BY <1>1, <1>2, <1>3, <1>4 DEF PassOK

LEMMA AwakeIsSeeded ==
  ASSUME JobsInv, NEW i \in Instances, pass[i].pc # "asleep"
  PROVE  \A x \in Steps : job[x].seeded
BY DEF JobsInv, Seeded

LEMMA Keep ==
  ASSUME JobsInv, NEW j \in Instances, pass'[j] = pass[j], crossed' = crossed,
         pass[j].pc \in Holding =>
           /\ lock' = lock /\ index' = index
           /\ \A x \in Steps : /\ job'[x].cursor = job[x].cursor
                               /\ job[x].finished => job'[x].finished,
         \A x \in Steps, s \in sessions' : \/ Good(x, s)' \/ (s \in sessions /\ ~Good(x, s))
                                          \/ ~Listed(x)
  PROVE  PassOK(j, pass[j])'
<1>1. PICK p : p = pass[j]
  OBVIOUS
<1>2. Holds(j, p) /\ p \in PassType /\ p.step \in Steps
  BY <1>1 DEF JobsInv, PassOK, PassType
<1>3. p.pc \in {"work", "commit"} => job'[p.step].cursor = job[p.step].cursor
  BY <1>1, <1>2 DEF Holding
<1>4. p.pc = "stamping" /\ ~crossed' => ~crossed /\ \A x \in Steps : job'[x].finished
  BY <1>1, <1>2 DEF Holding, Holds
<1>5. p.pc \in {"work", "commit", "empty", "one", "skip"} =>
        \A s \in sessions' : Good(p.step, s)' \/ (s \in sessions /\ ~Good(p.step, s))
  <2>1. p.pc \in {"work", "commit", "empty", "one", "skip"} => Listed(p.step)
    BY <1>1 DEF Listed
  <2> QED BY <1>2, <2>1, Zenon
<1>6. PassOK(j, p)'
  BY <1>1, <1>3, <1>4, <1>5, Others
<1> QED BY <1>1, <1>6 DEF PassOK, Shape, Holds, Left

(* A pass moves and the database stays.                                    *)
LEMMA MovesOn ==
  ASSUME JobsInv, NEW i \in Instances, NEW q, pass[i].pc # "asleep",
         pass' = [pass EXCEPT ![i] = q], UNCHANGED <<db, folds, crossed>>,
         forgotten \subseteq forgotten', forgotten' \subseteq Steps \X Ids,
         spent' \in [faults : Nat, resets : Nat],
         lock' \in Instances \cup {None}, lock' = lock \/ lock \in {None, i},
         q \in PassType, Shape(q), Holds(i, q)', ~crossed => Left(q)'
  PROVE  JobsInv'
<1> USE DEF db
<1>1. TypeOK'
  BY DEF JobsInv, TypeOK
<1>2. Seeded'
  BY AwakeIsSeeded DEF Seeded
<1>3. PassedIsDerived' /\ StampIsEarned' /\ IndexIsValid'
  BY DEF JobsInv, PassedIsDerived, Passed, Owed, StampIsEarned, IndexIsValid
<1>4. ASSUME NEW j \in Instances PROVE PassOK(j, pass[j])'
  <2>1. CASE j = i
    <3>1. pass'[j] = q
      BY <2>1 DEF JobsInv, TypeOK
    <3>2. PassOK(i, q)'
      BY DEF PassOK, Shape
    <3> QED BY <3>1, <3>2, <2>1 DEF PassOK, Shape, Holds, Left
  <2>2. CASE j # i
    <3>1. pass'[j] = pass[j]
      BY <2>2 DEF JobsInv, TypeOK
    <3>2. pass[j].pc \in Holding => lock' = lock
      BY <2>2 DEF JobsInv, PassOK, Holds
    <3>3. \A x \in Steps, s \in sessions' : Good(x, s)' \/ (s \in sessions /\ ~Good(x, s))
      BY DEF Good, Owed
    <3> QED BY <3>1, <3>2, <3>3, Keep
  <2> QED BY <2>1, <2>2
<1> QED BY <1>1, <1>2, <1>3, <1>4 DEF JobsInv

LEMMA Moves ==
  ASSUME JobsInv, NEW i \in Instances, NEW q, pass[i].pc # "asleep",
         pass' = [pass EXCEPT ![i] = q], UNCHANGED <<db, folds, forgotten, crossed>>,
         spent' \in [faults : Nat, resets : Nat],
         lock' \in Instances \cup {None}, lock' = lock \/ lock \in {None, i},
         q \in PassType, Shape(q), Holds(i, q)', ~crossed => Left(q)
  PROVE  JobsInv'
<1>1. Left(q) => Left(q)'
  BY DEF Left, Good, Owed, db
<1>2. forgotten' \subseteq Steps \X Ids
  BY DEF JobsInv, TypeOK
<1> QED BY <1>1, <1>2, MovesOn

(* A pass between its transactions promises nothing.                       *)
Between == {"asleep", "step", "open", "failed", "stamp"}

LEMMA Bare ==
  ASSUME NEW p \in PassType
  PROVE  /\ Asleep \in PassType /\ Asleep.pc \in Between
         /\ Again(p) \in PassType /\ Again(p).pc \in Between
         /\ Onward(p) \in PassType /\ Onward(p).pc \in Between
         /\ [Again(p) EXCEPT !.pc = "failed"] \in PassType
         /\ [Again(p) EXCEPT !.pc = "failed"].pc \in Between
<1> USE DEF PassType, PCs, Between
<1>1. 1 \in Steps /\ LastStep \in Steps /\ {} \in SUBSET Ids /\ 0 \in 0..MaxSession
  BY DEF Steps
<1>2. Asleep \in PassType /\ Asleep.pc = "asleep"
  BY <1>1 DEF Asleep
<1>3. Again(p) \in PassType /\ Again(p).pc = "open"
  BY <1>1 DEF Asleep, Again
<1>4. [Again(p) EXCEPT !.pc = "failed"] \in PassType /\ [Again(p) EXCEPT !.pc = "failed"].pc = "failed"
  BY <1>1 DEF Asleep, Again
<1>5. Onward(p) \in PassType /\ Onward(p).pc \in Between
  <2>1. CASE p.step = LastStep
    BY <1>1, <2>1 DEF Asleep, Onward
  <2>2. CASE p.step # LastStep
    <3>1. p.step + 1 \in Steps
      BY <2>2 DEF Steps
    <3> QED BY <1>1, <2>2, <3>1 DEF Asleep, Onward
  <2> QED BY <2>1, <2>2
<1> QED BY <1>2, <1>3, <1>4, <1>5

LEMMA Idle ==
  ASSUME NEW i, NEW q, q.pc \in Between
  PROVE  Shape(q) /\ Left(q) /\ Holds(i, q)'
BY DEF Between, Shape, Left, Holds, Holding

(* A transaction of a pass moves a step's cursor and what it stands for.   *)
LEMMA Advances ==
  ASSUME JobsInv, NEW i \in Instances, NEW q, pass[i].pc # "asleep", lock \in {None, i},
         pass' = [pass EXCEPT ![i] = q], lock' = None,
         NEW x \in Steps, NEW c \in 0..MaxSession, NEW done \in BOOLEAN, Advance(x, c, done),
         x \in IndexSteps /\ done => index[x] = "valid",
         UNCHANGED <<sessions, stored, index, folds, crossed, spent>>,
         current \subseteq current', dirty \subseteq dirty', queue \subseteq queue',
         forgotten \subseteq forgotten',
         current' \subseteq Steps \X Ids, dirty' \subseteq Ids, queue' \subseteq Ids,
         forgotten' \subseteq Steps \X Ids,
         ~crossed /\ x \notin IndexSteps => \A s \in sessions : done \/ s <= c => Good(x, s)',
         q \in PassType, Shape(q), Holds(i, q)', ~crossed => Left(q)'
  PROVE  JobsInv'
<1>1. \A y \in Steps : job[y].seeded
  BY AwakeIsSeeded
<1>2. job \in [Steps -> JobType]
  BY DEF JobsInv, TypeOK
<1>3. /\ \A y \in Steps : y # x => job'[y] = job[y]
      /\ job'[x].cursor = c /\ (job'[x].finished <=> job[x].finished \/ done)
      /\ job'[x].seeded /\ job' \in [Steps -> JobType]
  <2>1. job[x] \in JobType /\ job[x].finished \in BOOLEAN
    BY <1>2 DEF JobType
  <2>2. job'[x] = Moved(job[x], c, done)
    BY <1>2 DEF Advance
  <2>3. (job[x].finished \/ done) \in BOOLEAN
    OBVIOUS
  <2>4. job'[x] = [seeded |-> job[x].seeded, finished |-> job[x].finished \/ done, cursor |-> c,
                   attempts |-> job[x].attempts]
    BY <2>1, <2>2 DEF JobType, Moved
  <2>5. job'[x].finished = (job[x].finished \/ done)
    BY <2>4
  <2>6. job'[x].finished <=> job[x].finished \/ done
    BY <2>5, Zenon
  <2>7. job'[x] \in JobType
    BY <2>1, <2>3, <2>4 DEF JobType
  <2>8. job' = [job EXCEPT ![x] = job'[x]]
    BY <1>2 DEF Advance
  <2> QED BY <1>1, <1>2, <2>4, <2>6, <2>7, <2>8
<1>4. \A y, s : Good(y, s)' \/ ~Good(y, s)
  BY DEF Good, Owed
<1>5. TypeOK'
  BY <1>3 DEF JobsInv, TypeOK
<1>6. Seeded'
  BY <1>1, <1>3 DEF Seeded
<1>7. PassedIsDerived'
  <2> SUFFICES ASSUME ~crossed', NEW y \in Steps \ IndexSteps, NEW s \in sessions', Passed(y, s)'
               PROVE  Good(y, s)'
    BY DEF PassedIsDerived, Good
  <2>1. CASE y # x
    <3>1. Passed(y, s)
      BY <2>1, <1>3 DEF Passed
    <3>2. Good(y, s)
      BY <3>1 DEF JobsInv, PassedIsDerived, Good
    <3> QED BY <3>2, <1>4
  <2>2. CASE y = x /\ (done \/ s <= c)
    BY <2>2
  <2>3. CASE y = x /\ ~done /\ ~(s <= c)
    <3>1. Passed(y, s)
      <4>1. job'[x].seeded /\ (job'[x].finished \/ s <= job'[x].cursor)
        BY <2>3 DEF Passed
      <4>2. job[x].finished
        BY <4>1, <1>3, <2>3
      <4> QED BY <4>2, <1>1, <2>3 DEF Passed
    <3>2. Good(y, s)
      BY <3>1 DEF JobsInv, PassedIsDerived, Good
    <3> QED BY <3>2, <1>4
  <2> QED BY <2>1, <2>2, <2>3
<1>8. StampIsEarned'
  BY <1>3 DEF JobsInv, StampIsEarned
<1>9. IndexIsValid'
  BY <1>3 DEF JobsInv, IndexIsValid
<1>10. ASSUME NEW j \in Instances PROVE PassOK(j, pass[j])'
  <2>1. CASE j = i
    <3>1. pass'[j] = q
      BY <2>1 DEF JobsInv, TypeOK
    <3>2. PassOK(i, q)'
      BY DEF PassOK, Shape
    <3> QED BY <3>1, <3>2, <2>1 DEF PassOK, Shape, Holds, Left
  <2>2. CASE j # i
    <3>1. pass'[j] = pass[j]
      BY <2>2 DEF JobsInv, TypeOK
    <3>2. pass[j].pc \notin Holding
      BY <2>2 DEF JobsInv, PassOK, Holds
    <3>3. \A y \in Steps, s \in sessions' : Good(y, s)' \/ (s \in sessions /\ ~Good(y, s))
      BY <1>4, Zenon
    <3> QED BY <3>1, <3>2, <3>3, Keep
  <2> QED BY <2>1, <2>2
<1> QED BY <1>5, <1>6, <1>7, <1>8, <1>9, <1>10 DEF JobsInv

-----------------------------------------------------------------------------
(* The steps of a pass that leave the database as it is.                   *)

LEMMA At ==
  ASSUME JobsInv, NEW i \in Instances
  PROVE  /\ pass[i] \in PassType /\ Shape(pass[i]) /\ Holds(i, pass[i])
         /\ ~crossed => Left(pass[i])
         /\ spent \in [faults : Nat, resets : Nat] /\ lock \in Instances \cup {None}
         /\ Faulty => spent' \in [faults : Nat, resets : Nat]
BY DEF JobsInv, PassOK, TypeOK, Faulty

(* Any step that leaves a pass between its transactions.                   *)
LEMMA Settles ==
  ASSUME JobsInv, NEW i \in Instances, NEW q, pass[i].pc # "asleep",
         pass' = [pass EXCEPT ![i] = q], UNCHANGED <<db, folds, forgotten, crossed>>,
         spent' = spent \/ Faulty, lock' \in {lock, None}, lock' = lock \/ lock \in {None, i},
         q \in PassType, q.pc \in Between
  PROVE  JobsInv'
<1>1. Shape(q) /\ Left(q) /\ Holds(i, q)'
  BY Idle
<1>2. spent' \in [faults : Nat, resets : Nat] /\ lock' \in Instances \cup {None}
  BY At
<1> QED BY <1>1, <1>2, Moves

LEMMA DoEnterStep == ASSUME JobsInv, NEW i \in Instances, EnterStep(i) PROVE JobsInv'
BY At, Bare, Settles DEF EnterStep, Becomes

LEMMA DoStandDown == ASSUME JobsInv, NEW i \in Instances, StandDown(i) PROVE JobsInv'
BY At, Bare, Settles DEF StandDown, Becomes

LEMMA DoFoundDone == ASSUME JobsInv, NEW i \in Instances, FoundDone(i) PROVE JobsInv'
BY At, Bare, Settles DEF FoundDone, Opens, Becomes

LEMMA DoSkillRowHeld == ASSUME JobsInv, NEW i \in Instances, SkillRowHeld(i) PROVE JobsInv'
BY At, Bare, Settles DEF SkillRowHeld, Becomes, Holds, Holding

LEMMA DoAloneHeld == ASSUME JobsInv, NEW i \in Instances, AloneHeld(i) PROVE JobsInv'
BY At, Bare, Settles DEF AloneHeld, Tries, Becomes

LEMMA DoErrs == ASSUME JobsInv, NEW i \in Instances, Errs(i) PROVE JobsInv'
BY At, Bare, Settles DEF Errs, Becomes

LEMMA DoKill == ASSUME JobsInv, NEW i \in Instances, Kill(i) PROVE JobsInv'
BY At, Bare, Settles DEF Kill, Becomes

LEMMA DoOpenBatch == ASSUME JobsInv, NEW i \in Instances, OpenBatch(i) PROVE JobsInv'
<1> DEFINE x == pass[i].step
           c == job[x].cursor
           ids == NextSessions(c)
<1> USE DEF OpenBatch, Opens, Becomes
<1>0. /\ pass[i] \in PassType /\ x \in Steps /\ pass[i].pc = "open" /\ lock = None
      /\ sessions \subseteq Ids /\ job[x] \in JobType /\ c \in 0..MaxSession
      /\ spent \in [faults : Nat, resets : Nat]
  BY At DEF PassType, JobsInv, TypeOK, JobType
<1>1. /\ ids \subseteq sessions
      /\ \A s \in sessions \ ids :
           s <= c \/ (Cardinality(ids) >= BatchSize /\ \A t \in ids : t <= s)
      /\ ids = {} => \A s \in sessions : s <= c
  BY <1>0, NextAre
<1>2. ids \subseteq Ids
  BY <1>0, <1>1
<1> HIDE DEF ids
<1>3. \A s \in sessions : ~crossed /\ s <= c => x \in IndexSteps \/ Good(x, s)
  BY <1>0, AwakeIsSeeded DEF JobsInv, PassedIsDerived, Passed, Good
<1>4. CASE ids = {}
  <2>0. PICK q : q = [Again(pass[i]) EXCEPT !.pc = "empty", !.ids = ids, !.todo = ids, !.at = c]
    OBVIOUS
  <2>1. q \in PassType /\ q.pc = "empty" /\ q.step = x
    BY <2>0, <1>0, <1>2 DEF PassType, Again, Asleep, PCs
  <2>2. pass' = [pass EXCEPT ![i] = q] /\ lock' = None
    BY <2>0, <1>4 DEF ids
  <2>3. Shape(q) /\ Holds(i, q)'
    BY <2>1 DEF Shape, Holds, Holding
  <2>4. ~crossed => Left(q)
    BY <2>1, <1>1, <1>3, <1>4 DEF Left
  <2> QED BY <1>0, <2>1, <2>2, <2>3, <2>4, Moves
<1>5. CASE ids # {}
  <2>0. PICK q : q = [Again(pass[i]) EXCEPT !.pc = "work", !.ids = ids, !.todo = ids, !.at = c]
    OBVIOUS
  <2>1. /\ q \in PassType /\ q.pc = "work" /\ q.step = x
        /\ q.ids = ids /\ q.todo = ids /\ q.at = c
    BY <2>0, <1>0, <1>2 DEF PassType, Again, Asleep, PCs
  <2>2. pass' = [pass EXCEPT ![i] = q] /\ lock' = i
    BY <2>0, <1>5 DEF ids
  <2>3. Shape(q) /\ Holds(i, q)'
    BY <2>1, <2>2, <1>5 DEF Shape, Holds, Holding, db
  <2>4. ~crossed => Left(q)
    BY <2>1, <1>1 DEF Left
  <2> QED BY <1>0, <2>1, <2>2, <2>3, <2>4, Moves
<1> QED BY <1>4, <1>5

LEMMA DoWorkSession == ASSUME JobsInv, NEW i \in Instances, WorkSession(i) PROVE JobsInv'
<1> DEFINE p == pass[i]
           s == Least(p.todo)
<1> USE DEF WorkSession, Becomes
<1>0. /\ p \in PassType /\ Shape(p) /\ Holds(i, p) /\ (~crossed => Left(p)) /\ p.pc = "work"
      /\ spent \in [faults : Nat, resets : Nat]
  BY At
<1>1. p.todo \subseteq p.ids /\ p.ids \subseteq Ids /\ p.ids # {} /\ p.todo # {} /\ lock = i
  BY <1>0 DEF Shape, PassType, Holds, Holding
<1>2. s \in p.todo /\ \A t \in p.todo : s <= t
  BY <1>1, LeastIs DEF Ids
<1>q. PICK q : q = [p EXCEPT !.todo = @ \ {s}]
  OBVIOUS
<1>3. /\ q \in PassType /\ q.pc = "work" /\ q.step = p.step /\ q.ids = p.ids
      /\ q.todo = p.todo \ {s} /\ q.at = p.at
  BY <1>0, <1>q DEF PassType
<1>4. pass' = [pass EXCEPT ![i] = q]
  BY <1>q
<1> HIDE DEF p, s
<1>5. Shape(q)
  <2>1. \A a \in q.ids \ q.todo, b \in q.todo : a < b
    <3> TAKE a \in q.ids \ q.todo, b \in q.todo
    <3>1. CASE a = s
      BY <3>1, <1>1, <1>2, <1>3 DEF Ids
    <3>2. CASE a # s
      BY <3>2, <1>0, <1>3 DEF Shape
    <3> QED BY <3>1, <3>2
  <2>2. p.step \notin IndexSteps
    BY <1>0 DEF Shape
  <2> QED BY <2>1, <2>2, <1>1, <1>3 DEF Shape
<1>6. Holds(i, q)'
  BY <1>0, <1>1, <1>3 DEF Holds, db, p, Holding
<1>7. ~crossed => Left(q)
  BY <1>0, <1>3 DEF Left
<1> QED BY <1>0, <1>1, <1>3, <1>4, <1>5, <1>6, <1>7, Moves DEF p

LEMMA DoMeetHeld == ASSUME JobsInv, NEW i \in Instances, MeetHeld(i) PROVE JobsInv'
<1> USE DEF MeetHeld, Becomes
<1>p. PICK p : p = pass[i]
  OBVIOUS
<1>0. /\ p \in PassType /\ Shape(p) /\ Holds(i, p) /\ (~crossed => Left(p)) /\ p.pc = "work"
      /\ spent \in [faults : Nat, resets : Nat]
  BY At, <1>p
<1>1. lock = i
  BY <1>0 DEF Holds, Holding
<1>2. CASE Worked(p) # {} /\ Becomes(i, [p EXCEPT !.pc = "commit"]) /\ lock' = lock
  <2>q. PICK q : q = [p EXCEPT !.pc = "commit"]
    OBVIOUS
  <2>1. /\ q \in PassType /\ q.pc = "commit" /\ q.step = p.step /\ q.ids = p.ids
        /\ q.todo = p.todo /\ q.at = p.at
    BY <2>q, <1>0 DEF PassType, PCs
  <2>2. Shape(q)
    BY <2>1, <1>0, <1>2 DEF Shape, Worked
  <2>3. Holds(i, q)'
    BY <2>1, <1>0, <1>1, <1>2 DEF Holds, Holding, db
  <2>4. ~crossed => Left(q)
    BY <2>1, <1>0 DEF Left
  <2>5. pass' = [pass EXCEPT ![i] = q]
    BY <1>2, <2>q
  <2> QED BY <1>p, <1>0, <1>1, <1>2, <2>1, <2>2, <2>3, <2>4, <2>5, Moves
<1>3. CASE (Becomes(i, Again(p)) \/ Becomes(i, Asleep)) /\ lock' = None
  BY <1>p, <1>0, <1>1, <1>3, Bare, Settles
<1> QED BY <1>p, <1>2, <1>3

(* The list a failed batch leaves.                                         *)
LEMMA DoWorkFails == ASSUME JobsInv, NEW i \in Instances, WorkFails(i) PROVE JobsInv'
<1> USE DEF WorkFails, Becomes
<1>p. PICK p : p = pass[i]
  OBVIOUS
<1>0. /\ p \in PassType /\ Shape(p) /\ Holds(i, p) /\ (~crossed => Left(p)) /\ p.pc = "work"
      /\ spent' \in [faults : Nat, resets : Nat] /\ sessions \subseteq Ids
  BY At, <1>p DEF JobsInv, TypeOK
<1>1. /\ lock = i /\ lock' = None /\ p.ids # {} /\ p.step \notin IndexSteps /\ p.step \in Steps
      /\ p.at = job[p.step].cursor
  BY <1>0 DEF Holds, Holding, Shape, PassType
<1>q. PICK q : q = [Again(p) EXCEPT !.pc = "one", !.todo = p.ids]
  OBVIOUS
<1>2. q \in PassType /\ q.pc = "one" /\ q.todo = p.ids /\ q.step = p.step
  <2>1. 0 \in 0..MaxSession /\ 0 \in Nat /\ {} \in SUBSET Ids
    OBVIOUS
  <2> QED BY <2>1, <1>q, <1>0 DEF PassType, PCs, Again, Asleep
<1>3. Shape(q) /\ Holds(i, q)'
  BY <1>1, <1>2 DEF Shape, Holds, Holding
<1>4. ASSUME ~crossed PROVE Left(q)
  <2>1. ASSUME NEW s \in sessions \ p.ids PROVE (\A t \in p.ids : t <= s) \/ Good(p.step, s)
    <3>1. CASE s <= p.at
      BY <3>1, <1>p, <1>0, <1>1, <1>4, AwakeIsSeeded DEF JobsInv, PassedIsDerived, Passed, Good
    <3>2. CASE ~(s <= p.at)
      BY <3>2, <1>0, <1>4 DEF Left
    <3> QED BY <3>1, <3>2
  <2> QED BY <2>1, <1>2 DEF Left
<1>5. pass' = [pass EXCEPT ![i] = q]
  BY <1>p, <1>q
<1> QED BY <1>p, <1>0, <1>1, <1>2, <1>3, <1>4, <1>5, Moves

(* What is left of a list after its first session.                         *)
LEMMA RestIs ==
  ASSUME NEW p \in PassType, p.todo # {}, p.pc \in {"one", "skip"}, p.step \notin IndexSteps,
         NEW m \in BOOLEAN, NEW q, q = Rest(p, m), NEW i
  PROVE  /\ q \in PassType /\ q.step = p.step /\ Shape(q) /\ Holds(i, q)'
         /\ \/ q.pc \in Between
            \/ q.pc = "one" /\ q.todo = p.todo \ {Least(p.todo)}
<1> DEFINE left == p.todo \ {Least(p.todo)}
<1>1. CASE left = {}
  <2>1. q = Again(p)
    BY <1>1 DEF Rest
  <2>2. q \in PassType /\ q.pc \in Between /\ q.step = p.step
    BY <2>1, Bare DEF Again, Asleep, PassType
  <2> QED BY <2>2, Idle
<1>2. CASE left # {}
  <2>1. q = [p EXCEPT !.pc = "one", !.todo = left, !.moved = @ \/ m]
    BY <1>2 DEF Rest
  <2>2. left \subseteq Ids /\ (p.moved \/ m) \in BOOLEAN
    BY DEF PassType
  <2>3. q.pc = "one" /\ q.todo = left /\ q.step = p.step
    BY <2>1 DEF PassType
  <2>4. q \in PassType
    BY <2>1, <2>2 DEF PassType, PCs
  <2>5. Shape(q) /\ Holds(i, q)'
    BY <2>3, <1>2 DEF Shape, Holds, Holding
  <2> QED BY <2>3, <2>4, <2>5
<1> QED BY <1>1, <1>2

LEMMA DoBehind == ASSUME JobsInv, NEW i \in Instances, Behind(i) PROVE JobsInv'
<1> USE DEF Behind, Becomes, Tries
<1>p. PICK p : p = pass[i]
  OBVIOUS
<1>0. /\ p \in PassType /\ Shape(p) /\ (~crossed => Left(p)) /\ p.pc = "one"
      /\ spent \in [faults : Nat, resets : Nat] /\ lock \in Instances \cup {None}
  BY At, <1>p
<1>1. p.todo # {} /\ p.step \notin IndexSteps /\ p.step \in Steps
  BY <1>0 DEF Shape, PassType
<1>q. PICK q : q = Rest(p, FALSE)
  OBVIOUS
<1>2. /\ q \in PassType /\ q.step = p.step /\ Shape(q) /\ Holds(i, q)'
      /\ q.pc \in Between \/ (q.pc = "one" /\ q.todo = p.todo \ {Least(p.todo)})
  BY <1>0, <1>1, <1>q, RestIs
<1>3. ASSUME ~crossed PROVE Left(q)
  <2>1. Least(p.todo) \in sessions => Good(p.step, Least(p.todo))
    BY <1>p, <1>0, <1>1, <1>3, AwakeIsSeeded DEF JobsInv, PassedIsDerived, Passed, Good
  <2>2. CASE q.pc \in Between
    BY <2>2, Idle
  <2>3. CASE q.pc = "one" /\ q.todo = p.todo \ {Least(p.todo)}
    BY <2>1, <2>3, <1>0, <1>2, <1>3 DEF Left
  <2> QED BY <2>2, <2>3, <1>2
<1>4. pass' = [pass EXCEPT ![i] = q]
  BY <1>p, <1>q
<1> QED BY <1>p, <1>0, <1>2, <1>3, <1>4, Moves

LEMMA DoAloneFails == ASSUME JobsInv, NEW i \in Instances, AloneFails(i) PROVE JobsInv'
<1> USE DEF AloneFails, Becomes, Tries
<1>p. PICK p : p = pass[i]
  OBVIOUS
<1>0. /\ p \in PassType /\ Shape(p) /\ (~crossed => Left(p)) /\ p.pc = "one"
      /\ spent' \in [faults : Nat, resets : Nat] /\ lock \in Instances \cup {None}
  BY At, <1>p
<1>1. CASE p.skipped >= SkipCap
  BY <1>1, <1>p, <1>0, Bare, Settles
<1>2. CASE ~(p.skipped >= SkipCap)
  <2>q. PICK q : q = [p EXCEPT !.pc = "skip", !.skipped = @ + 1]
    OBVIOUS
  <2>1. q \in PassType /\ q.pc = "skip" /\ q.todo = p.todo /\ q.step = p.step
    <3>1. p.skipped + 1 \in Nat
      BY <1>0 DEF PassType
    <3>2. q = [pc |-> "skip", step |-> p.step, ids |-> p.ids, todo |-> p.todo,
               skipped |-> p.skipped + 1, moved |-> p.moved, at |-> p.at]
      BY <2>q, <1>0 DEF PassType
    <3> QED BY <3>1, <3>2, <1>0 DEF PassType, PCs
  <2>2. Shape(q) /\ Holds(i, q)'
    BY <2>1, <1>0 DEF Shape, Holds, Holding
  <2>3. ~crossed => Left(q)
    BY <2>1, <1>0 DEF Left
  <2>4. pass' = [pass EXCEPT ![i] = q]
    BY <2>q, <1>p, <1>2
  <2> QED BY <1>p, <1>0, <2>1, <2>2, <2>3, <2>4, Moves
<1> QED BY <1>1, <1>2

LEMMA DoCountPending == ASSUME JobsInv, NEW i \in Instances, CountPending(i) PROVE JobsInv'
<1> USE DEF CountPending, Becomes
<1>p. PICK p : p = pass[i]
  OBVIOUS
<1>0. /\ p \in PassType /\ p.pc = "stamp" /\ lock = None
      /\ spent \in [faults : Nat, resets : Nat]
  BY At, <1>p
<1>1. CASE \A x \in Steps : job[x].finished
  <2>q. PICK q : q = [p EXCEPT !.pc = "stamping"]
    OBVIOUS
  <2>1. q \in PassType /\ q.pc = "stamping"
    BY <2>q, <1>0 DEF PassType, PCs
  <2>2. Shape(q) /\ Left(q)
    BY <2>1 DEF Shape, Left
  <2>3. lock' = i /\ pass' = [pass EXCEPT ![i] = q]
    BY <1>1, <1>p, <2>q
  <2>4. Holds(i, q)'
    BY <1>1, <2>1, <2>3 DEF Holds, Holding, db
  <2> QED BY <1>p, <1>0, <2>1, <2>2, <2>3, <2>4, Moves
<1>2. CASE ~\A x \in Steps : job[x].finished
  BY <1>2, <1>p, <1>0, Bare, Settles
<1> QED BY <1>1, <1>2

-----------------------------------------------------------------------------
(* The steps of a pass that write the database.                            *)

LEMMA DoCommitBatch == ASSUME JobsInv, NEW i \in Instances, CommitBatch(i) PROVE JobsInv'
<1> USE DEF CommitBatch, Becomes
<1>p. PICK p : p = pass[i]
  OBVIOUS
<1>0. /\ p \in PassType /\ Shape(p) /\ Holds(i, p) /\ (~crossed => Left(p))
      /\ p.pc \in {"work", "commit"}
  BY At, <1>p
<1>1. /\ lock = i /\ p.step \in Steps \ IndexSteps /\ p.at = job[p.step].cursor
      /\ p.ids \subseteq Ids /\ p.todo \subseteq p.ids
      /\ \A a \in p.ids \ p.todo, b \in p.todo : a < b
  BY <1>0 DEF Holds, Holding, Shape, PassType
<1>2. Worked(p) # {} /\ Worked(p) \subseteq Ids
  BY <1>0, <1>1, <1>p DEF Shape, Worked
<1>c. PICK c : c = Largest(Worked(p))
  OBVIOUS
<1>3. c \in Worked(p) /\ \A t \in Worked(p) : t <= c
  BY <1>2, <1>c, LargestIs
<1>d. PICK done \in BOOLEAN : done = (p.todo = {} /\ Cardinality(p.ids) < BatchSize)
  OBVIOUS
<1>e. done => p.todo = {} /\ Cardinality(p.ids) < BatchSize
  BY <1>d, Zenon
<1>q. PICK q : q = IF done THEN Onward(p) ELSE Again(p)
  OBVIOUS
<1>4. q \in PassType /\ q.pc \in Between
  BY <1>0, <1>q, Bare
<1>5. /\ pass' = [pass EXCEPT ![i] = q] /\ Advance(p.step, c, done) /\ lock' = None
      /\ current' = current \cup ({p.step} \X (Worked(p) \cap sessions))
  <2>1. Becomes(i, IF done THEN Onward(p) ELSE Again(p))
    BY <1>p, <1>d
  <2>2. Advance(p.step, Largest(Worked(p)), done)
    BY <1>p, <1>d
  <2> QED BY <2>1, <2>2, <1>p, <1>c, <1>q
<1>6. ASSUME ~crossed, NEW s \in sessions, done \/ s <= c PROVE Good(p.step, s)'
  <2>1. s \in Ids
    BY DEF JobsInv, TypeOK
  <2>2. Good(p.step, s) => Good(p.step, s)'
    BY <1>5 DEF Good, Owed
  <2>3. CASE s \in Worked(p)
    BY <2>3, <1>5 DEF Good
  <2>4. CASE s \in p.todo
    <3>1. c < s /\ p.todo # {}
      BY <2>4, <1>1, <1>3 DEF Worked
    <3>2. c \in Ids
      BY <1>2, <1>3
    <3> QED BY <3>1, <3>2, <2>1, <1>6, <1>e DEF Ids
  <2>5. CASE s \in sessions \ p.ids
    <3>1. CASE s <= p.at
      BY <3>1, <2>2, <1>p, <1>0, <1>1, <1>6, AwakeIsSeeded
      DEF JobsInv, PassedIsDerived, Passed, Good
    <3>2. CASE Cardinality(p.ids) >= BatchSize /\ \A t \in p.ids : t <= s
      <4>1. ~done
        <5>1. Cardinality(p.ids) \in Nat
          BY <1>1, Finite
        <5> QED BY <3>2, <5>1, <1>e
      <4>2. c \in p.ids /\ c \in Ids
        BY <1>1, <1>3 DEF Worked
      <4>3. s <= c /\ c <= s
        BY <4>1, <4>2, <3>2, <1>6
      <4>4. s = c
        BY <4>2, <4>3, <2>1 DEF Ids
      <4> QED BY <4>2, <4>4, <2>5
    <3>3. CASE Good(p.step, s)
      BY <3>3, <2>2
    <3>4. Left(p)
      BY <1>0, <1>6
    <3> QED BY <3>1, <3>2, <3>3, <3>4, <2>5, <1>0 DEF Left
  <2> QED BY <2>3, <2>4, <2>5 DEF Worked
<1>7. c \in 0..MaxSession
  BY <1>2, <1>3 DEF Ids
<1>8. /\ current \subseteq current' /\ current' \subseteq Steps \X Ids /\ dirty' \subseteq Ids
      /\ queue' \subseteq Ids /\ forgotten' \subseteq Steps \X Ids
  BY <1>1, <1>2, <1>5 DEF JobsInv, TypeOK
<1>9. Shape(q) /\ Holds(i, q)' /\ Left(q)'
  BY <1>4, Idle DEF Left, Between
<1> QED BY <1>p, <1>0, <1>1, <1>4, <1>5, <1>6, <1>7, <1>8, <1>9, Advances

LEMMA DoCloseStep == ASSUME JobsInv, NEW i \in Instances, CloseStep(i) PROVE JobsInv'
<1> USE DEF CloseStep, Becomes
<1>p. PICK p : p = pass[i]
  OBVIOUS
<1>0. /\ p \in PassType /\ Shape(p) /\ (~crossed => Left(p)) /\ p.pc = "empty"
      /\ spent \in [faults : Nat, resets : Nat] /\ lock \in Instances \cup {None}
  BY At, <1>p
<1>q. PICK q : q = Again(p)
  OBVIOUS
<1>1. q \in PassType /\ q.pc \in Between /\ pass' = [pass EXCEPT ![i] = q]
  BY <1>0, <1>p, <1>q, Bare
<1>2. CASE lock = None /\ ~job[p.step].finished
  <2>1. Advance(p.step, p.at, TRUE) /\ lock' = None
    BY <1>2, <1>p
  <2>2. p.step \in Steps \ IndexSteps /\ p.at \in 0..MaxSession
    BY <1>0 DEF Shape, PassType
  <2>3. ~crossed => \A s \in sessions : Good(p.step, s)'
    BY <1>0 DEF Left, Good, Owed
  <2>4. /\ current' \subseteq Steps \X Ids /\ dirty' \subseteq Ids
        /\ queue' \subseteq Ids /\ forgotten' \subseteq Steps \X Ids
    BY DEF JobsInv, TypeOK
  <2>5. Shape(q) /\ Holds(i, q)' /\ Left(q)'
    BY <1>1, Idle DEF Left, Between
  <2> QED BY <1>p, <1>0, <1>1, <1>2, <2>1, <2>2, <2>3, <2>4, <2>5, Advances
<1>3. CASE ~(lock = None /\ ~job[p.step].finished)
  <2>1. UNCHANGED <<db, folds, forgotten, crossed>> /\ lock' = lock /\ spent' = spent
    BY <1>3, <1>p DEF db
  <2> QED BY <1>p, <1>0, <1>1, <2>1, Settles
<1> QED BY <1>2, <1>3

LEMMA DoAloneWorks == ASSUME JobsInv, NEW i \in Instances, AloneWorks(i) PROVE JobsInv'
<1> USE DEF AloneWorks, Tries, Becomes
<1>p. PICK p : p = pass[i]
  OBVIOUS
<1>0. p \in PassType /\ Shape(p) /\ (~crossed => Left(p)) /\ p.pc = "one" /\ lock = None
  BY At, <1>p
<1>1. p.todo # {} /\ p.todo \subseteq Ids /\ p.step \in Steps \ IndexSteps
  BY <1>0 DEF Shape, PassType
<1>s. PICK s : s = Least(p.todo)
  OBVIOUS
<1>2. s \in p.todo /\ s \in Ids /\ \A t \in p.todo : s <= t
  BY <1>1, <1>s, LeastIs DEF Ids
<1>q. PICK q : q = Rest(p, TRUE)
  OBVIOUS
<1>3. /\ q \in PassType /\ q.step = p.step /\ Shape(q) /\ Holds(i, q)'
      /\ q.pc \in Between \/ (q.pc = "one" /\ q.todo = p.todo \ {s})
  BY <1>0, <1>1, <1>q, <1>s, RestIs
<1>4. /\ pass' = [pass EXCEPT ![i] = q] /\ Advance(p.step, s, FALSE) /\ lock' = None
      /\ current' = current \cup ({p.step} \X ({s} \cap sessions))
  BY <1>p, <1>q, <1>s, <1>0
<1>5. ASSUME ~crossed, NEW t \in sessions, t <= s PROVE Good(p.step, t)'
  <2>1. t \in Ids
    BY DEF JobsInv, TypeOK
  <2>2. Good(p.step, t) => Good(p.step, t)'
    BY <1>4 DEF Good, Owed
  <2>3. CASE t = s
    BY <2>3, <1>4 DEF Good
  <2>4. CASE t # s
    <3>1. t \notin p.todo /\ ~(s <= t)
      BY <2>1, <2>4, <1>2, <1>5 DEF Ids
    <3> QED BY <3>1, <2>2, <1>0, <1>2, <1>5 DEF Left
  <2> QED BY <2>3, <2>4
<1>6. ASSUME ~crossed PROVE Left(q)'
  <2>1. CASE q.pc \in Between
    BY <2>1 DEF Between, Left
  <2>2. CASE q.pc = "one" /\ q.todo = p.todo \ {s}
    <3>1. ASSUME NEW t \in sessions \ q.todo
          PROVE  (\A u \in q.todo : u <= t) \/ Good(p.step, t)'
      <4>1. CASE t = s
        BY <4>1, <1>2, <1>5, <1>6 DEF Ids
      <4>2. CASE t # s
        <5>1. (\A u \in p.todo : u <= t) \/ Good(p.step, t)
          BY <4>2, <2>2, <1>0, <1>6 DEF Left
        <5>2. Good(p.step, t) => Good(p.step, t)'
          BY <1>4 DEF Good, Owed
        <5> QED BY <5>1, <5>2, <2>2
      <4> QED BY <4>1, <4>2
    <3> QED BY <3>1, <2>2, <1>3 DEF Left
  <2> QED BY <2>1, <2>2, <1>3
<1>7. /\ current \subseteq current' /\ current' \subseteq Steps \X Ids /\ dirty' \subseteq Ids
      /\ queue' \subseteq Ids /\ forgotten' \subseteq Steps \X Ids
  BY <1>1, <1>2, <1>4 DEF JobsInv, TypeOK
<1>8. s \in 0..MaxSession
  BY <1>2 DEF Ids
<1> QED BY <1>p, <1>0, <1>1, <1>3, <1>4, <1>5, <1>6, <1>7, <1>8, Advances

LEMMA DoSkip == ASSUME JobsInv, NEW i \in Instances, Skip(i) PROVE JobsInv'
<1> USE DEF Skip, Becomes
<1>p. PICK p : p = pass[i]
  OBVIOUS
<1>0. /\ p \in PassType /\ Shape(p) /\ (~crossed => Left(p)) /\ p.pc = "skip"
      /\ spent \in [faults : Nat, resets : Nat] /\ lock \in Instances \cup {None}
  BY At, <1>p
<1>1. p.todo # {} /\ p.todo \subseteq Ids /\ p.step \in Steps \ IndexSteps
  BY <1>0 DEF Shape, PassType
<1>s. PICK s : s = Least(p.todo)
  OBVIOUS
<1>2. s \in p.todo /\ s \in Ids /\ \A t \in p.todo : s <= t
  BY <1>1, <1>s, LeastIs DEF Ids
<1>q. PICK q : q = Rest(p, TRUE)
  OBVIOUS
<1>3. /\ q \in PassType /\ q.step = p.step /\ Shape(q) /\ Holds(i, q)'
      /\ q.pc \in Between \/ (q.pc = "one" /\ q.todo = p.todo \ {s})
  BY <1>0, <1>1, <1>q, <1>s, RestIs
<1>r. PICK r \in BOOLEAN : r <=> lock = None /\ ~job[p.step].finished
  OBVIOUS
<1>4. /\ pass' = [pass EXCEPT ![i] = q]
      /\ dirty' = IF r THEN dirty \cup ({s} \cap sessions) ELSE dirty
      /\ queue' = IF r /\ p.step = SkillStep THEN queue \cup {s} ELSE queue
      /\ r => Advance(p.step, s, FALSE)
      /\ ~r => job' = job
      /\ forgotten' = IF r /\ p.step \in Folding \cup {SkillStep} THEN forgotten
                      ELSE forgotten \cup {<<p.step, s>>}
  BY <1>p, <1>q, <1>s, <1>r
<1>5. /\ dirty \subseteq dirty' /\ queue \subseteq queue' /\ forgotten \subseteq forgotten'
      /\ dirty' \subseteq Ids /\ queue' \subseteq Ids /\ forgotten' \subseteq Steps \X Ids
      /\ current' \subseteq Steps \X Ids /\ current' = current /\ sessions' = sessions
  BY <1>1, <1>2, <1>4 DEF JobsInv, TypeOK
<1>6. \A x, t : Good(x, t) => Good(x, t)'
  BY <1>5 DEF Good, Owed
<1>7. s \in sessions => Good(p.step, s)'
  BY <1>1, <1>4 DEF Good, Owed
<1>8. ASSUME ~crossed PROVE Left(q)'
  <2>1. CASE q.pc \in Between
    BY <2>1 DEF Between, Left
  <2>2. CASE q.pc = "one" /\ q.todo = p.todo \ {s}
    <3>1. ASSUME NEW t \in sessions \ q.todo
          PROVE  (\A u \in q.todo : u <= t) \/ Good(p.step, t)'
      <4>1. CASE t = s
        BY <4>1, <1>7
      <4>2. CASE t # s
        <5>1. (\A u \in p.todo : u <= t) \/ Good(p.step, t)
          BY <4>2, <2>2, <1>0, <1>8 DEF Left
        <5> QED BY <5>1, <1>6, <2>2
      <4> QED BY <4>1, <4>2
    <3> QED BY <3>1, <2>2, <1>3, <1>5 DEF Left
  <2> QED BY <2>1, <2>2, <1>3
<1>9. CASE r
  <2>1. ASSUME ~crossed, NEW t \in sessions, t <= s PROVE Good(p.step, t)'
    <3>1. t \in Ids
      BY DEF JobsInv, TypeOK
    <3>2. CASE t = s
      BY <3>2, <1>7
    <3>3. CASE t # s
      <4>1. t \notin p.todo /\ ~(s <= t)
        BY <3>1, <3>3, <1>2, <2>1 DEF Ids
      <4> QED BY <4>1, <1>6, <1>0, <1>2, <2>1 DEF Left
    <3> QED BY <3>2, <3>3
  <2>2. s \in 0..MaxSession /\ lock = None /\ lock' = None
    BY <1>2, <1>9, <1>r DEF Ids
  <2> QED BY <1>p, <1>0, <1>1, <1>3, <1>4, <1>5, <1>8, <1>9, <2>1, <2>2, Advances
<1>10. CASE ~r
  <2>1. UNCHANGED <<db, folds, crossed>> /\ spent' = spent /\ lock' = lock
    BY <1>4, <1>10 DEF db
  <2> QED BY <1>p, <1>0, <1>3, <1>4, <1>5, <1>8, <2>1, MovesOn
<1> QED BY <1>9, <1>10

LEMMA DoRecordIndex == ASSUME JobsInv, NEW i \in Instances, RecordIndex(i) PROVE JobsInv'
<1> USE DEF RecordIndex, Becomes
<1>p. PICK p : p = pass[i]
  OBVIOUS
<1>0. p \in PassType /\ Shape(p) /\ Holds(i, p) /\ p.pc = "built"
  BY At, <1>p
<1>1. p.step \in IndexSteps /\ p.step \in Steps /\ index[p.step] = "valid" /\ lock = i
  BY <1>0 DEF Shape, Holds, Holding, PassType
<1>q. PICK q : q = Onward(p)
  OBVIOUS
<1>2. q \in PassType /\ q.pc \in Between /\ pass' = [pass EXCEPT ![i] = q]
  BY <1>0, <1>p, <1>q, Bare
<1>3. Shape(q) /\ Holds(i, q)' /\ Left(q)'
  BY <1>2, Idle DEF Left, Between
<1>4. /\ current' \subseteq Steps \X Ids /\ dirty' \subseteq Ids
      /\ queue' \subseteq Ids /\ forgotten' \subseteq Steps \X Ids
  BY DEF JobsInv, TypeOK
<1>5. Advance(p.step, 0, TRUE) /\ lock' = None
  BY <1>p
<1>6. 0 \in 0..MaxSession
  OBVIOUS
<1> QED BY <1>p, <1>0, <1>1, <1>2, <1>3, <1>4, <1>5, <1>6, Advances

(* While an instance builds, no other holds the lock.                      *)
LEMMA Indexes ==
  ASSUME JobsInv, NEW i \in Instances, NEW q, pass[i].pc # "asleep", lock \in {None, i},
         pass' = [pass EXCEPT ![i] = q], lock' = i,
         NEW x \in IndexSteps, NEW v \in {"invalid", "valid"}, index' = [index EXCEPT ![x] = v],
         v = "valid" \/ ~job[x].finished,
         UNCHANGED <<sessions, dirty, queue, current, stored, job, folds, crossed, forgotten, spent>>,
         q \in PassType, q.pc \in {"build", "built"}, q.step = x, q.pc = "built" => v = "valid"
  PROVE  JobsInv'
<1>0. x \in Steps /\ index \in [IndexSteps -> {"absent", "invalid", "valid"}]
  BY DEF JobsInv, TypeOK
<1>1. TypeOK'
  BY <1>0 DEF JobsInv, TypeOK
<1>2. Seeded'
  BY AwakeIsSeeded DEF Seeded
<1>3. PassedIsDerived' /\ StampIsEarned'
  BY DEF JobsInv, PassedIsDerived, Passed, Owed, StampIsEarned
<1>4. IndexIsValid'
  BY <1>0 DEF JobsInv, IndexIsValid
<1>5. ASSUME NEW j \in Instances PROVE PassOK(j, pass[j])'
  <2>1. CASE j = i
    <3>1. pass'[j] = q
      BY <2>1 DEF JobsInv, TypeOK
    <3>2. Shape(q) /\ Left(q)'
      BY DEF Shape, Left
    <3>3. Holds(i, q)'
      BY <1>0 DEF Holds, Holding
    <3> QED BY <3>1, <3>2, <3>3, <2>1 DEF PassOK, Shape, Holds, Left
  <2>2. CASE j # i
    <3>1. pass'[j] = pass[j] /\ pass[j].pc \notin Holding
      BY <2>2 DEF JobsInv, TypeOK, PassOK, Holds
    <3>2. \A y \in Steps, s \in sessions' : Good(y, s)' \/ (s \in sessions /\ ~Good(y, s))
      BY DEF Good, Owed
    <3> QED BY <3>1, <3>2, Keep
  <2> QED BY <2>1, <2>2
<1> QED BY <1>1, <1>2, <1>3, <1>4, <1>5 DEF JobsInv

LEMMA DoBuild == ASSUME JobsInv, NEW i \in Instances, Build(i) PROVE JobsInv'
<1> USE DEF Build, Becomes, Opens
<1>p. PICK p : p = pass[i]
  OBVIOUS
<1>0. p \in PassType /\ p.pc = "open" /\ p.step \in IndexSteps /\ ~job[p.step].finished /\ lock = None
  BY At, <1>p
<1>v. PICK v : v = IF index[p.step] = "valid" THEN index[p.step] ELSE "invalid"
  OBVIOUS
<1>q. PICK q : q = [Again(p) EXCEPT !.pc = IF index[p.step] = "valid" THEN "built" ELSE "build"]
  OBVIOUS
<1>1. 0 \in 0..MaxSession /\ 0 \in Nat /\ {} \in SUBSET Ids /\ p.step \in Steps
  BY <1>0 DEF PassType
<1>2. /\ q \in PassType /\ q.step = p.step /\ v \in {"invalid", "valid"}
      /\ q.pc = IF index[p.step] = "valid" THEN "built" ELSE "build"
  BY <1>0, <1>1, <1>q, <1>v DEF PassType, PCs, Again, Asleep
<1>3. /\ pass' = [pass EXCEPT ![i] = q] /\ index' = [index EXCEPT ![p.step] = v] /\ lock' = i
  BY <1>p, <1>q, <1>v
<1>4. q.pc \in {"build", "built"} /\ (q.pc = "built" => v = "valid")
  BY <1>2, <1>v
<1>5. UNCHANGED <<sessions, dirty, queue, current, stored, job, folds, crossed, forgotten, spent>>
  OBVIOUS
<1>6. p.step \in IndexSteps /\ ~job[p.step].finished /\ lock \in {None, i} /\ pass[i].pc # "asleep"
  BY <1>0, <1>p
<1> HIDE DEF Build
<1> QED BY <1>2, <1>3, <1>4, <1>5, <1>6, Indexes

LEMMA DoBuildEnds == ASSUME JobsInv, NEW i \in Instances, BuildEnds(i) PROVE JobsInv'
<1> USE DEF BuildEnds, Becomes
<1>p. PICK p : p = pass[i]
  OBVIOUS
<1>0. p \in PassType /\ Shape(p) /\ Holds(i, p) /\ p.pc = "build"
  BY At, <1>p
<1>1. p.step \in IndexSteps /\ lock = i
  BY <1>0 DEF Shape, Holds, Holding
<1>q. PICK q : q = [p EXCEPT !.pc = "built"]
  OBVIOUS
<1>2. q \in PassType /\ q.step = p.step /\ q.pc = "built"
  BY <1>0, <1>q DEF PassType, PCs
<1>3. pass' = [pass EXCEPT ![i] = q] /\ index' = [index EXCEPT ![p.step] = "valid"] /\ lock' = i
  BY <1>p, <1>q, <1>1
<1> QED BY <1>p, <1>0, <1>1, <1>2, <1>3, Indexes

LEMMA DoStamp == ASSUME JobsInv, NEW i \in Instances, Stamp(i) PROVE JobsInv'
<1> USE DEF Stamp, Becomes
<1>0. Holds(i, pass[i]) /\ pass[i].pc = "stamping"
  BY At
<1>1. lock = i /\ (~crossed => \A x \in Steps : job[x].finished)
  BY <1>0 DEF Holds, Holding
<1>2. TypeOK'
  <2>0. pass[i] \in PassType
    BY At
  <2>1. Version \in 0..Version
    OBVIOUS
  <2>2. Asleep \in PassType
    BY <2>0, Bare
  <2> QED BY <2>1, <2>2 DEF JobsInv, TypeOK
<1>3. Seeded' /\ StampIsEarned'
  BY <1>0, <1>1, AwakeIsSeeded DEF Seeded, StampIsEarned
<1>4. PassedIsDerived' /\ IndexIsValid'
  BY DEF JobsInv, PassedIsDerived, Passed, Owed, IndexIsValid
<1>5. ASSUME NEW j \in Instances PROVE PassOK(j, pass[j])'
  <2>1. CASE j = i
    <3>1. pass'[j] = Asleep
      BY <2>1 DEF JobsInv, TypeOK
    <3>2. Asleep \in PassType /\ Asleep.pc = "asleep"
      BY At, Bare DEF Asleep
    <3> QED BY <3>1, <3>2 DEF PassOK, Shape, Holds, Holding, Left
  <2>2. CASE j # i
    <3>1. pass'[j] = pass[j] /\ pass[j].pc \notin Holding
      BY <1>1, <2>2 DEF JobsInv, TypeOK, PassOK, Holds
    <3>2. \A y \in Steps, s \in sessions' : Good(y, s)' \/ (s \in sessions /\ ~Good(y, s))
      BY DEF Good, Owed
    <3> QED BY <3>1, <3>2, Keep
  <2> QED BY <2>1, <2>2
<1> QED BY <1>2, <1>3, <1>4, <1>5 DEF JobsInv

(* A new rule's step that has yet to come to a session.                    *)
Unseen(x, s) == ~Passed(x, s) /\ ~Listed(x) /\ Since[x] = Version

(* Steps of others: cursors stay, and what was derived or owed stays so, or*)
(* the pass has yet to come to it.                                         *)
LEMMA Aside ==
  ASSUME JobsInv, TypeOK', UNCHANGED <<lock, index, stored, crossed>>,
         \A x \in Steps : /\ job'[x].cursor = job[x].cursor
                          /\ job'[x].finished = job[x].finished
                          /\ job'[x].seeded = job[x].seeded
                          /\ job[x] = NoJob => job'[x] = NoJob,
         \A j \in Instances : \/ pass'[j] = pass[j]
                              \/ /\ pass[j].pc # "asleep" /\ pass'[j].pc \in Between
                                 /\ pass'[j] \in PassType,
         \A x \in Steps, s \in sessions' : \/ Good(x, s)' \/ (s \in sessions /\ ~Good(x, s))
                                          \/ Unseen(x, s)
  PROVE  JobsInv'
<1>1. Seeded'
  <2>1. CASE \A x \in Steps : job[x].seeded
    BY <2>1 DEF Seeded
  <2>2. CASE ~\A x \in Steps : job[x].seeded
    <3>1. /\ \A x \in Steps : job[x] = NoJob
          /\ \A i \in Instances : pass[i].pc = "asleep"
          /\ stored < Version
          /\ \A x \in Steps : Since[x] <= stored =>
               /\ \A s \in sessions : Good(x, s)
               /\ x \in IndexSteps => index[x] = "valid"
      BY <2>2 DEF JobsInv, Seeded
    <3>2. \A i \in Instances : pass'[i].pc = "asleep"
      BY <3>1
    <3>3. \A x \in Steps : Since[x] <= stored => \A s \in sessions' : Good(x, s)'
      <4>1. \A x \in Steps : Since[x] <= stored => Since[x] # Version
        BY <3>1 DEF JobsInv, TypeOK
      <4> QED BY <3>1, <4>1, Zenon DEF Unseen
    <3> QED BY <3>1, <3>2, <3>3 DEF Seeded
  <2> QED BY <2>1, <2>2
<1>2. PassedIsDerived'
  <2> SUFFICES ASSUME ~crossed', NEW y \in Steps \ IndexSteps, NEW s \in sessions', Passed(y, s)'
               PROVE  Good(y, s)'
    BY DEF PassedIsDerived, Good
  <2>1. Passed(y, s)
    BY DEF Passed
  <2>2. s \in sessions => Good(y, s)
    BY <2>1 DEF JobsInv, PassedIsDerived, Good
  <2> QED BY <2>1, <2>2 DEF Unseen
<1>3. StampIsEarned' /\ IndexIsValid'
  BY DEF JobsInv, StampIsEarned, IndexIsValid
<1>4. ASSUME NEW j \in Instances PROVE PassOK(j, pass[j])'
  <2>1. CASE pass'[j] = pass[j]
    <3>1. \A x \in Steps : job'[x].cursor = job[x].cursor /\ (job[x].finished => job'[x].finished)
      OBVIOUS
    <3>2. \A x \in Steps, s \in sessions' : \/ Good(x, s)' \/ (s \in sessions /\ ~Good(x, s))
                                           \/ ~Listed(x)
      BY DEF Unseen
    <3> QED BY <2>1, <3>1, <3>2, Keep
  <2>2. CASE pass'[j].pc \in Between /\ pass'[j] \in PassType
    BY <2>2 DEF PassOK, Shape, Holds, Holding, Left, Between
  <2> QED BY <2>1, <2>2
<1> QED BY <1>1, <1>2, <1>3, <1>4 DEF JobsInv

(* The counter of attempts is nobody's condition.                          *)
LEMMA Counted ==
  ASSUME JobsInv, NEW x \in Steps, NEW n \in Nat, job' = [job EXCEPT ![x] = Tried(job[x], n)],
         job[x] # NoJob
  PROVE  /\ job' \in [Steps -> JobType]
         /\ \A y \in Steps : /\ job'[y].cursor = job[y].cursor
                             /\ job'[y].finished = job[y].finished
                             /\ job'[y].seeded = job[y].seeded
                             /\ job[y] = NoJob => job'[y] = NoJob
<1>1. job \in [Steps -> JobType] /\ job[x] \in JobType
  BY DEF JobsInv, TypeOK
<1>2. job'[x] = [seeded |-> job[x].seeded, finished |-> job[x].finished, cursor |-> job[x].cursor,
                 attempts |-> n]
  BY <1>1 DEF JobType, Tried
<1>3. job'[x] \in JobType
  BY <1>1, <1>2 DEF JobType
<1>4. \A y \in Steps : y # x => job'[y] = job[y]
  BY <1>1
<1>5. job' = [job EXCEPT ![x] = job'[x]]
  BY <1>1
<1>6. job' \in [Steps -> JobType]
  BY <1>1, <1>3, <1>5
<1> QED BY <1>2, <1>4, <1>6

LEMMA DoRecordFailure == ASSUME JobsInv, NEW i \in Instances, RecordFailure(i) PROVE JobsInv'
<1> USE DEF RecordFailure, Becomes
<1>p. PICK p : p = pass[i]
  OBVIOUS
<1>0. p \in PassType /\ p.pc = "failed" /\ p.step \in Steps /\ job[p.step] \in JobType
  BY At, <1>p DEF PassType, JobsInv, TypeOK
<1>1. job[p.step] # NoJob
  BY <1>p, <1>0, AwakeIsSeeded DEF NoJob
<1>n. PICK n \in Nat : n = job[p.step].attempts + 1
  BY <1>0 DEF JobType
<1>2. /\ job' \in [Steps -> JobType]
      /\ \A y \in Steps : /\ job'[y].cursor = job[y].cursor
                          /\ job'[y].finished = job[y].finished
                          /\ job'[y].seeded = job[y].seeded
                          /\ job[y] = NoJob => job'[y] = NoJob
  <2>1. job' = [job EXCEPT ![p.step] = Tried(job[p.step], n)]
    BY <1>p, <1>n
  <2> HIDE DEF RecordFailure
  <2> QED BY <2>1, <1>0, <1>1, Counted
<1>q. PICK q : /\ pass' = [pass EXCEPT ![i] = q] /\ q \in PassType /\ q.pc \in Between
  BY <1>p, <1>0, Bare
<1>3. TypeOK'
  BY <1>2, <1>q DEF JobsInv, TypeOK
<1>4. \A j \in Instances : \/ pass'[j] = pass[j]
                           \/ /\ pass[j].pc # "asleep" /\ pass'[j].pc \in Between
                              /\ pass'[j] \in PassType
  BY <1>p, <1>0, <1>q DEF JobsInv, TypeOK
<1>5. \A x \in Steps, s \in sessions' : Good(x, s)' \/ (s \in sessions /\ ~Good(x, s))
  BY DEF Good, Owed
<1> QED BY <1>2, <1>3, <1>4, <1>5, Aside

LEMMA DoResume == ASSUME JobsInv, NEW x \in Steps, Resume(x) PROVE JobsInv'
<1> USE DEF Resume
<1>1. job[x] # NoJob
  BY DEF NoJob
<1>2. /\ job' \in [Steps -> JobType]
      /\ \A y \in Steps : /\ job'[y].cursor = job[y].cursor
                          /\ job'[y].finished = job[y].finished
                          /\ job'[y].seeded = job[y].seeded
                          /\ job[y] = NoJob => job'[y] = NoJob
  BY <1>1, Counted
<1>3. TypeOK'
  BY <1>2 DEF JobsInv, TypeOK
<1>5. \A y \in Steps, s \in sessions' : Good(y, s)' \/ (s \in sessions /\ ~Good(y, s))
  BY DEF Good, Owed
<1> QED BY <1>2, <1>3, <1>5, Aside

LEMMA DoWake == ASSUME JobsInv, NEW i \in Instances, Wake(i) PROVE JobsInv'
<1>q. PICK q : q = [Asleep EXCEPT !.pc = "step"]
  OBVIOUS
<1>0. /\ pass[i].pc = "asleep" /\ stored < Version /\ pass' = [pass EXCEPT ![i] = q]
      /\ job' = [x \in Steps |-> IF job[x].seeded THEN job[x] ELSE NewJob(x)]
      /\ UNCHANGED <<sessions, dirty, queue, current, stored, index, lock, folds, spent,
                     forgotten, crossed>>
  BY <1>q DEF Wake, Becomes
<1>1. q \in PassType /\ q.pc = "step"
  <2>1. 0 \in 0..MaxSession /\ 0 \in Nat /\ {} \in SUBSET Ids /\ 1 \in Steps
    BY DEF Steps
  <2>2. q = [pc |-> "step", step |-> 1, ids |-> {}, todo |-> {}, skipped |-> 0, moved |-> FALSE,
             at |-> 0]
    BY <1>q DEF Asleep
  <2> QED BY <2>1, <2>2 DEF PassType, PCs
<1>2. \A x \in Steps : job[x].seeded => job'[x] = job[x]
  BY <1>0
<1>3. \A x \in Steps : ~job[x].seeded => job'[x] = NewJob(x)
  BY <1>0
<1>n. \A x \in Steps : /\ NewJob(x) \in JobType /\ NewJob(x).cursor = 0 /\ NewJob(x).seeded
                       /\ NewJob(x).finished => Since[x] <= stored
  <2> TAKE x \in Steps
  <2>1. 0 \in 0..MaxSession /\ 0 \in Nat /\ (Since[x] <= stored) \in BOOLEAN
    OBVIOUS
  <2>2. NewJob(x).finished = (Since[x] <= stored)
    BY DEF NewJob
  <2>3. NewJob(x).finished => Since[x] <= stored
    BY <2>2, Zenon
  <2> QED BY <2>1, <2>3 DEF NewJob, JobType
<1>4. job' \in [Steps -> JobType]
  <2>1. ASSUME NEW x \in Steps PROVE job'[x] \in JobType
    BY <1>2, <1>3, <1>n DEF JobsInv, TypeOK
  <2>2. job' = [x \in Steps |-> job'[x]]
    BY <1>0
  <2> QED BY <2>1, <2>2
<1>5. TypeOK'
  BY <1>0, <1>1, <1>4 DEF JobsInv, TypeOK
<1>6. \A x \in Steps : job'[x].seeded
  BY <1>2, <1>3, <1>n
<1>7. \A y, s : Good(y, s)' \/ ~Good(y, s)
  BY <1>0 DEF Good, Owed
<1>8. CASE \A x \in Steps : job[x].seeded
  <2>1. job' = job
    <3>1. job = [x \in Steps |-> job[x]] /\ job' = [x \in Steps |-> job'[x]]
      BY <1>0 DEF JobsInv, TypeOK
    <3> QED BY <3>1, <1>2, <1>8
  <2>2. PassedIsDerived' /\ StampIsEarned' /\ IndexIsValid'
    BY <1>0, <2>1 DEF JobsInv, PassedIsDerived, Passed, Owed, StampIsEarned, IndexIsValid
  <2>3. ASSUME NEW j \in Instances PROVE PassOK(j, pass[j])'
    <3>1. CASE j = i
      <4>1. pass'[j] = q
        BY <3>1, <1>0, <1>1 DEF JobsInv, TypeOK
      <4> QED BY <4>1, <1>1 DEF PassOK, Shape, Holds, Holding, Left
    <3>2. CASE j # i
      <4>1. pass'[j] = pass[j]
        BY <1>0, <3>2 DEF JobsInv, TypeOK
      <4>2. \A y \in Steps, s \in sessions' : Good(y, s)' \/ (s \in sessions /\ ~Good(y, s))
        BY <1>0, <1>7, Zenon
      <4> QED BY <1>0, <4>1, <4>2, <2>1, Keep
    <3> QED BY <3>1, <3>2
  <2> QED BY <1>5, <1>6, <2>2, <2>3 DEF JobsInv, Seeded
<1>9. CASE ~\A x \in Steps : job[x].seeded
  <2>1. /\ \A x \in Steps : job[x] = NoJob
        /\ \A j \in Instances : pass[j].pc = "asleep"
        /\ stored < Version
        /\ \A x \in Steps : Since[x] <= stored =>
             /\ \A s \in sessions : Good(x, s)
             /\ x \in IndexSteps => index[x] = "valid"
    BY <1>9 DEF JobsInv, Seeded
  <2>2. \A x \in Steps : /\ job'[x].cursor = 0
                         /\ job'[x].finished => Since[x] <= stored
    BY <2>1, <1>3, <1>n DEF NoJob
  <2>3. PassedIsDerived'
    <3> SUFFICES ASSUME NEW y \in Steps \ IndexSteps, NEW s \in sessions', Passed(y, s)'
                 PROVE  Good(y, s)'
      BY DEF PassedIsDerived, Good
    <3>1. s \in Ids
      BY <1>0 DEF JobsInv, TypeOK
    <3>2. job'[y].finished
      BY <3>1, <2>2 DEF Passed, Ids
    <3>3. Good(y, s)
      BY <1>0, <3>2, <2>1, <2>2
    <3> QED BY <3>3, <1>7, Zenon
  <2>4. StampIsEarned'
    BY <1>0 DEF StampIsEarned
  <2>5. IndexIsValid'
    BY <1>0, <2>1, <2>2 DEF JobsInv, TypeOK, IndexIsValid
  <2>6. ASSUME NEW j \in Instances PROVE PassOK(j, pass[j])'
    <3>1. pass'[j] \in PassType /\ pass'[j].pc \in {"asleep", "step"}
      BY <1>0, <1>1, <2>1 DEF JobsInv, TypeOK
    <3> QED BY <3>1 DEF PassOK, Shape, Holds, Holding, Left
  <2> QED BY <1>5, <1>6, <2>3, <2>4, <2>5, <2>6 DEF JobsInv, Seeded
<1> QED BY <1>8, <1>9

-----------------------------------------------------------------------------
(* What runs beside the pass.                                              *)

LEMMA DoFolds ==
  ASSUME JobsInv, NEW s \in Ids, FoldBegin(s) \/ FoldEnd(s) \/ FoldFails(s) \/ Drain(s)
  PROVE  JobsInv'
<1> USE DEF FoldBegin, FoldEnd, FoldFails, Drain, Faulty, db
<1>1. TypeOK'
  BY DEF JobsInv, TypeOK
<1>2. \A x \in Steps, t \in sessions' : Good(x, t)' \/ (t \in sessions /\ ~Good(x, t))
  BY DEF Good, Owed
<1>4. UNCHANGED <<lock, index, stored, crossed, job, pass>>
  OBVIOUS
<1> QED BY <1>1, <1>2, <1>4, Aside

LEMMA DoDelete == ASSUME JobsInv, NEW s \in Ids, Delete(s) PROVE JobsInv'
<1> USE DEF Delete, Faulty
<1>1. TypeOK'
  BY DEF JobsInv, TypeOK
<1>2. \A x \in Steps, t \in sessions' : <<x, t>> \in current' \/ (t \in sessions /\ <<x, t>> \notin current)
  OBVIOUS
<1>3. \A x \in Steps, t \in sessions' : Good(x, t)' \/ (t \in sessions /\ ~Good(x, t))
  BY <1>2 DEF Good, Owed
<1>4. UNCHANGED <<lock, index, stored, crossed, job, pass>>
  OBVIOUS
<1> QED BY <1>1, <1>3, <1>4, Aside

(* What an upload does not derive is put on the list, if the pass will not *)
(* come to it any more.                                                    *)
LEMMA Uploads ==
  ASSUME JobsInv, NEW s \in Ids, NEW gone \in SUBSET Newer, Upload(s, gone),
         spent' \in [faults : Nat, resets : Nat], queue \subseteq queue', queue' \subseteq Ids,
         forgotten \subseteq forgotten', forgotten' \subseteq Steps \X Ids,
         \A x \in gone : Good(x, s)' \/ Unseen(x, s)
  PROVE  JobsInv'
<1>0. /\ sessions' = sessions \cup {s} /\ dirty' = dirty \cup {s}
      /\ current' = (current \cup (IF s \in sessions THEN {} ELSE (Steps \ Folding) \X {s}))
                    \ (gone \X {s})
      /\ UNCHANGED <<stored, job, index, lock, pass, folds, crossed>>
  BY DEF Upload
<1>1. TypeOK'
  BY <1>0 DEF JobsInv, TypeOK
<1>2. ASSUME NEW x \in Steps, NEW t \in sessions'
      PROVE  Good(x, t)' \/ (t \in sessions /\ ~Good(x, t)) \/ Unseen(x, t)
  <2>1. CASE t = s /\ x \in gone
    BY <2>1
  <2>2. CASE t \in sessions /\ ~(t = s /\ x \in gone)
    <3>1. <<x, t>> \in current => <<x, t>> \in current'
      BY <2>2, <1>0
    <3> QED BY <2>2, <3>1, <1>0 DEF Good, Owed
  <2>3. CASE t \notin sessions /\ ~(t = s /\ x \in gone)
    <3>1. t = s /\ t \in dirty'
      BY <2>3, <1>0
    <3>2. x \notin Folding => <<x, t>> \in current'
      BY <2>3, <3>1, <1>0
    <3> QED BY <3>1, <3>2 DEF Good, Owed
  <2> QED BY <2>1, <2>2, <2>3
<1> QED BY <1>0, <1>1, <1>2, Aside

LEMMA DoUploads == ASSUME JobsInv, NEW s \in Ids, Ingest(s) \/ OlderIngest(s) PROVE JobsInv'
<1>0. /\ queue \subseteq Ids /\ forgotten \subseteq Steps \X Ids
      /\ spent \in [faults : Nat, resets : Nat] /\ {SkillStep} \subseteq Newer
      /\ Newer \subseteq Steps
  BY DEF JobsInv, TypeOK, Newer
<1>1. Faulty => spent' \in [faults : Nat, resets : Nat]
  BY <1>0 DEF Faulty
<1>2. ASSUME NEW gone \in SUBSET Newer, Lose(s, gone)
      PROVE  /\ forgotten \subseteq forgotten' /\ forgotten' \subseteq Steps \X Ids
             /\ \A x \in gone : Good(x, s)' \/ Unseen(x, s)
  <2>1. \A x \in gone : <<x, s>> \in forgotten' \/ Unseen(x, s)
    BY <1>2 DEF Lose, Unseen, Newer
  <2> QED BY <2>1, <1>0, <1>2 DEF Lose, Good
<1>3. CASE \/ Upload(s, {}) /\ UNCHANGED <<queue, spent, forgotten>>
           \/ Upload(s, {}) /\ queue' = queue \cup {s} /\ Faulty /\ UNCHANGED forgotten
  <2>1. {} \in SUBSET Newer
    OBVIOUS
  <2> QED BY <1>3, <2>1, <1>0, <1>1, Uploads
<1>4. CASE Upload(s, {SkillStep}) /\ Faulty /\ queue' = queue \cup {s} /\ UNCHANGED forgotten
  <2>1. Good(SkillStep, s)'
    BY <1>4 DEF Good, Owed
  <2> QED BY <1>4, <2>1, <1>0, <1>1, Uploads
<1>5. CASE Upload(s, {SkillStep}) /\ Faulty /\ queue' = queue /\ Lose(s, {SkillStep})
  BY <1>5, <1>0, <1>1, <1>2, Uploads
<1>6. CASE OlderIngest(s)
  <2>1. Newer \in SUBSET Newer
    OBVIOUS
  <2>2. Upload(s, Newer) /\ Faulty /\ Lose(s, Newer) /\ queue' = queue
    BY <1>6 DEF OlderIngest
  <2> QED BY <2>1, <2>2, <1>0, <1>1, <1>2, Uploads
<1> QED BY <1>3, <1>4, <1>5, <1>6 DEF Ingest

LEMMA DoRequeue == ASSUME JobsInv, NEW S \in SUBSET sessions, Requeue(S) PROVE JobsInv'
<1> USE DEF Requeue
<1>1. TypeOK'
  BY DEF JobsInv, TypeOK
<1>2. \A x \in Steps, t \in sessions' : Good(x, t)' \/ (t \in sessions /\ ~Good(x, t))
  BY DEF Good, Owed
<1>4. UNCHANGED <<lock, index, stored, crossed, job, pass>>
  OBVIOUS
<1> QED BY <1>1, <1>2, <1>4, Aside

(* A rerun starts one step over; a pass in the middle of it is crossed.    *)
LEMMA DoReset == ASSUME JobsInv, Reset PROVE JobsInv'
<1>r. PICK r : r = [NoJob EXCEPT !.seeded = job[SkillStep].seeded]
  OBVIOUS
<1>0. /\ job' = [job EXCEPT ![SkillStep] = r]
      /\ stored' = IF stored = Version THEN Version - 1 ELSE stored
      /\ current' = {c \in current : c[1] # SkillStep}
      /\ spent' = [spent EXCEPT !.resets = @ + 1]
      /\ UNCHANGED <<sessions, dirty, queue, index, lock, pass, folds, forgotten>>
  BY <1>r DEF Reset
<1>1. ASSUME NEW j \in Instances
      PROVE  /\ ~(pass[j].pc \in {"work", "commit"} /\ pass[j].step = SkillStep)
             /\ pass[j].pc = "stamping" => crossed'
             /\ pass[j].pc \in {"empty", "one", "skip"} /\ pass[j].step = SkillStep => crossed'
             /\ crossed => crossed'
             /\ crossed' \in BOOLEAN
  BY DEF Reset, JobsInv, TypeOK
<1>b. crossed' \in BOOLEAN /\ (crossed => crossed')
  BY DEF Reset, JobsInv, TypeOK
<1>2. job[SkillStep] \in JobType /\ SkillStep \in Steps \ IndexSteps
  BY DEF JobsInv, TypeOK
<1>3. r = [seeded |-> job[SkillStep].seeded, finished |-> FALSE, cursor |-> 0, attempts |-> 0]
  BY <1>r DEF NoJob
<1>4. r \in JobType
  <2>1. 0 \in 0..MaxSession /\ 0 \in Nat
    OBVIOUS
  <2> QED BY <2>1, <1>2, <1>3 DEF JobType
<1>5. /\ job'[SkillStep] = r /\ job' \in [Steps -> JobType]
      /\ \A x \in Steps : x # SkillStep => job'[x] = job[x]
  BY <1>0, <1>2, <1>4 DEF JobsInv, TypeOK
<1>6. TypeOK'
  BY <1>0, <1>b, <1>5 DEF JobsInv, TypeOK
<1>7. Seeded'
  <2>1. CASE \A x \in Steps : job[x].seeded
    BY <2>1, <1>2, <1>3, <1>5 DEF Seeded
  <2>2. CASE ~\A x \in Steps : job[x].seeded
    <3>1. /\ \A x \in Steps : job[x] = NoJob
          /\ \A i \in Instances : pass[i].pc = "asleep"
          /\ stored < Version
          /\ \A x \in Steps : Since[x] <= stored =>
               /\ \A s \in sessions : Good(x, s)
               /\ x \in IndexSteps => index[x] = "valid"
      BY <2>2 DEF JobsInv, Seeded
    <3>2. stored' = stored
      BY <1>0, <3>1 DEF JobsInv, TypeOK
    <3>3. \A x \in Steps : job'[x] = NoJob
      BY <3>1, <1>2, <1>3, <1>5 DEF NoJob
    <3>4. \A x \in Steps : Since[x] <= stored => x # SkillStep
      BY <3>1 DEF JobsInv, TypeOK
    <3>5. \A x \in Steps : Since[x] <= stored => \A s \in sessions' : Good(x, s)'
      BY <3>1, <3>4, <1>0 DEF Good, Owed
    <3> QED BY <1>0, <3>1, <3>2, <3>3, <3>5 DEF Seeded
  <2> QED BY <2>1, <2>2
<1>8. \A x, s : x # SkillStep /\ Good(x, s) => Good(x, s)'
  BY <1>0 DEF Good, Owed
<1>9. PassedIsDerived'
  <2> SUFFICES ASSUME ~crossed', NEW y \in Steps \ IndexSteps, NEW s \in sessions', Passed(y, s)'
               PROVE  Good(y, s)'
    BY DEF PassedIsDerived, Good
  <2>1. s \in Ids /\ s \in sessions
    BY <1>0 DEF JobsInv, TypeOK
  <2>2. y # SkillStep
    BY <2>1, <1>3, <1>5 DEF Passed, Ids
  <2>3. Passed(y, s)
    BY <2>2, <1>5 DEF Passed
  <2>4. Good(y, s)
    BY <2>1, <2>3, <1>b DEF JobsInv, PassedIsDerived, Good
  <2> QED BY <2>2, <2>4, <1>8
<1>10. StampIsEarned'
  BY <1>0 DEF JobsInv, TypeOK, StampIsEarned
<1>11. IndexIsValid'
  BY <1>0, <1>2, <1>5 DEF JobsInv, IndexIsValid
<1>12. ASSUME NEW j \in Instances PROVE PassOK(j, pass[j])'
  <2>p. PICK p : p = pass[j]
    OBVIOUS
  <2>1. p.step \in Steps /\ (p.pc \in {"work", "commit"} => p.step # SkillStep)
    BY <2>p, <1>1, At DEF PassType
  <2>2. p.pc \in {"work", "commit"} => job'[p.step].cursor = job[p.step].cursor
    BY <2>1, <1>5
  <2>3. p.pc = "stamping" /\ ~crossed' => ~crossed /\ \A x \in Steps : job'[x].finished
    BY <2>p, <1>1
  <2>4. p.pc \in {"work", "commit", "empty", "one", "skip"} /\ ~crossed' => p.step # SkillStep
    BY <2>p, <2>1, <1>1
  <2>5. p.pc \in {"work", "commit", "empty", "one", "skip"} /\ ~crossed' =>
          \A s \in sessions' : Good(p.step, s)' \/ (s \in sessions /\ ~Good(p.step, s))
    BY <2>4, <1>0, <1>8
  <2>6. PassOK(j, p)'
    BY <2>p, <2>2, <2>3, <2>5, <1>0, <1>b, Others
  <2> QED BY <2>p, <2>6, <1>0 DEF PassOK, Shape, Holds, Left
<1> QED BY <1>6, <1>7, <1>9, <1>10, <1>11, <1>12 DEF JobsInv

-----------------------------------------------------------------------------
LEMMA JobsInit == Init => JobsInv
<1> SUFFICES ASSUME Init PROVE JobsInv
  OBVIOUS
<1>1. 1 \in Steps /\ 0 \in 0..MaxSession /\ 0 \in Nat /\ {} \in SUBSET Ids
  BY DEF Steps
<1>2. Asleep \in PassType /\ NoJob \in JobType /\ Asleep.pc = "asleep" /\ ~NoJob.seeded
      /\ ~NoJob.finished
  BY <1>1 DEF Asleep, PassType, PCs, NoJob, JobType
<1>3. TypeOK
  <2>1. stored \in 0..Version
    BY DEF Init
  <2>2. sessions \subseteq Ids /\ current \subseteq Steps \X Ids
    BY DEF Init
  <2>3. spent \in [faults : Nat, resets : Nat]
    BY <1>1 DEF Init
  <2>4. job \in [Steps -> JobType] /\ pass \in [Instances -> PassType]
    BY <1>2 DEF Init
  <2>5. index \in [IndexSteps -> {"absent", "invalid", "valid"}]
    BY DEF Init
  <2>6. /\ dirty \subseteq Ids /\ queue \subseteq Ids /\ folds \subseteq Ids
        /\ forgotten \subseteq Steps \X Ids /\ lock \in Instances \cup {None} /\ crossed \in BOOLEAN
    BY DEF Init
  <2> QED BY <2>1, <2>2, <2>3, <2>4, <2>5, <2>6 DEF TypeOK
<1>4. Seeded
  <2>1. stored < Version
    BY DEF Init
  <2>2. \A x \in Steps : Since[x] <= stored => \A s \in sessions : Good(x, s)
    BY DEF Init, Good
  <2>3. \A x \in IndexSteps : Since[x] <= stored => index[x] = "valid"
    BY DEF Init
  <2> QED BY <1>2, <2>1, <2>2, <2>3 DEF Init, Seeded
<1>5. PassedIsDerived /\ IndexIsValid
  BY <1>2 DEF Init, PassedIsDerived, Passed, IndexIsValid
<1>6. StampIsEarned
  BY DEF Init, StampIsEarned
<1>7. \A i \in Instances : PassOK(i, pass[i])
  BY <1>2 DEF Init, PassOK, Shape, Holds, Holding, Left
<1> QED BY <1>3, <1>4, <1>5, <1>6, <1>7 DEF JobsInv

LEMMA JobsStep == JobsInv /\ [Next]_vars => JobsInv'
<1> SUFFICES ASSUME JobsInv, [Next]_vars PROVE JobsInv'
  OBVIOUS
<1>1. CASE UNCHANGED vars
  <2>1. TypeOK'
    BY <1>1 DEF JobsInv, TypeOK, vars
  <2>2. \A x \in Steps, s \in sessions' : Good(x, s)' \/ (s \in sessions /\ ~Good(x, s))
    BY <1>1 DEF Good, Owed, vars
  <2> QED BY <1>1, <2>1, <2>2, Aside DEF vars
<1>2. CASE \E i \in Instances : PassStep(i)
  <2> PICK i \in Instances : PassStep(i)
    BY <1>2
  <2>1. CASE Wake(i) \/ EnterStep(i) \/ StandDown(i)
    BY <2>1, DoWake, DoEnterStep, DoStandDown
  <2>2. CASE Batch(i)
    BY <2>2, DoFoundDone, DoOpenBatch, DoWorkSession, DoMeetHeld, DoWorkFails, DoSkillRowHeld,
       DoCommitBatch, DoCloseStep DEF Batch
  <2>3. CASE Alone(i)
    BY <2>3, DoBehind, DoAloneHeld, DoAloneWorks, DoAloneFails, DoSkip DEF Alone
  <2>4. CASE Index(i)
    BY <2>4, DoBuild, DoBuildEnds, DoRecordIndex DEF Index
  <2>5. CASE Errs(i) \/ RecordFailure(i) \/ CountPending(i) \/ Stamp(i) \/ Kill(i)
    BY <2>5, DoErrs, DoRecordFailure, DoCountPending, DoStamp, DoKill
  <2>6. CASE NothingToDo(i)
    BY <2>6, <1>1 DEF NothingToDo
  <2> QED BY <2>1, <2>2, <2>3, <2>4, <2>5, <2>6 DEF PassStep
<1>3. CASE Beside
  BY <1>3, DoFolds, DoDelete, DoUploads, DoReset, DoRequeue, DoResume DEF Beside
<1> QED BY <1>1, <1>2, <1>3 DEF Next

LEMMA JobsAlways == Spec => []JobsInv
BY JobsInit, JobsStep, PTL DEF Spec

(* Types of everything RunDerive and what runs beside it write.            *)
THEOREM TypeCorrect == Spec => []TypeOK
<1>1. JobsInv => TypeOK
  BY DEF JobsInv
<1> QED BY <1>1, JobsAlways, PTL

(* However batches are cut short, rolled back, split or taken over, what a *)
(* step's cursor has passed is derived by the current rule, or owed by the *)
(* dirty pass or the skill queue, or was passed over by a skip or lost by  *)
(* an upload behind the cursor, the latter two with nobody to come back.   *)
THEOREM PassedAreDerived == Spec => []PassedIsDerived
<1>1. JobsInv => PassedIsDerived
  BY DEF JobsInv
<1> QED BY <1>1, JobsAlways, PTL

(* A version is stamped only when its steps have finished.                 *)
THEOREM StampEarned == Spec => []StampIsEarned
<1>1. JobsInv => StampIsEarned
  BY DEF JobsInv
<1> QED BY <1>1, JobsAlways, PTL

(* A finished index step has left a valid index.                           *)
THEOREM IndexesValid == Spec => []IndexIsValid
<1>1. JobsInv => IndexIsValid
  BY DEF JobsInv
<1> QED BY <1>1, JobsAlways, PTL

-----------------------------------------------------------------------------
(* Cursors. A batch is read beyond the cursor it was opened at, which is   *)
(* what keeps its commit from taking the step back.                        *)
Beyond(p) == p.pc \in {"work", "commit"} => \A s \in p.ids : p.at < s

CursorInv == JobsInv /\ \A i \in Instances : Beyond(pass[i])

(* A pass outside a batch, or in the batch it was in.                      *)
Tame(p, q) ==
  \/ q.pc \notin {"work", "commit"}
  \/ p.pc \in {"work", "commit"} /\ q.ids = p.ids /\ q.at = p.at

LEMMA TameKeeps ==
  ASSUME CursorInv, NEW i \in Instances, NEW q, Tame(pass[i], q),
         pass' = [pass EXCEPT ![i] = q], NEW j \in Instances
  PROVE  Beyond(pass'[j])
<1>1. pass \in [Instances -> PassType] /\ Beyond(pass[i]) /\ Beyond(pass[j])
  BY DEF CursorInv, JobsInv, TypeOK
<1>2. pass'[j] = IF j = i THEN q ELSE pass[j]
  BY <1>1
<1>3. Beyond(q)
  BY <1>1 DEF Tame, Beyond
<1> QED BY <1>1, <1>2, <1>3

LEMMA OutsideTame ==
  ASSUME NEW p \in PassType
  PROVE  /\ Tame(p, Asleep) /\ Tame(p, Again(p)) /\ Tame(p, Onward(p))
         /\ Tame(p, [Asleep EXCEPT !.pc = "step"])
         /\ Tame(p, [Again(p) EXCEPT !.pc = "failed"])
         /\ \A m \in BOOLEAN : p.pc \in {"one", "skip"} => Tame(p, Rest(p, m))
<1>1. Asleep.pc = "asleep" /\ [Asleep EXCEPT !.pc = "step"].pc = "step"
  BY DEF Asleep
<1>2. Again(p).pc = "open" /\ [Again(p) EXCEPT !.pc = "failed"].pc = "failed"
  BY DEF Asleep, Again
<1>3. Onward(p).pc \in {"step", "stamp"}
  BY DEF Asleep, Onward
<1>4. ASSUME NEW m \in BOOLEAN PROVE Rest(p, m).pc \in {"open", "one"}
  <2>1. CASE p.todo \ {Least(p.todo)} = {}
    BY <1>2, <2>1 DEF Rest
  <2>2. CASE p.todo \ {Least(p.todo)} # {}
    BY <2>2 DEF Rest, PassType
  <2> QED BY <2>1, <2>2
<1> QED BY <1>1, <1>2, <1>3, <1>4 DEF Tame

(* Every step of a pass but the opening of a batch is tame.                *)
LEMMA PassTame ==
  ASSUME JobsInv, NEW i \in Instances, PassStep(i), ~OpenBatch(i), ~NothingToDo(i)
  PROVE  \E q : Tame(pass[i], q) /\ pass' = [pass EXCEPT ![i] = q]
<1>p. PICK p : p = pass[i]
  OBVIOUS
<1>0. p \in PassType
  BY <1>p DEF JobsInv, TypeOK
<1> USE DEF Becomes
<1>1. CASE Wake(i) \/ StandDown(i) \/ Errs(i) \/ Kill(i) \/ Stamp(i)
  BY <1>0, <1>p, <1>1, OutsideTame DEF Wake, StandDown, Errs, Kill, Stamp
<1>2. CASE EnterStep(i)
  BY <1>0, <1>p, <1>2, OutsideTame DEF EnterStep
<1>3. CASE FoundDone(i) \/ SkillRowHeld(i) \/ CloseStep(i) \/ RecordIndex(i)
  BY <1>0, <1>p, <1>3, OutsideTame DEF FoundDone, SkillRowHeld, CloseStep, RecordIndex
<1>4. CASE WorkSession(i)
  <2>1. PICK q : q = [p EXCEPT !.todo = @ \ {Least(p.todo)}]
    OBVIOUS
  <2>2. q.ids = p.ids /\ q.at = p.at
    BY <1>0, <2>1 DEF PassType
  <2> QED BY <1>p, <1>4, <2>1, <2>2 DEF WorkSession, Tame
<1>5. CASE MeetHeld(i)
  <2>1. [p EXCEPT !.pc = "commit"].ids = p.ids /\ [p EXCEPT !.pc = "commit"].at = p.at
    BY <1>0 DEF PassType
  <2>2. p.pc = "work" => Tame(p, [p EXCEPT !.pc = "commit"])
    BY <2>1 DEF Tame
  <2> QED BY <1>0, <1>p, <1>5, <2>2, OutsideTame DEF MeetHeld
<1>6. CASE WorkFails(i)
  <2>1. PICK q : q = [Again(p) EXCEPT !.pc = "one", !.todo = p.ids]
    OBVIOUS
  <2>2. q.pc = "one"
    BY <2>1 DEF Again, Asleep
  <2> QED BY <1>p, <1>6, <2>1, <2>2 DEF WorkFails, Tame
<1>7. CASE CommitBatch(i) \/ RecordFailure(i) \/ AloneHeld(i)
  BY <1>0, <1>p, <1>7, OutsideTame DEF CommitBatch, RecordFailure, AloneHeld
<1>8. CASE Behind(i) \/ AloneWorks(i) \/ Skip(i)
  <2>1. PICK m \in BOOLEAN : pass' = [pass EXCEPT ![i] = Rest(p, m)]
    BY <1>p, <1>8 DEF Behind, AloneWorks, Skip
  <2>2. p.pc \in {"one", "skip"}
    BY <1>p, <1>8 DEF Behind, AloneWorks, Skip, Tries
  <2> QED BY <1>0, <1>p, <2>1, <2>2, OutsideTame
<1>9. CASE AloneFails(i)
  <2>1. [p EXCEPT !.pc = "skip", !.skipped = @ + 1].pc = "skip"
    BY <1>0 DEF PassType
  <2>2. Tame(p, [p EXCEPT !.pc = "skip", !.skipped = @ + 1])
    BY <2>1 DEF Tame
  <2> QED BY <1>0, <1>p, <1>9, <2>2, OutsideTame DEF AloneFails
<1>10. CASE Build(i)
  <2>1. PICK b \in {"built", "build"} :
          pass' = [pass EXCEPT ![i] = [Again(p) EXCEPT !.pc = b]]
    BY <1>p, <1>10 DEF Build
  <2>2. [Again(p) EXCEPT !.pc = b].pc = b
    BY DEF Again, Asleep
  <2> QED BY <1>p, <2>1, <2>2 DEF Tame
<1>11. CASE BuildEnds(i)
  <2>1. [p EXCEPT !.pc = "built"].pc = "built"
    BY <1>0 DEF PassType
  <2> QED BY <1>p, <1>11, <2>1 DEF BuildEnds, Tame
<1>12. CASE CountPending(i)
  <2>1. [p EXCEPT !.pc = "stamping"].pc = "stamping"
    BY <1>0 DEF PassType
  <2>2. Tame(p, [p EXCEPT !.pc = "stamping"])
    BY <2>1 DEF Tame
  <2> QED BY <1>0, <1>p, <1>12, <2>2, OutsideTame DEF CountPending
<1> QED BY <1>1, <1>2, <1>3, <1>4, <1>5, <1>6, <1>7, <1>8, <1>9, <1>10, <1>11, <1>12
        DEF PassStep, Batch, Alone, Index

LEMMA CursorStep == CursorInv /\ [Next]_vars => CursorInv'
<1> SUFFICES ASSUME CursorInv, [Next]_vars, NEW j \in Instances
             PROVE  Beyond(pass'[j])
  BY JobsStep DEF CursorInv, Beyond
<1>0. JobsInv /\ Beyond(pass[j])
  BY DEF CursorInv
<1>1. CASE UNCHANGED pass
  BY <1>0, <1>1
<1>2. ASSUME NEW i \in Instances, OpenBatch(i)
      PROVE  Beyond(pass'[j])
  <2>p. PICK p : p = pass[i]
    OBVIOUS
  <2>0. p \in PassType /\ job \in [Steps -> JobType] /\ sessions \subseteq Ids
    BY <1>0, <2>p DEF JobsInv, TypeOK
  <2>c. PICK c : c = job[p.step].cursor
    OBVIOUS
  <2>1. c \in 0..MaxSession
    BY <2>0, <2>c DEF PassType, JobType
  <2>d. PICK ids : ids = NextSessions(c)
    OBVIOUS
  <2>2. \A s \in ids : c < s
    <3>1. \A s \in ids : s > c
      BY <2>0, <2>1, <2>d, NextAre
    <3>2. ids \subseteq Ids
      BY <2>0, <2>1, <2>d, NextAre
    <3> QED BY <2>1, <3>1, <3>2 DEF Ids
  <2>e. PICK pc : pc = IF ids = {} THEN "empty" ELSE "work"
    OBVIOUS
  <2>q. PICK q : q = [Again(p) EXCEPT !.pc = pc, !.ids = ids, !.todo = ids, !.at = c]
    OBVIOUS
  <2>3. q.ids = ids /\ q.at = c
    BY <2>q DEF Again, Asleep
  <2>4. pass' = [pass EXCEPT ![i] = q]
    BY <1>2, <2>p, <2>c, <2>d, <2>e, <2>q DEF OpenBatch, Becomes
  <2>5. pass'[j] = IF j = i THEN q ELSE pass[j]
    BY <1>0, <2>4 DEF JobsInv, TypeOK
  <2> QED BY <1>0, <2>2, <2>3, <2>5 DEF Beyond
<1>3. ASSUME NEW i \in Instances, PassStep(i), ~OpenBatch(i), ~NothingToDo(i)
      PROVE  Beyond(pass'[j])
  BY <1>0, <1>3, PassTame, TameKeeps
<1>4. Beside => UNCHANGED pass
  BY DEF Beside, FoldBegin, FoldEnd, FoldFails, Drain, Ingest, OlderIngest, Upload, Delete, Reset,
     Requeue, Resume
<1>5. \A i \in Instances : NothingToDo(i) => UNCHANGED pass
  BY DEF NothingToDo, vars
<1> QED BY <1>1, <1>2, <1>3, <1>4, <1>5 DEF Next, vars

(* What a step may do to a job: it keeps its place, or a rerun resets it.  *)
Forward(x) ==
  \/ job'[x] = job[x]
  \/ spent'.resets # spent.resets
  \/ /\ job[x].finished => job'[x].finished
     /\ job'[x].cursor >= job[x].cursor \/ job'[x].finished \/ Skipping(x)

(* A cursor that is moved to c, and a step that is tried again.            *)
LEMMA ForwardMove ==
  ASSUME JobsInv, NEW y \in Steps, NEW c \in 0..MaxSession, NEW done \in BOOLEAN,
         Advance(y, c, done), done \/ c >= job[y].cursor \/ Skipping(y), NEW x \in Steps
  PROVE  Forward(x)
<1>1. job \in [Steps -> JobType]
  BY DEF JobsInv, TypeOK
<1>2. CASE x # y
  BY <1>1, <1>2 DEF Advance, Forward
<1>3. CASE x = y
  <2>1. job'[y] = Moved(job[y], c, done)
    BY <1>1 DEF Advance
  <2>2. PICK j \in JobType : j = job[y]
    BY <1>1
  <2>3. Moved(j, c, done).cursor = c
    BY <2>2 DEF Moved, JobType
  <2>4. Moved(j, c, done).finished = (j.finished \/ done)
    BY <2>2 DEF Moved, JobType
  <2> QED BY <1>3, <2>1, <2>2, <2>3, <2>4 DEF Forward
<1> QED BY <1>2, <1>3

LEMMA ForwardTried ==
  ASSUME JobsInv, NEW y \in Steps, NEW n, job' = [job EXCEPT ![y] = Tried(job[y], n)],
         NEW x \in Steps
  PROVE  Forward(x)
<1>1. job \in [Steps -> JobType]
  BY DEF JobsInv, TypeOK
<1>2. CASE x # y
  BY <1>1, <1>2 DEF Forward
<1>3. CASE x = y
  <2>1. PICK j \in JobType : j = job[y] /\ job'[y] = Tried(j, n)
    BY <1>1
  <2>2. Tried(j, n).cursor = j.cursor /\ Tried(j, n).finished = j.finished
    BY <2>1 DEF Tried, JobType
  <2> QED BY <1>3, <2>1, <2>2 DEF Forward, JobType
<1> QED BY <1>2, <1>3

LEMMA ForwardStep ==
  ASSUME CursorInv, Next, NEW x \in Steps
  PROVE  Forward(x)
<1>0. JobsInv /\ job \in [Steps -> JobType] /\ pass \in [Instances -> PassType]
      /\ spent \in [faults : Nat, resets : Nat]
  BY DEF CursorInv, JobsInv, TypeOK
<1>1. CASE UNCHANGED job
  BY <1>1 DEF Forward
<1>2. ASSUME NEW i \in Instances, Wake(i) PROVE Forward(x)
  <2>1. job'[x] = IF job[x].seeded THEN job[x] ELSE NewJob(x)
    BY <1>2 DEF Wake
  <2>2. CASE job[x].seeded
    BY <2>1, <2>2 DEF Forward
  <2>3. CASE ~job[x].seeded
    <3>1. job[x] = NoJob
      BY <1>0, <2>3 DEF JobsInv, Seeded
    <3>2. job[x].finished = FALSE /\ job[x].cursor = 0 /\ job'[x].cursor = 0
      BY <2>1, <2>3, <3>1 DEF NoJob, NewJob
    <3> QED BY <3>2 DEF Forward
  <2> QED BY <2>2, <2>3
<1>3. ASSUME NEW i \in Instances, CommitBatch(i) PROVE Forward(x)
  <2>p. PICK p : p = pass[i]
    OBVIOUS
  <2>0. p \in PassType /\ Shape(p) /\ Holds(i, p) /\ Beyond(p) /\ p.pc \in {"work", "commit"}
    BY <1>3, <2>p DEF CursorInv, JobsInv, PassOK, CommitBatch
  <2>1. /\ p.at = job[p.step].cursor /\ p.step \in Steps
        /\ Worked(p) # {} /\ Worked(p) \subseteq p.ids /\ p.ids \subseteq Ids
    <3>1. p.ids \ p.todo # {}
      BY <1>3, <2>0, <2>p DEF Shape, CommitBatch
    <3> QED BY <2>0, <3>1 DEF Holds, PassType, Worked
  <2>c. PICK c : c = Largest(Worked(p))
    OBVIOUS
  <2>2. c \in Worked(p)
    BY <2>1, <2>c, LargestIs
  <2>3. c \in 0..MaxSession /\ c >= job[p.step].cursor
    <3>1. p.at < c /\ c \in Ids /\ p.at \in 0..MaxSession
      BY <2>0, <2>1, <2>2 DEF Beyond, PassType
    <3> QED BY <2>1, <3>1 DEF Ids
  <2>d. PICK done \in BOOLEAN : done = (p.todo = {} /\ Cardinality(p.ids) < BatchSize)
    OBVIOUS
  <2>4. Advance(p.step, c, done)
    BY <1>3, <2>p, <2>c, <2>d DEF CommitBatch
  <2> QED BY <1>0, <2>1, <2>3, <2>4, ForwardMove
<1>4. ASSUME NEW i \in Instances, CloseStep(i), job' # job PROVE Forward(x)
  <2>1. pass[i] \in PassType /\ Advance(pass[i].step, pass[i].at, TRUE)
    BY <1>0, <1>4 DEF CloseStep
  <2>2. pass[i].step \in Steps /\ pass[i].at \in 0..MaxSession
    BY <2>1 DEF PassType
  <2> QED BY <1>0, <2>1, <2>2, ForwardMove
<1>5. ASSUME NEW i \in Instances, RecordIndex(i) PROVE Forward(x)
  <2>1. pass[i].step \in Steps /\ 0 \in 0..MaxSession
    BY <1>0 DEF PassType
  <2> QED BY <1>0, <1>5, <2>1, ForwardMove DEF RecordIndex
<1>6. ASSUME NEW i \in Instances, AloneWorks(i) \/ (Skip(i) /\ job' # job) PROVE Forward(x)
  <2>p. PICK p : p = pass[i]
    OBVIOUS
  <2>0. p \in PassType /\ Shape(p) /\ p.pc \in {"one", "skip"} /\ p.step \in Steps
    BY <1>6, <2>p DEF CursorInv, JobsInv, PassOK, AloneWorks, Tries, Skip, PassType
  <2>c. PICK c : c = Least(p.todo)
    OBVIOUS
  <2>1. c \in 0..MaxSession
    <3>1. p.todo # {} /\ p.todo \subseteq Nat /\ p.todo \subseteq Ids
      BY <2>0 DEF Shape, PassType, Ids
    <3>2. c \in Ids
      BY <2>c, <3>1, LeastIs
    <3> QED BY <3>2 DEF Ids
  <2>2. Advance(p.step, c, FALSE)
    BY <1>6, <2>p, <2>c DEF AloneWorks, Skip
  <2>3. CASE AloneWorks(i)
    <3>1. c > job[p.step].cursor /\ job[p.step].cursor \in 0..MaxSession
      BY <1>0, <2>p, <2>0, <2>c, <2>3 DEF AloneWorks, JobType
    <3>2. c >= job[p.step].cursor
      BY <2>1, <3>1
    <3> QED BY <1>0, <2>0, <2>1, <2>2, <3>2, ForwardMove
  <2>4. CASE Skip(i)
    <3>1. p.pc = "skip" /\ pass' = [pass EXCEPT ![i] = Rest(p, TRUE)]
      BY <2>p, <2>4 DEF Skip, Becomes
    <3>2. Rest(p, TRUE).pc \in {"open", "one"}
      <4>1. CASE p.todo \ {Least(p.todo)} = {}
        BY <4>1 DEF Rest, Again, Asleep
      <4>2. CASE p.todo \ {Least(p.todo)} # {}
        BY <2>0, <4>2 DEF Rest, PassType
      <4> QED BY <4>1, <4>2
    <3>3. pass'[i] = Rest(p, TRUE)
      BY <1>0, <3>1
    <3>4. Skipping(p.step)
      BY <2>p, <3>1, <3>2, <3>3 DEF Skipping
    <3> QED BY <1>0, <2>0, <2>1, <2>2, <3>4, ForwardMove
  <2> QED BY <1>6, <2>3, <2>4
<1>7. ASSUME NEW i \in Instances, RecordFailure(i) PROVE Forward(x)
  <2>1. pass[i].step \in Steps
    BY <1>0 DEF PassType
  <2> QED BY <1>0, <1>7, <2>1, ForwardTried DEF RecordFailure
<1>8. ASSUME NEW y \in Steps, Resume(y) PROVE Forward(x)
  BY <1>0, <1>8, ForwardTried DEF Resume
<1>9. ASSUME Reset PROVE Forward(x)
  <2>1. spent'.resets = spent.resets + 1 /\ spent.resets \in Nat
    BY <1>0, <1>9 DEF Reset
  <2> QED BY <2>1 DEF Forward
<1>10. ASSUME Beside, job' # job
       PROVE  Reset \/ \E y \in Steps : Resume(y)
  <2>1. \A s \in Ids : ~(FoldBegin(s) \/ FoldEnd(s) \/ FoldFails(s) \/ Drain(s)
                         \/ Ingest(s) \/ OlderIngest(s) \/ Delete(s))
    BY <1>10 DEF FoldBegin, FoldEnd, FoldFails, Drain, Ingest, OlderIngest, Upload, Delete, db
  <2>2. \A S \in SUBSET sessions : ~Requeue(S)
    BY <1>10 DEF Requeue
  <2> QED BY <1>10, <2>1, <2>2 DEF Beside
<1>11. ASSUME NEW i \in Instances, PassStep(i), job' # job
       PROVE  \/ Wake(i) \/ CommitBatch(i) \/ CloseStep(i) \/ RecordIndex(i)
              \/ AloneWorks(i) \/ Skip(i) \/ RecordFailure(i)
  BY <1>11 DEF PassStep, Batch, Alone, Index, NothingToDo, EnterStep, StandDown, FoundDone,
     OpenBatch, WorkSession, MeetHeld, WorkFails, SkillRowHeld, Behind, AloneHeld, AloneFails,
     Build, BuildEnds, Errs, CountPending, Stamp, Kill, db, vars
<1> QED BY <1>1, <1>2, <1>3, <1>4, <1>5, <1>6, <1>7, <1>8, <1>9, <1>10, <1>11 DEF Next

(* Between reruns no instance undoes what another has done of a step: what *)
(* is finished stays finished and a cursor advances, but for the skip,     *)
(* which does not compare (deriveBatch, commitBatch, commitBatchAlone).    *)
THEOREM JobsNeverGoBack == Spec => NeverBack
<1>1. Init => CursorInv
  BY JobsInit DEF Init, CursorInv, Beyond, Asleep
<1>2. Spec => []CursorInv
  BY <1>1, CursorStep, PTL DEF Spec
<1>3. ASSUME CursorInv, [Next]_vars
      PROVE  [\A x \in Steps :
                job'[x] = job[x] \/ spent'.resets # spent.resets
                \/ /\ job[x].finished => job'[x].finished
                   /\ job'[x].cursor >= job[x].cursor \/ job'[x].finished \/ Skipping(x)]_vars
  BY <1>3, ForwardStep DEF Forward
<1> QED BY <1>2, <1>3, PTL DEF Spec, NeverBack

=============================================================================
