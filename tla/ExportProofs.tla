---------------------------- MODULE ExportProofs ----------------------------
EXTENDS Export, FiniteSetTheorems, TLAPS

(* How far behind the clock a run that starts now would stop.              *)
Reach == Later(0, clock - Margin)

RunState ==
  [st : {"idle", "sessions", "events", "work"}, floor : Times,
   next : [sessions : Times, events : Times],
   todo : SUBSET ((SessionTables \cup {"events"}) \X Nat),
   left : SUBSET Sessions, split : SUBSET Sessions]

(* Beyond TypeOK: the run's record, and a row has both its fields or none.  *)
TypeInv ==
  /\ TypeOK
  /\ run \in RunState
  /\ \A s \in Sessions : row[s].day = 0 <=> row[s].at = 0

(* Nothing carries an instant that is to come; whoever is still to commit   *)
(* began past the reach; no watermark, recorded or to be, is past it.       *)
Paced ==
  /\ \A w \in Writers : tx[w] # 0 => tx[w] <= clock /\ clock < tx[w] + Margin
  /\ \A s \in Sessions : row[s].at <= clock
  /\ \A e \in Events : seen[e] <= clock
  /\ wm.sessions <= Reach /\ wm.events <= Reach /\ run.floor <= Reach
  /\ run.st # "idle" => wm.sessions <= run.floor /\ wm.events <= run.floor
  /\ run.next.sessions <= run.floor /\ run.next.events <= run.floor

(* What a run knows at each of its stages.                                 *)
Staged ==
  /\ run.st = "idle" => run = NoRun
  /\ run.st \in {"sessions", "events"} => flying = {} /\ DayOf(run.floor) = DayOf(clock)
  /\ run.st = "sessions" => run.next = NoRun.next /\ run.todo = {} /\ run.left = {}
  /\ run.st = "events" => run.next.events = 0
  /\ run.todo \cap flying = {}

(* The plan of a run in progress moves past something.                      *)
Moving ==
  /\ run.st \in {"events", "work"} /\ (\E s \in Touched : row[s].at < run.floor)
        => run.next.sessions > wm.sessions
  /\ run.st = "work" /\ (\E e \in Stored : seen[e] > wm.events /\ seen[e] < run.floor)
        => run.next.events > wm.events

ExportInv == TypeInv /\ Paced /\ Staged /\ Moving

-----------------------------------------------------------------------------
(* A copy that is in the warehouse, and in whatever is about to be loaded   *)
(* over it.                                                                 *)
InPlace(t, d, x) ==
  /\ <<t, d, x>> \in held
  /\ <<t, d>> \in flying => <<t, d, x>> \in file

(* A copy that a run has still to make, has in an object on its way, or has *)
(* in the warehouse.                                                        *)
Underway(t, d, x) ==
  \/ <<t, d>> \in run.todo
  \/ IF <<t, d>> \in flying THEN <<t, d, x>> \in file ELSE <<t, d, x>> \in held

(* A session that a plan takes owes its bundle and its tables, save what a  *)
(* fold made anew without a stamp since.                                    *)
Owed(s) == SessionTables \ Stale(s)

(* Behind the watermark: in place. Behind the watermark to be: underway.    *)
(* Neither holds of the rest of a tie that a plan has cut.                  *)
Behind ==
  /\ \A s \in Sessions \ passed : Exists(s) /\ row[s].at <= wm.sessions =>
      /\ s \in refolded \/ <<"bundles", 0, s>> \in held
      /\ \A t \in Owed(s) : InPlace(t, row[s].day, s)
  /\ \A e \in Stored : seen[e] <= wm.events => InPlace("events", DayOf(seen[e]), e)

Promised ==
  /\ \A s \in Sessions \ (passed \cup run.split) :
      Exists(s) /\ row[s].at <= run.next.sessions =>
        /\ s \in refolded \/ <<"bundles", 0, s>> \in held \/ s \in run.left
        /\ \A t \in Owed(s) : Underway(t, row[s].day, s)
  /\ \A e \in Stored : seen[e] <= run.next.events => Underway("events", DayOf(seen[e]), e)

KeptInv == Behind /\ Promised

-----------------------------------------------------------------------------
(* Numbers: days, the greatest and the least of a set.                      *)

LEMMA Constants ==
  /\ Sessions \subseteq Nat /\ Events \subseteq Nat
  /\ IsFiniteSet(Sessions) /\ IsFiniteSet(Events)
  /\ MaxTime \in Nat /\ MaxBatch \in Nat
  /\ MaxSessions \in Nat \ {0} /\ MaxSessionDays \in Nat \ {0} /\ MaxEventDays \in Nat \ {0}
  /\ Margin \in Nat \ {0} /\ DayLength \in Nat \ {0}
BY ExportAssumption

(* A day has its first and its last instant.                                *)
LEMMA DayBounds ==
  ASSUME NEW t \in Nat
  PROVE  /\ DayOf(t) \in Nat
         /\ DayOf(t) * DayLength <= t
         /\ t <= DayEnd(DayOf(t))
         /\ t % DayLength = t - DayOf(t) * DayLength
<1>1. DayLength \in Nat \ {0}
  BY Constants
<1> QED BY <1>1 DEF DayOf, DayEnd

LEMMA DaysApart ==
  ASSUME NEW a \in Nat, NEW b \in Nat, a < b
  PROVE  (a + 1) * DayLength <= b * DayLength
<1>1. DayLength \in Nat \ {0}
  BY Constants
<1> QED BY <1>1

(* An earlier instant is of the same day or an earlier one.                 *)
LEMMA DaysInOrder ==
  ASSUME NEW t \in Nat, NEW u \in Nat, t <= u
  PROVE  DayOf(t) <= DayOf(u)
<1> SUFFICES ASSUME DayOf(u) < DayOf(t) PROVE FALSE
  BY DayBounds
<1>1. /\ DayOf(t) \in Nat /\ DayOf(u) \in Nat
      /\ (DayOf(u) + 1) * DayLength <= DayOf(t) * DayLength
  BY DayBounds, DaysApart
<1>2. /\ DayOf(t) * DayLength <= t
      /\ u <= (DayOf(u) + 1) * DayLength - 1
  BY DayBounds DEF DayEnd
<1>3. DayLength \in Nat
  BY Constants
<1>4. DayOf(t) * DayLength \in Nat /\ (DayOf(u) + 1) * DayLength \in Nat
  BY <1>1, <1>3
<1> QED BY <1>1, <1>2, <1>4

(* A run starts so late in the day that its floor is of the same day.       *)
LEMMA FloorSameDay ==
  ASSUME NEW t \in Nat, t % DayLength \in RunsAt
  PROVE  /\ Later(0, t - Margin) = t - Margin /\ t - Margin \in Nat
         /\ DayOf(t - Margin) = DayOf(t)
<1>1. t % DayLength \in Margin .. DayLength - 1
  BY ExportAssumption
<1>2. /\ Margin \in Nat /\ DayLength \in Nat \ {0} /\ DayOf(t) \in Nat
      /\ DayOf(t) * DayLength <= t /\ t % DayLength = t - DayOf(t) * DayLength
  BY Constants, DayBounds
<1>. DayOf(t) * DayLength \in Nat
  BY <1>2
<1>3. t - Margin >= DayOf(t) * DayLength
  BY <1>1, <1>2
<1>4. t - Margin \in Nat /\ Later(0, t - Margin) = t - Margin
  BY <1>2, <1>3 DEF Later
<1>5. DayOf(t - Margin) <= DayOf(t)
  BY <1>2, <1>4, DaysInOrder
<1>6. DayOf(t) <= DayOf(t - Margin)
  <2> SUFFICES ASSUME DayOf(t - Margin) < DayOf(t) PROVE FALSE
    BY <1>2, <1>4, DayBounds
  <2>1. (DayOf(t - Margin) + 1) * DayLength <= DayOf(t) * DayLength
    BY <1>2, <1>4, DayBounds, DaysApart
  <2>2. t - Margin <= (DayOf(t - Margin) + 1) * DayLength - 1
    BY <1>4, DayBounds DEF DayEnd
  <2>3. (DayOf(t - Margin) + 1) * DayLength \in Int
    BY <1>2, <1>4, DayBounds
  <2> QED BY <2>1, <2>2, <2>3, <1>2, <1>3, <1>4
<1> QED BY <1>2, <1>4, <1>5, <1>6, DayBounds

LEMMA LeastExists ==
  ASSUME NEW S, S \subseteq Nat, S # {}
  PROVE  \E s \in S : \A t \in S : s <= t
<1>1. PICK s \in S : \A t \in S : ~(<<t, s>> \in OpToRel(<, Nat))
  BY NatLessThanWellFounded, WFMin, Zenon
<1>2. ASSUME NEW t \in S PROVE s <= t
  <2>1. <<t, s>> \in OpToRel(<, Nat) <=> t < s
    BY DEF OpToRel
  <2>2. s \in Nat /\ t \in Nat
    OBVIOUS
  <2>3. ~(t < s)
    BY <1>1, <2>1, Zenon
  <2> QED BY <2>2, <2>3
<1> QED BY <1>2

(* The least of two, the greatest of a bounded set.                         *)
LEMMA MinOfTwo ==
  ASSUME NEW a \in Int, NEW b \in Int
  PROVE  Min({a, b}) = IF a <= b THEN a ELSE b
<1>1. \A x \in {a, b} : (\A y \in {a, b} : x <= y) <=> x = (IF a <= b THEN a ELSE b)
  OBVIOUS
<1> QED BY <1>1 DEF Min

LEMMA MaxIs ==
  ASSUME NEW S, S \subseteq Nat, S # {}, NEW k \in Nat, \A s \in S : s <= k
  PROVE  Max(S) \in S /\ \A t \in S : t <= Max(S)
<1> DEFINE D == {k - s : s \in S}
<1>1. D \subseteq Nat /\ D # {}
  <2>1. \A s \in S : k - s \in Nat
    OBVIOUS
  <2> QED BY <2>1
<1>2. PICK l \in D : \A t \in D : l <= t
  BY <1>1, LeastExists
<1>3. PICK s \in S : l = k - s
  OBVIOUS
<1>4. ASSUME NEW t \in S PROVE t <= s
  <2>1. k - s <= k - t
    BY <1>2, <1>3
  <2>2. s \in Int /\ t \in Int /\ k \in Int
    OBVIOUS
  <2> HIDE DEF D
  <2> QED BY ONLY <2>1, <2>2
<1> QED BY <1>4 DEF Max

-----------------------------------------------------------------------------
(* The plan of a run.                                                       *)

LEMMA RowTypes ==
  ASSUME TypeInv
  PROVE  /\ clock \in Nat /\ MaxTime \in Nat /\ clock <= MaxTime
         /\ \A s \in Sessions : row[s].at \in Nat /\ row[s].day \in Nat /\ row[s].at <= MaxTime
         /\ \A e \in Events : seen[e] \in Nat /\ seen[e] <= MaxTime
         /\ wm.sessions \in Nat /\ wm.events \in Nat
         /\ run.floor \in Nat /\ run.next.sessions \in Nat /\ run.next.events \in Nat
<1>1. MaxTime \in Nat /\ Days \subseteq Nat
  BY ExportAssumption DEF Days
<1>2. Times \subseteq Nat /\ \A t \in Times : t <= MaxTime
  BY <1>1 DEF Times
<1>3. clock \in Times /\ wm \in [sessions : Times, events : Times] /\ run \in RunState
  BY DEF TypeInv, TypeOK
<1>4. /\ row \in [Sessions -> [day : Days \cup {0}, at : Times]]
      /\ seen \in [Events -> Times]
  BY DEF TypeInv, TypeOK
<1>5. ASSUME NEW s \in Sessions PROVE row[s].at \in Times /\ row[s].day \in Nat
  <2> DEFINE D == Days \cup {0}
  <2>1. D \subseteq Nat
    BY <1>1
  <2>2. row[s] \in [day : D, at : Times]
    BY <1>4
  <2> HIDE DEF D
  <2>3. row[s].day \in D /\ row[s].at \in Times
    BY <2>2
  <2> QED BY <2>1, <2>3
<1>6. /\ wm.sessions \in Times /\ wm.events \in Times /\ run.floor \in Times
      /\ run.next.sessions \in Times /\ run.next.events \in Times
  BY <1>3 DEF RunState
<1> QED BY <1>1, <1>2, <1>3, <1>4, <1>5, <1>6

LEMMA StrictlyIs ==
  ASSUME TypeInv, NEW c \in Touched, NEW floor \in Nat, NEW q
  PROVE  q \in Strictly(c, floor) <=>
           q \in Touched /\ row[q].at < row[c].at /\ row[q].at < floor
<1>1. /\ row[c].at \in Nat /\ c \in Sessions
      /\ \A s \in Touched : s \in Sessions /\ row[s].at \in Nat
  BY RowTypes DEF Touched
<1>2. Min({row[c].at, floor}) = IF row[c].at <= floor THEN row[c].at ELSE floor
  BY <1>1, MinOfTwo
<1>3. q \in Touched /\ row[q].at < Min({row[c].at, floor})
        <=> q \in Touched /\ row[q].at < row[c].at /\ row[q].at < floor
  BY <1>1, <1>2
<1>4. q \in Strictly(c, floor) <=> q \in Before(c) /\ row[q].at < Min({row[c].at, floor})
  BY DEF Strictly
<1>5. q \in Before(c) => q \in Touched
  BY DEF Before
<1>6. q \in Touched /\ row[q].at < row[c].at => q \in Before(c)
  BY DEF Before
<1> QED BY <1>3, <1>4, <1>5, <1>6

(* The four ways a plan of the sessions may come out.                       *)
LEMMA PlanCases ==
  ASSUME TypeInv, NEW old, NEW floor \in Nat, NEW p, p = planSessions(old, floor)
  PROVE  \/ /\ Cut = {} /\ p.included = Touched /\ p.to = Later(old, floor) /\ p.split = {}
         \/ \E c \in Cut :
              \/ /\ p.included = Strictly(c, floor) /\ p.split = {}
                 /\ \E m \in Strictly(c, floor) : p.to = row[m].at
                 /\ \A q \in Strictly(c, floor) : row[q].at <= p.to
              \/ /\ Strictly(c, floor) = {} /\ row[c].at < floor
                 /\ p.included = Before(c) /\ p.to = row[c].at
                 /\ p.split = {s \in Touched \ Before(c) : row[s].at = row[c].at}
              \/ /\ Strictly(c, floor) = {} /\ ~(row[c].at < floor)
                 /\ p.included = {} /\ p.to = old /\ p.split = {}
<1>1. CASE Cut = {}
  BY <1>1 DEF planSessions
<1>2. CASE Cut # {}
  <2>1. PICK c \in Cut : p = PlanCut(c, old, floor)
    BY <1>2 DEF planSessions
  <2>2. CASE Strictly(c, floor) # {}
    <3> DEFINE T == Strictly(c, floor)
               A == {row[s].at : s \in T}
    <3>1. p = [included |-> T, to |-> Max(A), split |-> {}]
      BY <2>1, <2>2 DEF PlanCut
    <3>2. T \subseteq Sessions /\ T # {}
      BY <2>2 DEF Strictly, Before, Touched
    <3> HIDE DEF T
    <3>3. A \subseteq Nat /\ A # {} /\ (\A a \in A : a <= MaxTime) /\ MaxTime \in Nat
      BY <3>2, RowTypes
    <3>4. Max(A) \in A /\ \A a \in A : a <= Max(A)
      BY <3>3, MaxIs
    <3>5. PICK m \in T : Max(A) = row[m].at
      BY <3>4
    <3>6. \A q \in T : row[q].at <= Max(A)
      BY <3>4
    <3>7. p.included = T /\ p.to = Max(A) /\ p.split = {}
      BY <3>1
    <3> HIDE DEF A
    <3>8. /\ p.included = Strictly(c, floor) /\ p.split = {}
          /\ \E k \in Strictly(c, floor) : p.to = row[k].at
          /\ \A q \in Strictly(c, floor) : row[q].at <= p.to
      BY <3>5, <3>6, <3>7 DEF T
    <3> QED BY <3>8
  <2>3. CASE Strictly(c, floor) = {} /\ row[c].at < floor
    <3>1. p = [included |-> Before(c), to |-> row[c].at,
               split |-> {s \in Touched \ Before(c) : row[s].at = row[c].at}]
      BY <2>1, <2>3 DEF PlanCut
    <3> QED BY <2>3, <3>1
  <2>4. CASE Strictly(c, floor) = {} /\ ~(row[c].at < floor)
    <3>1. p = [included |-> {}, to |-> old, split |-> {}]
      BY <2>1, <2>4 DEF PlanCut
    <3> QED BY <2>4, <3>1
  <2> QED BY <2>2, <2>3, <2>4
<1> QED BY <1>1, <1>2

(* Whatever the cut, a plan takes touched rows, stops at the floor, and goes *)
(* past something unless all it could take is inside the margin.            *)
LEMMA SessionsPlan ==
  ASSUME TypeInv, NEW floor \in Times, wm.sessions <= floor,
         NEW p, p = planSessions(wm.sessions, floor)
  PROVE  /\ p.included \subseteq Touched /\ p.split \subseteq Touched
         /\ p.to \in Times /\ p.to <= floor
         /\ (\E s \in Touched : row[s].at < floor) => p.to > wm.sessions
<1>1. /\ floor \in Nat /\ floor <= MaxTime /\ wm.sessions \in Nat /\ MaxTime \in Nat
      /\ \A s \in Touched : row[s].at \in Nat /\ row[s].at > wm.sessions
  BY RowTypes DEF Touched, Times
<1>2. ASSUME Cut = {}, p.included = Touched, p.to = Later(wm.sessions, floor)
      PROVE  /\ p.included \subseteq Touched /\ p.to \in Times /\ p.to <= floor
             /\ (\E s \in Touched : row[s].at < floor) => p.to > wm.sessions
  BY <1>1, <1>2 DEF Later, Times
<1>3. ASSUME NEW c \in Cut, p.included = Strictly(c, floor),
             NEW m \in Strictly(c, floor), p.to = row[m].at
      PROVE  /\ p.included \subseteq Touched /\ p.to \in Times /\ p.to <= floor
             /\ p.to > wm.sessions
  <2>1. c \in Touched
    BY DEF Cut
  <2>2. m \in Touched /\ row[m].at < floor
    BY <1>1, <2>1, StrictlyIs
  <2>3. p.included \subseteq Touched
    BY <1>1, <1>3, <2>1, StrictlyIs
  <2> QED BY <1>1, <1>3, <2>2, <2>3 DEF Times
<1>4. ASSUME NEW c \in Cut, row[c].at < floor, p.included = Before(c), p.to = row[c].at
      PROVE  /\ p.included \subseteq Touched /\ p.to \in Times /\ p.to <= floor
             /\ p.to > wm.sessions
  <2>1. c \in Touched /\ Before(c) \subseteq Touched
    BY DEF Cut, Before
  <2> QED BY <1>1, <1>4, <2>1 DEF Times
<1>5. ASSUME NEW c \in Cut, Strictly(c, floor) = {}, ~(row[c].at < floor),
             p.included = {}, p.to = wm.sessions
      PROVE  /\ p.included \subseteq Touched /\ p.to \in Times /\ p.to <= floor
             /\ ~\E s \in Touched : row[s].at < floor
  <2>1. c \in Touched
    BY DEF Cut
  <2>2. ASSUME NEW s \in Touched, row[s].at < floor PROVE FALSE
    <3>1. row[s].at < row[c].at
      BY <1>1, <1>5, <2>1, <2>2
    <3> QED BY <1>1, <1>5, <2>1, <2>2, <3>1, StrictlyIs
  <2>3. p.to \in Times
    BY <1>1, <1>5 DEF Times
  <2> QED BY <1>1, <1>5, <2>2, <2>3
<1>6. \/ Cut = {} /\ p.included = Touched /\ p.to = Later(wm.sessions, floor)
      \/ \E c \in Cut : p.included = Strictly(c, floor) /\ \E m \in Strictly(c, floor) : p.to = row[m].at
      \/ \E c \in Cut : row[c].at < floor /\ p.included = Before(c) /\ p.to = row[c].at
      \/ \E c \in Cut : /\ Strictly(c, floor) = {} /\ ~(row[c].at < floor)
                        /\ p.included = {} /\ p.to = wm.sessions
  BY <1>1, PlanCases
<1>7. p.split \subseteq Touched
  BY <1>1, PlanCases
<1> QED BY <1>2, <1>3, <1>4, <1>5, <1>6, <1>7

(* What lies behind the position to be is what the run takes, or the rest of *)
(* a tie that the plan has cut.                                             *)
LEMMA SessionsCovered ==
  ASSUME TypeInv, NEW floor \in Times, wm.sessions <= floor,
         NEW p, p = planSessions(wm.sessions, floor),
         NEW s \in Touched, row[s].at <= p.to
  PROVE  s \in p.included \/ s \in p.split
<1>1. /\ floor \in Nat /\ wm.sessions \in Nat
      /\ \A q \in Touched : row[q].at \in Nat /\ row[q].at > wm.sessions
  BY RowTypes DEF Touched, Times
<1>2. CASE p.included = Touched
  BY <1>2
<1>3. ASSUME NEW c \in Cut, p.included = Strictly(c, floor),
             NEW m \in Strictly(c, floor), p.to = row[m].at
      PROVE  s \in p.included
  <2>1. c \in Touched /\ row[c].at \in Nat
    BY <1>1 DEF Cut
  <2>2. m \in Touched /\ row[m].at < floor /\ row[m].at < row[c].at
    BY <1>1, <2>1, StrictlyIs
  <2>3. row[s].at < floor /\ row[s].at < row[c].at
    BY <1>1, <1>3, <2>1, <2>2
  <2> QED BY <1>1, <1>3, <2>1, <2>3, StrictlyIs
<1>4. ASSUME NEW c \in Cut, Strictly(c, floor) = {}, row[c].at < floor,
             p.included = Before(c), p.to = row[c].at,
             p.split = {q \in Touched \ Before(c) : row[q].at = row[c].at}
      PROVE  s \in p.included \/ s \in p.split
  <2>1. c \in Touched /\ row[c].at \in Nat
    BY <1>1 DEF Cut
  <2>2. ~(row[s].at < row[c].at)
    BY <1>1, <1>4, <2>1, StrictlyIs
  <2>3. row[s].at = row[c].at
    BY <1>1, <1>4, <2>1, <2>2
  <2> QED BY <1>4, <2>3
<1>5. CASE p.to = wm.sessions
  BY <1>1, <1>5
<1>6. \/ p.included = Touched
      \/ \E c \in Cut : p.included = Strictly(c, floor) /\ \E m \in Strictly(c, floor) : p.to = row[m].at
      \/ \E c \in Cut :
           /\ Strictly(c, floor) = {} /\ row[c].at < floor
           /\ p.included = Before(c) /\ p.to = row[c].at
           /\ p.split = {q \in Touched \ Before(c) : row[q].at = row[c].at}
      \/ p.to = wm.sessions
  BY <1>1, PlanCases
<1> QED BY <1>2, <1>3, <1>4, <1>5, <1>6

(* The events: a plan takes whole days from the first on; the last instant   *)
(* of the last of them is before the floor, whose day is the clock's.       *)
LEMMA FirstDays ==
  ASSUME TypeInv, Paced, NEW d \in NewDays
  PROVE  /\ d \in Nat /\ d <= DayOf(clock) /\ IsFiniteSet({q \in NewDays : q <= d})
         /\ \E e \in Stored : seen[e] > wm.events /\ d = DayOf(seen[e])
<1>1. PICK e \in Stored : seen[e] > wm.events /\ d = DayOf(seen[e])
  BY DEF NewDays
<1>2. e \in Events /\ seen[e] \in Nat /\ seen[e] <= clock /\ clock \in Nat
  BY RowTypes DEF Stored, Paced
<1>3. d \in Nat /\ d <= DayOf(clock)
  BY <1>1, <1>2, DayBounds, DaysInOrder
<1>4. \A q \in NewDays : q \in Nat
  BY RowTypes, DayBounds DEF NewDays, Stored
<1>5. IsFiniteSet({q \in NewDays : q <= d})
  BY <1>3, <1>4, FS_BoundedSetOfNaturals
<1> QED BY <1>1, <1>3, <1>5

LEMMA EventsPlan ==
  ASSUME TypeInv, Paced, NEW floor \in Times, wm.events <= floor, DayOf(floor) = DayOf(clock),
         NEW p, p = planDays(wm.events, floor)
  PROVE  /\ p.days \subseteq Nat
         /\ p.to \in Times /\ p.to <= floor
         /\ (\E e \in Stored : seen[e] > wm.events /\ seen[e] < floor) => p.to > wm.events
         /\ \A e \in Stored : seen[e] > wm.events /\ seen[e] <= p.to => DayOf(seen[e]) \in p.days
<1> DEFINE Upto(d) == {q \in NewDays : q <= d}
           first == {d \in NewDays : Cardinality(Upto(d)) <= MaxEventDays}
<1>1. /\ floor \in Nat /\ floor <= MaxTime /\ wm.events \in Nat /\ MaxTime \in Nat
      /\ DayOf(clock) \in Nat
      /\ \A e \in Stored : seen[e] \in Nat
      /\ \A e \in Stored : seen[e] > wm.events => DayOf(seen[e]) \in NewDays
  BY RowTypes, DayBounds DEF Times, Stored, NewDays
<1>2. \A d \in NewDays : /\ d \in Nat /\ d <= DayOf(clock) /\ IsFiniteSet(Upto(d))
                         /\ Cardinality(Upto(d)) \in Nat
  BY FirstDays, FS_CardinalityType
<1>3. CASE first = NewDays
  <2>1. p = [days |-> NewDays, to |-> Later(wm.events, floor)]
    BY <1>3 DEF planDays
  <2>2. p.days = NewDays /\ p.to = floor
    BY <1>1, <2>1 DEF Later
  <2>3. NewDays \subseteq Nat
    BY <1>2
  <2> HIDE DEF first, Upto
  <2> QED BY <1>1, <2>2, <2>3
<1>4. CASE first # NewDays
  <2>1. p = [days |-> first, to |-> DayEnd(Max(first))]
    BY <1>4 DEF planDays
  <2>2. PICK late \in NewDays : late \notin first
    BY <1>4
  <2>3. first # {}
    <3>1. PICK d \in NewDays : \A q \in NewDays : d <= q
      <4>1. NewDays \subseteq Nat /\ NewDays # {}
        BY <1>2, <2>2
      <4> QED BY <4>1, LeastExists
    <3>2. Upto(d) = {d}
      <4>1. d \in Nat /\ \A q \in NewDays : q \in Nat /\ d <= q
        BY <1>2, <3>1
      <4>2. \A q \in NewDays : q <= d <=> q = d
        BY <4>1
      <4> QED BY <4>2
    <3>3. Cardinality(Upto(d)) = 1
      BY <3>2, FS_Singleton
    <3> QED BY <3>1, <3>3, Constants
  <2>4. first \subseteq Nat /\ \A d \in first : d <= DayOf(clock)
    BY <1>2
  <2>5. PICK m \in first : m = Max(first) /\ \A d \in first : d <= m
    BY <1>1, <2>3, <2>4, MaxIs
  <2>6. p.days = first /\ p.to = DayEnd(m)
    BY <2>1, <2>5
  <2>7. \A d \in NewDays : d <= m => d \in first
    <3> SUFFICES ASSUME NEW d \in NewDays, d <= m PROVE Cardinality(Upto(d)) <= MaxEventDays
      OBVIOUS
    <3>1. m \in NewDays /\ m \in Nat /\ Cardinality(Upto(m)) <= MaxEventDays
      BY <2>4
    <3>2. Upto(d) \subseteq Upto(m)
      <4>1. d \in Nat /\ \A q \in NewDays : q \in Nat
        BY <1>2
      <4>2. \A q \in NewDays : q <= d => q <= m
        BY <3>1, <4>1
      <4> QED BY <4>2
    <3>3. IsFiniteSet(Upto(m)) /\ Cardinality(Upto(m)) \in Nat /\ Cardinality(Upto(d)) \in Nat
      BY <1>2, <3>1
    <3>4. Cardinality(Upto(d)) <= Cardinality(Upto(m))
      BY <3>2, <3>3, FS_Subset
    <3>5. MaxEventDays \in Nat
      BY Constants
    <3> HIDE DEF Upto
    <3> QED BY <3>1, <3>3, <3>4, <3>5
  <2>8. m \in Nat /\ m \in NewDays /\ late \in Nat /\ m < late /\ late <= DayOf(clock)
    <3>1. m \in Nat /\ m \in NewDays /\ late \in Nat /\ late <= DayOf(clock)
      BY <1>2, <2>2, <2>4
    <3> QED BY <2>2, <2>7, <3>1
  <2> HIDE DEF first, Upto
  <2>9. DayEnd(m) \in Nat /\ DayEnd(m) < floor
    <3>1. (m + 1) * DayLength <= DayOf(floor) * DayLength
      BY <1>1, <2>8, DaysApart
    <3>2. DayOf(floor) * DayLength <= floor
      BY <1>1, DayBounds
    <3>3. m + 1 \in Nat \ {0} /\ DayLength \in Nat \ {0}
      BY <2>8, Constants
    <3>4. (m + 1) * DayLength \in Nat /\ (m + 1) * DayLength >= 1
      BY <3>3
    <3>5. DayOf(floor) * DayLength \in Nat
      <4>1. DayOf(floor) \in Nat
        BY <1>1
      <4> QED BY <3>3, <4>1
    <3> QED BY <1>1, <3>1, <3>2, <3>4, <3>5 DEF DayEnd
  <2>10. DayEnd(m) > wm.events
    <3>1. PICK e \in Stored : seen[e] > wm.events /\ m = DayOf(seen[e])
      BY <2>8, FirstDays
    <3>2. seen[e] <= DayEnd(m)
      BY <1>1, <3>1, DayBounds
    <3> QED BY <1>1, <2>9, <3>1, <3>2
  <2>11. ASSUME NEW e \in Stored, seen[e] > wm.events, seen[e] <= DayEnd(m)
         PROVE  DayOf(seen[e]) \in first
    <3>1. DayOf(seen[e]) \in NewDays /\ DayOf(seen[e]) \in Nat
      BY <1>1, <1>2, <2>11
    <3>2. SUFFICES ASSUME m < DayOf(seen[e]) PROVE FALSE
      BY <2>7, <2>8, <3>1
    <3>3. (m + 1) * DayLength <= DayOf(seen[e]) * DayLength
      BY <2>8, <3>1, <3>2, DaysApart
    <3>4. DayOf(seen[e]) * DayLength <= seen[e]
      BY <1>1, DayBounds
    <3>5. (m + 1) * DayLength \in Int /\ DayOf(seen[e]) * DayLength \in Int
      BY <2>8, <3>1, Constants
    <3>6. seen[e] <= (m + 1) * DayLength - 1
      BY <2>11 DEF DayEnd
    <3> QED BY <1>1, <3>3, <3>4, <3>5, <3>6
  <2> QED BY <1>1, <2>4, <2>6, <2>9, <2>10, <2>11 DEF Times
<1> QED BY <1>3, <1>4

-----------------------------------------------------------------------------
(* Type correctness, pace and stages are kept by every step.                *)

Partitions == (SessionTables \cup {"events"}) \X Nat

CopyOK(c) ==
  \/ c[1] = "events" /\ c[3] \in Stored /\ c[2] = DayOf(seen[c[3]])
  \/ c[1] = "bundles" /\ c[3] \in Sessions
  \/ c[1] \in SessionTables /\ c[3] \in Sessions /\ c[2] = row[c[3]].day

(* A step that leaves the database's rows alone keeps the types if what it  *)
(* writes has them.                                                         *)
LEMMA TypeMoves ==
  ASSUME TypeInv, UNCHANGED <<row, seen>>, clock' \in Times, tx' \in [Writers -> Times],
         wm' \in [sessions : Times, events : Times], flying' \subseteq Partitions,
         run' \in RunState, \A c \in held' \cup file' : c \in held \cup file \/ CopyOK(c),
         refolded' \subseteq Sessions, passed' \subseteq Sessions
  PROVE  TypeInv'
<1>1. ASSUME NEW c \in held' \cup file' PROVE CopyOK(c)'
  <2>1. CopyOK(c)
    BY DEF TypeInv, TypeOK, CopyOK
  <2> QED BY <2>1 DEF CopyOK, Stored
<1>2. \A c \in held' \cup file' : CopyOK(c)'
  BY <1>1
<1>3. run'.st \in {"idle", "sessions", "events", "work"} /\ run'.floor \in Times
  BY DEF RunState
<1>4. TypeOK'
  BY <1>2, <1>3 DEF TypeInv, TypeOK, CopyOK, Partitions
<1> QED BY <1>4 DEF TypeInv, RunState

LEMMA RowsAreCopies ==
  ASSUME TypeInv, NEW p \in Partitions, NEW c \in Rows(p[1], p[2])
  PROVE  CopyOK(c) /\ c[1] = p[1] /\ c[2] = p[2]
<1>1. p[1] \in SessionTables \cup {"events"}
  BY DEF Partitions
<1>2. CASE p[1] = "events"
  BY <1>2 DEF Rows, CopyOK
<1>3. CASE p[1] # "events"
  BY <1>1, <1>3 DEF Rows, CopyOK
<1> QED BY <1>2, <1>3

(* What the state is made of, from the types.                               *)
LEMMA Types ==
  ASSUME TypeInv
  PROVE  /\ clock \in Times /\ tx \in [Writers -> Times]
         /\ wm \in [sessions : Times, events : Times] /\ flying \subseteq Partitions
         /\ run \in RunState /\ \A c \in held \cup file : CopyOK(c)
         /\ refolded \subseteq Sessions /\ passed \subseteq Sessions
BY DEF TypeInv, TypeOK, Partitions, CopyOK

LEMMA RunIs ==
  ASSUME run \in RunState
  PROVE  /\ run.st \in {"idle", "sessions", "events", "work"} /\ run.floor \in Times
         /\ run.split \subseteq Sessions /\ run.left \subseteq Sessions
         /\ run.todo \subseteq Partitions
         /\ run.next \in [sessions : Times, events : Times]
         /\ run.next.sessions \in Times /\ run.next.events \in Times
BY DEF RunState, Partitions

LEMMA NoRunIs ==
  NoRun \in RunState /\ 0 \in Times
BY Constants DEF NoRun, RunState, Times

(* Who is still to commit began past whatever a watermark may be.           *)
LEMMA OpenAhead ==
  ASSUME TypeInv, Paced, NEW w \in Writers, tx[w] # 0
  PROVE  /\ tx[w] \in Nat /\ tx[w] <= clock
         /\ tx[w] > run.floor /\ tx[w] > wm.sessions /\ tx[w] > wm.events
         /\ tx[w] > run.next.sessions /\ tx[w] > run.next.events
<1>1. tx[w] \in Nat /\ tx[w] <= clock /\ clock < tx[w] + Margin
  BY Types DEF Paced, Times
<1>2. clock \in Nat /\ Margin \in Nat /\ wm.sessions \in Nat /\ wm.events \in Nat
      /\ run.floor \in Nat /\ run.next.sessions \in Nat /\ run.next.events \in Nat
  BY RowTypes, Constants
<1>3. Reach \in Int /\ Reach < tx[w]
  BY <1>1, <1>2 DEF Reach, Later
<1> QED BY <1>1, <1>2, <1>3 DEF Paced

(* Time passes, with or without a transaction beginning.                    *)
LEMMA ClockMoves ==
  ASSUME ExportInv, Tick \/ \E w \in Writers : Begin(w)
  PROVE  ExportInv'
<1>1. TypeInv /\ Paced /\ Staged /\ Moving
  BY DEF ExportInv
<1>2. /\ clock' = clock + 1 /\ clock < MaxTime /\ Stands(clock + 1) /\ InTime(clock + 1)
      /\ UNCHANGED <<row, seen, wm, held, file, flying, run, history>>
      /\ tx' = tx \/ \E w \in Writers : tx' = [tx EXCEPT ![w] = clock + 1]
  BY DEF Tick, Begin
<1>3. clock \in Nat /\ MaxTime \in Nat /\ Margin \in Nat \ {0} /\ clock + 1 \in Times
  BY <1>1, <1>2, RowTypes, Constants DEF Times
<1>4. TypeInv'
  <2>1. tx' \in [Writers -> Times]
    BY <1>1, <1>2, <1>3, Types
  <2> QED BY <1>1, <1>2, <1>3, <2>1, Types, TypeMoves DEF history
<1>5. Reach' >= Reach /\ Reach \in Int /\ Reach' \in Int
  BY <1>2, <1>3 DEF Reach, Later
<1>6. Paced'
  <2>1. ASSUME NEW w \in Writers, tx'[w] # 0
        PROVE  tx'[w] <= clock' /\ clock' < tx'[w] + Margin
    <3>1. tx'[w] = tx[w] \/ tx'[w] = clock + 1
      BY <1>1, <1>2, Types
    <3>2. tx[w] # 0 => tx[w] \in Nat /\ tx[w] <= clock /\ clock + 1 < tx[w] + Margin
      BY <1>1, <1>2, Types DEF Paced, Stands, Times
    <3> QED BY <1>2, <1>3, <2>1, <3>1, <3>2
  <2>2. /\ \A s \in Sessions : row'[s].at <= clock'
        /\ \A e \in Events : seen'[e] <= clock'
    BY <1>1, <1>2, <1>3, RowTypes DEF Paced
  <2>3. /\ wm'.sessions <= Reach' /\ wm'.events <= Reach' /\ run'.floor <= Reach'
        /\ run'.st # "idle" => wm'.sessions <= run'.floor /\ wm'.events <= run'.floor
        /\ run'.next.sessions <= run'.floor /\ run'.next.events <= run'.floor
    BY <1>1, <1>2, <1>5, RowTypes DEF Paced
  <2> QED BY <2>1, <2>2, <2>3 DEF Paced
<1>7. Staged'
  BY <1>1, <1>2 DEF Staged, InTime, NoRun
<1>8. Moving'
  BY <1>1, <1>2 DEF Moving, Touched, Exists, Stored
<1> QED BY <1>4, <1>6, <1>7, <1>8 DEF ExportInv

(* What a commit does to rows, events and copies.                           *)
Commits(w, b) ==
  /\ row' \in [Sessions -> [day : Days \cup {0}, at : Times]]
  /\ seen' \in [Events -> Times]
  /\ \A s \in Sessions : b[s] = 0 => row'[s] = row[s]
  /\ \A s \in Sessions : b[s] # 0 => row'[s].at = tx[w] /\ row'[s].day # 0
  /\ \A e \in Events : seen'[e] = seen[e] \/ (seen[e] = 0 /\ seen'[e] = tx[w])
  /\ \A c \in held \cup file : c[1] # "events" /\ b[c[3]] # 0 => c \notin held' \cup file'
  /\ \A c \in held : c[1] = "events" \/ b[c[3]] = 0 => c \in held'
  /\ \A c \in file : c[1] = "events" \/ b[c[3]] = 0 => c \in file'
  /\ held' \subseteq held /\ file' \subseteq file
  /\ \A s \in Sessions : b[s] = 0 => (s \in refolded' <=> s \in refolded)
  /\ \A s \in Sessions : b[s] = 0 => (s \in passed' <=> s \in passed)
  /\ refolded' \subseteq refolded /\ passed' \subseteq passed
  /\ tx' = [tx EXCEPT ![w] = 0]
  /\ UNCHANGED <<clock, begun, wm, flying, run>>

LEMMA CommitIs ==
  ASSUME TypeInv, NEW w \in Writers, Commit(w)
  PROVE  tx[w] # 0 /\ \E b \in Batches : Commits(w, b)
<1>1. tx[w] # 0 /\ tx[w] \in Times
  BY Types DEF Commit
<1> DEFINE out(b) == {c \in held \cup file : c[1] # "events" /\ b[c[3]] # 0}
<1>2. PICK b \in Batches :
        /\ row' = [s \in Sessions |->
             IF b[s] = 0 THEN row[s]
             ELSE [at |-> tx[w], day |-> IF Exists(s) THEN Min({row[s].day, b[s]}) ELSE b[s]]]
        /\ seen' = [e \in Events |-> IF Single(b) /\ e \in NextEvent THEN tx[w] ELSE seen[e]]
        /\ held' = held \ out(b) /\ file' = file \ out(b)
        /\ refolded' = {s \in refolded : b[s] = 0} /\ passed' = {s \in passed : b[s] = 0}
  BY DEF Commit
<1>3. /\ b \in [Sessions -> Days \cup {0}]
      /\ Days \subseteq Nat \ {0}
  BY ExportAssumption DEF Batches, Days
<1>4. /\ row \in [Sessions -> [day : Days \cup {0}, at : Times]]
      /\ seen \in [Events -> Times]
  BY DEF TypeInv, TypeOK
<1>5. ASSUME NEW s \in Sessions, b[s] # 0
      PROVE  /\ row'[s] \in [day : Days \cup {0}, at : Times]
             /\ row'[s].at = tx[w] /\ row'[s].day # 0
  <2> DEFINE d == IF Exists(s) THEN Min({row[s].day, b[s]}) ELSE b[s]
  <2>1. row'[s] = [at |-> tx[w], day |-> d]
    BY <1>2, <1>5
  <2>2. b[s] \in Days /\ row[s].day \in Days \cup {0}
    BY <1>3, <1>4, <1>5
  <2>3. d \in Days
    <3>1. CASE Exists(s)
      <4>1. row[s].day \in Days /\ row[s].day \in Int /\ b[s] \in Int
        <5>1. row[s].day \in Days
          BY <2>2, <3>1 DEF Exists
        <5>2. \A d1 \in Days : d1 \in Int
          BY <1>3
        <5> QED BY <2>2, <5>1, <5>2
      <4> QED BY <2>2, <3>1, <4>1, MinOfTwo
    <3>2. CASE ~Exists(s)
      BY <2>2, <3>2
    <3> QED BY <3>1, <3>2
  <2> HIDE DEF d
  <2>4. d # 0
    BY <1>3, <2>3
  <2> QED BY <1>1, <2>1, <2>3, <2>4
<1>6. row' \in [Sessions -> [day : Days \cup {0}, at : Times]]
  <2>1. ASSUME NEW s \in Sessions PROVE row'[s] \in [day : Days \cup {0}, at : Times]
    BY <1>2, <1>4, <1>5
  <2>2. row' = [s \in Sessions |-> row'[s]]
    BY <1>2
  <2> QED BY <2>1, <2>2
<1>7. /\ seen' \in [Events -> Times]
      /\ \A e \in Events : seen'[e] = seen[e] \/ (seen[e] = 0 /\ seen'[e] = tx[w])
  BY <1>1, <1>2, <1>4 DEF NextEvent, Unsent
<1>8. /\ \A c \in held \cup file : c[1] # "events" /\ b[c[3]] # 0 => c \notin held' \cup file'
      /\ \A c \in held : c[1] = "events" \/ b[c[3]] = 0 => c \in held'
      /\ \A c \in file : c[1] = "events" \/ b[c[3]] = 0 => c \in file'
      /\ held' \subseteq held /\ file' \subseteq file
  BY <1>2
<1>9. \A s \in Sessions : b[s] = 0 => row'[s] = row[s]
  BY <1>2
<1>10. tx' = [tx EXCEPT ![w] = 0] /\ UNCHANGED <<clock, begun, wm, flying, run>>
  BY DEF Commit
<1>11. /\ \A s \in Sessions : b[s] = 0 => (s \in refolded' <=> s \in refolded)
       /\ \A s \in Sessions : b[s] = 0 => (s \in passed' <=> s \in passed)
       /\ refolded' \subseteq refolded /\ passed' \subseteq passed
  BY <1>2
<1>12. Commits(w, b)
  BY <1>5, <1>6, <1>7, <1>8, <1>9, <1>10, <1>11 DEF Commits
<1> QED BY <1>1, <1>12

LEMMA CommitMoves ==
  ASSUME ExportInv, NEW w \in Writers, Commit(w)
  PROVE  ExportInv'
<1>1. TypeInv /\ Paced /\ Staged /\ Moving
  BY DEF ExportInv
<1>2. tx[w] # 0 /\ \E b \in Batches : Commits(w, b)
  BY <1>1, CommitIs
<1>3. PICK b \in Batches : Commits(w, b)
  BY <1>2
<1>4. /\ tx[w] \in Nat /\ tx[w] <= clock /\ tx[w] > run.floor
      /\ tx[w] > wm.sessions /\ tx[w] > wm.events
  BY <1>1, <1>2, OpenAhead
<1>5. /\ UNCHANGED <<clock, wm, flying, run>> /\ tx' = [tx EXCEPT ![w] = 0]
      /\ \A s \in Sessions : row'[s] = row[s] \/ (row'[s].at = tx[w] /\ row'[s].day # 0)
      /\ \A e \in Events : seen'[e] = seen[e] \/ (seen[e] = 0 /\ seen'[e] = tx[w])
  BY <1>3 DEF Commits
<1>6. TypeInv'
  <2>1. ASSUME NEW c \in held' \cup file' PROVE CopyOK(c)'
    <3>1. CopyOK(c) /\ c \in held \cup file
      BY <1>1, <1>3, Types DEF Commits
    <3>2. CASE c[1] = "events" /\ c[3] \in Stored /\ c[2] = DayOf(seen[c[3]])
      <4>1. seen'[c[3]] = seen[c[3]] /\ c[3] \in Events /\ seen[c[3]] # 0
        BY <1>5, <3>2 DEF Stored
      <4> QED BY <3>2, <4>1 DEF CopyOK, Stored
    <3>3. CASE c[1] = "bundles" /\ c[3] \in Sessions
      BY <3>3 DEF CopyOK
    <3>4. CASE c[1] \in SessionTables /\ c[3] \in Sessions /\ c[2] = row[c[3]].day
      <4>1. c[1] # "events"
        BY <3>4, ExportAssumption
      <4>2. b[c[3]] = 0
        BY <1>3, <3>1, <4>1 DEF Commits
      <4>3. row'[c[3]] = row[c[3]]
        BY <1>3, <3>4, <4>2 DEF Commits
      <4> QED BY <3>4, <4>3 DEF CopyOK
    <3> QED BY <3>1, <3>2, <3>3, <3>4 DEF CopyOK
  <2>2. clock' \in Times /\ tx' \in [Writers -> Times]
    BY <1>1, <1>5, Types, NoRunIs
  <2>3. /\ row' \in [Sessions -> [day : Days \cup {0}, at : Times]]
        /\ seen' \in [Events -> Times]
    BY <1>3 DEF Commits
  <2>4. /\ wm' \in [sessions : Times, events : Times] /\ run' \in RunState
        /\ flying' \subseteq Partitions
    BY <1>1, <1>5, Types
  <2>5. run'.st \in {"idle", "sessions", "events", "work"} /\ run'.floor \in Times
    BY <1>1, <1>5, Types, RunIs
  <2>6. \A c \in held' \cup file' : CopyOK(c)'
    BY <2>1
  <2>7. refolded' \subseteq Sessions /\ passed' \subseteq Sessions
    BY <1>1, <1>3, Types DEF Commits
  <2>8. TypeOK'
    BY <2>2, <2>3, <2>4, <2>5, <2>6, <2>7 DEF TypeOK, CopyOK, Partitions
  <2>9. \A s \in Sessions : row'[s].day = 0 <=> row'[s].at = 0
    <3>1. \A s \in Sessions : row[s].day = 0 <=> row[s].at = 0
      BY <1>1 DEF TypeInv
    <3> QED BY <1>2, <1>5, <3>1
  <2> QED BY <2>4, <2>8, <2>9 DEF TypeInv
<1>7. Paced'
  <2>1. \A v \in Writers : tx'[v] # 0 => tx'[v] = tx[v]
    BY <1>1, <1>5, Types
  <2>2. Reach' = Reach
    BY <1>5 DEF Reach
  <2>3. \A v \in Writers : tx'[v] # 0 => tx'[v] <= clock' /\ clock' < tx'[v] + Margin
    BY <1>1, <1>5, <2>1 DEF Paced
  <2>4. \A s \in Sessions : row'[s].at <= clock'
    BY <1>1, <1>4, <1>5 DEF Paced
  <2>5. \A e \in Events : seen'[e] <= clock'
    BY <1>1, <1>4, <1>5 DEF Paced
  <2> QED BY <1>1, <1>5, <2>2, <2>3, <2>4, <2>5 DEF Paced
<1>8. Staged'
  BY <1>1, <1>5 DEF Staged, NoRun
<1>9. Moving'
  <2>1. run.floor \in Nat
    BY <1>1, RowTypes
  <2>2. ASSUME NEW s \in Touched', row'[s].at < run.floor
        PROVE  s \in Touched /\ row[s].at < run.floor
    <3>1. s \in Sessions /\ row'[s] = row[s]
      BY <1>4, <1>5, <2>1, <2>2 DEF Touched
    <3> QED BY <1>5, <2>2, <3>1 DEF Touched, Exists
  <2>3. ASSUME NEW e \in Stored', seen'[e] > wm.events, seen'[e] < run.floor
        PROVE  e \in Stored /\ seen[e] > wm.events /\ seen[e] < run.floor
    <3>1. e \in Events /\ seen'[e] = seen[e]
      BY <1>4, <1>5, <2>1, <2>3 DEF Stored
    <3> QED BY <2>3, <3>1 DEF Stored
  <2> QED BY <1>1, <1>5, <2>2, <2>3 DEF Moving
<1> QED BY <1>6, <1>7, <1>8, <1>9 DEF ExportInv

(* A run begins, or ends without having moved the watermarks.               *)
LEMMA StartMoves ==
  ASSUME ExportInv, Start
  PROVE  ExportInv'
<1>1. TypeInv /\ Paced /\ Staged /\ Moving
  BY DEF ExportInv
<1>2. /\ run.st = "idle" /\ clock % DayLength \in RunsAt
      /\ run' = [NoRun EXCEPT !.st = "sessions", !.floor = Reach]
      /\ flying' = {} /\ file' = {}
      /\ UNCHANGED <<clock, begun, tx, row, seen, wm, held, history>>
  BY DEF Start, Reach
<1>3. clock \in Nat /\ clock <= MaxTime /\ Margin \in Nat \ {0} /\ MaxTime \in Nat
  BY <1>1, RowTypes, Constants
<1>4. Reach = clock - Margin /\ Reach \in Nat /\ DayOf(Reach) = DayOf(clock)
  BY <1>2, <1>3, FloorSameDay DEF Reach
<1>5. Reach \in Times
  BY <1>3, <1>4 DEF Times
<1>6. /\ run'.st = "sessions" /\ run'.floor = Reach /\ run'.next = NoRun.next
      /\ run'.todo = {} /\ run'.left = {} /\ run' \in RunState
  BY <1>2, <1>5, NoRunIs DEF NoRun, RunState
<1>7. TypeInv'
  BY <1>1, <1>2, <1>6, Types, TypeMoves DEF history
<1>8. Paced'
  <2>1. Reach' = Reach
    BY <1>2 DEF Reach
  <2>2. run'.next.sessions = 0 /\ run'.next.events = 0
    BY <1>6 DEF NoRun
  <2> QED BY <1>1, <1>2, <1>4, <1>6, <2>1, <2>2 DEF Paced
<1>9. Staged'
  BY <1>2, <1>4, <1>6 DEF Staged, NoRun
<1>10. Moving'
  BY <1>6 DEF Moving
<1> QED BY <1>7, <1>8, <1>9, <1>10 DEF ExportInv

LEMMA EndMoves ==
  ASSUME ExportInv, run' = NoRun, flying' \subseteq flying, file' \subseteq file,
         UNCHANGED <<clock, tx, row, seen, held>>, wm' = wm \/ wm' = run.next,
         refolded' = refolded, passed' \subseteq Sessions
  PROVE  ExportInv'
<1>1. TypeInv /\ Paced /\ Staged /\ Moving
  BY DEF ExportInv
<1>2. /\ run'.st = "idle" /\ run'.floor = 0 /\ run'.next.sessions = 0 /\ run'.next.events = 0
      /\ run'.todo = {} /\ run' \in RunState
  BY NoRunIs DEF NoRun
<1>3. TypeInv'
  <2>1. wm' \in [sessions : Times, events : Times]
    BY <1>1, Types, RunIs
  <2> QED BY <1>1, <1>2, <2>1, Types, TypeMoves
<1>4. Paced'
  <2>1. Reach' = Reach /\ Reach \in Nat
    BY <1>1, RowTypes, Constants DEF Reach, Later
  <2>2. wm'.sessions <= Reach /\ wm'.events <= Reach
    BY <1>1, <2>1, RowTypes DEF Paced
  <2> QED BY <1>1, <1>2, <2>1, <2>2 DEF Paced
<1>5. Staged'
  BY <1>1, <1>2 DEF Staged
<1>6. Moving'
  BY <1>2 DEF Moving
<1> QED BY <1>3, <1>4, <1>5, <1>6 DEF ExportInv

(* The two halves of the plan.                                              *)
LEMMA PlanSessionsMoves ==
  ASSUME ExportInv, PlanTheSessions
  PROVE  ExportInv'
<1>1. TypeInv /\ Paced /\ Staged /\ Moving
  BY DEF ExportInv
<1>2. PICK p : /\ p = planSessions(wm.sessions, run.floor)
               /\ run' = [run EXCEPT !.st = "events", !.left = p.included,
                                     !.split = p.split, !.next.sessions = p.to,
                                     !.todo = SessionTables \X DaysOf(p.included)]
  BY DEF PlanTheSessions
<1>3. /\ run.st = "sessions" /\ UNCHANGED <<clock, begun, tx, row, seen, wm, held, file, flying, history>>
      /\ run \in RunState /\ run.floor \in Times /\ run.next \in [sessions : Times, events : Times]
  BY <1>1, Types, RunIs DEF PlanTheSessions
<1>4. wm.sessions <= run.floor
  BY <1>1, <1>3 DEF Paced
<1>5. /\ p.included \subseteq Touched /\ p.split \subseteq Touched
      /\ p.to \in Times /\ p.to <= run.floor
      /\ (\E s \in Touched : row[s].at < run.floor) => p.to > wm.sessions
  BY <1>1, <1>2, <1>3, <1>4, SessionsPlan
<1>6. p.included \subseteq Sessions /\ p.split \subseteq Sessions /\ DaysOf(p.included) \subseteq Nat
  <2>1. p.included \subseteq Sessions /\ p.split \subseteq Sessions
    BY <1>5 DEF Touched
  <2> QED BY <1>1, <2>1, RowTypes DEF DaysOf
<1>7. /\ run'.st = "events" /\ run'.floor = run.floor /\ run'.left = p.included
      /\ run'.todo = SessionTables \X DaysOf(p.included)
      /\ run'.next = [run.next EXCEPT !.sessions = p.to]
      /\ run'.next.sessions = p.to /\ run'.next.events = run.next.events
  BY <1>2, <1>3 DEF RunState
<1>8. run' \in RunState
  <2>1. run'.todo \in SUBSET ((SessionTables \cup {"events"}) \X Nat)
    BY <1>6, <1>7
  <2>2. run'.next \in [sessions : Times, events : Times]
    BY <1>3, <1>5, <1>7
  <2>3. run' = [st |-> "events", floor |-> run.floor, next |-> run'.next,
                todo |-> run'.todo, left |-> p.included, split |-> p.split]
    BY <1>2, <1>3 DEF RunState
  <2> QED BY <1>3, <1>6, <2>1, <2>2, <2>3 DEF RunState
<1>9. TypeInv'
  BY <1>1, <1>3, <1>8, Types, TypeMoves DEF history
<1>10. Paced'
  <2>1. Reach' = Reach
    BY <1>3 DEF Reach
  <2> QED BY <1>1, <1>3, <1>4, <1>5, <1>7, <2>1 DEF Paced
<1>11. Staged'
  BY <1>1, <1>3, <1>7 DEF Staged, NoRun
<1>12. Moving'
  BY <1>3, <1>5, <1>7 DEF Moving, Touched, Exists
<1> QED BY <1>9, <1>10, <1>11, <1>12 DEF ExportInv

LEMMA PlanEventsMoves ==
  ASSUME ExportInv, PlanTheEvents
  PROVE  ExportInv'
<1>1. TypeInv /\ Paced /\ Staged /\ Moving
  BY DEF ExportInv
<1>2. PICK p : /\ p = planDays(wm.events, run.floor)
               /\ run' = [run EXCEPT !.st = "work", !.next.events = p.to,
                                     !.todo = @ \cup ({"events"} \X p.days)]
  BY DEF PlanTheEvents
<1>3. /\ run.st = "events" /\ UNCHANGED <<clock, begun, tx, row, seen, wm, held, file, flying, history>>
      /\ run \in RunState /\ run.floor \in Times /\ run.next \in [sessions : Times, events : Times]
      /\ run.todo \subseteq Partitions
  BY <1>1, Types, RunIs DEF PlanTheEvents
<1>4. wm.events <= run.floor /\ DayOf(run.floor) = DayOf(clock)
  BY <1>1, <1>3 DEF Paced, Staged
<1>5. /\ p.days \subseteq Nat /\ p.to \in Times /\ p.to <= run.floor
      /\ (\E e \in Stored : seen[e] > wm.events /\ seen[e] < run.floor) => p.to > wm.events
  BY <1>1, <1>2, <1>3, <1>4, EventsPlan
<1>6. /\ run'.st = "work" /\ run'.floor = run.floor /\ run'.split = run.split
      /\ run'.left = run.left /\ run'.todo = run.todo \cup ({"events"} \X p.days)
      /\ run'.next = [run.next EXCEPT !.events = p.to]
      /\ run'.next.sessions = run.next.sessions /\ run'.next.events = p.to
  BY <1>2, <1>3 DEF RunState
<1>7. run' \in RunState
  <2>1. run'.todo \in SUBSET ((SessionTables \cup {"events"}) \X Nat)
    BY <1>3, <1>5, <1>6 DEF Partitions
  <2>2. run'.next \in [sessions : Times, events : Times]
    BY <1>3, <1>5, <1>6
  <2>3. run' = [st |-> "work", floor |-> run.floor, next |-> run'.next,
                todo |-> run'.todo, left |-> run.left, split |-> run.split]
    BY <1>2, <1>3 DEF RunState
  <2> QED BY <1>3, <2>1, <2>2, <2>3 DEF RunState
<1>8. TypeInv'
  BY <1>1, <1>3, <1>7, Types, TypeMoves DEF history
<1>9. Paced'
  <2>1. Reach' = Reach
    BY <1>3 DEF Reach
  <2> QED BY <1>1, <1>3, <1>4, <1>5, <1>6, <2>1 DEF Paced
<1>10. Staged'
  BY <1>1, <1>3, <1>6 DEF Staged, NoRun
<1>11. Moving'
  <2>1. (\E s \in Touched' : row'[s].at < run'.floor) => run'.next.sessions > wm'.sessions
    BY <1>1, <1>3, <1>6 DEF Moving, Touched, Exists
  <2>2. (\E e \in Stored' : seen'[e] > wm'.events /\ seen'[e] < run'.floor)
          => run'.next.events > wm'.events
    BY <1>3, <1>5, <1>6 DEF Stored
  <2> QED BY <2>1, <2>2 DEF Moving
<1> QED BY <1>8, <1>9, <1>10, <1>11 DEF ExportInv

(* A step of a run's work leaves the plan, and takes from what is to do.    *)
LEMMA WorkMoves ==
  ASSUME ExportInv, UNCHANGED <<clock, tx, row, seen, wm>>, run' \in RunState,
         run'.st = run.st, run'.floor = run.floor, run'.next = run.next,
         run'.todo \subseteq run.todo, run'.left \subseteq run.left,
         flying' \subseteq Partitions, run'.todo \cap flying' = {},
         run.st = "work" \/ (run' = run /\ flying' \subseteq flying),
         \A c \in held' \cup file' : c \in held \cup file \/ CopyOK(c),
         refolded' \subseteq Sessions, passed' = passed
  PROVE  ExportInv'
<1>1. TypeInv /\ Paced /\ Staged /\ Moving
  BY DEF ExportInv
<1>2. TypeInv'
  BY <1>1, Types, TypeMoves
<1>3. Paced'
  <2>1. Reach' = Reach
    BY DEF Reach
  <2> QED BY <1>1, <2>1 DEF Paced
<1>4. Staged'
  BY <1>1 DEF Staged, NoRun
<1>5. Moving'
  BY <1>1 DEF Moving, Touched, Exists, Stored
<1> QED BY <1>2, <1>3, <1>4, <1>5 DEF ExportInv

(* What each step of the work changes.                                      *)
LEMMA PartitionIs ==
  ASSUME run \in RunState, NEW p \in run.todo, ExportPartition(p)
  PROVE  /\ p \in Partitions /\ run' \in RunState /\ run'.todo = run.todo \ {p}
         /\ run'.st = "work" /\ run.st = "work" /\ run'.floor = run.floor
         /\ run'.next = run.next /\ run'.left = run.left /\ run'.split = run.split
<1>1. run' = [run EXCEPT !.todo = run.todo \ {p}] /\ run.st = "work"
  BY DEF ExportPartition
<1>2. p \in Partitions
  BY RunIs
<1> QED BY <1>1, <1>2 DEF RunState

LEMMA BundleIs ==
  ASSUME run \in RunState, NEW s \in run.left, ExportBundle(s)
  PROVE  /\ s \in Sessions /\ run' \in RunState /\ run'.todo = run.todo
         /\ run'.st = "work" /\ run.st = "work" /\ run'.floor = run.floor
         /\ run'.next = run.next /\ run'.left = run.left \ {s} /\ run'.split = run.split
<1>1. run' = [run EXCEPT !.left = run.left \ {s}] /\ run.st = "work"
  BY DEF ExportBundle
<1>2. s \in Sessions
  BY RunIs
<1> QED BY <1>1, <1>2 DEF RunState

(* Every step keeps the invariant.                                          *)
LEMMA ExportStep ==
  ASSUME ExportInv, [Next]_vars
  PROVE  ExportInv'
<1>1. TypeInv /\ Paced /\ Staged /\ Moving /\ run \in RunState /\ flying \subseteq Partitions
      /\ refolded \subseteq Sessions /\ passed \subseteq Sessions /\ run.split \subseteq Sessions
  BY Types, RunIs DEF ExportInv
<1>2. CASE Tick \/ \E w \in Writers : Begin(w)
  BY <1>2, ClockMoves
<1>3. ASSUME NEW w \in Writers, Commit(w) PROVE ExportInv'
  BY <1>3, CommitMoves
<1>4. CASE Start
  BY <1>4, StartMoves
<1>5. CASE PlanTheSessions
  BY <1>5, PlanSessionsMoves
<1>6. CASE PlanTheEvents
  BY <1>6, PlanEventsMoves
<1>7. ASSUME NEW p \in run.todo, ExportPartition(p) PROVE ExportInv'
  <2>1. /\ p \in Partitions /\ run' \in RunState /\ run'.todo = run.todo \ {p}
        /\ run'.st = "work" /\ run.st = "work" /\ run'.floor = run.floor
        /\ run'.next = run.next /\ run'.left = run.left
    BY <1>1, <1>7, PartitionIs
  <2>2. /\ file' = (file \ Of(p, file)) \cup Rows(p[1], p[2]) /\ flying' = flying \cup {p}
        /\ UNCHANGED <<clock, begun, tx, row, seen, wm, held, refolded, passed>>
    BY <1>7 DEF ExportPartition, history
  <2>3. run'.todo \cap flying' = {} /\ flying' \subseteq Partitions
    BY <1>1, <2>1, <2>2 DEF Staged
  <2>4. \A c \in held' \cup file' : c \in held \cup file \/ CopyOK(c)
    BY <1>1, <2>1, <2>2, RowsAreCopies
  <2> QED BY <1>1, <2>1, <2>2, <2>3, <2>4, WorkMoves
<1>8. ASSUME NEW p \in flying, Landed(p) PROVE ExportInv'
  <2>1. /\ held' = (held \ Of(p, held)) \cup Of(p, file) /\ flying' = flying \ {p}
        /\ file' = file \ Of(p, file) /\ UNCHANGED <<clock, begun, tx, row, seen, wm, run, refolded, passed>>
    BY <1>8 DEF Landed, history
  <2>2. \A c \in held' \cup file' : c \in held \cup file
    BY <2>1 DEF Of
  <2>3. run'.todo \cap flying' = {}
    BY <1>1, <2>1 DEF Staged
  <2> QED BY <1>1, <2>1, <2>2, <2>3, WorkMoves
<1>9. ASSUME NEW p \in flying, LoadFails(p) PROVE ExportInv'
  <2>1. /\ run' = NoRun /\ flying' \subseteq flying /\ file' \subseteq file
        /\ UNCHANGED <<clock, tx, row, seen, held, refolded, passed>> /\ wm' = wm
    BY <1>9 DEF LoadFails, history
  <2> QED BY <1>1, <2>1, EndMoves
<1>10. ASSUME NEW s \in run.left, ExportBundle(s) PROVE ExportInv'
  <2>1. /\ s \in Sessions /\ run' \in RunState /\ run'.todo = run.todo
        /\ run'.st = "work" /\ run.st = "work" /\ run'.floor = run.floor
        /\ run'.next = run.next /\ run'.left = run.left \ {s}
    BY <1>1, <1>10, BundleIs
  <2>2. /\ held' = held \cup {<<"bundles", 0, s>>}
        /\ UNCHANGED <<clock, begun, tx, row, seen, wm, file, flying, refolded, passed>>
    BY <1>10 DEF ExportBundle, history
  <2>3. CopyOK(<<"bundles", 0, s>>)
    BY <2>1 DEF CopyOK
  <2>4. run'.todo \cap flying' = {}
    BY <1>1, <2>1, <2>2 DEF Staged
  <2> QED BY <1>1, <2>1, <2>2, <2>3, <2>4, WorkMoves
<1>11. CASE GiveUp \/ AdvanceWatermarks
  <2>1. /\ run' = NoRun /\ flying' \subseteq flying /\ file' \subseteq file
        /\ UNCHANGED <<clock, tx, row, seen, held>>
        /\ wm' = wm \/ wm' = run.next
        /\ refolded' = refolded /\ passed' \subseteq Sessions
    BY <1>1, <1>11 DEF GiveUp, AdvanceWatermarks, history
  <2> QED BY <2>1, EndMoves
<1>12. CASE UNCHANGED vars
  <2>1. /\ UNCHANGED <<clock, tx, row, seen, wm, held, file, flying, run, refolded, passed>>
    BY <1>12 DEF vars, history
  <2>2. run'.todo \cap flying' = {}
    BY <1>1, <2>1 DEF Staged
  <2> QED BY <1>1, <2>1, <2>2, WorkMoves
<1>13. ASSUME NEW s \in Sessions, Refold(s) PROVE ExportInv'
  <2>1. /\ held' \subseteq held /\ file' \subseteq file /\ refolded' = refolded \cup {s}
        /\ UNCHANGED <<clock, tx, row, seen, wm, flying, run, passed>>
    BY <1>13 DEF Refold
  <2>2. run'.todo \cap flying' = {}
    BY <1>1, <2>1 DEF Staged
  <2> QED BY <1>1, <2>1, <2>2, WorkMoves
<1> QED BY <1>2, <1>3, <1>4, <1>5, <1>6, <1>7, <1>8, <1>9, <1>10, <1>11, <1>12, <1>13 DEF Next

LEMMA ExportStarts == Init => ExportInv
<1> SUFFICES ASSUME Init PROVE ExportInv
  OBVIOUS
<1>1. /\ MaxTime \in Nat /\ 0 \in Times /\ Margin \in Nat \ {0} /\ NoRun \in RunState
  BY Constants, NoRunIs
<1>2. TypeInv
  BY <1>1 DEF Init, TypeInv, TypeOK, NoRun
<1>3. Paced
  BY <1>1 DEF Init, Paced, Reach, Later, NoRun
<1>4. Staged /\ Moving
  BY DEF Init, Staged, Moving, NoRun
<1> QED BY <1>2, <1>3, <1>4 DEF ExportInv

LEMMA ExportKept == Spec => []ExportInv
<1> QED BY ExportStarts, ExportStep, PTL DEF Spec

(* The rows, the clock, the watermarks and the copies have their types: a   *)
(* copy in the warehouse is of a row that exists, in the partition of the   *)
(* day the row is of now (Run, exportPartition, applyDelta).                *)
THEOREM TypeCorrect == Spec => []TypeOK
<1>1. ExportInv => TypeOK
  BY DEF ExportInv, TypeInv
<1> QED BY <1>1, ExportKept, PTL

(* A run that succeeds moves past something, however its caps cut it.       *)
THEOREM RunsMoveOn == Spec => CapsMoveOn
<1>1. ASSUME ExportInv, [Next]_vars
      PROVE  [AdvanceWatermarks =>
                /\ (\E s \in Touched : row[s].at < run.floor) => wm'.sessions > wm.sessions
                /\ (\E e \in Stored : seen[e] > wm.events /\ seen[e] < run.floor)
                     => wm'.events > wm.events]_vars
  <2>1. SUFFICES ASSUME AdvanceWatermarks
        PROVE /\ (\E s \in Touched : row[s].at < run.floor) => wm'.sessions > wm.sessions
              /\ (\E e \in Stored : seen[e] > wm.events /\ seen[e] < run.floor)
                   => wm'.events > wm.events
    OBVIOUS
  <2>2. Moving /\ run.st = "work" /\ wm' = run.next
    BY <1>1, <2>1 DEF ExportInv, AdvanceWatermarks
  <2> QED BY <2>2 DEF Moving
<1> QED BY <1>1, ExportKept, PTL DEF Spec, CapsMoveOn

-----------------------------------------------------------------------------
(* What is in place stays so, and what is promised comes to be in place.    *)

(* A step that leaves rows and watermarks alone, seen one copy at a time.   *)
LEMMA KeptMoves ==
  ASSUME TypeInv, Behind, Promised, UNCHANGED <<row, seen, wm, refolded, passed>>,
         run'.next = run.next, run'.split = run.split,
         \A s \in Sessions : <<"bundles", 0, s>> \in held => <<"bundles", 0, s>> \in held',
         \A s \in Sessions : s \in run.left => <<"bundles", 0, s>> \in held' \/ s \in run'.left,
         \A t \in SessionTables \cup {"events"}, d \in Nat :
           \A c \in Rows(t, d) :
             /\ InPlace(t, d, c[3]) => InPlace(t, d, c[3])'
             /\ Underway(t, d, c[3]) => Underway(t, d, c[3])'
  PROVE  Behind' /\ Promised'
<1>1. ASSUME NEW s \in Sessions, NEW t \in SessionTables, NEW d \in Nat, d = row[s].day
      PROVE  /\ InPlace(t, d, s) => InPlace(t, d, s)'
             /\ Underway(t, d, s) => Underway(t, d, s)'
  <2>1. <<t, d, s>> \in Rows(t, d)
    BY <1>1, ExportAssumption DEF Rows
  <2>2. <<t, d, s>>[3] = s
    OBVIOUS
  <2> QED BY <2>1, <2>2
<1>2. ASSUME NEW e \in Stored, NEW d \in Nat, d = DayOf(seen[e])
      PROVE  /\ InPlace("events", d, e) => InPlace("events", d, e)'
             /\ Underway("events", d, e) => Underway("events", d, e)'
  <2>1. <<"events", d, e>> \in Rows("events", d)
    BY <1>2 DEF Rows
  <2>2. <<"events", d, e>>[3] = e
    OBVIOUS
  <2> QED BY <2>1, <2>2
<1>3. /\ \A s \in Sessions : row[s].day \in Nat /\ row'[s] = row[s]
      /\ \A e \in Stored : DayOf(seen[e]) \in Nat /\ seen'[e] = seen[e]
      /\ Stored' = Stored
      /\ \A s \in Sessions : Owed(s)' = Owed(s) /\ Owed(s) \subseteq SessionTables
  BY RowTypes, DayBounds DEF Stored, Owed, Stale
<1>4. ASSUME NEW s \in Sessions \ passed', Exists(s)', row'[s].at <= wm'.sessions
      PROVE  /\ s \in refolded' \/ <<"bundles", 0, s>> \in held'
             /\ \A t \in Owed(s)' : InPlace(t, row[s].day, s)'
  <2> DEFINE d == row[s].day
  <2>1. /\ s \in refolded \/ <<"bundles", 0, s>> \in held
        /\ \A t \in Owed(s) : InPlace(t, d, s)
    BY <1>3, <1>4 DEF Behind, Exists
  <2>2. PICK k \in Nat : k = row[s].day
    BY <1>3
  <2>3. \A t \in Owed(s) : InPlace(t, k, s)'
    BY <1>1, <1>3, <2>1, <2>2
  <2>4. k = row'[s].day
    BY <1>3, <2>2
  <2> QED BY <1>3, <2>1, <2>2, <2>3, <2>4 DEF InPlace
<1>5. ASSUME NEW s \in Sessions \ (passed' \cup run'.split),
             Exists(s)', row'[s].at <= run'.next.sessions
      PROVE  /\ s \in refolded' \/ <<"bundles", 0, s>> \in held' \/ s \in run'.left
             /\ \A t \in Owed(s)' : Underway(t, row[s].day, s)'
  <2> DEFINE d == row[s].day
  <2>1. /\ s \in refolded \/ <<"bundles", 0, s>> \in held \/ s \in run.left
        /\ \A t \in Owed(s) : Underway(t, d, s)
    BY <1>3, <1>5 DEF Promised, Exists
  <2>2. PICK k \in Nat : k = row[s].day
    BY <1>3
  <2>3. \A t \in Owed(s) : Underway(t, k, s)'
    BY <1>1, <1>3, <2>1, <2>2
  <2>4. k = row'[s].day
    BY <1>3, <2>2
  <2> QED BY <1>3, <2>1, <2>2, <2>3, <2>4 DEF Underway
<1>6. ASSUME NEW e \in Stored', seen'[e] <= wm'.events
      PROVE  InPlace("events", DayOf(seen[e]), e)'
  <2>1. PICK k \in Nat : k = DayOf(seen[e])
    BY <1>3
  <2>2. InPlace("events", k, e)
    BY <1>3, <1>6, <2>1 DEF Behind
  <2>3. InPlace("events", k, e)'
    BY <1>2, <1>3, <2>1, <2>2
  <2>4. k = DayOf(seen'[e])
    BY <1>3, <2>1
  <2> QED BY <2>3, <2>4 DEF InPlace
<1>7. ASSUME NEW e \in Stored', seen'[e] <= run'.next.events
      PROVE  Underway("events", DayOf(seen[e]), e)'
  <2>1. PICK k \in Nat : k = DayOf(seen[e])
    BY <1>3
  <2>2. Underway("events", k, e)
    BY <1>3, <1>7, <2>1 DEF Promised
  <2>3. Underway("events", k, e)'
    BY <1>2, <1>3, <2>1, <2>2
  <2>4. k = DayOf(seen'[e])
    BY <1>3, <2>1
  <2> QED BY <2>3, <2>4 DEF Underway
<1>8. Behind'
  BY <1>4, <1>6 DEF Behind
<1>9. Promised'
  BY <1>5, <1>7 DEF Promised
<1> QED BY <1>8, <1>9

(* A step that leaves what the two properties speak of.                     *)
LEMMA KeptStays ==
  ASSUME Behind, Promised, UNCHANGED <<row, seen, wm, held, file, flying, run, refolded, passed>>
  PROVE  Behind' /\ Promised'
<1>1. Behind'
  BY DEF Behind, InPlace, Exists, Stored, Owed, Stale
<1>2. Promised'
  BY DEF Promised, Underway, Exists, Stored, Owed, Stale
<1> QED BY <1>1, <1>2

(* A commit: what it stamps is in front of every watermark.                 *)
LEMMA KeptCommits ==
  ASSUME ExportInv, Behind, Promised, NEW w \in Writers, Commit(w)
  PROVE  Behind' /\ Promised'
<1>1. TypeInv /\ Paced /\ tx[w] # 0
  BY CommitIs DEF ExportInv
<1>2. PICK b \in Batches : Commits(w, b)
  BY <1>1, CommitIs
<1>3. /\ tx[w] \in Nat /\ tx[w] > wm.sessions /\ tx[w] > wm.events
      /\ tx[w] > run.next.sessions /\ tx[w] > run.next.events
      /\ wm.sessions \in Nat /\ wm.events \in Nat
      /\ run.next.sessions \in Nat /\ run.next.events \in Nat
  BY <1>1, OpenAhead, RowTypes
<1>4. UNCHANGED <<wm, flying, run>>
  BY <1>2 DEF Commits
<1>5. ASSUME NEW s \in Sessions, Exists(s)',
             row'[s].at <= wm.sessions \/ row'[s].at <= run.next.sessions
      PROVE  /\ b[s] = 0 /\ row'[s] = row[s] /\ Exists(s) /\ Owed(s)' = Owed(s)
             /\ (s \in refolded' <=> s \in refolded) /\ (s \in passed' <=> s \in passed)
  <2>1. b[s] = 0
    BY <1>2, <1>3, <1>5 DEF Commits
  <2>2. row'[s] = row[s]
    BY <1>2, <2>1 DEF Commits
  <2>3. (s \in refolded' <=> s \in refolded) /\ (s \in passed' <=> s \in passed)
    BY <1>2, <2>1 DEF Commits
  <2>4. Owed(s)' = Owed(s)
    BY <2>3 DEF Owed, Stale
  <2> QED BY <1>5, <2>1, <2>2, <2>3, <2>4 DEF Exists
<1>6. ASSUME NEW s \in Sessions, b[s] = 0, NEW t, NEW d
      PROVE  /\ <<t, d, s>> \in held => <<t, d, s>> \in held'
             /\ <<t, d, s>> \in file => <<t, d, s>> \in file'
  <2>1. <<t, d, s>>[3] = s
    OBVIOUS
  <2> QED BY <1>2, <1>6, <2>1 DEF Commits
<1>7. ASSUME NEW e \in Stored', seen'[e] <= wm.events \/ seen'[e] <= run.next.events
      PROVE  e \in Stored /\ seen'[e] = seen[e]
  BY <1>2, <1>3, <1>7 DEF Commits, Stored
<1>8. ASSUME NEW e, NEW d
      PROVE  /\ <<"events", d, e>> \in held => <<"events", d, e>> \in held'
             /\ <<"events", d, e>> \in file => <<"events", d, e>> \in file'
  <2>1. <<"events", d, e>>[1] = "events"
    OBVIOUS
  <2> QED BY <1>2, <2>1 DEF Commits
<1>9. Behind'
  <2>1. ASSUME NEW s \in Sessions \ passed', Exists(s)', row'[s].at <= wm'.sessions
        PROVE  /\ s \in refolded' \/ <<"bundles", 0, s>> \in held'
               /\ \A t \in Owed(s)' : InPlace(t, row[s].day, s)'
    <3>1. /\ b[s] = 0 /\ row'[s] = row[s] /\ Exists(s) /\ row[s].at <= wm.sessions
          /\ Owed(s)' = Owed(s) /\ (s \in refolded' <=> s \in refolded) /\ s \notin passed
      BY <1>4, <1>5, <2>1
    <3>2. /\ s \in refolded \/ <<"bundles", 0, s>> \in held
          /\ \A t \in Owed(s) : InPlace(t, row[s].day, s)
      BY <3>1 DEF Behind
    <3>3. s \in refolded' \/ <<"bundles", 0, s>> \in held'
      BY <1>6, <3>1, <3>2
    <3>4. ASSUME NEW t \in Owed(s)' PROVE InPlace(t, row[s].day, s)'
      BY <1>4, <1>6, <3>1, <3>2 DEF InPlace
    <3> QED BY <3>3, <3>4
  <2>2. ASSUME NEW e \in Stored', seen'[e] <= wm'.events
        PROVE  InPlace("events", DayOf(seen[e]), e)'
    <3>1. e \in Stored /\ seen'[e] = seen[e] /\ seen[e] <= wm.events
      BY <1>4, <1>7, <2>2
    <3>2. InPlace("events", DayOf(seen[e]), e)
      BY <3>1 DEF Behind
    <3> QED BY <1>4, <1>8, <3>1, <3>2 DEF InPlace
  <2> QED BY <2>1, <2>2 DEF Behind
<1>10. Promised'
  <2>1. ASSUME NEW s \in Sessions \ (passed' \cup run'.split),
               Exists(s)', row'[s].at <= run'.next.sessions
        PROVE  /\ s \in refolded' \/ <<"bundles", 0, s>> \in held' \/ s \in run'.left
               /\ \A t \in Owed(s)' : Underway(t, row[s].day, s)'
    <3>1. /\ b[s] = 0 /\ row'[s] = row[s] /\ Exists(s) /\ row[s].at <= run.next.sessions
          /\ Owed(s)' = Owed(s) /\ (s \in refolded' <=> s \in refolded)
          /\ s \notin passed \cup run.split
      BY <1>4, <1>5, <2>1
    <3>2. /\ s \in refolded \/ <<"bundles", 0, s>> \in held \/ s \in run.left
          /\ \A t \in Owed(s) : Underway(t, row[s].day, s)
      BY <3>1 DEF Promised
    <3>3. s \in refolded' \/ <<"bundles", 0, s>> \in held' \/ s \in run'.left
      BY <1>4, <1>6, <3>1, <3>2
    <3>4. ASSUME NEW t \in Owed(s)' PROVE Underway(t, row[s].day, s)'
      BY <1>4, <1>6, <3>1, <3>2 DEF Underway
    <3> QED BY <3>3, <3>4
  <2>2. ASSUME NEW e \in Stored', seen'[e] <= run'.next.events
        PROVE  Underway("events", DayOf(seen[e]), e)'
    <3>1. e \in Stored /\ seen'[e] = seen[e] /\ seen[e] <= run.next.events
      BY <1>4, <1>7, <2>2
    <3>2. Underway("events", DayOf(seen[e]), e)
      BY <3>1 DEF Promised
    <3> QED BY <1>4, <1>8, <3>1, <3>2 DEF Underway
  <2> QED BY <2>1, <2>2 DEF Promised
<1> QED BY <1>9, <1>10

(* A fold: what it makes anew of a session, that session does not owe.      *)
LEMMA KeptRefolds ==
  ASSUME ExportInv, Behind, Promised, NEW q \in Sessions, Refold(q)
  PROVE  Behind' /\ Promised'
<1> DEFINE outdated == {c \in held \cup file : c[3] = q /\ c[1] \in Folded \cup {"bundles"}}
<1>1. /\ held' = held \ outdated /\ file' = file \ outdated /\ refolded' = refolded \cup {q}
      /\ UNCHANGED <<row, seen, wm, flying, run, passed>>
  BY DEF Refold
<1>2. ASSUME NEW s, NEW t, NEW d, s # q \/ t \notin Folded \cup {"bundles"}
      PROVE  /\ <<t, d, s>> \in held => <<t, d, s>> \in held'
             /\ <<t, d, s>> \in file => <<t, d, s>> \in file'
  <2>1. <<t, d, s>>[3] = s /\ <<t, d, s>>[1] = t
    OBVIOUS
  <2> QED BY <1>1, <1>2, <2>1
<1> HIDE DEF outdated
<1>3. ASSUME NEW s \in Sessions
      PROVE  /\ s \in refolded' \/ s # q
             /\ s \in refolded => s \in refolded'
             /\ Owed(s)' \subseteq Owed(s)
             /\ \A t \in Owed(s)' : s # q \/ t \notin Folded \cup {"bundles"}
  <2>1. (s \in refolded' \/ s # q) /\ (s \in refolded => s \in refolded')
    BY <1>1
  <2>2. "bundles" \notin SessionTables
    BY ExportAssumption
  <2> QED BY <2>1, <2>2 DEF Owed, Stale
<1>4. "events" \notin Folded \cup {"bundles"}
  BY ExportAssumption
<1>5. Behind'
  <2>1. ASSUME NEW s \in Sessions \ passed', Exists(s)', row'[s].at <= wm'.sessions
        PROVE  /\ s \in refolded' \/ <<"bundles", 0, s>> \in held'
               /\ \A t \in Owed(s)' : InPlace(t, row[s].day, s)'
    <3>1. /\ s \in refolded \/ <<"bundles", 0, s>> \in held
          /\ \A t \in Owed(s) : InPlace(t, row[s].day, s)
      BY <1>1, <2>1 DEF Behind, Exists
    <3>2. s \in refolded' \/ <<"bundles", 0, s>> \in held'
      BY <1>2, <1>3, <3>1
    <3>3. ASSUME NEW t \in Owed(s)' PROVE InPlace(t, row[s].day, s)'
      <4>1. InPlace(t, row[s].day, s)
        BY <1>3, <3>1
      <4>2. s # q \/ t \notin Folded \cup {"bundles"}
        BY <1>3
      <4> QED BY <1>1, <1>2, <4>1, <4>2 DEF InPlace
    <3> QED BY <3>2, <3>3
  <2>2. ASSUME NEW e \in Stored', seen'[e] <= wm'.events
        PROVE  InPlace("events", DayOf(seen[e]), e)'
    <3>1. InPlace("events", DayOf(seen[e]), e)
      BY <1>1, <2>2 DEF Behind, Stored
    <3> QED BY <1>1, <1>2, <1>4, <3>1 DEF InPlace
  <2> QED BY <2>1, <2>2 DEF Behind
<1>6. Promised'
  <2>1. ASSUME NEW s \in Sessions \ (passed' \cup run'.split),
               Exists(s)', row'[s].at <= run'.next.sessions
        PROVE  /\ s \in refolded' \/ <<"bundles", 0, s>> \in held' \/ s \in run'.left
               /\ \A t \in Owed(s)' : Underway(t, row[s].day, s)'
    <3>1. /\ s \in refolded \/ <<"bundles", 0, s>> \in held \/ s \in run.left
          /\ \A t \in Owed(s) : Underway(t, row[s].day, s)
      BY <1>1, <2>1 DEF Promised, Exists
    <3>2. s \in refolded' \/ <<"bundles", 0, s>> \in held' \/ s \in run'.left
      BY <1>1, <1>2, <1>3, <3>1
    <3>3. ASSUME NEW t \in Owed(s)' PROVE Underway(t, row[s].day, s)'
      <4>1. Underway(t, row[s].day, s)
        BY <1>3, <3>1
      <4>2. s # q \/ t \notin Folded \cup {"bundles"}
        BY <1>3
      <4> QED BY <1>1, <1>2, <4>1, <4>2 DEF Underway
    <3> QED BY <3>2, <3>3
  <2>2. ASSUME NEW e \in Stored', seen'[e] <= run'.next.events
        PROVE  Underway("events", DayOf(seen[e]), e)'
    <3>1. Underway("events", DayOf(seen[e]), e)
      BY <1>1, <2>2 DEF Promised, Stored
    <3> QED BY <1>1, <1>2, <1>4, <3>1 DEF Underway
  <2> QED BY <2>1, <2>2 DEF Promised
<1> QED BY <1>5, <1>6

(* Without a position to be, nothing is promised.                           *)
LEMMA NothingPromised ==
  ASSUME TypeInv, UNCHANGED <<row, seen>>, run'.next.sessions = 0, run'.next.events = 0
  PROVE  Promised'
<1>1. \A s \in Sessions : Exists(s) => row[s].at \in Nat /\ row[s].at # 0
  BY RowTypes DEF TypeInv, Exists
<1>2. \A e \in Stored : seen[e] \in Nat /\ seen[e] # 0
  BY RowTypes DEF Stored
<1>3. \A s \in Sessions : ~(Exists(s)' /\ row'[s].at <= run'.next.sessions)
  BY <1>1 DEF Exists
<1>4. \A e \in Stored' : ~(seen'[e] <= run'.next.events)
  BY <1>2 DEF Stored
<1> QED BY <1>3, <1>4 DEF Promised

LEMMA KeptStarts ==
  ASSUME ExportInv, Behind, Start
  PROVE  Behind' /\ Promised'
<1>1. TypeInv
  BY DEF ExportInv
<1>2. /\ run' = [NoRun EXCEPT !.st = "sessions", !.floor = Later(0, clock - Margin)]
      /\ flying' = {} /\ UNCHANGED <<row, seen, wm, held, refolded, passed>>
  BY DEF Start, history
<1>3. run'.next.sessions = 0 /\ run'.next.events = 0
  BY <1>2 DEF NoRun
<1>4. Promised'
  BY <1>1, <1>2, <1>3, NothingPromised
<1>5. Behind'
  BY <1>2 DEF Behind, InPlace, Exists, Stored, Owed, Stale
<1> QED BY <1>4, <1>5

(* A run that ends before its time; a load that ends in error takes only    *)
(* its own object.                                                          *)
LEMMA KeptEnds ==
  ASSUME ExportInv, Behind, run' = NoRun, UNCHANGED <<row, seen, wm, held, refolded, passed>>,
         \/ UNCHANGED <<file, flying>>
         \/ \E p \in flying : flying' = flying \ {p} /\ file' = file \ Of(p, file)
  PROVE  Behind' /\ Promised'
<1>1. TypeInv
  BY DEF ExportInv
<1>2. run'.next.sessions = 0 /\ run'.next.events = 0
  BY DEF NoRun
<1>3. Promised'
  BY <1>1, <1>2, NothingPromised
<1>4. ASSUME NEW t, NEW d, NEW x, InPlace(t, d, x) PROVE InPlace(t, d, x)'
  <2>1. CASE UNCHANGED <<file, flying>>
    BY <1>4, <2>1 DEF InPlace
  <2>2. ASSUME NEW p \in flying, flying' = flying \ {p}, file' = file \ Of(p, file)
        PROVE  InPlace(t, d, x)'
    <3>1. p \in Partitions
      BY Types DEF ExportInv
    <3>2. <<t, d>> # p => <<t, d, x>> \notin Of(p, file)
      BY <3>1 DEF Partitions, Of
    <3> QED BY <1>4, <2>2, <3>2 DEF InPlace
  <2> QED BY <2>1, <2>2
<1>5. /\ \A s \in Sessions : Exists(s)' /\ row'[s].at <= wm'.sessions =>
            Exists(s) /\ row[s].at <= wm.sessions /\ row'[s] = row[s]
      /\ \A e \in Stored' : seen'[e] <= wm'.events =>
            e \in Stored /\ seen[e] <= wm.events /\ seen'[e] = seen[e]
  BY DEF Exists, Stored
<1>6. /\ \A s \in Sessions, t \in SessionTables :
           InPlace(t, row[s].day, s) => InPlace(t, row[s].day, s)'
      /\ \A e \in Stored : InPlace("events", DayOf(seen[e]), e) => InPlace("events", DayOf(seen[e]), e)'
  <2>1. \A s \in Sessions, t \in SessionTables :
           InPlace(t, row[s].day, s) => InPlace(t, row[s].day, s)'
    <3> SUFFICES ASSUME NEW s \in Sessions, NEW t \in SessionTables, NEW d, d = row[s].day,
                        InPlace(t, d, s)
                 PROVE  InPlace(t, row[s].day, s)'
      OBVIOUS
    <3>1. InPlace(t, d, s)'
      BY <1>4
    <3> QED BY <3>1 DEF InPlace
  <2>2. \A e \in Stored : InPlace("events", DayOf(seen[e]), e) => InPlace("events", DayOf(seen[e]), e)'
    <3> SUFFICES ASSUME NEW e \in Stored, NEW d, d = DayOf(seen[e]), InPlace("events", d, e)
                 PROVE  InPlace("events", DayOf(seen[e]), e)'
      OBVIOUS
    <3>1. InPlace("events", d, e)'
      BY <1>4
    <3> QED BY <3>1 DEF InPlace
  <2> QED BY <2>1, <2>2
<1>7. Behind'
  <2>1. \A s \in Sessions : Owed(s)' = Owed(s) /\ Owed(s) \subseteq SessionTables
    BY DEF Owed, Stale
  <2> QED BY <1>5, <1>6, <2>1 DEF Behind
<1> QED BY <1>3, <1>7

(* The plan promises what the run takes: what lies between the old position *)
(* and the new one. What lies behind the old one is in place.               *)
LEMMA PlannedSessions ==
  ASSUME ExportInv, Behind, PlanTheSessions
  PROVE  Behind' /\ Promised'
<1>1. TypeInv /\ Paced /\ Staged
  BY DEF ExportInv
<1>2. PICK p : /\ p = planSessions(wm.sessions, run.floor)
               /\ run' = [run EXCEPT !.st = "events", !.left = p.included,
                                     !.split = p.split, !.next.sessions = p.to,
                                     !.todo = SessionTables \X DaysOf(p.included)]
  BY DEF PlanTheSessions
<1>3. /\ run.st = "sessions" /\ UNCHANGED <<row, seen, wm, held, file, flying, refolded, passed>>
      /\ run \in RunState /\ run.floor \in Times /\ run.next \in [sessions : Times, events : Times]
  BY <1>1, Types, RunIs DEF PlanTheSessions, history
<1>4. wm.sessions <= run.floor /\ flying = {} /\ run.next.events = 0
  BY <1>1, <1>3 DEF Paced, Staged, NoRun
<1>5. /\ run'.left = p.included /\ run'.todo = SessionTables \X DaysOf(p.included)
      /\ run'.next.sessions = p.to /\ run'.next.events = 0 /\ run'.split = p.split
  BY <1>2, <1>3, <1>4 DEF RunState
<1>6. Behind' /\ \A s \in Sessions : Owed(s)' = Owed(s) /\ Owed(s) \subseteq SessionTables
  BY <1>3 DEF Behind, InPlace, Exists, Stored, Owed, Stale
<1>7. ASSUME NEW s \in Sessions \ (passed \cup p.split), Exists(s), row[s].at <= p.to
      PROVE  /\ s \in refolded \/ <<"bundles", 0, s>> \in held' \/ s \in run'.left
             /\ \A t \in Owed(s) : Underway(t, row[s].day, s)'
  <2>1. CASE row[s].at <= wm.sessions
    <3>1. /\ s \in refolded \/ <<"bundles", 0, s>> \in held
          /\ \A t \in Owed(s) : <<t, row[s].day, s>> \in held
      BY <1>7, <2>1 DEF Behind, InPlace
    <3> QED BY <1>3, <1>4, <3>1 DEF Underway
  <2>2. CASE ~(row[s].at <= wm.sessions)
    <3>1. s \in Touched
      BY <1>1, <1>7, <2>2, RowTypes DEF Touched
    <3>2. s \in p.included
      BY <1>1, <1>2, <1>3, <1>4, <1>7, <3>1, SessionsCovered
    <3>3. row[s].day \in DaysOf(p.included)
      BY <3>2 DEF DaysOf
    <3>4. \A t \in SessionTables : <<t, row[s].day>> \in run'.todo
      BY <1>5, <3>3
    <3> QED BY <1>3, <1>5, <1>6, <3>2, <3>4 DEF Underway
  <2> QED BY <2>1, <2>2
<1>8. \A e \in Stored' : ~(seen'[e] <= run'.next.events)
  <2>1. \A e \in Stored : seen[e] \in Nat /\ seen[e] # 0
    BY <1>1, RowTypes DEF Stored
  <2> QED BY <1>3, <1>5, <2>1 DEF Stored
<1>9. Promised'
  <2>1. ASSUME NEW s \in Sessions \ (passed' \cup run'.split),
               Exists(s)', row'[s].at <= run'.next.sessions
        PROVE  /\ s \in refolded' \/ <<"bundles", 0, s>> \in held' \/ s \in run'.left
               /\ \A t \in Owed(s)' : Underway(t, row[s].day, s)'
    <3>1. Exists(s) /\ row[s].at <= p.to /\ s \notin passed \cup p.split
      BY <1>3, <1>5, <2>1 DEF Exists
    <3> QED BY <1>3, <1>6, <1>7, <3>1
  <2> QED BY <1>8, <2>1 DEF Promised
<1> QED BY <1>6, <1>9

LEMMA PlannedEvents ==
  ASSUME ExportInv, Behind, Promised, PlanTheEvents
  PROVE  Behind' /\ Promised'
<1>1. TypeInv /\ Paced /\ Staged
  BY DEF ExportInv
<1>2. PICK p : /\ p = planDays(wm.events, run.floor)
               /\ run' = [run EXCEPT !.st = "work", !.next.events = p.to,
                                     !.todo = run.todo \cup ({"events"} \X p.days)]
  BY DEF PlanTheEvents
<1>3. /\ run.st = "events" /\ UNCHANGED <<row, seen, wm, held, file, flying, refolded, passed>>
      /\ run \in RunState /\ run.floor \in Times /\ run.next \in [sessions : Times, events : Times]
  BY <1>1, Types, RunIs DEF PlanTheEvents, history
<1>4. wm.events <= run.floor /\ DayOf(run.floor) = DayOf(clock) /\ flying = {}
  BY <1>1, <1>3 DEF Paced, Staged
<1>5. /\ run'.left = run.left /\ run'.todo = run.todo \cup ({"events"} \X p.days)
      /\ run'.next.sessions = run.next.sessions /\ run'.next.events = p.to
      /\ run'.split = run.split
  BY <1>2, <1>3 DEF RunState
<1>6. Behind' /\ \A s \in Sessions : Owed(s)' = Owed(s)
  BY <1>3 DEF Behind, InPlace, Exists, Stored, Owed, Stale
<1>7. ASSUME NEW s \in Sessions \ (passed' \cup run'.split),
             Exists(s)', row'[s].at <= run'.next.sessions
      PROVE  /\ s \in refolded' \/ <<"bundles", 0, s>> \in held' \/ s \in run'.left
             /\ \A t \in Owed(s)' : Underway(t, row[s].day, s)'
  <2>1. /\ s \in refolded \/ <<"bundles", 0, s>> \in held \/ s \in run.left
        /\ \A t \in Owed(s) : Underway(t, row[s].day, s)
    BY <1>3, <1>5, <1>7 DEF Promised, Exists
  <2> QED BY <1>3, <1>5, <1>6, <2>1 DEF Underway
<1>8. ASSUME NEW e \in Stored', seen'[e] <= run'.next.events
      PROVE  Underway("events", DayOf(seen[e]), e)'
  <2>1. e \in Stored /\ seen[e] <= p.to /\ seen'[e] = seen[e]
    BY <1>3, <1>5, <1>8 DEF Stored
  <2>2. CASE seen[e] <= wm.events
    <3>1. <<"events", DayOf(seen[e]), e>> \in held
      BY <2>1, <2>2 DEF Behind, InPlace
    <3> QED BY <1>3, <1>4, <2>1, <3>1 DEF Underway
  <2>3. CASE ~(seen[e] <= wm.events)
    <3>1. seen[e] > wm.events
      BY <1>1, <2>1, <2>3, RowTypes DEF Stored
    <3>2. DayOf(seen[e]) \in p.days
      BY <1>1, <1>2, <1>3, <1>4, <2>1, <3>1, EventsPlan
    <3>3. <<"events", DayOf(seen'[e])>> \in run'.todo
      BY <1>5, <2>1, <3>2
    <3> QED BY <3>3 DEF Underway
  <2> QED BY <2>2, <2>3
<1>9. Promised'
  BY <1>7, <1>8 DEF Promised
<1> QED BY <1>6, <1>9

(* A partition is written, loaded; a bundle is written.                     *)
LEMMA KeptExports ==
  ASSUME ExportInv, Behind, Promised, NEW p \in run.todo, ExportPartition(p)
  PROVE  Behind' /\ Promised'
<1>1. TypeInv /\ run \in RunState
  BY Types DEF ExportInv
<1>2. /\ p \in Partitions /\ run'.todo = run.todo \ {p}
      /\ run'.next = run.next /\ run'.left = run.left /\ run'.split = run.split
  BY <1>1, PartitionIs
<1>3. /\ file' = (file \ Of(p, file)) \cup Rows(p[1], p[2]) /\ flying' = flying \cup {p}
      /\ UNCHANGED <<row, seen, wm, held, refolded, passed>>
  BY DEF ExportPartition, history
<1>4. ASSUME NEW t \in SessionTables \cup {"events"}, NEW d \in Nat, NEW c \in Rows(t, d)
      PROVE  /\ InPlace(t, d, c[3]) => InPlace(t, d, c[3])'
             /\ Underway(t, d, c[3]) => Underway(t, d, c[3])'
  <2>1. PICK x : c = <<t, d, x>>
    BY DEF Rows
  <2>2. c[3] = x /\ c[1] = t /\ c[2] = d
    BY <2>1
  <2>3. CASE <<t, d>> = p
    <3>1. p[1] = t /\ p[2] = d
      BY <2>3
    <3>2. <<t, d, x>> \in file' /\ <<t, d>> \in flying'
      BY <1>3, <1>4, <2>1, <2>3, <3>1
    <3> QED BY <1>3, <2>2, <3>2 DEF InPlace, Underway
  <2>4. CASE <<t, d>> # p
    <3>1. <<t, d, x>> \notin Of(p, file)
      BY <1>2, <2>4 DEF Of, Partitions
    <3>2. /\ <<t, d, x>> \in file => <<t, d, x>> \in file'
          /\ <<t, d>> \in flying' <=> <<t, d>> \in flying
          /\ <<t, d>> \in run.todo => <<t, d>> \in run'.todo
      BY <1>2, <1>3, <2>4, <3>1
    <3> QED BY <1>3, <2>2, <3>2 DEF InPlace, Underway
  <2> QED BY <2>3, <2>4
<1> QED BY <1>1, <1>2, <1>3, <1>4, KeptMoves

LEMMA KeptLands ==
  ASSUME ExportInv, Behind, Promised, NEW p \in flying, Landed(p)
  PROVE  Behind' /\ Promised'
<1>1. TypeInv /\ p \in Partitions
  BY Types DEF ExportInv
<1>2. /\ held' = (held \ Of(p, held)) \cup Of(p, file) /\ flying' = flying \ {p}
      /\ file' = file \ Of(p, file) /\ UNCHANGED <<row, seen, wm, run, refolded, passed>>
  BY DEF Landed, history
<1>3. p[1] # "bundles"
  BY <1>1, ExportAssumption DEF Partitions
<1>4. \A s \in Sessions : <<"bundles", 0, s>> \in held => <<"bundles", 0, s>> \in held'
  BY <1>2, <1>3 DEF Of
<1>5. ASSUME NEW t \in SessionTables \cup {"events"}, NEW d \in Nat, NEW c \in Rows(t, d)
      PROVE  /\ InPlace(t, d, c[3]) => InPlace(t, d, c[3])'
             /\ Underway(t, d, c[3]) => Underway(t, d, c[3])'
  <2>1. PICK x : c = <<t, d, x>>
    BY DEF Rows
  <2>2. c[3] = x
    BY <2>1
  <2>3. CASE <<t, d>> = p
    <3>1. p[1] = t /\ p[2] = d /\ <<t, d>> \in flying /\ <<t, d>> \notin flying'
      BY <1>2, <2>3
    <3>2. <<t, d, x>> \in file => <<t, d, x>> \in held'
      BY <1>2, <3>1 DEF Of
    <3> QED BY <1>2, <2>2, <3>1, <3>2 DEF InPlace, Underway
  <2>4. CASE <<t, d>> # p
    <3>1. <<t, d, x>> \notin Of(p, file) /\ <<t, d, x>> \notin Of(p, held)
      BY <1>1, <2>4 DEF Of, Partitions
    <3>2. /\ <<t, d, x>> \in file <=> <<t, d, x>> \in file'
          /\ <<t, d, x>> \in held <=> <<t, d, x>> \in held'
          /\ <<t, d>> \in flying' <=> <<t, d>> \in flying
      BY <1>2, <2>4, <3>1
    <3> QED BY <1>2, <2>2, <3>2 DEF InPlace, Underway
  <2> QED BY <2>3, <2>4
<1> QED BY <1>1, <1>2, <1>4, <1>5, KeptMoves

LEMMA KeptBundles ==
  ASSUME ExportInv, Behind, Promised, NEW s \in run.left, ExportBundle(s)
  PROVE  Behind' /\ Promised'
<1>1. TypeInv /\ run \in RunState
  BY Types DEF ExportInv
<1>2. /\ run'.todo = run.todo /\ run'.next = run.next
      /\ run'.left = run.left \ {s} /\ run'.split = run.split
  BY <1>1, BundleIs
<1>3. /\ held' = held \cup {<<"bundles", 0, s>>}
      /\ UNCHANGED <<row, seen, wm, file, flying, refolded, passed>>
  BY DEF ExportBundle, history
<1>4. \A q \in Sessions : q \in run.left => <<"bundles", 0, q>> \in held' \/ q \in run'.left
  BY <1>2, <1>3
<1>5. ASSUME NEW t, NEW d, NEW x
      PROVE  /\ InPlace(t, d, x) => InPlace(t, d, x)'
             /\ Underway(t, d, x) => Underway(t, d, x)'
  BY <1>2, <1>3 DEF InPlace, Underway
<1>6. \A t \in SessionTables \cup {"events"}, d \in Nat :
        \A c \in Rows(t, d) :
          /\ InPlace(t, d, c[3]) => InPlace(t, d, c[3])'
          /\ Underway(t, d, c[3]) => Underway(t, d, c[3])'
  <2> TAKE t \in SessionTables \cup {"events"}, d \in Nat
  <2> TAKE c \in Rows(t, d)
  <2> DEFINE x == c[3]
  <2>1. PICK y : y = x
    OBVIOUS
  <2>2. /\ InPlace(t, d, y) => InPlace(t, d, y)'
        /\ Underway(t, d, y) => Underway(t, d, y)'
    BY <1>5
  <2> QED BY <2>1, <2>2 DEF InPlace, Underway
<1> QED BY <1>1, <1>2, <1>3, <1>4, <1>6, KeptMoves

(* The watermarks move when all that was promised is in place.              *)
LEMMA KeptAdvances ==
  ASSUME ExportInv, Promised, AdvanceWatermarks
  PROVE  Behind' /\ Promised'
<1>1. TypeInv
  BY DEF ExportInv
<1>2. /\ run.todo = {} /\ run.left = {} /\ flying = {} /\ wm' = run.next /\ run' = NoRun
      /\ passed' = passed \cup {s \in run.split : row[s].at <= run.next.sessions}
      /\ UNCHANGED <<row, seen, held, file, flying, refolded>>
  BY DEF AdvanceWatermarks
<1>3. run'.next.sessions = 0 /\ run'.next.events = 0
  BY <1>2 DEF NoRun
<1>4. Promised'
  BY <1>1, <1>2, <1>3, NothingPromised
<1>5. ASSUME NEW s \in Sessions \ passed', Exists(s)', row'[s].at <= wm'.sessions
      PROVE  /\ s \in refolded' \/ <<"bundles", 0, s>> \in held'
             /\ \A t \in Owed(s)' : InPlace(t, row[s].day, s)'
  <2>1. s \notin passed \cup run.split /\ Exists(s) /\ row[s].at <= run.next.sessions
    BY <1>2, <1>5 DEF Exists
  <2>2. /\ s \in refolded \/ <<"bundles", 0, s>> \in held
        /\ \A t \in Owed(s) : Underway(t, row[s].day, s)
    BY <1>2, <2>1 DEF Promised
  <2>3. Owed(s)' = Owed(s)
    BY <1>2 DEF Owed, Stale
  <2> QED BY <1>2, <2>2, <2>3 DEF Underway, InPlace
<1>6. ASSUME NEW e \in Stored', seen'[e] <= wm'.events
      PROVE  InPlace("events", DayOf(seen[e]), e)'
  <2>1. e \in Stored /\ Underway("events", DayOf(seen[e]), e)
    BY <1>2, <1>6 DEF Promised, Stored
  <2> QED BY <1>2, <2>1 DEF Underway, InPlace
<1>7. Behind'
  BY <1>5, <1>6 DEF Behind
<1> QED BY <1>4, <1>7

LEMMA KeptStep ==
  ASSUME ExportInv, KeptInv, [Next]_vars
  PROVE  KeptInv'
<1>1. Behind /\ Promised
  BY DEF KeptInv
<1>2. ASSUME NEW s \in Sessions, Refold(s) PROVE KeptInv'
  BY <1>1, <1>2, KeptRefolds DEF KeptInv
<1>3. CASE Tick \/ (\E w \in Writers : Begin(w)) \/ UNCHANGED vars
  <2>1. UNCHANGED <<row, seen, wm, held, file, flying, run, refolded, passed>>
    BY <1>3 DEF Tick, Begin, vars, history
  <2> QED BY <1>1, <2>1, KeptStays DEF KeptInv
<1>4. ASSUME NEW w \in Writers, Commit(w) PROVE KeptInv'
  BY <1>1, <1>4, KeptCommits DEF KeptInv
<1>5. CASE Start
  BY <1>1, <1>5, KeptStarts DEF KeptInv
<1>6. CASE PlanTheSessions
  BY <1>1, <1>6, PlannedSessions DEF KeptInv
<1>7. CASE PlanTheEvents
  BY <1>1, <1>7, PlannedEvents DEF KeptInv
<1>8. ASSUME NEW p \in run.todo, ExportPartition(p) PROVE KeptInv'
  BY <1>1, <1>8, KeptExports DEF KeptInv
<1>9. ASSUME NEW p \in flying, Landed(p) PROVE KeptInv'
  BY <1>1, <1>9, KeptLands DEF KeptInv
<1>10. ASSUME NEW p \in flying, LoadFails(p) PROVE KeptInv'
  <2>1. /\ run' = NoRun /\ UNCHANGED <<row, seen, wm, held, refolded, passed>>
        /\ flying' = flying \ {p} /\ file' = file \ Of(p, file)
    BY <1>10 DEF LoadFails, history
  <2> QED BY <1>1, <1>10, <2>1, KeptEnds DEF KeptInv
<1>11. ASSUME NEW s \in run.left, ExportBundle(s) PROVE KeptInv'
  BY <1>1, <1>11, KeptBundles DEF KeptInv
<1>12. CASE GiveUp
  <2>1. run' = NoRun /\ UNCHANGED <<row, seen, wm, held, file, flying, refolded, passed>>
    BY <1>12 DEF GiveUp, history
  <2> QED BY <1>1, <2>1, KeptEnds DEF KeptInv
<1>13. CASE AdvanceWatermarks
  BY <1>1, <1>13, KeptAdvances DEF KeptInv
<1> QED BY <1>2, <1>3, <1>4, <1>5, <1>6, <1>7, <1>8, <1>9, <1>10, <1>11, <1>12, <1>13 DEF Next

LEMMA KeptInit == Init => KeptInv
<1> SUFFICES ASSUME Init PROVE KeptInv
  OBVIOUS
<1>1. Behind /\ Promised
  BY DEF Init, Behind, Promised, Exists, Stored, NoRun
<1> QED BY <1>1 DEF KeptInv

(* Every session behind its watermark is in the warehouse as it is now, save *)
(* the turns a fold made anew without a stamp and what a plan had to leave   *)
(* behind of a tie; every event is there (planSessions, planDays, Run,       *)
(* ExportAdvanceWatermarks): whatever commits late, moves to another day,    *)
(* fails to load or is given up in between, and whatever the caps are.       *)
THEOREM SkipsNothing == Spec => []NothingSkipped
<1>1. KeptInv => NothingSkipped
  BY DEF KeptInv, Behind, Owed, InPlace, NothingSkipped
<1>2. KeptInv /\ ExportInv /\ [Next]_vars => KeptInv'
  BY KeptStep
<1>3. Spec => []KeptInv
  BY <1>2, KeptInit, ExportKept, PTL DEF Spec
<1> QED BY <1>1, <1>3, PTL
=============================================================================
