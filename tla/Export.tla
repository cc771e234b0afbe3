------------------------------- MODULE Export -------------------------------
\* The hourly export (server/export, server/store/export_reads.go): a run reads
\* the database clock and its watermarks, plans in one look at the touched
\* rows, rewrites whole day partitions and session bundles, and moves the
\* watermarks only when every load landed. Beside it, transactions stamp
\* sessions.updated_at and events.ingested_at with the instant they BEGIN and
\* become visible when they commit.
\*
\* What a file or a partition holds is a set of triples <<table, day, key>>: the
\* copies of a session that still equal the rows they were made from, and the
\* events that are there at all. A commit that changes a session's rows takes
\* its copies out, whether or not it stamps the session. The health_hourly
\* stream is left out.
EXTENDS Integers, FiniteSets, FiniteSetsExt

CONSTANTS
    Sessions,           \* session ids, a set of numbers: their order breaks ties
    StartDays,          \* session -> the days its events may give as its start
    Events,             \* events, numbers in the order they are uploaded
    SessionTables,      \* the tables partitioned by the session's start day
    Place,              \* their order within a day
    Folded,             \* those of them a fold rewrites: turns, messages
    Writers,            \* transactions open at once
    MaxBatch,           \* most sessions one transaction stamps
    MaxSessions, MaxSessionDays, MaxEventDays,   \* Options
    Margin,             \* how far behind the clock a complete run stops
    DayLength,          \* instants in a day
    RunsAt,             \* instants of the day at which a run is started
    MaxTime, MaxTx      \* model bounds: the last instant, transactions and folds

Later(a, b) == IF a >= b THEN a ELSE b
DayOf(t) == t \div DayLength
Days == UNION {StartDays[s] : s \in Sessions}
Times == 0 .. MaxTime

\* The margin outlasts every transaction (Stands below), and a run starts late
\* enough in the day that the margin does not reach into the day before: the
\* job is scheduled at seven minutes past the hour, the margin is five.
ASSUME ExportAssumption ==
    /\ Sessions \subseteq Nat /\ IsFiniteSet(Sessions)
    /\ Events \subseteq Nat /\ IsFiniteSet(Events)
    /\ \A s \in Sessions : StartDays[s] \subseteq Nat \ {0}
    /\ SessionTables \cap {"events", "bundles"} = {} /\ Folded \subseteq SessionTables
    /\ MaxBatch \in Nat /\ MaxTime \in Nat
    /\ {MaxSessions, MaxSessionDays, MaxEventDays, Margin, DayLength} \subseteq Nat \ {0}
    /\ RunsAt \subseteq Margin .. DayLength - 1

VARIABLES
    clock,      \* the database's clock
    begun,      \* transactions and folds begun (bounded by MaxTx)
    tx,         \* open transactions: when they began (0: none)
    row,        \* sessions: started_at's day (0: no row) and updated_at
    seen,       \* events: ingested_at (0: no row)
    wm,         \* export_watermarks
    held,       \* copies in the warehouse and the bucket's bundles
    file,       \* copies in the partition objects still to be loaded
    flying,     \* load jobs started and not ended
    run,        \* the run in progress
    refolded,   \* history: sessions folded after a copy, without a stamp since
    passed      \* history: sessions a plan left behind at a tie, since theirs

history == <<refolded, passed>>
vars == <<clock, begun, tx, row, seen, wm, held, file, flying, run, history>>

NoRun == [st |-> "idle", floor |-> 0, next |-> [sessions |-> 0, events |-> 0],
          todo |-> {}, left |-> {}, split |-> {}]

Init ==
    /\ clock = 0 /\ begun = 0 /\ tx = [w \in Writers |-> 0]
    /\ row = [s \in Sessions |-> [day |-> 0, at |-> 0]]
    /\ seen = [e \in Events |-> 0]
    /\ wm = [sessions |-> 0, events |-> 0]
    /\ held = {} /\ file = {} /\ flying = {} /\ run = NoRun
    /\ refolded = {} /\ passed = {}

-----------------------------------------------------------------------------
\* The database.

Exists(s) == row[s].day # 0
Stored == {e \in Events : seen[e] # 0}

\* No transaction stays open for as long as the margin.
Stands(t) == \A w \in Writers : tx[w] # 0 => t < tx[w] + Margin

\* A run has RunBudget, less than is left of its hour: what it plans it plans on
\* the day it starts.
InTime(t) == run.st \in {"sessions", "events"} => DayOf(t) = DayOf(clock)

Tick ==
    /\ clock < MaxTime /\ Stands(clock + 1) /\ InTime(clock + 1)
    /\ clock' = clock + 1
    /\ UNCHANGED <<begun, tx, row, seen, wm, held, file, flying, run, history>>

Unsent == {e \in Events : seen[e] = 0}
Batches ==
    {b \in [Sessions -> Days \cup {0}] :
        /\ \A s \in Sessions : b[s] \in StartDays[s] \cup {0}
        /\ Cardinality({s \in Sessions : b[s] # 0}) \in 1 .. MaxBatch}

Single(b) == Cardinality({s \in Sessions : b[s] # 0}) = 1
NextEvent == {e \in Unsent : \A x \in Unsent : e <= x}

\* A transaction begins at an instant of its own.
Begin(w) ==
    /\ tx[w] = 0 /\ begun < MaxTx
    /\ clock < MaxTime /\ Stands(clock + 1) /\ InTime(clock + 1)
    /\ clock' = clock + 1 /\ begun' = begun + 1
    /\ tx' = [tx EXCEPT ![w] = clock + 1]
    /\ UNCHANGED <<row, seen, wm, held, file, flying, run, history>>

\* An upload of a session, with the next event, or a batch of the derive runner
\* over several commits: the rows show the instant it began, started_at only
\* ever moves to an earlier day, and the copies made of them are out of date.
\* (One that rolls back leaves nothing, as if it had not begun.)
Commit(w) ==
    /\ tx[w] # 0
    /\ \E b \in Batches :
        LET outdated == {c \in held \cup file : c[1] # "events" /\ b[c[3]] # 0}
        IN /\ row' = [s \in Sessions |->
                IF b[s] = 0 THEN row[s]
                ELSE [at |-> tx[w], day |-> IF Exists(s) THEN Min({row[s].day, b[s]}) ELSE b[s]]]
           /\ seen' = [e \in Events |-> IF Single(b) /\ e \in NextEvent THEN tx[w] ELSE seen[e]]
           /\ held' = held \ outdated /\ file' = file \ outdated
           /\ refolded' = {s \in refolded : b[s] = 0}
           /\ passed' = {s \in passed : b[s] = 0}
    /\ tx' = [tx EXCEPT ![w] = 0]
    /\ UNCHANGED <<clock, begun, wm, flying, run>>

\* A fold rewrites a session's turns, the roles of its events and what they
\* supersede. If no counter, no class and no title of the session comes out
\* different, it leaves updated_at alone. (If one does, it is a Commit; and one
\* of which there is no copy yet changes nothing here.)
Refold(s) ==
    /\ begun < MaxTx
    /\ LET outdated == {c \in held \cup file : c[3] = s /\ c[1] \in Folded \cup {"bundles"}}
       IN outdated # {} /\ held' = held \ outdated /\ file' = file \ outdated
    /\ begun' = begun + 1 /\ refolded' = refolded \cup {s}
    /\ UNCHANGED <<clock, tx, row, seen, wm, flying, run, passed>>

-----------------------------------------------------------------------------
\* planSessions and planDays.

\* ExportPlan's rows, in the order (updated_at, session_id).
Touched == {s \in Sessions : Exists(s) /\ row[s].at > wm.sessions}
Before(s) == {q \in Touched : row[q].at < row[s].at \/ (row[q].at = row[s].at /\ q < s)}
DaysOf(S) == {row[s].day : s \in S}

\* A row the run has no room for: one session, or one start day, too many.
TooMany(s) == \/ Cardinality(Before(s)) >= MaxSessions
              \/ Cardinality(DaysOf(Before(s) \cup {s})) > MaxSessionDays
Cut == {s \in Touched : TooMany(s) /\ \A q \in Before(s) : ~TooMany(q)}

\* Cut at row c: the rows strictly before c's instant and the floor, up to the
\* last of them; if there are none because all carry c's instant, the rows up
\* to the cut, past the tie, and the rest of the tie is left behind (tieSplit;
\* mutants: the rows up to the cut; the old position kept).
Strictly(c, floor) == {s \in Before(c) : row[s].at < Min({row[c].at, floor})}
PlanToCut(c, old, floor) ==
    [included |-> Before(c), to |-> Max({row[s].at : s \in Before(c)}), split |-> {}]
PlanKeepsOld(c, old, floor) == [included |-> Strictly(c, floor), to |-> old, split |-> {}]
PlanCut(c, old, floor) ==
    LET taken == Strictly(c, floor)
    IN IF taken # {}
       THEN [included |-> taken, to |-> Max({row[s].at : s \in taken}), split |-> {}]
       ELSE IF row[c].at < floor
       THEN [included |-> Before(c), to |-> row[c].at,
             split |-> {s \in Touched \ Before(c) : row[s].at = row[c].at}]
       ELSE [included |-> {}, to |-> old, split |-> {}]
planSessions(old, floor) ==
    IF Cut = {} THEN [included |-> Touched, to |-> Later(old, floor), split |-> {}]
    ELSE PlanCut(CHOOSE c \in Cut : TRUE, old, floor)

\* The first MaxEventDays days, up to the last instant of the last of them; all
\* of them, up to the floor.
NewDays == {DayOf(seen[e]) : e \in {x \in Stored : seen[x] > wm.events}}
DayEnd(d) == (d + 1) * DayLength - 1
planDays(old, floor) ==
    LET first == {d \in NewDays : Cardinality({q \in NewDays : q <= d}) <= MaxEventDays}
    IN [days |-> first,
        to |-> IF first = NewDays THEN Later(old, floor) ELSE DayEnd(Max(first))]

-----------------------------------------------------------------------------
\* A run.

\* The clock and the watermarks. What an earlier run left in flight has ended.
Start ==
    /\ run.st = "idle" /\ clock % DayLength \in RunsAt
    /\ run' = [NoRun EXCEPT !.st = "sessions", !.floor = Later(0, clock - Margin)]
    /\ flying' = {} /\ file' = {}
    /\ UNCHANGED <<clock, begun, tx, row, seen, wm, held, history>>

\* ExportPlan reads at READ COMMITTED: the sessions first,
PlanTheSessions ==
    /\ run.st = "sessions"
    /\ LET p == planSessions(wm.sessions, run.floor)
       IN run' = [run EXCEPT !.st = "events", !.left = p.included, !.split = p.split,
                             !.next.sessions = p.to,
                             !.todo = SessionTables \X DaysOf(p.included)]
    /\ UNCHANGED <<clock, begun, tx, row, seen, wm, held, file, flying, history>>

\* then the event days.
PlanTheEvents ==
    /\ run.st = "events"
    /\ LET p == planDays(wm.events, run.floor)
       IN run' = [run EXCEPT !.st = "work", !.next.events = p.to,
                             !.todo = @ \cup ({"events"} \X p.days)]
    /\ UNCHANGED <<clock, begun, tx, row, seen, wm, held, file, flying, history>>

\* The rows of one table and day, as COPY finds them (mutant: the sessions by
\* the day they were last touched).
RowsByTouch(t, d) == {<<t, d, x>> : x \in IF t = "events" THEN {e \in Stored : DayOf(seen[e]) = d}
                                          ELSE {s \in Sessions : DayOf(row[s].at) = d}}
Rows(t, d) == {<<t, d, x>> : x \in IF t = "events" THEN {e \in Stored : DayOf(seen[e]) = d}
                                   ELSE {s \in Sessions : row[s].day = d}}
Of(p, C) == {c \in C : c[1] = p[1] /\ c[2] = p[2]}

\* exportPartition and the start of its load: day by day, table by table, the
\* events last.
Ahead(p, q) == IF p[1] = "events" \/ q[1] = "events"
               THEN q[1] = "events" /\ (p[1] # "events" \/ p[2] < q[2])
               ELSE p[2] < q[2] \/ (p[2] = q[2] /\ Place[p[1]] < Place[q[1]])
ExportPartition(p) ==
    /\ run.st = "work" /\ p \in run.todo /\ \A q \in run.todo : ~Ahead(q, p)
    /\ file' = (file \ Of(p, file)) \cup Rows(p[1], p[2])
    /\ flying' = flying \cup {p}
    /\ run' = [run EXCEPT !.todo = @ \ {p}]
    /\ UNCHANGED <<clock, begun, tx, row, seen, wm, held, history>>

\* WRITE_TRUNCATE: the partition holds what the object holds, once the job is
\* done, whether or not the run still waits for it. No load reads another's
\* partition, so they end in the order they began.
Landed(p) ==
    /\ p \in flying /\ \A q \in flying : ~Ahead(q, p)
    /\ held' = (held \ Of(p, held)) \cup Of(p, file)
    /\ flying' = flying \ {p} /\ file' = file \ Of(p, file)
    /\ UNCHANGED <<clock, begun, tx, row, seen, wm, run, history>>

\* A job ends in error, and the run that waits for it fails, once the others
\* have ended too. When it failed is seen by nobody before the wait.
LoadFails(p) ==
    /\ p \in flying /\ \A q \in flying : ~Ahead(q, p)
    /\ run.st = "idle" \/ (run.st = "work" /\ run.todo = {} /\ run.left = {})
    /\ flying' = flying \ {p} /\ file' = file \ Of(p, file)
    /\ run' = NoRun
    /\ UNCHANGED <<clock, begun, tx, row, seen, wm, held, history>>

\* exportBundles, once every partition is written. No bundle reads another's
\* session, so the two workers' are written one after the other.
ExportBundle(s) ==
    /\ run.st = "work" /\ run.todo = {} /\ s \in run.left /\ s = Min(run.left)
    /\ held' = held \cup {<<"bundles", 0, s>>}
    /\ run' = [run EXCEPT !.left = @ \ {s}]
    /\ UNCHANGED <<clock, begun, tx, row, seen, wm, file, flying, history>>

\* An error of the database or the bucket, the run budget, a killed job.
GiveUp ==
    /\ run.st # "idle"
    /\ run' = NoRun
    /\ UNCHANGED <<clock, begun, tx, row, seen, wm, held, file, flying, history>>

\* Every load has landed: the watermarks move, together.
AdvanceWatermarks ==
    /\ run.st = "work" /\ run.todo = {} /\ run.left = {} /\ flying = {}
    /\ wm' = run.next
    /\ run' = NoRun /\ passed' = passed \cup {s \in run.split : row[s].at <= run.next.sessions}
    /\ UNCHANGED <<clock, begun, tx, row, seen, held, file, flying, refolded>>

Next ==
    \/ Tick
    \/ \E w \in Writers : Begin(w) \/ Commit(w)
    \/ \E s \in Sessions : Refold(s)
    \/ Start \/ PlanTheSessions \/ PlanTheEvents
    \/ \E p \in run.todo : ExportPartition(p)
    \/ \E p \in flying : Landed(p) \/ LoadFails(p)
    \/ \E s \in run.left : ExportBundle(s)
    \/ GiveUp \/ AdvanceWatermarks

Spec == Init /\ [][Next]_vars

-----------------------------------------------------------------------------
\* Properties.

TypeOK ==
    /\ clock \in Times
    /\ tx \in [Writers -> Times]
    /\ row \in [Sessions -> [day : Days \cup {0}, at : Times]]
    /\ seen \in [Events -> Times]
    /\ wm \in [sessions : Times, events : Times]
    /\ \A c \in held \cup file :
        \/ c[1] = "events" /\ c[3] \in Stored /\ c[2] = DayOf(seen[c[3]])
        \/ c[1] = "bundles" /\ c[3] \in Sessions
        \/ c[1] \in SessionTables /\ c[3] \in Sessions /\ c[2] = row[c[3]].day
    /\ flying \subseteq (SessionTables \cup {"events"}) \X Nat
    /\ run.st \in {"idle", "sessions", "events", "work"} /\ run.floor \in Times
    /\ refolded \subseteq Sessions /\ passed \subseteq Sessions

\* Every session behind the watermark is in the warehouse as it is now: all its
\* tables, in the partition of the day it starts on, and its bundle; and every
\* event behind its own in the partition of its day. What committed late,
\* moved to an earlier day or changed while a file was copied is in front of
\* the watermark, where the next run takes it again. Two exceptions: what a
\* fold made anew without a stamp since the session's last one, and the
\* sessions at one instant that a plan had to leave behind (tieSplit).
Stale(s) == IF s \in refolded THEN Folded ELSE {}
NothingSkipped ==
    /\ \A s \in Sessions \ passed : Exists(s) /\ row[s].at <= wm.sessions =>
        /\ s \in refolded \/ <<"bundles", 0, s>> \in held
        /\ \A t \in SessionTables \ Stale(s) : <<t, row[s].day, s>> \in held
    /\ \A e \in Stored : seen[e] <= wm.events => <<"events", DayOf(seen[e]), e>> \in held

\* The same without the exceptions, as the comment of planSessions has it: every
\* session with updated_at in (old, new] had its partition rewritten.
EveryRowIsCurrent ==
    \A s \in Sessions : Exists(s) /\ row[s].at <= wm.sessions =>
        /\ <<"bundles", 0, s>> \in held
        /\ \A t \in SessionTables : <<t, row[s].day, s>> \in held

\* A run that succeeds moves past something: however the caps cut it, a stream
\* with rows older than the margin is further on than before.
CapsMoveOn ==
    [][AdvanceWatermarks =>
        /\ (\E s \in Touched : row[s].at < run.floor) => wm'.sessions > wm.sessions
        /\ (\E e \in Stored : seen[e] > wm.events /\ seen[e] < run.floor)
                => wm'.events > wm.events]_vars
=============================================================================
