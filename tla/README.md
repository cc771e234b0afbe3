# Specifications of agent-sessions

This directory holds TLA+ models of `loop-sessions`, the runs that check them with
TLC and the theorems TLAPS proves about them. Half of it covers the client: what
happens to a captured event between the hook that saw it and the server that stores
it, and the processes that carry it. The other half covers the server's transactions
and loops: what an upload writes, what is derived from it by passes on several
instances, what is told in Slack and what is exported.

Run a check from this directory with `tlc -config MCOutboxSafe.cfg MCOutbox` and a
proof with `tlapm OutboxProofs.tla`. `PROJECT.json` lists the runs, the lines of
source each definition models, a seeded bug per property, the hazards and the
findings.

## 1. The system

`loop-sessions` is two programs. The client runs on a laptop as many short processes
that share directories and never talk to each other:

| component | state it keeps | operations | who calls it |
|---|---|---|---|
| spool (`internal/spool`) | `pending/`, `quarantine/`, `parked/` (one file per item, counters inside), `state.json` | Add, Lease, Ack, Undecided, Quarantine, Redrive, Quarantined, State, Record | hooks, recovery, importers add; delivery cycles lease; daemons and operators redrive |
| drain and delivery (`internal/drain`, `deliver.go`) | `.delivery.lock` | one cycle: lease a batch, send it, apply the answer item by item | every session's daemon, the importer, `flush`; an operator's `doctor replay` beside them |
| session daemon (`internal/daemon`, `main.go`, `restart.go`, `reap.go`) | per session `<id>.json`, `<id>.ended`, `<id>.lock` | claim, run, beat, finalize, restart in place on a new build; reconcile and reap the daemons of other sessions | a prompt's hook starts it; a SessionStart reconciles |
| capture hooks (`hook.go`, `internal/capture`) | per session `<id>.inflight/` markers, `<id>.captured` ledger, `<id>.seq` | one run per harness event: marker, translate, scrub, spool, ledger, clear, start a daemon | the harness, which kills hooks at teardown |
| recovery (`recover.go`) | the same markers and ledger, the harness's transcript | diff the transcript with the ledger, spool what is missing, clear the markers | the daemon at its end, any SessionStart |
| importer, repair (`backfill.go`, `repair.go`, `internal/backfill`) | a resume journal | walk old transcripts into the spool, paced | the user, the daemon once a day |
| self-upgrade, enrolment, health, discovery, config, hook installation | the binary, the credential, stamps | on timers of the daemon | |
| normalize, scrub, event, pipeline | none | pure functions on the way into the spool | |

The server (`server/...`) is one program over Postgres (READ COMMITTED), in several
instances that share nothing else:

| component | state it keeps | operations | who calls it |
|---|---|---|---|
| ingest, store (`ingest`, `store/store.go`, `turns.go`, `artifacts.go`) | `sessions`, `events`, `usage_ledger`, turns, artifacts | `UpsertEvents`; the fold of a session; the rebuild of its artifacts | devices' uploads; the derive runner |
| derive runner (`store/runner.go`, `store/skills.go`, `app.go`) | `derive_dirty`, `derived_schema`, `derive_jobs`, `skill_rederive_queue`, one advisory lock | the dirty pass every 30 s, the versioned pass after a deploy, the drain of the skill queue | a loop of each instance |
| retention (`store/retention.go`) | none of its own | expire bodies, delete sessions | a loop of each instance |
| Slack mirror (`slack`) | `slack_posts`, `slack_prefs`, `slack_groups`, `session_mirrors`, `mirror_request` | a sweep a minute: promote, advance threads, digest; each message claimed, posted, settled | a loop of each instance; people, through API and Slack |
| export (`export`, `store/export_reads.go`) | `export_watermarks`, objects, day partitions | one run an hour | a scheduled job |
| fleet, skill usage | hourly rollups, external reports | on timers | a loop of each instance |
| auth, admin, API, web, composition root | none, or rows of their own | request-local | people and devices |

The behaviours that make the client hard:

* **Every actor is its own process over a shared directory.** There is no
  process-wide mutex; a rename is the only atomic step. A hook adds and evicts while
  a cycle holds the same files leased; a redrive moves files back while a cycle
  moves them out.
* **Anything may be killed anywhere**: a hook by the teardown of its harness, a
  daemon by SIGKILL, the machine by a power loss (nothing is fsynced).
* **Requests fail halfway**: stored and not answered, answered for a part of the
  batch, answered with neither acceptance nor rejection.
* **Liveness of other processes is guessed** from pids, which are reused, from
  heartbeats, which go stale over a suspend, and from locks, which a probe takes for
  an instant.
* **Nothing is driven by a central clock**: recovery runs when another session
  happens to start.

And the server:

* **A transaction's reads and its commit are apart**: rows change between a fold's
  read and its lock, a rebuild's scan and its delete, a candidate's selection and
  its post.
* **`now()` is the instant a transaction begins**, and it becomes visible when it
  commits: what is behind a watermark may still be on its way.
* **Instances overlap and die**, with a pass half done; a deploy runs the old and
  the new one side by side.
* **Slack and BigQuery are not in the transaction**: a message may be said and its
  record lost, a load may fail after others landed.
* **Work is cut**: by budgets, batches, caps and retries, each with a place to
  resume from that must not be ahead of the work.

What makes each component correct:

* spool and delivery: an event that Add accepted is on disk until the server has
  stored its key, or is lost by a named decision; quarantine and parking are earned;
  no item waits for ever behind another; one cycle at a time.
* `state.json`: it is a note, not the data, and may lose updates, but it must not
  invent any, and must survive a crash.
* daemon: one per session; gone after the session's end although the harness lives
  on; back after the next prompt; a session is closed for a reason that is true;
  what a dead daemon left is closed by somebody.
* capture and recovery: what a killed hook lost is in the transcript and comes back,
  the ledger vouches only for what was spooled, and no marker is cleared over a
  loss.
* store: a transcript is one person's; repeats, re-walks and forks are priced and
  counted once; a clean session is derived from all it stores; no upload waits for
  ever.
* derive runner: what a cursor has passed is derived, or owed to somebody who comes
  back; a stamp is earned; a session that always fails holds up nobody.
* mirror: a message is said once, or once per claim when a sender dies; a reply is
  in its thread; nobody is told what was not meant for them.
* export: what is behind a watermark is in the warehouse, as it is now.

## 2. The modules

| module | models | extends / instantiates |
|---|---|---|
| `Outbox` | hooks, delivery cycles, redrives, replays and the server over one spool directory | |
| `OutboxContract` | what the outbox promises, without files or processes | instantiated by `Outbox` as `Contract` |
| `OutboxProofs` | theorems about both | extends `Outbox`, TLAPS |
| `SpoolState` | `state.json` and its one temp name, by inode | |
| `SpoolStateProofs` | its theorems | |
| `SessionDaemon` | the daemons of one session, its state file, lock and end marker, the hooks that start them and the visitors that reap them | |
| `SessionDaemonProofs` | its theorems | |
| `HookCapture` | one session's hooks, markers and ledger, and the recovery passes over its transcript | |
| `HookCaptureProofs` | its theorems | |
| `SessionStore` | uploads, the dirty pass, the artifacts' rebuild and retention on one database | |
| `StoreContract` | what the store promises, without transactions, locks, flags or instances | instantiated by `SessionStore` as `Contract` |
| `SessionStoreProofs` | theorems about both | |
| `DeriveJobs` | the versioned derive pass on several instances, and what runs beside it | |
| `DeriveJobsProofs` | its theorems | |
| `Mirror` | the Slack sweep on several instances, the people's choices and the sessions' growth | |
| `MirrorContract` | what the mirror promises about one message, without instances, sweeps or leases | instantiated by `Mirror` as `Contract` |
| `MirrorProofs` | theorems about both | |
| `Export` | the hourly export beside transactions that commit late | |
| `ExportProofs` | its theorems | |
| `MC*` | values for TLC | extend the module of their name |

### Outbox

The unit of atomicity is one file operation, because each process may be killed
between two. A file is its base name `<ms>-<id>.json`; names are numbers in the
order of their prefix and `IdOf` gives the key inside, so that two files with one
key (a record walked twice) can be asked about. `Add` is `TrustEstimate` or `Scan`,
`Evict`, `Admit` or `Overflow`, `WriteTemp`, `Publish`; a cycle is `Lease`, `Answer`
or `NoAnswer`, then per item `Ack`, `Quarantine`, `Rewrite`, `Park` or a
`LocalError`; a redrive is `List`, then per file `ReadHeld`, `SkipHeld`,
`RenameBack`, `RemoveSource`. The server is its answer: any split of the keys sent
into stored, rejected and not named, and it may store without the answer arriving.
`PowerLoss` tears unsynced files and kills every process; temp names stay as they
are. `published`, `evicted`, `orphaned` and `silent` record history for the
properties and steer nothing.

Abstracted: payloads, sizes (an item weighs one unit of the cap), times within
names, the file system's free space.

`OutboxContract` states the promise in four variables: an item is owed from the
moment Add returns; `Release` needs its key stored, `Drop` is a loss by name,
`Revive` a late write-back (delivery is at least once). `Outbox` implements it under
the mapping at the end of its module.

### SpoolState

`mutateState` reads `state.json`, changes the record, writes `state.json.tmp`,
renames it. Every process uses that one temp name, so a second process opens the
same inode, truncates it, or renames it away; the model keeps inodes, the two names,
and each process's open descriptor. `total` and `accepted` record what really
happened.

### SessionDaemon

One session, its harness process (which hosts other sessions and outlives this one,
or dies), `<id>.json` as a record or none, the end marker, the lock, and per pid the
daemon's place: `ClaimSession`, `New`, `Run`'s poll (ended, owner gone), `beat` as a
read and a write, `Finalize`, exit; `watchBinary` and the restart in place that
keeps the pid and gives up the lock across the exec. The visitor is the process of
another session that runs `ReconcileWith` or `StopStale`; its read, its probe of the
lock, its signal and its write are separate steps. The pid of a dead daemon may be
taken by a stranger (`Reused`), and so may the pid of a dead harness
(`ReusedOwners`, `OwnerPidReused`): `processAlive` is a signal 0, which the stranger
answers, so a daemon stays on and a reconciler keeps away until that process has
ended too. A heartbeat may go stale at any time (a suspended laptop). A hook step
clears the end marker and launches a daemon unless the file says one runs.

### HookCapture

A `Story` is the session's transcript: prompts, calls, results, answers and text in
between, each with the id hooks and records share. A hook leaves its marker, spools,
writes its line, removes the marker, and may die or be refused anywhere; the harness
writes the record at its leisure, and dies. A pass reads the transcript, then the
ledger and the markers, then a subagent's file if a settled marker names it, walks
what no line vouches for, records what it emitted and clears the markers that were
settled when it began. Several passes, live hooks and the daemon's end interleave
freely.

The walker logs a file it cannot open, stat or scan and goes on
(internal/backfill/backfill.go:187-191, 856-933), and `recoverMarked` clears its
markers all the same (recover.go:212). `ReadFails` is that: at the main file before
anything is planned, at a subagent's, or in the middle of a walk. What was settled
and not recovered by such a pass is kept in the history `unread`, the exception of
`NeverForgotten` and `LostIsRecovered`; a pass that reads its files has none.

Abstracted: capture is neither paused nor excluded; `Ledger.Sweep` (a ledger
untouched for seven days) is left out; every marker names the transcript; a marker
bears the time of its write; there is one Stop per turn. `Settle` lets a marker
become old only after the harness has written the record or died, which is what
`inflightGrace` is chosen for (recover.go:38); the hook itself may still be alive
then.

### SessionStore

A transaction is cut where another one's commit can change what it goes on to do. An
upload (`Claim`, `Commit`) claims its sessions in id order, each a row lock held to
the end, and then inserts, upgrades by id and by the identity of the record, files
each priced call in the ledger, and adds its increments to the rollups. A fold
(`Tick`) reads the row, then the events, then locks the row and clears
`derive_dirty` only if `updated_at` is the one it read; it passes over a session
that failed (`parked`). A rebuild scans the events, then deletes and inserts. The
sweep expires bodies and deletes sessions whose rows nobody holds. `stamp` is
`updated_at`. Records are named (`RecordOf`), so that a hook's copy, a walk's and a
re-walk's of one record can be told apart; `CallOf` says which model call a record
answers, so that a fork carries a call twice.

`Commit(d, ix)` matches a record under another id only if the process has found the
identity index valid (`ix`, free at every commit). It has not until the runner has
built the index, nor for a minute after it last asked in vain; a new process whose
first read of the catalog fails is in the same place, at any age of the database.
Such an upload stores a re-walked record a second time. The comment at
store.go:1286-1292 foresees that for the time before the index; the history `twins`
holds the rows it happens to, and is the exception of `NoLateTwin`.

Abstracted: bodies and texts, prices (a call costs one), search and skills, the
pages of a fold's read; the wait for a lock is an action that is not enabled. The
store starts empty, so rows stored before their key columns existed, and the
`event_keys` step that fills these, are left out; so is the key an event without one
gets (`event:`, store.go:1895), which makes its call a call of its own.

`StoreContract` states the promise in five variables: the stored copies, a session's
owner, where a call is filed, the copies a session's turns came from and the
sessions that call themselves current. Only a commit is a `Write`, one person's and
atomic; `Derive` may leave a session current only if it was derived from what it
holds at that moment, although the fold read it earlier; `RemoveCopy` and
`RemoveSession` touch only what has outlived its window.

### DeriveJobs

`RunDerive` of an instance from `Wake` to the stamp: seeding the jobs, the steps in
order, a batch (`OpenBatch`, one `WorkSession` each, `CommitBatch`), the fallback to
one session at a time, the skip after its retries, the index steps whose build can
be cut off, `CloseStep` and `CountPending` with `Stamp`. Beside it the dirty pass,
the drain of the skill queue, uploads, deletions, the operator's rerun, and the
window in which bodies may be read.

An upload (`Ingest`) is of a new session or of one already stored, and leaves it
dirty. Its skill derivation may fail; the session is then queued, or, since queueing
is best effort (skills.go:1205-1216), not. `OlderIngest` is an upload served by the
build before the deploy: it derives nothing of the steps that are new in this
version, "and nothing else revisits it" (skills.go:1244-1247). Both take from
`current` what they no longer vouch for. If the step's cursor has the session behind
it already, or a batch in hand may have read it, the loss is put in the history
`forgotten`, beside what a skip dropped; a session ahead of the cursor will be
worked and needs no exception. `crossed` says that a rerun came between two
transactions of one pass (findings 5 and 6).

Abstracted: a session's row is derived by the current rule or not; the keys step
counts sessions as the others do; pauses and budgets are choices.

### Mirror

One statement or one call to Slack is a step. A sweep is `Promote`, then the
candidates of group threads, of the sessions' own threads and of the digest, each
read at once and worked off later from memory: `OpenThread`, `ReadItems`,
`NextReply`, `EndReplies`, `Offer`. A message is `Claim`, `Post`, `Settle`, with a
refusal, a lost answer, a failed statement or a death at each. A message's identity
in Slack (`ts`) is the number of the claim it was posted under, since two posts
never share one. `past` records which room a person had chosen at the end of each
moment, `said` how often a key was said.

Abstracted: texts, blocks, header edits, the floors on age, pacing, the LIMIT of a
selection, the lookup of people (`Unresolved`, `PostFails`).

`MirrorContract` counts, for each key, the claims and the messages: a claim is taken
only of a key that is not settled, a message spends one claim, only what people have
read is settled, and a permanent refusal (`GiveUp`) ends the claims. A claim may be
late, and one spent after another was settled repeats the message: that is the one
way a message is repeated, and `MaxAttempts` bounds it.

### Export

A run reads the clock and the watermarks, plans in one look (`PlanTheSessions`,
`PlanTheEvents`) with the caps, writes the partition objects and loads them
(`ExportPartition`, `Landed`, `LoadFails`), bundles sessions, and moves the
watermarks when everything landed. What a partition, an object or a bundle holds is
a set of triples `<<table, day, key>>`: the copies that still equal the row they
were made from. A transaction stamps its rows with the instant it began (`Commit`);
a commit that changes a row takes the row's copies out, and one that brings an
earlier start moves the session to another day.

A fold rewrites a session's turns, the roles of its events and what they supersede,
and moves `updated_at` only if a counter, a class or a title comes out different
(turns.go:413-447, 603-607, 717; runner.go:1539). One that does is a `Commit`; one
that does not is `Refold`, which takes the copies of the `Folded` tables and the
bundle out and stamps nothing. `refolded` are the sessions this has happened to
since their last stamp, `passed` those a plan left behind at a tie it cut; these two
are the exceptions of `NothingSkipped`, and `EveryRowIsCurrent` is the same without
them.

A run plans on the day it starts (`InTime`): its budget of 28 minutes (`RunBudget`,
export.go:270) ends before the hour it began in does, so midnight never falls
between its start and its plan; once planned it may go on for as long as the clock
does. Each transaction has an instant of its own, as `now()` of the database gives
it at microseconds.

Abstracted: a transaction's content is chosen when it commits; a failed load is seen
at the wait; one run at a time (the job has no retries and runs hourly); the uploads
carry the next event of a session and the larger transactions are the derive
runner's. Left out: the health stream, deletion, upgrades of bodies, and the columns
of an exported event that a fold or an upgrade changes later: the stream of events
is asked only whether an event is there.

## 3. The runs

| run | question | states | result |
|---|---|---|---|
| `outbox_safe` | with a hook, two cycles, a redrive, two files of one key, power losses and kills: is each step one `OutboxContract` allows; is every unnamed loss the redrive's; are quarantine and parking earned; do cycles overlap | 1,278,994 | holds |
| `outbox_live` | without a redrive, is anything published lost; does every file leave `pending/`, whatever stands before it | 40,620 | holds |
| `outbox_redrive_race` | does "nothing is lost until the server has it" hold with a redrive | some 250 | violated |
| `state` | does `state.json` invent a drop or a delivery when two processes share its temp name, may be killed anywhere or run out of disk; does it go back before two updates have overlapped | 648,878 | it does not |
| `daemon_safe` | is there one daemon per session, and is no session closed as left by a harness that runs | 3,696,519 | holds |
| `daemon_live` | with a daemon killed and the harness's pid used again: an ended session's daemon leaves, an abandoned session is closed, a prompted session has a daemon again | 178,296 | holds, the last once probes leave the lock alone |
| `capture_safe` | is a marker ever cleared over a loss, does the ledger ever vouch for what was not spooled | 3,345,298 | never, save what a pass could not read |
| `capture_live` | does a marked loss come back from the transcript | 66,849 | it does, save what a pass could not read |
| `store` | is a transcript one person's, a clean session folded from all it stores, a call priced once; is a record ever stored twice by a re-walk; is every dirty session folded in the end, does every upload end; is each step one `StoreContract` allows | 363,513 | holds; a second row only by a process that has not found the index valid |
| `derive` | is what a cursor passed derived or owed; is a stamp earned; is a finished index valid; does a pass ever undo another's progress | 1,195,805 | holds, with the exceptions its properties name |
| `mirror` | is a key said more often than it was claimed; is every reply in its own thread's room; does a digest reach only who was chosen for it; is each step one `MirrorContract` allows | 2,682,705 | holds |
| `export` | is a session or an event behind its watermark missing or old in the warehouse; does a run that succeeds move on | 2,682,151 | holds, apart from turns folded anew without a stamp and the rest of a cut tie |

Eight configurations besides are not among the runs. Each shows one of the
divergences of section 4 on an instance like its module's run, and TLC finds its
property violated within seconds: `MCSessionDaemonBeat.cfg` (`FinalizedStays`),
`MCSessionDaemonProbe.cfg` (`PromptsWinOverProbes`), `MCSessionStoreRebuild.cfg`
(`ArtifactsComplete`), `MCSessionStoreExpired.cfg` (`ExpiredStaysEmpty`),
`MCSessionStoreTwin.cfg` (`NoSecondRow`), `MCDeriveJobsSkip.cfg`
(`NothingForgotten`), `MCMirrorTwice.cfg` (`SummaryOnce`) and `MCExportTie.cfg`
(`EveryRowIsCurrent`). A ninth, `MCExportThree.cfg`, is the `export` run with three
sessions and one table, so that the cap on sessions cuts a plan too; its properties
hold, over 4.3 million states, and it is kept out of the runs for its time.

### Bounds, and why they are enough

* Outbox: two files (`MaxName`; a name is never reused, so this bounds the run, and
  an Add begins only while a name is left) under a cap of one, so that the second
  Add evicts or finds the first leased. Two are needed for an order, for one file
  evicted under a lease and for a head that blocks; a third adds no new pair. One
  hook, because hooks meet only through the directory, where a second one's file is
  the second name; two cycles for the lock, a redrive or a replay since neither
  takes part in a lock. `BatchSize` 1 makes a head of line, 2 an answer that splits
  a batch. `MaxUndecided` 2 in `outbox_safe` and 3 in `outbox_live` stand for the
  default of 8 (spool.go:262): the counter is written back once or twice before the
  answer that parks, so a copy of it can be stale and a redrive can reset it.
  `SameKey` gives both files one idempotency key. `Tearable` limits which names a
  power loss may tear to one, so a torn file meets a whole one.
* SpoolState: two processes, two drops, two delivery times; the four inodes are the
  file, the temp file and one still open for each process.
* SessionDaemon: two pids (the daemon that dies and the one that follows it, either
  pid reusable by a stranger), two builds and two harnesses in `daemon_safe`; the
  kill and the harness's pid taken by a stranger (`ReusedOwners`) are in
  `daemon_live`, whose liveness needs the room that one build and one harness leave.
  The theorems hold for any `ReusedOwners`. A third release or harness repeats the
  second.
* HookCapture: one visitor beside the daemon's own pass, one fault of a pass or
  daemon, a file that cannot be read among them (hooks die without a bound), a story
  of two records. `Subagent` has the case that lies nearest to a loss, a call whose
  line must not vouch for its result, in a file that only a marker names; `Answer`
  has the text that no hook covers before the one that Stop does.
* SessionStore: two sessions, the second a fork that carries the first's call and
  always fails to fold; one record captured by a hook, walked, and walked again
  under another id by a newer extraction; two laptops of two people with two uploads
  of at most two copies. The deadlock check is off because uploads are bounded: when
  they are spent and every session is folded nothing is left to do.
* DeriveJobs: two sessions in one batch of two (a short batch ends a step, and a
  batch cut after its first session is the case that matters), three steps of the
  three kinds (an index, a fold that the dirty pass redoes, the skills that are new
  in the version and have a queue), one session that always fails the fold.
  `RetryCap` and `SkipCap` 1 for the code's 5 and 5: the last retry and the last
  skip; `MaxSpent` 1: one fault, death, deletion, failed derivation at ingest or
  upload by an older build, and one rerun.
* Mirror: one session of one person with one group, two instances; `Lease` 0 and
  `Quiet` 1 make a claim lapse and a session end within three moments; `MaxAttempts`
  2 is a claim and its repeat, `DailyCap` 1 the cap met at once, `ReplyBatch` 1 the
  oldest first; one fault or edit in a behaviour, of any kind and at any place.
* Export: two sessions, one of which may turn out to have started a day earlier, and
  two events; two transactions open at once, three transactions and folds in all, of
  up to two sessions; `MaxSessionDays` 1 cuts a plan between the sessions, also in a
  tie, and `MaxEventDays` 1 on every backlog. `MaxSessions` 2 cuts only in
  `MCExportThree.cfg`; the theorems cover both caps. Two days of three instants, a
  margin of two that outlasts a transaction, one start a day, so that a run follows
  another that was cut, failed or given up; the clock begins at 0, the first instant
  of a day. The deadlock check is off because time ends.

The proofs of section 5 remove these bounds for every safety property.

### Fairness

* Outbox: a cycle starts again while something is pending and the lock is free
  (`RunOnce` on a ticker in every daemon), a request that is retried is answered in
  the end, a failing file operation succeeds in the end. All three recur (power
  losses and kills come between), hence strong fairness. Without an answering server
  nothing can drain.
* SessionDaemon: a process that can take its next step takes it (WF); a daemon's
  tickers keep firing, so that leaving the loop is taken if it is possible again and
  again although beats intervene (SF); sessions keep being started on the machine
  and each reconciles (SF); a dead process's heartbeat ages (WF). The user,
  releases, kills and the reuse of pids are not assumed. The premise of
  `PromptsRestoreDaemon` says in its own formula that probes stop colliding with the
  start: the code does not retry a claim that met a probe. It shows that prompts
  restart a daemon, not that they do so against probes; `PromptsWinOverProbes` is
  the same without the premise, and does not hold. `OrphanIsClosed` waits for a
  stranger with the harness's pid to end, which is not assumed.
* HookCapture: the harness writes its transcript, hooks and passes that run go on,
  time passes for markers, daemons leave (WF); another session starts again and
  again, so that `recoverMarked` is not missed for ever (SF).
* SessionStore: an upload and a fold that began go on, each instance's dirty loop
  ticks for ever, the rebuild that holds the lock ends (WF each). Nothing makes a
  laptop send. A fold that fails for a passing reason does so `MaxFaults` times.
* SpoolState has no liveness: nothing waits for `state.json`. DeriveJobs claims
  none: two instances that fail a batch in turn and skip in turn may keep each other
  from ending (finding 6). Mirror claims none: after its attempts a message is given
  up by design. Export's progress is `CapsMoveOn`, a property of the step.

Deadlock is checked except in `store` and `export`, where a bound is what stops the
system.

## 4. Findings

1. **A redrive can delete the only copy** (`outbox_redrive_race`, spool.go:719).
   Redrive renames a fresh copy into `pending/` and then unlinks its source. A cycle
   that leases the copy between the two and has it rejected again moves it to the
   very path the redrive unlinks. `LossIsAccounted` proves that this is the only
   unnamed loss.

With a configuration of their own (section 3):

2. **A heartbeat overwrites a finalized state** (daemon.go:484-496). The check and
   the save are two steps; a reaper fits between them, and the dead daemon's file
   reads as live until it goes stale, against the comment at 487 and
   `TestADyingDaemonsHeartbeatNeverOverwritesAFinalizedState`.
3. **A rebuild can delete an artifact it did not scan** (artifacts.go:547). The scan
   is before the row's lock; a batch that commits in between loses its artifact rows
   until the session is rebuilt again.
4. **An expired body can come back** (store.go:1484, 1703). The upgrade of a row
   fills its body without looking at `body_expired_at`.
5. **A skip can drop a session** (runner.go:968). `skipSession` opens its
   transaction through `deriveBatch` and returns nil when another instance holds the
   derive lock or has done the step: nothing is recorded, and the next commit moves
   the cursor past it. The comment at 963 says the session is left dirty. Sessions
   that ingest left without skill rows behind the cursor are in `forgotten` as well
   (skills.go:1205-1216, 1244-1247), but there the comments say so.
6. **The same skip writes the cursor without a comparison**, so it may go back
   behind another instance's work, and two instances can undo each other while a
   session fails; and `resetSkillDeriveStep` (skills.go:1273) takes no derive lock,
   so a rerun asked for between `stampDerived`'s statements is swallowed.
   `NeverBack`, `PassedIsDerived` and `StampIsEarned` name these exceptions.
7. **The warehouse may stay behind a watermark** (`EveryRowIsCurrent`). A cap can
   cut a tie (plan.go:57-60, 99): the comment rules out more sessions under one
   `now()` than the session cap of two thousand, but the runner's batch of fifty
   sessions may start on more days than the other cap, forty, and the plan then
   moves past the tie and leaves sessions behind. And a fold that changes turns and
   what they supersede without a counter, a class or a title leaves `updated_at`
   alone (turns.go:413-447, 603-607; runner.go:1539), so the old turns stay exported
   until the session's next stamp.
8. **A summary is posted twice** (slack/store.go:220). `eligible` looks only at the
   root of the session's own request, and a thread is opened without a look at the
   digests: a session gets a closing reply in a thread and a digest besides, where
   live.go:262 says "the summary is said exactly here".
9. **A prompt's daemon can lose its lock to a probe** (daemon.go:759). A start that
   meets the instant in which a visitor holds the lock to test it exits and is not
   tried again; prompts and probes that keep meeting leave a session without a
   daemon (`PromptsWinOverProbes`).
10. **A record can be stored twice after its index was built** (store.go:1302-1320).
    A new process whose first read of the catalog fails inserts by id for a minute,
    where the comment at 1286-1292 ends that with the runner's steps
    (`NoSecondRow`).

Seen while modelling, without a configuration:

* the client: two processes recording into `state.json` lose an update or take the
  delivery time back (spool.go:590; the comments at 548 and 566 speak of a merge
  that only one process's memory sees); one corrupt file hides the quarantine from a
  replay, since `Quarantined(1)` cuts the listing before it reads (spool.go:453);
  `StopStale` reads the build, probes the lock and then signals, so a daemon that
  restarts in place on the new build in between is killed, although daemon.go:687
  leaves "a live daemon of this build" alone; `ReconcileWith` judges a daemon dead
  and writes later (daemon.go:577, against the "deliberately conservative" of 524);
  a resume's `ClearEnded` can erase the end marker before the daemon's poll has seen
  it (daemon.go:653); a prompt while the old daemon drains in its grace starts a
  daemon that finds the lock held and exits (main.go:172); `drain.Run`'s backoff,
  which src/README.md describes, is not on the path the daemon takes; recovery
  clears markers after a walk that could not read a file (recover.go:212), which
  `unread` records.
* the store: retention.go:580 says that nothing else updates an event, although an
  upgrade does; what keeps the two apart is the session's row lock.
* the mirror: a claim is stamped with the instant its pass began, so a slow pass's
  claim is born old and another instance repeats it without a crash; a thread is
  closed after one batch of replies and while a reply's lease runs, and later
  exchanges are not told; the detach of a session that is flagged "on" falls through
  to a thread of its own; `live_disabled` is not consulted for own threads, where
  migration 0012 says "one switch revokes it everywhere at once"; a session that
  asks for a direct message is narrated where the standing mirror goes; capped
  sessions fill the digest's selection; two instances spend the daily cap each.
* the export: `planDays` may put its watermark past the floor when a run starts
  within the margin after midnight, which only the schedule at :07 avoids, or plans
  after the midnight that follows its start, which `RunBudget` avoids; `started_at`
  moves to an earlier day by LEAST (store.go:2593) and leaves a stale twin in the
  old partition; events changed after their day was exported are not exported again,
  nor are health rollups rewritten a day later.
* the fleet: a health sweep or a tick that fails after its rollup absorbs drops
  outside the window it compares (fleet/runner.go:155).

## 5. Proofs

All are safety and hold for every value of the constants under the module's one
named assumption; TLC checks each statement on the instance of section 3.

| module | theorems | assumption |
|---|---|---|
| `OutboxProofs` | `TypeCorrect`, `LossIsAccounted`, `NoRedriveNoLoss`, `QuarantineIsEvidence`, `ParkingIsEarned`, `CyclesAreExclusive`, `OutboxRefines` | `ConstantsAssumption` |
| `SpoolStateProofs` | `StateTypeCorrect`, `StateInventsNothing`, `StateCrashAtomic`, `StateNeverGoesBack` | `StateAssumption` |
| `SessionDaemonProofs` | `DaemonTypeCorrect`, `OneDaemonPerSession`, `OwnerExitedIsTrue` | `DaemonAssumption` |
| `HookCaptureProofs` | `CaptureTypeCorrect`, `NothingForgotten`, `LedgerIsHonest` | `StoryAssumption` |
| `SessionStoreProofs` | `TypeCorrect`, `OwnersAreOne`, `CleanMeansFolded`, `CostsExact`, `TwinsAreNotBorn`, `StoreRefines` | `StoreAssumption` |
| `DeriveJobsProofs` | `TypeCorrect`, `PassedAreDerived`, `StampEarned`, `IndexesValid`, `JobsNeverGoBack` | `JobsAssumption` |
| `MirrorProofs` | `TypeCorrect`, `RepeatsClaimed`, `RepliesStay`, `AudienceChosen`, `MirrorRefines` | `MirrorAssumption` |
| `ExportProofs` | `TypeCorrect`, `RunsMoveOn`, `SkipsNothing` | `ExportAssumption` |

* **Outbox.** That a file on its way out has been stored is true of the step that
  unlinks it only because of what the cycle remembers, so the invariant adds
  `VerdictTrue` (the verdicts in hand are the server's) and `LockHeld`. Parking
  needs `CopyHonest`: a leased copy's counter is behind the silences given, by one
  when an answer that is silent on it is being applied. `CopyHonest` in turn needs
  the cycles exclusive. The refinement adds `FreshNames` and `OnlyPublished`:
  without them a write-back could be an item the contract never captured. Each step
  maps to `Capture`, `Store`, `Release`, `Drop`, `Revive` or a stutter.
* **SpoolState.** Every record anywhere, in an inode, named or not, or in a
  process's memory, is sound. It is inductive because an update only ever derives a
  record from a sound one, whichever name the inode ends up under. Until two updates
  have overlapped the temp name is never the file's inode, and the content under it
  is not older than the file's.
* **SessionDaemon.** `OneDaemon` follows from "who shadows holds the lock", which
  needs the probe as a holder too. `EndReasonHolds` needs that a process's owner is
  the present harness or an earlier one, and that a harness which is gone does not
  return; a pid that answers for another process only keeps a session open. Both
  hold whatever pids are used again.
* **HookCapture.** `NeverForgotten` speaks of dead hooks and written records; `Kept`
  drops both conditions, since a hook may die and a record be written after the
  marker went. `PassOK` follows one pass: what it will clear was settled when it
  began, it has read as far as those records, its plan holds every one that is not
  in the spool, and at the end they all are, or are in `unread` (`UnreadOK`). The
  step that plans the walk (`DiffCovers`, `DiffOK`) is the heart: the ledger is read
  after the transcript and vouches only for spooled records; a hooked text is its
  turn's last, so it is never passed over; and a subagent's record is read only
  while its marker is there, but where it is not, another pass or its own hook has
  spooled it. `HookLine` and `WalkedLine` say that a line names one record, which
  rests on the distinct ids of `StoryAssumption`.
* **SessionStore.** `ClaimsHold` ties an upload's claimed sessions to its row locks,
  so that an owner read at the claim is the owner at the commit. `FoldsCurrent` is
  the heart of `CleanIsFolded`: if the row's `updated_at` is still the one a fold
  read, then what it read is what the session stores; it needs `StampsPast`, that
  every commit's stamp is new. `TwinsAreNotBorn` follows from the step: with a valid
  index what is inserted has no row of its record, and without one every row
  inserted beside another is among the `twins`. All theorems have the index valid or
  not at each commit. The refinement takes the same facts to the contract:
  `FoldDerives` is `FoldsCurrent` at the fold's commit, and `CommitWrites` shows
  that a transaction whose claims were taken one by one is one write: an owner read
  at a claim still stands (`ClaimsHold`), what it admits lies in the sessions it
  owns, and `VersionGrows` that no stored copy is lost or becomes an older one.
* **DeriveJobs.** `Left` follows one pass: what its batch has left behind it lies
  before the cursor, is in the batch or is good already; `Holds` says that whoever
  is inside a transaction holds the lock and finds the job as it left it. Both are
  needed together at `CommitBatch`, where the cursor moves to the largest session
  worked. `NeverBack` needs `Beyond` besides: the sessions of a batch lie beyond the
  cursor at which it was opened, so whatever prefix of them is worked, the commit
  writes a cursor that is further, as long as the job is still as the transaction
  found it. `Seeded` covers the moment before the ledger exists, when the old
  version's stamp vouches for the old steps. An upload that derives less than the
  current rules takes from `current` only what lies ahead of the cursor, is queued,
  or goes to `forgotten` (`Uploads`); that a batch in hand counts as passed
  (`Listed`) is what keeps `Left`.
* **Mirror.** A candidate in memory stays true: `ThreadOK` says that a root it names
  is in Slack in the room it names, `DigestOK` that its room was the choice of a
  moment that has passed, and neither is undone by anything people or instances do
  later. `Counted`, `Numbered` and `Apart` count messages: each claim of a key has
  its own number, no larger than the attempts, two instances about to post never
  hold one number, and a number is said once. The bound on repeats is the
  cardinality of an interval. It does not depend on the lease. The refinement of
  `MirrorContract` is a count too: the number an instance is about to post is not
  among those that have landed, so fewer have than were claimed (`Unspent`), and
  what it is about to settle has landed (`Spoken`).
* **Export.** `ExportInv` says what each stage of a run knows. `Paced`: no
  watermark, recorded or planned, and no floor is past the clock less the margin,
  and every open transaction began after that, since none lasts as long as the
  margin; so what commits late lands above them all. `Moving`: the plan of a run has
  moved past something if there was anything below its floor (`PlanCases`,
  `EventsPlan`); that is `RunsMoveOn`. `KeptInv` is what makes `NothingSkipped`
  inductive. `Behind`: what the recorded watermarks have passed is in the warehouse
  and in whatever is about to be loaded over it. `Promised`: of what the planned
  watermarks will pass, a copy is still to be made, is in an object on its way, or
  is in the warehouse. Both speak of what a session is `Owed`, all its tables except
  those a fold has made anew since its last stamp; a `Refold` takes out nothing that
  is owed (`KeptRefolds`), and a `Commit` owes everything again, at a stamp above
  every watermark. When a plan is cut, every row up to its new watermark was taken
  or is in the rest of the tie, which a run carries as `split` and `passed` keeps
  once its watermark moves (`SessionsCovered`). Of the caps it is assumed that they
  are positive, of a transaction nothing about how many sessions it stamps.
  `FloorSameDay` carries the assumption on the schedule: a run's floor is of the day
  of its start.

Only model-checked: the liveness properties (`PendingDrains`, `EndedDaemonLeaves`,
`OrphanIsClosed`, `PromptsRestoreDaemon`, `LostIsRecovered`, `DirtyIsFolded`,
`UploadsEnd`), which need fairness and `ENABLED`, beyond these provers. Every
invariant and action property of a passing run is a theorem, and so are the three
refinements. `LostOnlyByRedrive` and `RepeatsAreClaims` follow from a refinement
that a run checks; they are proved, and have no run of their own. `FinalizedStays`,
`PromptsWinOverProbes`, `ArtifactsComplete`, `ExpiredStaysEmpty`, `NoSecondRow`,
`NothingForgotten`, `SummaryOnce` and `EveryRowIsCurrent` do not hold.

## 6. Not modelled

* Pure data: normalizing, scrubbing, parsing of transcripts and JSON, the wire
  format, prices, hook installation in the harness's settings, what a derive step
  computes from a session's events. They are functions of text and the repository
  tests them by example and by fuzzing.
* In the spool, the layout check of `Open`, the sums of `Stats`, the disk guard.
* In the daemon, the timers of upgrade, repair, re-walk and health, and how
  `drainBacklog` paces its cycles.
* In capture, the numbers of `FileSeq`, `Ledger.Sweep`, two Stops under one prompt
  id.
* In the store, search, skills and their report, health rows, source tokens, and
  every read; in the derive runner the contents of the backfills.
* In the mirror, milestones of a thread (`Milestones` is empty in the run and free
  in the proofs), unfurling, slash commands, the directory of people.
* In the export, the health stream, deletions, the cloud clients' retries.
* The importer, the upgrade, enrolment, fleet and the skill usage reconciler. They
  are the plan.
* The read-only API and web pages, the composition root, installers: nothing there
  outlives a request.

Hazards of the modelled parts that no property covers are in `PROJECT.json` with
their reasons. Hazards of the rest, for the modules of the plan: a hook killed in
`.seq.lock` and a full disk under `.seq` (capture.go:505, 516); a power loss that
takes the last event and leaves its ledger line (spool.go:357); two Stops under one
prompt id (recover.go:257); a file journalled once its events are spooled, which the
cap may then evict (backfill.go:418); drops counted across two instances' ticks
(fleet/runner.go:155).

## 7. Plan

In this order; each module gets its run, its mutants and, where it says so, its
theorems.

| module | models | properties | bounds, proofs |
|---|---|---|---|
| `SeqFile` | `.seq` and `.seq.lock`: a hook killed in the lock, a full disk, the fall back to time | one number per event of a session while the disk works; no hook waits for ever | 2 hooks, 3 numbers; proof of uniqueness |
| `CaptureCrash` | `HookCapture` and `Outbox`'s power loss over one directory: files, markers and ledger lines lost separately | what spool.go:357 trades away; two Stops per prompt | story of 2; composes both |
| `Importer` | the journal, pacing against the cap, settle's deadline | a journalled file's events were delivered or dropped by name | 2 files, cap 1; composes with `Outbox` |
| `Upgrade` | stage, verify, rename; daemons and an installer racing; the restart | the binary in place is a whole one, of the newest release seen | 2 daemons, 2 releases; proof |
| `Roster` | enrolment, revocation, a device's queue while its token is refused | no item is dropped for a refused token | 2 devices |
| `Fleet` | health reports on a cadence, one tick per interval over two instances | a drop is counted once; a condition does not flap | 2 instances |
| `SkillUsage` | idempotent reports and limits of the reconciler | a repeated report changes nothing | 2 reports |

Besides: the server of `Outbox` replaced by `StoreContract`, so that an item's
release and its storing meet in one model; `drainBacklog`'s pacing in
`SessionDaemon`, the disk guard in `Outbox`; the health stream and deletions in
`Export`.
