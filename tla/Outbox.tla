------------------------------- MODULE Outbox -------------------------------
(***************************************************************************)
(* The client's durable outbox and everything that touches it:             *)
(*                                                                         *)
(*   hooks      run Spool.Add (internal/spool): capture, recovery, import  *)
(*   drains     run spoolFlusher.RunOnce, one delivery cycle               *)
(*              (cmd/loop-sessions/deliver.go, internal/drain)             *)
(*   redrivers  run Spool.redriveFrom: a daemon starting, or an operator   *)
(*   replayers  run doctorReplay: one quarantined item, sent alone         *)
(*   the server answers a batch item by item (server/ingest)               *)
(*                                                                         *)
(* All of them are separate processes sharing a directory, so the unit of  *)
(* atomicity is one file operation, and every process may be killed        *)
(* between two of them. A file is its base name "<ms>-<id>.json"; names    *)
(* are numbered in the order their millisecond prefix gives them. Payload, *)
(* sizes and clocks are abstracted: an item weighs one unit of the cap.    *)
(***************************************************************************)
EXTENDS Integers, FiniteSets

CONSTANTS
  MaxName,       \* Bound: how many files Add ever names.
  Ids,           \* Idempotency keys.
  IdOf,          \* The key inside each file; a re-walk repeats one.
  Hooks, Drains, Redrivers, Replayers,   \* The processes.
  BatchSize,     \* drain.Options.BatchSize
  MaxUndecided,  \* spool.Options.MaxUndecided
  Cap,           \* spool.Options.MaxBytes, in items
  Tags,          \* reasonTag values a rejection can carry
  Tearable,      \* Bound: the names a power loss may leave unreadable.
  None           \* No process.

Names == 1 .. MaxName

ASSUME ConstantsAssumption ==
  /\ MaxName \in Nat
  /\ IdOf \in [Names -> Ids]
  /\ BatchSize \in Nat \ {0}
  /\ MaxUndecided \in Nat \ {0}
  /\ Cap \in Nat
  /\ Tearable \subseteq Names
  /\ None \notin Drains
  /\ {"corrupt", "none"} \cap Tags = {}

(***************************************************************************)
(* A file outside pending/. The tag is part of its name in quarantine/ and *)
(* absent in parked/; the same base name may stand there under two tags.   *)
(* A file tagged "corrupt" does not parse, every other one does.           *)
(***************************************************************************)
HeldFile == [dir : {"quarantine"}, name : Names, tag : Tags \cup {"corrupt"}]
            \cup [dir : {"parked"}, name : Names, tag : {"none"}]

VARIABLES
  pending,     \* names in pending/
  undecided,   \* the Undecided counter written in a pending file
  torn,        \* names in pending/ whose content does not parse
  held,        \* files in quarantine/ and parked/
  tmp,         \* unpublished ".<name>.tmp" files of Add
  clock,       \* the last name handed out
  hook,        \* per hook: its place in Add
  drain,       \* per drain: its place in the cycle
  lock,        \* the holder of .delivery.lock
  redrive,     \* per redriver
  replay,      \* per replayer
  stored,      \* server: keys durably stored
  refused,     \* server: keys it ever rejected
  silent,      \* history: answers that named the file in neither list
  published,   \* history: names whose Add returned success
  evicted,     \* history: names whose last copy enforceCap removed
  orphaned     \* history: names whose last copy a redrive unlinked

disk    == <<pending, undecided, torn, held, tmp>>
server  == <<stored, refused>>
history == <<silent, published, evicted, orphaned>>
procs   == <<hook, drain, lock, redrive, replay>>
vars    == <<disk, clock, procs, server, history>>

-----------------------------------------------------------------------------
(* Shapes of the process states, and their idle values.                    *)

IdleHook    == [pc |-> "idle", scan |-> {}, total |-> 0, name |-> 0]
IdleDrain   == [pc |-> "idle", batch |-> {}, copy |-> [n \in Names |-> 0],
                acc |-> {}, rej |-> {}]
IdleRedrive == [pc |-> "idle", list |-> {}, cur |-> {}]
IdleReplay  == [pc |-> "idle", cur |-> {}]

HookState    == [pc : {"idle", "scanned", "admitted", "written"},
                 scan : SUBSET Names, total : Int, name : Names \cup {0}]
DrainState   == [pc : {"idle", "sending", "applying"}, batch : SUBSET Names,
                 copy : [Names -> 0 .. MaxUndecided - 1],
                 acc : SUBSET Ids, rej : SUBSET Ids]
RedriveState == [pc : {"idle", "listed", "read", "renamed"},
                 list : SUBSET HeldFile, cur : SUBSET HeldFile]
ReplayState  == [pc : {"idle", "sending", "accepted"}, cur : SUBSET HeldFile]

(* Every process starts idle over an empty spool directory.                *)
Init ==
  /\ pending = {} /\ torn = {} /\ held = {} /\ tmp = {}
  /\ undecided = [n \in Names |-> 0]
  /\ clock = 0
  /\ hook = [h \in Hooks |-> IdleHook]
  /\ drain = [d \in Drains |-> IdleDrain]
  /\ lock = None
  /\ redrive = [r \in Redrivers |-> IdleRedrive]
  /\ replay = [y \in Replayers |-> IdleReplay]
  /\ stored = {} /\ refused = {}
  /\ silent = [n \in Names |-> 0]
  /\ published = {} /\ evicted = {} /\ orphaned = {}

-----------------------------------------------------------------------------
(* Helpers.                                                                *)

(* The k smallest names of S: pendingNames sorted and truncated.           *)
Oldest(S, k) == {n \in S : Cardinality({m \in S : m < n}) < k}

(* The idempotency keys a set of files carries.                            *)
KeysOf(S) == {IdOf[n] : n \in S}

(* The names that stand somewhere in the spool directory.                  *)
HeldNames == {f.name : f \in held}
OnDisk    == pending \cup HeldNames

(* What a directory listing of quarantine/ or parked/ returns.             *)
Listing(dir) == {f \in held : f.dir = dir}

(* Where moveOut puts a pending file.                                      *)
Quarantined(n, tag) == [dir |-> "quarantine", name |-> n, tag |-> tag]
Parked(n)           == [dir |-> "parked", name |-> n, tag |-> "none"]

(* moveOut: one rename, and nothing at all when the source is gone.        *)
MoveOut(n, file) ==
  /\ pending' = pending \ {n}
  /\ torn' = torn \ {n}
  /\ held' = IF n \in pending THEN held \cup {file} ELSE held

(* sweepTemp, run by Open and Lease: temp files old enough are removed. Age *)
(* is abstracted, so any of them may be.                                   *)
SweepTemp == \E swept \in SUBSET tmp : tmp' = tmp \ swept

-----------------------------------------------------------------------------
(* Spool.Add                                                               *)

(* guardDisk passed and the cached byte estimate says the cap is far: no   *)
(* measurement. The estimate is another file's business (lost updates make *)
(* it drift either way), so it may say so at any time. (Bound: an Add begins *)
(* only while there is a name left for its file.)                          *)
TrustEstimate(h) ==
  /\ hook[h].pc = "idle" /\ clock < MaxName
  /\ hook' = [hook EXCEPT ![h].pc = "admitted"]
  /\ SweepTemp
  /\ UNCHANGED <<pending, undecided, torn, held, clock, drain, lock, redrive,
                 replay, server, history>>

(* enforceCap measures pending/ for real: a listing and its total.         *)
Scan(h) ==
  /\ hook[h].pc = "idle" /\ clock < MaxName
  /\ hook' = [hook EXCEPT ![h] = [pc |-> "scanned", scan |-> pending,
                                  total |-> Cardinality(pending), name |-> 0]]
  /\ SweepTemp
  /\ UNCHANGED <<pending, undecided, torn, held, clock, drain, lock, redrive,
                 replay, server, history>>

(* The total still exceeds the cap: remove the next name of the listing.   *)
(* A file somebody else removed since is not subtracted from the total.    *)
Evict(h) ==
  /\ hook[h].pc = "scanned"
  /\ hook[h].total + 1 > Cap
  /\ \E n \in Oldest(hook[h].scan, 1) :
       /\ pending' = pending \ {n}
       /\ torn' = torn \ {n}
       /\ evicted' = evicted \cup (({n} \cap pending) \ HeldNames)
       /\ hook' = [hook EXCEPT ![h] =
            [pc |-> "scanned", scan |-> @.scan \ {n}, name |-> 0,
             total |-> IF n \in pending THEN @.total - 1 ELSE @.total]]
  /\ UNCHANGED <<undecided, held, tmp, clock, drain, lock, redrive, replay,
                 server, silent, published, orphaned>>

(* The incoming item fits.                                                 *)
Admit(h) ==
  /\ hook[h].pc = "scanned"
  /\ hook[h].total + 1 <= Cap
  /\ hook' = [hook EXCEPT ![h] = [IdleHook EXCEPT !.pc = "admitted"]]
  /\ UNCHANGED <<disk, clock, drain, lock, redrive, replay, server, history>>

(* Nothing left to remove and still no room: Add fails, nothing is written.*)
Overflow(h) ==
  /\ hook[h].pc = "scanned"
  /\ hook[h].total + 1 > Cap
  /\ hook[h].scan = {}
  /\ hook' = [hook EXCEPT ![h] = IdleHook]
  /\ UNCHANGED <<disk, clock, drain, lock, redrive, replay, server, history>>

(* The name is taken from the clock and the temp file written.             *)
WriteTemp(h) ==
  /\ hook[h].pc = "admitted"
  /\ clock < MaxName
  /\ clock' = clock + 1
  /\ tmp' = tmp \cup {clock + 1}
  /\ hook' = [hook EXCEPT ![h] = [pc |-> "written", scan |-> {}, total |-> 0,
                                  name |-> clock + 1]]
  /\ UNCHANGED <<pending, undecided, torn, held, drain, lock, redrive, replay,
                 server, history>>

(* The rename publishes the item; from here Add has promised to deliver it.*)
Publish(h) ==
  /\ hook[h].pc = "written"
  /\ hook[h].name \in tmp
  /\ tmp' = tmp \ {hook[h].name}
  /\ pending' = pending \cup {hook[h].name}
  /\ published' = published \cup {hook[h].name}
  /\ hook' = [hook EXCEPT ![h] = IdleHook]
  /\ UNCHANGED <<undecided, torn, held, clock, drain, lock, redrive, replay,
                 server, silent, evicted, orphaned>>

(* The temp file was swept under a hook suspended past tmpSweepAge: the    *)
(* rename fails and Add returns the error.                                 *)
PublishFails(h) ==
  /\ hook[h].pc = "written"
  /\ hook[h].name \notin tmp
  /\ hook' = [hook EXCEPT ![h] = IdleHook]
  /\ UNCHANGED <<disk, clock, drain, lock, redrive, replay, server, history>>

(* The harness kills a hook anywhere; its temp file stays.                 *)
HookKilled(h) ==
  /\ hook[h].pc # "idle"
  /\ hook' = [hook EXCEPT ![h] = IdleHook]
  /\ UNCHANGED <<disk, clock, drain, lock, redrive, replay, server, history>>

-----------------------------------------------------------------------------
(* One delivery cycle: TryLock, Lease, limitBytes, Send.                   *)

(* Mutant of Lease: the cycle does not take .delivery.lock.                *)
LeaseUnlocked(d) ==
  /\ drain[d].pc = "idle"
  /\ \E k \in 1 .. BatchSize :
       LET batch == Oldest(Oldest(pending, BatchSize) \ torn, k)
       IN /\ batch # {}
          /\ drain' = [drain EXCEPT ![d] =
               [pc |-> "sending", batch |-> batch,
                copy |-> [n \in Names |-> IF n \in batch
                                            THEN undecided[n] ELSE 0],
                acc |-> {}, rej |-> {}]]
  /\ lock' = d
  /\ UNCHANGED <<disk, clock, hook, redrive, replay, server, history>>

(* Mutant of Lease: a file that does not parse is skipped and left.        *)
LeaseSkipsCorrupt(d) ==
  /\ drain[d].pc = "idle" /\ lock = None
  /\ \E k \in 1 .. BatchSize :
       LET batch == Oldest(Oldest(pending, BatchSize) \ torn, k)
       IN /\ batch # {}
          /\ lock' = d
          /\ drain' = [drain EXCEPT ![d] =
               [pc |-> "sending", batch |-> batch,
                copy |-> [n \in Names |-> IF n \in batch
                                            THEN undecided[n] ELSE 0],
                acc |-> {}, rej |-> {}]]
  /\ UNCHANGED <<disk, clock, hook, redrive, replay, server, history>>

(* The lock is taken, old temp files are swept, the oldest BatchSize names *)
(* are read and the unreadable ones quarantined as corrupt. limitBytes     *)
(* then keeps a non-empty prefix of what is left. With nothing to send the *)
(* cycle ends.                                                             *)
Lease(d) ==
  /\ drain[d].pc = "idle"
  /\ lock = None
  /\ SweepTemp
  /\ LET first   == Oldest(pending, BatchSize)
         corrupt == first \cap torn
     IN /\ pending' = pending \ corrupt
        /\ torn' = torn \ corrupt
        /\ held' = held \cup {Quarantined(n, "corrupt") : n \in corrupt}
        /\ \/ /\ first \subseteq torn
              /\ UNCHANGED <<drain, lock>>
           \/ \E k \in 1 .. BatchSize :
                LET batch == Oldest(first \ torn, k)
                IN /\ batch # {}
                   /\ lock' = d
                   /\ drain' = [drain EXCEPT ![d] =
                        [pc |-> "sending", batch |-> batch,
                         copy |-> [n \in Names |-> IF n \in batch
                                                     THEN undecided[n] ELSE 0],
                         acc |-> {}, rej |-> {}]]
  /\ UNCHANGED <<undecided, clock, hook, redrive, replay, server, history>>

(* A 2xx verdict. The server stores the keys it accepts before it says so; *)
(* the same key twice in a batch may be judged twice, one way each.        *)
Answer(d) ==
  /\ drain[d].pc = "sending"
  /\ \E acc, rej \in SUBSET KeysOf(drain[d].batch) :
       /\ stored' = stored \cup acc
       /\ refused' = refused \cup rej
       /\ drain' = [drain EXCEPT ![d] =
            [pc |-> "applying", batch |-> @.batch, copy |-> @.copy,
             acc |-> acc, rej |-> rej]]
       /\ silent' = [n \in Names |->
            IF n \in drain[d].batch /\ IdOf[n] \notin acc \cup rej
               /\ silent[n] < MaxUndecided
              THEN silent[n] + 1 ELSE silent[n]]
  /\ UNCHANGED <<disk, clock, hook, lock, redrive, replay, published, evicted,
                 orphaned>>

(* Mutant of NoAnswer: a failed request is taken for an empty verdict.     *)
NoAnswerApplied(d) ==
  /\ drain[d].pc = "sending"
  /\ drain' = [drain EXCEPT ![d].pc = "applying"]
  /\ UNCHANGED <<disk, clock, hook, lock, redrive, replay, server, history>>

(* No verdict: refused connection, timeout, a non-2xx status, a body that  *)
(* does not parse, a cancelled context. The server may have stored any of  *)
(* the batch all the same. No item is touched.                             *)
NoAnswer(d) ==
  /\ drain[d].pc = "sending"
  /\ \E some \in SUBSET KeysOf(drain[d].batch) : stored' = stored \cup some
  /\ drain' = [drain EXCEPT ![d] = IdleDrain]
  /\ lock' = None
  /\ UNCHANGED <<disk, clock, hook, redrive, replay, refused, history>>

-----------------------------------------------------------------------------
(* applyVerdict: item by item, in the order of the batch.                  *)

Turn(d, n) == drain[d].pc = "applying" /\ n \in Oldest(drain[d].batch, 1)

(* The cycle moves past n; after the last item the lock is released.       *)
Advance(d, n) ==
  IF drain[d].batch = {n}
    THEN /\ drain' = [drain EXCEPT ![d] = IdleDrain]
         /\ lock' = None
    ELSE /\ drain' = [drain EXCEPT ![d].batch = @ \ {n}]
         /\ UNCHANGED lock

(* Mutant of Ack: what is not rejected counts as accepted.                 *)
AckUnnamed(d, n) ==
  /\ Turn(d, n)
  /\ IdOf[n] \notin drain[d].rej
  /\ pending' = pending \ {n}
  /\ torn' = torn \ {n}
  /\ Advance(d, n)
  /\ UNCHANGED <<undecided, held, tmp, clock, hook, redrive, replay, server,
                 history>>

(* Accepted wins over rejected.                                            *)
Ack(d, n) ==
  /\ Turn(d, n)
  /\ IdOf[n] \in drain[d].acc
  /\ pending' = pending \ {n}
  /\ torn' = torn \ {n}
  /\ Advance(d, n)
  /\ UNCHANGED <<undecided, held, tmp, clock, hook, redrive, replay,
                 server, history>>

(* Mutant of Quarantine: what is not accepted counts as rejected.          *)
QuarantineUnnamed(d, n) ==
  /\ Turn(d, n)
  /\ IdOf[n] \notin drain[d].acc
  /\ \E tag \in Tags : MoveOut(n, Quarantined(n, tag))
  /\ Advance(d, n)
  /\ UNCHANGED <<undecided, tmp, clock, hook, redrive, replay, server, history>>

(* Mutant of Quarantine: the rejected file is deleted.                     *)
QuarantineDeletes(d, n) ==
  /\ Turn(d, n)
  /\ IdOf[n] \in drain[d].rej \ drain[d].acc
  /\ pending' = pending \ {n} /\ torn' = torn \ {n}
  /\ Advance(d, n)
  /\ UNCHANGED <<undecided, held, tmp, clock, hook, redrive, replay, server,
                 history>>

(* A rejection: permanent, at once, the reason kept in the name.           *)
Quarantine(d, n) ==
  /\ Turn(d, n)
  /\ IdOf[n] \in drain[d].rej \ drain[d].acc
  /\ \E tag \in Tags : MoveOut(n, Quarantined(n, tag))
  /\ Advance(d, n)
  /\ UNCHANGED <<undecided, tmp, clock, hook, redrive, replay, server, history>>

(* Mutant of Rewrite: the cutoff is passed before it is noticed.           *)
RewriteLate(d, n) ==
  /\ Turn(d, n)
  /\ IdOf[n] \notin drain[d].acc \cup drain[d].rej
  /\ undecided' = [undecided EXCEPT ![n] = drain[d].copy[n] + 1]
  /\ pending' = pending \cup {n}
  /\ torn' = torn \ {n}
  /\ Advance(d, n)
  /\ UNCHANGED <<held, tmp, clock, hook, redrive, replay, server, history>>

(* Named in neither list, below the cutoff: the leased copy, its counter   *)
(* advanced, is written over whatever is at the path, or anew.             *)
Rewrite(d, n) ==
  /\ Turn(d, n)
  /\ IdOf[n] \notin drain[d].acc \cup drain[d].rej
  /\ drain[d].copy[n] + 1 < MaxUndecided
  /\ undecided' = [undecided EXCEPT ![n] = drain[d].copy[n] + 1]
  /\ pending' = pending \cup {n}
  /\ torn' = torn \ {n}
  /\ Advance(d, n)
  /\ UNCHANGED <<held, tmp, clock, hook, redrive, replay, server, history>>

(* Named in neither list for the MaxUndecided-th time running.             *)
Park(d, n) ==
  /\ Turn(d, n)
  /\ IdOf[n] \notin drain[d].acc \cup drain[d].rej
  /\ drain[d].copy[n] + 1 >= MaxUndecided
  /\ MoveOut(n, Parked(n))
  /\ Advance(d, n)
  /\ UNCHANGED <<undecided, tmp, clock, hook, redrive, replay, server, history>>

(* The file operation failed: the error is recorded and the loop goes on.  *)
LocalError(d, n) ==
  /\ Turn(d, n)
  /\ Advance(d, n)
  /\ UNCHANGED <<disk, clock, hook, redrive, replay, server, history>>

(* A daemon or an import dies; the kernel releases its lock. A request it  *)
(* had in flight may still be stored.                                      *)
DrainKilled(d) ==
  /\ drain[d].pc # "idle"
  /\ \E some \in SUBSET KeysOf(drain[d].batch) :
       stored' = IF drain[d].pc = "sending" THEN stored \cup some ELSE stored
  /\ drain' = [drain EXCEPT ![d] = IdleDrain]
  /\ lock' = None
  /\ UNCHANGED <<disk, clock, hook, redrive, replay, refused, history>>

-----------------------------------------------------------------------------
(* redriveFrom: quarantine/ or parked/ back to pending/, outside the lock. *)

List(r) ==
  /\ redrive[r].pc = "idle"
  /\ \E dir \in {"quarantine", "parked"} :
       /\ Listing(dir) # {}
       /\ redrive' = [redrive EXCEPT ![r] =
            [pc |-> "listed", list |-> Listing(dir), cur |-> {}]]
  /\ SweepTemp
  /\ UNCHANGED <<pending, undecided, torn, held, clock, hook, drain, lock,
                 replay, server, history>>

(* Read the next file of the listing.                                      *)
ReadHeld(r) ==
  /\ redrive[r].pc = "listed"
  /\ \E f \in redrive[r].list \cap held :
       /\ f.tag # "corrupt"
       /\ redrive' = [redrive EXCEPT ![r] =
            [pc |-> "read", list |-> @.list \ {f}, cur |-> {f}]]
  /\ UNCHANGED <<disk, clock, hook, drain, lock, replay, server, history>>

(* It vanished, does not parse, or cannot be written back: left alone.     *)
SkipHeld(r) ==
  /\ redrive[r].pc = "listed"
  /\ \E f \in redrive[r].list :
       redrive' = [redrive EXCEPT ![r].list = @ \ {f}]
  /\ UNCHANGED <<disk, clock, hook, drain, lock, replay, server, history>>

(* Publish the copy, counters reset, under the base name in pending/.      *)
RenameBack(r) ==
  /\ redrive[r].pc = "read"
  /\ \E f \in redrive[r].cur :
       /\ pending' = pending \cup {f.name}
       /\ undecided' = [undecided EXCEPT ![f.name] = 0]
       /\ torn' = torn \ {f.name}
  /\ redrive' = [redrive EXCEPT ![r].pc = "renamed"]
  /\ UNCHANGED <<held, tmp, clock, hook, drain, lock, replay, server, history>>

(* Unlink the source path, whatever stands at it by now.                   *)
RemoveSource(r) ==
  /\ redrive[r].pc = "renamed"
  /\ \E f \in redrive[r].cur :
       /\ held' = held \ {f}
       /\ orphaned' = IF f \in held /\ f.name \notin pending
                          /\ \A e \in held \ {f} : e.name # f.name
                       THEN orphaned \cup {f.name} ELSE orphaned
  /\ redrive' = [redrive EXCEPT ![r] = [pc |-> "listed", list |-> @.list,
                                        cur |-> {}]]
  /\ UNCHANGED <<pending, undecided, torn, tmp, clock, hook, drain, lock,
                 replay, server, silent, published, evicted>>

(* The listing is exhausted, or the process died.                          *)
RedriveEnds(r) ==
  /\ redrive[r].pc # "idle"
  /\ redrive' = [redrive EXCEPT ![r] = IdleRedrive]
  /\ UNCHANGED <<disk, clock, hook, drain, lock, replay, server, history>>

-----------------------------------------------------------------------------
(* doctorReplay: post the oldest quarantined item alone, outside the lock. *)

(* Spool.Quarantined(1): the listing is cut to one name before it is read, *)
(* so an unreadable oldest file hides every other one. Of two files of one *)
(* base name "corrupt" sorts before "rejected-...".                        *)
QuarantineHead ==
  {f \in Listing("quarantine") :
     /\ f.tag # "corrupt"
     /\ \A g \in Listing("quarantine") :
          f.name < g.name \/ (f.name = g.name /\ g.tag # "corrupt")}

Pick(y) ==
  /\ replay[y].pc = "idle"
  /\ \E f \in QuarantineHead :
       replay' = [replay EXCEPT ![y] = [pc |-> "sending", cur |-> {f}]]
  /\ SweepTemp
  /\ UNCHANGED <<pending, undecided, torn, held, clock, hook, drain, lock,
                 redrive, server, history>>

(* The answer to the replayed item. Anything but an acceptance is printed  *)
(* and the item stays; a lost answer may hide that the server stored it.   *)
ReplayAnswer(y) ==
  /\ replay[y].pc = "sending"
  /\ \E f \in replay[y].cur :
       \/ /\ stored' = stored \cup {IdOf[f.name]}
          /\ replay' = [replay EXCEPT ![y] = [pc |-> "accepted", cur |-> {f}]]
       \/ /\ stored' \in {stored, stored \cup {IdOf[f.name]}}
          /\ replay' = [replay EXCEPT ![y] = IdleReplay]
  /\ UNCHANGED <<disk, clock, hook, drain, lock, redrive, refused, history>>

ReplayAck(y) ==
  /\ replay[y].pc = "accepted"
  /\ \E f \in replay[y].cur : held' = held \ {f}
  /\ replay' = [replay EXCEPT ![y] = IdleReplay]
  /\ UNCHANGED <<pending, undecided, torn, tmp, clock, hook, drain, lock,
                 redrive, server, history>>

ReplayKilled(y) ==
  /\ replay[y].pc # "idle"
  /\ replay' = [replay EXCEPT ![y] = IdleReplay]
  /\ UNCHANGED <<disk, clock, hook, drain, lock, redrive, server, history>>

-----------------------------------------------------------------------------
(* Nothing is fsynced: when the machine loses power every process is gone  *)
(* and a file in pending/ may be left with content that does not parse.    *)
PowerLoss ==
  /\ \E t \in SUBSET (pending \cap Tearable) : torn' = torn \cup t
  /\ hook' = [h \in Hooks |-> IdleHook]
  /\ drain' = [d \in Drains |-> IdleDrain]
  /\ lock' = None
  /\ redrive' = [r \in Redrivers |-> IdleRedrive]
  /\ replay' = [y \in Replayers |-> IdleReplay]
  /\ UNCHANGED <<pending, undecided, held, tmp, clock, server, history>>

HookStep(h) ==
  \/ TrustEstimate(h) \/ Scan(h) \/ Evict(h) \/ Admit(h) \/ Overflow(h)
  \/ WriteTemp(h) \/ Publish(h) \/ PublishFails(h) \/ HookKilled(h)

ApplyTo(d, n) == Ack(d, n) \/ Quarantine(d, n) \/ Rewrite(d, n) \/ Park(d, n)

DrainStep(d) ==
  \/ Lease(d) \/ Answer(d) \/ NoAnswer(d) \/ DrainKilled(d)
  \/ \E n \in Names : ApplyTo(d, n) \/ LocalError(d, n)

RedriveStep(r) ==
  \/ List(r) \/ ReadHeld(r) \/ SkipHeld(r) \/ RenameBack(r)
  \/ RemoveSource(r) \/ RedriveEnds(r)

ReplayStep(y) ==
  Pick(y) \/ ReplayAnswer(y) \/ ReplayAck(y) \/ ReplayKilled(y)

Next ==
  \/ \E h \in Hooks : HookStep(h)
  \/ \E d \in Drains : DrainStep(d)
  \/ \E r \in Redrivers : RedriveStep(r)
  \/ \E y \in Replayers : ReplayStep(y)
  \/ PowerLoss

Spec == Init /\ [][Next]_vars

-----------------------------------------------------------------------------
(* Properties.                                                             *)

(* Every variable has its type. Files are only torn while in pending/, and *)
(* the lock is held exactly by a drain in mid-cycle.                       *)
TypeOK ==
  /\ pending \subseteq Names /\ torn \subseteq pending /\ tmp \subseteq Names
  /\ undecided \in [Names -> 0 .. MaxUndecided - 1]
  /\ held \subseteq HeldFile
  /\ clock \in 0 .. MaxName
  /\ hook \in [Hooks -> HookState]
  /\ drain \in [Drains -> DrainState]
  /\ lock \in Drains \cup {None}
  /\ redrive \in [Redrivers -> RedriveState]
  /\ replay \in [Replayers -> ReplayState]
  /\ stored \subseteq Ids /\ refused \subseteq Ids
  /\ silent \in [Names -> 0 .. MaxUndecided]
  /\ published \subseteq Names /\ evicted \subseteq Names
  /\ orphaned \subseteq Names

(* "Nothing is lost until the server has it" (Ack): an item Add has        *)
(* published is still in the spool, or the server stores its key, or       *)
(* enforceCap removed it to make room, or a redrive unlinked its last copy.*)
(* It follows from ImplementsContract, below.                              *)
LostOnlyByRedrive ==
  \A n \in published \ (OnDisk \cup evicted \cup orphaned) : IdOf[n] \in stored

(* The same without the last alternative: what the comment on Ack says.    *)
NothingLost ==
  \A n \in published \ (OnDisk \cup evicted) : IdOf[n] \in stored

(* A file is in quarantine/ because it cannot be parsed or because the     *)
(* server rejected its key by name, never for silence or a failed request  *)
(* (applyVerdict; the comment on Fail tells of the machines where it was). *)
QuarantineHasReason ==
  \A f \in held : f.tag \in Tags => IdOf[f.name] \in refused

(* A file is parked only after MaxUndecided 2xx answers that named it in   *)
(* neither list: crashes, failed requests, torn files and redrives never   *)
(* bring the cutoff of Undecided nearer.                                   *)
ParkedWasIgnored ==
  \A f \in held : f.dir = "parked" => silent[f.name] >= MaxUndecided

(* .delivery.lock: no file is in two delivery cycles at a time, so that no *)
(* counter is written back from a copy an overlapping cycle has outdated.  *)
SingleFlight ==
  \A d, e \in Drains : d # e => drain[d].batch \cap drain[e].batch = {}

(* A counter on disk never counts more silences than the server gave.      *)
CounterHonest ==
  \A n \in Names : undecided[n] <= silent[n]

(* What makes them inductive.                                              *)

(* A drain is in mid-cycle exactly while it holds the lock.                *)
LockHeld ==
  \A d \in Drains : /\ drain[d].pc # "idle" <=> lock = d
                    /\ drain[d].pc = "idle" => drain[d].batch = {}

(* A verdict being applied repeats what the server has done.               *)
VerdictTrue ==
  /\ \A d \in Drains : drain[d].pc = "applying" =>
       drain[d].acc \subseteq stored /\ drain[d].rej \subseteq refused
  /\ \A y \in Replayers : replay[y].pc = "accepted" =>
       \A f \in replay[y].cur : IdOf[f.name] \in stored

(* The leased copies count no more silences than were given, and one less  *)
(* than were given when the answer at hand is one.                         *)
CopyHonest ==
  \A d \in Drains : \A n \in drain[d].batch :
    /\ drain[d].copy[n] <= silent[n]
    /\ (drain[d].pc = "applying" /\ IdOf[n] \notin drain[d].acc \cup drain[d].rej)
         => drain[d].copy[n] < silent[n]

(* Only a redrive unlinks a last copy.                                     *)
OnlyRedriveOrphans == Redrivers = {} => orphaned = {}

(* Names are handed out once: the clock is past every published one.       *)
FreshNames ==
  /\ published \subseteq 1 .. clock
  /\ \A h \in Hooks : hook[h].pc = "written" =>
       hook[h].name \in (1 .. clock) \ published
  /\ \A g, h \in Hooks :
       (g # h /\ hook[g].pc = "written" /\ hook[h].pc = "written")
         => hook[g].name # hook[h].name

(* Only published items are handled.                                       *)
OnlyPublished ==
  /\ OnDisk \subseteq published
  /\ \A d \in Drains : drain[d].batch \subseteq published
  /\ \A r \in Redrivers : \A f \in redrive[r].list \cup redrive[r].cur :
       f.name \in published
  /\ \A y \in Replayers : \A f \in replay[y].cur : f.name \in published

IInv ==
  /\ TypeOK /\ LockHeld /\ VerdictTrue /\ CopyHonest /\ OnlyRedriveOrphans
  /\ LostOnlyByRedrive /\ QuarantineHasReason /\ ParkedWasIgnored
  /\ CounterHonest

(* The outbox keeps its promise step by step: what is published and still  *)
(* on disk is owed, a key the server stores is delivered, what the cap or  *)
(* a redrive removed is dropped.                                           *)
Contract == INSTANCE OutboxContract WITH
  Items <- Names, Keys <- Ids, KeyOf <- IdOf,
  captured <- published, owed <- published \cap OnDisk,
  delivered <- stored, dropped <- evicted \cup orphaned

(* Every step of a hook, a drain, a redrive or a replay is a step the      *)
(* contract allows: in particular no file goes before its key is stored,   *)
(* whichever processes die in between.                                     *)
ImplementsContract == Contract!ContractSpec

-----------------------------------------------------------------------------
(* Liveness.                                                               *)

(* The daemon's ticker starts a cycle again and again while something is   *)
(* pending and the lock is free; a request that is retried is answered in  *)
(* the end; a file operation that is retried succeeds in the end. Nothing  *)
(* is assumed of the verdicts or of hooks, and machines may lose power.    *)
Fairness ==
  /\ SF_vars(pending # {} /\ \E d \in Drains : Lease(d))
  /\ SF_vars(\E d \in Drains : Answer(d))
  /\ \A n \in Names : SF_vars(\E d \in Drains : ApplyTo(d, n))

FairSpec == Spec /\ Fairness

(* Every file leaves pending/: no verdict, silence, corrupt content or     *)
(* power loss keeps it there, however the items before it in the queue     *)
(* fare (MaxUndecided and the quarantine exist to keep the head moving).   *)
PendingDrains == \A n \in Names : n \in pending ~> n \notin pending

=============================================================================
