----------------------------- MODULE SessionStore -----------------------------
(* The server's session store: uploads written by UpsertEvents              *)
(* (src/server/store/store.go), the dirty pass that folds each touched      *)
(* session into turns (runner.go, turns.go), the versioned rebuild of a     *)
(* session's artifacts and links (artifacts.go) and the retention sweep     *)
(* (retention.go), all on one Postgres database read at READ COMMITTED.     *)
(*                                                                          *)
(* A transaction is cut where another transaction's commit can change what  *)
(* it goes on to do: an upload at each session claim (a row lock held to    *)
(* commit) and at its commit; a fold after the read of the session row,     *)
(* after the read of its events, and at the row lock it commits under; a    *)
(* rebuild after its probe, after its scan, and at its delete-and-insert.   *)
EXTENDS Naturals, FiniteSets

CONSTANTS
    Sessions,     \* session ids; uploads claim them in increasing order
    Events,       \* event ids
    Hooks,        \* the events a hook captured; the others were walked
    Changes,      \* the walked events that change a file
    SessionOf,    \* SessionOf[e]: the session e belongs to
    RecordOf,     \* RecordOf[e]: the transcript record e is a copy of
    CallOf,       \* CallOf[r]: the model call record r was answered by
    Copies,       \* the <<event, capture version>> pairs a client can send
    MaxVersion,   \* the newest capture version
    Devices,      \* laptops, each with one upload in flight at a time
    PersonOf,     \* PersonOf[d]: the principal device d is enrolled to
    Instances,    \* server instances, each with one dirty-pass loop
    Poison,       \* sessions whose fold fails every time
    OldEvents,    \* events past the body window
    OldSessions,  \* sessions past the session window
    MaxUploads,   \* bound on uploads begun
    MaxBatch,     \* bound on the copies in one upload
    MaxFaults,    \* bound on folds that fail for no fault of theirs
    None

ASSUME StoreAssumption ==
    /\ Sessions \subseteq Nat \ {0} /\ IsFiniteSet(Events)
    /\ Hooks \subseteq Events /\ Changes \subseteq Events \ Hooks
    /\ SessionOf \in [Events -> Sessions]
    /\ MaxVersion \in Nat /\ Copies \subseteq Events \X (1 .. MaxVersion)
    /\ Poison \subseteq Sessions
    /\ None \notin Devices \cup Sessions \cup {PersonOf[d] : d \in Devices}

VARIABLES
    version,  \* events.capture_version, 0 for a row that is not stored
    email,    \* events.email
    full,     \* rows whose body is what a client sent
    expired,  \* rows with body_expired_at set
    twins,    \* history: rows inserted beside their record's, for want of the index
    row,      \* the sessions table
    turns,    \* the stored copies each session's turns were folded from
    ledger,   \* usage_ledger: the session each priced call is filed under
    art,      \* events the artifacts and links tables have rows for
    lock,     \* the upload that holds a session's row lock
    tx,       \* each device's upload
    fold,     \* each instance's fold
    parked,   \* sessions each instance passes over on its next pass
    rebuild,  \* the one versioned batch the global derive lock lets run
    clock,    \* one more than the newest updated_at
    used      \* uploads begun and faults injected, for the bounds

events == <<version, email, full, expired, twins>>
upload == <<lock, tx>>
vars == <<events, row, turns, ledger, art, upload, fold, parked, rebuild, clock, used>>

-----------------------------------------------------------------------------
Stored == {e \in Events : version[e] # 0}
Calls == {CallOf[RecordOf[e]] : e \in Events}
In(s) == {e \in Events : SessionOf[e] = s}
Exists(s) == row[s].owner # None
NoRow == [owner |-> None, dirty |-> FALSE, stamp |-> 0, content |-> 0, cost |-> 0]
Idle == [st |-> "idle", batch |-> {}, claimed |-> {}, owned |-> {}]
NoFold == [st |-> "idle", s |-> None, stamp |-> 0, read |-> {}]

Least(S) == CHOOSE x \in S : \A y \in S : x <= y
Greatest(S) == CHOOSE x \in S : \A y \in S : y <= x

\* The stored rows that hold the same transcript record as a walked event:
\* derive.IdentityOf over events_record_identity_idx. A hook row has none.
Rows(e) == {f \in Stored \ Hooks : /\ e \notin Hooks
                                   /\ SessionOf[f] = SessionOf[e]
                                   /\ RecordOf[f] = RecordOf[e]}

\* The hook copies whose record is also stored as walked (derive.FoldTurns'
\* election), and the content a session has with those left out.
Superseded(S) == {h \in S \cap Hooks : \E t \in S \ Hooks : RecordOf[t] = RecordOf[h]}
Content(S) == Cardinality(S \ Superseded(S))
CopiesIn(s) == {<<e, version[e]>> : e \in Stored \cap In(s)}

-----------------------------------------------------------------------------
\* UpsertEvents: what a batch whose sessions are all claimed does when it
\* commits. Admitted is what the claims let through: an event of a session
\* another principal owns is refused for good.
Admitted(d) == {c \in tx[d].batch : SessionOf[c[1]] \in tx[d].owned}

\* upgradeByIdentity: the rows a copy is matched with, if the process has found
\* the identity index valid (ix). It has not while the runner still has to build
\* the index, nor for a minute after it last asked in vain, a failed read of the
\* catalog by a new process included.
Matched(ix, e) == IF ix THEN Rows(e) ELSE {}

\* (mutant: the identity match is skipped)
FreshById(ix, B) == {c[1] : c \in {k \in B : version[k[1]] = 0}}

\* insertEvents: an event whose record is matched under another id is not
\* inserted, and every row of the record takes the newest extraction offered.
Fresh(ix, B) == {c[1] : c \in {k \in B : version[k[1]] = 0 /\ Matched(ix, k[1]) = {}}}
Offered(ix, B, f) == {c[2] : c \in {k \in B : k[1] = f \/ f \in Matched(ix, k[1])}}

\* (mutant: the extraction offered last wins, older or not)
VersionOffered(ix, B, f) ==
    IF f \in Stored \cup Fresh(ix, B)
    THEN IF Offered(ix, B, f) = {} THEN version[f] ELSE Greatest(Offered(ix, B, f))
    ELSE 0

\* The row's extraction after the batch: a newer one replaces it, an older one
\* is dropped.
VersionAfter(ix, B, f) == IF f \in Stored \cup Fresh(ix, B)
                          THEN Greatest({version[f]} \cup Offered(ix, B, f)) ELSE 0
Moved(ix, B) == {f \in Stored : VersionAfter(ix, B, f) # version[f]}

\* (mutant: a re-delivered call is filed again, under the session it came with)
CreditAgain(B) ==
    [c \in Calls |->
        LET from == {SessionOf[k[1]] : k \in {x \in B : CallOf[RecordOf[x[1]]] = c}}
        IN IF from # {} THEN Least(from) ELSE ledger[c]]

\* creditUsage: each call is filed once, under the first session of the batch
\* that carries it, and only when no row of the ledger names it yet.
Credit(B) ==
    [c \in Calls |->
        LET from == {SessionOf[k[1]] : k \in {x \in B : CallOf[RecordOf[x[1]]] = c}}
        IN IF ledger[c] = None /\ from # {} THEN Least(from) ELSE ledger[c]]
Credited(B, s) == {c \in Calls : ledger[c] = None /\ Credit(B)[c] = s}

\* foldDeltas: what the batch adds to a session, from its fresh rows and the
\* calls the ledger accepted.
Delta(ix, B, s) == [content |-> Cardinality(Fresh(ix, B) \cap In(s)),
                    cost |-> Cardinality(Credited(B, s))]

\* applyDelta and the mark for upgraded rows: increments are added, and a
\* touched row is dirty with a new updated_at.
Touched(ix, B, s) ==
    Fresh(ix, B) \cap In(s) # {} \/ Credited(B, s) # {} \/ Moved(ix, B) \cap In(s) # {}
RowAfter(d, ix, B, s) ==
    [owner   |-> PersonOf[d],
     dirty   |-> Touched(ix, B, s) \/ row[s].dirty,
     stamp   |-> IF Touched(ix, B, s) THEN clock ELSE row[s].stamp,
     content |-> row[s].content + Delta(ix, B, s).content,
     cost    |-> row[s].cost + Delta(ix, B, s).cost]

Init ==
    /\ version = [e \in Events |-> 0] /\ email = [e \in Events |-> None]
    /\ full = {} /\ expired = {} /\ twins = {}
    /\ row = [s \in Sessions |-> NoRow]
    /\ turns = [s \in Sessions |-> {}]
    /\ ledger = [c \in Calls |-> None]
    /\ art = {}
    /\ lock = [s \in Sessions |-> None]
    /\ tx = [d \in Devices |-> Idle]
    /\ fold = [i \in Instances |-> NoFold]
    /\ parked = [i \in Instances |-> {}]
    /\ rebuild = [st |-> "idle", s |-> 0, read |-> {}]
    /\ clock = 1
    /\ used = [uploads |-> 0, faults |-> 0]

\* A device posts a batch; one id appears in it once (the duplicate is
\* acknowledged before the transaction opens). Anything may be sent again.
Begin(d) ==
    /\ tx[d].st = "idle" /\ used.uploads < MaxUploads
    /\ \E B \in SUBSET Copies :
        /\ B # {} /\ Cardinality(B) <= MaxBatch
        /\ \A c1, c2 \in B : c1[1] = c2[1] => c1 = c2
        /\ tx' = [tx EXCEPT ![d] = [st |-> "open", batch |-> B, claimed |-> {}, owned |-> {}]]
    /\ used' = [used EXCEPT !.uploads = @ + 1]
    /\ UNCHANGED <<events, row, turns, ledger, art, lock, fold, parked,
                   rebuild, clock>>

Unclaimed(d) == {SessionOf[c[1]] : c \in tx[d].batch} \ tx[d].claimed

\* The upload once it holds the row of s and has read its owner.
WithClaim(d, s) ==
    [st |-> "open", batch |-> tx[d].batch, claimed |-> tx[d].claimed \cup {s},
     owned |-> tx[d].owned \cup {u \in {s} : row[u].owner \in {None, PersonOf[d]}}]

\* (mutants: the claim does not wait for the row; the claims go in the order
\* the batch arrived in)
ClaimNoWait(d) ==
    /\ tx[d].st = "open" /\ Unclaimed(d) # {}
    /\ LET s == Least(Unclaimed(d)) IN
        /\ lock' = [lock EXCEPT ![s] = d]
        /\ tx' = [tx EXCEPT ![d] = WithClaim(d, s)]
    /\ UNCHANGED <<events, row, turns, ledger, art, fold, parked, rebuild, clock, used>>

ClaimAnyOrder(d) ==
    /\ tx[d].st = "open"
    /\ \E s \in Unclaimed(d) :
        /\ lock[s] = None
        /\ lock' = [lock EXCEPT ![s] = d]
        /\ tx' = [tx EXCEPT ![d] = WithClaim(d, s)]
    /\ UNCHANGED <<events, row, turns, ledger, art, fold, parked, rebuild, clock, used>>

\* The claim of the next session in id order: it waits for the row lock, or
\* for the upload that is creating the row, and learns the owner.
Claim(d) ==
    /\ tx[d].st = "open" /\ Unclaimed(d) # {}
    /\ LET s == Least(Unclaimed(d)) IN
        /\ lock[s] = None
        /\ lock' = [lock EXCEPT ![s] = d]
        /\ tx' = [tx EXCEPT ![d] = WithClaim(d, s)]
    /\ UNCHANGED <<events, row, turns, ledger, art, fold, parked, rebuild,
                   clock, used>>

Release(d) == [s \in Sessions |-> IF lock[s] = d THEN None ELSE lock[s]]

\* Whether this process has found the identity index valid is anyone's guess.
Commit(d, ix) ==
    LET B == Admitted(d)
        mine == {SessionOf[c[1]] : c \in B}
    IN /\ tx[d].st = "open" /\ Unclaimed(d) = {}
       /\ version' = [f \in Events |-> VersionAfter(ix, B, f)]
       /\ email' = [f \in Events |-> IF f \in Fresh(ix, B) THEN PersonOf[d] ELSE email[f]]
       /\ full' = full \cup Fresh(ix, B) \cup Moved(ix, B)
       /\ row' = [s \in Sessions |-> IF s \in mine THEN RowAfter(d, ix, B, s) ELSE row[s]]
       /\ ledger' = Credit(B)
       /\ art' = art \cup (Fresh(ix, B) \cap Changes)
       /\ twins' = twins \cup {e \in Fresh(ix, B) : ~ix /\ Rows(e) # {}}
       /\ tx' = [tx EXCEPT ![d] = Idle]
       /\ lock' = Release(d)
       /\ clock' = clock + 1
       /\ UNCHANGED <<expired, turns, fold, parked, rebuild, used>>

\* The transaction fails, or its instance dies: nothing of it is kept.
Abort(d) ==
    /\ tx[d].st = "open"
    /\ lock' = Release(d)
    /\ tx' = [tx EXCEPT ![d] = Idle]
    /\ UNCHANGED <<events, row, turns, ledger, art, fold, parked, rebuild, clock, used>>

-----------------------------------------------------------------------------
\* The advisory lock on a session (sessionLocked): folds and rebuilds of one
\* session exclude each other, and none waits.
Derived(s) == \/ \E i \in Instances : fold[i].st # "idle" /\ fold[i].s = s
              \/ rebuild.st # "idle" /\ rebuild.s = s

\* The sessions one pass reads: dirty, not parked, oldest updated_at first;
\* the pass is cut to one session.
Due(i) == {s \in Sessions : Exists(s) /\ row[s].dirty} \ parked[i]
Oldest(S) == CHOOSE s \in S : \A u \in S : row[s].stamp <= row[u].stamp

\* A pass: its first session's facts are read under the advisory lock, or the
\* session is derived elsewhere and skipped. A backoff outlives one pass.
Pass(i) ==
    /\ fold[i].st = "idle"
    /\ Due(i) # {} \/ parked[i] # {}
    /\ fold' = [fold EXCEPT ![i] =
                   IF Due(i) = {} \/ Derived(Oldest(Due(i))) THEN NoFold
                   ELSE [st |-> "facts", s |-> Oldest(Due(i)),
                         stamp |-> row[Oldest(Due(i))].stamp, read |-> {}]]
    /\ parked' = [parked EXCEPT ![i] = {}]
    /\ UNCHANGED <<events, row, turns, ledger, art, upload, rebuild, clock, used>>

\* readProjection: a later statement, so it sees what has been committed since.
FoldRead(i) ==
    /\ fold[i].st = "facts" /\ Exists(fold[i].s)
    /\ fold' = [fold EXCEPT ![i] = [st |-> "read", s |-> fold[i].s,
                                    stamp |-> fold[i].stamp, read |-> CopiesIn(fold[i].s)]]
    /\ UNCHANGED <<events, row, turns, ledger, art, upload, parked, rebuild, clock, used>>

\* The rollup moves updated_at only when it changes a column.
Bumped(s, content) == IF row[s].content = content THEN row[s].stamp ELSE clock

\* (mutant: the flag is cleared whatever landed during the fold)
FoldCommitClears(i) ==
    LET s == fold[i].s
        content == Content({c[1] : c \in fold[i].read})
    IN /\ fold[i].st = "read" /\ s \notin Poison
       /\ Exists(s) /\ lock[s] = None
       /\ turns' = [turns EXCEPT ![s] = fold[i].read]
       /\ row' = [row EXCEPT ![s].dirty = FALSE, ![s].content = content,
                             ![s].stamp = Bumped(s, content)]
       /\ clock' = IF row[s].content = content THEN clock ELSE clock + 1
       /\ fold' = [fold EXCEPT ![i] = NoFold]
       /\ UNCHANGED <<events, ledger, art, upload, parked, rebuild, used>>

\* The row lock, the judgement whether anything touched the row since its
\* facts were read, the rollup from the turns, and the flag.
FoldCommit(i) ==
    LET s == fold[i].s
        content == Content({c[1] : c \in fold[i].read})
    IN /\ fold[i].st = "read" /\ s \notin Poison
       /\ Exists(s) /\ lock[s] = None
       /\ turns' = [turns EXCEPT ![s] = fold[i].read]
       /\ row' = [row EXCEPT ![s] =
                     [owner |-> @.owner, dirty |-> @.stamp # fold[i].stamp,
                      stamp |-> Bumped(s, content), content |-> content, cost |-> @.cost]]
       /\ clock' = IF row[s].content = content THEN clock ELSE clock + 1
       /\ fold' = [fold EXCEPT ![i] = NoFold]
       /\ UNCHANGED <<events, ledger, art, upload, parked, rebuild, used>>

\* (mutant: a failed fold is not parked)
FoldFailUnparked(i) ==
    /\ fold[i].st # "idle"
    /\ ~Exists(fold[i].s) \/ fold[i].s \in Poison
    /\ fold' = [fold EXCEPT ![i] = NoFold]
    /\ UNCHANGED <<events, row, turns, ledger, art, upload, parked, rebuild, clock, used>>

\* The session is gone, or the fold fails and the session is parked.
FoldFail(i) ==
    /\ fold[i].st # "idle"
    /\ \/ ~Exists(fold[i].s) /\ used' = used
       \/ fold[i].s \in Poison /\ used' = used
       \/ used.faults < MaxFaults /\ used' = [used EXCEPT !.faults = @ + 1]
    /\ parked' = [parked EXCEPT ![i] = @ \cup {fold[i].s}]
    /\ fold' = [fold EXCEPT ![i] = NoFold]
    /\ UNCHANGED <<events, row, turns, ledger, art, upload, rebuild, clock>>

-----------------------------------------------------------------------------
\* rebuildSessionArtifacts and rebuildSessionLinks, one session of the
\* versioned pass: probe for expired bodies, scan the bodies, then delete the
\* session's rows and insert what the scan found. The step's cursor, kept in
\* rebuild.s, moves through the sessions in id order, once.
RebuildProbe(s) ==
    /\ rebuild.st = "idle" /\ s > rebuild.s /\ Exists(s) /\ ~Derived(s)
    /\ rebuild' = [st |-> IF Changes \cap In(s) \cap expired = {} THEN "probed" ELSE "idle",
                   s |-> s, read |-> {}]
    /\ UNCHANGED <<events, row, turns, ledger, art, upload, fold, parked, clock, used>>

\* (mutant: the scan keeps each row's version beside its id)
RebuildReadPairs ==
    /\ rebuild.st = "probed"
    /\ rebuild' = [rebuild EXCEPT !.st = "read", !.read = CopiesIn(rebuild.s)]
    /\ UNCHANGED <<events, row, turns, ledger, art, upload, fold, parked, clock, used>>

RebuildRead ==
    /\ rebuild.st = "probed"
    /\ rebuild' = [rebuild EXCEPT !.st = "read",
                                  !.read = Changes \cap In(rebuild.s) \cap full]
    /\ UNCHANGED <<events, row, turns, ledger, art, upload, fold, parked, clock, used>>

\* A row whose event is gone fails the insert's foreign key, and the
\* transaction with it.
RebuildWrite ==
    /\ rebuild.st = "read"
    /\ art' = IF rebuild.read \subseteq Stored THEN (art \ In(rebuild.s)) \cup rebuild.read
              ELSE art
    /\ rebuild' = [rebuild EXCEPT !.st = "idle", !.read = {}]
    /\ UNCHANGED <<events, row, turns, ledger, upload, fold, parked, clock, used>>

-----------------------------------------------------------------------------
\* expireBodyBatch.
Expire(e) ==
    /\ e \in (OldEvents \cap Stored) \ expired
    /\ full' = full \ {e}
    /\ expired' = expired \cup {e}
    /\ UNCHANGED <<version, email, twins, row, turns, ledger, art, upload, fold, parked,
                   rebuild, clock, used>>

\* deleteSessionBatch, with a slice of one event: a session locked by anyone
\* is passed over (a fold that has written turns holds a key lock on the row);
\* a slice that found an event leaves the row for the next one; a slice that
\* found none takes the ledger rows and the row. Derived rows go by cascade.
DeleteSlice(s) ==
    /\ s \in OldSessions /\ Exists(s) /\ lock[s] = None
    /\ ~\E i \in Instances : fold[i].st = "read" /\ fold[i].s = s /\ fold[i].read # {}
    /\ IF Stored \cap In(s) # {}
       THEN \E e \in Stored \cap In(s) :
              /\ version' = [version EXCEPT ![e] = 0]
              /\ email' = [email EXCEPT ![e] = None]
              /\ full' = full \ {e} /\ expired' = expired \ {e} /\ art' = art \ {e}
              /\ twins' = twins \ {e}
              /\ UNCHANGED <<row, turns, ledger>>
       ELSE /\ ledger' = [c \in Calls |-> IF ledger[c] = s THEN None ELSE ledger[c]]
            /\ row' = [row EXCEPT ![s] = NoRow]
            /\ turns' = [turns EXCEPT ![s] = {}]
            /\ UNCHANGED <<events, art>>
    /\ UNCHANGED <<upload, fold, parked, rebuild, clock, used>>

-----------------------------------------------------------------------------
Commits(d) == \E ix \in BOOLEAN : Commit(d, ix)
Upload(d) == Begin(d) \/ Claim(d) \/ Commits(d) \/ Abort(d)
Tick(i) == Pass(i) \/ FoldRead(i) \/ FoldCommit(i) \/ FoldFail(i)
Versioned == RebuildRead \/ RebuildWrite \/ \E s \in Sessions : RebuildProbe(s)
Sweep == (\E e \in Events : Expire(e)) \/ \E s \in Sessions : DeleteSlice(s)

Next == \/ \E d \in Devices : Upload(d)
        \/ \E i \in Instances : Tick(i)
        \/ Versioned
        \/ Sweep

Spec == Init /\ [][Next]_vars

\* An open upload and an open fold run to their end, and each instance's
\* dirty loop ticks for ever. Nothing makes a laptop send.
FairSpec ==
    /\ Spec
    /\ \A d \in Devices : WF_vars(Claim(d) \/ Commits(d))
    /\ \A i \in Instances : WF_vars(Tick(i))
    /\ WF_vars(RebuildRead \/ RebuildWrite)

-----------------------------------------------------------------------------
TypeOK ==
    /\ version \in [Events -> Nat]
    /\ email \in [Events -> {PersonOf[d] : d \in Devices} \cup {None}]
    /\ full \subseteq Events /\ expired \subseteq Events /\ art \subseteq Events
    /\ twins \subseteq Events
    /\ row \in [Sessions -> [owner : {PersonOf[d] : d \in Devices} \cup {None},
                             dirty : BOOLEAN, stamp : Nat, content : Nat, cost : Nat]]
    /\ turns \in [Sessions -> SUBSET (Events \X Nat)]
    /\ ledger \in [Calls -> Sessions \cup {None}]
    /\ lock \in [Sessions -> Devices \cup {None}]
    /\ tx \in [Devices -> [st : {"idle", "open"}, batch : SUBSET Copies,
                           claimed : SUBSET Sessions, owned : SUBSET Sessions]]
    /\ fold \in [Instances -> [st : {"idle", "facts", "read"}, s : Sessions \cup {None},
                               stamp : Nat, read : SUBSET (Events \X Nat)]]
    /\ \A i \in Instances : fold[i].st # "idle" => fold[i].s \in Sessions
    /\ parked \in [Instances -> SUBSET Sessions]
    /\ rebuild \in [st : {"idle", "probed", "read"}, s : Nat,
                    read : SUBSET Events]
    /\ clock \in Nat /\ used \in [uploads : Nat, faults : Nat]

\* One transcript is one person's: two laptops that race to create a session
\* id resolve to one owner, and no event of the other is filed under it, nor
\* left behind by a deletion for the next claimant to inherit.
OneOwner == \A e \in Stored : email[e] = row[SessionOf[e]].owner /\ email[e] # None

\* A clean session's turns were folded from every copy it stores, at the
\* extraction it stores (a session being removed aside): the clearing of
\* derive_dirty never outruns a batch that landed while the fold ran. Its
\* content counter is the number of events it holds that no walked row stands
\* for: the increments of ingest and the overwrite of the fold never add twice.
CleanIsFolded ==
    \A s \in Sessions \ OldSessions :
        Exists(s) /\ ~row[s].dirty =>
            /\ turns[s] = CopiesIn(s)
            /\ row[s].content = Content(Stored \cap In(s))

\* A session's cost is its ledger rows, always: each call is priced once in
\* the whole database, whichever sessions and batches carried it, and the
\* fold leaves the sum alone.
CostIsLedger ==
    \A s \in Sessions : row[s].cost = Cardinality({c \in Calls : ledger[c] = s})

\* No walked row is born beside a stored row of the same record, whichever
\* uploads carried the two and whatever retention took of them: a re-walk that
\* renames it upgrades the row instead. Only an upload whose process has not
\* found the identity index valid makes an exception.
NoLateTwin ==
    [][\A e \in Events : version[e] = 0 /\ version'[e] # 0 =>
         Rows(e) = {} \/ e \in twins']_vars

\* Without the exception: what the store keeps only once every process that
\* serves uploads has found the index valid.
NoSecondRow == [][\A e \in Events : version[e] = 0 /\ version'[e] # 0 => Rows(e) = {}]_vars

\* The store keeps the promise of StoreContract step by step: a transaction
\* that claims session by session commits as one write of one person, and a
\* fold that read long before it commits vouches only for what is there.
Contract == INSTANCE StoreContract WITH
    People <- {PersonOf[d] : d \in Devices}, Removable <- OldSessions,
    facts <- {<<e, version[e]>> : e \in Stored},
    owner <- [s \in Sessions |-> row[s].owner],
    filed <- ledger, view <- turns,
    current <- {s \in Sessions : Exists(s) /\ ~row[s].dirty}
ImplementsContract == Contract!ContractSpec

\* Every dirty session that can be folded is: a batch that lands mid-fold is
\* folded on a later pass, a fold that fails comes back, and a session that
\* fails every time never keeps the pass from the others.
DirtyIsFolded ==
    \A s \in Sessions \ Poison : Exists(s) /\ row[s].dirty ~> ~row[s].dirty

\* Every upload ends: two batches over the same sessions in opposite orders
\* queue on the first claim instead of waiting on each other.
UploadsEnd == \A d \in Devices : []<>(tx[d].st = "idle")

\* Every stored file change has its artifact row.
ArtifactsComplete == Changes \cap Stored \subseteq art

\* A body past the window stays the tombstone.
ExpiredStaysEmpty == full \cap expired = {}
=============================================================================
