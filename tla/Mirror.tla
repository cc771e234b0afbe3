------------------------------- MODULE Mirror -------------------------------
(***************************************************************************)
(* The Slack mirror (server/slack): every instance of the server sweeps    *)
(* once a minute. A sweep first advances the live threads, those of group  *)
(* attachments and then those a session asked for itself, and after them   *)
(* says one digest about each session that is over. Slack has no           *)
(* idempotency key, so each message has a key in slack_posts, which is     *)
(* claimed before the post and settled after it; a claim that is not       *)
(* settled lapses after a lease.                                           *)
(*                                                                         *)
(* One statement of SQL or one call of Slack is one step. Between steps an *)
(* instance dies, answers get lost, people change their minds and sessions *)
(* go on. Texts, blocks, header edits, pacing, the floors on age and the   *)
(* LIMIT on sessions are left out.                                         *)
(***************************************************************************)
EXTENDS Integers, FiniteSets

CONSTANTS
  Servers, People, Sessions, Groups,
  Owner,         \* the person of a session
  Default,       \* a person's default group, or Own
  Rooms,         \* destinations: channels and the owner's own
  Private,       \* the direct message among them
  Items,         \* numbered: a thread's exchanges and milestones, oldest first
  Milestones,
  Own,           \* the thread of a session's own request
  Off,           \* no destination: mode off, a disabled group
  Gone,          \* a deleted group
  None,
  Asks, Chosen,  \* what sessions may have asked for, and people have chosen, at first
  Lease, Quiet,  \* lengths of time: of a claim, and until a session is over
  MaxAttempts, DailyCap, ReplyBatch,
  MaxTime, MaxSpent    \* bounds of a behaviour: its moments, its edits and faults

Time == 0..MaxTime
Threads == Groups \cup {Own}

DigestKey(x) == <<"session", x, None, 0>>
CapKey(p) == <<"cap", p, None, 0>>
RootKey(x, g) == <<"thread", x, g, 0>>
ReplyKey(x, g, i) == <<"reply", x, g, i>>
CloseKey(x, g) == <<"close", x, g, 0>>
Keys == {DigestKey(x) : x \in Sessions} \cup {CapKey(p) : p \in People}
        \cup {RootKey(x, g) : x \in Sessions, g \in Threads}
        \cup {CloseKey(x, g) : x \in Sessions, g \in Threads}
        \cup {ReplyKey(x, g, i) : x \in Sessions, g \in Threads, i \in Items}
NoKey == <<"none", None, None, 0>>

ASSUME MirrorAssumption ==
  /\ Asks \subseteq {"no", "on"} \cup Groups \cup Rooms /\ Chosen \subseteq Rooms \cup {Off}
  /\ Owner \in [Sessions -> People] /\ Default \in [People -> Threads]
  /\ Items \subseteq Nat \ {0} /\ Milestones \subseteq Items
  /\ {Lease, DailyCap, MaxSpent} \subseteq Nat
  /\ {Quiet, MaxAttempts, ReplyBatch, MaxTime} \subseteq Nat \ {0}
  /\ Private \in Rooms /\ {Off, Gone, None} \cap Rooms = {}
  /\ Own \notin Groups /\ Off # Gone /\ IsFiniteSet(Keys)

VARIABLES
  clock,
  prefs,       \* slack_prefs: the room of a person's standing mirror, mirror_from, live_disabled
  group,       \* slack_groups: the destination
  attached,    \* session_mirrors: "none", "on" or "off", and attached_at
  asked,       \* sessions.mirror_request: "no", "on", a group or a room
  moved,       \* sessions.updated_at
  born,        \* when an item of a session arrived, 0 before
  rows,        \* slack_posts
  slack,       \* the messages people see
  server,      \* an instance's sweep
  spent,       \* edits and faults so far
  said,        \* how often a key was said
  past         \* the room a person had chosen at the end of a moment

people == <<prefs, group, attached, past>>
work == <<asked, moved, born>>
vars == <<clock, people, work, rows, slack, server, spent, said>>

NoRow == [attempts |-> 0, claimed |-> 0, posted |-> FALSE, room |-> None, ts |-> 0]
NoOne == [x |-> None, g |-> Own, room |-> None, root |-> 0, after |-> 0,
          worth |-> FALSE, over |-> FALSE, moved |-> 0]
Idle == [stage |-> "idle", step |-> "next", now |-> 0, todo |-> {}, cur |-> NoOne,
         items |-> {}, key |-> NoKey, claim |-> 0, left |-> [p \in People |-> -1]]

Init ==
  /\ clock = 1
  /\ prefs \in [People -> [room : Chosen, from : {0}, kill : {FALSE}]]
  /\ past = [p \in People |-> [t \in Time |-> prefs[p].room]]
  /\ group = [g \in Groups |-> Private]
  /\ attached = [x \in Sessions |-> [g \in Groups |-> [state |-> "none", at |-> 0]]]
  /\ asked \in [Sessions -> Asks]
  /\ moved = [x \in Sessions |-> 1]
  /\ born = [x \in Sessions |-> [i \in Items |-> 0]]
  /\ rows = [k \in Keys |-> NoRow] /\ said = [k \in Keys |-> 0] /\ slack = {}
  /\ server = [s \in Servers |-> Idle]
  /\ spent = 0

Becomes(s, r) == server' = [server EXCEPT ![s] = r]
Step(s, st) == [server[s] EXCEPT !.step = st, !.key = NoKey, !.claim = 0]
Pause(s) == [Step(s, "next") EXCEPT !.cur = NoOne, !.items = {}]
Disturbs == spent < MaxSpent /\ spent' = spent + 1

-----------------------------------------------------------------------------
(* The selections.                                                         *)

(* Enough happened to be worth a message; quiet for long enough to be over. *)
Worth(x) == \E i \in Items : born[x][i] > 0
Over(x, t) == moved[x] + Quiet <= t
Thread(x, g, room, root, after) ==
  [NoOne EXCEPT !.x = x, !.g = g, !.room = room, !.root = root, !.after = after,
                !.worth = Worth(x), !.over = Over(x, clock)]
Digest(x, room) == [NoOne EXCEPT !.x = x, !.room = room, !.moved = moved[x]]

(* An existing thread speaks in the room its root is in.                   *)
(* (mutant: the group's present destination instead)                       *)
ThreadMoves(x, g, room, after) ==
  LET root == rows[RootKey(x, g)]
  IN Thread(x, g, room, IF root.posted THEN root.ts ELSE 0, after)
ThreadOf(x, g, room, after) ==
  LET root == rows[RootKey(x, g)]
  IN IF root.posted THEN Thread(x, g, root.room, root.ts, after)
     ELSE Thread(x, g, room, 0, after)
Closed(x, g) == rows[CloseKey(x, g)].posted
Active(x, g) == attached[x][g].state = "on"

(* groupEligible                                                           *)
GroupThreads ==
  UNION {{ThreadOf(x, g, group[g], attached[x][g].at) :
            x \in {y \in Sessions : Active(y, g) /\ ~prefs[Owner[y]].kill /\ ~Closed(y, g)}} :
         g \in {h \in Groups : group[h] \in Rooms}}

(* liveEligible: a request for a group never falls through to here; one    *)
(* for a direct message goes where the standing mirror goes.               *)
OwnThreads ==
  {ThreadOf(x, Own, IF asked[x] \in Rooms \ {Private} THEN asked[x]
                    ELSE prefs[Owner[x]].room, 0) :
     x \in {y \in Sessions :
            /\ asked[y] \in Rooms \cup {"on"} /\ prefs[Owner[y]].room # Off
            /\ \A g \in Groups : ~Active(y, g)
            /\ ~Closed(y, Own)}}

(* (mutant: no bound on the attempts)                                    *)
RetryableForEver(k, t) == ~rows[k].posted /\ rows[k].claimed + Lease < t
Retryable(k, t) == ~rows[k].posted /\ rows[k].claimed + Lease < t
                   /\ rows[k].attempts < MaxAttempts
Unsaid(k, t) == rows[k].attempts = 0 \/ Retryable(k, t)

(* eligible                                                                *)
Due(t) ==
  {Digest(x, prefs[Owner[x]].room) :
     x \in {y \in Sessions :
            /\ prefs[Owner[y]].room # Off
            /\ ~rows[RootKey(y, Own)].posted
            /\ moved[y] > prefs[Owner[y]].from /\ Over(y, t) /\ Worth(y)
            /\ Unsaid(DigestKey(y), t)}}

(* promoteDefaults: a request becomes an attachment, unless the pair has   *)
(* one, detached or not.                                                   *)
Wanted(x) == IF asked[x] = "on" THEN Default[Owner[x]] ELSE asked[x]
Promotes(x, g) == Wanted(x) = g /\ attached[x][g].state = "none"
                  /\ group[g] # Gone /\ (asked[x] = g => group[g] # Off)

-----------------------------------------------------------------------------
(* A sweep, stage by stage.                                                *)

Promote(s) ==
  /\ server[s].stage = "idle"
  /\ Becomes(s, [Idle EXCEPT !.stage = "promoted", !.now = clock])
  /\ attached' = [x \in Sessions |-> [g \in Groups |->
                    IF Promotes(x, g) THEN [state |-> "on", at |-> clock] ELSE attached[x][g]]]
  /\ UNCHANGED <<clock, prefs, group, past, work, rows, slack, spent, said>>

Select(s, from, to, todo) ==
  /\ server[s].stage = from /\ server[s].step = "next" /\ server[s].todo = {}
  /\ Becomes(s, [server[s] EXCEPT !.stage = to, !.todo = todo, !.cur = NoOne])
  /\ UNCHANGED <<clock, people, work, rows, slack, spent, said>>

SelectGroups(s) == Select(s, "promoted", "groups", GroupThreads)
SelectOwn(s) == Select(s, "groups", "own", OwnThreads)

(* The digests' pass has a moment of its own.                              *)
SelectDue(s) ==
  /\ server[s].stage = "own" /\ server[s].step = "next" /\ server[s].todo = {}
  /\ Becomes(s, [Idle EXCEPT !.stage = "digest", !.now = clock, !.todo = Due(clock)])
  /\ UNCHANGED <<clock, people, work, rows, slack, spent, said>>

EndSweep(s) ==
  /\ server[s].stage = "digest" /\ server[s].step = "next" /\ server[s].todo = {}
  /\ Becomes(s, Idle)
  /\ UNCHANGED <<clock, people, work, rows, slack, spent, said>>

(* A statement fails: the live pass gives way to the digests, the digests' *)
(* pass ends, a thread or a message is left for the next sweep.            *)
QueryFails(s) ==
  /\ Disturbs
  /\ \/ /\ server[s].stage \in {"promoted", "groups"}
        /\ server[s].step = "next" /\ server[s].todo = {}
        /\ Becomes(s, [server[s] EXCEPT !.stage = "own"])
     \/ /\ server[s].stage \in {"own", "digest"}
        /\ server[s].step = "next"
        /\ server[s].stage = "own" => server[s].todo = {}
        /\ Becomes(s, Idle)
     \/ /\ \/ server[s].step \in {"turns", "claim"}
           \/ server[s].step = "exchanges" /\ server[s].items = {}
        /\ Becomes(s, Pause(s))
  /\ UNCHANGED <<clock, people, work, rows, slack, said>>

(* An instance stops or dies.                                              *)
Die(s) ==
  /\ server[s].stage # "idle" /\ Disturbs
  /\ Becomes(s, Idle)
  /\ UNCHANGED <<clock, people, work, rows, slack, said>>

Says(r, k) == [r EXCEPT !.step = "claim", !.key = k]

(* advanceThread begins: open the root, or go on where it is.              *)
OpenThread(s) ==
  /\ server[s].stage \in {"groups", "own"} /\ server[s].step = "next"
  /\ \E c \in server[s].todo :
       LET r == [server[s] EXCEPT !.todo = @ \ {c}, !.cur = c]
       IN Becomes(s, IF c.root # 0 THEN [r EXCEPT !.step = "turns"]
                     ELSE IF c.worth THEN Says(r, RootKey(c.x, c.g)) ELSE r)
  /\ UNCHANGED <<clock, people, work, rows, slack, spent, said>>

(* A direct message whose recipient cannot be resolved: nobody in the      *)
(* workspace carries the address, or Slack is away. A thread that exists   *)
(* is in its root's room, whatever its destination is by now.              *)
Unresolved(s) ==
  /\ server[s].stage \in {"groups", "own"} /\ server[s].step = "next" /\ Disturbs
  /\ \E c \in server[s].todo :
       /\ c.room = Private \/ c.root # 0
       /\ Becomes(s, [server[s] EXCEPT !.todo = @ \ {c}])
  /\ UNCHANGED <<clock, people, work, rows, slack, said>>

(* liveTurns and then liveMilestones: the oldest without a reply.          *)
First(I, n) == {i \in I : Cardinality({j \in I : j <= i}) <= n}
Waiting(c) == {i \in Items : /\ born[c.x][i] > 0 /\ born[c.x][i] >= c.after
                             /\ ~rows[ReplyKey(c.x, c.g, i)].posted}
ReadItems(s) ==
  /\ \/ /\ server[s].step = "turns"
        /\ Becomes(s, [server[s] EXCEPT !.step = "exchanges",
                         !.items = First(Waiting(server[s].cur) \ Milestones, ReplyBatch)])
     \/ /\ server[s].step = "exchanges" /\ server[s].items = {}
        /\ Becomes(s, [server[s] EXCEPT !.step = "links",
                         !.items = First(Waiting(server[s].cur) \cap Milestones, ReplyBatch)])
  /\ UNCHANGED <<clock, people, work, rows, slack, spent, said>>

NextReply(s) ==
  /\ server[s].step \in {"exchanges", "links"}
  /\ \E i \in server[s].items :
       LET r == [server[s] EXCEPT !.items = @ \ {i}]
       IN /\ \A j \in r.items : i <= j
          /\ Becomes(s, Says(r, ReplyKey(r.cur.x, r.cur.g, i)))
  /\ UNCHANGED <<clock, people, work, rows, slack, spent, said>>

(* After the replies: the closing one if the session was over when the     *)
(* thread was selected, else an edit of the header.                        *)
EndReplies(s) ==
  /\ server[s].step = "links" /\ server[s].items = {}
  /\ LET c == server[s].cur
     IN Becomes(s, IF c.over THEN Says(server[s], CloseKey(c.x, c.g)) ELSE Pause(s))
  /\ UNCHANGED <<clock, people, work, rows, slack, spent, said>>

(* pass: the session that has been quiet longest, under its owner's        *)
(* ceiling, counted when the owner is met first.                           *)
KeysOf(p) == {k \in Keys : k = CapKey(p) \/ \E x \in Sessions : k[2] = x /\ Owner[x] = p}
Sent(p) == Cardinality({k \in KeysOf(p) : rows[k].posted})
LeftFor(s, p) == IF server[s].left[p] >= 0 THEN server[s].left[p]
                 ELSE IF Sent(p) < DailyCap THEN DailyCap - Sent(p) ELSE 0
Offer(s) ==
  /\ server[s].stage = "digest" /\ server[s].step = "next"
  /\ \E c \in server[s].todo :
       /\ \A d \in server[s].todo : c.moved <= d.moved
       /\ LET p == Owner[c.x]
              r == [server[s] EXCEPT !.todo = @ \ {c}, !.cur = c, !.left[p] = LeftFor(s, p)]
          IN Becomes(s, Says(r, IF LeftFor(s, p) = 0 THEN CapKey(p) ELSE DigestKey(c.x)))
  /\ UNCHANGED <<clock, people, work, rows, slack, spent, said>>

-----------------------------------------------------------------------------
(* One message: claim, post, settle.                                       *)

Kind(s) == server[s].key[1]

(* Where a sweep goes on when its message is out, and when it is not: a    *)
(* reply that fails stalls its thread, one that is somebody else's does    *)
(* not.                                                                    *)
Exchange(s) == server[s].key[4] \notin Milestones
AfterReply(s) == Step(s, IF Exchange(s) THEN "exchanges" ELSE "links")
Refuse(s) == IF Kind(s) = "reply" THEN AfterReply(s) ELSE Pause(s)
Opened(s) == [Step(s, "turns") EXCEPT !.cur.root = server[s].claim]
Spend(s) == [Pause(s) EXCEPT !.left[Owner[server[s].cur.x]] = @ - 1]
Settled(s) == CASE Kind(s) = "thread" -> Opened(s)
                [] Kind(s) = "reply" -> AfterReply(s)
                [] Kind(s) = "session" -> Spend(s)
                [] OTHER -> Pause(s)

(* (mutant: the conflict branch takes a settled row too)                 *)
ClaimSettled(s) ==
  /\ server[s].step = "claim"
  /\ LET k == server[s].key
         n == rows[k].attempts + 1
     IN IF n = 1 \/ (rows[k].claimed + Lease < server[s].now /\ n <= MaxAttempts)
        THEN /\ rows' = [rows EXCEPT ![k].attempts = n, ![k].claimed = server[s].now]
             /\ Becomes(s, [server[s] EXCEPT !.step = "post", !.claim = n])
        ELSE Becomes(s, Refuse(s)) /\ UNCHANGED rows
  /\ UNCHANGED <<clock, people, work, slack, spent, said>>

(* claimKey: the conflict branch mirrors the selection.                    *)
Claim(s) ==
  /\ server[s].step = "claim"
  /\ LET k == server[s].key
         n == rows[k].attempts + 1
     IN IF rows[k].attempts = 0 \/ Retryable(k, server[s].now)
        THEN /\ rows' = [rows EXCEPT ![k].attempts = n, ![k].claimed = server[s].now]
             /\ Becomes(s, [server[s] EXCEPT !.step = "post", !.claim = n])
        ELSE Becomes(s, Refuse(s)) /\ UNCHANGED rows
  /\ UNCHANGED <<clock, people, work, slack, spent, said>>

Message(s) == [key |-> server[s].key, ts |-> server[s].claim, room |-> server[s].cur.room,
               root |-> server[s].cur.root, moved |-> server[s].cur.moved]
Lands(s) == /\ slack' = slack \cup {Message(s)}
            /\ said' = [said EXCEPT ![server[s].key] = @ + 1]

Post(s) ==
  /\ server[s].step = "post"
  /\ Lands(s)
  /\ Becomes(s, [server[s] EXCEPT !.step = "settle"])
  /\ UNCHANGED <<clock, people, work, rows, spent>>

(* Slack refuses, for good or for now, or the destination cannot be        *)
(* resolved: recordFailure. A permanent refusal spends every attempt.      *)
PostFails(s) ==
  /\ server[s].step = "post" /\ Disturbs
  /\ \/ rows' = [rows EXCEPT ![server[s].key].attempts = MaxAttempts]
     \/ UNCHANGED rows
  /\ Becomes(s, Pause(s))
  /\ UNCHANGED <<clock, people, work, slack, said>>

(* Slack took the message and the answer was lost.                         *)
AnswerLost(s) ==
  /\ server[s].step = "post" /\ Disturbs
  /\ Lands(s)
  /\ Becomes(s, Pause(s))
  /\ UNCHANGED <<clock, people, work, rows>>

(* markPosted                                                              *)
Settle(s) ==
  /\ server[s].step = "settle"
  /\ rows' = [rows EXCEPT ![server[s].key] =
                [@ EXCEPT !.posted = TRUE, !.room = server[s].cur.room, !.ts = server[s].claim]]
  /\ Becomes(s, Settled(s))
  /\ UNCHANGED <<clock, people, work, slack, spent, said>>

SettleFails(s) ==
  /\ server[s].step = "settle" /\ Disturbs
  /\ Becomes(s, IF Kind(s) = "session" THEN Spend(s) ELSE Pause(s))
  /\ UNCHANGED <<clock, people, work, rows, slack, said>>

-----------------------------------------------------------------------------
(* The people and their sessions.                                          *)

(* An upload brings an exchange or a milestone.                            *)
Upload(x, i) ==
  /\ born[x][i] = 0 /\ \A j \in Items : j < i => born[x][j] > 0
  /\ born' = [born EXCEPT ![x][i] = clock]
  /\ moved' = [moved EXCEPT ![x] = clock]
  /\ UNCHANGED <<clock, people, asked, rows, slack, server, spent, said>>

(* handleSessionMirror                                                     *)
Ask(x) ==
  /\ asked[x] = "no" /\ Disturbs
  /\ asked' = [asked EXCEPT ![x] = "on"]
  /\ moved' = [moved EXCEPT ![x] = clock]
  /\ UNCHANGED <<clock, people, born, rows, slack, server, said>>

(* (mutant: only opting in moves the watermark)                          *)
SavePrefsKeeping(p, r) ==
  /\ Disturbs
  /\ prefs' = [prefs EXCEPT ![p].room = r,
                           ![p].from = IF r = Off \/ prefs[p].room # Off THEN @ ELSE clock]
  /\ past' = [past EXCEPT ![p] = [t \in Time |-> IF t >= clock THEN r ELSE @[t]]]
  /\ UNCHANGED <<clock, group, attached, work, rows, slack, server, said>>

(* savePrefs: every choice of a destination moves the watermark.           *)
SavePrefs(p, r) ==
  /\ Disturbs
  /\ prefs' = [prefs EXCEPT ![p].room = r, ![p].from = IF r = Off THEN @ ELSE clock]
  /\ past' = [past EXCEPT ![p] = [t \in Time |-> IF t >= clock THEN r ELSE @[t]]]
  /\ UNCHANGED <<clock, group, attached, work, rows, slack, server, said>>

SetLiveKill(p) ==
  /\ Disturbs
  /\ prefs' = [prefs EXCEPT ![p].kill = ~@]
  /\ UNCHANGED <<clock, group, attached, past, work, rows, slack, server, said>>

Attach(x, g) ==
  /\ group[g] # Gone /\ Disturbs
  /\ attached' = [attached EXCEPT ![x][g] = [state |-> "on", at |-> clock]]
  /\ UNCHANGED <<clock, prefs, group, past, work, rows, slack, server, said>>

(* The API's detach, and the Stop button under a root.                     *)
Detach(x, g) ==
  /\ Active(x, g) /\ Disturbs
  /\ attached' = [attached EXCEPT ![x][g].state = "off"]
  /\ UNCHANGED <<clock, prefs, group, past, work, rows, slack, server, said>>

(* saveGroup: another destination, or disabled.                            *)
EditGroup(g, r) ==
  /\ group[g] \notin {r, Gone} /\ Disturbs
  /\ group' = [group EXCEPT ![g] = r]
  /\ UNCHANGED <<clock, prefs, attached, past, work, rows, slack, server, said>>

(* deleteGroup: its attachments go with it.                                *)
DeleteGroup(g) ==
  /\ group[g] # Gone /\ Disturbs
  /\ group' = [group EXCEPT ![g] = Gone]
  /\ attached' = [x \in Sessions |-> [attached[x] EXCEPT ![g] = [state |-> "none", at |-> 0]]]
  /\ UNCHANGED <<clock, prefs, past, work, rows, slack, server, said>>

Tick ==
  /\ clock < MaxTime
  /\ clock' = clock + 1
  /\ UNCHANGED <<people, work, rows, slack, server, spent, said>>

-----------------------------------------------------------------------------
Speak(s) == Claim(s) \/ Post(s) \/ PostFails(s) \/ AnswerLost(s) \/ Settle(s) \/ SettleFails(s)
Sweep(s) ==
  \/ Promote(s) \/ SelectGroups(s) \/ SelectOwn(s) \/ SelectDue(s) \/ EndSweep(s)
  \/ QueryFails(s) \/ Die(s) \/ OpenThread(s) \/ Unresolved(s) \/ ReadItems(s)
  \/ NextReply(s) \/ EndReplies(s) \/ Offer(s) \/ Speak(s)
Choose ==
  \/ \E x \in Sessions, i \in Items : Upload(x, i)
  \/ \E x \in Sessions : Ask(x)
  \/ \E p \in People, r \in Rooms \cup {Off} : SavePrefs(p, r)
  \/ \E p \in People : SetLiveKill(p)
  \/ \E x \in Sessions, g \in Groups : Attach(x, g) \/ Detach(x, g)
  \/ \E g \in Groups, r \in Rooms \cup {Off} : EditGroup(g, r)
  \/ \E g \in Groups : DeleteGroup(g)
Next == Tick \/ Choose \/ \E s \in Servers : Sweep(s)

Spec == Init /\ [][Next]_vars

-----------------------------------------------------------------------------
Rows == [attempts : 0..MaxAttempts, claimed : Time, posted : BOOLEAN,
         room : Rooms \cup {None}, ts : 0..MaxAttempts]
Candidates == [x : Sessions \cup {None}, g : Threads, room : Rooms \cup {None},
               root : 0..MaxAttempts, after : Time, worth : BOOLEAN, over : BOOLEAN, moved : Time]
Sweeps == [stage : {"idle", "promoted", "groups", "own", "digest"},
           step : {"next", "turns", "exchanges", "links", "claim", "post", "settle"},
           now : Time, todo : SUBSET Candidates, cur : Candidates, items : SUBSET Items,
           key : Keys \cup {NoKey}, claim : 0..MaxAttempts,
           left : [People -> -1..DailyCap]]
Messages == [key : Keys, ts : 1..MaxAttempts, room : Rooms, root : 0..MaxAttempts, moved : Time]

(* Every value the mirror, the people and the sessions write has its type. *)
TypeOK ==
  /\ clock \in Time
  /\ prefs \in [People -> [room : Rooms \cup {Off}, from : Time, kill : BOOLEAN]]
  /\ past \in [People -> [Time -> Rooms \cup {Off}]]
  /\ group \in [Groups -> Rooms \cup {Off, Gone}]
  /\ attached \in [Sessions -> [Groups -> [state : {"none", "on", "off"}, at : Time]]]
  /\ asked \in [Sessions -> {"no", "on"} \cup Groups \cup Rooms]
  /\ moved \in [Sessions -> Time] /\ born \in [Sessions -> [Items -> Time]]
  /\ rows \in [Keys -> Rows] /\ said \in [Keys -> Nat]
  /\ slack \subseteq Messages
  /\ server \in [Servers -> Sweeps]
  /\ spent \in 0..MaxSpent

(* However instances race, die and lose answers, a key is said no more     *)
(* often than it was claimed, and so at most MaxAttempts times: no two     *)
(* instances ever speak on one claim, and none speaks twice on its own. It *)
(* follows from ImplementsContract, below.                                 *)
RepeatsAreClaims == \A k \in Keys : said[k] <= rows[k].attempts

(* A reply, and the closing one, stands under a root of its own thread, in *)
(* the room that root is in, whatever happened to the group's destination  *)
(* since, and whichever instance had to open the root again.               *)
RepliesInTheirThread ==
  \A m \in slack : m.key[1] \in {"reply", "close"} =>
    \E r \in slack : /\ r.key = RootKey(m.key[2], m.key[3])
                     /\ r.ts = m.root /\ r.room = m.room

(* A digest reaches only the room its owner had chosen when the session    *)
(* last moved, as the sweep saw it: turning the mirror on, or elsewhere,   *)
(* never sends what finished for another audience or for none.             *)
ChosenAudience ==
  \A m \in slack : m.key[1] = "session" => past[Owner[m.key[2]]][m.moved] = m.room

(* The mirror keeps the promise of MirrorContract for every key, step by   *)
(* step: what is settled was read by somebody and is never claimed again,  *)
(* and the claims of instances that race are spent one message each.       *)
Contract == INSTANCE MirrorContract WITH
  MaxClaims <- MaxAttempts, claims <- [k \in Keys |-> rows[k].attempts],
  settled <- {k \in Keys : rows[k].posted}
ImplementsContract == Contract!ContractSpec

(* What the comment on liveClose says: a session with a thread has its     *)
(* summary there, and not in a digest besides.                             *)
SummaryOnce ==
  \A x \in Sessions, g \in Threads : ~(rows[DigestKey(x)].posted /\ Closed(x, g))
=============================================================================
