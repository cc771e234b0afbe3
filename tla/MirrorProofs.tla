---------------------------- MODULE MirrorProofs ----------------------------
(* For any number of instances, people, sessions, groups and faults: types, *)
(* RepeatsAreClaims, RepliesInTheirThread and ChosenAudience of Mirror, and *)
(* every step a step of MirrorContract.                                     *)
EXTENDS Mirror, FiniteSetTheorems, TLAPS

USE MirrorAssumption

(* A thread's root is in slack; a candidate names its room by it, or may   *)
(* still open it; a digest's is of the room its owner had chosen.          *)
Rooted(c) == \E m \in slack : m.key = RootKey(c.x, c.g) /\ m.ts = c.root /\ m.room = c.room
ThreadOK(c) == c.x \in Sessions /\ c.room \in Rooms /\ (c.root # 0 => Rooted(c))
DigestOK(c) == c.x \in Sessions /\ c.room \in Rooms
               /\ c.moved < clock /\ past[Owner[c.x]][c.moved] = c.room

(* What a sweep is about to say it may say.                                *)
Speaks == {"claim", "post", "settle"}
KeyOK(q) ==
  \/ q.key = DigestKey(q.cur.x) /\ DigestOK(q.cur) /\ q.left[Owner[q.cur.x]] >= 0
  \/ q.key = CapKey(Owner[q.cur.x]) /\ DigestOK(q.cur)
  \/ q.key = RootKey(q.cur.x, q.cur.g) /\ ThreadOK(q.cur)
  \/ q.key = CloseKey(q.cur.x, q.cur.g) /\ ThreadOK(q.cur) /\ q.cur.root # 0
  \/ /\ \E i \in Items : q.key = ReplyKey(q.cur.x, q.cur.g, i)
     /\ ThreadOK(q.cur) /\ q.cur.root # 0

TodoOK(q) == \A c \in q.todo : /\ q.stage \in {"groups", "own"} => ThreadOK(c)
                               /\ q.stage = "digest" => DigestOK(c)
CurOK(q) == /\ q.step \in {"turns", "exchanges", "links"} => ThreadOK(q.cur) /\ q.cur.root # 0
            /\ q.step \in Speaks => KeyOK(q)

(* A claim is spent by one message.                                        *)
ClaimOK(q) == q.step \in {"post", "settle"} => q.claim \in 1..rows[q.key].attempts
HeardOK(q) ==
  /\ q.step = "settle" =>
       \E m \in slack : m.key = q.key /\ m.ts = q.claim /\ m.room = q.cur.room
  /\ q.step = "post" => \A m \in slack : ~(m.key = q.key /\ m.ts = q.claim)
SweepOK(q) == q \in Sweeps /\ TodoOK(q) /\ CurOK(q) /\ ClaimOK(q) /\ HeardOK(q)

Apart == \A s, t \in Servers :
  s # t /\ server[s].step = "post" /\ server[t].step = "post" /\ server[s].key = server[t].key
    => server[s].claim # server[t].claim

Landed(k) == {m.ts : m \in {n \in slack : n.key = k}}
RowsOK ==
  \A k \in Keys : rows[k].posted =>
    /\ rows[k].room \in Rooms /\ rows[k].ts >= 1
    /\ \E m \in slack : m.key = k /\ m.ts = rows[k].ts /\ m.room = rows[k].room
Numbered == \A m \in slack : m.ts <= rows[m.key].attempts
Counted == \A k \in Keys : said[k] = Cardinality(Landed(k))
Watermark ==
  \A p \in People : prefs[p].room # Off =>
    \A t \in Time : t >= prefs[p].from => past[p][t] = prefs[p].room
Passed == \A m \in slack : m.key[1] = "session" =>
    m.key[2] \in Sessions /\ m.moved < clock /\ past[Owner[m.key[2]]][m.moved] = m.room

MirrorInv ==
  /\ TypeOK /\ RowsOK /\ Numbered /\ Counted /\ Watermark /\ Passed /\ RepliesInTheirThread
  /\ Apart /\ \A s \in Servers : SweepOK(server[s])

-----------------------------------------------------------------------------
LEMMA KeysAre ==
  /\ \A x \in Sessions : DigestKey(x) \in Keys
  /\ \A p \in People : CapKey(p) \in Keys
  /\ \A x \in Sessions, g \in Threads :
       /\ RootKey(x, g) \in Keys /\ CloseKey(x, g) \in Keys
       /\ \A i \in Items : ReplyKey(x, g, i) \in Keys
BY DEF Keys

LEMMA KeyIs ==
  ASSUME NEW q \in Sweeps, KeyOK(q)
  PROVE  /\ q.key \in Keys /\ q.cur.room \in Rooms /\ q.cur.x \in Sessions
         /\ Owner[q.cur.x] \in People
         /\ q.key[1] = "session" =>
              q.key = DigestKey(q.cur.x) /\ DigestOK(q.cur) /\ q.left[Owner[q.cur.x]] >= 0
         /\ q.key[1] = "thread" => q.key = RootKey(q.cur.x, q.cur.g) /\ ThreadOK(q.cur)
         /\ q.key[1] \in {"reply", "close"} =>
              /\ ThreadOK(q.cur) /\ q.cur.root # 0
              /\ q.key[2] = q.cur.x /\ q.key[3] = q.cur.g
<1>1. q.cur \in Candidates
  BY DEF Sweeps
<1>2. q.cur.x \in Sessions /\ q.cur.room \in Rooms /\ q.cur.g \in Threads
  BY <1>1 DEF Candidates, KeyOK, DigestOK, ThreadOK
<1>3. Owner[q.cur.x] \in People
  BY <1>2
<1>4. q.key \in Keys
  BY <1>2, <1>3, KeysAre DEF KeyOK
<1>5. /\ q.key[1] = "session" => q.key = DigestKey(q.cur.x) /\ DigestOK(q.cur)
                                 /\ q.left[Owner[q.cur.x]] >= 0
      /\ q.key[1] = "thread" => q.key = RootKey(q.cur.x, q.cur.g) /\ ThreadOK(q.cur)
      /\ q.key[1] \in {"reply", "close"} =>
              /\ ThreadOK(q.cur) /\ q.cur.root # 0
              /\ q.key[2] = q.cur.x /\ q.key[3] = q.cur.g
  BY DEF KeyOK, DigestKey, CapKey, RootKey, CloseKey, ReplyKey
<1> QED BY <1>2, <1>3, <1>4, <1>5

LEMMA KeyFinds ==
  ASSUME NEW k \in Keys
  PROVE  k[1] = "session" => k[2] \in Sessions
BY DEF Keys, DigestKey, CapKey, RootKey, CloseKey, ReplyKey

LEMMA LandedIs ==
  ASSUME NEW k \in Keys, slack \subseteq Messages
  PROVE  Landed(k) \subseteq 1..MaxAttempts /\ IsFiniteSet(Landed(k)) /\ Cardinality(Landed(k)) \in Nat
<1>1. Landed(k) \subseteq 1..MaxAttempts
  BY DEF Landed, Messages
<1>2. IsFiniteSet(1..MaxAttempts)
  BY FS_Interval
<1>3. IsFiniteSet(Landed(k))
  BY <1>1, <1>2, FS_Subset
<1> QED BY <1>1, <1>3, FS_CardinalityType

(* What a sweep relies on only grows.                                      *)
LEMMA Stays ==
  ASSUME MirrorInv, NEW q \in Sweeps, SweepOK(q), clock' \in Time, clock' >= clock,
         slack \subseteq slack', slack' \subseteq Messages,
         \A p \in People, t \in Time : t < clock => past'[p][t] = past[p][t],
         \A k \in Keys : rows'[k].attempts \in Nat /\ rows'[k].attempts >= rows[k].attempts,
         q.step = "post" => \A m \in slack' \ slack : ~(m.key = q.key /\ m.ts = q.claim)
  PROVE  SweepOK(q)'
<1>1. ASSUME NEW c, ThreadOK(c) PROVE ThreadOK(c)'
  BY <1>1 DEF ThreadOK, Rooted
<1>2. ASSUME NEW c \in Candidates, DigestOK(c) PROVE DigestOK(c)'
  <2>1. Owner[c.x] \in People /\ c.moved \in Time /\ c.moved < clock /\ clock \in Time
    BY <1>2 DEF DigestOK, Candidates, MirrorInv, TypeOK
  <2> QED BY <1>2, <2>1 DEF DigestOK, Time
<1>3. q.cur \in Candidates /\ q.todo \subseteq Candidates
  BY DEF Sweeps
<1>4. TodoOK(q)'
  BY <1>1, <1>2, <1>3 DEF SweepOK, TodoOK
<1>5. CurOK(q)'
  BY <1>1, <1>2, <1>3 DEF SweepOK, CurOK, KeyOK
<1>6. ClaimOK(q)'
  <2>1. ASSUME q.step \in {"post", "settle"} PROVE q.claim \in 1..rows'[q.key].attempts
    <3>1. q.key \in Keys
      BY <2>1, KeyIs DEF SweepOK, CurOK, Speaks
    <3>2. rows[q.key].attempts \in Nat /\ rows'[q.key].attempts \in Nat
          /\ rows'[q.key].attempts >= rows[q.key].attempts
      BY <3>1 DEF MirrorInv, TypeOK, Rows
    <3>3. q.claim \in 1..rows[q.key].attempts
      BY <2>1 DEF SweepOK, ClaimOK
    <3> QED BY <3>2, <3>3
  <2> QED BY <2>1 DEF ClaimOK
<1>7. HeardOK(q)'
  BY DEF SweepOK, HeardOK
<1> QED BY <1>4, <1>5, <1>6, <1>7 DEF SweepOK

OutsideOK ==
  /\ clock \in Time /\ spent \in 0..MaxSpent
  /\ prefs \in [People -> [room : Rooms \cup {Off}, from : Time, kill : BOOLEAN]]
  /\ past \in [People -> [Time -> Rooms \cup {Off}]]
  /\ group \in [Groups -> Rooms \cup {Off, Gone}]
  /\ attached \in [Sessions -> [Groups -> [state : {"none", "on", "off"}, at : Time]]]
  /\ asked \in [Sessions -> {"no", "on"} \cup Groups \cup Rooms]
  /\ moved \in [Sessions -> Time] /\ born \in [Sessions -> [Items -> Time]]

LEMMA Outside == ASSUME TypeOK PROVE OutsideOK
BY DEF TypeOK, OutsideOK

LEMMA At ==
  ASSUME MirrorInv, NEW s \in Servers
  PROVE  server[s] \in Sweeps /\ SweepOK(server[s]) /\ OutsideOK
BY Outside DEF MirrorInv, SweepOK

(* A step of one sweep, given what it leaves behind.                       *)
LEMMA Moves ==
  ASSUME MirrorInv, NEW s \in Servers, NEW q \in Sweeps, SweepOK(q)',
         server' = [server EXCEPT ![s] = q], OutsideOK', Watermark',
         rows' \in [Keys -> Rows], said' \in [Keys -> Nat], slack' \subseteq Messages,
         RowsOK', Numbered', Counted', Passed', RepliesInTheirThread',
         clock' = clock, slack \subseteq slack', past' = past,
         \A k \in Keys : rows'[k].attempts \in Nat /\ rows'[k].attempts >= rows[k].attempts,
         \A t \in Servers \ {s} : server[t].step = "post" =>
           /\ q.step = "post" /\ q.key = server[t].key => q.claim # server[t].claim
           /\ \A m \in slack' \ slack : ~(m.key = server[t].key /\ m.ts = server[t].claim)
  PROVE  MirrorInv'
<1>1. server \in [Servers -> Sweeps] /\ clock \in Time
  BY DEF MirrorInv, TypeOK
<1>2. server' \in [Servers -> Sweeps] /\ server'[s] = q
      /\ \A t \in Servers \ {s} : server'[t] = server[t]
  BY <1>1
<1>3. TypeOK'
  BY <1>2 DEF OutsideOK, TypeOK
<1>4. Apart'
  <2> SUFFICES ASSUME NEW t \in Servers, NEW u \in Servers, t # u,
                      server'[t].step = "post", server'[u].step = "post",
                      server'[t].key = server'[u].key
               PROVE  server'[t].claim # server'[u].claim
    BY DEF Apart
  <2>1. CASE t = s
    BY <2>1, <1>2
  <2>2. CASE u = s
    BY <2>2, <1>2
  <2>3. CASE t # s /\ u # s
    BY <2>3, <1>2 DEF MirrorInv, Apart
  <2> QED BY <2>1, <2>2, <2>3
<1>5. ASSUME NEW t \in Servers PROVE SweepOK(server[t])'
  <2>1. PICK r \in Sweeps : r = server'[t]
    BY <1>2
  <2>2. CASE t = s
    BY <2>1, <2>2, <1>2 DEF SweepOK, TodoOK, CurOK, KeyOK, ClaimOK, HeardOK
  <2>3. CASE t # s
    <3>1. r = server[t] /\ SweepOK(r)
      BY <2>1, <2>3, <1>2 DEF MirrorInv
    <3>2. \A p \in People, v \in Time : v < clock => past'[p][v] = past[p][v]
      OBVIOUS
    <3>3. clock' >= clock /\ clock' \in Time
      BY <1>1 DEF Time
    <3>4. SweepOK(r)'
      BY <3>1, <3>2, <3>3, <2>3, Stays
    <3> QED BY <3>4, <2>1
  <2> QED BY <2>2, <2>3
<1> QED BY <1>3, <1>4, <1>5 DEF MirrorInv

Quietly == UNCHANGED <<prefs, past, rows, slack, said>>

(* A step of a sweep that says and settles nothing.                        *)
LEMMA Turns ==
  ASSUME MirrorInv, NEW s \in Servers, NEW q, SweepOK(q), q.step # "post",
         server' = [server EXCEPT ![s] = q], OutsideOK', Quietly, clock' = clock
  PROVE  MirrorInv'
<1>1. /\ rows \in [Keys -> Rows] /\ said \in [Keys -> Nat] /\ slack \subseteq Messages
      /\ clock \in Time
  BY DEF MirrorInv, TypeOK
<1>2. SweepOK(q)' /\ q \in Sweeps
  BY DEF Quietly, SweepOK, TodoOK, CurOK, KeyOK, ClaimOK, HeardOK, ThreadOK, DigestOK, Rooted
<1>3. Watermark' /\ RowsOK' /\ Numbered' /\ Counted' /\ Passed' /\ RepliesInTheirThread'
  BY DEF Quietly, MirrorInv, Watermark, RowsOK, Numbered, Counted, Landed, Passed,
         RepliesInTheirThread
<1>4. \A k \in Keys : rows'[k].attempts \in Nat /\ rows'[k].attempts >= rows[k].attempts
  BY <1>1 DEF Quietly, Rows
<1> QED BY <1>1, <1>2, <1>3, <1>4, Moves DEF Quietly

(* A step of the people, the sessions or the clock.                        *)
LEMMA Edits ==
  ASSUME MirrorInv, OutsideOK', Watermark', UNCHANGED <<rows, slack, server, said>>,
         clock' >= clock,
         \A p \in People, t \in Time : t < clock => past'[p][t] = past[p][t]
  PROVE  MirrorInv'
<1>1. /\ rows \in [Keys -> Rows] /\ slack \subseteq Messages /\ clock \in Time
      /\ server \in [Servers -> Sweeps]
  BY DEF MirrorInv, TypeOK
<1>2. TypeOK'
  BY DEF MirrorInv, TypeOK, OutsideOK
<1>3. RowsOK' /\ Numbered' /\ Counted' /\ RepliesInTheirThread' /\ Apart'
  BY DEF MirrorInv, RowsOK, Numbered, Counted, Landed, RepliesInTheirThread, Apart
<1>4. Passed'
  <2> SUFFICES ASSUME NEW m \in slack, m.key[1] = "session"
               PROVE  /\ m.key[2] \in Sessions /\ m.moved < clock'
                      /\ past'[Owner[m.key[2]]][m.moved] = m.room
    BY DEF Passed
  <2>1. /\ m.key[2] \in Sessions /\ m.moved < clock /\ past[Owner[m.key[2]]][m.moved] = m.room
    BY DEF MirrorInv, Passed
  <2>2. Owner[m.key[2]] \in People /\ m.moved \in Time
    BY <2>1, <1>1 DEF Messages
  <2>3. m.moved \in Int /\ clock \in Int /\ clock' \in Int
    BY <2>2, <1>1 DEF Time, OutsideOK
  <2>4. m.moved < clock'
    BY <2>1, <2>3
  <2> QED BY <2>1, <2>2, <2>4
<1>5. ASSUME NEW t \in Servers PROVE SweepOK(server[t])'
  <2>1. PICK r \in Sweeps : r = server[t]
    BY <1>1
  <2>2. SweepOK(r)
    BY <2>1 DEF MirrorInv
  <2>3. \A k \in Keys : rows'[k].attempts \in Nat /\ rows'[k].attempts >= rows[k].attempts
    BY <1>1 DEF Rows
  <2>4. SweepOK(r)'
    BY <1>1, <2>2, <2>3, Stays DEF OutsideOK
  <2> QED BY <2>1, <2>4
<1> QED BY <1>2, <1>3, <1>4, <1>5 DEF MirrorInv

LEMMA RecordsAre == NoOne \in Candidates /\ Idle \in Sweeps /\ Idle.step = "next" /\ Idle.todo = {}
                    /\ Idle.left \in [People -> -1..DailyCap] /\ NoKey \in Keys \cup {NoKey}
<1>1. Own \in Threads /\ 0 \in Time
  BY DEF Threads, Time
<1>2. NoOne \in Candidates
  BY <1>1 DEF NoOne, Candidates
<1>3. Idle \in Sweeps /\ Idle.step = "next" /\ Idle.todo = {}
      /\ Idle.left \in [People -> -1..DailyCap]
  BY <1>1, <1>2 DEF Idle, Sweeps
<1> QED BY <1>2, <1>3

LEMMA StepIs ==
  ASSUME NEW s \in Servers, server[s] \in Sweeps,
         NEW st \in {"next", "turns", "exchanges", "links"}
  PROVE  /\ Step(s, st) \in Sweeps /\ Step(s, st).step = st /\ Step(s, st).cur = server[s].cur
         /\ Step(s, st).todo = server[s].todo /\ Step(s, st).items = server[s].items
         /\ Step(s, st).stage = server[s].stage /\ Step(s, st).left = server[s].left
<1>1. NoKey \in Keys \cup {NoKey} /\ 0 \in 0..MaxAttempts
  OBVIOUS
<1> QED BY <1>1 DEF Step, Sweeps

LEMMA PauseIs ==
  ASSUME MirrorInv, NEW s \in Servers
  PROVE  /\ Pause(s) \in Sweeps /\ Pause(s).step = "next" /\ Pause(s).todo = server[s].todo
         /\ Pause(s).stage = server[s].stage /\ Pause(s).left = server[s].left
         /\ SweepOK(Pause(s))
<1>1. server[s] \in Sweeps /\ SweepOK(server[s])
  BY At
<1>2. /\ Pause(s) \in Sweeps /\ Pause(s).step = "next" /\ Pause(s).todo = server[s].todo
      /\ Pause(s).stage = server[s].stage /\ Pause(s).left = server[s].left
  <2>1. PICK p : p = Step(s, "next")
    OBVIOUS
  <2>2. /\ p \in Sweeps /\ p.step = "next" /\ p.todo = server[s].todo
        /\ p.stage = server[s].stage /\ p.left = server[s].left
    BY <1>1, <2>1, StepIs
  <2>3. Pause(s) = [p EXCEPT !.cur = NoOne, !.items = {}]
    BY <2>1 DEF Pause
  <2> QED BY <2>2, <2>3, RecordsAre DEF Sweeps
<1> QED BY <1>1, <1>2 DEF SweepOK, TodoOK, CurOK, ClaimOK, HeardOK, Speaks

LEMMA Rests ==
  ASSUME NEW q \in Sweeps, q.step = "next", TodoOK(q)
  PROVE  SweepOK(q) /\ q.step # "post"
BY DEF SweepOK, CurOK, ClaimOK, HeardOK, Speaks

LEMMA FaultOK == ASSUME MirrorInv, Disturbs PROVE spent' \in 0..MaxSpent
BY DEF MirrorInv, TypeOK, Disturbs

-----------------------------------------------------------------------------
(* The selections.                                                         *)

LEMMA ThreadIs ==
  ASSUME MirrorInv, NEW x \in Sessions, NEW g \in Threads, NEW room \in Rooms, NEW after \in Time
  PROVE  ThreadOf(x, g, room, after) \in Candidates /\ ThreadOK(ThreadOf(x, g, room, after))
<1> DEFINE root == rows[RootKey(x, g)]
<1>1. RootKey(x, g) \in Keys /\ root \in Rows
  BY KeysAre DEF MirrorInv, TypeOK
<1>2. PICK w \in BOOLEAN : w = Worth(x)
  BY DEF Worth
<1>3. PICK o \in BOOLEAN : o = Over(x, clock)
  <2>1. moved[x] + Quiet \in Int /\ clock \in Int
    BY Outside DEF MirrorInv, OutsideOK, Time
  <2>2. (moved[x] + Quiet <= clock) \in BOOLEAN
    BY <2>1
  <2>3. Over(x, clock) \in BOOLEAN
    BY <2>2, Zenon DEF Over
  <2> QED BY <2>3, Zenon
<1>4. ASSUME NEW to \in Rooms, NEW at \in 0..MaxAttempts
      PROVE  /\ Thread(x, g, to, at, after) \in Candidates
             /\ Thread(x, g, to, at, after).x = x /\ Thread(x, g, to, at, after).g = g
             /\ Thread(x, g, to, at, after).room = to /\ Thread(x, g, to, at, after).root = at
  <2>1. Thread(x, g, to, at, after) =
          [x |-> x, g |-> g, room |-> to, root |-> at, after |-> after,
           worth |-> w, over |-> o, moved |-> 0]
    <3>1. Thread(x, g, to, at, after) =
            [NoOne EXCEPT !.x = x, !.g = g, !.room = to, !.root = at, !.after = after,
                          !.worth = w, !.over = o]
      BY <1>2, <1>3, Zenon DEF Thread
    <3> QED BY <3>1 DEF NoOne
  <2>2. 0 \in Time
    BY DEF Time
  <2> QED BY <2>1, <2>2 DEF Candidates
<1>5. CASE root.posted
  <2>1. root.room \in Rooms /\ root.ts \in 0..MaxAttempts
    BY <1>1, <1>5 DEF MirrorInv, RowsOK, Rows
  <2>2. PICK c : c = Thread(x, g, root.room, root.ts, after)
    OBVIOUS
  <2>3. c \in Candidates /\ c.x = x /\ c.g = g /\ c.room = root.room /\ c.root = root.ts
    BY <2>1, <2>2, <1>4
  <2>4. \E m \in slack : m.key = RootKey(x, g) /\ m.ts = root.ts /\ m.room = root.room
    BY <1>1, <1>5 DEF MirrorInv, RowsOK
  <2>5. ThreadOK(c)
    BY <2>1, <2>3, <2>4 DEF ThreadOK, Rooted
  <2> QED BY <2>2, <2>3, <2>5, <1>5 DEF ThreadOf
<1>6. CASE ~root.posted
  <2>1. PICK c : c = Thread(x, g, room, 0, after)
    OBVIOUS
  <2>2. c \in Candidates /\ c.x = x /\ c.g = g /\ c.room = room /\ c.root = 0
    BY <2>1, <1>4
  <2> QED BY <2>1, <2>2, <1>6 DEF ThreadOf, ThreadOK
<1> QED BY <1>5, <1>6

LEMMA GroupsAre ==
  ASSUME MirrorInv
  PROVE  GroupThreads \subseteq Candidates /\ \A c \in GroupThreads : ThreadOK(c)
<1> SUFFICES ASSUME NEW c \in GroupThreads PROVE c \in Candidates /\ ThreadOK(c)
  OBVIOUS
<1>1. PICK g \in Groups, x \in Sessions :
        group[g] \in Rooms /\ c = ThreadOf(x, g, group[g], attached[x][g].at)
  BY DEF GroupThreads
<1>2. g \in Threads /\ attached[x][g].at \in Time
  BY Outside DEF Threads, MirrorInv, OutsideOK
<1> QED BY <1>1, <1>2, ThreadIs

LEMMA OwnAre ==
  ASSUME MirrorInv
  PROVE  OwnThreads \subseteq Candidates /\ \A c \in OwnThreads : ThreadOK(c)
<1> SUFFICES ASSUME NEW c \in OwnThreads PROVE c \in Candidates /\ ThreadOK(c)
  OBVIOUS
<1>1. PICK x \in Sessions :
        /\ prefs[Owner[x]].room # Off
        /\ c = ThreadOf(x, Own, IF asked[x] \in Rooms \ {Private} THEN asked[x]
                                ELSE prefs[Owner[x]].room, 0)
  BY DEF OwnThreads
<1>2. Owner[x] \in People /\ Own \in Threads /\ 0 \in Time
  BY DEF Threads, Time
<1>3. prefs[Owner[x]].room \in Rooms
  BY <1>1, <1>2, Outside DEF MirrorInv, OutsideOK
<1>4. PICK r \in Rooms : r = IF asked[x] \in Rooms \ {Private} THEN asked[x]
                             ELSE prefs[Owner[x]].room
  BY <1>3
<1> QED BY <1>1, <1>2, <1>4, ThreadIs

LEMMA DueAre ==
  ASSUME MirrorInv
  PROVE  Due(clock) \subseteq Candidates /\ \A c \in Due(clock) : DigestOK(c)
<1> SUFFICES ASSUME NEW c \in Due(clock) PROVE c \in Candidates /\ DigestOK(c)
  OBVIOUS
<1>1. PICK x \in Sessions :
        /\ prefs[Owner[x]].room # Off /\ moved[x] > prefs[Owner[x]].from /\ Over(x, clock)
        /\ c = Digest(x, prefs[Owner[x]].room)
  BY DEF Due
<1>2. /\ Owner[x] \in People /\ moved[x] \in Time /\ clock \in Time
      /\ prefs[Owner[x]] \in [room : Rooms \cup {Off}, from : Time, kill : BOOLEAN]
  BY Outside DEF MirrorInv, OutsideOK
<1>3. prefs[Owner[x]].room \in Rooms /\ prefs[Owner[x]].from \in Time
  BY <1>1, <1>2
<1>4. moved[x] < clock /\ moved[x] >= prefs[Owner[x]].from
  BY <1>1, <1>2, <1>3 DEF Over, Time
<1>5. past[Owner[x]][moved[x]] = prefs[Owner[x]].room
  BY <1>1, <1>2, <1>4 DEF MirrorInv, Watermark
<1>6. /\ c \in Candidates /\ c.x = x /\ c.room = prefs[Owner[x]].room /\ c.moved = moved[x]
  BY <1>1, <1>2, <1>3, RecordsAre DEF Digest, Candidates
<1> QED BY <1>3, <1>4, <1>5, <1>6 DEF DigestOK

LEMMA DoSelectGroups == ASSUME MirrorInv, NEW s \in Servers, SelectGroups(s) PROVE MirrorInv'
<1>1. PICK q : q = [server[s] EXCEPT !.stage = "groups", !.todo = GroupThreads, !.cur = NoOne]
  OBVIOUS
<1>2. server[s] \in Sweeps /\ server[s].step = "next" /\ OutsideOK
  BY At DEF SelectGroups, Select
<1>3. q \in Sweeps /\ q.step = "next" /\ q.stage = "groups" /\ q.todo = GroupThreads
  BY <1>1, <1>2, GroupsAre, RecordsAre DEF Sweeps
<1>4. TodoOK(q)
  BY <1>3, GroupsAre DEF TodoOK
<1>5. server' = [server EXCEPT ![s] = q] /\ Quietly /\ clock' = clock
  BY <1>1 DEF SelectGroups, Select, Becomes, Quietly, people
<1>6. OutsideOK'
  BY <1>2 DEF SelectGroups, Select, people, work, OutsideOK
<1> QED BY <1>3, <1>4, <1>5, <1>6, Rests, Turns

LEMMA DoSelectOwn == ASSUME MirrorInv, NEW s \in Servers, SelectOwn(s) PROVE MirrorInv'
<1>1. PICK q : q = [server[s] EXCEPT !.stage = "own", !.todo = OwnThreads, !.cur = NoOne]
  OBVIOUS
<1>2. server[s] \in Sweeps /\ server[s].step = "next" /\ OutsideOK
  BY At DEF SelectOwn, Select
<1>3. q \in Sweeps /\ q.step = "next" /\ q.stage = "own" /\ q.todo = OwnThreads
  BY <1>1, <1>2, OwnAre, RecordsAre DEF Sweeps
<1>4. TodoOK(q)
  BY <1>3, OwnAre DEF TodoOK
<1>5. server' = [server EXCEPT ![s] = q] /\ Quietly /\ clock' = clock
  BY <1>1 DEF SelectOwn, Select, Becomes, Quietly, people
<1>6. OutsideOK'
  BY <1>2 DEF SelectOwn, Select, people, work, OutsideOK
<1> QED BY <1>3, <1>4, <1>5, <1>6, Rests, Turns

LEMMA DoSelectDue == ASSUME MirrorInv, NEW s \in Servers, SelectDue(s) PROVE MirrorInv'
<1>1. PICK q : q = [Idle EXCEPT !.stage = "digest", !.now = clock, !.todo = Due(clock)]
  OBVIOUS
<1>2. OutsideOK /\ clock \in Time
  BY At DEF OutsideOK
<1>3. q \in Sweeps /\ q.step = "next" /\ q.stage = "digest" /\ q.todo = Due(clock)
  BY <1>1, <1>2, DueAre, RecordsAre DEF Sweeps
<1>4. TodoOK(q)
  BY <1>3, DueAre DEF TodoOK
<1>5. server' = [server EXCEPT ![s] = q] /\ Quietly /\ clock' = clock
  BY <1>1 DEF SelectDue, Becomes, Quietly, people
<1>6. OutsideOK'
  BY <1>2 DEF SelectDue, people, work, OutsideOK
<1> QED BY <1>3, <1>4, <1>5, <1>6, Rests, Turns

-----------------------------------------------------------------------------
(* The other steps of a sweep that say nothing.                            *)

LEMMA Same == ASSUME OutsideOK, UNCHANGED <<clock, people, work>>, spent' \in 0..MaxSpent
              PROVE  OutsideOK' /\ (UNCHANGED <<rows, slack, said>> => Quietly)
BY DEF OutsideOK, people, work, Quietly

LEMMA SpentIs == ASSUME MirrorInv PROVE spent \in 0..MaxSpent
BY DEF MirrorInv, TypeOK

LEMMA IdleIs == SweepOK(Idle) /\ Idle.step # "post"
BY RecordsAre, Rests DEF TodoOK

LEMMA DoPromote == ASSUME MirrorInv, NEW s \in Servers, Promote(s) PROVE MirrorInv'
<1>1. PICK q : q = [Idle EXCEPT !.stage = "promoted", !.now = clock]
  OBVIOUS
<1>2. OutsideOK /\ clock \in Time
  BY At DEF OutsideOK
<1>3. q \in Sweeps /\ q.step = "next" /\ q.todo = {}
  BY <1>1, <1>2, RecordsAre DEF Sweeps
<1>4. SweepOK(q) /\ q.step # "post"
  BY <1>3, Rests DEF TodoOK
<1>5. server' = [server EXCEPT ![s] = q] /\ Quietly /\ clock' = clock
  BY <1>1 DEF Promote, Becomes, Quietly, work
<1>6. attached' \in [Sessions -> [Groups -> [state : {"none", "on", "off"}, at : Time]]]
  BY <1>2 DEF Promote, OutsideOK
<1>7. OutsideOK'
  BY <1>2, <1>6 DEF Promote, work, OutsideOK
<1> QED BY <1>4, <1>5, <1>7, Turns

LEMMA DoEndSweep == ASSUME MirrorInv, NEW s \in Servers, EndSweep(s) PROVE MirrorInv'
<1>1. server' = [server EXCEPT ![s] = Idle] /\ Quietly /\ clock' = clock /\ OutsideOK'
  BY At, Same, SpentIs DEF EndSweep, Becomes
<1> QED BY <1>1, IdleIs, Turns

LEMMA DoDie == ASSUME MirrorInv, NEW s \in Servers, Die(s) PROVE MirrorInv'
<1>1. server' = [server EXCEPT ![s] = Idle] /\ Quietly /\ clock' = clock /\ OutsideOK'
  BY At, Same, FaultOK DEF Die, Becomes
<1> QED BY <1>1, IdleIs, Turns

LEMMA DoQueryFails == ASSUME MirrorInv, NEW s \in Servers, QueryFails(s) PROVE MirrorInv'
<1>1. Quietly /\ clock' = clock /\ OutsideOK'
  BY At, Same, FaultOK DEF QueryFails
<1>2. CASE server[s].step = "next" /\ server[s].todo = {}
           /\ Becomes(s, [server[s] EXCEPT !.stage = "own"])
  <2>1. PICK q : q = [server[s] EXCEPT !.stage = "own"]
    OBVIOUS
  <2>2. q \in Sweeps /\ q.step = "next" /\ q.todo = {}
    BY <2>1, <1>2, At DEF Sweeps
  <2>3. SweepOK(q) /\ q.step # "post"
    BY <2>2, Rests DEF TodoOK
  <2>4. server' = [server EXCEPT ![s] = q]
    BY <1>2, <2>1 DEF Becomes
  <2> QED BY <1>1, <2>3, <2>4, Turns
<1>3. CASE Becomes(s, Idle)
  BY <1>1, <1>3, IdleIs, Turns DEF Becomes
<1>4. CASE Becomes(s, Pause(s))
  BY <1>1, <1>4, PauseIs, Turns DEF Becomes
<1> QED BY <1>2, <1>3, <1>4 DEF QueryFails

LEMMA DoOpenThread == ASSUME MirrorInv, NEW s \in Servers, OpenThread(s) PROVE MirrorInv'
<1>1. Quietly /\ clock' = clock /\ OutsideOK'
  BY At, Same, SpentIs DEF OpenThread
<1>2. /\ server[s] \in Sweeps /\ SweepOK(server[s])
      /\ server[s].stage \in {"groups", "own"} /\ server[s].step = "next"
  BY At DEF OpenThread
<1>3. PICK c \in server[s].todo :
        LET r == [server[s] EXCEPT !.todo = @ \ {c}, !.cur = c]
        IN Becomes(s, IF c.root # 0 THEN [r EXCEPT !.step = "turns"]
                      ELSE IF c.worth THEN Says(r, RootKey(c.x, c.g)) ELSE r)
  BY DEF OpenThread
<1>4. c \in Candidates /\ ThreadOK(c)
  BY <1>2 DEF Sweeps, SweepOK, TodoOK
<1>5. PICK r : r = [server[s] EXCEPT !.todo = @ \ {c}, !.cur = c]
  OBVIOUS
<1>6. /\ r \in Sweeps /\ r.step = "next" /\ r.stage = server[s].stage
      /\ r.todo = server[s].todo \ {c} /\ r.cur = c
  BY <1>2, <1>4, <1>5 DEF Sweeps
<1>7. TodoOK(r)
  BY <1>2, <1>6 DEF SweepOK, TodoOK
<1>8. CASE c.root # 0 /\ Becomes(s, [r EXCEPT !.step = "turns"])
  <2>1. PICK q : q = [r EXCEPT !.step = "turns"]
    OBVIOUS
  <2>2. q \in Sweeps /\ q.step = "turns" /\ q.stage = r.stage /\ q.todo = r.todo /\ q.cur = c
    BY <2>1, <1>6 DEF Sweeps
  <2>3. SweepOK(q) /\ q.step # "post"
    BY <2>2, <1>4, <1>7, <1>8
    DEF SweepOK, TodoOK, CurOK, ClaimOK, HeardOK, Speaks
  <2> QED BY <2>1, <2>3, <1>1, <1>8, Turns DEF Becomes
<1>9. CASE Becomes(s, Says(r, RootKey(c.x, c.g)))
  <2>1. PICK q : q = Says(r, RootKey(c.x, c.g))
    OBVIOUS
  <2>2. RootKey(c.x, c.g) \in Keys
    BY <1>4, KeysAre DEF ThreadOK, Candidates
  <2>3. /\ q \in Sweeps /\ q.step = "claim" /\ q.stage = r.stage /\ q.todo = r.todo /\ q.cur = c
        /\ q.key = RootKey(c.x, c.g)
    BY <2>1, <2>2, <1>6 DEF Sweeps, Says
  <2>4. SweepOK(q) /\ q.step # "post"
    BY <2>3, <1>4, <1>7 DEF SweepOK, TodoOK, CurOK, ClaimOK, HeardOK, Speaks, KeyOK
  <2> QED BY <2>1, <2>4, <1>1, <1>9, Turns DEF Becomes
<1>10. CASE Becomes(s, r)
  BY <1>1, <1>6, <1>7, <1>10, Rests, Turns DEF Becomes
<1> QED BY <1>3, <1>5, <1>8, <1>9, <1>10

LEMMA DoUnresolved == ASSUME MirrorInv, NEW s \in Servers, Unresolved(s) PROVE MirrorInv'
<1>1. Quietly /\ clock' = clock /\ OutsideOK'
  BY At, Same, FaultOK DEF Unresolved
<1>2. server[s] \in Sweeps /\ SweepOK(server[s]) /\ server[s].step = "next"
  BY At DEF Unresolved
<1>3. PICK c \in server[s].todo : Becomes(s, [server[s] EXCEPT !.todo = @ \ {c}])
  BY DEF Unresolved
<1>4. PICK q : q = [server[s] EXCEPT !.todo = @ \ {c}]
  OBVIOUS
<1>5. q \in Sweeps /\ q.step = "next" /\ q.stage = server[s].stage /\ q.todo \subseteq server[s].todo
  BY <1>2, <1>4 DEF Sweeps
<1>6. SweepOK(q) /\ q.step # "post"
  BY <1>2, <1>5, Rests DEF SweepOK, TodoOK
<1> QED BY <1>1, <1>3, <1>4, <1>6, Turns DEF Becomes

(* A sweep goes on in its thread, or says something there.                 *)
LEMMA InThread ==
  ASSUME MirrorInv, NEW s \in Servers, server[s].step \in {"turns", "exchanges", "links"},
         NEW q \in Sweeps, q.cur = server[s].cur, q.todo = server[s].todo,
         q.stage = server[s].stage,
         \/ q.step \in {"turns", "exchanges", "links"}
         \/ q.step = "claim" /\ \E i \in Items : q.key = ReplyKey(q.cur.x, q.cur.g, i)
         \/ q.step = "claim" /\ q.key = CloseKey(q.cur.x, q.cur.g)
  PROVE  SweepOK(q) /\ q.step # "post"
<1>1. SweepOK(server[s])
  BY At
<1>2. ThreadOK(q.cur) /\ q.cur.root # 0 /\ TodoOK(q)
  BY <1>1 DEF SweepOK, CurOK, TodoOK
<1>3. CurOK(q) /\ ClaimOK(q) /\ HeardOK(q) /\ q.step # "post"
  BY <1>2 DEF CurOK, ClaimOK, HeardOK, Speaks, KeyOK
<1> QED BY <1>2, <1>3 DEF SweepOK

LEMMA DoReadItems == ASSUME MirrorInv, NEW s \in Servers, ReadItems(s) PROVE MirrorInv'
<1>1. Quietly /\ clock' = clock /\ OutsideOK'
  BY At, Same, SpentIs DEF ReadItems
<1>2. server[s] \in Sweeps /\ server[s].step \in {"turns", "exchanges", "links"}
  BY At DEF ReadItems
<1>3. PICK I, st : /\ I \subseteq Items /\ st \in {"exchanges", "links"}
                   /\ Becomes(s, [server[s] EXCEPT !.step = st, !.items = I])
  BY DEF ReadItems, First, Waiting
<1>4. PICK q : q = [server[s] EXCEPT !.step = st, !.items = I]
  OBVIOUS
<1>5. /\ q \in Sweeps /\ q.step = st /\ q.cur = server[s].cur /\ q.todo = server[s].todo
      /\ q.stage = server[s].stage
  BY <1>2, <1>3, <1>4 DEF Sweeps
<1> QED BY <1>1, <1>2, <1>3, <1>4, <1>5, InThread, Turns DEF Becomes

LEMMA DoNextReply == ASSUME MirrorInv, NEW s \in Servers, NextReply(s) PROVE MirrorInv'
<1>1. Quietly /\ clock' = clock /\ OutsideOK'
  BY At, Same, SpentIs DEF NextReply
<1>2. server[s] \in Sweeps /\ server[s].step \in {"exchanges", "links"} /\ SweepOK(server[s])
  BY At DEF NextReply
<1>3. PICK i \in server[s].items :
        LET r == [server[s] EXCEPT !.items = @ \ {i}]
        IN Becomes(s, Says(r, ReplyKey(r.cur.x, r.cur.g, i)))
  BY DEF NextReply
<1>4. PICK r : r = [server[s] EXCEPT !.items = @ \ {i}]
  OBVIOUS
<1>5. /\ r \in Sweeps /\ r.cur = server[s].cur /\ r.todo = server[s].todo
      /\ r.stage = server[s].stage /\ i \in Items
  BY <1>2, <1>4 DEF Sweeps
<1>6. PICK q : q = Says(r, ReplyKey(r.cur.x, r.cur.g, i))
  OBVIOUS
<1>7. r.cur.x \in Sessions /\ r.cur.g \in Threads
  BY <1>2, <1>5 DEF SweepOK, CurOK, ThreadOK, Sweeps, Candidates
<1>8. ReplyKey(r.cur.x, r.cur.g, i) \in Keys
  BY <1>5, <1>7, KeysAre
<1>9. /\ q \in Sweeps /\ q.step = "claim" /\ q.cur = server[s].cur /\ q.todo = server[s].todo
      /\ q.stage = server[s].stage /\ q.key = ReplyKey(q.cur.x, q.cur.g, i)
  BY <1>5, <1>6, <1>8 DEF Sweeps, Says
<1>10. server' = [server EXCEPT ![s] = q]
  BY <1>3, <1>4, <1>6 DEF Becomes
<1> QED BY <1>1, <1>2, <1>5, <1>9, <1>10, InThread, Turns

LEMMA DoEndReplies == ASSUME MirrorInv, NEW s \in Servers, EndReplies(s) PROVE MirrorInv'
<1>1. Quietly /\ clock' = clock /\ OutsideOK'
  BY At, Same, SpentIs DEF EndReplies
<1>2. server[s] \in Sweeps /\ server[s].step = "links" /\ SweepOK(server[s])
  BY At DEF EndReplies
<1>3. CASE Becomes(s, Pause(s))
  BY <1>1, <1>3, PauseIs, Turns DEF Becomes
<1>4. CASE Becomes(s, Says(server[s], CloseKey(server[s].cur.x, server[s].cur.g)))
  <2>1. PICK q : q = Says(server[s], CloseKey(server[s].cur.x, server[s].cur.g))
    OBVIOUS
  <2>2. server[s].cur.x \in Sessions /\ server[s].cur.g \in Threads
    BY <1>2 DEF SweepOK, CurOK, ThreadOK, Sweeps, Candidates
  <2>3. CloseKey(server[s].cur.x, server[s].cur.g) \in Keys
    BY <2>2, KeysAre
  <2>4. /\ q \in Sweeps /\ q.step = "claim" /\ q.cur = server[s].cur /\ q.todo = server[s].todo
        /\ q.stage = server[s].stage /\ q.key = CloseKey(q.cur.x, q.cur.g)
    BY <1>2, <2>1, <2>3 DEF Sweeps, Says
  <2> QED BY <1>1, <1>2, <1>4, <2>1, <2>4, InThread, Turns DEF Becomes
<1> QED BY <1>3, <1>4 DEF EndReplies

LEMMA LeftIs ==
  ASSUME MirrorInv, NEW s \in Servers, NEW p \in People
  PROVE  LeftFor(s, p) \in 0..DailyCap
<1>1. server[s].left[p] \in -1..DailyCap
  BY At DEF Sweeps
<1>2. Sent(p) \in Nat
  <2>1. IsFiniteSet({k \in KeysOf(p) : rows[k].posted})
    BY FS_Subset, MirrorAssumption DEF KeysOf
  <2> QED BY <2>1, FS_CardinalityType DEF Sent
<1> QED BY <1>1, <1>2 DEF LeftFor

LEMMA DoOffer == ASSUME MirrorInv, NEW s \in Servers, Offer(s) PROVE MirrorInv'
<1>1. Quietly /\ clock' = clock /\ OutsideOK'
  BY At, Same, SpentIs DEF Offer
<1>2. /\ server[s] \in Sweeps /\ SweepOK(server[s])
      /\ server[s].stage = "digest" /\ server[s].step = "next"
  BY At DEF Offer
<1>3. PICK c \in server[s].todo :
        LET p == Owner[c.x]
            r == [server[s] EXCEPT !.todo = @ \ {c}, !.cur = c, !.left[p] = LeftFor(s, p)]
        IN Becomes(s, Says(r, IF LeftFor(s, p) = 0 THEN CapKey(p) ELSE DigestKey(c.x)))
  BY DEF Offer
<1>4. c \in Candidates /\ DigestOK(c)
  BY <1>2 DEF Sweeps, SweepOK, TodoOK
<1>5. c.x \in Sessions
  BY <1>4 DEF DigestOK
<1>6. PICK p \in People : p = Owner[c.x]
  BY <1>5
<1>7. PICK n \in 0..DailyCap : n = LeftFor(s, p)
  BY LeftIs
<1>8. PICK r : r = [server[s] EXCEPT !.todo = @ \ {c}, !.cur = c, !.left[p] = n]
  OBVIOUS
<1>9. /\ r \in Sweeps /\ r.stage = "digest" /\ r.todo = server[s].todo \ {c} /\ r.cur = c
      /\ r.left[p] = n
  <2>1. PICK l : l = [server[s].left EXCEPT ![p] = n]
    OBVIOUS
  <2>2. l \in [People -> -1..DailyCap] /\ l[p] = n
    BY <1>2, <2>1 DEF Sweeps
  <2>3. PICK u : u = [server[s] EXCEPT !.todo = @ \ {c}, !.cur = c]
    OBVIOUS
  <2>4. u \in Sweeps /\ u.stage = "digest" /\ u.todo = server[s].todo \ {c} /\ u.cur = c
    BY <1>2, <1>4, <2>3 DEF Sweeps
  <2>5. r = [u EXCEPT !.left = l]
    BY <1>8, <2>1, <2>3
  <2> QED BY <2>2, <2>4, <2>5 DEF Sweeps
<1>10. PICK k : k = IF n = 0 THEN CapKey(p) ELSE DigestKey(c.x)
  OBVIOUS
<1>11. k \in Keys
  BY <1>5, <1>10, KeysAre
<1>12. PICK q : q = Says(r, k)
  OBVIOUS
<1>13. /\ q \in Sweeps /\ q.step = "claim" /\ q.stage = "digest" /\ q.todo = r.todo /\ q.cur = c
       /\ q.key = k /\ q.left[p] = n
  BY <1>9, <1>11, <1>12 DEF Sweeps, Says
<1>14. server' = [server EXCEPT ![s] = q]
  BY <1>3, <1>6, <1>7, <1>8, <1>10, <1>12 DEF Becomes
<1>15. KeyOK(q)
  BY <1>4, <1>6, <1>7, <1>10, <1>13 DEF KeyOK
<1>16. TodoOK(q)
  BY <1>2, <1>9, <1>13 DEF SweepOK, TodoOK
<1>17. SweepOK(q) /\ q.step # "post"
  BY <1>13, <1>15, <1>16 DEF SweepOK, CurOK, ClaimOK, HeardOK, Speaks
<1> QED BY <1>1, <1>14, <1>17, Turns

-----------------------------------------------------------------------------
(* One message.                                                            *)

LEMMA Speaking ==
  ASSUME MirrorInv, NEW s \in Servers, server[s].step \in Speaks
  PROVE  /\ server[s].key \in Keys /\ server[s].cur \in Candidates
         /\ server[s].cur.room \in Rooms /\ server[s].cur.x \in Sessions
         /\ Owner[server[s].cur.x] \in People
         /\ KeyOK(server[s]) /\ rows[server[s].key] \in Rows
         /\ rows \in [Keys -> Rows] /\ said \in [Keys -> Nat] /\ slack \subseteq Messages
<1>1. server[s] \in Sweeps /\ KeyOK(server[s])
  BY At DEF SweepOK, CurOK
<1> QED BY <1>1, KeyIs DEF Sweeps, MirrorInv, TypeOK

(* After its message a sweep goes on in its thread or rests.               *)
LEMMA AfterReplyIs ==
  ASSUME MirrorInv, NEW s \in Servers, server[s].step \in Speaks, Kind(s) = "reply"
  PROVE  SweepOK(AfterReply(s)) /\ AfterReply(s).step # "post"
<1>1. server[s] \in Sweeps /\ SweepOK(server[s]) /\ KeyOK(server[s])
  BY At, Speaking
<1>2. PICK st \in {"exchanges", "links"} : AfterReply(s) = Step(s, st)
  BY DEF AfterReply
<1>3. PICK q : q = Step(s, st)
  OBVIOUS
<1>4. /\ q \in Sweeps /\ q.step = st /\ q.cur = server[s].cur /\ q.todo = server[s].todo
      /\ q.stage = server[s].stage
  BY <1>1, <1>3, StepIs
<1>5. ThreadOK(q.cur) /\ q.cur.root # 0
  BY <1>1, <1>4, KeyIs DEF Kind
<1>6. TodoOK(q)
  BY <1>1, <1>4 DEF SweepOK, TodoOK
<1> QED BY <1>2, <1>3, <1>4, <1>5, <1>6 DEF SweepOK, CurOK, ClaimOK, HeardOK, Speaks

LEMMA SpendIs ==
  ASSUME MirrorInv, NEW s \in Servers, server[s].step \in Speaks, Kind(s) = "session"
  PROVE  SweepOK(Spend(s)) /\ Spend(s).step # "post"
<1>1. server[s] \in Sweeps /\ SweepOK(server[s]) /\ KeyOK(server[s])
  BY At, Speaking
<1>2. PICK p \in People : p = Owner[server[s].cur.x]
  BY Speaking
<1>3. server[s].left[p] \in 0..DailyCap
  <2>1. server[s].left[p] \in -1..DailyCap
    BY <1>1 DEF Sweeps
  <2>2. server[s].left[p] >= 0
    BY <1>1, <1>2, KeyIs DEF Kind
  <2> QED BY <2>1, <2>2
<1>4. PICK r : r = Pause(s)
  OBVIOUS
<1>5. /\ r \in Sweeps /\ r.step = "next" /\ r.left = server[s].left /\ TodoOK(r)
  BY <1>4, PauseIs DEF SweepOK
<1>6. PICK q : q = [r EXCEPT !.left[p] = @ - 1]
  OBVIOUS
<1>7. r.left[p] - 1 \in -1..DailyCap
  BY <1>3, <1>5
<1>8. q \in Sweeps /\ q.step = "next" /\ q.todo = r.todo /\ q.stage = r.stage
  BY <1>5, <1>6, <1>7 DEF Sweeps
<1>9. TodoOK(q)
  BY <1>5, <1>8 DEF TodoOK
<1>10. Spend(s) = q
  BY <1>2, <1>4, <1>6 DEF Spend
<1> QED BY <1>8, <1>9, <1>10, Rests

LEMMA DoSettleFails == ASSUME MirrorInv, NEW s \in Servers, SettleFails(s) PROVE MirrorInv'
<1>1. Quietly /\ clock' = clock /\ OutsideOK'
  BY At, Same, FaultOK DEF SettleFails
<1>2. server[s].step \in Speaks
  BY DEF SettleFails, Speaks
<1>3. CASE Kind(s) = "session"
  <2>1. server' = [server EXCEPT ![s] = Spend(s)]
    BY <1>3 DEF SettleFails, Becomes
  <2> QED BY <2>1, <1>1, <1>2, <1>3, SpendIs, Turns
<1>4. CASE Kind(s) # "session"
  <2>1. server' = [server EXCEPT ![s] = Pause(s)]
    BY <1>4 DEF SettleFails, Becomes
  <2> QED BY <2>1, <1>1, PauseIs, Turns
<1> QED BY <1>3, <1>4

LEMMA ClaimIs ==
  ASSUME NEW r \in Sweeps, NEW row \in Rows, NEW n \in 1..MaxAttempts
  PROVE  /\ [r EXCEPT !.step = "post", !.claim = n] \in Sweeps
         /\ [row EXCEPT !.attempts = n, !.claimed = r.now] \in Rows
<1>1. n \in 0..MaxAttempts /\ r.now \in Time
  BY DEF Sweeps
<1>2. [r EXCEPT !.step = "post", !.claim = n] \in Sweeps
  BY <1>1 DEF Sweeps
<1>3. [row EXCEPT !.attempts = n, !.claimed = r.now] \in Rows
  BY <1>1 DEF Rows
<1> QED BY <1>2, <1>3

(* A claim is of an attempt nobody has made.                               *)
LEMMA Takes ==
  ASSUME MirrorInv, NEW s \in Servers, server[s].step = "claim",
         NEW k \in Keys, k = server[s].key,
         NEW n \in 1..MaxAttempts, n = rows[k].attempts + 1,
         NEW row \in Rows, row.attempts = n, row.posted = rows[k].posted,
         row.room = rows[k].room, row.ts = rows[k].ts, rows' = [rows EXCEPT ![k] = row],
         NEW q \in Sweeps, q.step = "post", q.claim = n, q.key = k, q.cur = server[s].cur,
         q.todo = server[s].todo, q.stage = server[s].stage, q.left = server[s].left,
         server' = [server EXCEPT ![s] = q], OutsideOK',
         UNCHANGED <<clock, prefs, past, slack, said>>
  PROVE  MirrorInv'
<1>1. /\ server[s] \in Sweeps /\ SweepOK(server[s]) /\ server[s].step \in Speaks
  BY At DEF Speaks
<1>3. /\ rows \in [Keys -> Rows] /\ said \in [Keys -> Nat] /\ slack \subseteq Messages
      /\ KeyOK(server[s])
  BY <1>1, Speaking
<1>4. rows[k].attempts \in Nat
  BY <1>3 DEF Rows
<1>9. rows' \in [Keys -> Rows] /\ rows'[k] = row /\ \A j \in Keys \ {k} : rows'[j] = rows[j]
  BY <1>3
<1>10. \A j \in Keys : rows'[j].attempts \in Nat /\ rows'[j].attempts >= rows[j].attempts
  <2> SUFFICES ASSUME NEW j \in Keys
               PROVE  rows'[j].attempts \in Nat /\ rows'[j].attempts >= rows[j].attempts
    OBVIOUS
  <2>1. rows[j].attempts \in Nat
    BY <1>3 DEF Rows
  <2>2. CASE j = k
    BY <2>2, <1>4, <1>9
  <2>3. CASE j # k
    BY <2>1, <2>3, <1>9
  <2> QED BY <2>2, <2>3
<1>14. SweepOK(q)'
  <2>1. TodoOK(q)
    BY <1>1 DEF SweepOK, TodoOK
  <2>2. KeyOK(q)
    BY <1>3 DEF KeyOK
  <2>3. TodoOK(q)' /\ CurOK(q)'
    BY <2>1, <2>2 DEF TodoOK, CurOK, KeyOK, ThreadOK, DigestOK, Rooted
  <2>4. ClaimOK(q)'
    BY <1>9 DEF ClaimOK
  <2>5. \A m \in slack : m.key = k => m.ts < n
    BY <1>3, <1>4 DEF MirrorInv, Numbered, Messages
  <2>6. HeardOK(q)'
    BY <2>5, <1>3 DEF HeardOK, Messages
  <2> QED BY <2>3, <2>4, <2>6 DEF SweepOK
<1>15. RowsOK'
  BY <1>9 DEF MirrorInv, RowsOK
<1>16. Numbered'
  <2> SUFFICES ASSUME NEW m \in slack PROVE m.ts <= rows'[m.key].attempts
    BY DEF Numbered
  <2>1. PICK j \in Keys : j = m.key
    BY <1>3 DEF Messages
  <2>2. m.ts \in Nat /\ m.ts <= rows[j].attempts
    BY <2>1, <1>3 DEF MirrorInv, Numbered, Messages
  <2>3. rows[j].attempts \in Nat
    BY <1>3 DEF Rows
  <2>4. rows'[j].attempts \in Nat /\ rows'[j].attempts >= rows[j].attempts
    BY <1>10
  <2>5. m.ts <= rows'[j].attempts
    BY <2>2, <2>3, <2>4
  <2> QED BY <2>1, <2>5
<1>17. Counted' /\ Passed' /\ RepliesInTheirThread' /\ Watermark'
  BY DEF MirrorInv, Counted, Landed, Passed, RepliesInTheirThread, Watermark
<1>18. ASSUME NEW t \in Servers \ {s}, server[t].step = "post", server[t].key = k
       PROVE  n # server[t].claim
  <2>1. server[t].claim \in 1..rows[k].attempts
    BY <1>18, At DEF SweepOK, ClaimOK
  <2> QED BY <2>1, <1>4
<1>19. \A t \in Servers \ {s} : server[t].step = "post" =>
           /\ q.step = "post" /\ q.key = server[t].key => q.claim # server[t].claim
           /\ \A m \in slack' \ slack : ~(m.key = server[t].key /\ m.ts = server[t].claim)
  BY <1>18
<1> QED BY <1>3, <1>9, <1>10, <1>14, <1>15, <1>16, <1>17, <1>19, Moves

LEMMA DoClaim == ASSUME MirrorInv, NEW s \in Servers, Claim(s) PROVE MirrorInv'
<1>1. server[s].step = "claim" /\ server[s].step \in Speaks
  BY DEF Claim, Speaks
<1>2. PICK k \in Keys : k = server[s].key
  BY <1>1, Speaking
<1>3. rows \in [Keys -> Rows] /\ rows[k] \in Rows /\ server[s] \in Sweeps
  BY <1>1, <1>2, Speaking, At
<1>4. clock' = clock /\ OutsideOK' /\ UNCHANGED <<prefs, past, slack, said>>
  BY At, Same, SpentIs DEF Claim, people
<1>5. CASE rows[k].attempts = 0 \/ Retryable(k, server[s].now)
  <2>1. PICK n \in 1..MaxAttempts : n = rows[k].attempts + 1
    BY <1>3, <1>5 DEF Rows, Retryable
  <2>2. /\ rows' = [rows EXCEPT ![k].attempts = n, ![k].claimed = server[s].now]
        /\ Becomes(s, [server[s] EXCEPT !.step = "post", !.claim = n])
    BY <1>2, <1>5, <2>1 DEF Claim
  <2>3. PICK row : row = [rows[k] EXCEPT !.attempts = n, !.claimed = server[s].now]
    OBVIOUS
  <2>4. /\ row \in Rows /\ row.attempts = n /\ row.posted = rows[k].posted
        /\ row.room = rows[k].room /\ row.ts = rows[k].ts
    BY <1>3, <2>3, ClaimIs DEF Rows
  <2>5. rows' = [rows EXCEPT ![k] = row]
    BY <1>3, <2>2, <2>3
  <2>6. PICK q : q = [server[s] EXCEPT !.step = "post", !.claim = n]
    OBVIOUS
  <2>7. q \in Sweeps
    BY <1>3, <2>6, ClaimIs
  <2>8. /\ q.step = "post" /\ q.claim = n /\ q.key = k /\ q.cur = server[s].cur
        /\ q.todo = server[s].todo /\ q.stage = server[s].stage /\ q.left = server[s].left
    BY <1>2, <1>3, <2>6 DEF Sweeps
  <2>9. server' = [server EXCEPT ![s] = q]
    BY <2>2, <2>6 DEF Becomes
  <2> QED BY <1>1, <1>2, <1>4, <2>1, <2>4, <2>5, <2>7, <2>8, <2>9, Takes
<1>6. CASE Becomes(s, Refuse(s)) /\ UNCHANGED rows
  <2>1. Quietly
    BY <1>4, <1>6 DEF Quietly
  <2>2. SweepOK(Refuse(s)) /\ Refuse(s).step # "post"
    BY <1>1, AfterReplyIs, PauseIs DEF Refuse
  <2> QED BY <1>4, <1>6, <2>1, <2>2, Turns DEF Becomes
<1> QED BY <1>2, <1>5, <1>6 DEF Claim

(* A message lands: it is the first of its claim.                          *)
LEMMA Landing ==
  ASSUME MirrorInv, NEW s \in Servers, server[s].step = "post", Lands(s),
         UNCHANGED <<clock, past, rows>>
  PROVE  /\ slack' \subseteq Messages /\ slack \subseteq slack' /\ said' \in [Keys -> Nat]
         /\ RowsOK' /\ Numbered' /\ Counted' /\ Passed' /\ RepliesInTheirThread'
         /\ \E m \in slack' : /\ m.key = server[s].key /\ m.ts = server[s].claim
                              /\ m.room = server[s].cur.room
         /\ \A t \in Servers \ {s} : server[t].step = "post" =>
              \A m \in slack' \ slack : ~(m.key = server[t].key /\ m.ts = server[t].claim)
<1>1. server[s] \in Sweeps /\ SweepOK(server[s]) /\ server[s].step \in Speaks
  BY At DEF Speaks
<1>2. /\ server[s].key \in Keys /\ server[s].cur \in Candidates /\ KeyOK(server[s])
      /\ server[s].cur.room \in Rooms /\ rows \in [Keys -> Rows]
      /\ said \in [Keys -> Nat] /\ slack \subseteq Messages
  BY <1>1, Speaking
<1>3. PICK k \in Keys : k = server[s].key
  BY <1>2
<1>4. server[s].claim \in 1..rows[k].attempts /\ rows[k].attempts \in 0..MaxAttempts
  BY <1>1, <1>2, <1>3 DEF SweepOK, ClaimOK, Rows
<1>5. PICK n \in 1..MaxAttempts : n = server[s].claim /\ n <= rows[k].attempts
  BY <1>4
<1>6. PICK c \in Candidates : c = server[s].cur
  BY <1>2
<1>7. PICK w : w = Message(s)
  OBVIOUS
<1>8. /\ w \in Messages /\ w.key = k /\ w.ts = n /\ w.room = c.room /\ w.root = c.root
      /\ w.moved = c.moved
  BY <1>2, <1>3, <1>5, <1>6, <1>7 DEF Message, Messages, Candidates
<1>9. slack' = slack \cup {w} /\ said' = [said EXCEPT ![k] = @ + 1]
  BY <1>3, <1>7 DEF Lands
<1>10. \A m \in slack : ~(m.key = k /\ m.ts = n)
  BY <1>1, <1>3, <1>5 DEF SweepOK, HeardOK
<1>11. slack' \subseteq Messages /\ slack \subseteq slack' /\ said' \in [Keys -> Nat]
  BY <1>2, <1>8, <1>9
<1>12. RowsOK'
  BY <1>11 DEF MirrorInv, RowsOK
<1>13. Numbered'
  BY <1>5, <1>8, <1>9 DEF MirrorInv, Numbered
<1>14. Counted'
  <2> SUFFICES ASSUME NEW j \in Keys PROVE said'[j] = Cardinality(Landed(j)')
    BY DEF Counted
  <2>1. said[j] = Cardinality(Landed(j)) /\ IsFiniteSet(Landed(j))
    BY <1>2, LandedIs DEF MirrorInv, Counted
  <2>2. CASE j = k
    <3>1. Landed(k)' = Landed(k) \cup {n}
      BY <1>8, <1>9 DEF Landed
    <3>2. n \notin Landed(k)
      BY <1>10 DEF Landed
    <3>3. Cardinality(Landed(k) \cup {n}) = Cardinality(Landed(k)) + 1
      BY <2>1, <2>2, <3>2, FS_AddElement
    <3>4. said'[k] = said[k] + 1
      BY <1>2, <1>9
    <3> QED BY <2>1, <2>2, <3>1, <3>3, <3>4
  <2>3. CASE j # k
    <3>1. Landed(j)' = Landed(j)
      BY <2>3, <1>8, <1>9 DEF Landed
    <3>2. said'[j] = said[j]
      BY <2>3, <1>2, <1>9
    <3> QED BY <2>1, <3>1, <3>2
  <2> QED BY <2>2, <2>3
<1>15. Passed'
  <2>1. ASSUME k[1] = "session"
        PROVE  k[2] \in Sessions /\ w.moved < clock /\ past[Owner[k[2]]][w.moved] = w.room
    <3>1. k = DigestKey(c.x) /\ DigestOK(c)
      BY <2>1, <1>1, <1>2, <1>3, <1>6, KeyIs
    <3> QED BY <3>1, <1>8 DEF DigestOK, DigestKey
  <2> QED BY <2>1, <1>8, <1>9 DEF MirrorInv, Passed
<1>16. RepliesInTheirThread'
  <2>1. ASSUME k[1] \in {"reply", "close"}
        PROVE  \E r \in slack : /\ r.key = RootKey(k[2], k[3])
                                /\ r.ts = w.root /\ r.room = w.room
    <3>1. ThreadOK(c) /\ c.root # 0 /\ k[2] = c.x /\ k[3] = c.g
      BY <2>1, <1>1, <1>2, <1>3, <1>6, KeyIs
    <3> QED BY <3>1, <1>8 DEF ThreadOK, Rooted
  <2> SUFFICES ASSUME NEW m \in slack', m.key[1] \in {"reply", "close"}
               PROVE  \E r \in slack' : /\ r.key = RootKey(m.key[2], m.key[3])
                                        /\ r.ts = m.root /\ r.room = m.room
    BY DEF RepliesInTheirThread
  <2>2. CASE m \in slack
    BY <2>2, <1>11 DEF MirrorInv, RepliesInTheirThread
  <2>3. CASE m = w
    BY <2>1, <2>3, <1>8, <1>11
  <2> QED BY <2>2, <2>3, <1>9
<1>17. ASSUME NEW t \in Servers \ {s}, server[t].step = "post", NEW m \in slack' \ slack
       PROVE  ~(m.key = server[t].key /\ m.ts = server[t].claim)
  <2>1. m.key = k /\ m.ts = n
    BY <1>8, <1>9
  <2>2. k = server[t].key => n # server[t].claim
    BY <1>3, <1>5, <1>17 DEF MirrorInv, Apart
  <2> QED BY <2>1, <2>2
<1>18. \E m \in slack' : m.key = server[s].key /\ m.ts = server[s].claim
                         /\ m.room = server[s].cur.room
  BY <1>3, <1>5, <1>6, <1>8, <1>9
<1> QED BY <1>11, <1>12, <1>13, <1>14, <1>15, <1>16, <1>17, <1>18

(* The sweep after it, at a rest or about to settle.                       *)
LEMMA Posted ==
  ASSUME MirrorInv, NEW s \in Servers, server[s].step = "post", Lands(s),
         UNCHANGED <<clock, prefs, past, rows>>, OutsideOK',
         NEW q \in Sweeps, SweepOK(q)', q.step # "post", server' = [server EXCEPT ![s] = q]
  PROVE  MirrorInv'
<1>1. rows \in [Keys -> Rows] /\ OutsideOK
  BY At DEF MirrorInv, TypeOK
<1>2. \A k \in Keys : rows'[k].attempts \in Nat /\ rows'[k].attempts >= rows[k].attempts
  BY <1>1 DEF Rows
<1>3. Watermark'
  BY DEF MirrorInv, Watermark
<1>4. /\ slack' \subseteq Messages /\ slack \subseteq slack' /\ said' \in [Keys -> Nat]
      /\ RowsOK' /\ Numbered' /\ Counted' /\ Passed' /\ RepliesInTheirThread'
      /\ \A t \in Servers \ {s} : server[t].step = "post" =>
           \A m \in slack' \ slack : ~(m.key = server[t].key /\ m.ts = server[t].claim)
  BY Landing
<1>5. \A t \in Servers \ {s} : server[t].step = "post" =>
           /\ q.step = "post" /\ q.key = server[t].key => q.claim # server[t].claim
           /\ \A m \in slack' \ slack : ~(m.key = server[t].key /\ m.ts = server[t].claim)
  BY <1>4
<1>6. rows' \in [Keys -> Rows]
  BY <1>1
<1> QED BY <1>2, <1>3, <1>4, <1>5, <1>6, Moves

LEMMA DoPost == ASSUME MirrorInv, NEW s \in Servers, Post(s) PROVE MirrorInv'
<1>1. /\ server[s].step = "post" /\ Lands(s) /\ server[s] \in Sweeps /\ SweepOK(server[s])
      /\ KeyOK(server[s]) /\ server[s].step \in Speaks
  BY At, Speaking DEF Post, Speaks
<1>2. clock' = clock /\ OutsideOK' /\ UNCHANGED <<prefs, past, rows>>
  BY At, Same, SpentIs DEF Post, people
<1>3. PICK q : q = [server[s] EXCEPT !.step = "settle"]
  OBVIOUS
<1>4. /\ q \in Sweeps /\ q.step = "settle" /\ q.claim = server[s].claim /\ q.key = server[s].key
      /\ q.cur = server[s].cur /\ q.todo = server[s].todo /\ q.stage = server[s].stage
      /\ q.left = server[s].left
  BY <1>1, <1>3 DEF Sweeps
<1>5. TodoOK(q) /\ KeyOK(q) /\ ClaimOK(q)
  BY <1>1, <1>4 DEF SweepOK, TodoOK, KeyOK, ClaimOK
<1>6. slack \subseteq slack' /\ \E m \in slack' : m.key = q.key /\ m.ts = q.claim /\ m.room = q.cur.room
  BY <1>1, <1>2, <1>4, Landing
<1>7. TodoOK(q)' /\ KeyOK(q)' /\ ClaimOK(q)'
  BY <1>2, <1>5, <1>6 DEF TodoOK, KeyOK, ClaimOK, ThreadOK, DigestOK, Rooted
<1>8. CurOK(q)' /\ HeardOK(q)'
  BY <1>4, <1>6, <1>7 DEF CurOK, HeardOK
<1>9. SweepOK(q)'
  BY <1>4, <1>7, <1>8 DEF SweepOK
<1>10. server' = [server EXCEPT ![s] = q]
  BY <1>3 DEF Post, Becomes
<1> QED BY <1>1, <1>2, <1>4, <1>9, <1>10, Posted

LEMMA DoAnswerLost == ASSUME MirrorInv, NEW s \in Servers, AnswerLost(s) PROVE MirrorInv'
<1>1. server[s].step = "post" /\ Lands(s)
  BY DEF AnswerLost
<1>2. clock' = clock /\ OutsideOK' /\ UNCHANGED <<prefs, past, rows>>
  BY At, Same, FaultOK DEF AnswerLost, people
<1>3. PICK q : q = Pause(s)
  OBVIOUS
<1>4. q \in Sweeps /\ SweepOK(q) /\ q.step = "next"
  BY <1>3, PauseIs
<1>5. slack \subseteq slack'
  BY <1>1, <1>2, Landing
<1>6. SweepOK(q)'
  BY <1>2, <1>4, <1>5
  DEF SweepOK, TodoOK, CurOK, ClaimOK, HeardOK, Speaks, ThreadOK, DigestOK, Rooted
<1>7. server' = [server EXCEPT ![s] = q]
  BY <1>3 DEF AnswerLost, Becomes
<1> QED BY <1>1, <1>2, <1>4, <1>6, <1>7, Posted

(* A row changes: more attempts, or a message that landed.                 *)
LEMMA Writes ==
  ASSUME MirrorInv, NEW s \in Servers, NEW k \in Keys, NEW row \in Rows,
         rows' = [rows EXCEPT ![k] = row], row.attempts >= rows[k].attempts,
         row.posted => /\ row.room \in Rooms /\ row.ts >= 1
                       /\ \E m \in slack : m.key = k /\ m.ts = row.ts /\ m.room = row.room,
         NEW q, SweepOK(q), q.step # "post", server' = [server EXCEPT ![s] = q], OutsideOK',
         q.step # "settle",
         UNCHANGED <<clock, prefs, past, slack, said>>
  PROVE  MirrorInv'
<1>1. /\ rows \in [Keys -> Rows] /\ said \in [Keys -> Nat] /\ slack \subseteq Messages
      /\ q \in Sweeps /\ OutsideOK
  BY At DEF MirrorInv, TypeOK, SweepOK
<1>2. rows' \in [Keys -> Rows] /\ rows'[k] = row /\ \A j \in Keys \ {k} : rows'[j] = rows[j]
  BY <1>1
<1>3. ASSUME NEW j \in Keys
      PROVE  rows'[j].attempts \in Nat /\ rows'[j].attempts >= rows[j].attempts
  <2>1. rows'[j].attempts \in Nat /\ rows[j].attempts \in Nat
    BY <1>1, <1>2 DEF Rows
  <2>2. CASE j = k
    BY <2>1, <2>2, <1>2
  <2>3. CASE j # k
    BY <2>1, <2>3, <1>2
  <2> QED BY <2>2, <2>3
<1>4. RowsOK'
  BY <1>2 DEF MirrorInv, RowsOK
<1>5. Numbered'
  <2> SUFFICES ASSUME NEW m \in slack PROVE m.ts <= rows'[m.key].attempts
    BY DEF Numbered
  <2>1. PICK j \in Keys : j = m.key
    BY <1>1 DEF Messages
  <2>2. m.ts \in Nat /\ m.ts <= rows[j].attempts /\ rows[j].attempts \in Nat
    BY <2>1, <1>1 DEF MirrorInv, Numbered, Messages, Rows
  <2>3. rows'[j].attempts \in Nat /\ rows'[j].attempts >= rows[j].attempts
    BY <1>3
  <2>4. m.ts <= rows'[j].attempts
    BY <2>2, <2>3
  <2> QED BY <2>1, <2>4
<1>6. Counted' /\ Passed' /\ RepliesInTheirThread' /\ Watermark'
  BY DEF MirrorInv, Counted, Landed, Passed, RepliesInTheirThread, Watermark
<1>7. SweepOK(q)'
  BY DEF SweepOK, TodoOK, CurOK, ClaimOK, HeardOK, KeyOK, ThreadOK, DigestOK, Rooted
<1> QED BY <1>1, <1>2, <1>3, <1>4, <1>5, <1>6, <1>7, Moves

LEMMA DoPostFails == ASSUME MirrorInv, NEW s \in Servers, PostFails(s) PROVE MirrorInv'
<1>1. server[s].step \in Speaks /\ server' = [server EXCEPT ![s] = Pause(s)]
  BY DEF PostFails, Speaks, Becomes
<1>2. clock' = clock /\ OutsideOK' /\ UNCHANGED <<prefs, past, slack, said>>
  BY At, Same, FaultOK DEF PostFails, people
<1>3. CASE UNCHANGED rows
  BY <1>1, <1>2, <1>3, PauseIs, Turns DEF Quietly
<1>4. CASE rows' = [rows EXCEPT ![server[s].key].attempts = MaxAttempts]
  <2>1. PICK k \in Keys : k = server[s].key
    BY <1>1, Speaking
  <2>2. rows \in [Keys -> Rows] /\ rows[k] \in Rows
    BY <1>1, <2>1, Speaking
  <2>3. PICK row : row = [rows[k] EXCEPT !.attempts = MaxAttempts]
    OBVIOUS
  <2>4. /\ row \in Rows /\ row.attempts >= rows[k].attempts /\ row.posted = rows[k].posted
        /\ row.room = rows[k].room /\ row.ts = rows[k].ts
    BY <2>2, <2>3 DEF Rows
  <2>5. rows' = [rows EXCEPT ![k] = row]
    BY <1>4, <2>1, <2>2, <2>3
  <2>6. row.posted => /\ row.room \in Rooms /\ row.ts >= 1
                      /\ \E m \in slack : m.key = k /\ m.ts = row.ts /\ m.room = row.room
    BY <2>4 DEF MirrorInv, RowsOK
  <2>7. PICK q : q = Pause(s)
    OBVIOUS
  <2>8. SweepOK(q) /\ q.step # "post" /\ q.step # "settle"
    BY <2>7, PauseIs
  <2> QED BY <1>1, <1>2, <2>4, <2>5, <2>6, <2>7, <2>8, Writes
<1> QED BY <1>3, <1>4 DEF PostFails

LEMMA SettledIs ==
  ASSUME MirrorInv, NEW s \in Servers, server[s].step = "settle"
  PROVE  SweepOK(Settled(s)) /\ Settled(s).step # "post" /\ Settled(s).step # "settle"
<1>1. /\ server[s].step \in Speaks /\ server[s] \in Sweeps /\ SweepOK(server[s])
      /\ KeyOK(server[s])
  BY At, Speaking DEF Speaks
<1>2. CASE Kind(s) = "thread"
  <2>1. PICK c \in Candidates : c = server[s].cur
    BY <1>1, Speaking
  <2>2. server[s].key = RootKey(c.x, c.g) /\ ThreadOK(c)
    BY <1>1, <1>2, <2>1, KeyIs DEF Kind
  <2>3. PICK n \in 1..MaxAttempts : n = server[s].claim
    <3>1. server[s].claim \in 1..rows[server[s].key].attempts
      BY <1>1 DEF SweepOK, ClaimOK
    <3>2. rows[server[s].key].attempts \in 0..MaxAttempts
      BY <1>1, Speaking DEF Rows
    <3> QED BY <3>1, <3>2
  <2>4. \E m \in slack : m.key = RootKey(c.x, c.g) /\ m.ts = n /\ m.room = c.room
    BY <1>1, <2>1, <2>2, <2>3 DEF SweepOK, HeardOK
  <2>5. PICK d : d = [c EXCEPT !.root = n]
    OBVIOUS
  <2>6. d \in Candidates /\ d.root = n /\ d.x = c.x /\ d.g = c.g /\ d.room = c.room
    BY <2>5 DEF Candidates
  <2>7. ThreadOK(d) /\ d.root # 0
    BY <2>2, <2>4, <2>6 DEF ThreadOK, Rooted
  <2>8. PICK p : p = Step(s, "turns")
    OBVIOUS
  <2>9. /\ p \in Sweeps /\ p.step = "turns" /\ p.todo = server[s].todo
        /\ p.stage = server[s].stage /\ p.cur = c
    BY <1>1, <2>1, <2>8, StepIs
  <2>10. PICK q : q = [p EXCEPT !.cur = d]
    OBVIOUS
  <2>11. q \in Sweeps /\ q.step = "turns" /\ q.todo = p.todo /\ q.stage = p.stage /\ q.cur = d
    BY <2>6, <2>9, <2>10 DEF Sweeps
  <2>12. SweepOK(q)
    BY <1>1, <2>7, <2>9, <2>11 DEF SweepOK, TodoOK, CurOK, ClaimOK, HeardOK, Speaks
  <2>13. q = Opened(s)
    BY <2>3, <2>5, <2>8, <2>9, <2>10 DEF Opened
  <2> QED BY <1>2, <2>11, <2>12, <2>13 DEF Settled
<1>3. CASE Kind(s) = "reply"
  <2>1. AfterReply(s).step \in {"exchanges", "links"}
    BY <1>1, StepIs DEF AfterReply
  <2> QED BY <1>1, <1>3, <2>1, AfterReplyIs DEF Settled
<1>4. CASE Kind(s) = "session"
  <2>1. Spend(s).step = "next"
    BY PauseIs DEF Spend, Sweeps
  <2> QED BY <1>1, <1>4, <2>1, SpendIs DEF Settled
<1>5. CASE Kind(s) \notin {"thread", "reply", "session"}
  BY <1>5, PauseIs DEF Settled
<1> QED BY <1>2, <1>3, <1>4, <1>5

LEMMA DoSettle == ASSUME MirrorInv, NEW s \in Servers, Settle(s) PROVE MirrorInv'
<1>1. /\ server[s].step = "settle" /\ server[s].step \in Speaks /\ SweepOK(server[s])
      /\ server' = [server EXCEPT ![s] = Settled(s)]
  BY At DEF Settle, Speaks, Becomes
<1>2. clock' = clock /\ OutsideOK' /\ UNCHANGED <<prefs, past, slack, said>>
  BY At, Same, SpentIs DEF Settle, people
<1>3. PICK k \in Keys : k = server[s].key
  BY <1>1, Speaking
<1>4. rows \in [Keys -> Rows] /\ rows[k] \in Rows /\ slack \subseteq Messages
  BY <1>1, <1>3, Speaking
<1>5. PICK to \in Rooms : to = server[s].cur.room
  BY <1>1, Speaking
<1>6. PICK n \in 1..MaxAttempts : n = server[s].claim
  <2>1. server[s].claim \in 1..rows[k].attempts
    BY <1>1, <1>3 DEF SweepOK, ClaimOK
  <2>2. rows[k].attempts \in 0..MaxAttempts
    BY <1>4 DEF Rows
  <2> QED BY <2>1, <2>2
<1>7. PICK row : row = [rows[k] EXCEPT !.posted = TRUE, !.room = to, !.ts = n]
  OBVIOUS
<1>8. row \in Rows /\ row.attempts >= rows[k].attempts /\ row.room = to /\ row.ts = n
  <2>1. rows[k].attempts \in 0..MaxAttempts /\ n \in 0..MaxAttempts
    BY <1>4 DEF Rows
  <2>2. row = [attempts |-> rows[k].attempts, claimed |-> rows[k].claimed, posted |-> TRUE,
               room |-> to, ts |-> n]
    BY <1>4, <1>7 DEF Rows
  <2>3. rows[k].attempts >= rows[k].attempts
    BY <2>1
  <2> QED BY <1>4, <2>1, <2>2, <2>3 DEF Rows
<1>9. rows' = [rows EXCEPT ![k] = row]
  BY <1>3, <1>5, <1>6, <1>7 DEF Settle
<1>10. row.room \in Rooms /\ row.ts >= 1
       /\ \E m \in slack : m.key = k /\ m.ts = row.ts /\ m.room = row.room
  BY <1>1, <1>3, <1>5, <1>6, <1>8 DEF SweepOK, HeardOK
<1>11. PICK q : q = Settled(s)
  OBVIOUS
<1>12. SweepOK(q) /\ q.step # "post" /\ q.step # "settle"
  BY <1>1, <1>11, SettledIs
<1> QED BY <1>1, <1>2, <1>8, <1>9, <1>10, <1>11, <1>12, Writes

-----------------------------------------------------------------------------
(* The people, the sessions and the clock.                                 *)

(* A step that leaves the choice of rooms alone.                           *)
LEMMA Others ==
  ASSUME MirrorInv, OutsideOK', UNCHANGED <<prefs, past, rows, slack, server, said>>,
         clock' >= clock
  PROVE  MirrorInv'
<1>1. Watermark'
  BY DEF MirrorInv, Watermark
<1> QED BY <1>1, Edits

LEMMA ClockIs == ASSUME MirrorInv PROVE OutsideOK /\ clock \in Time /\ clock >= clock
BY Outside DEF MirrorInv, OutsideOK, Time

LEMMA DoTick == ASSUME MirrorInv, Tick PROVE MirrorInv'
<1>1. clock \in Time /\ OutsideOK
  BY ClockIs
<1>2. clock' \in Time /\ clock' >= clock
  BY <1>1 DEF Tick, Time
<1>3. OutsideOK'
  BY <1>1, <1>2 DEF Tick, OutsideOK, people, work
<1> QED BY <1>2, <1>3, Others DEF Tick, people

LEMMA DoUpload ==
  ASSUME MirrorInv, NEW x \in Sessions, NEW i \in Items, Upload(x, i)
  PROVE  MirrorInv'
<1>1. OutsideOK /\ clock \in Time /\ clock' = clock /\ clock' >= clock
  BY ClockIs DEF Upload
<1>2. moved' \in [Sessions -> Time] /\ born' \in [Sessions -> [Items -> Time]]
  BY <1>1 DEF Upload, OutsideOK
<1>3. OutsideOK'
  BY <1>1, <1>2 DEF Upload, OutsideOK, people
<1> QED BY <1>1, <1>3, Others DEF Upload, people

LEMMA DoAsk == ASSUME MirrorInv, NEW x \in Sessions, Ask(x) PROVE MirrorInv'
<1>1. OutsideOK /\ clock \in Time /\ clock' = clock /\ clock' >= clock /\ spent' \in 0..MaxSpent
  BY ClockIs, FaultOK DEF Ask
<1>2. moved' \in [Sessions -> Time] /\ asked' \in [Sessions -> {"no", "on"} \cup Groups \cup Rooms]
  BY <1>1 DEF Ask, OutsideOK
<1>3. OutsideOK'
  BY <1>1, <1>2 DEF Ask, OutsideOK, people
<1> QED BY <1>1, <1>3, Others DEF Ask, people

(* A choice holds from the moment it is made.                              *)
LEMMA DoSavePrefs ==
  ASSUME MirrorInv, NEW p \in People, NEW r \in Rooms \cup {Off}, SavePrefs(p, r)
  PROVE  MirrorInv'
<1>1. OutsideOK /\ clock \in Time /\ clock' = clock /\ clock' >= clock /\ spent' \in 0..MaxSpent
  BY ClockIs, FaultOK DEF SavePrefs
<1>2. prefs[p] \in [room : Rooms \cup {Off}, from : Time, kill : BOOLEAN]
  BY <1>1 DEF OutsideOK
<1>3. PICK f \in Time : f = IF r = Off THEN prefs[p].from ELSE clock
  BY <1>1, <1>2
<1>4. PICK z : z = [prefs[p] EXCEPT !.room = r, !.from = f]
  OBVIOUS
<1>5. z \in [room : Rooms \cup {Off}, from : Time, kill : BOOLEAN] /\ z.room = r /\ z.from = f
  BY <1>2, <1>4
<1>6. prefs' = [prefs EXCEPT ![p] = z]
  <2>1. prefs' = [prefs EXCEPT ![p].room = r, ![p].from = f]
    BY <1>3 DEF SavePrefs
  <2> QED BY <2>1, <1>1, <1>4 DEF OutsideOK
<1>7. PICK h : h = [t \in Time |-> IF t >= clock THEN r ELSE past[p][t]]
  OBVIOUS
<1>8. past' = [past EXCEPT ![p] = h]
  BY <1>7 DEF SavePrefs
<1>9. h \in [Time -> Rooms \cup {Off}]
  BY <1>1, <1>7 DEF OutsideOK
<1>10. /\ prefs' \in [People -> [room : Rooms \cup {Off}, from : Time, kill : BOOLEAN]]
       /\ past' \in [People -> [Time -> Rooms \cup {Off}]]
       /\ prefs'[p] = z /\ past'[p] = h
       /\ \A o \in People \ {p} : prefs'[o] = prefs[o] /\ past'[o] = past[o]
  BY <1>1, <1>5, <1>6, <1>8, <1>9 DEF OutsideOK
<1>11. OutsideOK'
  BY <1>1, <1>10 DEF SavePrefs, OutsideOK, work
<1>12. \A o \in People, t \in Time : t < clock => past'[o][t] = past[o][t]
  <2> TAKE o \in People, t \in Time
  <2> HAVE t < clock
  <2>1. ~(t >= clock)
    BY <1>1 DEF Time
  <2>2. CASE o = p
    BY <2>1, <2>2, <1>7, <1>10
  <2>3. CASE o # p
    BY <2>3, <1>10
  <2> QED BY <2>2, <2>3
<1>13. Watermark'
  <2> SUFFICES ASSUME NEW o \in People, prefs'[o].room # Off, NEW t \in Time, t >= prefs'[o].from
               PROVE  past'[o][t] = prefs'[o].room
    BY DEF Watermark
  <2>1. CASE o = p
    <3>1. t >= clock
      BY <2>1, <1>3, <1>5, <1>10
    <3> QED BY <2>1, <3>1, <1>5, <1>7, <1>10
  <2>2. CASE o # p
    BY <2>2, <1>10 DEF MirrorInv, Watermark
  <2> QED BY <2>1, <2>2
<1> QED BY <1>1, <1>11, <1>12, <1>13, Edits DEF SavePrefs, work

LEMMA DoSetLiveKill == ASSUME MirrorInv, NEW p \in People, SetLiveKill(p) PROVE MirrorInv'
<1>1. OutsideOK /\ clock \in Time /\ clock' = clock /\ clock' >= clock /\ spent' \in 0..MaxSpent
  BY ClockIs, FaultOK DEF SetLiveKill
<1>2. prefs[p] \in [room : Rooms \cup {Off}, from : Time, kill : BOOLEAN]
  BY <1>1 DEF OutsideOK
<1>3. PICK b \in BOOLEAN : b = ~prefs[p].kill
  BY Zenon
<1>4. PICK z : z = [prefs[p] EXCEPT !.kill = b]
  OBVIOUS
<1>5. /\ z \in [room : Rooms \cup {Off}, from : Time, kill : BOOLEAN]
      /\ z.room = prefs[p].room /\ z.from = prefs[p].from
  BY <1>2, <1>4
<1>6. prefs' = [prefs EXCEPT ![p] = z]
  <2>1. prefs' = [prefs EXCEPT ![p].kill = b]
    BY <1>3, Zenon DEF SetLiveKill
  <2> QED BY <2>1, <1>1, <1>4 DEF OutsideOK
<1>7. /\ prefs' \in [People -> [room : Rooms \cup {Off}, from : Time, kill : BOOLEAN]]
      /\ \A o \in People : prefs'[o].room = prefs[o].room /\ prefs'[o].from = prefs[o].from
  BY <1>1, <1>5, <1>6 DEF OutsideOK
<1>8. OutsideOK'
  BY <1>1, <1>7 DEF SetLiveKill, OutsideOK, work
<1>9. Watermark'
  BY <1>7 DEF MirrorInv, Watermark, SetLiveKill
<1> QED BY <1>1, <1>8, <1>9, Edits DEF SetLiveKill, work

LEMMA DoAttach ==
  ASSUME MirrorInv, NEW x \in Sessions, NEW g \in Groups, Attach(x, g)
  PROVE  MirrorInv'
<1>1. OutsideOK /\ clock \in Time /\ clock' = clock /\ clock' >= clock /\ spent' \in 0..MaxSpent
  BY ClockIs, FaultOK DEF Attach
<1>2. attached' \in [Sessions -> [Groups -> [state : {"none", "on", "off"}, at : Time]]]
  BY <1>1 DEF Attach, OutsideOK
<1>3. OutsideOK'
  BY <1>1, <1>2 DEF Attach, OutsideOK, work
<1> QED BY <1>1, <1>3, Others DEF Attach, work

LEMMA DoDetach ==
  ASSUME MirrorInv, NEW x \in Sessions, NEW g \in Groups, Detach(x, g)
  PROVE  MirrorInv'
<1>1. OutsideOK /\ clock \in Time /\ clock' = clock /\ clock' >= clock /\ spent' \in 0..MaxSpent
  BY ClockIs, FaultOK DEF Detach
<1>2. attached[x] \in [Groups -> [state : {"none", "on", "off"}, at : Time]]
  BY <1>1 DEF OutsideOK
<1>3. PICK z : z = [attached[x][g] EXCEPT !.state = "off"]
  OBVIOUS
<1>4. z \in [state : {"none", "on", "off"}, at : Time]
  BY <1>2, <1>3
<1>5. PICK y : y = [attached[x] EXCEPT ![g] = z]
  OBVIOUS
<1>6. y \in [Groups -> [state : {"none", "on", "off"}, at : Time]]
  BY <1>2, <1>4, <1>5
<1>7. attached' = [attached EXCEPT ![x] = y]
  BY <1>1, <1>2, <1>3, <1>5 DEF Detach, OutsideOK
<1>8. attached' \in [Sessions -> [Groups -> [state : {"none", "on", "off"}, at : Time]]]
  BY <1>1, <1>6, <1>7 DEF OutsideOK
<1>9. OutsideOK'
  BY <1>1, <1>8 DEF Detach, OutsideOK, work
<1> QED BY <1>1, <1>9, Others DEF Detach, work

LEMMA DoEditGroup ==
  ASSUME MirrorInv, NEW g \in Groups, NEW r \in Rooms \cup {Off}, EditGroup(g, r)
  PROVE  MirrorInv'
<1>1. OutsideOK /\ clock \in Time /\ clock' = clock /\ clock' >= clock /\ spent' \in 0..MaxSpent
  BY ClockIs, FaultOK DEF EditGroup
<1>2. group' \in [Groups -> Rooms \cup {Off, Gone}]
  BY <1>1 DEF EditGroup, OutsideOK
<1>3. OutsideOK'
  BY <1>1, <1>2 DEF EditGroup, OutsideOK, work
<1> QED BY <1>1, <1>3, Others DEF EditGroup, work

LEMMA DoDeleteGroup == ASSUME MirrorInv, NEW g \in Groups, DeleteGroup(g) PROVE MirrorInv'
<1>1. /\ OutsideOK /\ clock \in Time /\ clock' = clock /\ clock' >= clock
      /\ spent' \in 0..MaxSpent /\ 0 \in Time
  BY ClockIs, FaultOK DEF DeleteGroup, Time
<1>2. group' \in [Groups -> Rooms \cup {Off, Gone}]
  BY <1>1 DEF DeleteGroup, OutsideOK
<1>3. \A x \in Sessions : [attached[x] EXCEPT ![g] = [state |-> "none", at |-> 0]]
                            \in [Groups -> [state : {"none", "on", "off"}, at : Time]]
  BY <1>1 DEF OutsideOK
<1>4. attached' \in [Sessions -> [Groups -> [state : {"none", "on", "off"}, at : Time]]]
  BY <1>3 DEF DeleteGroup
<1>5. OutsideOK'
  BY <1>1, <1>2, <1>4 DEF DeleteGroup, OutsideOK, work
<1> QED BY <1>1, <1>5, Others DEF DeleteGroup, work

-----------------------------------------------------------------------------
LEMMA MirrorInit == ASSUME Init PROVE MirrorInv
<1>1. /\ clock \in Time /\ 0 \in Time /\ 1 \in Time /\ spent \in 0..MaxSpent /\ clock = 1
  BY DEF Init, Time
<1>2. prefs \in [People -> [room : Rooms \cup {Off}, from : Time, kill : BOOLEAN]]
  BY <1>1 DEF Init
<1>3. past \in [People -> [Time -> Rooms \cup {Off}]]
  BY <1>2 DEF Init
<1>4. /\ group \in [Groups -> Rooms \cup {Off, Gone}]
      /\ attached \in [Sessions -> [Groups -> [state : {"none", "on", "off"}, at : Time]]]
      /\ asked \in [Sessions -> {"no", "on"} \cup Groups \cup Rooms]
      /\ moved \in [Sessions -> Time] /\ born \in [Sessions -> [Items -> Time]]
  BY <1>1 DEF Init
<1>5. NoRow \in Rows /\ ~NoRow.posted
  BY <1>1 DEF NoRow, Rows
<1>6. rows \in [Keys -> Rows] /\ said \in [Keys -> Nat] /\ slack = {} /\ server \in [Servers -> Sweeps]
      /\ \A k \in Keys : ~rows[k].posted /\ said[k] = 0
  BY <1>5, RecordsAre DEF Init
<1>7. TypeOK
  BY <1>1, <1>2, <1>3, <1>4, <1>6 DEF TypeOK
<1>8. RowsOK /\ Numbered /\ Passed /\ RepliesInTheirThread
  BY <1>6 DEF RowsOK, Numbered, Passed, RepliesInTheirThread
<1>9. Counted
  <2>1. \A k \in Keys : Landed(k) = {}
    BY <1>6 DEF Landed
  <2>2. Cardinality({}) = 0
    BY FS_EmptySet
  <2> QED BY <2>1, <2>2, <1>6 DEF Counted
<1>10. Watermark
  BY DEF Init, Watermark
<1>11. \A s \in Servers : server[s] = Idle
  BY DEF Init
<1>12. Apart /\ \A s \in Servers : SweepOK(server[s])
  BY <1>11, IdleIs DEF Apart
<1> QED BY <1>7, <1>8, <1>9, <1>10, <1>12 DEF MirrorInv

LEMMA MirrorStep == ASSUME MirrorInv, [Next]_vars PROVE MirrorInv'
<1>1. CASE Tick
  BY <1>1, DoTick
<1>2. CASE Choose
  BY <1>2, DoUpload, DoAsk, DoSavePrefs, DoSetLiveKill, DoAttach, DoDetach, DoEditGroup,
     DoDeleteGroup DEF Choose
<1>3. ASSUME NEW s \in Servers, Sweep(s) PROVE MirrorInv'
  <2>1. CASE Speak(s)
    BY <2>1, DoClaim, DoPost, DoPostFails, DoAnswerLost, DoSettle, DoSettleFails DEF Speak
  <2>2. CASE ~Speak(s)
    BY <1>3, <2>2, DoPromote, DoSelectGroups, DoSelectOwn, DoSelectDue, DoEndSweep,
       DoQueryFails, DoDie, DoOpenThread, DoUnresolved, DoReadItems, DoNextReply,
       DoEndReplies, DoOffer DEF Sweep
  <2> QED BY <2>1, <2>2
<1>4. CASE UNCHANGED vars
  <2>1. OutsideOK /\ clock' = clock /\ clock' >= clock
    BY <1>4, ClockIs DEF vars
  <2>2. OutsideOK' /\ UNCHANGED <<prefs, past, rows, slack, server, said>>
    BY <1>4, <2>1 DEF vars, people, work, OutsideOK
  <2> QED BY <2>1, <2>2, Others
<1> QED BY <1>1, <1>2, <1>3, <1>4 DEF Next

LEMMA MirrorAlways == Spec => []MirrorInv
<1>1. Init => MirrorInv
  BY MirrorInit
<1>2. MirrorInv /\ [Next]_vars => MirrorInv'
  BY MirrorStep
<1> QED BY <1>1, <1>2, PTL DEF Spec

(* Everything the mirror, its people and its sessions write has its type.  *)
THEOREM TypeCorrect == Spec => []TypeOK
BY MirrorAlways, PTL DEF MirrorInv

(* A key is said no more often than it was claimed (claimKey, post and     *)
(* markPosted of slack.go): any number of instances, deaths and lost       *)
(* answers, and any length of a lease.                                     *)
THEOREM RepeatsClaimed == Spec => []RepeatsAreClaims
<1>1. MirrorInv => RepeatsAreClaims
  <2> SUFFICES ASSUME MirrorInv, NEW k \in Keys PROVE said[k] <= rows[k].attempts
    BY DEF RepeatsAreClaims
  <2>1. slack \subseteq Messages /\ rows[k].attempts \in Nat /\ said[k] = Cardinality(Landed(k))
    BY DEF MirrorInv, TypeOK, Counted, Rows
  <2>2. Landed(k) \subseteq 1..rows[k].attempts
    BY <2>1 DEF MirrorInv, Numbered, Landed, Messages
  <2>3. IsFiniteSet(1..rows[k].attempts) /\ Cardinality(1..rows[k].attempts) = rows[k].attempts
    <3>1. PICK n \in Nat : n = rows[k].attempts
      BY <2>1
    <3>2. IsFiniteSet(1..n) /\ Cardinality(1..n) = IF 1 > n THEN 0 ELSE n - 1 + 1
      <4>1. 1 \in Int /\ n \in Int
        OBVIOUS
      <4> QED BY ONLY <4>1, FS_Interval, Zenon
    <3>3. (IF 1 > n THEN 0 ELSE n - 1 + 1) = n
      OBVIOUS
    <3> QED BY <3>1, <3>2, <3>3
  <2>4. Cardinality(Landed(k)) <= Cardinality(1..rows[k].attempts)
    BY <2>2, <2>3, FS_Subset
  <2> QED BY <2>1, <2>3, <2>4
<1> QED BY <1>1, MirrorAlways, PTL

(* Replies and the closing one stand under a root of their own thread, in  *)
(* its room (advanceThread and advanceGroups of groups.go).                *)
THEOREM RepliesStay == Spec => []RepliesInTheirThread
BY MirrorAlways, PTL DEF MirrorInv

(* A digest reaches the room its owner had chosen when the session last    *)
(* moved (eligible, with the watermark savePrefs sets).                    *)
THEOREM AudienceChosen == Spec => []ChosenAudience
<1>1. MirrorInv => ChosenAudience
  BY DEF MirrorInv, Passed, ChosenAudience
<1> QED BY <1>1, MirrorAlways, PTL
-----------------------------------------------------------------------------
(* The contract.                                                           *)
LEMMA LandedIn ==
  ASSUME MirrorInv, NEW k \in Keys
  PROVE  /\ Landed(k) \subseteq 1..rows[k].attempts /\ IsFiniteSet(Landed(k))
         /\ said[k] = Cardinality(Landed(k)) /\ said[k] \in Nat
         /\ rows[k].attempts \in 0..MaxAttempts /\ rows \in [Keys -> Rows]
         /\ rows[k] \in Rows /\ said \in [Keys -> Nat]
<1>1. slack \subseteq Messages /\ rows \in [Keys -> Rows] /\ said \in [Keys -> Nat]
  BY DEF MirrorInv, TypeOK
<1>2. rows[k] \in Rows /\ rows[k].attempts \in 0..MaxAttempts
  BY <1>1 DEF Rows
<1>3. Landed(k) \subseteq 1..rows[k].attempts
  BY <1>1, <1>2 DEF MirrorInv, Numbered, Landed, Messages
<1>4. IsFiniteSet(Landed(k))
  BY <1>1, LandedIs
<1> QED BY <1>1, <1>2, <1>3, <1>4 DEF MirrorInv, Counted

(* The claim of a sweep that is about to post has not been spent.          *)
LEMMA Unspent ==
  ASSUME MirrorInv, NEW s \in Servers, server[s].step = "post",
         NEW k \in Keys, k = server[s].key
  PROVE  said[k] < rows[k].attempts
<1>1. SweepOK(server[s])
  BY At
<1>2. PICK n \in Nat : n = rows[k].attempts
  BY LandedIn
<1>3. PICK c \in 1..n : c = server[s].claim
  BY <1>1, <1>2 DEF SweepOK, ClaimOK
<1>4. c \notin Landed(k)
  BY <1>1, <1>3 DEF SweepOK, HeardOK, Landed
<1>5. Landed(k) \cup {c} \subseteq 1..n
  BY <1>2, LandedIn
<1>6. IsFiniteSet(1..n) /\ Cardinality(1..n) = n
  <2>1. IsFiniteSet(1..n) /\ Cardinality(1..n) = IF 1 > n THEN 0 ELSE n - 1 + 1
    <3>1. 1 \in Int /\ n \in Int
      OBVIOUS
    <3> QED BY ONLY <3>1, FS_Interval, Zenon
  <2>2. (IF 1 > n THEN 0 ELSE n - 1 + 1) = n
    OBVIOUS
  <2> QED BY <2>1, <2>2
<1>7. Cardinality(Landed(k) \cup {c}) <= n
  BY <1>5, <1>6, FS_Subset
<1>8. Cardinality(Landed(k) \cup {c}) = Cardinality(Landed(k)) + 1
  BY <1>4, LandedIn, FS_AddElement
<1>9. said[k] \in Nat /\ said[k] = Cardinality(Landed(k))
  BY LandedIn
<1> QED BY <1>2, <1>7, <1>8, <1>9

(* What a sweep is about to settle has been read.                          *)
LEMMA Spoken ==
  ASSUME MirrorInv, NEW s \in Servers, server[s].step = "settle",
         NEW k \in Keys, k = server[s].key
  PROVE  said[k] > 0
<1>1. \E m \in slack : m.key = k
  BY At DEF SweepOK, HeardOK
<1>2. Landed(k) # {}
  BY <1>1 DEF Landed
<1>3. Cardinality(Landed(k)) # 0
  BY <1>2, LandedIn, FS_EmptySet
<1> QED BY <1>3, LandedIn

(* A key that nobody claimed is not settled.                               *)
LEMMA Unclaimed ==
  ASSUME MirrorInv, NEW k \in Keys, rows[k].attempts = 0
  PROVE  ~rows[k].posted
<1>1. ASSUME rows[k].posted PROVE FALSE
  <2>1. PICK m \in slack : m.key = k /\ m.ts = rows[k].ts
    BY <1>1 DEF MirrorInv, RowsOK
  <2>2. m.ts >= 1 /\ m.ts \in Nat /\ m.ts <= rows[k].attempts
    BY <2>1 DEF MirrorInv, Numbered, TypeOK, Messages
  <2> QED BY <2>2
<1> QED BY <1>1

(* The steps of the four kinds, on the rows.                               *)
LEMMA Maps ==
  ASSUME rows \in [Keys -> Rows], rows' \in [Keys -> Rows], said \in [Keys -> Nat],
         NEW k \in Keys, \A j \in Keys \ {k} : rows'[j] = rows[j]
  PROVE  /\ rows'[k].attempts = rows[k].attempts + 1 /\ rows'[k].posted = rows[k].posted
            /\ ~rows[k].posted /\ said' = said
              => Contract!Claim(k)
         /\ rows'[k].attempts = MaxAttempts /\ rows'[k].posted = rows[k].posted
            /\ said[k] < rows[k].attempts /\ said' = said
              => Contract!GiveUp(k)
         /\ rows'[k].attempts = rows[k].attempts /\ rows'[k].posted = TRUE
            /\ said[k] > 0 /\ said' = said
              => Contract!Settle(k)
<1>1. \A j \in Keys : rows[j].attempts \in 0..MaxAttempts /\ rows'[j].attempts \in 0..MaxAttempts
  BY DEF Rows
<1> DEFINE C == [j \in Keys |-> rows[j].attempts]
           P == {j \in Keys : rows[j].posted}
<1>2. C[k] = rows[k].attempts
  OBVIOUS
<1>3. ASSUME rows'[k].attempts = rows[k].attempts + 1, rows'[k].posted = rows[k].posted,
             ~rows[k].posted, said' = said
      PROVE  Contract!Claim(k)
  <2>1. C' = [C EXCEPT ![k] = @ + 1]
    BY <1>3
  <2>2. P' = P
    BY <1>3
  <2>3. k \notin P /\ C[k] < MaxAttempts
    BY <1>1, <1>2, <1>3
  <2> QED BY <1>3, <2>1, <2>2, <2>3 DEF Contract!Claim
<1>4. ASSUME rows'[k].attempts = MaxAttempts, rows'[k].posted = rows[k].posted,
             said[k] < rows[k].attempts, said' = said
      PROVE  Contract!GiveUp(k)
  <2>1. C' = [C EXCEPT ![k] = MaxAttempts]
    BY <1>4
  <2>2. P' = P
    BY <1>4
  <2> QED BY <1>2, <1>4, <2>1, <2>2 DEF Contract!GiveUp
<1>5. ASSUME rows'[k].attempts = rows[k].attempts, rows'[k].posted = TRUE,
             said[k] > 0, said' = said
      PROVE  Contract!Settle(k)
  <2>1. C' = C
    <3>1. \A j \in Keys : rows'[j].attempts = rows[j].attempts
      BY <1>5
    <3> QED BY <3>1
  <2>2. P' = P \cup {k}
    BY <1>5
  <2> QED BY <1>5, <2>1, <2>2 DEF Contract!Settle
<1> QED BY <1>3, <1>4, <1>5

LEMMA ClaimClaims ==
  ASSUME MirrorInv, MirrorInv', NEW s \in Servers, Claim(s)
  PROVE  (\E k \in Keys : Contract!Claim(k)) \/ UNCHANGED <<rows, said>>
<1>1. server[s].step \in Speaks
  BY DEF Claim, Speaks
<1>2. PICK k \in Keys : k = server[s].key
  BY <1>1, Speaking
<1>3. CASE rows[k].attempts = 0 \/ Retryable(k, server[s].now)
  <2>1. rows \in [Keys -> Rows] /\ said \in [Keys -> Nat]
    BY LandedIn
  <2>2. rows' \in [Keys -> Rows]
    BY DEF MirrorInv, TypeOK
  <2>3. rows' = [rows EXCEPT ![k].attempts = rows[k].attempts + 1, ![k].claimed = server[s].now]
        /\ said' = said
    BY <1>2, <1>3 DEF Claim
  <2>4. PICK row : row = [rows[k] EXCEPT !.attempts = rows[k].attempts + 1, !.claimed = server[s].now]
    OBVIOUS
  <2>5. rows' = [rows EXCEPT ![k] = row]
    BY <2>1, <2>3, <2>4
  <2>6. row.attempts = rows[k].attempts + 1 /\ row.posted = rows[k].posted
    BY <2>1, <2>4 DEF Rows
  <2>7. rows'[k].attempts = rows[k].attempts + 1 /\ rows'[k].posted = rows[k].posted
        /\ \A j \in Keys \ {k} : rows'[j] = rows[j]
    BY <2>1, <2>5, <2>6
  <2>8. ~rows[k].posted
    BY <1>3, Unclaimed DEF Retryable
  <2>9. Contract!Claim(k)
    BY <2>1, <2>2, <2>3, <2>7, <2>8, Maps
  <2> QED BY <2>9
<1>4. CASE UNCHANGED rows
  BY <1>4 DEF Claim
<1> QED BY <1>2, <1>3, <1>4 DEF Claim

LEMMA LandingSays ==
  ASSUME MirrorInv, NEW s \in Servers, server[s].step = "post", Lands(s), UNCHANGED rows
  PROVE  \E k \in Keys : Contract!Say(k)
<1>1. server[s].step \in Speaks
  BY DEF Speaks
<1>2. PICK k \in Keys : k = server[s].key
  BY <1>1, Speaking
<1>3. said[k] < rows[k].attempts /\ said' = [said EXCEPT ![k] = @ + 1]
  BY <1>2, Unspent DEF Lands
<1>4. Contract!Say(k)
  BY <1>3 DEF Contract!Say
<1> QED BY <1>4

LEMMA RefusalGivesUp ==
  ASSUME MirrorInv, MirrorInv', NEW s \in Servers, PostFails(s)
  PROVE  (\E k \in Keys : Contract!GiveUp(k)) \/ UNCHANGED <<rows, said>>
<1>1. server[s].step = "post" /\ server[s].step \in Speaks /\ said' = said
  BY DEF PostFails, Speaks
<1>2. PICK k \in Keys : k = server[s].key
  BY <1>1, Speaking
<1>3. CASE rows' = [rows EXCEPT ![k].attempts = MaxAttempts]
  <2>1. rows \in [Keys -> Rows] /\ said \in [Keys -> Nat]
    BY LandedIn
  <2>2. rows' \in [Keys -> Rows]
    BY DEF MirrorInv, TypeOK
  <2>3. rows'[k].attempts = MaxAttempts /\ rows'[k].posted = rows[k].posted
        /\ \A j \in Keys \ {k} : rows'[j] = rows[j]
    BY <1>3, <2>1 DEF Rows
  <2>4. Contract!GiveUp(k)
    BY <1>1, <1>2, <2>1, <2>2, <2>3, Maps, Unspent
  <2> QED BY <2>4
<1> QED BY <1>1, <1>2, <1>3 DEF PostFails

LEMMA SettleSettles ==
  ASSUME MirrorInv, MirrorInv', NEW s \in Servers, Settle(s)
  PROVE  \E k \in Keys : Contract!Settle(k)
<1>1. server[s].step = "settle" /\ server[s].step \in Speaks /\ said' = said
  BY DEF Settle, Speaks
<1>2. PICK k \in Keys : k = server[s].key
  BY <1>1, Speaking
<1>3. rows \in [Keys -> Rows] /\ said \in [Keys -> Nat]
  BY LandedIn
<1>4. rows' \in [Keys -> Rows]
  BY DEF MirrorInv, TypeOK
<1>5. PICK row : row = [rows[k] EXCEPT !.posted = TRUE, !.room = server[s].cur.room,
                                       !.ts = server[s].claim]
  OBVIOUS
<1>6. row.attempts = rows[k].attempts /\ row.posted = TRUE
  BY <1>3, <1>5 DEF Rows
<1>7. rows' = [rows EXCEPT ![k] = row]
  BY <1>2, <1>5 DEF Settle
<1>8. rows'[k].attempts = rows[k].attempts /\ rows'[k].posted = TRUE
      /\ \A j \in Keys \ {k} : rows'[j] = rows[j]
  BY <1>3, <1>6, <1>7
<1>9. said[k] > 0
  BY <1>1, <1>2, Spoken
<1>10. Contract!Settle(k)
  BY <1>1, <1>3, <1>4, <1>8, <1>9, Maps
<1> QED BY <1>10

LEMMA ElseKept ==
  ASSUME [Next]_vars,
         \A s \in Servers : ~(Claim(s) \/ Post(s) \/ PostFails(s) \/ AnswerLost(s) \/ Settle(s))
  PROVE  UNCHANGED <<rows, said>>
<1>1. CASE Tick
  BY <1>1 DEF Tick
<1>2. CASE Choose
  BY <1>2 DEF Choose, Upload, Ask, SavePrefs, SetLiveKill, Attach, Detach, EditGroup, DeleteGroup
<1>3. ASSUME NEW s \in Servers, Sweep(s) PROVE UNCHANGED <<rows, said>>
  BY <1>3 DEF Sweep, Speak, Promote, Select, SelectGroups, SelectOwn, SelectDue, EndSweep,
     QueryFails, Die, OpenThread, Unresolved, ReadItems, NextReply, EndReplies, Offer, SettleFails
<1>4. CASE UNCHANGED vars
  BY <1>4 DEF vars
<1> QED BY <1>1, <1>2, <1>3, <1>4 DEF Next

LEMMA StepRefines ==
  ASSUME MirrorInv, [Next]_vars
  PROVE  [Contract!ContractNext]_(Contract!contractVars)
<1>1. MirrorInv'
  BY MirrorStep
<1>2. UNCHANGED <<rows, said>> => UNCHANGED Contract!contractVars
  BY DEF Contract!contractVars
<1>3. ASSUME NEW s \in Servers,
             Claim(s) \/ Post(s) \/ PostFails(s) \/ AnswerLost(s) \/ Settle(s)
      PROVE  [Contract!ContractNext]_(Contract!contractVars)
  <2>1. CASE Claim(s)
    BY <1>1, <1>2, <2>1, ClaimClaims DEF Contract!ContractNext
  <2>2. CASE Post(s) \/ AnswerLost(s)
    <3>1. server[s].step = "post" /\ Lands(s) /\ UNCHANGED rows
      BY <2>2 DEF Post, AnswerLost
    <3> QED BY <3>1, LandingSays DEF Contract!ContractNext
  <2>3. CASE PostFails(s)
    BY <1>1, <1>2, <2>3, RefusalGivesUp DEF Contract!ContractNext
  <2>4. CASE Settle(s)
    BY <1>1, <2>4, SettleSettles DEF Contract!ContractNext
  <2> QED BY <1>3, <2>1, <2>2, <2>3, <2>4
<1> QED BY <1>2, <1>3, ElseKept

(* Every step of any number of instances is a step of MirrorContract:      *)
(* claimKey takes one claim of a key that is not settled, a message spends *)
(* a claim nobody has spent (post), and markPosted settles what people     *)
(* have read.                                                              *)
THEOREM MirrorRefines == Spec => ImplementsContract
<1>1. Init => Contract!ContractInit
  <2> SUFFICES ASSUME Init PROVE Contract!ContractInit
    OBVIOUS
  <2>1. NoRow.attempts = 0 /\ NoRow.posted = FALSE
    BY DEF NoRow
  <2>2. \A k \in Keys : rows[k] = NoRow
    BY DEF Init
  <2>3. said = [k \in Keys |-> 0]
    BY DEF Init
  <2> QED BY <2>1, <2>2, <2>3 DEF Contract!ContractInit
<1>2. MirrorInv /\ [Next]_vars => [Contract!ContractNext]_(Contract!contractVars)
  BY StepRefines
<1> QED BY <1>1, <1>2, MirrorAlways, PTL DEF Spec, ImplementsContract, Contract!ContractSpec
=============================================================================
