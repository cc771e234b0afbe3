-------------------------- MODULE SpoolStateProofs --------------------------
(* What holds of state.json for any number of processes and updates, and   *)
(* what holds besides until two updates overlap.                           *)
EXTENDS SpoolState, TLAPS

USE StateAssumption

(* A record that tells only of things that happened.                       *)
Sound(r) == r.drops <= total /\ r.success \in accepted \cup {0}

(* Every record anywhere is sound: in a file, or on its way to one.        *)
AllSound ==
  /\ \A i \in Inodes : Sound(content[i].rec)
  /\ \A p \in Writers : Sound(w[p].rec) /\ mem[p] <= total

SoundInv == TypeOK /\ AllSound

LEMMA DurableSound ==
  ASSUME SoundInv
  PROVE  Durable \in Record /\ Sound(Durable)
BY DEF SoundInv, AllSound, TypeOK, Durable, Readable, Contents, Record, Zero, Sound

LEMMA LiveType ==
  ASSUME NEW c, NEW S, Empty \in S, \A i \in Inodes : c[i] \in S
  PROVE  Live(c) \in [Inodes -> S]
BY DEF Live

LEMMA EmptyType ==
  TypeOK => /\ Empty \in Contents /\ Mixed \in Contents /\ Sound(Zero)
            /\ Zero \in Record /\ \A r \in Record : Whole(r) \in Contents
BY DEF Empty, Mixed, Whole, Contents, Record, Zero, Sound, TypeOK

LEMMA InitSound == Init => SoundInv
<1>. SUFFICES ASSUME Init PROVE SoundInv
  OBVIOUS
<1>1. overlapped \in BOOLEAN
  BY DEF Init
<1>2. Empty \in Contents /\ Zero \in Record
  BY DEF Contents, Record, Empty, Zero
<1>. QED
  BY <1>1, <1>2 DEF Init, SoundInv, AllSound, TypeOK, Sound, Empty, Zero, IdleWriter

LEMMA BeginsType ==
  TypeOK /\ Begins => overlapped' \in BOOLEAN
BY DEF TypeOK, Begins

(* One process's step keeps every record sound.                            *)
LEMMA UpdateSound ==
  ASSUME SoundInv, NEW p \in Writers, Update(p)
  PROVE  SoundInv'
<1>1. Durable \in Record /\ Sound(Durable)
  BY DurableSound
<1>. USE DEF SoundInv, AllSound, TypeOK, Sound, Record, files
<1>2. CASE RecordDrop(p)
  <2>. DEFINE r == [drops |-> Durable.drops + 1, success |-> Durable.success]
  <2>1. /\ r.drops <= total' /\ mem[p] + 1 <= total'
        /\ total' \in 0 .. MaxDrops /\ total <= total'
    BY <1>1, <1>2 DEF RecordDrop
  <2>2. r \in Record /\ r.drops <= total' /\ r.success \in accepted \cup {0}
    BY <1>1, <2>1
  <2>3. w' = [w EXCEPT ![p] = [pc |-> "computed", fd |-> NoFile, rec |-> r]]
    BY <1>2 DEF RecordDrop
  <2>. HIDE DEF r
  <2>4. TypeOK'
    BY <1>2, <2>1, <2>2, <2>3, BeginsType DEF RecordDrop
  <2>5. /\ total' = total + 1 /\ accepted' = accepted /\ content' = content
        /\ mem' = [mem EXCEPT ![p] = @ + 1]
    BY <1>2 DEF RecordDrop
  <2>6. \A i \in Inodes : Sound(content[i].rec)'
    BY <2>5 DEF Contents
  <2>7. ASSUME NEW q \in Writers
        PROVE  Sound(w[q].rec)' /\ mem'[q] <= total'
    BY <2>1, <2>2, <2>3, <2>5
  <2>. QED
    BY <2>4, <2>6, <2>7
<1>3. CASE RecordSuccess(p)
  <2>1. /\ Later(Durable.success, now) \in 0 .. MaxTime
        /\ Later(Durable.success, now) \in accepted' \cup {0}
    BY <1>1, <1>3 DEF RecordSuccess, Later
  <2>. QED
    BY <1>1, <1>3, <2>1, BeginsType DEF RecordSuccess
<1>4. CASE Touch(p)
  BY <1>1, <1>4, BeginsType DEF Touch
<1>. QED
  BY <1>2, <1>3, <1>4 DEF Update

LEMMA FinishSound ==
  ASSUME SoundInv, NEW p \in Writers, Finish(p) \/ Killed(p)
  PROVE  SoundInv'
<1>1. /\ Empty \in Contents /\ Mixed \in Contents /\ Sound(Zero)
      /\ Zero \in Record /\ \A r \in Record : Whole(r) \in Contents
  BY EmptyType DEF SoundInv
<1>. USE DEF SoundInv, AllSound, TypeOK, Sound, files
<1>2. CASE OpenTemp(p)
  <2>1. PICK i \in Inodes :
          /\ tmp' = i
          /\ content' = [content EXCEPT ![i] = Empty]
          /\ w' = [w EXCEPT ![p] = [pc |-> "opened", fd |-> i, rec |-> @.rec]]
    BY <1>2 DEF OpenTemp, Free
  <2>. QED
    BY <1>1, <1>2, <2>1 DEF OpenTemp, Empty
<1>3. CASE WriteTemp(p)
  <2>. DEFINE i == w[p].fd
              S == {k \in Contents : Sound(k.rec)}
  <2>1. PICK c \in {Whole(w[p].rec), Mixed} :
          content' = Live([content EXCEPT ![i] = c])
    BY <1>3 DEF WriteTemp
  <2>2. Empty \in S /\ Mixed \in S /\ Whole(w[p].rec) \in S
    BY <1>1 DEF Empty, Mixed, Whole
  <2>3. \A j \in Inodes : [content EXCEPT ![i] = c][j] \in S
    BY <2>1, <2>2
  <2>4. content' \in [Inodes -> S]
    BY <2>1, <2>2, <2>3, LiveType
  <2>. QED
    BY <1>1, <1>3, <2>4 DEF WriteTemp
<1>4. CASE /\ content' = Live(content)
           /\ UNCHANGED <<total, accepted, now, overlapped>>
           /\ mem' \in [Writers -> 0 .. MaxDrops]
           /\ \A q \in Writers : mem'[q] <= total
           /\ written' \in [Writers -> 0 .. MaxTime]
           /\ state' \in Inodes \cup {NoFile} /\ tmp' \in Inodes \cup {NoFile}
           /\ w' = [w EXCEPT ![p] = IdleWriter]
  <2>. DEFINE S == {k \in Contents : Sound(k.rec)}
  <2>1. Empty \in S
    BY <1>1 DEF Empty
  <2>2. content' \in [Inodes -> S]
    BY <1>4, <2>1, LiveType
  <2>. QED
    BY <1>1, <1>4, <2>2 DEF IdleWriter
<1>5. CASE RenameFails(p)
  BY <1>5 DEF RenameFails
<1>6. CASE WriteFails(p)
  BY <1>4, <1>6 DEF WriteFails
<1>7. CASE Rename(p)
  BY <1>4, <1>7 DEF Rename
<1>8. CASE RemoveTemp(p)
  BY <1>4, <1>8 DEF RemoveTemp
<1>9. CASE Killed(p)
  BY <1>4, <1>9 DEF Killed
<1>. QED
  BY <1>2, <1>3, <1>5, <1>6, <1>7, <1>8, <1>9 DEF Finish

LEMMA NextSound == SoundInv /\ [Next]_vars => SoundInv'
<1>. SUFFICES ASSUME SoundInv, [Next]_vars
              PROVE  SoundInv'
  OBVIOUS
<1>1. CASE Tick
  BY <1>1 DEF Tick, SoundInv, AllSound, TypeOK, Sound, files
<1>2. CASE UNCHANGED vars
  BY <1>2 DEF vars, SoundInv, AllSound, TypeOK, Sound, files
<1>. QED
  BY <1>1, <1>2, UpdateSound, FinishSound DEF Next

(* Every record in a file, in memory or in flight tells only of things     *)
(* that happened.                                                          *)
THEOREM StateIsSound == Spec => []SoundInv
BY InitSound, NextSound, PTL DEF Spec

(* Type correctness of the state file's model.                             *)
THEOREM StateTypeCorrect == Spec => []TypeOK
<1>1. SoundInv => TypeOK
  BY DEF SoundInv
<1>. QED
  BY <1>1, StateIsSound, PTL

(* Whatever updates are lost or mixed, state.json never counts a drop or   *)
(* names a delivery that did not happen, and the larger of memory and file *)
(* that a health report sends is never more than what happened.            *)
THEOREM StateInventsNothing == Spec => []NothingInvented
<1>1. SoundInv => Durable.drops <= total /\ Durable.success \in accepted \cup {0}
  BY DurableSound DEF Sound
<1>2. SoundInv => \A p \in Writers : Reported(p) <= total
  BY DurableSound DEF Sound, SoundInv, AllSound, Reported, Later
<1>3. SoundInv => NothingInvented
  BY <1>1, <1>2 DEF NothingInvented
<1>. QED
  BY <1>3, StateIsSound, PTL

-----------------------------------------------------------------------------
(* Until two updates overlap one writer is at work at a time. Its temp file*)
(* is its own from open to rename, and what it is about to write is no     *)
(* older than what stands there.                                           *)
NotOlder(r, s) == r.drops >= s.drops /\ r.success >= s.success

SoloInv ==
  /\ state # NoFile => Readable
  /\ tmp # NoFile => tmp # state
  /\ \A p, q \in Writers : w[p].pc # "idle" /\ w[q].pc # "idle" => p = q
  /\ \A p \in Writers :
       /\ w[p].pc # "failed"
       /\ w[p].pc \in {"computed", "opened"} => NotOlder(w[p].rec, Durable)
       /\ w[p].pc = "opened" =>
            tmp # NoFile /\ w[p].fd = tmp /\ content[tmp] = Empty
       /\ w[p].pc = "written" =>
            /\ tmp # NoFile
            /\ content[tmp].form = "whole"
            /\ NotOlder(content[tmp].rec, Durable)

Advances == NotOlder(Durable', Durable)

LEMMA DurableKept ==
  state' = state /\ (state # NoFile => content'[state] = content[state])
    => Durable' = Durable /\ Readable' = Readable
BY DEF Durable, Readable

LEMMA SoloStep ==
  ASSUME NEW p \in Writers, SoundInv, SoloInv,
         Update(p) \/ Finish(p) \/ (Killed(p) /\ w[p].pc # "idle"),
         ~overlapped'
  PROVE  SoloInv' /\ Advances
<1>1. Durable \in Record
  BY DurableSound
<1>2. NotOlder(Durable, Durable)
  BY <1>1 DEF NotOlder, Record
<1>a. Durable.drops \in Nat /\ Durable.success \in Nat
  BY <1>1 DEF Record
<1>b. \A q \in Writers \ {p} : w'[q] = w[q] /\ w[q].pc = "idle"
  <2>1. \A q \in Writers \ {p} : w'[q] = w[q]
    BY DEF Update, Finish, RecordDrop, RecordSuccess, Touch, OpenTemp, WriteTemp,
           WriteFails, Rename, RenameFails, RemoveTemp, Killed, SoundInv, TypeOK
  <2>2. CASE Update(p)
    BY <2>1, <2>2 DEF Update, RecordDrop, RecordSuccess, Touch, Begins, SoloInv
  <2>3. CASE Finish(p)
    BY <2>1, <2>3 DEF Finish, OpenTemp, WriteTemp, WriteFails, Rename, RenameFails,
                      RemoveTemp, SoloInv
  <2>4. CASE Killed(p) /\ w[p].pc # "idle"
    BY <2>1, <2>4 DEF SoloInv
  <2>. QED
    BY <2>1, <2>2, <2>3, <2>4
<1>. USE DEF SoundInv, TypeOK, SoloInv, Advances, files
<1>4. CASE RecordDrop(p)
  BY <1>a, <1>b, <1>2, <1>4, DurableKept DEF RecordDrop, NotOlder, Readable
<1>5. CASE RecordSuccess(p)
  <2>1. Later(Durable.success, now) >= Durable.success
    BY <1>a DEF Later
  <2>. QED
    BY <1>a, <1>b, <1>2, <1>5, <2>1, DurableKept DEF RecordSuccess, NotOlder, Readable
<1>6. CASE Touch(p)
  BY <1>2, <1>b, <1>6, DurableKept DEF Touch, Readable
<1>7. CASE OpenTemp(p)
  <2>1. PICK i \in IF tmp = NoFile THEN Free ELSE {tmp} :
          /\ tmp' = i
          /\ content' = [content EXCEPT ![i] = Empty]
          /\ w' = [w EXCEPT ![p] = [pc |-> "opened", fd |-> i, rec |-> @.rec]]
    BY <1>7 DEF OpenTemp
  <2>2. i \in Inodes /\ i # state /\ i # NoFile
    BY <2>1 DEF Free
  <2>3. Durable' = Durable /\ Readable' = Readable /\ state' = state
    BY <1>7, <2>1, <2>2, DurableKept DEF OpenTemp
  <2>4. w[p].pc = "computed"
    BY <1>7 DEF OpenTemp
  <2>. QED
    BY <1>2, <1>b, <2>1, <2>2, <2>3, <2>4 DEF Readable
<1>8. CASE WriteTemp(p)
  <2>1. /\ w[p].pc = "opened" /\ w[p].fd = tmp /\ content[tmp] = Empty
        /\ tmp \in Inodes /\ tmp # state
        /\ w' = [w EXCEPT ![p] = [pc |-> "written", fd |-> NoFile, rec |-> Zero]]
        /\ state' = state /\ tmp' = tmp
    BY <1>8 DEF WriteTemp
  <2>2. content' = Live([content EXCEPT ![tmp] = Whole(w[p].rec)])
    BY <1>8, <2>1 DEF WriteTemp
  <2>3. content'[tmp] = Whole(w[p].rec)
    BY <2>1, <2>2 DEF Live
  <2>4. state # NoFile => content'[state] = content[state]
    BY <2>1, <2>2 DEF Live
  <2>5. Durable' = Durable /\ Readable' = Readable
    BY <2>1, <2>4, DurableKept
  <2>. QED
    BY <1>2, <1>b, <2>1, <2>3, <2>5 DEF Whole, Readable
<1>9. CASE /\ state' = state /\ tmp' = tmp
           /\ w' = [w EXCEPT ![p] = IdleWriter]
           /\ content' = Live(content)
  <2>1. state # NoFile => content'[state] = content[state]
    BY <1>9 DEF Live
  <2>2. Durable' = Durable /\ Readable' = Readable
    BY <1>9, <2>1, DurableKept
  <2>. QED
    BY <1>2, <1>b, <1>9, <2>2 DEF IdleWriter, Readable
<1>10. CASE Rename(p)
  <2>1. /\ w[p].pc = "written" /\ tmp # NoFile /\ tmp \in Inodes
        /\ state' = tmp /\ tmp' = NoFile
        /\ w' = [w EXCEPT ![p] = IdleWriter]
        /\ content' = Live(content)
    BY <1>10 DEF Rename
  <2>2. content'[tmp] = content[tmp]
    BY <2>1 DEF Live
  <2>3. Durable' = content[tmp].rec /\ Readable'
    BY <2>1, <2>2 DEF Durable, Readable
  <2>. QED
    BY <1>b, <2>1, <2>3 DEF IdleWriter
<1>11. ~RenameFails(p) /\ ~RemoveTemp(p)
  BY DEF RenameFails, RemoveTemp
<1>12. CASE WriteFails(p) \/ Killed(p)
  BY <1>9, <1>12 DEF WriteFails, Killed
<1>. QED
  BY <1>4, <1>5, <1>6, <1>7, <1>8, <1>10, <1>11, <1>12 DEF Update, Finish

SoloUntil == ~overlapped => SoloInv

LEMMA SoloInit == Init => SoloUntil
BY DEF Init, SoloUntil, SoloInv, IdleWriter

LEMMA SoloNext ==
  ASSUME SoundInv, SoloUntil, [Next]_vars, ~overlapped'
  PROVE  SoloInv' /\ Advances
<1>1. ~overlapped
  BY DEF Next, Update, Finish, Tick, RecordDrop, RecordSuccess, Touch, Begins, OpenTemp,
         WriteTemp, WriteFails, Rename, RenameFails, RemoveTemp, Killed, vars,
         SoundInv, TypeOK
<1>2. SoloInv
  BY <1>1 DEF SoloUntil
<1>3. CASE UNCHANGED <<files, w>>
  <2>1. Durable' = Durable /\ Readable' = Readable
    BY <1>3 DEF Durable, Readable, files
  <2>2. NotOlder(Durable, Durable)
    BY DurableSound DEF NotOlder, Record
  <2>. QED
    BY <1>2, <1>3, <2>1, <2>2 DEF SoloInv, Advances, files
<1>4. ASSUME NEW p \in Writers, Killed(p), w[p].pc = "idle"
      PROVE  SoloInv' /\ Advances
  <2>1. /\ \A q \in Writers : q = p \/ w'[q] = w[q]
        /\ w'[p].pc = "idle" /\ state' = state /\ tmp' = tmp /\ content' = Live(content)
    BY <1>4 DEF Killed, IdleWriter, SoundInv, TypeOK
  <2>2. \A i \in Inodes : i = state \/ i = tmp => content'[i] = content[i]
    BY <2>1 DEF Live
  <2>3. Durable' = Durable /\ Readable' = Readable
    BY <2>1, <2>2, DurableKept DEF SoundInv, TypeOK
  <2>4. NotOlder(Durable, Durable)
    BY DurableSound DEF NotOlder, Record
  <2>. QED
    BY <1>2, <1>4, <2>1, <2>2, <2>3, <2>4 DEF SoloInv, Advances, SoundInv, TypeOK
<1>5. CASE Tick \/ UNCHANGED vars
  BY <1>3, <1>5 DEF Tick, vars, files
<1>6. ASSUME NEW p \in Writers, Update(p) \/ Finish(p) \/ Killed(p)
      PROVE  SoloInv' /\ Advances
  <2>1. CASE w[p].pc = "idle" /\ Killed(p)
    BY <1>4, <2>1
  <2>2. CASE w[p].pc # "idle" /\ Killed(p)
    BY <1>2, <2>2, SoloStep
  <2>3. CASE Update(p)
    <3>1. Update(p) \/ Finish(p) \/ (Killed(p) /\ w[p].pc # "idle")
      BY <2>3
    <3>. QED
      BY <1>2, <3>1, SoloStep
  <2>4. CASE Finish(p)
    <3>1. Update(p) \/ Finish(p) \/ (Killed(p) /\ w[p].pc # "idle")
      BY <2>4
    <3>. QED
      BY <1>2, <3>1, SoloStep
  <2>5. Killed(p) => SoloInv' /\ Advances
    BY <2>1, <2>2
  <2>. QED
    BY <1>6, <2>3, <2>4, <2>5
<1>. QED
  BY <1>5, <1>6 DEF Next

LEMMA SoloAlways == Spec => [](SoundInv /\ SoloUntil)
<1>1. Init => SoundInv /\ SoloUntil
  BY InitSound, SoloInit
<1>2. SoundInv /\ SoloUntil /\ [Next]_vars => (SoundInv /\ SoloUntil)'
  BY NextSound, SoloNext DEF SoloUntil
<1>. QED
  BY <1>1, <1>2, PTL DEF Spec

(* Until two updates overlap, a death anywhere leaves a state file that    *)
(* reads.                                                                  *)
THEOREM StateCrashAtomic == Spec => []CrashAtomic
<1>1. SoloUntil => CrashAtomic
  BY DEF SoloUntil, SoloInv, CrashAtomic
<1>. QED
  BY <1>1, SoloAlways, PTL

(* ... and nobody takes the tally or the delivery time back.               *)
THEOREM StateNeverGoesBack == Spec => Monotone
<1>1. SoundInv /\ SoloUntil /\ [Next]_vars
        => [~overlapped' => /\ Durable'.drops >= Durable.drops
                            /\ Durable'.success >= Durable.success]_vars
  BY SoloNext DEF Advances, NotOlder
<1>. QED
  BY <1>1, SoloAlways, PTL DEF Spec, Monotone

=============================================================================
