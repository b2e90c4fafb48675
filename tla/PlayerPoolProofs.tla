-------------------------- MODULE PlayerPoolProofs --------------------------
(* Proofs about PlayerPool: what a login reads, and who holds a slot of the  *)
(* pool, for any number of characters, connections, slots, logins and mails. *)
EXTENDS PlayerPool, SequenceTheorems, FiniteSetTheorems, FunctionTheorems, TLAPS

-----------------------------------------------------------------------------
(* The invariant.                                                            *)

SlotRecord == [character : SomeCharacter, locked : Threads \cup {Nobody},
               sticky : Int, dirty : BOOLEAN, data : Stored]
ConnRecord == [state : {"FREE", "CONNECTED", "LOGIN", "GAME", "LOGOUT", "DISCONNECTED"},
               who : SomeCharacter, slot : SomeSlot,
               at : {"idle", "assign", "load", "forget", "check", "unlock", "call"},
               character : SomeCharacter]
PlayerRecord == [there : BOOLEAN, slot : SomeSlot, connection : Conns \cup {Nobody},
                 isDead : BOOLEAN, loggingOut : BOOLEAN, logoutAllowed : BOOLEAN,
                 data : Stored]

ReaderRecord == [at : {"idle", "assign", "load", "forget", "look", "unlock"},
                 who : SomeCharacter, slot : SomeSlot]
WriterRecord == [at : {"idle", "attach", "save"}, who : {Nobody}, slot : SomeSlot]

\* The tables keep their shape.  Whether a count stays above zero is another
\* matter.
Shaped ==
    /\ slots \in [Slots -> SlotRecord]
    /\ file \in [Characters -> Stored]
    /\ conns \in [Conns -> ConnRecord]
    /\ players \in [Characters -> PlayerRecord]
    /\ orders \in Seq(Characters) /\ replies \in Seq(Characters)
    /\ reader \in ReaderRecord /\ writer \in WriterRecord
    /\ reader.at # "idle" => reader.who \in Characters
    /\ writer.at # "idle" => writer.slot \in Slots

\* Where a connection is tells what it holds: a thread past "assign" has a
\* slot, only a connection that is being registered has a thread at work, and
\* one that is in the game names a character.
RecordPlaced(r) ==
    /\ r.state # "CONNECTED" => r.at = "idle"
    /\ r.at # "idle" => r.who \in Characters
    /\ r.at \in {"load", "forget", "check", "unlock", "call"} => r.slot \in Slots
    /\ r.state = "GAME" => r.character \in Characters

Placed == \A c \in Conns : RecordPlaced(conns[c])

\* The game thread waits for the slot of a login that is still there, and of a
\* character that is not; and it buries a character.
Waiting ==
    /\ game.at = "attach" =>
          /\ game.who \in Conns /\ conns[game.who].state = "LOGIN"
          /\ conns[game.who].character \notin InWorld
    /\ game.at \in {"release", "bury"} =>
          game.who \in Characters /\ game = [at |-> game.at, who |-> game.who, slot |-> game.slot]

\* Nobody speaks for a character that is not in the world.
Silent == \A ch \in Characters : ~players[ch].there => players[ch].connection = Nobody

VoiceInv == Shaped /\ Placed /\ Waiting /\ Silent /\ OneVoice

-----------------------------------------------------------------------------
(* What a step does to the pool: it leaves every slot alone, or touches one. *)
Touched ==
    \/ UNCHANGED slots
    \/ \E i, r : slots' = [slots EXCEPT ![i] = r] /\ (i \in Slots => r \in SlotRecord)

LEMMA TouchedKeeps ==
    ASSUME slots \in [Slots -> SlotRecord], Touched
    PROVE  slots' \in [Slots -> SlotRecord]
<1> HIDE DEF SlotRecord
<1> QED BY DEF Touched

LEMMA SlotFields ==
    ASSUME slots \in [Slots -> SlotRecord], NEW i \in Slots
    PROVE  /\ slots[i] \in SlotRecord
           /\ slots[i].character \in SomeCharacter /\ slots[i].locked \in Threads \cup {Nobody}
           /\ slots[i].sticky \in Int /\ slots[i].data \in Stored
<1>1. slots[i] \in SlotRecord
  OBVIOUS
<1> QED BY ONLY <1>1 DEF SlotRecord

\* A slot record with one field changed.
LEMMA SlotLocked ==
    ASSUME NEW s \in SlotRecord, NEW t \in Threads \cup {Nobody}, NEW r,
           r = [s EXCEPT !.locked = t]
    PROVE  r \in SlotRecord /\ r.character = s.character
  BY DEF SlotRecord

LEMMA SlotCounted ==
    ASSUME NEW s \in SlotRecord, NEW n \in Int, NEW r, r = [s EXCEPT !.sticky = n]
    PROVE  r \in SlotRecord /\ r.character = s.character
  BY DEF SlotRecord

LEMMA SlotLoaded ==
    ASSUME NEW s \in SlotRecord, NEW d \in Stored, NEW r, r = [s EXCEPT !.data = d]
    PROVE  r \in SlotRecord /\ r.character = s.character
  BY DEF SlotRecord

LEMMA FreshRecord == ASSUME NEW ch \in SomeCharacter PROVE Fresh(ch) \in Stored
<1>1. 0 \in Nat
  BY SMT
<1> QED BY <1>1 DEF Fresh, Stored

\* What a player who leaves stores, and what is stored late.
LEMMA LeftRecord ==
    ASSUME players \in [Characters -> PlayerRecord], NEW ch \in Characters
    PROVE  Left(ch) \in Stored
<1> DEFINE n == players[ch].data.visits
           up == n + 1
           w == IF Player(ch).isDead THEN Nobody ELSE ch
<1>1. players[ch] \in PlayerRecord
  OBVIOUS
<1>2. players[ch].data \in Stored
  BY ONLY <1>1 DEF PlayerRecord
<1>3. n \in Nat
  BY ONLY <1>2 DEF Stored
<1>4. up \in Nat
  BY <1>3, SMT
<1>5. w \in SomeCharacter
  BY DEF SomeCharacter
<1>6. Left(ch) = [visits |-> up, things |-> w]
  BY DEF Left, Player
<1> HIDE DEF up, w
<1> QED BY ONLY <1>4, <1>5, <1>6 DEF Stored

LEMMA LateTouches ==
    ASSUME slots \in [Slots -> SlotRecord], NEW i, NEW ch \in SomeCharacter,
           SaveInventoryLate(i, ch)
    PROVE  Touched
<1> DEFINE d == [slots[i].data EXCEPT !.things = ch]
           r == [slots[i] EXCEPT !.data = d]
<1>1. slots' = [slots EXCEPT ![i] = r]
  BY DEF SaveInventoryLate
<1>2. ASSUME i \in Slots PROVE r \in SlotRecord
  <2>1. slots[i].data \in Stored
    BY <1>2, SlotFields
  <2>2. d \in Stored
    BY ONLY <2>1, ch \in SomeCharacter DEF Stored, d
  <2> HIDE DEF d
  <2> QED BY <1>2, <2>2, SlotFields, SlotLoaded
<1> HIDE DEF r
<1> QED BY <1>1, <1>2 DEF Touched

LEMMA SlotGiven ==
    ASSUME NEW ch \in Characters, NEW t \in Threads, NEW r,
           r = [Empty EXCEPT !.character = ch, !.locked = t]
    PROVE  r \in SlotRecord /\ r.character = ch
<1>1. 0 \in Int
  BY SMT
<1>2. Nobody \in SomeCharacter
  BY DEF SomeCharacter
<1> DEFINE d == Fresh(Nobody)
<1>3. d \in Stored
  BY <1>2, FreshRecord
<1>4. Empty = [character |-> Nobody, locked |-> Nobody, sticky |-> 0, dirty |-> FALSE, data |-> d]
  BY DEF Empty
<1> HIDE DEF d
<1> QED BY <1>1, <1>3, <1>4 DEF SlotRecord, SomeCharacter

LEMMA CountsTouch ==
    ASSUME slots \in [Slots -> SlotRecord], NEW i, Stick(i) \/ Unstick(i)
    PROVE  Touched
<1> DEFINE r(n) == [slots[i] EXCEPT !.sticky = n]
           up == slots[i].sticky + 1
           dn == slots[i].sticky - 1
<1>1. slots' = [slots EXCEPT ![i] = r(up)] \/ slots' = [slots EXCEPT ![i] = r(dn)]
  BY DEF Stick, Unstick
<1>2. ASSUME i \in Slots
      PROVE  slots[i] \in SlotRecord /\ up \in Int /\ dn \in Int
  <2>1. slots[i] \in SlotRecord /\ slots[i].sticky \in Int
    BY <1>2, SlotFields
  <2> QED BY <2>1, SMT
<1> HIDE DEF up, dn
<1>3. ASSUME i \in Slots, NEW n \in Int
      PROVE  r(n) \in SlotRecord
  BY <1>2, <1>3, SlotCounted
<1> HIDE DEF r
<1> QED BY <1>1, <1>2, <1>3 DEF Touched

LEMMA LockTouches ==
    ASSUME slots \in [Slots -> SlotRecord], NEW i, NEW t \in Threads \cup {Nobody},
           slots' = [slots EXCEPT ![i].locked = t]
    PROVE  Touched
<1> DEFINE r == [slots[i] EXCEPT !.locked = t]
<1>1. slots' = [slots EXCEPT ![i] = r]
  OBVIOUS
<1>2. i \in Slots => r \in SlotRecord
  BY SlotFields, SlotLocked
<1> HIDE DEF r
<1> QED BY <1>1, <1>2 DEF Touched

LEMMA ReleaseTouches ==
    ASSUME slots \in [Slots -> SlotRecord], NEW i, NEW thread, Release(i, thread)
    PROVE  Touched
<1> DEFINE t == IF slots[i].locked = thread THEN Nobody ELSE slots[i].locked
           r == [slots[i] EXCEPT !.locked = t]
<1>1. slots' = [slots EXCEPT ![i] = r]
  BY DEF Release
<1>2. i \in Slots => t \in Threads \cup {Nobody}
  BY SlotFields
<1> HIDE DEF t
<1>3. i \in Slots => r \in SlotRecord
  BY <1>2, SlotFields, SlotLocked
<1> HIDE DEF r
<1> QED BY <1>1, <1>3 DEF Touched

\* A load that fails empties the slot and unlocks it.
LEMMA FailureTouches ==
    ASSUME slots \in [Slots -> SlotRecord], NEW i, FailToLoad(i) \/ Forget(i)
    PROVE  Touched
<1>1. CASE FailToLoad(i)
  <2> DEFINE d == Fresh(Nobody)
             r == [slots[i] EXCEPT !.character = Nobody, !.data = d]
  <2>1. slots' = [slots EXCEPT ![i] = r]
    BY <1>1 DEF FailToLoad
  <2>2. d \in Stored /\ Nobody \in SomeCharacter
    BY FreshRecord DEF SomeCharacter
  <2> HIDE DEF d
  <2>3. ASSUME i \in Slots PROVE r \in SlotRecord
    <3>1. slots[i] \in SlotRecord
      BY <2>3, SlotFields
    <3> QED BY ONLY <2>2, <3>1 DEF SlotRecord, r
  <2> HIDE DEF r
  <2> QED BY <2>1, <2>3 DEF Touched
<1>2. CASE Forget(i)
  BY <1>2, LockTouches DEF Forget
<1> QED BY <1>1, <1>2

LEMMA LoadTouches ==
    ASSUME slots \in [Slots -> SlotRecord], file \in [Characters -> Stored],
           NEW i, NEW ch \in Characters, Load(i, ch)
    PROVE  Touched
<1> DEFINE d == file[ch]
           r == [slots[i] EXCEPT !.data = d]
<1>1. slots' = [slots EXCEPT ![i] = r] /\ d \in Stored
  BY DEF Load
<1> HIDE DEF d
<1>2. i \in Slots => r \in SlotRecord
  BY <1>1, SlotFields, SlotLoaded
<1> HIDE DEF r
<1> QED BY <1>1, <1>2 DEF Touched

LEMMA AssignTouches ==
    ASSUME slots \in [Slots -> SlotRecord], NEW ch \in Characters, NEW t \in Threads,
           NEW i \in Slots, NEW fresh, Assign(ch, t, i, fresh)
    PROVE  Touched
<1>1. CASE Loaded(ch)
  <2>2. CASE slots[i].locked = Nobody
    BY <1>1, <2>2, LockTouches DEF Assign
  <2>3. CASE slots[i].locked # Nobody
    BY <1>1, <2>3, CountsTouch DEF Assign, Stick
  <2> QED BY <2>2, <2>3
<1>2. CASE ~Loaded(ch)
  <2> DEFINE r == [Empty EXCEPT !.character = ch, !.locked = t]
  <2>1. slots' = [slots EXCEPT ![i] = r]
    BY <1>2 DEF Assign
  <2>2. r \in SlotRecord
    BY SlotGiven
  <2> HIDE DEF r
  <2> QED BY <2>1, <2>2 DEF Touched
<1> QED BY <1>1, <1>2

\* The communication threads and the pool.
LEMMA ConnTouches ==
    ASSUME Shaped, Placed, NEW c \in Conns, CommunicationThread(c)
    PROVE  Touched
<1>1. slots \in [Slots -> SlotRecord] /\ file \in [Characters -> Stored]
  BY DEF Shaped
<1>2. /\ c \in Threads /\ Nobody \in Threads \cup {Nobody}
      /\ conns[c].at # "idle" => conns[c].who \in Characters
  BY DEF Threads, Placed, RecordPlaced
<1>3. CASE UNCHANGED slots
  BY <1>3 DEF Touched
<1>4. CASE AssignSlot(c)
  BY <1>1, <1>2, <1>4, AssignTouches DEF AssignSlot, At
<1>5. CASE LoadSlot(c)
  BY <1>1, <1>2, <1>5, LoadTouches DEF LoadSlot, At
<1>6. CASE BlockLogin(c) \/ KeepSlot(c) \/ UnlockSlot(c)
  BY <1>1, <1>2, <1>6, CountsTouch, ReleaseTouches DEF BlockLogin, KeepSlot, UnlockSlot
<1>7. CASE LoadFails(c) \/ ForgetSlot(c)
  BY <1>1, <1>7, FailureTouches DEF LoadFails, ForgetSlot
<1> QED BY <1>3, <1>4, <1>5, <1>6, <1>7 DEF CommunicationThread, Register, FindNoSlot,
           CallGameThread, FreeConnection

\* The game thread and the pool.
LEMMA GameTouches ==
    ASSUME Shaped, Waiting, GameThread
    PROVE  Touched
<1>1. slots \in [Slots -> SlotRecord] /\ players \in [Characters -> PlayerRecord]
  BY DEF Shaped
<1>2. Game \in Threads \cup {Nobody} /\ Nobody \in Threads \cup {Nobody}
  BY DEF Threads
<1>3. CASE UNCHANGED slots
  BY <1>3 DEF Touched
<1>4. CASE Attach \/ ReleaseSlot \/ TakeReply
  BY <1>1, <1>2, <1>3, <1>4, LockTouches, ReleaseTouches DEF Attach, ReleaseSlot, TakeReply
<1>5. CASE \E c \in Conns : JoinRefused(c) \/ TakeOver(c)
  <2>1. PICK c \in Conns : JoinRefused(c) \/ TakeOver(c)
    BY <1>5
  <2>2. CASE JoinRefused(c)
    BY <1>1, <1>3, <2>2, CountsTouch DEF JoinRefused
  <2>3. CASE TakeOver(c)
    <3>1. UNCHANGED slots \/ Unstick(SlotOf(conns[c].character))
      BY <2>3 DEF TakeOver, Unstick
    <3> QED BY <1>1, <1>3, <3>1, CountsTouch
  <2> QED BY <2>1, <2>2, <2>3
<1>6. CASE \E ch \in Characters : Delete(ch)
  <2>1. PICK ch \in Characters : Delete(ch)
    BY <1>6
  <2> DEFINE i == Player(ch).slot
             n == slots[i].sticky - 1
             d == Left(ch)
             r == [slots[i] EXCEPT !.dirty = TRUE, !.data = d, !.sticky = n]
  <2>2. slots' = [slots EXCEPT ![i] = r]
    BY <2>1 DEF Delete
  <2>3. d \in Stored
    BY <1>1, LeftRecord
  <2> HIDE DEF d
  <2>4. ASSUME i \in Slots PROVE r \in SlotRecord
    <3>1. slots[i] \in SlotRecord /\ slots[i].sticky \in Int
      BY <1>1, <2>4, SlotFields
    <3>2. n \in Int
      BY <3>1, SMT
    <3> HIDE DEF n
    <3> QED BY ONLY <2>3, <3>1, <3>2 DEF SlotRecord, r
  <2> HIDE DEF r
  <2> QED BY <2>2, <2>4 DEF Touched
<1>7. CASE SendMails
  <2> DEFINE i == game.slot
             n == slots[i].sticky - 1
             t == IF slots[i].locked = Game THEN Nobody ELSE slots[i].locked
             r == [slots[i] EXCEPT !.dirty = TRUE, !.sticky = n, !.locked = t]
  <2>1. slots' = [slots EXCEPT ![i] = r]
    BY <1>7 DEF SendMails
  <2>2. ASSUME i \in Slots PROVE r \in SlotRecord
    <3>1. /\ slots[i] \in SlotRecord /\ slots[i].sticky \in Int
          /\ t \in Threads \cup {Nobody}
      BY <1>1, <2>2, SlotFields
    <3>2. n \in Int
      BY <3>1, SMT
    <3> HIDE DEF n, t
    <3> QED BY ONLY <3>1, <3>2 DEF SlotRecord, r
  <2> HIDE DEF r
  <2> QED BY <2>1, <2>2 DEF Touched
<1>8. CASE Bury
  <2>1. game.who \in SomeCharacter
    BY <1>8 DEF Bury, Waiting, SomeCharacter
  <2>2. CASE SaveInventoryLate(game.slot, game.who)
    BY <1>1, <2>1, <2>2, LateTouches
  <2> QED BY <1>3, <1>8, <2>2 DEF Bury
<1> QED BY <1>3, <1>4, <1>5, <1>6, <1>7, <1>8 DEF GameThread, GameStep, AttachFails, JoinNew,
           LogOut, LetGo, Die, OrderMail

\* The reader, the writer and the pool.
LEMMA FilersTouch ==
    ASSUME Shaped, ReaderThread \/ WriterThread
    PROVE  Touched
<1>1. /\ slots \in [Slots -> SlotRecord] /\ file \in [Characters -> Stored]
      /\ reader.at # "idle" => reader.who \in Characters
  BY DEF Shaped
<1>2. /\ Reader \in Threads /\ Writer \in Threads \cup {Nobody}
      /\ Nobody \in Threads \cup {Nobody}
  BY DEF Threads
<1>3. CASE UNCHANGED slots
  BY <1>3 DEF Touched
<1>4. CASE ReaderAssigns
  BY <1>1, <1>2, <1>4, AssignTouches DEF ReaderAssigns
<1>5. CASE ReaderLoads
  BY <1>1, <1>5, LoadTouches DEF ReaderLoads
<1>6. CASE ReaderKeeps \/ ReaderReplies
  BY <1>1, <1>2, <1>6, CountsTouch, ReleaseTouches DEF ReaderKeeps, ReaderReplies
<1>7. CASE WriterAttaches
  BY <1>1, <1>2, <1>3, <1>7, LockTouches DEF WriterAttaches
<1>8. CASE WriterSaves
  <2> DEFINE i == writer.slot
             r == [slots[i] EXCEPT !.dirty = FALSE, !.locked = Nobody]
  <2>1. UNCHANGED slots \/ slots' = [slots EXCEPT ![i] = r]
    BY <1>8 DEF WriterSaves
  <2>2. ASSUME i \in Slots PROVE r \in SlotRecord
    <3>1. slots[i] \in SlotRecord
      BY <1>1, <2>2, SlotFields
    <3> QED BY ONLY <3>1 DEF SlotRecord, r
  <2> HIDE DEF r
  <2> QED BY <2>1, <2>2 DEF Touched
<1>9. CASE ReaderLoadFails \/ ReaderForgets
  BY <1>1, <1>9, FailureTouches DEF ReaderLoadFails, ReaderForgets
<1> QED BY <1>3, <1>4, <1>5, <1>6, <1>7, <1>8, <1>9 DEF ReaderThread, WriterThread,
           ReaderTakesOrder, ReaderFindsNoSlot, ReaderGivesUp, ReaderTriesAgain, WriterPicks

LEMMA StepTouches ==
    ASSUME VoiceInv, Next
    PROVE  slots' \in [Slots -> SlotRecord]
<1>1. Touched
  BY ConnTouches, GameTouches, FilersTouch DEF Next, VoiceInv
<1>2. slots \in [Slots -> SlotRecord]
  BY DEF VoiceInv, Shaped
<1> QED BY <1>1, <1>2, TouchedKeeps

-----------------------------------------------------------------------------
(* The connections.                                                          *)

LEMMA ConnFields ==
    ASSUME conns \in [Conns -> ConnRecord], NEW c \in Conns
    PROVE  conns[c] \in ConnRecord
  OBVIOUS

LEMMA FreeRecord ==
    /\ Free \in ConnRecord
    /\ [Free EXCEPT !.state = "DISCONNECTED"] \in ConnRecord
    /\ Free.state = "FREE" /\ Free.at = "idle"
    /\ [Free EXCEPT !.state = "DISCONNECTED"].state = "DISCONNECTED"
    /\ [Free EXCEPT !.state = "DISCONNECTED"].at = "idle"
  BY DEF Free, ConnRecord, SomeCharacter, SomeSlot

\* A communication thread changes its own connection only, and neither comes
\* from the game nor enters it.
Handled(c) ==
    /\ conns[c].state \in {"FREE", "CONNECTED", "DISCONNECTED"}
    /\ \E r \in ConnRecord : conns' = [conns EXCEPT ![c] = r] /\ r.state # "GAME"
    /\ RecordPlaced(conns[c])'

LEMMA ConnHandled ==
    ASSUME Shaped, Placed, NEW c \in Conns, CommunicationThread(c)
    PROVE  Handled(c)
<1>1. /\ conns \in [Conns -> ConnRecord] /\ conns[c] \in ConnRecord
      /\ slots \in [Slots -> SlotRecord]
  BY DEF Shaped
<1>2. RecordPlaced(conns[c])
  BY DEF Placed
<1>4. conns[c].at # "idle" => conns[c].state = "CONNECTED"
  BY <1>2 DEF RecordPlaced
<1>5. CASE Register(c)
  <2>1. PICK ch \in Characters :
           conns' = [conns EXCEPT ![c] = [@ EXCEPT !.state = "CONNECTED", !.who = ch,
                                                   !.at = "assign"]]
    BY <1>5 DEF Register
  <2> DEFINE r == [conns[c] EXCEPT !.state = "CONNECTED", !.who = ch, !.at = "assign"]
  <2>2. /\ r \in ConnRecord /\ r.state = "CONNECTED" /\ r.at = "assign" /\ r.who = ch
    BY ONLY <1>1, ch \in Characters DEF ConnRecord, SomeCharacter
  <2>3. conns' = [conns EXCEPT ![c] = r]
    BY <2>1
  <2> HIDE DEF r
  <2>4. RecordPlaced(conns[c])'
    BY <1>1, <2>2, <2>3 DEF RecordPlaced
  <2> QED BY <1>5, <2>2, <2>3, <2>4 DEF Handled, Register
<1>6. CASE AssignSlot(c)
  <2>1. PICK i \in Slots, fresh \in BOOLEAN :
           /\ Assign(conns[c].who, c, i, fresh)
           /\ conns' = [conns EXCEPT ![c].slot = i, ![c].at = IF fresh THEN "load" ELSE "check"]
    BY <1>6 DEF AssignSlot
  <2> DEFINE v == IF fresh THEN "load" ELSE "check"
             r == [conns[c] EXCEPT !.slot = i, !.at = v]
  <2>2. /\ r \in ConnRecord /\ r.state = conns[c].state /\ r.at = v /\ r.who = conns[c].who
        /\ r.slot = i
    BY ONLY <1>1, i \in Slots DEF ConnRecord, SomeSlot
  <2>3. conns' = [conns EXCEPT ![c] = r]
    BY <1>1, <2>1
  <2>4. conns[c].state = "CONNECTED" /\ conns[c].who \in Characters
    BY <1>2, <1>4, <1>6 DEF AssignSlot, At, RecordPlaced
  <2> HIDE DEF r
  <2>6. RecordPlaced(conns[c])'
    BY <1>1, <2>2, <2>3, <2>4 DEF RecordPlaced
  <2> QED BY <2>2, <2>3, <2>4, <2>6 DEF Handled
<1>7. CASE LoadSlot(c) \/ LoadFails(c) \/ KeepSlot(c) \/ UnlockSlot(c)
  <2>1. PICK v \in {"forget", "check", "unlock", "call"} : conns' = [conns EXCEPT ![c].at = v]
    BY <1>7 DEF LoadSlot, LoadFails, KeepSlot, UnlockSlot
  <2>2. conns[c].at \in {"load", "check", "unlock"}
    BY <1>7 DEF LoadSlot, LoadFails, KeepSlot, UnlockSlot, At
  <2> DEFINE r == [conns[c] EXCEPT !.at = v]
  <2>3. /\ r \in ConnRecord /\ r.state = conns[c].state /\ r.at = v /\ r.who = conns[c].who
        /\ r.slot = conns[c].slot
    BY ONLY <1>1, v \in {"forget", "check", "unlock", "call"} DEF ConnRecord
  <2>4. conns' = [conns EXCEPT ![c] = r]
    BY <2>1
  <2> HIDE DEF r
  <2>5. RecordPlaced(conns[c])'
    BY <1>1, <1>2, <1>4, <2>2, <2>3, <2>4 DEF RecordPlaced
  <2> QED BY <1>4, <2>2, <2>3, <2>4, <2>5 DEF Handled
<1>8. CASE FindNoSlot(c) \/ ForgetSlot(c) \/ BlockLogin(c)
  <2> DEFINE r == [Free EXCEPT !.state = "DISCONNECTED"]
  <2>1. conns' = [conns EXCEPT ![c] = r] /\ conns[c].at # "idle"
    BY <1>8 DEF FindNoSlot, ForgetSlot, BlockLogin, At
  <2>2. r \in ConnRecord /\ r.state = "DISCONNECTED" /\ r.at = "idle"
    BY FreeRecord
  <2> HIDE DEF r
  <2>3. RecordPlaced(conns[c])'
    BY <1>1, <2>1, <2>2 DEF RecordPlaced
  <2> QED BY <1>4, <2>1, <2>2, <2>3 DEF Handled
<1>9. CASE CallGameThread(c)
  <2> DEFINE ch == slots[conns[c].slot].character
             r == [conns[c] EXCEPT !.state = "LOGIN", !.at = "idle", !.slot = Nobody,
                                   !.character = ch]
  <2>1. conns[c].at \in {"call", "check"}
    BY <1>9 DEF CallGameThread, At
  <2>2. ch \in SomeCharacter /\ conns[c].state = "CONNECTED"
    BY <1>1, <1>2, <1>4, <2>1, SlotFields DEF RecordPlaced
  <2>3. conns' = [conns EXCEPT ![c] = r]
    BY <1>9 DEF CallGameThread
  <2> HIDE DEF ch
  <2>4. r \in ConnRecord /\ r.state = "LOGIN" /\ r.at = "idle" /\ r.character = ch
    BY ONLY <1>1, <2>2 DEF ConnRecord, SomeSlot
  <2> HIDE DEF r
  <2>5. RecordPlaced(conns[c])'
    BY <1>1, <2>2, <2>3, <2>4 DEF RecordPlaced
  <2> QED BY <2>2, <2>3, <2>4, <2>5 DEF Handled
<1>10. CASE FreeConnection(c)
  <2>1. conns' = [conns EXCEPT ![c] = Free] /\ conns[c].state = "DISCONNECTED"
    BY <1>10 DEF FreeConnection
  <2>2. RecordPlaced(conns[c])'
    BY <1>1, <2>1, FreeRecord DEF RecordPlaced
  <2> QED BY <2>1, <2>2, FreeRecord DEF Handled
<1> QED BY <1>5, <1>6, <1>7, <1>8, <1>9, <1>10 DEF CommunicationThread

-----------------------------------------------------------------------------
(* The game thread.                                                          *)

\* What a step of the game thread may do to a connection: nothing, let it go,
\* or admit it to the game for the character it logged in for.
Kept1(d) == conns'[d] = conns[d]
LetGo1(d) == conns'[d].at = "idle" /\ conns'[d].state \in {"LOGOUT", "DISCONNECTED"}
Admitted(d) == /\ conns[d].state = "LOGIN" /\ conns'[d].state = "GAME"
               /\ conns'[d].at = "idle" /\ conns'[d].character = conns[d].character
               /\ conns'[d].character \in Characters

LEMMA LogoutRecord ==
    ASSUME NEW r \in ConnRecord, NEW s, s = [r EXCEPT !.state = "LOGOUT", !.character = Nobody]
    PROVE  s \in ConnRecord /\ s.state = "LOGOUT" /\ s.at = r.at
  BY DEF ConnRecord, SomeCharacter

LEMMA GameRecord ==
    ASSUME NEW r \in ConnRecord, NEW s, s = [r EXCEPT !.state = "GAME"]
    PROVE  s \in ConnRecord /\ s.state = "GAME" /\ s.at = r.at /\ s.character = r.character
  BY DEF ConnRecord

LEMMA LoggedOutFacts ==
    ASSUME conns \in [Conns -> ConnRecord], NEW cs, NEW t, t = LoggedOut(cs)
    PROVE  /\ t \in [Conns -> ConnRecord]
           /\ \A d \in Conns : IF d \in cs THEN t[d].state = "LOGOUT" /\ t[d].at = conns[d].at
                               ELSE t[d] = conns[d]
<1>1. ASSUME NEW d \in Conns
      PROVE  /\ t[d] \in ConnRecord
             /\ IF d \in cs THEN t[d].state = "LOGOUT" /\ t[d].at = conns[d].at
                ELSE t[d] = conns[d]
  <2>1. t[d] = IF d \in cs THEN [conns[d] EXCEPT !.state = "LOGOUT", !.character = Nobody]
               ELSE conns[d]
    BY DEF LoggedOut
  <2>2. conns[d] \in ConnRecord
    OBVIOUS
  <2> QED BY <2>1, <2>2, LogoutRecord
<1>2. t = [d \in Conns |-> t[d]]
  BY DEF LoggedOut
<1> HIDE DEF ConnRecord
<1> QED BY <1>1, <1>2

LEMMA DisconnectedFacts ==
    ASSUME conns \in [Conns -> ConnRecord], NEW c \in Conns, NEW t, t = Disconnected(c)
    PROVE  /\ t \in [Conns -> ConnRecord]
           /\ t[c].state = "DISCONNECTED" /\ t[c].at = "idle"
           /\ \A d \in Conns : d # c => t[d] = conns[d]
<1> DEFINE r == [Free EXCEPT !.state = "DISCONNECTED"]
<1>1. t = [conns EXCEPT ![c] = r]
  BY DEF Disconnected
<1>2. r \in ConnRecord /\ r.state = "DISCONNECTED" /\ r.at = "idle"
  BY FreeRecord
<1> HIDE DEF r
<1> QED BY <1>1, <1>2

\* A player record with what an action changes in it.
LEMMA PlayerFields ==
    ASSUME players \in [Characters -> PlayerRecord], NEW ch \in Characters
    PROVE  /\ players[ch] \in PlayerRecord
           /\ players[ch].there \in BOOLEAN /\ players[ch].isDead \in BOOLEAN
           /\ players[ch].logoutAllowed \in BOOLEAN
           /\ players[ch].connection \in Conns \cup {Nobody}
<1>1. players[ch] \in PlayerRecord
  OBVIOUS
<1> QED BY ONLY <1>1 DEF PlayerRecord

LEMMA AbsentRecord ==
    Absent \in PlayerRecord /\ Absent.there = FALSE /\ Absent.connection = Nobody
<1> DEFINE d == Fresh(Nobody)
<1>1. d \in Stored
  BY FreshRecord DEF SomeCharacter
<1>2. Absent = [there |-> FALSE, slot |-> Nobody, connection |-> Nobody, isDead |-> FALSE,
                loggingOut |-> FALSE, logoutAllowed |-> FALSE, data |-> d]
  BY DEF Absent
<1> HIDE DEF d
<1> QED BY <1>1, <1>2 DEF PlayerRecord, SomeSlot

\* The three ways a voice changes hands: it passes to a new connection, it
\* falls silent, or it stays where it is.
LEMMA VoicePasses ==
    ASSUME OneVoice, Nobody \notin Conns, NEW c \in Conns, NEW ch \in Characters,
           conns[c].state = "LOGIN",
           players'[ch].connection = c,
           \A h \in Characters : h # ch => players'[h].connection = players[h].connection,
           conns'[c].state = "GAME", conns'[c].character = ch,
           \A d \in Conns : d # c => IF players[ch].connection = d THEN conns'[d].state # "GAME"
                                     ELSE conns'[d] = conns[d]
    PROVE  OneVoice'
<1> SUFFICES ASSUME NEW d \in Conns, NEW h \in Characters
             PROVE  players'[h].connection = d
                       <=> conns'[d].state = "GAME" /\ conns'[d].character = h
  BY DEF OneVoice
<1>1. players[h].connection = d <=> conns[d].state = "GAME" /\ conns[d].character = h
  BY DEF OneVoice
<1>2. players[ch].connection = d <=> conns[d].state = "GAME" /\ conns[d].character = ch
  BY DEF OneVoice
<1>3. "LOGIN" # "GAME"
  OBVIOUS
<1>4. CASE d = c
  BY <1>1, <1>3, <1>4
<1>5. CASE d # c /\ h = ch
  BY <1>1, <1>5
<1>6. CASE d # c /\ h # ch
  BY <1>1, <1>2, <1>6
<1> QED BY <1>4, <1>5, <1>6

LEMMA VoiceFallsSilent ==
    ASSUME OneVoice, Nobody \notin Conns, NEW ch \in Characters,
           players'[ch].connection = Nobody,
           \A h \in Characters : h # ch => players'[h].connection = players[h].connection,
           \A d \in Conns : IF players[ch].connection = d THEN conns'[d].state # "GAME"
                            ELSE conns'[d] = conns[d]
    PROVE  OneVoice'
<1> SUFFICES ASSUME NEW d \in Conns, NEW h \in Characters
             PROVE  players'[h].connection = d
                       <=> conns'[d].state = "GAME" /\ conns'[d].character = h
  BY DEF OneVoice
<1>1. players[h].connection = d <=> conns[d].state = "GAME" /\ conns[d].character = h
  BY DEF OneVoice
<1>2. players[ch].connection = d <=> conns[d].state = "GAME" /\ conns[d].character = ch
  BY DEF OneVoice
<1>3. CASE h = ch
  BY <1>1, <1>3
<1>4. CASE h # ch
  BY <1>1, <1>2, <1>4
<1> QED BY <1>3, <1>4

LEMMA VoiceStays ==
    ASSUME OneVoice,
           \A h \in Characters : players'[h].connection = players[h].connection,
           \A d \in Conns : \/ conns'[d] = conns[d]
                            \/ conns[d].state # "GAME" /\ conns'[d].state # "GAME"
    PROVE  OneVoice'
<1> SUFFICES ASSUME NEW d \in Conns, NEW h \in Characters
             PROVE  players'[h].connection = d
                       <=> conns'[d].state = "GAME" /\ conns'[d].character = h
  BY DEF OneVoice
<1>1. players[h].connection = d <=> conns[d].state = "GAME" /\ conns[d].character = h
  BY DEF OneVoice
<1> QED BY <1>1

\* What a step of the game thread keeps.
Orderly ==
    /\ conns' \in [Conns -> ConnRecord] /\ players' \in [Characters -> PlayerRecord]
    /\ \A d \in Conns : Kept1(d) \/ LetGo1(d) \/ Admitted(d)
    /\ Silent' /\ OneVoice' /\ Waiting'

\* What the invariant says of a connection the game thread takes up.
LEMMA Facts ==
    ASSUME VoiceInv
    PROVE  /\ conns \in [Conns -> ConnRecord] /\ players \in [Characters -> PlayerRecord]
           /\ Nobody \notin Conns /\ OneVoice /\ Silent /\ Waiting
           /\ \A c \in Conns : conns[c].state # "CONNECTED" => conns[c].at = "idle"
           /\ \A c \in Conns : conns[c].state = "GAME" => conns[c].character \in Characters
           /\ \A c \in Conns : conns[c].character # Nobody => conns[c].character \in Characters
<1>1. /\ conns \in [Conns -> ConnRecord] /\ players \in [Characters -> PlayerRecord]
      /\ Nobody \notin Conns /\ OneVoice /\ Silent /\ Waiting
      /\ \A c \in Conns : conns[c].state # "CONNECTED" => conns[c].at = "idle"
      /\ \A c \in Conns : conns[c].state = "GAME" => conns[c].character \in Characters
  BY ThreadsAssumption DEF VoiceInv, Shaped, Placed, RecordPlaced
<1>2. ASSUME NEW c \in Conns PROVE conns[c].character \in SomeCharacter
  <2>1. conns[c] \in ConnRecord
    BY <1>1
  <2> QED BY ONLY <2>1 DEF ConnRecord
<1> QED BY <1>1, <1>2 DEF SomeCharacter

LEMMA AttachOrderly ==
    ASSUME VoiceInv, Attach
    PROVE  Orderly
<1> DEFINE c == game.who
           ch == conns[c].character
<1>1. /\ c \in Conns /\ conns[c].state = "LOGIN" /\ ch \in Characters /\ ~players[ch].there
      /\ conns[c].at = "idle" /\ players[ch].connection = Nobody
  BY Facts DEF Attach, Waiting, Silent, InWorld
<1>2. PICK i \in SlotsOf(ch) :
         players' = [players EXCEPT ![ch] = [Absent EXCEPT !.there = TRUE, !.slot = i,
                        !.connection = c, !.data = slots[i].data]]
  BY DEF Attach
<1>3. conns' = [conns EXCEPT ![c].state = "GAME"] /\ game' = Loop
  BY DEF Attach
<1> DEFINE d == slots[i].data
           p == [Absent EXCEPT !.there = TRUE, !.slot = i, !.connection = c, !.data = d]
           r == [conns[c] EXCEPT !.state = "GAME"]
<1>4. i \in Slots /\ d \in Stored
  BY SlotFields DEF SlotsOf, VoiceInv, Shaped
<1>5. players' = [players EXCEPT ![ch] = p] /\ conns' = [conns EXCEPT ![c] = r]
  BY <1>2, <1>3
<1>6. r \in ConnRecord /\ r.state = "GAME" /\ r.at = conns[c].at /\ r.character = ch
  BY <1>1, Facts, ConnFields, GameRecord
<1> HIDE DEF d, c, ch, r
<1>7. p \in PlayerRecord /\ p.connection = c /\ p.there = TRUE
  <2>1. Absent \in PlayerRecord
    BY AbsentRecord
  <2>2. i \in SomeSlot /\ c \in Conns \cup {Nobody}
    BY <1>1, <1>4 DEF SomeSlot
  <2> QED BY ONLY <1>4, <2>1, <2>2 DEF p, PlayerRecord
<1> HIDE DEF p
<1>8. /\ conns' \in [Conns -> ConnRecord] /\ players' \in [Characters -> PlayerRecord]
      /\ conns'[c] = r /\ players'[ch] = p
      /\ \A h \in Characters : h # ch => players'[h] = players[h]
      /\ \A e \in Conns : e # c => conns'[e] = conns[e]
  BY <1>1, <1>5, <1>6, <1>7, Facts
<1>9. OneVoice'
  BY <1>1, <1>6, <1>7, <1>8, Facts, VoicePasses
<1>10. Silent'
  BY <1>7, <1>8, Facts DEF Silent
<1>11. Waiting'
  BY <1>3 DEF Waiting, Loop
<1>12. \A e \in Conns : Kept1(e) \/ LetGo1(e) \/ Admitted(e)
  BY <1>1, <1>6, <1>8 DEF Kept1, Admitted, ch
<1> QED BY <1>8, <1>9, <1>10, <1>11, <1>12 DEF Orderly

\* A step that touches neither connections nor players.
LEMMA QuietOrderly ==
    ASSUME VoiceInv, UNCHANGED <<conns, players>>, Waiting'
    PROVE  Orderly
<1>1. OneVoice' /\ Silent'
  BY Facts DEF OneVoice, Silent
<1> QED BY <1>1, Facts DEF Orderly, Kept1

LEMMA PlayingWaits ==
    ASSUME game' = Loop PROVE Waiting'
  BY DEF Waiting, Loop

LEMMA TakeOverOrderly ==
    ASSUME VoiceInv, NEW c \in Conns, TakeOver(c)
    PROVE  Orderly
<1> DEFINE ch == conns[c].character
           old == {o \in Conns : o = Player(ch).connection}
           may == FALSE
           p == [players[ch] EXCEPT !.connection = c, !.loggingOut = FALSE,
                                    !.logoutAllowed = FALSE]
           t == LoggedOut(old)
           r == [t[c] EXCEPT !.state = "GAME"]
<1>1. /\ conns[c].state = "LOGIN" /\ ch \in Characters /\ players[ch].there
      /\ conns[c].at = "idle"
  BY Facts DEF TakeOver, Player, InWorld
<1>2. /\ conns' = [t EXCEPT ![c] = r] /\ players' = [players EXCEPT ![ch] = p]
      /\ game' = Loop
  BY DEF TakeOver, Playing, rest
<1>3. /\ t \in [Conns -> ConnRecord]
      /\ \A d \in Conns : IF d \in old THEN t[d].state = "LOGOUT" /\ t[d].at = conns[d].at
                          ELSE t[d] = conns[d]
  BY Facts, LoggedOutFacts
\* A connection that is logging in is nobody's voice yet.
<1>4. ASSUME NEW d \in old PROVE d \in Conns /\ conns[d].state = "GAME" /\ conns[d].at = "idle"
                                 /\ d # c /\ players[ch].connection = d
  <2>1. d \in Conns /\ players[ch].connection = d
    BY DEF Player
  <2>2. conns[d].state = "GAME"
    BY <1>1, <2>1, Facts DEF OneVoice
  <2> QED BY <1>1, <2>1, <2>2, Facts
<1>5. p \in PlayerRecord /\ p.connection = c /\ p.there = players[ch].there
  <2>1. FALSE \in BOOLEAN /\ c \in Conns \cup {Nobody} /\ players[ch] \in PlayerRecord
    BY <1>1, Facts, PlayerFields
  <2> QED BY ONLY <2>1 DEF p, PlayerRecord
<1>6. t[c] = conns[c]
  BY <1>3, <1>4
<1>7. r \in ConnRecord /\ r.state = "GAME" /\ r.at = "idle" /\ r.character = ch
  <2>1. t[c] \in ConnRecord
    BY <1>3
  <2> HIDE DEF t, old
  <2> QED BY <1>1, <1>6, <2>1, GameRecord
<1>8. \A d \in Conns : players[ch].connection = d <=> d \in old
  BY DEF Player
<1> HIDE DEF p, r, t, old
<1>9. /\ conns' \in [Conns -> ConnRecord] /\ players' \in [Characters -> PlayerRecord]
      /\ conns'[c] = r /\ players'[ch] = p
      /\ \A h \in Characters : h # ch => players'[h] = players[h]
      /\ \A d \in Conns : d # c => conns'[d] = t[d]
  BY <1>1, <1>2, <1>3, <1>5, <1>7, Facts
<1>10. OneVoice'
  <2>1. \A d \in Conns : d # c => IF players[ch].connection = d THEN conns'[d].state # "GAME"
                                  ELSE conns'[d] = conns[d]
    BY <1>3, <1>8, <1>9
  <2> QED BY <1>1, <1>5, <1>7, <1>9, <2>1, Facts, VoicePasses
<1>11. Silent'
  <2>1. Silent /\ players[ch].there /\ p.there
    BY <1>1, <1>5, Facts
  <2>2. /\ players'[ch] = p
        /\ \A h \in Characters : h # ch => players'[h] = players[h]
    BY <1>9, Zenon
  <2> QED BY ONLY <2>1, <2>2 DEF Silent
<1>12. \A d \in Conns : Kept1(d) \/ LetGo1(d) \/ Admitted(d)
  <2> SUFFICES ASSUME NEW d \in Conns PROVE Kept1(d) \/ LetGo1(d) \/ Admitted(d)
    OBVIOUS
  <2>1. CASE d = c
    BY <1>1, <1>7, <1>9, <2>1 DEF Admitted
  <2>2. CASE d # c /\ d \in old
    BY <1>3, <1>4, <1>9, <2>2 DEF LetGo1
  <2>3. CASE d # c /\ d \notin old
    BY <1>3, <1>9, <2>3 DEF Kept1
  <2> QED BY <2>1, <2>2, <2>3
<1> QED BY <1>2, <1>9, <1>10, <1>11, <1>12, PlayingWaits DEF Orderly

LEMMA LogOutOrderly ==
    ASSUME VoiceInv, NEW c \in Conns, NEW asked \in BOOLEAN, LogOut(c, asked)
    PROVE  Orderly
<1> DEFINE ch == conns[c].character
           may == Player(ch).logoutAllowed \/ (asked /\ ~Player(ch).isDead)
           p == [players[ch] EXCEPT !.connection = Nobody, !.loggingOut = TRUE,
                                    !.logoutAllowed = may]
<1>1. /\ conns[c].state = "GAME" /\ ch \in Characters /\ conns[c].at = "idle"
      /\ players[ch].connection = c
  BY Facts DEF LogOut, OneVoice
<1>2. conns' = LoggedOut({c}) /\ players' = [players EXCEPT ![ch] = p] /\ game' = Loop
  BY DEF LogOut, Playing, rest
<1>3. may \in BOOLEAN
  BY <1>1, Facts, PlayerFields DEF Player
<1> HIDE DEF may
<1>4. p \in PlayerRecord /\ p.connection = Nobody /\ p.there = players[ch].there
  <2>1. TRUE \in BOOLEAN /\ Nobody \in Conns \cup {Nobody} /\ players[ch] \in PlayerRecord
    BY <1>1, Facts, PlayerFields
  <2> QED BY ONLY <1>3, <2>1 DEF p, PlayerRecord
<1> HIDE DEF p
<1>5. /\ conns' \in [Conns -> ConnRecord]
      /\ \A d \in Conns : IF d \in {c} THEN conns'[d].state = "LOGOUT" /\ conns'[d].at = conns[d].at
                          ELSE conns'[d] = conns[d]
  BY <1>2, Facts, LoggedOutFacts
<1>6. /\ players' \in [Characters -> PlayerRecord] /\ players'[ch] = p
      /\ \A h \in Characters : h # ch => players'[h] = players[h]
  BY <1>1, <1>2, <1>4, Facts
<1>7. OneVoice'
  <2>1. \A d \in Conns : IF players[ch].connection = d THEN conns'[d].state # "GAME"
                         ELSE conns'[d] = conns[d]
    BY <1>1, <1>5
  <2> QED BY <1>1, <1>4, <1>6, <2>1, Facts, VoiceFallsSilent
<1>8. Silent'
  BY <1>4, <1>6, Facts DEF Silent
<1>9. \A d \in Conns : Kept1(d) \/ LetGo1(d) \/ Admitted(d)
  BY <1>1, <1>5 DEF Kept1, LetGo1
<1> QED BY <1>2, <1>5, <1>6, <1>7, <1>8, <1>9, PlayingWaits DEF Orderly

LEMMA BuryOrderly ==
    ASSUME VoiceInv, Bury
    PROVE  Orderly
<1> DEFINE ch == game.who
           last == {c \in Conns : c = Player(ch).connection}
<1>1. /\ conns' = LoggedOut(last) /\ players' = [players EXCEPT ![ch] = Absent]
      /\ game' = Loop
  BY DEF Bury
<1>2. ch \in Characters
  BY Facts DEF Bury, Waiting
<1>3. \A d \in Conns : /\ players[ch].connection = d <=> d \in last
                       /\ d \in last => conns[d].state = "GAME" /\ conns[d].at = "idle"
  BY <1>2, Facts DEF Player, OneVoice
<1> HIDE DEF last
<1>4. /\ conns' \in [Conns -> ConnRecord]
      /\ \A d \in Conns : IF d \in last
                          THEN conns'[d].state = "LOGOUT" /\ conns'[d].at = conns[d].at
                          ELSE conns'[d] = conns[d]
  BY <1>1, Facts, LoggedOutFacts
<1>5. /\ players' \in [Characters -> PlayerRecord] /\ players'[ch] = Absent
      /\ \A h \in Characters : h # ch => players'[h] = players[h]
  BY <1>1, <1>2, Facts, AbsentRecord
<1>6. OneVoice'
  <2>1. \A d \in Conns : IF players[ch].connection = d THEN conns'[d].state # "GAME"
                         ELSE conns'[d] = conns[d]
    BY <1>3, <1>4
  <2> QED BY <1>2, <1>5, <2>1, Facts, AbsentRecord, VoiceFallsSilent
<1>7. Silent'
  BY <1>5, Facts, AbsentRecord DEF Silent
<1>8. \A d \in Conns : Kept1(d) \/ LetGo1(d) \/ Admitted(d)
  BY <1>3, <1>4 DEF Kept1, LetGo1
<1> QED BY <1>1, <1>4, <1>5, <1>6, <1>7, <1>8, PlayingWaits DEF Orderly

\* The login that is refused, or let go, or finds no slot, was nobody's voice.
LEMMA RefusedOrderly ==
    ASSUME VoiceInv, NEW c \in Conns,
           JoinRefused(c) \/ LetGo(c) \/ (AttachFails /\ c = game.who)
    PROVE  Orderly
<1> DEFINE ch == conns[c].character
<1>1. /\ conns[c].state \in {"LOGIN", "LOGOUT"} /\ conns[c].at = "idle"
      /\ conns' = Disconnected(c) /\ game' = Loop
  BY Facts DEF JoinRefused, LetGo, AttachFails, Waiting, Playing, rest
<1>2. /\ conns' \in [Conns -> ConnRecord]
      /\ conns'[c].state = "DISCONNECTED" /\ conns'[c].at = "idle"
      /\ \A d \in Conns : d # c => conns'[d] = conns[d]
  BY <1>1, Facts, DisconnectedFacts
<1>3. /\ players' \in [Characters -> PlayerRecord]
      /\ \A h \in Characters : /\ players'[h].connection = players[h].connection
                               /\ players'[h].there = players[h].there
  <2>1. CASE UNCHANGED players
    BY <2>1, Facts
  <2>2. CASE ~UNCHANGED players
    <3> DEFINE p == [players[ch] EXCEPT !.logoutAllowed = TRUE]
    <3>1. players' = [players EXCEPT ![ch] = p] /\ ch \in Characters
      BY <2>2, Facts DEF JoinRefused, LetGo, AttachFails, InWorld
    <3>2. players[ch] \in PlayerRecord
      BY <3>1, Facts
    <3>3. /\ p \in PlayerRecord /\ p.connection = players[ch].connection
          /\ p.there = players[ch].there
      BY ONLY <3>2 DEF p, PlayerRecord
    <3> HIDE DEF p
    <3> QED BY <3>1, <3>3, Facts
  <2> QED BY <2>1, <2>2
<1>4. OneVoice'
  BY <1>1, <1>2, <1>3, Facts, VoiceStays
<1>5. Silent'
  BY <1>3, Facts DEF Silent
<1> QED BY <1>1, <1>2, <1>3, <1>4, <1>5, PlayingWaits DEF Orderly, Kept1, LetGo1

LEMMA DieOrderly ==
    ASSUME VoiceInv, NEW ch \in Characters, Die(ch)
    PROVE  Orderly
<1> DEFINE p == [players[ch] EXCEPT !.isDead = TRUE, !.loggingOut = TRUE]
<1>1. players' = [players EXCEPT ![ch] = p] /\ conns' = conns /\ game' = Loop
  <2>1. players' = [players EXCEPT ![ch].isDead = TRUE, ![ch].loggingOut = TRUE]
    BY DEF Die
  <2>2. players \in [Characters -> PlayerRecord]
    BY Facts
  <2> QED BY <2>1, <2>2 DEF Die, Playing, rest
<1>2. players[ch] \in PlayerRecord
  BY Facts
<1>3. p \in PlayerRecord /\ p.connection = players[ch].connection /\ p.there = players[ch].there
  BY ONLY <1>2 DEF p, PlayerRecord
<1> HIDE DEF p
<1>4. /\ players' \in [Characters -> PlayerRecord]
      /\ \A h \in Characters : /\ players'[h].connection = players[h].connection
                               /\ players'[h].there = players[h].there
  BY <1>1, <1>3, Facts
<1>5. OneVoice' /\ Silent'
  BY <1>1, <1>4, Facts, VoiceStays DEF Silent
<1> QED BY <1>1, <1>4, <1>5, Facts, PlayingWaits DEF Orderly, Kept1

LEMMA GameOrderly ==
    ASSUME VoiceInv, GameThread
    PROVE  Orderly
<1>1. CASE \E c \in Conns : JoinNew(c)
  <2>1. PICK c \in Conns : JoinNew(c)
    BY <1>1
  <2>2. Waiting'
    BY <2>1 DEF JoinNew, Waiting, InWorld
  <2> QED BY <2>1, <2>2, QuietOrderly DEF JoinNew
<1>2. CASE \E ch \in Characters : Delete(ch)
  <2>1. PICK ch \in Characters : Delete(ch)
    BY <1>2
  <2>2. Waiting' /\ UNCHANGED <<conns, players>>
    BY <2>1 DEF Delete, Waiting
  <2> QED BY <2>2, QuietOrderly
<1>3. CASE ReleaseSlot
  <2>1. game.at = "release" /\ game' = [game EXCEPT !.at = "bury"] /\ UNCHANGED <<conns, players>>
    BY <1>3 DEF ReleaseSlot
  <2>2. Waiting'
    <3>1. game.who \in Characters /\ game = [at |-> game.at, who |-> game.who, slot |-> game.slot]
      BY <2>1, Facts DEF Waiting
    <3>2. game' = [at |-> "bury", who |-> game.who, slot |-> game.slot]
      BY ONLY <2>1, <3>1
    <3> QED BY <3>1, <3>2 DEF Waiting
  <2> QED BY <2>1, <2>2, QuietOrderly
<1>4. CASE SendMails \/ TakeReply \/ \E ch \in Characters : OrderMail(ch)
  <2>1. UNCHANGED <<conns, players>> /\ game'.at \notin {"attach", "release", "bury"}
    BY <1>4 DEF SendMails, TakeReply, OrderMail, Playing, Loop
  <2> QED BY <2>1, QuietOrderly DEF Waiting
<1>5. CASE AttachFails
  BY <1>5, Facts, RefusedOrderly DEF AttachFails, Waiting
<1> QED BY <1>1, <1>2, <1>3, <1>4, <1>5, AttachOrderly, BuryOrderly, RefusedOrderly,
           TakeOverOrderly, LogOutOrderly, DieOrderly DEF GameThread, GameStep

-----------------------------------------------------------------------------
(* The invariant is kept.                                                    *)

LEMMA StepPlaced ==
    ASSUME VoiceInv, Next
    PROVE  /\ conns' \in [Conns -> ConnRecord] /\ players' \in [Characters -> PlayerRecord]
           /\ Placed' /\ Waiting' /\ Silent' /\ OneVoice'
<1>1. Shaped /\ Placed
  BY DEF VoiceInv
<1>2. ASSUME NEW d \in Conns, Kept1(d) PROVE RecordPlaced(conns[d])'
  BY <1>1, <1>2 DEF Placed, RecordPlaced, Kept1
<1>3. CASE \E c \in Conns : CommunicationThread(c)
  <2>1. PICK c \in Conns : CommunicationThread(c)
    BY <1>3
  <2>2. Handled(c)
    BY <1>1, <2>1, ConnHandled
  <2>3. PICK r \in ConnRecord : conns' = [conns EXCEPT ![c] = r] /\ r.state # "GAME"
    BY <2>2 DEF Handled
  <2>4. /\ conns' \in [Conns -> ConnRecord] /\ conns'[c] = r
        /\ \A d \in Conns : d # c => conns'[d] = conns[d]
    BY <2>3, Facts
  <2>5. UNCHANGED <<players, game>>
    BY <2>1 DEF CommunicationThread, Register, AssignSlot, FindNoSlot, LoadSlot,
                LoadFails, ForgetSlot, BlockLogin,
                KeepSlot, UnlockSlot, CallGameThread, FreeConnection, others
  <2>6. Placed'
    BY <1>2, <2>2, <2>4 DEF Placed, Handled, Kept1
  <2>7. OneVoice'
    <3>1. \A d \in Conns : \/ conns'[d] = conns[d]
                           \/ conns[d].state # "GAME" /\ conns'[d].state # "GAME"
      BY <2>2, <2>3, <2>4 DEF Handled
    <3> QED BY <2>5, <3>1, Facts, VoiceStays
  <2>8. Waiting'
    <3>1. game.at = "attach" => game.who # c
      BY <2>2, Facts DEF Waiting, Handled
    <3> QED BY <2>4, <2>5, <3>1, Facts DEF Waiting, InWorld
  <2>9. Silent'
    BY <2>5, Facts DEF Silent
  <2> QED BY <2>4, <2>5, <2>6, <2>7, <2>8, <2>9, Facts
<1>4. CASE GameThread
  <2>1. Orderly
    BY <1>4, GameOrderly
  <2>2. ASSUME NEW d \in Conns PROVE RecordPlaced(conns[d])'
    <3>1. Kept1(d) \/ LetGo1(d) \/ Admitted(d)
      BY <2>1 DEF Orderly
    <3>2. CASE LetGo1(d)
      BY <3>2 DEF RecordPlaced, LetGo1
    <3>3. CASE Admitted(d)
      BY <3>3, Facts DEF RecordPlaced, Admitted
    <3> QED BY <1>2, <3>1, <3>2, <3>3
  <2> QED BY <2>1, <2>2 DEF Orderly, Placed
<1>5. CASE ReaderThread \/ WriterThread
  <2>1. UNCHANGED <<conns, players, game>>
    BY <1>5 DEF ReaderThread, WriterThread, ReaderTakesOrder, ReaderAssigns,
                ReaderFindsNoSlot, ReaderLoads, ReaderLoadFails, ReaderForgets, ReaderGivesUp,
                ReaderKeeps, ReaderTriesAgain, ReaderReplies, WriterPicks, WriterAttaches,
                WriterSaves, unread, unwritten
  <2>2. Placed'
    BY <1>2, <2>1 DEF Placed, Kept1
  <2>3. Waiting' /\ Silent' /\ OneVoice'
    BY <2>1, Facts DEF Waiting, Silent, OneVoice, InWorld
  <2> QED BY <2>1, <2>2, <2>3, Facts
<1> QED BY <1>3, <1>4, <1>5 DEF Next

\* The orders, the replies and the files.
LEMMA SavedShape ==
    ASSUME slots \in [Slots -> SlotRecord], file \in [Characters -> Stored], NEW i \in Slots
    PROVE  Saved(i) \in [Characters -> Stored]
<1> DEFINE d == slots[i].data
<1>1. d \in Stored
  BY SlotFields
<1> HIDE DEF d
<1>2. Saved(i) = [file EXCEPT ![slots[i].character] = d] \/ Saved(i) = file
  BY DEF Saved, d
<1> QED BY <1>1, <1>2

LEMMA AssignFile ==
    ASSUME slots \in [Slots -> SlotRecord], file \in [Characters -> Stored], NEW i \in Slots,
           NEW ch, NEW t, NEW fresh, Assign(ch, t, i, fresh)
    PROVE  file' \in [Characters -> Stored]
<1>1. file' = file \/ file' = Saved(i)
  BY DEF Assign
<1> QED BY <1>1, SavedShape

LEMMA ReaderShaped ==
    ASSUME VoiceInv, ReaderThread
    PROVE  /\ reader' \in ReaderRecord /\ orders' \in Seq(Characters)
           /\ replies' \in Seq(Characters) /\ file' \in [Characters -> Stored]
           /\ reader'.at # "idle" => reader'.who \in Characters
           /\ writer' = writer
<1>1. /\ slots \in [Slots -> SlotRecord] /\ file \in [Characters -> Stored]
      /\ orders \in Seq(Characters) /\ replies \in Seq(Characters) /\ reader \in ReaderRecord
      /\ reader.at # "idle" => reader.who \in Characters
  BY DEF VoiceInv, Shaped
<1>2. Idle \in ReaderRecord /\ Idle.at = "idle"
  BY DEF Idle, ReaderRecord, SomeCharacter, SomeSlot
<1>3. CASE ReaderTakesOrder
  <2> DEFINE ch == Head(orders)
             r == [Idle EXCEPT !.at = "assign", !.who = ch]
  <2>1. orders # <<>> /\ orders' = Tail(orders) /\ reader' = r
        /\ UNCHANGED <<replies, file, writer>>
    BY <1>3 DEF ReaderTakesOrder
  <2>2. ch \in Characters /\ Tail(orders) \in Seq(Characters)
    BY <1>1, <2>1, HeadTailProperties
  <2> HIDE DEF ch
  <2>3. r \in ReaderRecord /\ r.at = "assign" /\ r.who = ch
    BY ONLY <2>2 DEF Idle, ReaderRecord, SomeCharacter, SomeSlot, r
  <2> HIDE DEF r
  <2> QED BY <1>1, <2>1, <2>2, <2>3
<1>4. CASE ReaderAssigns
  <2>1. PICK i \in Slots, fresh \in BOOLEAN :
           /\ Assign(reader.who, Reader, i, fresh)
           /\ reader' = [reader EXCEPT !.slot = i, !.at = IF fresh THEN "load" ELSE "look"]
    BY <1>4 DEF ReaderAssigns
  <2>2. UNCHANGED <<replies, orders, writer>> /\ reader.who \in Characters
    BY <1>1, <1>4 DEF ReaderAssigns, unread
  <2>4. file' \in [Characters -> Stored]
    BY <1>1, <2>1, AssignFile
  <2>5. /\ reader' \in ReaderRecord /\ reader'.slot = i /\ reader'.who = reader.who
    BY ONLY <1>1, <2>1 DEF ReaderRecord, SomeSlot
  <2> QED BY <1>1, <2>2, <2>4, <2>5
<1>5. CASE ReaderFindsNoSlot \/ ReaderForgets \/ ReaderGivesUp
  BY <1>1, <1>2, <1>5 DEF ReaderFindsNoSlot, ReaderForgets, ReaderGivesUp, unread
<1>6. CASE ReaderLoads \/ ReaderLoadFails \/ ReaderKeeps \/ ReaderTriesAgain
  <2>1. PICK v \in {"forget", "look", "unlock", "assign"} : reader' = [reader EXCEPT !.at = v]
    BY <1>6 DEF ReaderLoads, ReaderLoadFails, ReaderKeeps, ReaderTriesAgain
  <2>2. UNCHANGED <<replies, orders, writer, file>> /\ reader.at # "idle"
    BY <1>6 DEF ReaderLoads, ReaderLoadFails, ReaderKeeps, ReaderTriesAgain, unread
  <2>3. reader' \in ReaderRecord /\ reader'.at = v /\ reader'.who = reader.who
    BY ONLY <1>1, <2>1 DEF ReaderRecord
  <2> QED BY <1>1, <2>2, <2>3
<1>7. CASE ReaderReplies
  <2>1. /\ reader.at = "unlock" /\ replies' = Append(replies, reader.who) /\ reader' = Idle
        /\ UNCHANGED <<orders, writer, file>>
    BY <1>7 DEF ReaderReplies, unread
  <2> QED BY <1>1, <1>2, <2>1, AppendProperties
<1> QED BY <1>3, <1>4, <1>5, <1>6, <1>7 DEF ReaderThread

LEMMA WriterShaped ==
    ASSUME VoiceInv, WriterThread
    PROVE  /\ writer' \in WriterRecord /\ file' \in [Characters -> Stored]
           /\ writer'.at # "idle" => writer'.slot \in Slots
           /\ UNCHANGED <<reader, orders, replies>>
<1>1. /\ slots \in [Slots -> SlotRecord] /\ file \in [Characters -> Stored]
      /\ writer \in WriterRecord
      /\ writer.at # "idle" => writer.slot \in Slots
  BY DEF VoiceInv, Shaped
<1>2. Idle \in WriterRecord /\ Idle.at = "idle"
  BY DEF Idle, WriterRecord, SomeSlot
<1>3. CASE \E i \in Slots : WriterPicks(i)
  <2>1. PICK i \in Slots : WriterPicks(i)
    BY <1>3
  <2>2. writer' = [Idle EXCEPT !.at = "attach", !.slot = i]
        /\ UNCHANGED <<reader, orders, replies, file>>
    BY <2>1 DEF WriterPicks, unwritten
  <2>3. writer' \in WriterRecord /\ writer'.slot = i
    BY ONLY <2>2, i \in Slots DEF Idle, WriterRecord, SomeSlot
  <2> QED BY <1>1, <2>2, <2>3
<1>4. CASE WriterAttaches
  <2>1. writer' = Idle \/ (writer' = [writer EXCEPT !.at = "save"] /\ writer.at = "attach")
    BY <1>4 DEF WriterAttaches
  <2>2. UNCHANGED <<reader, orders, replies, file>>
    BY <1>4 DEF WriterAttaches, unwritten
  <2> DEFINE r == [writer EXCEPT !.at = "save"]
  <2>3. writer \in WriterRecord
    BY <1>1
  <2>4. r \in WriterRecord /\ r.slot = writer.slot
    BY ONLY <2>3 DEF WriterRecord, r
  <2>5. writer' = Idle \/ (writer' = r /\ writer.slot \in Slots)
    BY <1>1, <2>1
  <2> HIDE DEF r
  <2> QED BY <1>1, <1>2, <2>2, <2>4, <2>5
<1>5. CASE WriterSaves
  <2>1. /\ writer.at = "save" /\ (UNCHANGED file \/ file' = Saved(writer.slot)) /\ writer' = Idle
        /\ UNCHANGED <<reader, orders, replies>>
    BY <1>5 DEF WriterSaves, unwritten
  <2>2. writer.slot \in Slots
    BY <1>1, <2>1
  <2>3. file' \in [Characters -> Stored]
    BY <1>1, <2>1, <2>2, SavedShape
  <2> QED BY <1>1, <1>2, <2>1, <2>3
<1> QED BY <1>3, <1>4, <1>5 DEF WriterThread

LEMMA StepShaped ==
    ASSUME VoiceInv, Next
    PROVE  Shaped'
<1>1. /\ slots \in [Slots -> SlotRecord] /\ file \in [Characters -> Stored]
      /\ orders \in Seq(Characters) /\ replies \in Seq(Characters)
      /\ reader \in ReaderRecord /\ writer \in WriterRecord
      /\ reader.at # "idle" => reader.who \in Characters
      /\ writer.at # "idle" => writer.slot \in Slots
  BY DEF VoiceInv, Shaped
<1>2. slots' \in [Slots -> SlotRecord]
  BY StepTouches
<1>3. conns' \in [Conns -> ConnRecord] /\ players' \in [Characters -> PlayerRecord]
  BY StepPlaced
<1>4. CASE \E c \in Conns : CommunicationThread(c)
  <2>1. PICK c \in Conns : CommunicationThread(c)
    BY <1>4
  <2>2. UNCHANGED <<reader, writer, orders, replies>>
    BY <2>1 DEF CommunicationThread, Register, AssignSlot, FindNoSlot, LoadSlot,
                LoadFails, ForgetSlot, BlockLogin,
                KeepSlot, UnlockSlot, CallGameThread, FreeConnection, others
  <2>3. file' \in [Characters -> Stored]
    <3>1. UNCHANGED file \/ \E i \in Slots, f \in BOOLEAN : Assign(conns[c].who, c, i, f)
      BY <2>1 DEF CommunicationThread, Register, AssignSlot, FindNoSlot, LoadSlot,
                LoadFails, ForgetSlot, BlockLogin,
                  KeepSlot, UnlockSlot, CallGameThread, FreeConnection
    <3> QED BY <1>1, <3>1, AssignFile
  <2> QED BY <1>1, <1>2, <1>3, <2>2, <2>3 DEF Shaped
<1>5. CASE GameThread
  <2>1. UNCHANGED <<file, reader, writer>>
    BY <1>5 DEF GameThread, GameStep, Attach, AttachFails, ReleaseSlot, Bury, SendMails, TakeReply,
                JoinNew, JoinRefused, TakeOver, LogOut, LetGo, Die, Delete, OrderMail, rest
  <2>2. orders' = orders \/ \E ch \in Characters : orders' = Append(orders, ch)
    BY <1>5 DEF GameThread, GameStep, Attach, AttachFails, ReleaseSlot, Bury, SendMails, TakeReply,
                JoinNew, JoinRefused, TakeOver, LogOut, LetGo, Die, Delete, OrderMail, rest
  <2>3. replies' = replies \/ (replies # <<>> /\ replies' = Tail(replies))
    BY <1>5 DEF GameThread, GameStep, Attach, AttachFails, ReleaseSlot, Bury, SendMails, TakeReply,
                JoinNew, JoinRefused, TakeOver, LogOut, LetGo, Die, Delete, OrderMail, rest
  <2>4. orders' \in Seq(Characters) /\ replies' \in Seq(Characters)
    <3>1. ASSUME NEW ch \in Characters PROVE Append(orders, ch) \in Seq(Characters)
      BY <1>1, AppendProperties
    <3>2. ASSUME replies # <<>> PROVE Tail(replies) \in Seq(Characters)
      BY <1>1, <3>2, HeadTailProperties
    <3> QED BY <1>1, <2>2, <2>3, <3>1, <3>2
  <2> QED BY <1>1, <1>2, <1>3, <2>1, <2>4 DEF Shaped
<1>6. CASE ReaderThread
  BY <1>1, <1>2, <1>3, <1>6, ReaderShaped DEF Shaped
<1>7. CASE WriterThread
  BY <1>1, <1>2, <1>3, <1>7, WriterShaped DEF Shaped
<1> QED BY <1>4, <1>5, <1>6, <1>7 DEF Next

LEMMA InitVoice == Init => VoiceInv
<1> SUFFICES ASSUME Init PROVE VoiceInv
  OBVIOUS
<1>1. /\ slots = [i \in Slots |-> Empty] /\ file = [ch \in Characters |-> Fresh(ch)]
      /\ conns = [c \in Conns |-> Free] /\ players = [ch \in Characters |-> Absent]
      /\ game = Loop /\ reader = Idle /\ orders = <<>> /\ replies = <<>> /\ writer = Idle
  BY DEF Init
<1>2. Empty \in SlotRecord /\ \A ch \in Characters : Fresh(ch) \in Stored
  <2> DEFINE d == Fresh(Nobody)
  <2>1. 0 \in Int
    BY SMT
  <2>2. d \in Stored /\ \A ch \in Characters : Fresh(ch) \in Stored
    BY FreshRecord DEF SomeCharacter
  <2>3. Empty = [character |-> Nobody, locked |-> Nobody, sticky |-> 0, dirty |-> FALSE,
                 data |-> d]
    BY DEF Empty
  <2> HIDE DEF d
  <2> QED BY <2>1, <2>2, <2>3 DEF SlotRecord, SomeCharacter, Threads
<1>3. Idle \in ReaderRecord /\ Idle \in WriterRecord /\ Idle.at = "idle"
  BY DEF Idle, ReaderRecord, WriterRecord, SomeCharacter, SomeSlot
<1>4. /\ slots \in [Slots -> SlotRecord] /\ file \in [Characters -> Stored]
      /\ conns \in [Conns -> ConnRecord] /\ players \in [Characters -> PlayerRecord]
  <2> HIDE DEF SlotRecord, ConnRecord, PlayerRecord, Stored
  <2> QED BY <1>1, <1>2, FreeRecord, AbsentRecord
<1>5. Shaped
  BY <1>1, <1>3, <1>4, EmptySeq DEF Shaped
<1>6. Placed
  BY <1>1 DEF Placed, RecordPlaced, Free
<1>7. Waiting
  BY <1>1 DEF Waiting, Loop
<1>8. Silent
  BY <1>1, AbsentRecord DEF Silent
<1>9. OneVoice
  BY <1>1, ThreadsAssumption, FreeRecord, AbsentRecord DEF OneVoice
<1> QED BY <1>5, <1>6, <1>7, <1>8, <1>9 DEF VoiceInv

LEMMA StepVoice == VoiceInv /\ [Next]_vars => VoiceInv'
<1> SUFFICES ASSUME VoiceInv, [Next]_vars PROVE VoiceInv'
  OBVIOUS
<1>1. CASE Next
  BY <1>1, StepPlaced, StepShaped DEF VoiceInv
<1>2. CASE UNCHANGED vars
  <2>1. Shaped'
    BY <1>2 DEF vars, VoiceInv, Shaped
  <2>2. Placed'
    BY <1>2 DEF vars, VoiceInv, Placed, RecordPlaced
  <2>3. Waiting' /\ Silent' /\ OneVoice'
    BY <1>2 DEF vars, VoiceInv, Waiting, Silent, OneVoice, InWorld
  <2> QED BY <2>1, <2>2, <2>3 DEF VoiceInv
<1> QED BY <1>1, <1>2

\* A connection speaks for a player exactly when the player answers to it,
\* however many logins, takeovers, deaths and closed connections interleave.
THEOREM VoicesMatch == Spec => []OneVoice
<1>1. VoiceInv => OneVoice
  BY DEF VoiceInv
<1> QED BY <1>1, InitVoice, StepVoice, PTL DEF Spec

-----------------------------------------------------------------------------
(* The invariant of the pool, kept until a load fails under somebody.        *)

\* A character has one slot at most.
Unique ==
    \A i, j \in Slots :
        slots[i].character = slots[j].character /\ slots[i].character # Nobody => i = j

\* What is locked by a communication thread or the reader, it knows of; an
\* empty slot may have any lock, and nobody counts on it.
LockKnown(i) ==
    /\ slots[i].character # Nobody =>
          /\ \A c \in Conns : slots[i].locked = c =>
                conns[c].slot = i /\ conns[c].at \in {"load", "check", "unlock"}
          /\ slots[i].locked = Reader =>
                reader.slot = i /\ reader.at \in {"load", "look", "unlock"}
    /\ slots[i].character = Nobody => slots[i].sticky = 0
LocksKnown == \A i \in Slots : LockKnown(i)

\* A login has the slot of its character, locked where it works on it.
ConnHold(c) ==
    /\ conns[c].at \in {"load", "unlock"} => Own(c)
    /\ conns[c].at \in {"load", "check", "unlock", "call"} =>
          slots[conns[c].slot].character = conns[c].who
    /\ conns[c].state = "LOGIN" =>
          /\ conns[c].character = conns[c].who /\ conns[c].character \in Characters
          /\ Loaded(conns[c].who)
ConnHolds == \A c \in Conns : ConnHold(c)

\* The reader holds what it works on, and the characters of its replies have
\* their slots.
FilersHold ==
    /\ reader.at \in {"load", "unlock"} => slots[reader.slot].locked = Reader
    /\ reader.at \in {"load", "forget", "look", "unlock"} => reader.slot \in Slots
    /\ reader.at \in {"load", "look", "unlock"} /\ slots[reader.slot].locked = Reader
          => slots[reader.slot].character = reader.who
    /\ \A n \in 1..Len(replies) : Loaded(replies[n])

\* So does the game thread, for itself and for every player; where it buries a
\* player, nobody else plays in that player's slot.
GameHold ==
    /\ game.at \in {"loop", "attach", "release", "bury", "mail"}
    /\ game.at \in {"release", "bury"} =>
          /\ game.who \in Characters /\ players[game.who].there /\ game.slot \in Slots
          /\ \A ch \in Characters \ {game.who} : players[ch].there
                                                 => players[ch].slot # game.slot
    /\ game.at \in {"release", "mail"} =>
          /\ game.slot \in Slots /\ slots[game.slot].locked = Game
          /\ game.who \in Characters /\ slots[game.slot].character = game.who
    /\ game.at = "mail" => ~players[game.who].there

PlayerHold(ch) ==
    players[ch].there /\ ~Leaving(ch) =>
        /\ players[ch].slot \in Slots
        /\ slots[players[ch].slot].character = ch
        /\ slots[players[ch].slot].locked = Game

GameHolds == GameHold /\ \A ch \in Characters : PlayerHold(ch)

\* Nobody who counts on a slot is left out of its count.
Counted == \A i \in Slots : slots[i].character # Nobody => slots[i].sticky >= Holders(i)

SlotInv == Unique /\ LocksKnown /\ ConnHolds /\ FilersHold /\ GameHolds /\ Counted

-----------------------------------------------------------------------------
(* What a step of one thread may do to the pool.                             *)

LEMMA Distinct ==
    /\ Game # Reader /\ Game # Writer /\ Reader # Writer
    /\ Game \notin Conns /\ Reader \notin Conns /\ Writer \notin Conns
    /\ Game # Nobody /\ Reader # Nobody /\ Writer # Nobody
    /\ Nobody \notin Conns /\ Nobody \notin Characters /\ Nobody \notin Slots
<1>1. ASSUME NEW a, NEW b, {Game, Reader, Writer} = {a, b} PROVE FALSE
  <2>1. IsFiniteSet({a}) /\ Cardinality({a}) = 1
    BY FS_Singleton
  <2>2. Cardinality({a} \cup {b}) \in {1, 2}
    BY <2>1, FS_AddElement
  <2>3. {Game, Reader, Writer} = {a} \cup {b}
    BY <1>1
  <2>4. Cardinality({a} \cup {b}) = 3
    BY <2>3, ThreadsAssumption
  <2> QED BY <2>2, <2>4
<1>2. Game # Reader
  <2> SUFFICES ASSUME Game = Reader PROVE FALSE
    OBVIOUS
  <2>1. {Game, Reader, Writer} = {Game, Writer}
    OBVIOUS
  <2> QED BY <1>1, <2>1
<1>3. Game # Writer
  <2> SUFFICES ASSUME Game = Writer PROVE FALSE
    OBVIOUS
  <2>1. {Game, Reader, Writer} = {Game, Reader}
    OBVIOUS
  <2> QED BY <1>1, <2>1
<1>4. Reader # Writer
  <2> SUFFICES ASSUME Reader = Writer PROVE FALSE
    OBVIOUS
  <2>1. {Game, Reader, Writer} = {Game, Reader}
    OBVIOUS
  <2> QED BY <1>1, <2>1
<1> QED BY <1>2, <1>3, <1>4, ThreadsAssumption

\* Slot i has character ch, lock t and count n after the step, and the others
\* are as they were.
Becomes(i, ch, t, n) ==
    /\ i \in Slots
    /\ slots'[i].character = ch /\ slots'[i].locked = t /\ slots'[i].sticky = n
    /\ \A j \in Slots : j # i => slots'[j] = slots[j]

LEMMA SlotBecomes ==
    ASSUME slots \in [Slots -> SlotRecord], NEW i \in Slots, NEW r,
           slots' = [slots EXCEPT ![i] = r]
    PROVE  Becomes(i, r.character, r.locked, r.sticky)
<1> HIDE DEF SlotRecord
<1>1. slots'[i] = r /\ \A j \in Slots : j # i => slots'[j] = slots[j]
  OBVIOUS
<1> QED BY <1>1 DEF Becomes

LEMMA LockBecomes ==
    ASSUME slots \in [Slots -> SlotRecord], NEW i \in Slots, NEW t,
           slots' = [slots EXCEPT ![i].locked = t]
    PROVE  Becomes(i, slots[i].character, t, slots[i].sticky)
<1> DEFINE s == slots[i]
           r == [s EXCEPT !.locked = t]
<1>1. s \in SlotRecord /\ slots' = [slots EXCEPT ![i] = r]
  OBVIOUS
<1>2. r.character = s.character /\ r.locked = t /\ r.sticky = s.sticky
  <2> HIDE DEF s
  <2> QED BY <1>1 DEF SlotRecord
<1> HIDE DEF r
<1>3. Becomes(i, r.character, r.locked, r.sticky)
  BY <1>1, SlotBecomes
<1> QED BY <1>2, <1>3

LEMMA CountBecomes ==
    ASSUME slots \in [Slots -> SlotRecord], NEW i \in Slots, NEW n,
           slots' = [slots EXCEPT ![i].sticky = n]
    PROVE  Becomes(i, slots[i].character, slots[i].locked, n)
<1> DEFINE s == slots[i]
           r == [s EXCEPT !.sticky = n]
<1>1. s \in SlotRecord /\ slots' = [slots EXCEPT ![i] = r]
  OBVIOUS
<1>2. r.character = s.character /\ r.locked = s.locked /\ r.sticky = n
  <2> HIDE DEF s
  <2> QED BY <1>1 DEF SlotRecord
<1> HIDE DEF r
<1>3. Becomes(i, r.character, r.locked, r.sticky)
  BY <1>1, SlotBecomes
<1> QED BY <1>2, <1>3

LEMMA StickBecomes ==
    ASSUME slots \in [Slots -> SlotRecord], NEW i \in Slots
    PROVE  /\ Stick(i) => Becomes(i, slots[i].character, slots[i].locked, slots[i].sticky + 1)
           /\ Unstick(i) => Becomes(i, slots[i].character, slots[i].locked, slots[i].sticky - 1)
           /\ \A t : Release(i, t) /\ slots[i].locked = t
                    => Becomes(i, slots[i].character, Nobody, slots[i].sticky)
<1>1. ASSUME Stick(i)
      PROVE  Becomes(i, slots[i].character, slots[i].locked, slots[i].sticky + 1)
  <2> DEFINE n == slots[i].sticky + 1
  <2>1. slots' = [slots EXCEPT ![i].sticky = n]
    BY <1>1 DEF Stick
  <2> HIDE DEF n
  <2> QED BY <2>1, CountBecomes DEF n
<1>2. ASSUME Unstick(i)
      PROVE  Becomes(i, slots[i].character, slots[i].locked, slots[i].sticky - 1)
  <2> DEFINE n == slots[i].sticky - 1
  <2>1. slots' = [slots EXCEPT ![i].sticky = n]
    BY <1>2 DEF Unstick
  <2> HIDE DEF n
  <2> QED BY <2>1, CountBecomes DEF n
<1>3. ASSUME NEW t, Release(i, t), slots[i].locked = t
      PROVE  Becomes(i, slots[i].character, Nobody, slots[i].sticky)
  <2>1. slots' = [slots EXCEPT ![i].locked = Nobody]
    BY <1>3 DEF Release
  <2> QED BY <2>1, LockBecomes
<1> QED BY <1>1, <1>2, <1>3

LEMMA LoadBecomes ==
    ASSUME slots \in [Slots -> SlotRecord], NEW i \in Slots, NEW ch, Load(i, ch)
    PROVE  Becomes(i, slots[i].character, slots[i].locked, slots[i].sticky)
<1> DEFINE s == slots[i]
           d == file[ch]
           r == [s EXCEPT !.data = d]
<1>1. s \in SlotRecord /\ slots' = [slots EXCEPT ![i] = r]
  BY DEF Load
<1>2. r.character = s.character /\ r.locked = s.locked /\ r.sticky = s.sticky
  <2> HIDE DEF s, d
  <2> QED BY <1>1 DEF SlotRecord
<1> HIDE DEF r
<1>3. Becomes(i, r.character, r.locked, r.sticky)
  BY <1>1, SlotBecomes
<1> QED BY <1>2, <1>3

\* A load that fails under nobody else loses the slot, and what is then
\* unlocked is an empty slot, if any.
LEMMA FailureBecomes ==
    ASSUME slots \in [Slots -> SlotRecord], NEW i \in Slots, ~misled'
    PROVE  /\ FailToLoad(i) => slots[i].sticky = 0 /\ Becomes(i, Nobody, slots[i].locked, 0)
           /\ Forget(i) => /\ Becomes(i, slots[i].character, Nobody, slots[i].sticky)
                           /\ slots[i].character = Nobody \/ slots[i].locked = Nobody
<1>1. ASSUME FailToLoad(i)
      PROVE  slots[i].sticky = 0 /\ Becomes(i, Nobody, slots[i].locked, 0)
  <2> DEFINE s == slots[i]
             d == Fresh(Nobody)
             r == [s EXCEPT !.character = Nobody, !.data = d]
  <2>1. s \in SlotRecord /\ slots' = [slots EXCEPT ![i] = r] /\ s.sticky = 0
    BY <1>1 DEF FailToLoad
  <2>2. r.character = Nobody /\ r.locked = s.locked /\ r.sticky = 0
    <3> HIDE DEF s, d
    <3> QED BY <2>1 DEF SlotRecord
  <2> HIDE DEF r
  <2>3. Becomes(i, r.character, r.locked, r.sticky)
    BY <2>1, SlotBecomes
  <2> QED BY <2>1, <2>2, <2>3
<1>2. ASSUME Forget(i)
      PROVE  /\ Becomes(i, slots[i].character, Nobody, slots[i].sticky)
             /\ slots[i].character = Nobody \/ slots[i].locked = Nobody
  BY <1>2, LockBecomes DEF Forget
<1> QED BY <1>1, <1>2

\* Assign gives the character its slot, locked or counted, or a slot that
\* nobody needs.
LEMMA AssignBecomes ==
    ASSUME slots \in [Slots -> SlotRecord], NEW i \in Slots, NEW t \in Threads,
           NEW ch \in Characters, NEW fresh \in BOOLEAN, Assign(ch, t, i, fresh)
    PROVE  \/ /\ ~fresh /\ slots[i].character = ch /\ slots[i].locked = Nobody
              /\ Becomes(i, ch, t, slots[i].sticky)
           \/ /\ ~fresh /\ slots[i].character = ch /\ slots[i].locked # Nobody
              /\ Becomes(i, ch, slots[i].locked, slots[i].sticky + 1)
           \/ /\ fresh /\ ~Loaded(ch) /\ Becomes(i, ch, t, 0)
              /\ \/ slots[i].character = Nobody
                 \/ slots[i].locked = Nobody /\ slots[i].sticky = 0
<1>1. CASE Loaded(ch)
  <2>1. i \in SlotsOf(ch) /\ fresh = FALSE
    BY <1>1 DEF Assign, Loaded, SlotOf
  <2>2. slots[i].character = ch
    BY <2>1 DEF SlotsOf
  <2>3. CASE slots[i].locked = Nobody
    <3>1. slots' = [slots EXCEPT ![i].locked = t]
      BY <1>1, <2>3 DEF Assign
    <3> QED BY <2>1, <2>2, <2>3, <3>1, LockBecomes
  <2>4. CASE slots[i].locked # Nobody
    <3>1. Stick(i)
      BY <1>1, <2>4 DEF Assign, Stick
    <3> QED BY <2>1, <2>2, <2>4, <3>1, StickBecomes
  <2> QED BY <2>3, <2>4
<1>2. CASE ~Loaded(ch)
  <2> DEFINE r == [Empty EXCEPT !.character = ch, !.locked = t]
  <2>1. /\ i \in Takeable /\ fresh = TRUE /\ slots' = [slots EXCEPT ![i] = r]
    BY <1>2 DEF Assign
  <2>2. r.character = ch /\ r.locked = t /\ r.sticky = 0
    BY DEF Empty
  <2> HIDE DEF r
  <2>3. Becomes(i, ch, t, 0)
    BY <2>1, <2>2, SlotBecomes
  <2>4. \/ slots[i].character = Nobody
        \/ slots[i].locked = Nobody /\ slots[i].sticky = 0
    BY <2>1 DEF Takeable, Clean, Unused, SlotsOf
  <2> QED BY <1>2, <2>1, <2>3, <2>4
<1> QED BY <1>1, <1>2

\* A careful step locks what is unlocked and unlocks what its thread has, takes
\* only a slot nobody needs, for a character that has none, and loses only a
\* slot of its own on which nobody counts.
KeepsLock(i, t) ==
    \/ slots'[i].locked = slots[i].locked
    \/ slots[i].locked = Nobody /\ slots'[i].locked = t
    \/ slots[i].locked = t /\ slots'[i].locked = Nobody
Stays(i, t) ==
    slots[i].character # Nobody /\ slots'[i].character = slots[i].character /\ KeepsLock(i, t)
IsEmpty(i) ==
    slots[i].character = Nobody /\ slots'[i].character = Nobody /\ slots'[i].sticky = 0
IsTaken(i, t) ==
    /\ slots[i].character = Nobody \/ (slots[i].locked = Nobody /\ slots[i].sticky = 0)
    /\ slots'[i].character \in Characters
    /\ slots'[i].locked = t /\ slots'[i].sticky = 0
    /\ \A j \in Slots : /\ slots[j].character # slots'[i].character
                        /\ j # i => slots'[j] = slots[j]
IsLost(i, t) ==
    /\ slots[i].locked = t /\ slots[i].sticky = 0
    /\ slots'[i].character = Nobody /\ slots'[i].sticky = 0
CarefulAt(i, t) ==
    /\ slots'[i].locked \in {slots[i].locked, t, Nobody}
    /\ Stays(i, t) \/ IsEmpty(i) \/ IsTaken(i, t) \/ IsLost(i, t)
Careful(t) == \A i \in Slots : CarefulAt(i, t)

LEMMA SameAt ==
    ASSUME LocksKnown, NEW i \in Slots, NEW t, slots'[i] = slots[i]
    PROVE  CarefulAt(i, t)
  BY DEF LocksKnown, LockKnown, CarefulAt, Stays, IsEmpty, KeepsLock

LEMMA IdleCareful == ASSUME LocksKnown, UNCHANGED slots, NEW t PROVE Careful(t)
  BY SameAt DEF Careful

LEMMA SameCareful ==
    ASSUME LocksKnown, NEW i \in Slots, NEW t, NEW l, NEW n, slots[i].character # Nobody,
           Becomes(i, slots[i].character, l, n),
           \/ l = slots[i].locked
           \/ slots[i].locked = Nobody /\ l = t
           \/ slots[i].locked = t /\ l = Nobody
    PROVE  Careful(t)
<1>1. CarefulAt(i, t)
  BY DEF Becomes, CarefulAt, Stays, KeepsLock
<1>2. \A j \in Slots : j # i => CarefulAt(j, t)
  BY SameAt DEF Becomes
<1> QED BY <1>1, <1>2 DEF Careful

LEMMA GivesCareful ==
    ASSUME LocksKnown, NEW i \in Slots, NEW t, NEW ch \in Characters, ~Loaded(ch),
           Becomes(i, ch, t, 0),
           \/ slots[i].character = Nobody
           \/ slots[i].locked = Nobody /\ slots[i].sticky = 0
    PROVE  Careful(t)
<1>1. \A j \in Slots : slots[j].character # ch
  BY DEF Loaded, SlotsOf
<1>2. CarefulAt(i, t)
  BY <1>1 DEF Becomes, CarefulAt, IsTaken
<1>3. \A j \in Slots : j # i => CarefulAt(j, t)
  BY SameAt DEF Becomes
<1> QED BY <1>2, <1>3 DEF Careful

\* An empty slot stays empty and uncounted, a slot of its own is lost.
LEMMA LosesCareful ==
    ASSUME LocksKnown, NEW i \in Slots, NEW t, NEW l, Becomes(i, Nobody, l, 0),
           \/ slots[i].character = Nobody /\ l \in {slots[i].locked, t, Nobody}
           \/ slots[i].locked = t /\ slots[i].sticky = 0 /\ l = t
    PROVE  Careful(t)
<1>1. CarefulAt(i, t)
  BY DEF Becomes, CarefulAt, IsEmpty, IsLost
<1>2. \A j \in Slots : j # i => CarefulAt(j, t)
  BY SameAt DEF Becomes
<1> QED BY <1>1, <1>2 DEF Careful

\* A load that fails under nobody else is careful.
LEMMA FailureCareful ==
    ASSUME slots \in [Slots -> SlotRecord], LocksKnown, NEW i \in Slots, NEW t, ~misled',
           \/ FailToLoad(i) /\ slots[i].locked = t
           \/ Forget(i)
    PROVE  Careful(t)
<1>1. CASE FailToLoad(i) /\ slots[i].locked = t
  <2>1. slots[i].sticky = 0 /\ Becomes(i, Nobody, t, 0)
    BY <1>1, FailureBecomes
  <2> QED BY <1>1, <2>1, LosesCareful
<1>2. CASE Forget(i) /\ slots[i].character = Nobody
  <2>1. slots[i].sticky = 0
    BY <1>2 DEF LocksKnown, LockKnown
  <2>2. Becomes(i, Nobody, Nobody, 0)
    BY <1>2, <2>1, FailureBecomes
  <2> QED BY <1>2, <2>2, LosesCareful
<1>3. CASE Forget(i) /\ slots[i].character # Nobody
  <2>1. /\ slots[i].locked = Nobody
        /\ Becomes(i, slots[i].character, Nobody, slots[i].sticky)
    BY <1>3, FailureBecomes
  <2> QED BY <1>3, <2>1, SameCareful
<1> QED BY <1>1, <1>2, <1>3

LEMMA AssignCareful ==
    ASSUME VoiceInv, SlotInv, NEW i \in Slots, NEW t \in Threads, NEW ch \in Characters,
           NEW fresh \in BOOLEAN, Assign(ch, t, i, fresh)
    PROVE  Careful(t)
<1>1. slots \in [Slots -> SlotRecord] /\ LocksKnown /\ ch # Nobody
  BY Distinct DEF VoiceInv, Shaped, SlotInv
<1>2. \/ /\ ~fresh /\ slots[i].character = ch /\ slots[i].locked = Nobody
         /\ Becomes(i, ch, t, slots[i].sticky)
      \/ /\ ~fresh /\ slots[i].character = ch /\ slots[i].locked # Nobody
         /\ Becomes(i, ch, slots[i].locked, slots[i].sticky + 1)
      \/ /\ fresh /\ ~Loaded(ch) /\ Becomes(i, ch, t, 0)
         /\ \/ slots[i].character = Nobody
            \/ slots[i].locked = Nobody /\ slots[i].sticky = 0
  BY <1>1, AssignBecomes
<1> QED BY <1>1, <1>2, SameCareful, GivesCareful

\* What the invariant says of a login at work.
LEMMA LoginFacts ==
    ASSUME VoiceInv, SlotInv, NEW c \in Conns
    PROVE  /\ conns[c] \in ConnRecord /\ c \in Threads /\ c # Nobody
           /\ slots \in [Slots -> SlotRecord]
           /\ conns[c].at # "idle" => conns[c].who \in Characters /\ conns[c].state = "CONNECTED"
           /\ conns[c].at \in {"load", "check", "unlock", "call"} =>
                 /\ conns[c].slot \in Slots
                 /\ slots[conns[c].slot].character = conns[c].who
                 /\ slots[conns[c].slot].character # Nobody
           /\ conns[c].at = "forget" => conns[c].slot \in Slots
           /\ conns[c].at \in {"load", "unlock"} => slots[conns[c].slot].locked = c
<1>1. conns[c] \in ConnRecord /\ slots \in [Slots -> SlotRecord]
  BY DEF VoiceInv, Shaped
<1>2. RecordPlaced(conns[c])
  BY DEF VoiceInv, Placed
<1>3. /\ conns[c].at \in {"load", "unlock"} => Own(c)
      /\ conns[c].at \in {"load", "check", "unlock", "call"} =>
            slots[conns[c].slot].character = conns[c].who
  BY DEF SlotInv, ConnHolds, ConnHold
<1> QED BY <1>1, <1>2, <1>3, Distinct DEF RecordPlaced, Own, Threads

LEMMA CommCareful ==
    ASSUME VoiceInv, SlotInv, ~misled', NEW c \in Conns, CommunicationThread(c)
    PROVE  Careful(c)
<1> DEFINE s == conns[c].slot
<1>1. slots \in [Slots -> SlotRecord] /\ LocksKnown
  BY LoginFacts DEF SlotInv
<1>2. CASE UNCHANGED slots
  BY <1>1, <1>2, IdleCareful
<1>3. CASE AssignSlot(c)
  <2>1. PICK i \in Slots, fresh \in BOOLEAN : Assign(conns[c].who, c, i, fresh)
    BY <1>3 DEF AssignSlot
  <2>2. conns[c].who \in Characters /\ c \in Threads
    BY <1>3, LoginFacts DEF AssignSlot, At
  <2> QED BY <2>1, <2>2, AssignCareful
<1>4. CASE LoadSlot(c)
  <2>1. s \in Slots /\ slots[s].character # Nobody /\ Load(s, conns[c].who)
    BY <1>4, LoginFacts DEF LoadSlot, At
  <2> QED BY <1>1, <2>1, LoadBecomes, SameCareful
<1>5. CASE BlockLogin(c) \/ KeepSlot(c) \/ UnlockSlot(c)
  <2>1. /\ s \in Slots /\ slots[s].character # Nobody
        /\ Stick(s) \/ Unstick(s) \/ (Release(s, c) /\ slots[s].locked = c)
    BY <1>5, LoginFacts DEF BlockLogin, KeepSlot, UnlockSlot, At, Own
  <2> HIDE DEF s
  <2> QED BY <1>1, <2>1, StickBecomes, SameCareful
<1>6. CASE LoadFails(c) \/ ForgetSlot(c)
  <2>1. s \in Slots
    BY <1>6, LoginFacts DEF LoadFails, ForgetSlot, At
  <2>2. (FailToLoad(s) /\ slots[s].locked = c) \/ Forget(s)
    BY <1>6, LoginFacts DEF LoadFails, ForgetSlot, At
  <2> HIDE DEF s
  <2>3. CASE FailToLoad(s) /\ slots[s].locked = c
    BY <1>1, <2>1, <2>3, FailureCareful
  <2>4. CASE Forget(s)
    BY <1>1, <2>1, <2>4, FailureCareful
  <2> QED BY <2>2, <2>3, <2>4
<1>7. CASE Register(c) \/ FindNoSlot(c) \/ CallGameThread(c) \/ FreeConnection(c)
  <2>1. CASE Register(c)
    BY <1>2, <2>1 DEF Register
  <2>2. CASE FindNoSlot(c)
    BY <1>2, <2>2 DEF FindNoSlot
  <2>3. CASE CallGameThread(c) \/ FreeConnection(c)
    BY <1>2, <2>3 DEF CallGameThread, FreeConnection
  <2> QED BY <1>7, <2>1, <2>2, <2>3
<1> QED BY <1>3, <1>4, <1>5, <1>6, <1>7 DEF CommunicationThread

-----------------------------------------------------------------------------
(* Whoever needs a slot finds it held.                                       *)

LEMMA SomeIsOne ==
    ASSUME NEW S, IsFiniteSet(S), NEW x \in S
    PROVE  Cardinality(S) \in Nat \ {0}
<1>1. Cardinality(S) \in Nat
  BY FS_CardinalityType
<1>2. Cardinality(S) # 0
  BY FS_EmptySet
<1> QED BY <1>1, <1>2

LEMMA HoldersFinite ==
    ASSUME VoiceInv, SlotInv, NEW i \in Slots, slots[i].character # Nobody
    PROVE  /\ IsFiniteSet(LoginsFor(i)) /\ IsFiniteSet(PlayersIn(i)) /\ IsFiniteSet(MailFor(i))
           /\ Cardinality(LoginsFor(i)) \in Nat /\ Cardinality(PlayersIn(i)) \in Nat
           /\ Cardinality(MailFor(i)) \in Nat
           /\ slots[i].sticky \in Int /\ Holders(i) \in Nat
           /\ slots[i].sticky >= Holders(i)
<1>1. IsFiniteSet(LoginsFor(i))
  <2>1. LoginsFor(i) \in SUBSET Conns
    BY DEF LoginsFor
  <2> QED BY <2>1, TableAssumption, FS_Subset
<1>2. IsFiniteSet(PlayersIn(i))
  <2>1. PlayersIn(i) \in SUBSET {slots[i].character}
    BY DEF PlayersIn, InWorld, SlotInv, GameHolds, PlayerHold
  <2> QED BY <2>1, FS_Singleton, FS_Subset
<1>3. IsFiniteSet(MailFor(i))
  <2>1. replies \in Seq(Characters)
    BY DEF VoiceInv, Shaped
  <2>2. 1 \in Int /\ Len(replies) \in Int
    BY <2>1, LenProperties
  <2>3. IsFiniteSet(1..Len(replies))
    BY <2>2, FS_Interval
  <2>4. MailFor(i) \in SUBSET (1..Len(replies))
    BY DEF MailFor
  <2> QED BY <2>3, <2>4, FS_Subset
<1>4. /\ Cardinality(LoginsFor(i)) \in Nat /\ Cardinality(PlayersIn(i)) \in Nat
      /\ Cardinality(MailFor(i)) \in Nat
  BY <1>1, <1>2, <1>3, FS_CardinalityType
<1>5. slots[i].sticky \in Int
  BY SlotFields DEF VoiceInv, Shaped
<1>6. slots[i].sticky >= Holders(i)
  BY DEF SlotInv, Counted
<1>7. Holders(i) \in Nat
  BY <1>4 DEF Holders
<1> QED BY <1>1, <1>2, <1>3, <1>4, <1>5, <1>6, <1>7

LEMMA NeededIsCounted ==
    ASSUME VoiceInv, SlotInv, NEW i \in Slots, slots[i].character # Nobody
    PROVE  /\ \A c \in Conns : c \in LoginsFor(i) => slots[i].sticky >= 1
           /\ \A n \in 1..Len(replies) : replies[n] = slots[i].character
                                         => slots[i].sticky >= 1
<1>1. /\ Cardinality(LoginsFor(i)) \in Nat /\ Cardinality(PlayersIn(i)) \in Nat
      /\ Cardinality(MailFor(i)) \in Nat /\ slots[i].sticky \in Int
      /\ slots[i].sticky >= Cardinality(LoginsFor(i)) + Cardinality(PlayersIn(i))
                            + Cardinality(MailFor(i))
  <2> DEFINE l == Cardinality(LoginsFor(i))
             p == Cardinality(PlayersIn(i))
             m == Cardinality(MailFor(i))
             r == IF reader.at = "unlock" /\ reader.slot = i THEN 1 ELSE 0
             g == IF game.at = "mail" /\ game.slot = i THEN 1 ELSE 0
  <2>1. /\ l \in Nat /\ p \in Nat /\ m \in Nat /\ slots[i].sticky \in Int
        /\ slots[i].sticky >= Holders(i)
    BY HoldersFinite
  <2>2. Holders(i) = l + p + m + r + g
    BY DEF Holders
  <2>3. r \in Nat /\ g \in Nat
    OBVIOUS
  <2> HIDE DEF l, p, m, r, g
  <2>4. slots[i].sticky >= l + p + m
    BY <2>1, <2>2, <2>3
  <2> QED BY <2>1, <2>4 DEF l, p, m
<1>2. ASSUME NEW c \in Conns, c \in LoginsFor(i) PROVE slots[i].sticky >= 1
  <2>1. Cardinality(LoginsFor(i)) \in Nat \ {0}
    BY <1>2, HoldersFinite, SomeIsOne
  <2> QED BY <1>1, <2>1
<1>3. ASSUME NEW n \in 1..Len(replies), replies[n] = slots[i].character
      PROVE  slots[i].sticky >= 1
  <2>1. n \in MailFor(i)
    BY <1>3 DEF MailFor
  <2>2. Cardinality(MailFor(i)) \in Nat \ {0}
    BY <2>1, HoldersFinite, SomeIsOne
  <2> QED BY <1>1, <2>2
<1> QED BY <1>2, <1>3

\* A slot that is counted, or locked by another thread than t, keeps its
\* character where t takes a step.
Firm(i, t) ==
    slots[i].character # Nobody /\ (slots[i].sticky >= 1 \/ slots[i].locked \notin {Nobody, t})

LEMMA FirmStays ==
    ASSUME NEW t, Careful(t), NEW i \in Slots, Firm(i, t)
    PROVE  slots'[i].character = slots[i].character
<1>1. CarefulAt(i, t)
  BY DEF Careful
<1>2. /\ slots[i].character # Nobody
      /\ ~(slots[i].locked = Nobody /\ slots[i].sticky = 0)
      /\ ~(slots[i].locked = t /\ slots[i].sticky = 0)
  BY DEF Firm
<1> QED BY <1>1, <1>2 DEF CarefulAt, Stays, IsEmpty, IsTaken, IsLost

LEMMA LoginIsFirm ==
    ASSUME VoiceInv, SlotInv, NEW c \in Conns, NEW t, c # t
    PROVE  /\ conns[c].at \in {"load", "check", "unlock", "call"} => Firm(conns[c].slot, t)
           /\ conns[c].state = "LOGIN" =>
                 \E i \in Slots : slots[i].character = conns[c].who /\ Firm(i, t)
<1>1. ASSUME conns[c].at \in {"load", "check", "unlock", "call"}
      PROVE  Firm(conns[c].slot, t)
  <2>1. /\ conns[c].slot \in Slots /\ slots[conns[c].slot].character # Nobody
        /\ conns[c].at \in {"load", "unlock"} => slots[conns[c].slot].locked = c
        /\ c # Nobody
    BY <1>1, LoginFacts
  <2>2. CASE slots[conns[c].slot].locked = c
    BY <2>1, <2>2 DEF Firm
  <2>3. CASE slots[conns[c].slot].locked # c
    <3>1. c \in LoginsFor(conns[c].slot)
      BY <1>1, <2>1, <2>3 DEF LoginsFor, At, Own
    <3> QED BY <2>1, <3>1, NeededIsCounted DEF Firm
  <2> QED BY <2>2, <2>3
<1>2. ASSUME conns[c].state = "LOGIN"
      PROVE  \E i \in Slots : slots[i].character = conns[c].who /\ Firm(i, t)
  <2>1. /\ conns[c].character = conns[c].who /\ Loaded(conns[c].who)
        /\ conns[c].character \in Characters
    BY <1>2 DEF SlotInv, ConnHolds, ConnHold
  <2>2. PICK i \in Slots : slots[i].character = conns[c].who
    BY <2>1 DEF Loaded, SlotsOf
  <2>3. c \in LoginsFor(i)
    BY <1>2, <2>1, <2>2 DEF LoginsFor
  <2> QED BY <2>1, <2>2, <2>3, Distinct, NeededIsCounted DEF Firm
<1> QED BY <1>1, <1>2

LEMMA ReplyIsFirm ==
    ASSUME VoiceInv, SlotInv, NEW n \in 1..Len(replies), NEW t
    PROVE  \E i \in Slots : slots[i].character = replies[n] /\ Firm(i, t)
<1>1. replies \in Seq(Characters) /\ Loaded(replies[n])
  BY DEF VoiceInv, Shaped, SlotInv, FilersHold
<1>2. replies[n] \in Characters
  BY <1>1, ElementOfSeq
<1>3. PICK i \in Slots : slots[i].character = replies[n]
  BY <1>1 DEF Loaded, SlotsOf
<1> QED BY <1>2, <1>3, Distinct, NeededIsCounted DEF Firm

-----------------------------------------------------------------------------
(* A thread that does not take the step keeps what it has.                   *)

LEMMA UniqueStays == ASSUME NEW t, Unique, Careful(t) PROVE Unique'
<1> SUFFICES ASSUME NEW i \in Slots, NEW j \in Slots,
                    slots'[i].character = slots'[j].character,
                    slots'[i].character # Nobody, i # j
             PROVE  FALSE
  BY DEF Unique
<1>1. \A k \in {i, j} : IsTaken(k, t) \/ Stays(k, t)
  BY DEF Careful, CarefulAt, IsEmpty, IsLost
<1>2. CASE IsTaken(i, t) \/ IsTaken(j, t)
  BY <1>2 DEF IsTaken
<1>3. CASE Stays(i, t) /\ Stays(j, t)
  BY <1>3 DEF Stays, Unique
<1> QED BY <1>1, <1>2, <1>3

\* A lock that is on a character's slot, and is not the thread's, was there before.
LEMMA LockStays ==
    ASSUME NEW t, Careful(t), NEW u, u \notin {t, Nobody}, NEW i \in Slots
    PROVE  /\ slots'[i].locked = u => slots[i].locked = u
           /\ slots'[i].locked = u /\ slots'[i].character # Nobody
                 => slots[i].character # Nobody
           /\ slots[i].locked = u /\ slots[i].character # Nobody
                 => slots'[i].locked = u /\ slots'[i].character = slots[i].character
  BY DEF Careful, CarefulAt, Stays, KeepsLock, IsEmpty, IsTaken, IsLost

LEMMA ConnStays ==
    ASSUME VoiceInv, SlotInv, NEW t, Careful(t), NEW d \in Conns, d # t, conns'[d] = conns[d]
    PROVE  ConnHold(d)'
<1>1. ConnHold(d)
  BY DEF SlotInv, ConnHolds
<1>2. ASSUME conns[d].at \in {"load", "check", "unlock", "call"}
      PROVE  slots'[conns[d].slot].character = conns[d].who
  <2>1. conns[d].slot \in Slots /\ slots[conns[d].slot].character = conns[d].who
    BY <1>2, LoginFacts
  <2> QED BY <1>2, <2>1, LoginIsFirm, FirmStays
<1>3. ASSUME conns[d].at \in {"load", "unlock"} PROVE slots'[conns[d].slot].locked = d
  <2>1. /\ conns[d].slot \in Slots /\ slots[conns[d].slot].locked = d /\ d # Nobody
        /\ slots[conns[d].slot].character # Nobody
    BY <1>3, LoginFacts
  <2> QED BY <2>1, LockStays
<1>4. ASSUME conns[d].state = "LOGIN" PROVE Loaded(conns[d].who)'
  <2>1. PICK i \in Slots : slots[i].character = conns[d].who /\ Firm(i, t)
    BY <1>4, LoginIsFirm
  <2>2. slots'[i].character = conns'[d].who
    BY <2>1, FirmStays
  <2> QED BY <2>2 DEF Loaded, SlotsOf
<1> QED BY <1>1, <1>2, <1>3, <1>4 DEF ConnHold, Own

LEMMA ConnLockStays ==
    ASSUME SlotInv, NEW t, Careful(t), NEW d \in Conns, d # t, conns'[d] = conns[d],
           NEW i \in Slots, slots'[i].locked = d, slots'[i].character # Nobody
    PROVE  conns'[d].slot = i /\ conns'[d].at \in {"load", "check", "unlock"}
<1>1. slots[i].locked = d /\ slots[i].character # Nobody
  BY Distinct, LockStays
<1> QED BY <1>1 DEF SlotInv, LocksKnown, LockKnown

LEMMA EmptyStays ==
    ASSUME NEW t, Careful(t), NEW i \in Slots, slots'[i].character = Nobody
    PROVE  slots'[i].sticky = 0
  BY Distinct DEF Careful, CarefulAt, Stays, IsEmpty, IsTaken, IsLost

LEMMA ReaderStays ==
    ASSUME VoiceInv, SlotInv, NEW t, Careful(t), t # Reader, UNCHANGED reader
    PROVE  /\ reader'.at \in {"load", "unlock"} => slots'[reader'.slot].locked = Reader
           /\ reader'.at \in {"load", "forget", "look", "unlock"} => reader'.slot \in Slots
           /\ reader'.at \in {"load", "look", "unlock"} /\ slots'[reader'.slot].locked = Reader
                 => slots'[reader'.slot].character = reader'.who
           /\ \A i \in Slots : slots'[i].locked = Reader /\ slots'[i].character # Nobody =>
                 reader'.slot = i /\ reader'.at \in {"load", "look", "unlock"}
<1>1. ASSUME NEW i \in Slots
      PROVE  /\ slots'[i].locked = Reader => slots[i].locked = Reader
             /\ slots'[i].locked = Reader /\ slots'[i].character # Nobody
                   => slots[i].character # Nobody
             /\ slots[i].locked = Reader /\ slots[i].character # Nobody
                   => slots'[i].locked = Reader /\ slots'[i].character = slots[i].character
  BY Distinct, LockStays
<1>2. FilersHold /\ LocksKnown
  BY DEF SlotInv
<1>3. ASSUME reader.at \in {"load", "look", "unlock"}, slots[reader.slot].locked = Reader
      PROVE  /\ reader.slot \in Slots /\ slots[reader.slot].character = reader.who
             /\ slots[reader.slot].character # Nobody
  <2>1. reader.who \in Characters
    BY <1>3 DEF VoiceInv, Shaped
  <2> QED BY <1>2, <1>3, <2>1, Distinct DEF FilersHold
<1> QED BY <1>1, <1>2, <1>3 DEF FilersHold, LocksKnown, LockKnown

LEMMA RepliesStay ==
    ASSUME VoiceInv, SlotInv, NEW t, Careful(t), NEW n \in 1..Len(replies), NEW ch,
           ch = replies[n]
    PROVE  \E i \in Slots : slots'[i].character = ch
<1>1. PICK i \in Slots : slots[i].character = replies[n] /\ Firm(i, t)
  BY ReplyIsFirm
<1> QED BY <1>1, FirmStays

LEMMA GameStays ==
    ASSUME VoiceInv, SlotInv, NEW t, Careful(t), t # Game, UNCHANGED <<game, players>>
    PROVE  GameHolds'
<1>1. GameHolds /\ Nobody \notin Characters /\ Game # Nobody
  BY Distinct DEF SlotInv
<1>2. ASSUME NEW i \in Slots, slots[i].locked = Game, slots[i].character \in Characters
      PROVE  slots'[i].locked = Game /\ slots'[i].character = slots[i].character
  BY <1>1, <1>2, LockStays
<1>3. ASSUME NEW ch \in Characters PROVE PlayerHold(ch)'
  <2> SUFFICES ASSUME players'[ch].there, ~Leaving(ch)'
               PROVE  /\ players'[ch].slot \in Slots
                      /\ slots'[players'[ch].slot].character = ch
                      /\ slots'[players'[ch].slot].locked = Game
    BY DEF PlayerHold
  <2>1. players[ch].there /\ ~Leaving(ch)
    BY DEF Leaving
  <2>2. /\ players[ch].slot \in Slots /\ slots[players[ch].slot].character = ch
        /\ slots[players[ch].slot].locked = Game
    BY <1>1, <2>1 DEF GameHolds, PlayerHold
  <2> QED BY <1>2, <2>2
<1>4. game'.at \in {"release", "mail"} =>
          /\ game'.slot \in Slots /\ slots'[game'.slot].locked = Game
          /\ game'.who \in Characters /\ slots'[game'.slot].character = game'.who
  BY <1>1, <1>2 DEF GameHolds, GameHold
<1>5. game'.at \in {"release", "bury"} =>
          \A ch \in Characters \ {game'.who} : players'[ch].there
                                                => players'[ch].slot # game'.slot
  BY <1>1 DEF GameHolds, GameHold
<1> QED BY <1>1, <1>3, <1>4, <1>5 DEF GameHolds, GameHold

-----------------------------------------------------------------------------
(* The communication threads.                                                *)

\* What a communication thread does to its own connection.
ConnBecomes(c, state, at, who, slot) ==
    /\ conns'[c].state = state /\ conns'[c].at = at /\ conns'[c].who = who
    /\ conns'[c].slot = slot
    /\ \A d \in Conns : d # c => conns'[d] = conns[d]

LEMMA OthersKept ==
    ASSUME conns \in [Conns -> ConnRecord], NEW c \in Conns, NEW r,
           conns' = [conns EXCEPT ![c] = r]
    PROVE  /\ ConnBecomes(c, r.state, r.at, r.who, r.slot)
           /\ conns'[c] = r
<1> HIDE DEF ConnRecord
<1>1. conns'[c] = r /\ \A d \in Conns : d # c => conns'[d] = conns[d]
  OBVIOUS
<1> QED BY <1>1 DEF ConnBecomes

LEMMA ConnEffects ==
    ASSUME VoiceInv, NEW c \in Conns
    PROVE  /\ Register(c) => \E ch \in Characters :
                 ConnBecomes(c, "CONNECTED", "assign", ch, conns[c].slot)
           /\ FindNoSlot(c) \/ ForgetSlot(c) \/ BlockLogin(c) =>
                 ConnBecomes(c, "DISCONNECTED", "idle", Nobody, Nobody)
           /\ FreeConnection(c) => ConnBecomes(c, "FREE", "idle", Nobody, Nobody)
           /\ LoadSlot(c) => ConnBecomes(c, conns[c].state, "check", conns[c].who, conns[c].slot)
           /\ LoadFails(c) => ConnBecomes(c, conns[c].state, "forget", conns[c].who, conns[c].slot)
           /\ KeepSlot(c) => ConnBecomes(c, conns[c].state, "unlock", conns[c].who, conns[c].slot)
           /\ UnlockSlot(c) => ConnBecomes(c, conns[c].state, "call", conns[c].who, conns[c].slot)
           /\ CallGameThread(c) =>
                 /\ ConnBecomes(c, "LOGIN", "idle", conns[c].who, Nobody)
                 /\ conns'[c].character = slots[conns[c].slot].character
<1> DEFINE s == conns[c]
<1>1. conns \in [Conns -> ConnRecord] /\ s \in ConnRecord
  BY DEF VoiceInv, Shaped
<1>2. ASSUME Register(c)
      PROVE  \E ch \in Characters : ConnBecomes(c, "CONNECTED", "assign", ch, s.slot)
  <2>1. PICK ch \in Characters :
           conns' = [conns EXCEPT ![c] = [s EXCEPT !.state = "CONNECTED", !.who = ch,
                                                   !.at = "assign"]]
    BY <1>2 DEF Register
  <2> DEFINE r == [s EXCEPT !.state = "CONNECTED", !.who = ch, !.at = "assign"]
  <2> HIDE DEF s
  <2>2. r.state = "CONNECTED" /\ r.at = "assign" /\ r.who = ch /\ r.slot = s.slot
    BY <1>1 DEF ConnRecord
  <2> HIDE DEF r
  <2>3. ConnBecomes(c, r.state, r.at, r.who, r.slot)
    BY <1>1, <2>1, OthersKept DEF r
  <2> QED BY <2>2, <2>3
<1>3. ASSUME FindNoSlot(c) \/ ForgetSlot(c) \/ BlockLogin(c)
      PROVE  ConnBecomes(c, "DISCONNECTED", "idle", Nobody, Nobody)
  <2> DEFINE r == [Free EXCEPT !.state = "DISCONNECTED"]
  <2>1. conns' = [conns EXCEPT ![c] = r]
    BY <1>3 DEF FindNoSlot, ForgetSlot, BlockLogin
  <2>2. r.state = "DISCONNECTED" /\ r.at = "idle" /\ r.who = Nobody /\ r.slot = Nobody
    BY DEF Free
  <2> HIDE DEF r
  <2>3. ConnBecomes(c, r.state, r.at, r.who, r.slot)
    BY <1>1, <2>1, OthersKept
  <2> QED BY <2>2, <2>3
<1>4. ASSUME FreeConnection(c) PROVE ConnBecomes(c, "FREE", "idle", Nobody, Nobody)
  <2>1. conns' = [conns EXCEPT ![c] = Free]
    BY <1>4 DEF FreeConnection
  <2>2. Free.state = "FREE" /\ Free.at = "idle" /\ Free.who = Nobody /\ Free.slot = Nobody
    BY DEF Free
  <2>3. ConnBecomes(c, Free.state, Free.at, Free.who, Free.slot)
    BY <1>1, <2>1, OthersKept
  <2> QED BY <2>2, <2>3
<1>5. ASSUME NEW p, conns' = [conns EXCEPT ![c].at = p]
      PROVE  ConnBecomes(c, s.state, p, s.who, s.slot)
  <2> DEFINE r == [s EXCEPT !.at = p]
  <2>1. conns' = [conns EXCEPT ![c] = r]
    BY <1>5
  <2> HIDE DEF s
  <2>2. r.state = s.state /\ r.at = p /\ r.who = s.who /\ r.slot = s.slot
    BY <1>1 DEF ConnRecord
  <2> HIDE DEF r
  <2>3. ConnBecomes(c, r.state, r.at, r.who, r.slot)
    BY <1>1, <2>1, OthersKept
  <2> QED BY <2>2, <2>3
<1>6. ASSUME CallGameThread(c)
      PROVE  /\ ConnBecomes(c, "LOGIN", "idle", s.who, Nobody)
             /\ conns'[c].character = slots[s.slot].character
  <2> DEFINE h == slots[s.slot].character
  <2>1. conns' = [conns EXCEPT ![c] = [s EXCEPT !.state = "LOGIN", !.at = "idle",
                                                !.slot = Nobody, !.character = h]]
    BY <1>6 DEF CallGameThread
  <2> DEFINE r == [s EXCEPT !.state = "LOGIN", !.at = "idle", !.slot = Nobody, !.character = h]
  <2> HIDE DEF s, h
  <2>2. /\ r.state = "LOGIN" /\ r.at = "idle" /\ r.who = s.who /\ r.slot = Nobody
        /\ r.character = h
    BY <1>1 DEF ConnRecord
  <2> HIDE DEF r
  <2>3. ConnBecomes(c, r.state, r.at, r.who, r.slot) /\ conns'[c] = r
    BY <1>1, <2>1, OthersKept DEF r
  <2> QED BY <2>2, <2>3 DEF s, h
<1> QED BY <1>2, <1>3, <1>4, <1>5, <1>6 DEF LoadSlot, LoadFails, KeepSlot, UnlockSlot

LEMMA AssignEffect ==
    ASSUME VoiceInv, NEW c \in Conns, NEW i, NEW p,
           conns' = [conns EXCEPT ![c].slot = i, ![c].at = p]
    PROVE  ConnBecomes(c, conns[c].state, p, conns[c].who, i)
<1> DEFINE s == conns[c]
           r == [s EXCEPT !.slot = i, !.at = p]
<1>1. conns \in [Conns -> ConnRecord] /\ s \in ConnRecord
  BY DEF VoiceInv, Shaped
<1>2. conns' = [conns EXCEPT ![c] = r]
  BY <1>1
<1> HIDE DEF s
<1>3. r.state = s.state /\ r.at = p /\ r.who = s.who /\ r.slot = i
  BY <1>1 DEF ConnRecord
<1> HIDE DEF r
<1>4. ConnBecomes(c, r.state, r.at, r.who, r.slot)
  BY <1>1, <1>2, OthersKept
<1> QED BY <1>3, <1>4 DEF s

LEMMA ConnActorHolds ==
    ASSUME VoiceInv, SlotInv, ~misled', NEW c \in Conns, CommunicationThread(c)
    PROVE  /\ ConnHold(c)'
           /\ \A j \in Slots : slots'[j].locked = c /\ slots'[j].character # Nobody =>
                 conns'[c].slot = j /\ conns'[c].at \in {"load", "check", "unlock"}
<1> DEFINE s == conns[c].slot
           ch == conns[c].who
           Knows == \A j \in Slots : slots'[j].locked = c /\ slots'[j].character # Nobody =>
                       conns'[c].slot = j /\ conns'[c].at \in {"load", "check", "unlock"}
<1>1. /\ slots \in [Slots -> SlotRecord] /\ c \in Threads /\ c # Nobody
      /\ \A j \in Slots : slots[j].locked = c /\ slots[j].character # Nobody =>
            j = s /\ conns[c].at \in {"load", "check", "unlock"}
  BY LoginFacts DEF SlotInv, LocksKnown, LockKnown
<1>2. ConnHold(c)
  BY DEF SlotInv, ConnHolds
<1>3. CASE \/ Register(c) \/ FindNoSlot(c) \/ FreeConnection(c)
  <2>1. UNCHANGED slots /\ conns'[c].state # "LOGIN" /\ conns'[c].at \in {"assign", "idle"}
    BY <1>3, ConnEffects DEF Register, FindNoSlot, FreeConnection, ConnBecomes
  <2>2. conns[c].at \notin {"load", "check", "unlock"}
    BY <1>3, LoginFacts DEF Register, FindNoSlot, FreeConnection, At
  <2> QED BY <1>1, <2>1, <2>2 DEF ConnHold
<1>4. CASE AssignSlot(c)
  <2>1. PICK i \in Slots, fresh \in BOOLEAN :
           /\ Assign(ch, c, i, fresh)
           /\ conns' = [conns EXCEPT ![c].slot = i, ![c].at = IF fresh THEN "load" ELSE "check"]
    BY <1>4 DEF AssignSlot
  <2> DEFINE p == IF fresh THEN "load" ELSE "check"
  <2>2. ConnBecomes(c, conns[c].state, p, ch, i)
    <3> HIDE DEF p
    <3> QED BY <2>1, AssignEffect DEF p
  <2>3. ch \in Characters /\ conns[c].at = "assign" /\ conns[c].state = "CONNECTED"
    BY <1>4, LoginFacts DEF AssignSlot, At
  <2>4. /\ slots'[i].character = ch
        /\ fresh => slots'[i].locked = c
        /\ \A j \in Slots : j # i => slots'[j] = slots[j]
    BY <1>1, <2>1, <2>3, AssignBecomes DEF Becomes
  <2>5. ConnHold(c)'
    BY <2>1, <2>2, <2>3, <2>4 DEF ConnHold, ConnBecomes, Own
  <2>6. Knows
    BY <1>1, <2>2, <2>3, <2>4 DEF ConnBecomes
  <2> QED BY <2>5, <2>6
<1>5. CASE LoadSlot(c)
  <2>1. /\ s \in Slots /\ slots[s].character = ch /\ Load(s, ch) /\ conns[c].state = "CONNECTED"
    BY <1>5, LoginFacts DEF LoadSlot, At
  <2>2. Becomes(s, slots[s].character, slots[s].locked, slots[s].sticky)
    BY <1>1, <2>1, LoadBecomes
  <2>3. ConnBecomes(c, conns[c].state, "check", ch, s)
    BY <1>5, ConnEffects
  <2> HIDE DEF s
  <2>4. \A j \in Slots : /\ slots'[j].locked = slots[j].locked
                          /\ slots'[j].character = slots[j].character
    BY <2>2 DEF Becomes
  <2>5. ConnHold(c)'
    BY <2>1, <2>2, <2>3 DEF ConnHold, ConnBecomes, Becomes
  <2> QED BY <1>1, <2>3, <2>4, <2>5 DEF ConnBecomes
<1>6. CASE BlockLogin(c)
  <2>1. /\ s \in Slots /\ (IF Own(c) THEN Release(s, c) ELSE Unstick(s))
    BY <1>6, LoginFacts DEF BlockLogin, At
  <2>2. ConnBecomes(c, "DISCONNECTED", "idle", Nobody, Nobody)
    BY <1>6, ConnEffects
  <2>3. \A j \in Slots : slots'[j].locked = c => slots'[j].character = Nobody
    <3>1. CASE Own(c)
      <4>1. Becomes(s, slots[s].character, Nobody, slots[s].sticky)
        BY <1>1, <2>1, <3>1, StickBecomes DEF Own
      <4> HIDE DEF s
      <4> QED BY <1>1, <4>1 DEF Becomes
    <3>2. CASE ~Own(c)
      <4>1. slots[s].locked # c
        BY <3>2 DEF Own
      <4>2. Becomes(s, slots[s].character, slots[s].locked, slots[s].sticky - 1)
        BY <1>1, <2>1, <3>2, StickBecomes
      <4> HIDE DEF s
      <4> QED BY <1>1, <4>1, <4>2 DEF Becomes
    <3> QED BY <3>1, <3>2
  <2> QED BY <2>2, <2>3 DEF ConnHold, ConnBecomes
<1>7. CASE KeepSlot(c)
  <2>1. /\ s \in Slots /\ slots[s].character = ch /\ Stick(s) /\ slots[s].locked = c
        /\ conns[c].state = "CONNECTED"
    BY <1>7, LoginFacts DEF KeepSlot, At, Own
  <2>2. Becomes(s, slots[s].character, slots[s].locked, slots[s].sticky + 1)
    BY <1>1, <2>1, StickBecomes
  <2>3. ConnBecomes(c, conns[c].state, "unlock", ch, s)
    BY <1>7, ConnEffects
  <2> HIDE DEF s
  <2>4. \A j \in Slots : /\ slots'[j].locked = slots[j].locked
                          /\ slots'[j].character = slots[j].character
    BY <2>2 DEF Becomes
  <2>5. ConnHold(c)'
    BY <2>1, <2>2, <2>3 DEF ConnHold, ConnBecomes, Becomes, Own
  <2> QED BY <1>1, <2>3, <2>4, <2>5 DEF ConnBecomes
<1>8. CASE UnlockSlot(c)
  <2>1. /\ s \in Slots /\ slots[s].character = ch /\ Release(s, c) /\ slots[s].locked = c
        /\ conns[c].state = "CONNECTED"
    BY <1>8, LoginFacts DEF UnlockSlot, At
  <2>2. Becomes(s, slots[s].character, Nobody, slots[s].sticky)
    BY <1>1, <2>1, StickBecomes
  <2>3. ConnBecomes(c, conns[c].state, "call", ch, s)
    BY <1>8, ConnEffects
  <2> HIDE DEF s
  <2>4. \A j \in Slots : slots'[j].locked = c => slots'[j].character = Nobody
    BY <1>1, <2>2 DEF Becomes
  <2>5. ConnHold(c)'
    BY <2>1, <2>2, <2>3 DEF ConnHold, ConnBecomes, Becomes
  <2> QED BY <2>4, <2>5
<1>9. CASE CallGameThread(c)
  <2>1. /\ s \in Slots /\ slots[s].character = ch /\ ch \in Characters /\ UNCHANGED slots
        /\ conns[c].at = "call" \/ slots[s].locked # c
    BY <1>9, LoginFacts DEF CallGameThread, At, Own
  <2>2. ConnBecomes(c, "LOGIN", "idle", ch, Nobody) /\ conns'[c].character = slots[s].character
    BY <1>9, ConnEffects
  <2> HIDE DEF s
  <2>3. \E j \in Slots : slots'[j].character = conns'[c].who
    BY <2>1, <2>2 DEF ConnBecomes
  <2>4. ConnHold(c)'
    BY <2>1, <2>2, <2>3 DEF ConnHold, ConnBecomes, Loaded, SlotsOf
  <2> QED BY <1>1, <2>1, <2>4
<1>10. CASE LoadFails(c)
  <2>1. /\ s \in Slots /\ FailToLoad(s) /\ conns[c].state = "CONNECTED"
    BY <1>10, LoginFacts DEF LoadFails, At
  <2>2. Becomes(s, Nobody, slots[s].locked, 0)
    BY <1>1, <2>1, FailureBecomes
  <2>3. ConnBecomes(c, conns[c].state, "forget", ch, s)
    BY <1>10, ConnEffects
  <2> HIDE DEF s
  <2>4. Knows
    BY <1>1, <2>2 DEF Becomes
  <2> QED BY <2>1, <2>3, <2>4 DEF ConnHold, ConnBecomes
<1>11. CASE ForgetSlot(c)
  <2>1. /\ s \in Slots /\ Forget(s) /\ conns[c].at = "forget"
    BY <1>11, LoginFacts DEF ForgetSlot, At
  <2>2. Becomes(s, slots[s].character, Nobody, slots[s].sticky)
    BY <1>1, <2>1, FailureBecomes
  <2>3. ConnBecomes(c, "DISCONNECTED", "idle", Nobody, Nobody)
    BY <1>11, ConnEffects
  <2> HIDE DEF s
  <2>4. Knows
    BY <1>1, <2>1, <2>2 DEF Becomes
  <2> QED BY <2>3, <2>4 DEF ConnHold, ConnBecomes
<1> QED BY <1>3, <1>4, <1>5, <1>6, <1>7, <1>8, <1>9, <1>10, <1>11 DEF CommunicationThread

\* A communication thread touches its own connection only.
LEMMA CommKeeps ==
    ASSUME VoiceInv, NEW c \in Conns, CommunicationThread(c)
    PROVE  /\ UNCHANGED <<players, game, reader, replies, writer>>
           /\ \A d \in Conns : d # c => conns'[d] = conns[d]
<1>1. UNCHANGED <<players, game, reader, replies, writer>>
  BY DEF CommunicationThread, Register, AssignSlot, FindNoSlot, LoadSlot,
         LoadFails, ForgetSlot, BlockLogin, KeepSlot, UnlockSlot, CallGameThread,
         FreeConnection, others
<1>2. CASE AssignSlot(c)
  <2>1. PICK i, p : conns' = [conns EXCEPT ![c].slot = i, ![c].at = p]
    BY <1>2 DEF AssignSlot
  <2> QED BY <1>1, <2>1, AssignEffect DEF ConnBecomes
<1>3. CASE ~AssignSlot(c)
  <2>1. \E state, at, who, slot : ConnBecomes(c, state, at, who, slot)
    BY <1>3, ConnEffects DEF CommunicationThread
  <2> QED BY <1>1, <2>1 DEF ConnBecomes
<1> QED BY <1>2, <1>3

\* The parts of the invariant about who holds what.
HoldInv == Unique /\ LocksKnown /\ ConnHolds /\ FilersHold /\ GameHolds

LEMMA CommHolds ==
    ASSUME VoiceInv, SlotInv, ~misled', NEW c \in Conns, CommunicationThread(c)
    PROVE  HoldInv'
<1>1. Careful(c)
  BY CommCareful
<1>2. UNCHANGED <<players, game, reader, replies, writer>>
  BY CommKeeps
<1>3. c # Game /\ c # Reader /\ c # Writer
  BY Distinct
<1>4. \A d \in Conns : d # c => conns'[d] = conns[d]
  BY CommKeeps
<1>5. Unique'
  BY <1>1, UniqueStays DEF SlotInv
<1>6. ConnHolds'
  BY <1>1, <1>4, ConnStays, ConnActorHolds DEF ConnHolds
<1>7. LocksKnown'
  <2>1. ASSUME NEW i \in Slots, NEW d \in Conns, slots'[i].locked = d,
               slots'[i].character # Nobody
        PROVE  conns'[d].slot = i /\ conns'[d].at \in {"load", "check", "unlock"}
    BY <1>1, <1>4, <2>1, ConnLockStays, ConnActorHolds
  <2> QED BY <1>1, <1>2, <1>3, <2>1, ReaderStays, EmptyStays DEF LocksKnown, LockKnown
<1>8. FilersHold'
  <2>1. ASSUME NEW n \in 1..Len(replies') PROVE Loaded(replies[n])'
    BY <1>1, <1>2, <2>1, RepliesStay DEF Loaded, SlotsOf
  <2> QED BY <1>1, <1>2, <1>3, <2>1, ReaderStays DEF FilersHold
<1>9. GameHolds'
  BY <1>1, <1>2, <1>3, GameStays
<1> QED BY <1>5, <1>6, <1>7, <1>8, <1>9 DEF HoldInv

-----------------------------------------------------------------------------
(* The game thread.                                                          *)

\* ~TPlayer and SendMails count the slot down and change its data.
LEMMA FinishBecomes ==
    ASSUME slots \in [Slots -> SlotRecord], NEW i \in Slots
    PROVE  /\ \A d : slots' = [slots EXCEPT ![i] = [@ EXCEPT !.dirty = TRUE, !.data = d,
                                                     !.sticky = slots[i].sticky - 1]]
              => Becomes(i, slots[i].character, slots[i].locked, slots[i].sticky - 1)
           /\ \A l : slots' = [slots EXCEPT ![i] = [@ EXCEPT !.dirty = TRUE,
                                       !.sticky = slots[i].sticky - 1, !.locked = l]]
              => Becomes(i, slots[i].character, l, slots[i].sticky - 1)
<1> DEFINE s == slots[i]
           n == slots[i].sticky - 1
<1>1. s \in SlotRecord
  OBVIOUS
<1>2. ASSUME NEW d, slots' = [slots EXCEPT ![i] = [s EXCEPT !.dirty = TRUE, !.data = d,
                                                            !.sticky = n]]
      PROVE  Becomes(i, s.character, s.locked, n)
  <2> DEFINE r == [s EXCEPT !.dirty = TRUE, !.data = d, !.sticky = n]
  <2> HIDE DEF s, n
  <2>1. r.character = s.character /\ r.locked = s.locked /\ r.sticky = n
    BY <1>1 DEF SlotRecord
  <2>2. slots' = [slots EXCEPT ![i] = r]
    BY <1>2
  <2> HIDE DEF r
  <2>3. Becomes(i, r.character, r.locked, r.sticky)
    BY <2>2, SlotBecomes
  <2> QED BY <2>1, <2>3
<1>3. ASSUME NEW l, slots' = [slots EXCEPT ![i] = [s EXCEPT !.dirty = TRUE, !.sticky = n,
                                                            !.locked = l]]
      PROVE  Becomes(i, s.character, l, n)
  <2> DEFINE r == [s EXCEPT !.dirty = TRUE, !.sticky = n, !.locked = l]
  <2> HIDE DEF s, n
  <2>1. r.character = s.character /\ r.locked = l /\ r.sticky = n
    BY <1>1 DEF SlotRecord
  <2>2. slots' = [slots EXCEPT ![i] = r]
    BY <1>3
  <2> HIDE DEF r
  <2>3. Becomes(i, r.character, r.locked, r.sticky)
    BY <2>2, SlotBecomes
  <2> QED BY <2>1, <2>3
<1> QED BY <1>2, <1>3

\* A login that the game thread reads is for a character that has a slot.
LEMMA JoinFacts ==
    ASSUME VoiceInv, SlotInv, NEW c \in Conns, conns[c].state = "LOGIN"
    PROVE  LET ch == conns[c].character
           IN  /\ ch \in Characters /\ ch = conns[c].who
               /\ SlotOf(ch) \in Slots /\ slots[SlotOf(ch)].character = ch
               /\ \A i \in Slots : slots[i].character = ch => i = SlotOf(ch)
               /\ conns[c].at = "idle"
<1> DEFINE ch == conns[c].character
<1>1. /\ ch \in Characters /\ ch = conns[c].who /\ Loaded(ch) /\ conns[c].at = "idle"
  BY DEF SlotInv, ConnHolds, ConnHold, VoiceInv, Placed, RecordPlaced
<1>2. SlotOf(ch) \in SlotsOf(ch)
  BY <1>1 DEF Loaded, SlotOf
<1> HIDE DEF ch
<1>3. SlotOf(ch) \in Slots /\ slots[SlotOf(ch)].character = ch
  BY <1>2 DEF SlotsOf
<1>4. \A i \in Slots : slots[i].character = ch => i = SlotOf(ch)
  BY <1>1, <1>3, Distinct DEF SlotInv, Unique
<1> QED BY <1>1, <1>3, <1>4 DEF ch

\* A player that is not leaving has its slot locked.
LEMMA PlayFacts ==
    ASSUME VoiceInv, SlotInv, NEW ch \in Characters, players[ch].there, ~Leaving(ch)
    PROVE  /\ players[ch].slot \in Slots /\ slots[players[ch].slot].character = ch
           /\ slots[players[ch].slot].locked = Game /\ ch # Nobody
  BY Distinct DEF SlotInv, GameHolds, PlayerHold

LEMMA PlayingStays == Playing => game.at = "loop" /\ \A ch \in Characters : ~Leaving(ch)
  BY DEF Playing, Loop, Leaving

\* A login finds its character's slot.
LEMMA AttachWorks == ASSUME VoiceInv, SlotInv PROVE ~AttachFails
<1> SUFFICES ASSUME AttachFails PROVE FALSE
  OBVIOUS
<1>1. game.who \in Conns /\ conns[game.who].state = "LOGIN"
  BY DEF AttachFails, VoiceInv, Waiting
<1>2. /\ conns[game.who].character \in Characters /\ Loaded(conns[game.who].character)
  BY <1>1 DEF SlotInv, ConnHolds, ConnHold
<1> QED BY <1>2, Distinct DEF AttachFails

\* The step leaves who has which slot, locked and counted, as it is.
OnlyData ==
    \A i \in Slots : /\ slots'[i].character = slots[i].character
                    /\ slots'[i].locked = slots[i].locked
                    /\ slots'[i].sticky = slots[i].sticky

\* What is stored late may be stored in anybody's slot, and changes nothing
\* but what is stored there.
LEMMA BuryPool == ASSUME slots \in [Slots -> SlotRecord], Bury PROVE OnlyData
<1>1. CASE UNCHANGED slots
  BY <1>1 DEF OnlyData
<1>2. CASE SaveInventoryLate(game.slot, game.who)
  <2> DEFINE i == game.slot
             d == [slots[i].data EXCEPT !.things = game.who]
             r == [slots[i] EXCEPT !.data = d]
  <2>1. slots' = [slots EXCEPT ![i] = r]
    BY <1>2 DEF SaveInventoryLate
  <2>2. ASSUME i \in Slots
        PROVE  /\ r.character = slots[i].character /\ r.locked = slots[i].locked
               /\ r.sticky = slots[i].sticky
    <3>1. slots[i] \in SlotRecord
      BY <2>2, SlotFields
    <3> HIDE DEF d
    <3> QED BY ONLY <3>1 DEF r, SlotRecord
  <2> HIDE DEF r
  <2> QED BY <2>1, <2>2 DEF OnlyData
<1> QED BY <1>1, <1>2 DEF Bury

\* What the game thread does to the pool.
LEMMA GameSlots ==
    ASSUME VoiceInv, SlotInv, GameThread
    PROVE  \/ OnlyData
           \/ \E i \in Slots :
                 /\ slots[i].character # Nobody
                 /\ \/ /\ slots[i].locked = Nobody
                       /\ Becomes(i, slots[i].character, Game, slots[i].sticky)
                    \/ Becomes(i, slots[i].character, slots[i].locked, slots[i].sticky - 1)
                    \/ /\ slots[i].locked = Game
                       /\ \E n : Becomes(i, slots[i].character, Nobody, n)
<1>1. slots \in [Slots -> SlotRecord] /\ GameHolds
  BY DEF VoiceInv, Shaped, SlotInv
<1>2. CASE Attach
  <2>1. PICK i \in SlotsOf(conns[game.who].character) :
           slots[i].locked = Nobody /\ slots' = [slots EXCEPT ![i].locked = Game]
    BY <1>2 DEF Attach
  <2>2. game.who \in Conns /\ conns[game.who].state = "LOGIN"
    BY <1>2 DEF Attach, VoiceInv, Waiting
  <2>3. i \in Slots /\ slots[i].character # Nobody
    BY <2>1, <2>2, JoinFacts, Distinct DEF SlotsOf
  <2> QED BY <1>1, <2>1, <2>3, LockBecomes
<1>3. ASSUME NEW c \in Conns, JoinRefused(c) \/ TakeOver(c)
      PROVE  \/ UNCHANGED slots
             \/ \E i \in Slots :
                   /\ slots[i].character # Nobody
                   /\ Becomes(i, slots[i].character, slots[i].locked, slots[i].sticky - 1)
  <2> DEFINE i == SlotOf(conns[c].character)
  <2>1. /\ conns[c].state = "LOGIN"
        /\ UNCHANGED slots \/ Unstick(i)
    BY <1>3 DEF JoinRefused, TakeOver, Unstick
  <2>2. i \in Slots /\ slots[i].character # Nobody
    BY <2>1, JoinFacts, Distinct
  <2> HIDE DEF i
  <2> QED BY <1>1, <2>1, <2>2, StickBecomes
<1>4. ASSUME NEW ch \in Characters, Delete(ch)
      PROVE  \E i \in Slots :
                /\ slots[i].character # Nobody
                /\ Becomes(i, slots[i].character, slots[i].locked, slots[i].sticky - 1)
  <2> DEFINE i == players[ch].slot
  <2>1. /\ i \in Slots /\ slots[i].character # Nobody
    BY <1>4, PlayFacts, PlayingStays DEF Delete, Player
  <2>2. PICK d : slots' = [slots EXCEPT ![i] = [@ EXCEPT !.dirty = TRUE, !.data = d,
                                                         !.sticky = slots[i].sticky - 1]]
    BY <1>4 DEF Delete, Player
  <2> HIDE DEF i
  <2> QED BY <1>1, <2>1, <2>2, FinishBecomes
<1>5. CASE ReleaseSlot \/ SendMails
  <2> DEFINE i == game.slot
  <2>1. i \in Slots /\ slots[i].character # Nobody /\ slots[i].locked = Game
    BY <1>1, <1>5, Distinct DEF ReleaseSlot, SendMails, GameHolds, GameHold
  <2>2. \/ Release(i, Game)
        \/ slots' = [slots EXCEPT ![i] = [@ EXCEPT !.dirty = TRUE,
                                   !.sticky = slots[i].sticky - 1, !.locked = Nobody]]
    BY <1>5, <2>1 DEF ReleaseSlot, SendMails
  <2> HIDE DEF i
  <2>3. \E n : Becomes(i, slots[i].character, Nobody, n)
    BY <1>1, <2>1, <2>2, StickBecomes, FinishBecomes
  <2> QED BY <2>1, <2>3
<1>6. CASE TakeReply
  <2>1. CASE UNCHANGED slots
    BY <2>1 DEF OnlyData
  <2>2. CASE ~UNCHANGED slots
    <3>1. PICK i \in SlotsOf(Head(replies)) :
             slots[i].locked = Nobody /\ slots' = [slots EXCEPT ![i].locked = Game]
      BY <1>6, <2>2 DEF TakeReply
    <3>2. replies \in Seq(Characters) /\ replies # <<>>
      BY <1>6 DEF TakeReply, VoiceInv, Shaped
    <3>3. Head(replies) \in Characters
      BY <3>2, HeadTailProperties
    <3>4. i \in Slots /\ slots[i].character # Nobody
      BY <3>1, <3>3, Distinct DEF SlotsOf
    <3> QED BY <1>1, <3>1, <3>4, LockBecomes
  <2> QED BY <2>1, <2>2
<1>7. CASE UNCHANGED slots
  BY <1>7 DEF OnlyData
<1>8. CASE Bury
  BY <1>1, <1>8, BuryPool
<1> QED BY <1>2, <1>3, <1>4, <1>5, <1>6, <1>7, <1>8, AttachWorks DEF GameThread, GameStep, JoinNew,
           LogOut, LetGo, Die, OrderMail

LEMMA GameCareful ==
    ASSUME VoiceInv, SlotInv, GameThread
    PROVE  /\ Careful(Game)
           /\ \A i \in Slots : slots'[i].character = slots[i].character
<1>1. LocksKnown
  BY DEF SlotInv
<1>2. CASE OnlyData
  BY <1>1, <1>2 DEF OnlyData, LocksKnown, LockKnown, Careful, CarefulAt, Stays, IsEmpty, KeepsLock
<1>3. CASE ~OnlyData
  <2>1. PICK i \in Slots :
                 /\ slots[i].character # Nobody
                 /\ \/ /\ slots[i].locked = Nobody
                       /\ Becomes(i, slots[i].character, Game, slots[i].sticky)
                    \/ Becomes(i, slots[i].character, slots[i].locked, slots[i].sticky - 1)
                    \/ /\ slots[i].locked = Game
                       /\ \E n : Becomes(i, slots[i].character, Nobody, n)
    BY <1>3, GameSlots
  <2>2. Careful(Game)
    BY <1>1, <2>1, SameCareful
  <2> QED BY <2>1, <2>2 DEF Becomes
<1> QED BY <1>2, <1>3

\* Who is in the world changes when somebody enters or is buried.
LEMMA PlayersStay ==
    ASSUME VoiceInv, GameThread, ~Attach, ~Bury, NEW h \in Characters
    PROVE  /\ players'[h].there = players[h].there /\ players'[h].slot = players[h].slot
           /\ players'[h].data = players[h].data
<1>1. players \in [Characters -> PlayerRecord] /\ players[h] \in PlayerRecord
  BY DEF VoiceInv, Shaped
<1>2. ASSUME NEW ch, NEW r, players' = [players EXCEPT ![ch] = r],
             ch \in Characters => /\ r.there = players[ch].there /\ r.slot = players[ch].slot
                                  /\ r.data = players[ch].data
      PROVE  /\ players'[h].there = players[h].there /\ players'[h].slot = players[h].slot
             /\ players'[h].data = players[h].data
  <2>1. players'[h] = IF h = ch THEN r ELSE players[h]
    <3> HIDE DEF PlayerRecord
    <3> QED BY <1>1, <1>2
  <2> QED BY <1>2, <2>1
<1>3. CASE \E c \in Conns : JoinRefused(c)
  <2>1. PICK c \in Conns : JoinRefused(c)
    BY <1>3
  <2> DEFINE ch == conns[c].character
             r == [players[ch] EXCEPT !.logoutAllowed = TRUE]
  <2>2. UNCHANGED players \/ players' = [players EXCEPT ![ch] = r]
    BY <2>1 DEF JoinRefused
  <2>3. ch \in Characters => /\ r.there = players[ch].there /\ r.slot = players[ch].slot
                             /\ r.data = players[ch].data
    BY <1>1 DEF PlayerRecord
  <2> HIDE DEF ch, r
  <2> QED BY <1>2, <2>2, <2>3
<1>4. CASE \E c \in Conns : TakeOver(c)
  <2>1. PICK c \in Conns : TakeOver(c)
    BY <1>4
  <2> DEFINE ch == conns[c].character
             r == [players[ch] EXCEPT !.connection = c, !.loggingOut = FALSE,
                                      !.logoutAllowed = FALSE]
  <2>2. players' = [players EXCEPT ![ch] = r]
    BY <2>1 DEF TakeOver
  <2>3. ch \in Characters => /\ r.there = players[ch].there /\ r.slot = players[ch].slot
                             /\ r.data = players[ch].data
    BY <1>1 DEF PlayerRecord
  <2> HIDE DEF ch, r
  <2> QED BY <1>2, <2>2, <2>3
<1>5. CASE \E c \in Conns : LogOut(c, TRUE) \/ LogOut(c, FALSE)
  <2>1. PICK c \in Conns, asked \in BOOLEAN : LogOut(c, asked)
    BY <1>5
  <2> DEFINE ch == conns[c].character
             may == Player(ch).logoutAllowed \/ (asked /\ ~Player(ch).isDead)
             r == [players[ch] EXCEPT !.connection = Nobody, !.loggingOut = TRUE,
                                      !.logoutAllowed = may]
  <2>2. players' = [players EXCEPT ![ch] = r]
    BY <2>1 DEF LogOut
  <2> HIDE DEF may
  <2>3. ch \in Characters => /\ r.there = players[ch].there /\ r.slot = players[ch].slot
                             /\ r.data = players[ch].data
    BY <1>1 DEF PlayerRecord
  <2> HIDE DEF ch, r
  <2> QED BY <1>2, <2>2, <2>3
<1>6. CASE \E ch \in Characters : Die(ch)
  <2>1. PICK ch \in Characters : Die(ch)
    BY <1>6
  <2> DEFINE r == [players[ch] EXCEPT !.isDead = TRUE, !.loggingOut = TRUE]
  <2>2. players' = [players EXCEPT ![ch] = r]
    BY <1>1, <2>1 DEF Die
  <2>3. /\ r.there = players[ch].there /\ r.slot = players[ch].slot
        /\ r.data = players[ch].data
    BY <1>1 DEF PlayerRecord
  <2> HIDE DEF r
  <2> QED BY <1>2, <2>2, <2>3
<1>7. CASE UNCHANGED players
  BY <1>7
<1> QED BY <1>3, <1>4, <1>5, <1>6, <1>7 DEF GameThread, GameStep, AttachFails, ReleaseSlot,
           SendMails, TakeReply, JoinNew, LetGo, Delete, OrderMail

\* The game thread touches no connection that is being registered, and of
\* those that are logging in only the one whose login it reads.
Reads(c) == JoinRefused(c) \/ TakeOver(c) \/ LetGo(c) \/ (Attach /\ game.who = c)

LEMMA AtWorkStays ==
    ASSUME VoiceInv, SlotInv, GameThread, NEW d \in Conns,
           conns[d].at # "idle" \/ (conns[d].state = "LOGIN" /\ ~Reads(d))
    PROVE  conns'[d] = conns[d]
<1>1. /\ conns \in [Conns -> ConnRecord] /\ OneVoice /\ Waiting
      /\ \A c \in Conns : conns[c].state # "CONNECTED" => conns[c].at = "idle"
  BY Facts
<1>2. conns[d].state \notin {"GAME", "LOGOUT"}
      /\ (conns[d].state = "LOGIN" => ~Reads(d))
  BY <1>1
<1>3. \A ch \in Characters : players[ch].connection # d
  BY <1>1, <1>2 DEF OneVoice
<1>4. CASE Attach
  <2>1. game.who \in Conns /\ conns[game.who].state = "LOGIN" /\ game.who # d
    BY <1>1, <1>2, <1>4 DEF Attach, Waiting, Reads
  <2>2. conns' = [conns EXCEPT ![game.who].state = "GAME"]
    BY <1>4 DEF Attach
  <2> QED BY <1>1, <2>1, <2>2
<1>5. ASSUME NEW c \in Conns, JoinRefused(c) \/ LetGo(c) PROVE conns'[d] = conns[d]
  <2>1. c # d /\ conns' = Disconnected(c)
    BY <1>2, <1>5 DEF JoinRefused, LetGo, Reads
  <2> QED BY <1>1, <2>1, DisconnectedFacts
<1>6. ASSUME NEW c \in Conns, TakeOver(c) PROVE conns'[d] = conns[d]
  <2> DEFINE old == {o \in Conns : o = Player(conns[c].character).connection}
             t == LoggedOut(old)
  <2>1. c # d /\ conns[c].character \in Characters
    BY <1>2, <1>6, Facts DEF TakeOver, Reads, InWorld
  <2>2. d \notin old
    BY <1>3, <2>1 DEF Player
  <2>3. t \in [Conns -> ConnRecord] /\ t[d] = conns[d]
    BY <1>1, <2>2, LoggedOutFacts
  <2>4. conns' = [t EXCEPT ![c].state = "GAME"]
    BY <1>6 DEF TakeOver
  <2> HIDE DEF t, old
  <2> QED BY <2>1, <2>3, <2>4
<1>7. ASSUME NEW c \in Conns, LogOut(c, TRUE) \/ LogOut(c, FALSE) PROVE conns'[d] = conns[d]
  <2>1. d \notin {c} /\ conns' = LoggedOut({c})
    BY <1>2, <1>7 DEF LogOut
  <2> QED BY <1>1, <2>1, LoggedOutFacts
<1>8. CASE Bury
  <2> DEFINE old == {c \in Conns : c = Player(game.who).connection}
  <2>1. game.who \in Characters
    BY <1>1, <1>8 DEF Bury, Waiting
  <2>2. d \notin old /\ conns' = LoggedOut(old)
    BY <1>3, <1>8, <2>1 DEF Bury, Player
  <2> HIDE DEF old
  <2> QED BY <1>1, <2>2, LoggedOutFacts
<1>9. CASE UNCHANGED conns
  BY <1>9
<1> QED BY <1>4, <1>5, <1>6, <1>7, <1>8, <1>9, AttachWorks DEF GameThread, GameStep, ReleaseSlot,
           SendMails, TakeReply, JoinNew, Die, Delete, OrderMail

\* A connection the game thread has changed is neither at work nor logging in.
LEMMA ChangedIsDone ==
    ASSUME VoiceInv, GameThread, NEW d \in Conns, conns'[d] # conns[d]
    PROVE  conns'[d].at = "idle" /\ conns'[d].state # "LOGIN"
<1>1. Kept1(d) \/ LetGo1(d) \/ Admitted(d)
  BY GameOrderly DEF Orderly
<1> QED BY <1>1 DEF Kept1, LetGo1, Admitted

\* A player keeps its slot in a step that neither ends its stay nor touches
\* its slot's lock.
LEMMA PlayerHeldOn ==
    ASSUME VoiceInv, SlotInv, GameThread, NEW h \in Characters,
           players[h].there, ~Leaving(h), players'[h].slot = players[h].slot,
           slots'[players[h].slot].locked = Game
    PROVE  PlayerHold(h)'
<1>1. /\ players[h].slot \in Slots /\ slots[players[h].slot].character = h
      /\ slots[players[h].slot].locked = Game /\ h # Nobody
  BY PlayFacts
<1>2. slots'[players[h].slot].character = h
  BY <1>1, GameCareful
<1> QED BY <1>1, <1>2 DEF PlayerHold

LEMMA GameHoldsOn ==
    ASSUME VoiceInv, SlotInv, GameThread
    PROVE  GameHolds'
<1> USE DEF Player
<1>1. /\ slots \in [Slots -> SlotRecord] /\ GameHold /\ Careful(Game)
      /\ players \in [Characters -> PlayerRecord]
      /\ \A h \in Characters : PlayerHold(h)
  BY GameCareful DEF VoiceInv, Shaped, SlotInv, GameHolds
<1>2. ASSUME UNCHANGED <<slots, game>>, ~Attach, ~Bury PROVE GameHolds'
  <2>1. GameHold'
    <3>1. game.at \in {"release", "bury", "mail"} => game.who \in Characters
      BY <1>1 DEF GameHold
    <3>2. ASSUME NEW h \in Characters
          PROVE  players'[h].there = players[h].there /\ players'[h].slot = players[h].slot
      BY <1>2, PlayersStay
    <3> QED BY <1>1, <1>2, <3>1, <3>2 DEF GameHold
  <2>2. ASSUME NEW h \in Characters PROVE PlayerHold(h)'
    BY <1>1, <1>2, PlayersStay DEF PlayerHold, Leaving
  <2> QED BY <2>1, <2>2 DEF GameHolds
<1>3. CASE Attach
  <2>1. PICK c \in Conns, ch \in Characters : c = game.who /\ ch = conns[c].character
    BY <1>3, JoinFacts DEF Attach, VoiceInv, Waiting
  <2>2. ~players[ch].there /\ game.at = "attach" /\ game' = Loop
    BY <1>3, <2>1 DEF Attach, VoiceInv, Waiting, InWorld
  <2>3. PICK i \in SlotsOf(ch) :
           /\ slots[i].locked = Nobody
           /\ slots' = [slots EXCEPT ![i].locked = Game]
           /\ players' = [players EXCEPT ![ch] = [Absent EXCEPT !.there = TRUE, !.slot = i,
                                 !.connection = c, !.data = slots[i].data]]
    BY <1>3, <2>1 DEF Attach
  <2>4. i \in Slots /\ slots[i].character = ch
    BY <2>3 DEF SlotsOf
  <2>5. Becomes(i, ch, Game, slots[i].sticky)
    BY <1>1, <2>3, <2>4, LockBecomes
  <2>6. players'[ch].slot = i /\ \A h \in Characters : h # ch => players'[h] = players[h]
    <3> DEFINE r == [Absent EXCEPT !.there = TRUE, !.slot = i, !.connection = c,
                                   !.data = slots[i].data]
    <3>1. r.slot = i
      BY DEF Absent
    <3> HIDE DEF r, PlayerRecord
    <3> QED BY <1>1, <2>3, <3>1 DEF r
  <2>7. PlayerHold(ch)'
    BY <2>4, <2>5, <2>6 DEF PlayerHold, Becomes
  <2>8. ASSUME NEW h \in Characters, h # ch PROVE PlayerHold(h)'
    <3>1. CASE ~players[h].there
      BY <2>6, <2>8, <3>1 DEF PlayerHold
    <3>2. CASE players[h].there
      <4>1. ~Leaving(h) /\ players'[h].slot = players[h].slot
        BY <2>2, <2>6, <2>8 DEF Leaving
      <4>2. players[h].slot \in Slots /\ slots[players[h].slot].locked = Game
        BY <3>2, <4>1, PlayFacts
      <4>3. slots'[players[h].slot].locked = Game
        BY <2>3, <2>5, <4>2 DEF Becomes
      <4> QED BY <1>1, <3>2, <4>1, <4>3, PlayerHeldOn
    <3> QED BY <3>1, <3>2
  <2>9. GameHold'
    BY <2>2 DEF GameHold, Loop
  <2> QED BY <2>7, <2>8, <2>9 DEF GameHolds
<1>4. CASE Bury
  <2> DEFINE g == game.who
  <2>1. /\ g \in Characters /\ game.at = "bury" /\ game' = Loop /\ OnlyData
        /\ players' = [players EXCEPT ![g] = Absent]
    BY <1>1, <1>4, BuryPool DEF Bury, GameHold
  <2>2. /\ ~players'[g].there
        /\ \A h \in Characters : h # g => players'[h] = players[h] /\ ~Leaving(h)
    <3> HIDE DEF PlayerRecord
    <3> QED BY <1>1, <2>1, AbsentRecord DEF Leaving
  <2>3. ASSUME NEW h \in Characters PROVE PlayerHold(h)'
    BY <1>1, <2>1, <2>2 DEF PlayerHold, OnlyData
  <2>4. GameHold'
    BY <2>1 DEF GameHold, Loop
  <2> QED BY <2>3, <2>4 DEF GameHolds
<1>5. CASE \E c \in Conns : JoinNew(c)
  <2>1. Playing /\ game'.at = "attach" /\ UNCHANGED <<slots, players>>
    BY <1>5 DEF JoinNew
  <2>2. ASSUME NEW h \in Characters PROVE PlayerHold(h)'
    BY <1>1, <2>1, PlayingStays DEF PlayerHold
  <2> QED BY <2>1, <2>2 DEF GameHolds, GameHold
<1>6. ASSUME NEW c \in Conns, JoinRefused(c) \/ TakeOver(c) PROVE GameHolds'
  <2>1. Playing /\ UNCHANGED game /\ ~Attach /\ ~Bury
    BY <1>6, PlayingStays DEF JoinRefused, TakeOver, Attach, Bury
  <2>2. ASSUME NEW j \in Slots PROVE slots'[j].locked = slots[j].locked
    <3> DEFINE i == SlotOf(conns[c].character)
    <3>1. /\ conns[c].state = "LOGIN"
          /\ UNCHANGED slots \/ Unstick(i)
      BY <1>6 DEF JoinRefused, TakeOver, Unstick
    <3>2. i \in Slots
      BY <3>1, JoinFacts
    <3> HIDE DEF i
    <3> QED BY <1>1, <3>1, <3>2, StickBecomes DEF Becomes
  <2>3. ASSUME NEW h \in Characters PROVE PlayerHold(h)'
    <3>1. /\ players'[h].there = players[h].there /\ players'[h].slot = players[h].slot
          /\ ~Leaving(h)
      BY <2>1, PlayersStay, PlayingStays
    <3>2. CASE players[h].there
      <4>1. players[h].slot \in Slots /\ slots[players[h].slot].locked = Game
        BY <3>1, <3>2, PlayFacts
      <4> QED BY <1>1, <2>2, <3>1, <3>2, <4>1, PlayerHeldOn
    <3> QED BY <3>1, <3>2 DEF PlayerHold
  <2>4. GameHold'
    BY <2>1, PlayingStays DEF GameHold
  <2> QED BY <2>3, <2>4 DEF GameHolds
<1>7. ASSUME NEW ch \in Characters, Delete(ch) PROVE GameHolds'
  <2> DEFINE i == players[ch].slot
  <2>1. /\ Playing /\ players[ch].there /\ UNCHANGED players
        /\ game'.at = "release" /\ game'.who = ch /\ game'.slot = i
    BY <1>7 DEF Delete
  <2>2. i \in Slots /\ slots[i].character = ch /\ slots[i].locked = Game /\ ch # Nobody
    BY <2>1, PlayFacts, PlayingStays
  <2>3. Becomes(i, ch, Game, slots[i].sticky - 1)
    <3>1. PICK d : slots' = [slots EXCEPT ![i] = [@ EXCEPT !.dirty = TRUE, !.data = d,
                                                           !.sticky = slots[i].sticky - 1]]
      BY <1>7 DEF Delete
    <3> HIDE DEF i
    <3> QED BY <1>1, <2>2, <3>1, FinishBecomes
  <2> HIDE DEF i
  <2>6. ASSUME NEW h \in Characters \ {ch}, players[h].there PROVE players[h].slot # i
    BY <2>1, <2>2, <2>6, PlayFacts, PlayingStays
  <2>4. GameHold'
    BY <2>1, <2>2, <2>3, <2>6 DEF GameHold, Becomes
  <2>5. ASSUME NEW h \in Characters, players[h].there PROVE PlayerHold(h)'
    <3>1. ~Leaving(h) /\ players[h].slot \in Slots /\ slots[players[h].slot].locked = Game
      BY <2>1, <2>5, PlayFacts, PlayingStays
    <3>2. slots'[players[h].slot].locked = Game
      BY <2>3, <3>1 DEF Becomes
    <3> QED BY <1>1, <2>1, <2>5, <3>1, <3>2, PlayerHeldOn
  <2> QED BY <2>1, <2>4, <2>5 DEF GameHolds, PlayerHold
<1>8. CASE ReleaseSlot \/ SendMails
  <2> DEFINE i == game.slot
             g == game.who
  <2>1. /\ i \in Slots /\ slots[i].character = g /\ slots[i].locked = Game /\ g \in Characters
        /\ game.at \in {"release", "mail"} /\ UNCHANGED players
        /\ game.at = "release" => players[g].there
        /\ game.at = "mail" => ~players[g].there
    BY <1>1, <1>8 DEF ReleaseSlot, SendMails, GameHold
  <2>2. \A j \in Slots : j # i => slots'[j] = slots[j]
    <3> HIDE DEF i
    <3>1. \/ Release(i, Game)
          \/ slots' = [slots EXCEPT ![i] = [@ EXCEPT !.dirty = TRUE,
                                     !.sticky = slots[i].sticky - 1, !.locked = Nobody]]
      BY <1>8, <2>1 DEF ReleaseSlot, SendMails, i
    <3> QED BY <1>1, <2>1, <3>1, StickBecomes, FinishBecomes DEF Becomes
  <2>3. \/ /\ game.at = "release" /\ game'.at = "bury" /\ game'.who = g /\ game'.slot = i
        \/ /\ game.at = "mail" /\ game' = Loop
    <3>1. CASE ReleaseSlot
      <4>1. /\ game.at = "release" /\ game' = [game EXCEPT !.at = "bury"]
            /\ game = [at |-> game.at, who |-> game.who, slot |-> game.slot]
        BY <3>1 DEF ReleaseSlot, VoiceInv, Waiting
      <4>2. game' = [at |-> "bury", who |-> game.who, slot |-> game.slot]
        BY ONLY <4>1
      <4> QED BY <4>1, <4>2
    <3>2. CASE SendMails
      BY <3>2 DEF SendMails
    <3> QED BY <1>8, <3>1, <3>2
  <2>4. GameHold'
    BY <1>1, <2>1, <2>3 DEF GameHold, Loop
  <2> HIDE DEF i
  <2>5. ASSUME NEW h \in Characters, players[h].there, ~Leaving(h)' PROVE PlayerHold(h)'
    <3>1. h # g
      BY <2>1, <2>3, <2>5 DEF Leaving
    <3>2. ~Leaving(h)
      BY <3>1 DEF Leaving
    <3>3. /\ players[h].slot \in Slots /\ slots[players[h].slot].locked = Game
          /\ slots[players[h].slot].character = h
      BY <2>5, <3>2, PlayFacts
    <3>4. slots'[players[h].slot].locked = Game
      BY <2>1, <2>2, <3>1, <3>3
    <3> QED BY <1>1, <2>1, <2>5, <3>2, <3>4, PlayerHeldOn
  <2> QED BY <2>1, <2>4, <2>5 DEF GameHolds, PlayerHold
<1>9. CASE TakeReply
  <2>1. CASE UNCHANGED <<slots, game>>
    <3>1. ~Attach /\ ~Bury
      BY <1>9, PlayingStays DEF TakeReply, Attach, Bury
    <3> QED BY <1>2, <2>1, <3>1
  <2>2. CASE ~UNCHANGED <<slots, game>>
    <3> DEFINE ch == Head(replies)
    <3>1. PICK i \in SlotsOf(ch) :
             /\ slots[i].locked = Nobody /\ slots' = [slots EXCEPT ![i].locked = Game]
             /\ game' = [at |-> "mail", who |-> ch, slot |-> i]
      BY <1>9, <2>2 DEF TakeReply
    <3>2. replies \in Seq(Characters) /\ replies # <<>> /\ Playing /\ UNCHANGED players
      BY <1>9 DEF TakeReply, VoiceInv, Shaped
    <3>3. ch \in Characters
      BY <3>2, HeadTailProperties
    <3>4. i \in Slots /\ slots[i].character = ch
      BY <3>1 DEF SlotsOf
    <3> HIDE DEF ch
    <3>5. Becomes(i, ch, Game, slots[i].sticky)
      BY <1>1, <3>1, <3>4, LockBecomes
    <3>6. ~players[ch].there
      <4> SUFFICES ASSUME players[ch].there PROVE FALSE
        OBVIOUS
      <4>1. /\ players[ch].slot \in Slots /\ slots[players[ch].slot].character = ch
            /\ slots[players[ch].slot].locked = Game /\ ch # Nobody
        BY <3>2, <3>3, PlayFacts, PlayingStays
      <4>2. players[ch].slot = i
        BY <3>4, <4>1 DEF SlotInv, Unique
      <4> QED BY <3>1, <4>1, <4>2, Distinct
    <3>7. GameHold'
      BY <3>1, <3>2, <3>3, <3>4, <3>5, <3>6 DEF GameHold, Becomes
    <3>8. ASSUME NEW h \in Characters, players[h].there PROVE PlayerHold(h)'
      <4>1. ~Leaving(h) /\ players[h].slot \in Slots /\ slots[players[h].slot].locked = Game
        BY <3>2, <3>8, PlayFacts, PlayingStays
      <4>2. slots'[players[h].slot].locked = Game
        BY <3>5, <4>1 DEF Becomes
      <4> QED BY <1>1, <3>2, <3>8, <4>1, <4>2, PlayerHeldOn
    <3> QED BY <3>2, <3>7, <3>8 DEF GameHolds, PlayerHold
  <2> QED BY <2>1, <2>2
<1>10. CASE \/ \E c \in Conns : LogOut(c, TRUE) \/ LogOut(c, FALSE) \/ LetGo(c)
            \/ \E ch \in Characters : Die(ch) \/ OrderMail(ch)
  <2>1. UNCHANGED <<slots, game>> /\ Playing
    BY <1>10 DEF LogOut, LetGo, Die, OrderMail
  <2>2. ~Attach /\ ~Bury
    BY <2>1, PlayingStays DEF Attach, Bury
  <2> QED BY <1>2, <2>1, <2>2
<1> QED BY <1>3, <1>4, <1>5, <1>6, <1>7, <1>8, <1>9, <1>10, AttachWorks DEF GameThread, GameStep

LEMMA GameThreadHolds ==
    ASSUME VoiceInv, SlotInv, GameThread
    PROVE  HoldInv'
<1>1. Careful(Game) /\ Game # Reader /\ Game # Writer /\ \A d \in Conns : d # Game
  BY GameCareful, Distinct
<1>2. UNCHANGED <<reader, writer>>
  BY DEF GameThread, GameStep, Attach, AttachFails, ReleaseSlot, Bury, SendMails, TakeReply,
         JoinNew, JoinRefused, TakeOver, LogOut, LetGo, Die, Delete, OrderMail, rest
<1>3. Unique'
  BY <1>1, UniqueStays DEF SlotInv
<1>4. ASSUME NEW d \in Conns PROVE ConnHold(d)'
  <2>1. CASE conns'[d] = conns[d]
    BY <1>1, <2>1, ConnStays
  <2>2. CASE conns'[d] # conns[d]
    BY <2>2, ChangedIsDone DEF ConnHold
  <2> QED BY <2>1, <2>2
<1>5. LocksKnown'
  <2>1. ASSUME NEW i \in Slots, NEW d \in Conns, slots'[i].locked = d,
               slots'[i].character # Nobody
        PROVE  conns'[d].slot = i /\ conns'[d].at \in {"load", "check", "unlock"}
    <3>1. slots[i].locked = d /\ slots[i].character # Nobody
      BY <1>1, <2>1, Distinct, LockStays
    <3>2. conns[d].at # "idle"
      BY <3>1 DEF SlotInv, LocksKnown, LockKnown
    <3>3. conns'[d] = conns[d]
      BY <3>2, AtWorkStays
    <3> QED BY <1>1, <2>1, <3>3, ConnLockStays
  <2> QED BY <1>1, <1>2, <2>1, ReaderStays, EmptyStays DEF LocksKnown, LockKnown
<1>6. FilersHold'
  <2>1. ASSUME NEW n \in 1..Len(replies') PROVE Loaded(replies[n])'
    <3>1. replies \in Seq(Characters)
      BY DEF VoiceInv, Shaped
    <3>2. replies' = replies \/ (replies # <<>> /\ replies' = Tail(replies))
      BY DEF GameThread, GameStep, Attach, AttachFails, ReleaseSlot, Bury, SendMails, TakeReply,
             JoinNew, JoinRefused, TakeOver, LogOut, LetGo, Die, Delete, OrderMail, rest
    <3>3. \E k \in 1..Len(replies) : replies'[n] = replies[k]
      <4>1. CASE replies' = replies
        BY <2>1, <4>1
      <4>2. CASE replies # <<>> /\ replies' = Tail(replies)
        <5>1. /\ Len(replies') = Len(replies) - 1 /\ Len(replies) \in Nat
              /\ \A k \in 1..(Len(replies) - 1) : replies'[k] = replies[k + 1]
          BY <3>1, <4>2, SMT
        <5>2. n \in 1..(Len(replies) - 1) /\ n + 1 \in 1..Len(replies)
          BY <2>1, <5>1, SMT
        <5> QED BY <5>1, <5>2
      <4> QED BY <3>2, <4>1, <4>2
    <3>4. PICK k \in 1..Len(replies) : replies'[n] = replies[k]
      BY <3>3
    <3>5. PICK i \in Slots : slots'[i].character = replies[k]
      BY <1>1, RepliesStay
    <3> QED BY <3>4, <3>5 DEF Loaded, SlotsOf
  <2> QED BY <1>1, <1>2, <2>1, ReaderStays DEF FilersHold
<1> QED BY <1>3, <1>4, <1>5, <1>6, GameHoldsOn DEF HoldInv, ConnHolds

-----------------------------------------------------------------------------
(* The reader and the writer.                                                *)

LEMMA ReaderFacts ==
    ASSUME VoiceInv, SlotInv
    PROVE  /\ slots \in [Slots -> SlotRecord] /\ Reader \in Threads /\ Reader # Nobody
           /\ reader.at # "idle" => reader.who \in Characters
           /\ reader.at \in {"load", "forget", "look", "unlock"} => reader.slot \in Slots
           /\ reader.at \in {"load", "unlock"} =>
                 /\ slots[reader.slot].locked = Reader
           /\ reader.at \in {"load", "look", "unlock"} /\ slots[reader.slot].locked = Reader =>
                 /\ slots[reader.slot].character = reader.who
                 /\ slots[reader.slot].character # Nobody
           /\ \A i \in Slots : slots[i].locked = Reader /\ slots[i].character # Nobody =>
                 i = reader.slot /\ reader.at \in {"load", "look", "unlock"}
<1>1. /\ slots \in [Slots -> SlotRecord] /\ FilersHold /\ LocksKnown
      /\ reader.at # "idle" => reader.who \in Characters
  BY DEF VoiceInv, Shaped, SlotInv
<1>2. Reader \in Threads
  BY DEF Threads
<1> QED BY <1>1, <1>2, Distinct DEF FilersHold, LocksKnown, LockKnown

\* The reader's place after its step.
ReaderBecomes(at, who, slot) == reader'.at = at /\ reader'.who = who /\ reader'.slot = slot

LEMMA ReaderEffects ==
    ASSUME VoiceInv
    PROVE  /\ ReaderTakesOrder => /\ orders # <<>>
                                  /\ ReaderBecomes("assign", Head(orders), Nobody)
           /\ ReaderFindsNoSlot \/ ReaderForgets \/ ReaderGivesUp \/ ReaderReplies =>
                 ReaderBecomes("idle", Nobody, Nobody)
           /\ ReaderLoadFails => ReaderBecomes("forget", reader.who, reader.slot)
           /\ ReaderLoads => ReaderBecomes("look", reader.who, reader.slot)
           /\ ReaderKeeps => ReaderBecomes("unlock", reader.who, reader.slot)
           /\ ReaderTriesAgain => ReaderBecomes("assign", reader.who, reader.slot)
           /\ \A i, p : reader' = [reader EXCEPT !.slot = i, !.at = p] =>
                 ReaderBecomes(p, reader.who, i)
<1>1. reader \in ReaderRecord
  BY DEF VoiceInv, Shaped
<1>2. ASSUME NEW p, reader' = [reader EXCEPT !.at = p]
      PROVE  ReaderBecomes(p, reader.who, reader.slot)
  BY <1>1, <1>2 DEF ReaderRecord, ReaderBecomes
<1>3. ASSUME NEW i, NEW p, reader' = [reader EXCEPT !.slot = i, !.at = p]
      PROVE  ReaderBecomes(p, reader.who, i)
  BY <1>1, <1>3 DEF ReaderRecord, ReaderBecomes
<1>4. ASSUME ReaderFindsNoSlot \/ ReaderForgets \/ ReaderGivesUp \/ ReaderReplies
      PROVE  ReaderBecomes("idle", Nobody, Nobody)
  <2>1. reader' = Idle
    BY <1>4 DEF ReaderFindsNoSlot, ReaderForgets, ReaderGivesUp, ReaderReplies
  <2> QED BY <2>1 DEF ReaderBecomes, Idle
<1>5. ASSUME ReaderTakesOrder
      PROVE  orders # <<>> /\ ReaderBecomes("assign", Head(orders), Nobody)
  BY <1>5 DEF ReaderTakesOrder, ReaderBecomes, Idle
<1> QED BY <1>2, <1>3, <1>4, <1>5 DEF ReaderLoads, ReaderLoadFails, ReaderKeeps,
           ReaderTriesAgain

LEMMA ReaderCareful ==
    ASSUME VoiceInv, SlotInv, ~misled', ReaderThread
    PROVE  Careful(Reader)
<1> DEFINE s == reader.slot
<1> LocksKnown
  BY DEF SlotInv
<1>1. CASE UNCHANGED slots
  BY <1>1, IdleCareful
<1>2. CASE ReaderAssigns
  <2>1. PICK i \in Slots, fresh \in BOOLEAN : Assign(reader.who, Reader, i, fresh)
    BY <1>2 DEF ReaderAssigns
  <2>2. reader.who \in Characters /\ Reader \in Threads
    BY <1>2, ReaderFacts DEF ReaderAssigns
  <2> QED BY <2>1, <2>2, AssignCareful
<1>3. CASE ReaderLoads
  <2>1. s \in Slots /\ slots[s].character # Nobody /\ Load(s, reader.who)
    BY <1>3, ReaderFacts DEF ReaderLoads
  <2> QED BY <2>1, ReaderFacts, LoadBecomes, SameCareful
<1>4. CASE ReaderKeeps \/ ReaderReplies
  <2>1. /\ s \in Slots /\ slots[s].character # Nobody
        /\ Stick(s) \/ (Release(s, Reader) /\ slots[s].locked = Reader)
    BY <1>4, ReaderFacts DEF ReaderKeeps, ReaderReplies
  <2> HIDE DEF s
  <2> QED BY <2>1, ReaderFacts, StickBecomes, SameCareful
<1>5. CASE ReaderLoadFails \/ ReaderForgets
  <2>1. /\ s \in Slots
        /\ (FailToLoad(s) /\ slots[s].locked = Reader) \/ Forget(s)
    BY <1>5, ReaderFacts DEF ReaderLoadFails, ReaderForgets
  <2> HIDE DEF s
  <2>2. slots \in [Slots -> SlotRecord]
    BY ReaderFacts
  <2>3. CASE FailToLoad(s) /\ slots[s].locked = Reader
    BY <2>1, <2>2, <2>3, FailureCareful
  <2>4. CASE Forget(s)
    BY <2>1, <2>2, <2>4, FailureCareful
  <2> QED BY <2>1, <2>3, <2>4
<1> QED BY <1>1, <1>2, <1>3, <1>4, <1>5 DEF ReaderThread, ReaderTakesOrder,
           ReaderFindsNoSlot, ReaderGivesUp, ReaderTriesAgain

\* What the reader holds after its own step.
LEMMA ReaderActorHolds ==
    ASSUME VoiceInv, SlotInv, ~misled', ReaderThread
    PROVE  /\ reader'.at \in {"load", "unlock"} => slots'[reader'.slot].locked = Reader
           /\ reader'.at \in {"load", "forget", "look", "unlock"} => reader'.slot \in Slots
           /\ reader'.at \in {"load", "look", "unlock"} /\ slots'[reader'.slot].locked = Reader
                 => slots'[reader'.slot].character = reader'.who
           /\ \A i \in Slots : slots'[i].locked = Reader /\ slots'[i].character # Nobody =>
                 reader'.slot = i /\ reader'.at \in {"load", "look", "unlock"}
<1> DEFINE s == reader.slot
<1>1. CASE ReaderTakesOrder \/ ReaderFindsNoSlot \/ ReaderGivesUp \/ ReaderTriesAgain
  <2>1. UNCHANGED slots /\ reader'.at \in {"assign", "idle"}
    BY <1>1, ReaderEffects DEF ReaderTakesOrder, ReaderFindsNoSlot, ReaderGivesUp,
       ReaderTriesAgain, ReaderBecomes
  <2>2. \A i \in Slots : slots[i].locked = Reader => slots[i].character = Nobody
    BY <1>1, ReaderFacts, Distinct DEF ReaderTakesOrder, ReaderFindsNoSlot, ReaderGivesUp,
       ReaderTriesAgain
  <2> QED BY <2>1, <2>2
<1>2. CASE ReaderAssigns
  <2>1. PICK i \in Slots, fresh \in BOOLEAN :
           /\ Assign(reader.who, Reader, i, fresh)
           /\ reader' = [reader EXCEPT !.slot = i, !.at = IF fresh THEN "load" ELSE "look"]
    BY <1>2 DEF ReaderAssigns
  <2> DEFINE p == IF fresh THEN "load" ELSE "look"
  <2>2. ReaderBecomes(p, reader.who, i)
    <3>1. reader' = [reader EXCEPT !.slot = i, !.at = p]
      BY <2>1
    <3> HIDE DEF p
    <3> QED BY <3>1, ReaderEffects
  <2>3. /\ reader.who \in Characters
        /\ \A j \in Slots : slots[j].locked = Reader => slots[j].character = Nobody
    BY <1>2, ReaderFacts DEF ReaderAssigns
  <2>4. /\ slots'[i].character = reader.who
        /\ fresh => slots'[i].locked = Reader
        /\ \A j \in Slots : j # i => slots'[j] = slots[j]
    BY <2>1, <2>3, ReaderFacts, AssignBecomes DEF Becomes
  <2> QED BY <2>2, <2>3, <2>4 DEF ReaderBecomes
<1>3. CASE ReaderLoads \/ ReaderKeeps
  <2>1. /\ s \in Slots /\ slots[s].character = reader.who /\ slots[s].locked = Reader
        /\ Load(s, reader.who) \/ Stick(s)
    BY <1>3, ReaderFacts DEF ReaderLoads, ReaderKeeps
  <2>2. \E n : Becomes(s, slots[s].character, slots[s].locked, n)
    BY <2>1, ReaderFacts, LoadBecomes, StickBecomes
  <2>3. reader'.at \in {"look", "unlock"} /\ reader'.who = reader.who /\ reader'.slot = s
    BY <1>3, ReaderEffects DEF ReaderBecomes
  <2> HIDE DEF s
  <2>4. \A j \in Slots : /\ slots'[j].locked = slots[j].locked
                         /\ slots'[j].character = slots[j].character
    BY <2>2 DEF Becomes
  <2> QED BY <2>1, <2>3, <2>4, ReaderFacts DEF s
<1>4. CASE ReaderReplies
  <2>1. s \in Slots /\ Release(s, Reader) /\ slots[s].locked = Reader
    BY <1>4, ReaderFacts DEF ReaderReplies
  <2>2. Becomes(s, slots[s].character, Nobody, slots[s].sticky)
    BY <2>1, ReaderFacts, StickBecomes
  <2>3. \A j \in Slots : slots'[j].locked = Reader => slots'[j].character = Nobody
    <3>1. reader.at = "unlock"
      BY <1>4 DEF ReaderReplies
    <3>2. \A j \in Slots : slots[j].locked = Reader /\ slots[j].character # Nobody => j = s
      BY ReaderFacts
    <3> HIDE DEF s
    <3> QED BY <2>2, <3>2, ReaderFacts DEF Becomes
  <2>4. reader'.at = "idle"
    BY <1>4, ReaderEffects DEF ReaderBecomes
  <2> QED BY <2>3, <2>4
<1>5. CASE ReaderLoadFails
  <2>1. /\ s \in Slots /\ FailToLoad(s) /\ reader.at = "load"
        /\ \A j \in Slots : slots[j].locked = Reader /\ slots[j].character # Nobody => j = s
    BY <1>5, ReaderFacts DEF ReaderLoadFails
  <2>2. Becomes(s, Nobody, slots[s].locked, 0)
    BY <2>1, ReaderFacts, FailureBecomes
  <2>3. reader'.at = "forget" /\ reader'.slot = s
    BY <1>5, ReaderEffects DEF ReaderBecomes
  <2> HIDE DEF s
  <2>4. \A j \in Slots : slots'[j].locked = Reader => slots'[j].character = Nobody
    BY <2>1, <2>2 DEF Becomes
  <2> QED BY <2>1, <2>3, <2>4
<1>6. CASE ReaderForgets
  <2>1. /\ s \in Slots /\ Forget(s)
        /\ \A j \in Slots : slots[j].locked = Reader => slots[j].character = Nobody
    BY <1>6, ReaderFacts DEF ReaderForgets
  <2>2. Becomes(s, slots[s].character, Nobody, slots[s].sticky)
    BY <2>1, ReaderFacts, FailureBecomes
  <2>3. reader'.at = "idle"
    BY <1>6, ReaderEffects DEF ReaderBecomes
  <2> HIDE DEF s
  <2>4. \A j \in Slots : slots'[j].locked = Reader => slots'[j].character = Nobody
    BY <2>1, <2>2, Distinct DEF Becomes
  <2> QED BY <2>3, <2>4
<1> QED BY <1>1, <1>2, <1>3, <1>4, <1>5, <1>6 DEF ReaderThread

LEMMA ReaderThreadHolds ==
    ASSUME VoiceInv, SlotInv, ~misled', ReaderThread
    PROVE  HoldInv'
<1>1. Careful(Reader) /\ Reader # Game /\ Reader # Writer /\ \A d \in Conns : d # Reader
  BY ReaderCareful, Distinct
<1>2. UNCHANGED <<conns, players, game, writer>>
  BY DEF ReaderThread, ReaderTakesOrder, ReaderAssigns, ReaderFindsNoSlot, ReaderLoads,
         ReaderLoadFails, ReaderForgets, ReaderGivesUp, ReaderKeeps, ReaderTriesAgain,
         ReaderReplies, unread
<1>3. Unique' /\ GameHolds'
  BY <1>1, <1>2, UniqueStays, GameStays DEF SlotInv
<1>4. ConnHolds'
  BY <1>1, <1>2, ConnStays DEF ConnHolds
<1>5. LocksKnown'
  <2>1. ASSUME NEW i \in Slots, NEW d \in Conns, slots'[i].locked = d,
               slots'[i].character # Nobody
        PROVE  conns'[d].slot = i /\ conns'[d].at \in {"load", "check", "unlock"}
    BY <1>1, <1>2, <2>1, ConnLockStays
  <2> QED BY <1>1, <2>1, ReaderActorHolds, EmptyStays DEF LocksKnown, LockKnown
<1>6. FilersHold'
  <2>1. ASSUME NEW n \in 1..Len(replies') PROVE Loaded(replies[n])'
    <3>1. replies \in Seq(Characters)
      BY DEF VoiceInv, Shaped
    <3>2. CASE replies' = replies
      BY <1>1, <2>1, <3>2, RepliesStay DEF Loaded, SlotsOf
    <3>3. CASE ReaderReplies
      <4>1. /\ reader.who \in Characters /\ replies' = Append(replies, reader.who)
            /\ reader.slot \in Slots /\ slots[reader.slot].character = reader.who
            /\ Becomes(reader.slot, slots[reader.slot].character, Nobody,
                       slots[reader.slot].sticky)
        BY <3>3, ReaderFacts, StickBecomes DEF ReaderReplies
      <4>2. \/ replies'[n] = reader.who
            \/ n \in 1..Len(replies) /\ replies'[n] = replies[n]
        BY <2>1, <3>1, <4>1, SMT
      <4>3. slots'[reader.slot].character = reader.who
        BY <4>1 DEF Becomes
      <4> QED BY <1>1, <4>1, <4>2, <4>3, RepliesStay DEF Loaded, SlotsOf
    <3> QED BY <3>2, <3>3 DEF ReaderThread, ReaderTakesOrder, ReaderAssigns, ReaderFindsNoSlot,
               ReaderLoads, ReaderLoadFails, ReaderForgets, ReaderGivesUp, ReaderKeeps,
               ReaderTriesAgain, unread
  <2> QED BY <1>1, <1>2, <2>1, ReaderActorHolds DEF FilersHold
<1> QED BY <1>3, <1>4, <1>5, <1>6 DEF HoldInv


LEMMA WriterFacts ==
    ASSUME VoiceInv, SlotInv
    PROVE  /\ slots \in [Slots -> SlotRecord] /\ LocksKnown /\ writer \in WriterRecord
           /\ writer.at # "idle" => writer.slot \in Slots
  BY DEF VoiceInv, Shaped, SlotInv

\* What the writer does to the pool.
LEMMA WriterSlots ==
    ASSUME VoiceInv, SlotInv, WriterThread
    PROVE  \/ UNCHANGED slots
           \/ /\ writer.slot \in Slots /\ slots[writer.slot].locked = Nobody
              /\ Becomes(writer.slot, slots[writer.slot].character, Writer,
                         slots[writer.slot].sticky)
           \/ /\ writer.slot \in Slots /\ slots[writer.slot].locked = Writer
              /\ Becomes(writer.slot, slots[writer.slot].character, Nobody,
                         slots[writer.slot].sticky)
<1> DEFINE i == writer.slot
<1>1. CASE \E j \in Slots : WriterPicks(j)
  BY <1>1 DEF WriterPicks
<1>2. CASE WriterAttaches
  <2>1. i \in Slots
    BY <1>2, WriterFacts DEF WriterAttaches
  <2>2. CASE slots[i].locked = Nobody
    <3>1. slots' = [slots EXCEPT ![i].locked = Writer]
      BY <1>2, <2>2 DEF WriterAttaches
    <3> HIDE DEF i
    <3>2. Becomes(i, slots[i].character, Writer, slots[i].sticky)
      BY <2>1, <3>1, WriterFacts, LockBecomes
    <3> QED BY <2>1, <2>2, <3>2 DEF i
  <2>3. CASE slots[i].locked # Nobody
    BY <1>2, <2>3 DEF WriterAttaches
  <2> QED BY <2>2, <2>3
<1>3. CASE WriterSaves /\ slots[i].locked = Writer
  <2> DEFINE r == [slots[i] EXCEPT !.dirty = FALSE, !.locked = Nobody]
  <2>1. /\ i \in Slots /\ slots \in [Slots -> SlotRecord]
        /\ slots' = [slots EXCEPT ![i] = r] /\ slots[i] \in SlotRecord
    BY <1>3, WriterFacts DEF WriterSaves
  <2> HIDE DEF i
  <2>2. /\ r.character = slots[i].character /\ r.locked = Nobody
        /\ r.sticky = slots[i].sticky
    BY <2>1 DEF SlotRecord
  <2> HIDE DEF r
  <2>3. Becomes(i, r.character, r.locked, r.sticky)
    BY <2>1, SlotBecomes
  <2> QED BY <1>3, <2>1, <2>2, <2>3 DEF i
<1>4. CASE WriterSaves /\ slots[i].locked # Writer
  BY <1>4 DEF WriterSaves
<1> QED BY <1>1, <1>2, <1>3, <1>4 DEF WriterThread

LEMMA WriterCareful ==
    ASSUME VoiceInv, SlotInv, WriterThread
    PROVE  Careful(Writer)
<1> DEFINE i == writer.slot
<1>1. CASE UNCHANGED slots
  BY <1>1, WriterFacts, IdleCareful
<1>2. CASE ~UNCHANGED slots
  <2>1. PICK l \in {Writer, Nobody} :
           /\ i \in Slots /\ Becomes(i, slots[i].character, l, slots[i].sticky)
           /\ \/ slots[i].locked = Nobody /\ l = Writer
              \/ slots[i].locked = Writer /\ l = Nobody
    BY <1>2, WriterSlots
  <2> HIDE DEF i
  <2>2. CASE slots[i].character = Nobody
    <3>1. slots[i].sticky = 0
      BY <2>1, <2>2, WriterFacts DEF LocksKnown, LockKnown
    <3>2. Becomes(i, Nobody, l, 0)
      BY <2>1, <2>2, <3>1
    <3> QED BY <2>1, <2>2, <3>2, WriterFacts, LosesCareful
  <2>3. CASE slots[i].character # Nobody
    BY <2>1, <2>3, WriterFacts, SameCareful
  <2> QED BY <2>2, <2>3
<1> QED BY <1>1, <1>2

LEMMA WriterThreadHolds ==
    ASSUME VoiceInv, SlotInv, WriterThread
    PROVE  HoldInv'
<1>1. Careful(Writer) /\ Game # Writer /\ Reader # Writer /\ \A d \in Conns : d # Writer
  BY WriterCareful, Distinct
<1>2. UNCHANGED <<conns, players, game, reader, replies>>
  BY DEF WriterThread, WriterPicks, WriterAttaches, WriterSaves, unwritten
<1>3. Unique' /\ GameHolds'
  BY <1>1, <1>2, UniqueStays, GameStays DEF SlotInv
<1>4. ConnHolds'
  BY <1>1, <1>2, ConnStays DEF ConnHolds
<1>5. LocksKnown'
  <2>1. ASSUME NEW i \in Slots, NEW d \in Conns, slots'[i].locked = d,
               slots'[i].character # Nobody
        PROVE  conns'[d].slot = i /\ conns'[d].at \in {"load", "check", "unlock"}
    BY <1>1, <1>2, <2>1, ConnLockStays
  <2> QED BY <1>1, <1>2, <2>1, ReaderStays, EmptyStays DEF LocksKnown, LockKnown
<1>6. FilersHold'
  <2>1. ASSUME NEW n \in 1..Len(replies') PROVE Loaded(replies[n])'
    BY <1>1, <1>2, <2>1, RepliesStay DEF Loaded, SlotsOf
  <2> QED BY <1>1, <1>2, <2>1, ReaderStays DEF FilersHold
<1> QED BY <1>3, <1>4, <1>5, <1>6 DEF HoldInv

-----------------------------------------------------------------------------
(* Counting those who need a slot.                                           *)

LEMMA FewerNeed ==
    ASSUME NEW S, NEW T, IsFiniteSet(S), T \subseteq S
    PROVE  /\ Cardinality(S) \in Nat /\ Cardinality(T) \in Nat
           /\ Cardinality(T) <= Cardinality(S)
  BY FS_Subset, FS_CardinalityType

LEMMA OneMoreNeeds ==
    ASSUME NEW S, NEW T, NEW x, IsFiniteSet(S), T \subseteq S \cup {x}
    PROVE  /\ Cardinality(S) \in Nat /\ Cardinality(T) \in Nat
           /\ Cardinality(T) <= Cardinality(S) + 1
<1>1. /\ IsFiniteSet(S \cup {x}) /\ Cardinality(S) \in Nat
      /\ Cardinality(S \cup {x}) = IF x \in S THEN Cardinality(S) ELSE Cardinality(S) + 1
  BY FS_AddElement, FS_CardinalityType
<1>2. Cardinality(T) \in Nat /\ Cardinality(T) <= Cardinality(S \cup {x})
  BY <1>1, FewerNeed
<1> QED BY <1>1, <1>2

LEMMA OneLessNeeds ==
    ASSUME NEW S, NEW T, NEW x \in S, IsFiniteSet(S), T \subseteq S \ {x}
    PROVE  /\ Cardinality(S) \in Nat /\ Cardinality(T) \in Nat
           /\ Cardinality(T) <= Cardinality(S) - 1
<1>1. /\ IsFiniteSet(S \ {x}) /\ Cardinality(S) \in Nat
      /\ Cardinality(S \ {x}) = Cardinality(S) - 1
  BY FS_RemoveElement, FS_CardinalityType
<1>2. Cardinality(T) \in Nat /\ Cardinality(T) <= Cardinality(S \ {x})
  BY <1>1, FewerNeed
<1> QED BY <1>1, <1>2

\* The reader and the game thread count for one each.
ReaderNeeds(i) == IF reader.at = "unlock" /\ reader.slot = i THEN 1 ELSE 0
MailNeeds(i) == IF game.at = "mail" /\ game.slot = i THEN 1 ELSE 0

\* If those who need a slot change by no more than Sticky, it stays enough.
LEMMA Balance ==
    ASSUME VoiceInv, SlotInv, NEW i \in Slots, slots[i].character # Nobody,
           NEW l \in Int, NEW p \in Int, NEW m \in Int, NEW r \in Int, NEW g \in Int,
           Cardinality(LoginsFor(i)') \in Nat,
           Cardinality(LoginsFor(i)') <= Cardinality(LoginsFor(i)) + l,
           Cardinality(PlayersIn(i)') \in Nat,
           Cardinality(PlayersIn(i)') <= Cardinality(PlayersIn(i)) + p,
           Cardinality(MailFor(i)') \in Nat,
           Cardinality(MailFor(i)') <= Cardinality(MailFor(i)) + m,
           ReaderNeeds(i)' <= ReaderNeeds(i) + r,
           MailNeeds(i)' <= MailNeeds(i) + g,
           slots'[i].sticky \in Int,
           slots'[i].sticky >= slots[i].sticky + l + p + m + r + g
    PROVE  slots'[i].sticky >= Holders(i)'
<1> DEFINE L == Cardinality(LoginsFor(i))
           P == Cardinality(PlayersIn(i))
           M == Cardinality(MailFor(i))
           R == ReaderNeeds(i)
           G == MailNeeds(i)
           s == slots[i].sticky
<1>1. /\ L \in Nat /\ P \in Nat /\ M \in Nat /\ s \in Int /\ s >= Holders(i)
  BY HoldersFinite
<1>2. Holders(i) = L + P + M + R + G /\ Holders(i)' = L' + P' + M' + R' + G'
  BY DEF Holders, ReaderNeeds, MailNeeds
<1>3. R \in Int /\ G \in Int /\ R' \in Int /\ G' \in Int
  BY DEF ReaderNeeds, MailNeeds
<1>4. /\ L' \in Nat /\ P' \in Nat /\ M' \in Nat /\ s' \in Int
      /\ L' <= L + l /\ P' <= P + p /\ M' <= M + m /\ R' <= R + r /\ G' <= G + g
      /\ s' >= s + l + p + m + r + g
  OBVIOUS
<1> HIDE DEF L, P, M, R, G, s
<1>5. s >= L + P + M + R + G
  BY <1>1, <1>2
<1>6. /\ L \in Int /\ P \in Int /\ M \in Int /\ L' \in Int /\ P' \in Int /\ M' \in Int
      /\ R \in Int /\ G \in Int /\ R' \in Int /\ G' \in Int /\ s \in Int /\ s' \in Int
  BY <1>1, <1>3, <1>4
<1>7. PICK a, b, c, d, e, n, a1, b1, c1, d1, e1, n1 \in Int :
         /\ a = L /\ b = P /\ c = M /\ d = R /\ e = G /\ n = s
         /\ a1 = L' /\ b1 = P' /\ c1 = M' /\ d1 = R' /\ e1 = G' /\ n1 = s'
  BY <1>6
<1>8. /\ a1 <= a + l /\ b1 <= b + p /\ c1 <= c + m /\ d1 <= d + r /\ e1 <= e + g
      /\ n >= a + b + c + d + e /\ n1 >= n + l + p + m + r + g
  BY ONLY <1>4, <1>5, <1>7
<1>9. n1 >= a1 + b1 + c1 + d1 + e1
  BY ONLY <1>8, l \in Int, p \in Int, m \in Int, r \in Int, g \in Int, SMT
<1> QED BY <1>2, <1>7, <1>9 DEF s

\* A connection that is left alone needs no other slot than before.
LEMMA OthersNeed ==
    ASSUME NEW t, Careful(t), NEW i \in Slots, slots'[i].character = slots[i].character,
           slots[i].character # Nobody,
           NEW d \in Conns, d # t, conns'[d] = conns[d], d \in LoginsFor(i)'
    PROVE  d \in LoginsFor(i)
<1>1. ASSUME conns[d].slot = i, slots'[i].locked # d PROVE slots[i].locked # d
  BY <1>1, Distinct, LockStays
<1> QED BY <1>1 DEF LoginsFor, At, Own

\* Who took a slot for a character that had none: its own thread, which now
\* loads the data.
Took(t) ==
    /\ t \in Conns => conns'[t].at = "load" /\ conns'[t].state = "CONNECTED"
    /\ \A d \in Conns : d # t => conns'[d] = conns[d]
    /\ t = Reader => reader'.at = "load"
    /\ t # Reader => UNCHANGED reader
    /\ UNCHANGED <<players, game, replies>>

\* Nobody needs a slot that has just been given to a character.
LEMMA FreshUnneeded ==
    ASSUME VoiceInv, SlotInv, NEW t, t # Game, Careful(t), Took(t), NEW i \in Slots,
           slots'[i].character # slots[i].character, slots'[i].character # Nobody
    PROVE  slots'[i].sticky >= Holders(i)'
<1> DEFINE ch == slots'[i].character
<1>1. /\ ch \in Characters /\ slots'[i].locked = t /\ slots'[i].sticky = 0
      /\ \A j \in Slots : slots[j].character # ch
      /\ ~Firm(i, t)
  BY FirmStays DEF Careful, CarefulAt, Stays, IsEmpty, IsTaken, IsLost
<1>2. LoginsFor(i)' = {}
  <2> SUFFICES ASSUME NEW d \in Conns, d \in LoginsFor(i)' PROVE FALSE
    BY DEF LoginsFor
  <2>1. d # t
    BY DEF Took, LoginsFor, At
  <2>2. conns'[d] = conns[d]
    BY <2>1 DEF Took
  <2>3. \/ conns[d].slot = i /\ conns[d].at \in {"unlock", "call", "check"}
        \/ conns[d].state = "LOGIN" /\ conns[d].character = ch
    BY <2>2 DEF LoginsFor, At
  <2>4. conns[d].state = "LOGIN" => conns[d].character = conns[d].who
    BY DEF SlotInv, ConnHolds, ConnHold
  <2>5. CASE conns[d].slot = i /\ conns[d].at \in {"unlock", "call", "check"}
    BY <1>1, <2>1, <2>5, LoginIsFirm
  <2>6. CASE conns[d].state = "LOGIN" /\ conns[d].character = ch
    <3>1. \E j \in Slots : slots[j].character = conns[d].who
      BY <2>1, <2>6, LoginIsFirm
    <3> QED BY <1>1, <2>4, <2>6, <3>1
  <2> QED BY <2>3, <2>5, <2>6
<1>3. PlayersIn(i)' = {}
  <2> SUFFICES ASSUME NEW h \in Characters, h \in PlayersIn(i)' PROVE FALSE
    BY DEF PlayersIn, InWorld
  <2>1. players[h].there /\ players[h].slot = i /\ ~Leaving(h)
    BY DEF PlayersIn, InWorld, Leaving, Took
  <2> QED BY <1>1, <2>1, PlayFacts, Distinct DEF Firm
<1>4. MailFor(i)' = {}
  <2> SUFFICES ASSUME NEW n \in 1..Len(replies), replies[n] = ch PROVE FALSE
    BY DEF MailFor, Took
  <2> QED BY <1>1, ReplyIsFirm
<1>5. ReaderNeeds(i)' = 0
  <2> SUFFICES ASSUME reader'.at = "unlock", reader'.slot = i PROVE FALSE
    BY DEF ReaderNeeds
  <2>1. UNCHANGED reader
    BY DEF Took
  <2>2. slots[i].locked = Reader /\ t # Reader
    BY <2>1 DEF SlotInv, FilersHold, Took
  <2>3. slots[i].character # Nobody
    BY <2>1, <2>2, ReaderFacts
  <2> QED BY <1>1, <2>2, <2>3, Distinct DEF Firm
<1>6. MailNeeds(i)' = 0
  <2> SUFFICES ASSUME game.at = "mail", game.slot = i PROVE FALSE
    BY DEF MailNeeds, Took
  <2>1. slots[i].locked = Game /\ slots[i].character # Nobody
    BY Distinct DEF SlotInv, GameHolds, GameHold
  <2> QED BY <1>1, <2>1, Distinct DEF Firm
<1>7. Holders(i)' = Cardinality({}) + Cardinality({}) + Cardinality({}) + 0 + 0
  BY <1>2, <1>3, <1>4, <1>5, <1>6 DEF Holders, ReaderNeeds, MailNeeds
<1>8. Cardinality({}) = 0
  BY FS_EmptySet
<1> QED BY <1>1, <1>7, <1>8

\* What a step does to the count of the slot and to those who need it, when it
\* moves one connection only.
Pays(c, i) ==
    \/ slots'[i].sticky >= slots[i].sticky /\ (c \in LoginsFor(i)' => c \in LoginsFor(i))
    \/ slots'[i].sticky >= slots[i].sticky + 1
    \/ /\ slots'[i].sticky >= slots[i].sticky - 1
       /\ c \in LoginsFor(i) /\ c \notin LoginsFor(i)'

LEMMA PaidIsEnough ==
    ASSUME VoiceInv, SlotInv, NEW c \in Conns, Careful(c), NEW i \in Slots,
           slots[i].character # Nobody, slots'[i].character = slots[i].character,
           slots'[i].sticky \in Int, Pays(c, i),
           \A d \in Conns : d # c => conns'[d] = conns[d],
           UNCHANGED <<players, game, reader, replies>>
    PROVE  slots'[i].sticky >= Holders(i)'
<1>1. /\ IsFiniteSet(LoginsFor(i)) /\ IsFiniteSet(PlayersIn(i)) /\ IsFiniteSet(MailFor(i))
      /\ slots[i].sticky \in Int
  BY HoldersFinite
<1>2. LoginsFor(i)' \ {c} \subseteq LoginsFor(i)
  <2>1. LoginsFor(i)' \subseteq Conns
    BY DEF LoginsFor
  <2> QED BY <2>1, OthersNeed
<1>3. PlayersIn(i)' = PlayersIn(i) /\ MailFor(i)' = MailFor(i)
  BY DEF PlayersIn, InWorld, Leaving, MailFor
<1>4. /\ Cardinality(PlayersIn(i)') \in Nat
      /\ Cardinality(PlayersIn(i)') <= Cardinality(PlayersIn(i)) + 0
      /\ Cardinality(MailFor(i)') \in Nat
      /\ Cardinality(MailFor(i)') <= Cardinality(MailFor(i)) + 0
  <2>1. Cardinality(PlayersIn(i)) \in Nat /\ Cardinality(MailFor(i)) \in Nat
    BY <1>1, FS_CardinalityType
  <2> QED BY <1>3, <2>1
<1>5. ReaderNeeds(i)' <= ReaderNeeds(i) + 0 /\ MailNeeds(i)' <= MailNeeds(i) + 0
  BY DEF ReaderNeeds, MailNeeds
<1>6. ASSUME NEW l \in Int, slots'[i].sticky >= slots[i].sticky + l,
             Cardinality(LoginsFor(i)') \in Nat,
             Cardinality(LoginsFor(i)') <= Cardinality(LoginsFor(i)) + l
      PROVE  slots'[i].sticky >= Holders(i)'
  <2>1. slots'[i].sticky >= slots[i].sticky + l + 0 + 0 + 0 + 0
    BY <1>1, <1>6
  <2> QED BY <1>4, <1>5, <1>6, <2>1, Balance
<1>7. CASE slots'[i].sticky >= slots[i].sticky /\ (c \in LoginsFor(i)' => c \in LoginsFor(i))
  <2>1. LoginsFor(i)' \subseteq LoginsFor(i)
    BY <1>2, <1>7
  <2>2. /\ Cardinality(LoginsFor(i)') \in Nat
        /\ Cardinality(LoginsFor(i)') <= Cardinality(LoginsFor(i)) + 0
    BY <1>1, <2>1, FewerNeed
  <2>3. slots'[i].sticky >= slots[i].sticky + 0
    BY <1>1, <1>7
  <2> QED BY <1>6, <2>2, <2>3
<1>8. CASE slots'[i].sticky >= slots[i].sticky + 1
  <2>1. LoginsFor(i)' \subseteq LoginsFor(i) \cup {c}
    BY <1>2
  <2> DEFINE S == LoginsFor(i)
             T == LoginsFor(i)'
  <2>2. IsFiniteSet(S) /\ T \subseteq S \cup {c}
    BY <1>1, <2>1
  <2> HIDE DEF S, T
  <2>3. Cardinality(T) \in Nat /\ Cardinality(T) <= Cardinality(S) + 1
    BY <2>2, OneMoreNeeds
  <2> QED BY <1>6, <1>8, <2>3 DEF S, T
<1>9. CASE /\ slots'[i].sticky >= slots[i].sticky - 1
           /\ c \in LoginsFor(i) /\ c \notin LoginsFor(i)'
  <2>1. LoginsFor(i)' \subseteq LoginsFor(i) \ {c}
    BY <1>2, <1>9
  <2>2. PICK l \in Int : l = 0 - 1
    OBVIOUS
  <2>3. /\ Cardinality(LoginsFor(i)') \in Nat /\ Cardinality(LoginsFor(i)) \in Nat
        /\ Cardinality(LoginsFor(i)') <= Cardinality(LoginsFor(i)) - 1
    BY <1>1, <1>9, <2>1, OneLessNeeds
  <2>4. Cardinality(LoginsFor(i)') <= Cardinality(LoginsFor(i)) + l
    BY <2>2, <2>3
  <2>5. slots'[i].sticky >= slots[i].sticky + l
    BY <1>1, <1>9, <2>2
  <2> QED BY <1>6, <2>3, <2>4, <2>5
<1> QED BY <1>7, <1>8, <1>9 DEF Pays

LEMMA CommPays ==
    ASSUME VoiceInv, SlotInv, Unique', ~misled', NEW c \in Conns, CommunicationThread(c),
           NEW i \in Slots, slots[i].character # Nobody,
           slots'[i].character = slots[i].character
    PROVE  Pays(c, i)
<1> DEFINE s == conns[c].slot
           ch == conns[c].who
           n == slots[i].sticky
<1>1. slots \in [Slots -> SlotRecord] /\ c \in Threads /\ n \in Int
  BY LoginFacts, SlotFields
\* A connection that has no slot and no login needs none.
<1>2. ASSUME NEW state, NEW at, NEW who, NEW slot, ConnBecomes(c, state, at, who, slot),
             state # "LOGIN", at \notin {"check", "unlock", "call"} \/ slot # i
      PROVE  c \notin LoginsFor(i)'
  BY <1>2 DEF ConnBecomes, LoginsFor, At
<1>3. ASSUME c \notin LoginsFor(i)', slots'[i].sticky >= n PROVE Pays(c, i)
  BY <1>3 DEF Pays
<1>4. CASE Register(c) \/ FindNoSlot(c) \/ FreeConnection(c)
  <2>1. UNCHANGED slots
    BY <1>4 DEF Register, FindNoSlot, FreeConnection
  <2>2. c \notin LoginsFor(i)'
    BY <1>2, <1>4, ConnEffects
  <2>3. slots'[i].sticky >= n
    BY <1>1, <2>1
  <2> QED BY <1>3, <2>2, <2>3
<1>5. CASE AssignSlot(c)
  <2>1. PICK j \in Slots, fresh \in BOOLEAN :
           /\ Assign(ch, c, j, fresh)
           /\ conns' = [conns EXCEPT ![c].slot = j, ![c].at = IF fresh THEN "load" ELSE "check"]
    BY <1>5 DEF AssignSlot
  <2> DEFINE p == IF fresh THEN "load" ELSE "check"
  <2>2. ConnBecomes(c, conns[c].state, p, ch, j)
    <3> HIDE DEF p
    <3> QED BY <2>1, AssignEffect DEF p
  <2>3. ch \in Characters /\ ch # Nobody /\ conns[c].state = "CONNECTED"
    BY <1>5, LoginFacts, Distinct DEF AssignSlot, At
  <2>4. \/ /\ ~fresh /\ slots[j].character = ch /\ slots[j].locked = Nobody
           /\ Becomes(j, ch, c, slots[j].sticky)
        \/ /\ ~fresh /\ slots[j].character = ch /\ slots[j].locked # Nobody
           /\ Becomes(j, ch, slots[j].locked, slots[j].sticky + 1)
        \/ /\ fresh /\ ~Loaded(ch) /\ Becomes(j, ch, c, 0)
    BY <1>1, <2>1, <2>3, AssignBecomes
  <2>5. CASE i # j
    <3>1. slots'[i] = slots[i]
      BY <2>4, <2>5 DEF Becomes
    <3>2. c \notin LoginsFor(i)'
      BY <1>2, <2>2, <2>3, <2>5
    <3>3. slots'[i].sticky >= n
      BY <1>1, <3>1
    <3> QED BY <1>3, <3>2, <3>3
  <2>6. CASE i = j
    <3>1. CASE ~fresh /\ Becomes(j, ch, slots[j].locked, slots[j].sticky + 1)
      <4>1. slots'[i].sticky = n + 1
        BY <2>6, <3>1 DEF Becomes
      <4> QED BY <1>1, <4>1 DEF Pays
    <3>2. CASE ~fresh /\ Becomes(j, ch, c, slots[j].sticky)
      <4>1. slots'[i].sticky = n /\ slots'[i].locked = c
        BY <2>6, <3>2 DEF Becomes
      <4>2. c \notin LoginsFor(i)'
        BY <2>2, <2>3, <2>6, <3>2, <4>1 DEF ConnBecomes, LoginsFor, At, Own
      <4> QED BY <1>1, <1>3, <4>1, <4>2
    <3>3. CASE fresh /\ ~Loaded(ch) /\ Becomes(j, ch, c, 0)
      <4>1. slots'[i].character = ch
        BY <2>6, <3>3 DEF Becomes
      <4> QED BY <3>3, <4>1 DEF Loaded, SlotsOf
    <3> QED BY <2>4, <3>1, <3>2, <3>3
  <2> QED BY <2>5, <2>6
<1>6. CASE LoadSlot(c)
  <2>1. /\ s \in Slots /\ Load(s, ch) /\ slots[s].locked = c /\ conns[c].state = "CONNECTED"
    BY <1>6, LoginFacts DEF LoadSlot, At
  <2>2. Becomes(s, slots[s].character, c, slots[s].sticky)
    BY <1>1, <2>1, LoadBecomes
  <2>3. ConnBecomes(c, conns[c].state, "check", ch, s)
    BY <1>6, ConnEffects
  <2> HIDE DEF s
  <2>4. slots'[i].sticky = n /\ (i = s => slots'[i].locked = c)
    BY <2>2 DEF Becomes
  <2>5. c \notin LoginsFor(i)'
    BY <2>1, <2>3, <2>4 DEF ConnBecomes, LoginsFor, At, Own
  <2> QED BY <1>1, <1>3, <2>4, <2>5
<1>7. CASE BlockLogin(c)
  <2>1. /\ s \in Slots /\ conns[c].at = "check" /\ (IF Own(c) THEN Release(s, c) ELSE Unstick(s))
    BY <1>7, LoginFacts DEF BlockLogin, At
  <2>2. c \notin LoginsFor(i)'
    BY <1>2, <1>7, ConnEffects
  <2>3. CASE Own(c)
    <3>1. Becomes(s, slots[s].character, Nobody, slots[s].sticky)
      BY <1>1, <2>1, <2>3, StickBecomes DEF Own
    <3> HIDE DEF s
    <3>2. slots'[i].sticky = n
      BY <3>1 DEF Becomes
    <3> QED BY <1>1, <1>3, <2>2, <3>2
  <2>4. CASE ~Own(c)
    <3>1. Becomes(s, slots[s].character, slots[s].locked, slots[s].sticky - 1)
      BY <1>1, <2>1, <2>4, StickBecomes
    <3>2. CASE i = s
      <4>1. c \in LoginsFor(i)
        BY <2>1, <2>4, <3>2 DEF LoginsFor, At
      <4>2. slots'[i].sticky = n - 1
        BY <3>1, <3>2 DEF Becomes
      <4> QED BY <1>1, <2>2, <4>1, <4>2 DEF Pays
    <3>3. CASE i # s
      <4> HIDE DEF s
      <4>1. slots'[i].sticky = n
        BY <3>1, <3>3 DEF Becomes
      <4> QED BY <1>1, <1>3, <2>2, <4>1
    <3> QED BY <3>2, <3>3
  <2> QED BY <2>3, <2>4
<1>8. CASE KeepSlot(c)
  <2>1. s \in Slots /\ Stick(s) /\ conns[c].state = "CONNECTED"
    BY <1>8, LoginFacts DEF KeepSlot, At
  <2>2. Becomes(s, slots[s].character, slots[s].locked, slots[s].sticky + 1)
    BY <1>1, <2>1, StickBecomes
  <2>3. ConnBecomes(c, conns[c].state, "unlock", ch, s)
    BY <1>8, ConnEffects
  <2> HIDE DEF s
  <2>4. CASE i = s
    <3>1. slots'[i].sticky = n + 1
      BY <2>2, <2>4 DEF Becomes
    <3> QED BY <1>1, <3>1 DEF Pays
  <2>5. CASE i # s
    <3>1. slots'[i].sticky = n /\ c \notin LoginsFor(i)'
      BY <1>2, <2>1, <2>2, <2>3, <2>5 DEF Becomes
    <3> QED BY <1>1, <1>3, <3>1
  <2> QED BY <2>4, <2>5
<1>9. CASE UnlockSlot(c)
  <2>1. /\ s \in Slots /\ Release(s, c) /\ slots[s].locked = c
        /\ conns[c].state = "CONNECTED" /\ conns[c].at = "unlock"
    BY <1>9, LoginFacts DEF UnlockSlot, At
  <2>2. Becomes(s, slots[s].character, Nobody, slots[s].sticky)
    BY <1>1, <2>1, StickBecomes
  <2>3. ConnBecomes(c, conns[c].state, "call", ch, s)
    BY <1>9, ConnEffects
  <2>4. i = s => c \in LoginsFor(i)
    BY <2>1 DEF LoginsFor, At
  <2> HIDE DEF s
  <2>5. i # s => c \notin LoginsFor(i)'
    BY <1>2, <2>1, <2>3
  <2>6. slots'[i].sticky = n
    BY <2>2 DEF Becomes
  <2> QED BY <1>1, <2>4, <2>5, <2>6 DEF Pays
<1>10. CASE CallGameThread(c)
  <2>1. /\ s \in Slots /\ slots[s].character = ch /\ UNCHANGED slots
        /\ conns[c].at = "call" \/ (conns[c].at = "check" /\ ~Own(c))
    BY <1>10, LoginFacts DEF CallGameThread, At
  <2>2. ConnBecomes(c, "LOGIN", "idle", ch, Nobody) /\ conns'[c].character = slots[s].character
    BY <1>10, ConnEffects
  <2>3. i = s => c \in LoginsFor(i)
    BY <2>1 DEF LoginsFor, At
  <2> HIDE DEF s
  <2>4. c \in LoginsFor(i)' => i = s
    <3>1. c \in LoginsFor(i)' => slots[i].character = slots[s].character
      BY <2>1, <2>2 DEF ConnBecomes, LoginsFor, At
    <3> QED BY <2>1, <3>1 DEF SlotInv, Unique
  <2>5. slots'[i].sticky = n
    BY <2>1
  <2> QED BY <1>1, <2>3, <2>4, <2>5 DEF Pays
<1>11. CASE LoadFails(c)
  <2>1. s \in Slots /\ FailToLoad(s) /\ conns[c].state = "CONNECTED"
    BY <1>11, LoginFacts DEF LoadFails, At
  <2>2. Becomes(s, Nobody, slots[s].locked, 0)
    BY <1>1, <2>1, FailureBecomes
  <2>3. ConnBecomes(c, conns[c].state, "forget", ch, s)
    BY <1>11, ConnEffects
  <2>4. c \notin LoginsFor(i)'
    BY <1>2, <2>1, <2>3
  <2> HIDE DEF s
  <2>5. slots'[i].sticky = n
    BY <2>2 DEF Becomes
  <2> QED BY <1>1, <1>3, <2>4, <2>5
<1>12. CASE ForgetSlot(c)
  <2>1. s \in Slots /\ Forget(s)
    BY <1>12, LoginFacts DEF ForgetSlot, At
  <2>2. Becomes(s, slots[s].character, Nobody, slots[s].sticky)
    BY <1>1, <2>1, FailureBecomes
  <2>3. c \notin LoginsFor(i)'
    BY <1>2, <1>12, ConnEffects
  <2> HIDE DEF s
  <2>4. slots'[i].sticky = n
    BY <2>2 DEF Becomes
  <2> QED BY <1>1, <1>3, <2>3, <2>4
<1> QED BY <1>4, <1>5, <1>6, <1>7, <1>8, <1>9, <1>10, <1>11, <1>12 DEF CommunicationThread

\* Only a thread that takes a slot for an absent character gives it another
\* character, and that thread is then at "load".
LEMMA CommTook ==
    ASSUME VoiceInv, SlotInv, ~misled', NEW c \in Conns, CommunicationThread(c),
           NEW i \in Slots, slots'[i].character # slots[i].character,
           slots'[i].character # Nobody
    PROVE  Took(c)
<1> DEFINE s == conns[c].slot
<1>1. slots \in [Slots -> SlotRecord] /\ c \in Threads /\ c # Reader
  BY LoginFacts, Distinct
<1>2. AssignSlot(c)
  <2>1. CASE LoadSlot(c) \/ BlockLogin(c) \/ KeepSlot(c) \/ UnlockSlot(c)
    <3>1. /\ s \in Slots
          /\ \/ Load(s, conns[c].who) \/ Stick(s) \/ Unstick(s)
             \/ Release(s, c) /\ slots[s].locked = c
      BY <2>1, LoginFacts DEF LoadSlot, BlockLogin, KeepSlot, UnlockSlot, At, Own
    <3> HIDE DEF s
    <3>2. \E l, n : Becomes(s, slots[s].character, l, n)
      BY <1>1, <3>1, LoadBecomes, StickBecomes
    <3> QED BY <3>2 DEF Becomes
  <2>2. CASE LoadFails(c) \/ ForgetSlot(c)
    <3>1. s \in Slots /\ (FailToLoad(s) \/ Forget(s))
      BY <2>2, LoginFacts DEF LoadFails, ForgetSlot, At
    <3> HIDE DEF s
    <3>2. \E l, n : Becomes(s, Nobody, l, n) \/ Becomes(s, slots[s].character, l, n)
      BY <1>1, <3>1, FailureBecomes
    <3> QED BY <3>2 DEF Becomes
  <2>3. CASE Register(c) \/ FindNoSlot(c) \/ CallGameThread(c) \/ FreeConnection(c)
    <3>1. CASE Register(c) \/ FindNoSlot(c)
      BY <3>1 DEF Register, FindNoSlot
    <3>2. CASE CallGameThread(c) \/ FreeConnection(c)
      BY <3>2 DEF CallGameThread, FreeConnection
    <3> QED BY <2>3, <3>1, <3>2
  <2> QED BY <2>1, <2>2, <2>3 DEF CommunicationThread
<1>3. PICK j \in Slots, fresh \in BOOLEAN :
         /\ Assign(conns[c].who, c, j, fresh)
         /\ conns' = [conns EXCEPT ![c].slot = j, ![c].at = IF fresh THEN "load" ELSE "check"]
  BY <1>2 DEF AssignSlot
<1>4. conns[c].who \in Characters /\ conns[c].state = "CONNECTED"
  BY <1>2, LoginFacts DEF AssignSlot, At
<1>5. fresh = TRUE
  BY <1>1, <1>3, <1>4, AssignBecomes DEF Becomes
<1>6. conns' = [conns EXCEPT ![c].slot = j, ![c].at = "load"]
  BY <1>3, <1>5
<1>7. ConnBecomes(c, "CONNECTED", "load", conns[c].who, j)
  BY <1>4, <1>6, AssignEffect
<1>8. UNCHANGED <<players, game, replies, reader>>
  BY <1>2 DEF AssignSlot, others
<1> QED BY <1>1, <1>7, <1>8 DEF Took, ConnBecomes

LEMMA CommCounts ==
    ASSUME VoiceInv, VoiceInv', SlotInv, HoldInv', ~misled', NEW c \in Conns, CommunicationThread(c)
    PROVE  Counted'
<1> SUFFICES ASSUME NEW i \in Slots, slots'[i].character # Nobody
             PROVE  slots'[i].sticky >= Holders(i)'
  BY DEF Counted
<1>1. Careful(c) /\ c # Game
  BY CommCareful, Distinct
<1>2. slots' \in [Slots -> SlotRecord]
  BY DEF VoiceInv, Shaped
<1>3. slots'[i].sticky \in Int
  <2>1. slots'[i] \in SlotRecord
    BY <1>2
  <2> QED BY <2>1 DEF SlotRecord
<1>4. CASE slots'[i].character # slots[i].character
  BY <1>1, <1>4, CommTook, FreshUnneeded
<1>5. CASE slots'[i].character = slots[i].character
  <2>1. Pays(c, i)
    BY <1>5, CommPays DEF HoldInv
  <2>2. /\ UNCHANGED <<players, game, reader, replies>>
        /\ \A d \in Conns : d # c => conns'[d] = conns[d]
    BY CommKeeps
  <2> QED BY <1>1, <1>3, <1>5, <2>1, <2>2, PaidIsEnough
<1> QED BY <1>4, <1>5

\* Where no connection, player or game thread moves, those of them who need a
\* slot need it as before.
LEMMA FilersBalance ==
    ASSUME VoiceInv, SlotInv, NEW t, Careful(t), \A d \in Conns : d # t, NEW i \in Slots,
           slots[i].character # Nobody, slots'[i].character = slots[i].character,
           slots'[i].sticky \in Int, UNCHANGED <<conns, players, game>>,
           NEW m \in Int, NEW r \in Int,
           Cardinality(MailFor(i)') \in Nat,
           Cardinality(MailFor(i)') <= Cardinality(MailFor(i)) + m,
           ReaderNeeds(i)' <= ReaderNeeds(i) + r,
           slots'[i].sticky >= slots[i].sticky + m + r
    PROVE  slots'[i].sticky >= Holders(i)'
<1>1. /\ IsFiniteSet(LoginsFor(i)) /\ IsFiniteSet(PlayersIn(i)) /\ slots[i].sticky \in Int
      /\ Cardinality(PlayersIn(i)) \in Nat
  BY HoldersFinite
<1>2. LoginsFor(i)' \subseteq LoginsFor(i)
  <2>1. LoginsFor(i)' \subseteq Conns
    BY DEF LoginsFor
  <2> QED BY <2>1, OthersNeed
<1>3. /\ Cardinality(LoginsFor(i)') \in Nat
      /\ Cardinality(LoginsFor(i)') <= Cardinality(LoginsFor(i)) + 0
  BY <1>1, <1>2, FewerNeed
<1>4. PlayersIn(i)' = PlayersIn(i)
  BY DEF PlayersIn, InWorld, Leaving
<1>5. /\ Cardinality(PlayersIn(i)') \in Nat
      /\ Cardinality(PlayersIn(i)') <= Cardinality(PlayersIn(i)) + 0
  BY <1>1, <1>4
<1>6. MailNeeds(i)' <= MailNeeds(i) + 0
  BY DEF MailNeeds
<1>7. slots'[i].sticky >= slots[i].sticky + 0 + 0 + m + r + 0
  BY <1>1
<1> QED BY <1>3, <1>5, <1>6, <1>7, Balance

LEMMA MailStays ==
    ASSUME VoiceInv, SlotInv, NEW i \in Slots, slots[i].character # Nobody,
           slots'[i].character = slots[i].character, UNCHANGED replies
    PROVE  /\ Cardinality(MailFor(i)') \in Nat
           /\ Cardinality(MailFor(i)') <= Cardinality(MailFor(i)) + 0
<1>1. MailFor(i)' = MailFor(i) /\ Cardinality(MailFor(i)) \in Nat
  BY HoldersFinite DEF MailFor
<1> QED BY <1>1

LEMMA WriterCounts ==
    ASSUME VoiceInv, VoiceInv', SlotInv, WriterThread
    PROVE  Counted'
<1> SUFFICES ASSUME NEW i \in Slots, slots'[i].character # Nobody
             PROVE  slots'[i].sticky >= Holders(i)'
  BY DEF Counted
<1>1. Careful(Writer) /\ \A d \in Conns : d # Writer
  BY WriterCareful, Distinct
<1>2. UNCHANGED <<conns, players, game, reader, replies>>
  BY DEF WriterThread, WriterPicks, WriterAttaches, WriterSaves, unwritten
<1>3. slots'[i].character = slots[i].character /\ slots'[i].sticky = slots[i].sticky
  BY WriterSlots DEF Becomes
<1>4. slots[i].sticky \in Int
  BY WriterFacts, SlotFields
<1>5. ReaderNeeds(i)' <= ReaderNeeds(i) + 0
  BY <1>2 DEF ReaderNeeds
<1>6. slots'[i].sticky \in Int /\ slots'[i].sticky >= slots[i].sticky + 0 + 0
  BY <1>3, <1>4
<1>7. /\ Cardinality(MailFor(i)') \in Nat
      /\ Cardinality(MailFor(i)') <= Cardinality(MailFor(i)) + 0
  BY <1>2, <1>3, MailStays
<1> QED BY <1>1, <1>2, <1>3, <1>5, <1>6, <1>7, FilersBalance

LEMMA MailArrives ==
    ASSUME VoiceInv, SlotInv, NEW i \in Slots, slots[i].character # Nobody,
           slots'[i].character = slots[i].character, NEW ch \in Characters,
           replies' = Append(replies, ch)
    PROVE  /\ Cardinality(MailFor(i)') \in Nat /\ Cardinality(MailFor(i)) \in Nat
           /\ Cardinality(MailFor(i)') <= Cardinality(MailFor(i)) + 1
           /\ ch # slots[i].character =>
                 Cardinality(MailFor(i)') <= Cardinality(MailFor(i))
<1> DEFINE S == MailFor(i)
           T == MailFor(i)'
           k == Len(replies) + 1
<1>1. replies \in Seq(Characters) /\ IsFiniteSet(S)
  BY HoldersFinite DEF VoiceInv, Shaped
<1>2. /\ Len(replies) \in Nat /\ Len(replies') = k /\ replies'[k] = ch
      /\ \A n \in 1..Len(replies) : replies'[n] = replies[n]
  BY <1>1, SMT
<1>3. 1..k = (1..Len(replies)) \cup {k}
  BY <1>2, SMT
<1>4. T = {n \in 1..k : replies'[n] = slots[i].character}
  BY <1>2 DEF MailFor
<1>5. T \subseteq S \cup {k} /\ (ch # slots[i].character => T \subseteq S)
  <2> HIDE DEF k
  <2> QED BY <1>2, <1>3, <1>4 DEF MailFor
<1> HIDE DEF S, T, k
<1>6. Cardinality(T) \in Nat /\ Cardinality(S) \in Nat /\ Cardinality(T) <= Cardinality(S) + 1
  BY <1>1, <1>5, OneMoreNeeds
<1>7. ch # slots[i].character => Cardinality(T) <= Cardinality(S)
  BY <1>1, <1>5, FewerNeed
<1> QED BY <1>6, <1>7 DEF S, T

LEMMA ReaderTook ==
    ASSUME VoiceInv, SlotInv, ~misled', ReaderThread, NEW i \in Slots,
           slots'[i].character # slots[i].character, slots'[i].character # Nobody
    PROVE  Took(Reader)
<1> DEFINE s == reader.slot
<1>1. slots \in [Slots -> SlotRecord] /\ \A d \in Conns : d # Reader
  BY ReaderFacts, Distinct
<1>2. ReaderAssigns
  <2>1. CASE ReaderLoads \/ ReaderKeeps \/ ReaderReplies
    <3>1. /\ s \in Slots
          /\ \/ Load(s, reader.who) \/ Stick(s)
             \/ Release(s, Reader) /\ slots[s].locked = Reader
      BY <2>1, ReaderFacts DEF ReaderLoads, ReaderKeeps, ReaderReplies
    <3> HIDE DEF s
    <3>2. \E l, n : Becomes(s, slots[s].character, l, n)
      BY <1>1, <3>1, LoadBecomes, StickBecomes
    <3> QED BY <3>2 DEF Becomes
  <2>2. CASE ReaderLoadFails \/ ReaderForgets
    <3>1. s \in Slots /\ (FailToLoad(s) \/ Forget(s))
      BY <2>2, ReaderFacts DEF ReaderLoadFails, ReaderForgets
    <3> HIDE DEF s
    <3>2. \E l, n : Becomes(s, Nobody, l, n) \/ Becomes(s, slots[s].character, l, n)
      BY <1>1, <3>1, FailureBecomes
    <3> QED BY <3>2 DEF Becomes
  <2> QED BY <2>1, <2>2 DEF ReaderThread, ReaderTakesOrder, ReaderFindsNoSlot,
             ReaderGivesUp, ReaderTriesAgain
<1>3. PICK j \in Slots, fresh \in BOOLEAN :
         /\ Assign(reader.who, Reader, j, fresh)
         /\ reader' = [reader EXCEPT !.slot = j, !.at = IF fresh THEN "load" ELSE "look"]
  BY <1>2 DEF ReaderAssigns
<1>4. reader.who \in Characters /\ Reader \in Threads
  BY <1>2, ReaderFacts DEF ReaderAssigns
<1>5. fresh = TRUE
  BY <1>1, <1>3, <1>4, AssignBecomes DEF Becomes
<1>6. reader' = [reader EXCEPT !.slot = j, !.at = "load"]
  BY <1>3, <1>5
<1>7. reader'.at = "load"
  BY <1>6, ReaderEffects DEF ReaderBecomes
<1>8. UNCHANGED <<conns, players, game, replies>>
  BY <1>2 DEF ReaderAssigns, unread
<1> QED BY <1>1, <1>7, <1>8 DEF Took

LEMMA ReaderCounts ==
    ASSUME VoiceInv, VoiceInv', SlotInv, ~misled', ReaderThread
    PROVE  Counted'
<1> SUFFICES ASSUME NEW i \in Slots, slots'[i].character # Nobody
             PROVE  slots'[i].sticky >= Holders(i)'
  BY DEF Counted
<1> DEFINE s == reader.slot
           n == slots[i].sticky
           n1 == slots'[i].sticky
<1>1. Careful(Reader) /\ Reader # Game /\ \A d \in Conns : d # Reader
  BY ReaderCareful, Distinct
<1>2. UNCHANGED <<conns, players, game>>
  BY DEF ReaderThread, ReaderTakesOrder, ReaderAssigns, ReaderFindsNoSlot, ReaderLoads,
         ReaderLoadFails, ReaderForgets, ReaderGivesUp, ReaderKeeps, ReaderTriesAgain,
         ReaderReplies, unread
<1>3. slots \in [Slots -> SlotRecord] /\ n \in Int /\ n1 \in Int
  <2>1. slots' \in [Slots -> SlotRecord] /\ slots \in [Slots -> SlotRecord]
    BY DEF VoiceInv, Shaped
  <2>2. slots'[i] \in SlotRecord /\ slots[i] \in SlotRecord
    BY <2>1
  <2> QED BY <2>1, <2>2 DEF SlotRecord
<1>4. CASE slots'[i].character # slots[i].character
  BY <1>1, <1>4, ReaderTook, FreshUnneeded
<1>5. CASE slots'[i].character = slots[i].character
  <2>1. ASSUME NEW m \in Int, NEW r \in Int,
               Cardinality(MailFor(i)') \in Nat,
               Cardinality(MailFor(i)') <= Cardinality(MailFor(i)) + m,
               ReaderNeeds(i)' <= ReaderNeeds(i) + r, n1 >= n + m + r
        PROVE  n1 >= Holders(i)'
    BY <1>1, <1>2, <1>3, <1>5, <2>1, FilersBalance
  <2>2. ASSUME UNCHANGED replies, ReaderNeeds(i)' = 0, n1 >= n PROVE n1 >= Holders(i)'
    <3>1. ReaderNeeds(i)' <= ReaderNeeds(i) + 0
      BY <2>2 DEF ReaderNeeds
    <3>2. n1 >= n + 0 + 0
      BY <1>3, <2>2
    <3> QED BY <1>5, <2>1, <2>2, <3>1, <3>2, MailStays
  <2>3. CASE ReaderTakesOrder \/ ReaderFindsNoSlot \/ ReaderGivesUp \/ ReaderTriesAgain
    <3>1. UNCHANGED <<slots, replies>> /\ reader'.at # "unlock"
      BY <2>3, ReaderEffects DEF ReaderTakesOrder, ReaderFindsNoSlot, ReaderGivesUp,
         ReaderTriesAgain, ReaderBecomes, unread
    <3>2. ReaderNeeds(i)' = 0
      BY <3>1 DEF ReaderNeeds
    <3>3. n1 >= n
      BY <1>3, <3>1
    <3> QED BY <2>2, <3>1, <3>2, <3>3
  <2>4. CASE ReaderAssigns
    <3>1. PICK j \in Slots, fresh \in BOOLEAN :
             /\ Assign(reader.who, Reader, j, fresh)
             /\ reader' = [reader EXCEPT !.slot = j, !.at = IF fresh THEN "load" ELSE "look"]
      BY <2>4 DEF ReaderAssigns
    <3> DEFINE p == IF fresh THEN "load" ELSE "look"
    <3>2. ReaderBecomes(p, reader.who, j)
      <4>1. reader' = [reader EXCEPT !.slot = j, !.at = p]
        BY <3>1
      <4> HIDE DEF p
      <4> QED BY <4>1, ReaderEffects
    <3>3. ReaderNeeds(i)' = 0
      BY <3>2 DEF ReaderBecomes, ReaderNeeds
    <3>4. reader.who \in Characters /\ Reader \in Threads
      BY <2>4, ReaderFacts DEF ReaderAssigns
    <3>5. \/ Becomes(j, reader.who, Reader, slots[j].sticky)
          \/ Becomes(j, reader.who, slots[j].locked, slots[j].sticky + 1)
          \/ ~Loaded(reader.who) /\ Becomes(j, reader.who, Reader, 0)
      BY <1>3, <3>1, <3>4, AssignBecomes
    <3>6. n1 = n \/ n1 = n + 1
      BY <1>5, <3>5 DEF Becomes, Loaded, SlotsOf
    <3>7. UNCHANGED replies
      BY <2>4 DEF ReaderAssigns
    <3> QED BY <1>3, <2>2, <3>3, <3>6, <3>7
  <2>5. CASE ReaderLoads
    <3>1. s \in Slots /\ Load(s, reader.who) /\ reader'.at # "unlock" /\ UNCHANGED replies
      BY <2>5, ReaderFacts, ReaderEffects DEF ReaderLoads, ReaderBecomes
    <3>2. Becomes(s, slots[s].character, slots[s].locked, slots[s].sticky)
      BY <1>3, <3>1, LoadBecomes
    <3> HIDE DEF s
    <3>3. n1 = n
      BY <3>2 DEF Becomes
    <3>4. ReaderNeeds(i)' = 0
      BY <3>1 DEF ReaderNeeds
    <3> QED BY <1>3, <2>2, <3>1, <3>3, <3>4
  <2>6. CASE ReaderKeeps
    <3>1. /\ s \in Slots /\ Stick(s) /\ reader.at # "unlock" /\ reader'.slot = s
          /\ UNCHANGED replies
      BY <2>6, ReaderFacts, ReaderEffects DEF ReaderKeeps, ReaderBecomes
    <3>2. Becomes(s, slots[s].character, slots[s].locked, slots[s].sticky + 1)
      BY <1>3, <3>1, StickBecomes
    <3>3. CASE i = s
      <4>1. n1 >= n + 0 + 1
        BY <1>3, <3>2, <3>3 DEF Becomes
      <4>2. ReaderNeeds(i)' <= ReaderNeeds(i) + 1
        BY DEF ReaderNeeds
      <4> QED BY <1>5, <2>1, <3>1, <4>1, <4>2, MailStays
    <3>4. CASE i # s
      <4>1. ReaderNeeds(i)' = 0
        BY <3>1, <3>4 DEF ReaderNeeds
      <4>2. n1 >= n
        <5> HIDE DEF s
        <5> QED BY <1>3, <3>2, <3>4 DEF Becomes
      <4> QED BY <2>2, <3>1, <4>1, <4>2
    <3> QED BY <3>3, <3>4
  <2>7. CASE ReaderReplies
    <3>1. /\ s \in Slots /\ Release(s, Reader) /\ slots[s].locked = Reader
          /\ reader.at = "unlock" /\ reader'.at = "idle"
          /\ slots[s].character = reader.who /\ reader.who \in Characters
          /\ replies' = Append(replies, reader.who)
      BY <2>7, ReaderFacts, ReaderEffects DEF ReaderReplies, ReaderBecomes
    <3>2. Becomes(s, slots[s].character, Nobody, slots[s].sticky)
      BY <1>3, <3>1, StickBecomes
    <3>3. n1 = n
      <4> HIDE DEF s
      <4> QED BY <3>2 DEF Becomes
    <3>4. /\ Cardinality(MailFor(i)') \in Nat /\ Cardinality(MailFor(i)) \in Nat
          /\ Cardinality(MailFor(i)') <= Cardinality(MailFor(i)) + 1
          /\ reader.who # slots[i].character =>
                Cardinality(MailFor(i)') <= Cardinality(MailFor(i))
      BY <1>5, <3>1, MailArrives
    <3>5. CASE i = s
      <4>1. PICK r \in Int : r = 0 - 1
        OBVIOUS
      <4>2. ReaderNeeds(i)' <= ReaderNeeds(i) + r
        BY <3>1, <3>5, <4>1 DEF ReaderNeeds
      <4>3. n1 >= n + 1 + r
        BY <1>3, <3>3, <4>1
      <4> QED BY <2>1, <3>4, <4>2, <4>3
    <3>6. CASE i # s
      <4>1. reader.who # slots[i].character
        BY <1>5, <3>1, <3>6 DEF SlotInv, Unique
      <4>2. Cardinality(MailFor(i)') <= Cardinality(MailFor(i)) + 0
        BY <3>4, <4>1
      <4>3. ReaderNeeds(i)' <= ReaderNeeds(i) + 0
        BY <3>1 DEF ReaderNeeds
      <4>4. n1 >= n + 0 + 0
        BY <1>3, <3>3
      <4> QED BY <2>1, <3>4, <4>2, <4>3, <4>4
    <3> QED BY <3>5, <3>6
  <2>8. CASE ReaderLoadFails
    <3>1. /\ s \in Slots /\ FailToLoad(s) /\ reader'.at = "forget" /\ UNCHANGED replies
      BY <2>8, ReaderFacts, ReaderEffects DEF ReaderLoadFails, ReaderBecomes
    <3>2. Becomes(s, Nobody, slots[s].locked, 0)
      BY <1>3, <3>1, FailureBecomes
    <3> HIDE DEF s
    <3>3. n1 = n
      BY <1>5, <3>2 DEF Becomes
    <3>4. ReaderNeeds(i)' = 0
      BY <3>1 DEF ReaderNeeds
    <3> QED BY <1>3, <2>2, <3>1, <3>3, <3>4
  <2>9. CASE ReaderForgets
    <3>1. /\ s \in Slots /\ Forget(s) /\ reader'.at = "idle" /\ UNCHANGED replies
      BY <2>9, ReaderFacts, ReaderEffects DEF ReaderForgets, ReaderBecomes
    <3>2. Becomes(s, slots[s].character, Nobody, slots[s].sticky)
      BY <1>3, <3>1, FailureBecomes
    <3> HIDE DEF s
    <3>3. n1 = n
      BY <3>2 DEF Becomes
    <3>4. ReaderNeeds(i)' = 0
      BY <3>1 DEF ReaderNeeds
    <3> QED BY <1>3, <2>2, <3>1, <3>3, <3>4
  <2> QED BY <2>3, <2>4, <2>5, <2>6, <2>7, <2>8, <2>9 DEF ReaderThread
<1> QED BY <1>4, <1>5

LEMMA MailTaken ==
    ASSUME VoiceInv, SlotInv, NEW i \in Slots, slots[i].character # Nobody,
           slots'[i].character = slots[i].character,
           replies # <<>>, replies' = Tail(replies)
    PROVE  /\ Cardinality(MailFor(i)') \in Nat /\ Cardinality(MailFor(i)) \in Nat
           /\ Cardinality(MailFor(i)') <= Cardinality(MailFor(i))
           /\ Head(replies) = slots[i].character =>
                 Cardinality(MailFor(i)') <= Cardinality(MailFor(i)) - 1
<1> DEFINE S == MailFor(i)
           T == MailFor(i)'
           f == [n \in T |-> n + 1]
           k == Len(replies)
<1>1. replies \in Seq(Characters) /\ IsFiniteSet(S)
  BY HoldersFinite DEF VoiceInv, Shaped
<1>2. /\ k \in Nat /\ Len(replies') = k - 1 /\ k >= 1 /\ Head(replies) = replies[1]
      /\ \A n \in 1..(k - 1) : replies'[n] = replies[n + 1]
  BY <1>1, SMT
<1>3. /\ T = {n \in 1..(k - 1) : replies'[n] = slots[i].character}
      /\ S = {n \in 1..k : replies[n] = slots[i].character}
  BY <1>2 DEF MailFor
<1> HIDE DEF S, T, k
<1>4. \A n \in T : n \in Int /\ n + 1 \in S \ {1}
  <2> SUFFICES ASSUME NEW n \in T PROVE n \in Int /\ n + 1 \in S \ {1}
    OBVIOUS
  <2>1. n \in 1..(k - 1) /\ replies'[n] = slots[i].character
    BY <1>3
  <2>2. n \in Int /\ n + 1 \in 1..k /\ n + 1 # 1
    BY <1>2, <2>1
  <2> QED BY <1>2, <1>3, <2>1, <2>2
<1>5. f \in Injection(T, S \ {1})
  <2>1. f \in [T -> S \ {1}]
    BY <1>4
  <2>2. \A a, b \in T : f[a] = f[b] => a = b
    BY <1>4
  <2> QED BY <2>1, <2>2, Fun_IsInj
<1>6. IsFiniteSet(S \ {1}) /\ Cardinality(S) \in Nat
  BY <1>1, FS_RemoveElement, FS_CardinalityType
<1>7. IsFiniteSet(T) /\ Cardinality(T) <= Cardinality(S \ {1})
  <2> HIDE DEF f
  <2> QED BY <1>5, <1>6, FS_Injection
<1>8. Cardinality(T) \in Nat
  BY <1>7, FS_CardinalityType
<1>9. Cardinality(S \ {1}) = IF 1 \in S THEN Cardinality(S) - 1 ELSE Cardinality(S)
  BY <1>1, FS_RemoveElement
<1>10. Head(replies) = slots[i].character => 1 \in S
  BY <1>2, <1>3
<1>11. Cardinality(T) <= Cardinality(S)
  BY <1>6, <1>7, <1>8, <1>9
<1>12. Head(replies) = slots[i].character => Cardinality(T) <= Cardinality(S) - 1
  BY <1>7, <1>9, <1>10
<1> QED BY <1>6, <1>8, <1>11, <1>12 DEF S, T

\* The connections that the game thread changes need nothing afterwards.
LEMMA GameLogins ==
    ASSUME VoiceInv, SlotInv, GameThread, NEW i \in Slots,
           slots[i].character # Nobody, slots'[i].character = slots[i].character
    PROVE  /\ LoginsFor(i)' \subseteq LoginsFor(i)
           /\ \A c \in Conns : conns'[c] # conns[c] => c \notin LoginsFor(i)'
<1>1. Careful(Game) /\ \A d \in Conns : d # Game
  BY GameCareful, Distinct
<1>2. ASSUME NEW c \in Conns, conns'[c] # conns[c] PROVE c \notin LoginsFor(i)'
  BY <1>2, ChangedIsDone DEF LoginsFor, At
<1>3. LoginsFor(i)' \subseteq Conns
  BY DEF LoginsFor
<1> QED BY <1>1, <1>2, <1>3, OthersNeed

\* Only one who enters is new in a slot.
LEMMA GamePlayers ==
    ASSUME VoiceInv, SlotInv, GameThread, ~Attach, NEW i \in Slots
    PROVE  PlayersIn(i)' \subseteq PlayersIn(i)
<1>1. ASSUME NEW h \in Characters, Leaving(h), ~Bury PROVE Leaving(h)'
  <2>1. game.at \in {"release", "bury"} /\ game.who = h
    BY <1>1 DEF Leaving
  <2>2. CASE ReleaseSlot
    <3>1. game' = [at |-> "bury", who |-> game.who, slot |-> game.slot]
      <4>1. /\ game' = [game EXCEPT !.at = "bury"]
            /\ game = [at |-> game.at, who |-> game.who, slot |-> game.slot]
        BY <2>2 DEF ReleaseSlot, VoiceInv, Waiting
      <4> QED BY ONLY <4>1
    <3> QED BY <2>1, <3>1 DEF Leaving
  <2>3. CASE ~ReleaseSlot
    <3>1. ~Playing
      BY <1>1, PlayingStays
    <3>2. ~SendMails /\ ~AttachFails
      BY <2>1, AttachWorks DEF SendMails
    <3> QED BY <1>1, <2>3, <3>1, <3>2 DEF GameThread, GameStep, TakeReply, JoinNew, JoinRefused,
               TakeOver, LogOut, LetGo, Die, Delete, OrderMail
  <2> QED BY <2>2, <2>3
<1>2. CASE ~Bury
  <2> SUFFICES ASSUME NEW h \in Characters, h \in PlayersIn(i)' PROVE h \in PlayersIn(i)
    BY DEF PlayersIn, InWorld
  <2>1. players[h].there /\ players[h].slot = i
    BY <1>2, PlayersStay DEF PlayersIn, InWorld
  <2>2. ~Leaving(h)
    BY <1>1, <1>2 DEF PlayersIn
  <2> QED BY <2>1, <2>2 DEF PlayersIn, InWorld
<1>3. CASE Bury
  <2>1. PICK g \in Characters : g = game.who
    BY <1>3 DEF Bury, SlotInv, GameHolds, GameHold
  <2>2. players' = [players EXCEPT ![g] = Absent] /\ players \in [Characters -> PlayerRecord]
    BY <1>3, <2>1 DEF Bury, VoiceInv, Shaped
  <2>3. /\ ~players'[g].there
        /\ \A h \in Characters : h # g => players'[h] = players[h] /\ ~Leaving(h)
    <3> HIDE DEF PlayerRecord
    <3> QED BY <2>1, <2>2, AbsentRecord DEF Leaving
  <2> QED BY <2>3 DEF PlayersIn, InWorld
<1> QED BY <1>2, <1>3

\* The parts of the count that the game thread moves.
LEMMA GameBalance ==
    ASSUME VoiceInv, SlotInv, GameThread, NEW i \in Slots,
           slots[i].character # Nobody, slots'[i].character = slots[i].character,
           slots'[i].sticky \in Int,
           NEW l \in Int, NEW p \in Int, NEW m \in Int, NEW g \in Int,
           Cardinality(LoginsFor(i)') <= Cardinality(LoginsFor(i)) + l,
           Cardinality(PlayersIn(i)') \in Nat,
           Cardinality(PlayersIn(i)') <= Cardinality(PlayersIn(i)) + p,
           Cardinality(MailFor(i)') \in Nat,
           Cardinality(MailFor(i)') <= Cardinality(MailFor(i)) + m,
           MailNeeds(i)' <= MailNeeds(i) + g,
           slots'[i].sticky >= slots[i].sticky + l + p + m + g
    PROVE  slots'[i].sticky >= Holders(i)'
<1>1. /\ IsFiniteSet(LoginsFor(i)) /\ slots[i].sticky \in Int
  BY HoldersFinite
<1>2. Cardinality(LoginsFor(i)') \in Nat
  BY <1>1, GameLogins, FewerNeed
<1>3. UNCHANGED reader
  BY DEF GameThread, GameStep, Attach, AttachFails, ReleaseSlot, Bury, SendMails, TakeReply,
         JoinNew, JoinRefused, TakeOver, LogOut, LetGo, Die, Delete, OrderMail, rest
<1>4. ReaderNeeds(i)' <= ReaderNeeds(i) + 0
  BY <1>3 DEF ReaderNeeds
<1>5. slots'[i].sticky >= slots[i].sticky + l + p + m + 0 + g
  BY <1>1
<1> QED BY <1>2, <1>4, <1>5, Balance

\* What the game thread leaves as it was, or gives up.
LEMMA GameKeeps ==
    ASSUME VoiceInv, SlotInv, GameThread, NEW i \in Slots,
           slots[i].character # Nobody, slots'[i].character = slots[i].character
    PROVE  /\ Cardinality(LoginsFor(i)) \in Nat /\ Cardinality(LoginsFor(i)') \in Nat
           /\ Cardinality(LoginsFor(i)') <= Cardinality(LoginsFor(i))
           /\ \A c \in Conns : c \in LoginsFor(i) /\ conns'[c] # conns[c] =>
                 Cardinality(LoginsFor(i)') <= Cardinality(LoginsFor(i)) - 1
           /\ Cardinality(PlayersIn(i)) \in Nat
           /\ ~Attach => /\ Cardinality(PlayersIn(i)') \in Nat
                         /\ Cardinality(PlayersIn(i)') <= Cardinality(PlayersIn(i))
<1>1. IsFiniteSet(LoginsFor(i)) /\ IsFiniteSet(PlayersIn(i)) /\ Cardinality(PlayersIn(i)) \in Nat
  BY HoldersFinite
<1>2. /\ Cardinality(LoginsFor(i)) \in Nat /\ Cardinality(LoginsFor(i)') \in Nat
      /\ Cardinality(LoginsFor(i)') <= Cardinality(LoginsFor(i))
  BY <1>1, GameLogins, FewerNeed
<1>3. ASSUME NEW c \in Conns, c \in LoginsFor(i), conns'[c] # conns[c]
      PROVE  Cardinality(LoginsFor(i)') <= Cardinality(LoginsFor(i)) - 1
  <2>1. LoginsFor(i)' \subseteq LoginsFor(i) \ {c}
    BY <1>3, GameLogins
  <2> QED BY <1>1, <1>3, <2>1, OneLessNeeds
<1>4. ASSUME ~Attach
      PROVE  /\ Cardinality(PlayersIn(i)') \in Nat
             /\ Cardinality(PlayersIn(i)') <= Cardinality(PlayersIn(i))
  BY <1>1, <1>4, GamePlayers, FewerNeed
<1> QED BY <1>1, <1>2, <1>3, <1>4

\* A step of the game thread that takes nothing from the count of a slot.
LEMMA GamePlain ==
    ASSUME VoiceInv, SlotInv, GameThread, ~Attach, NEW i \in Slots,
           slots[i].character # Nobody, slots'[i].character = slots[i].character,
           slots'[i].sticky \in Int, slots'[i].sticky >= slots[i].sticky,
           UNCHANGED replies \/ (replies # <<>> /\ replies' = Tail(replies)),
           MailNeeds(i)' <= MailNeeds(i)
    PROVE  slots'[i].sticky >= Holders(i)'
<1>1. PICK z \in Int : z = 0
  OBVIOUS
<1>2. /\ Cardinality(LoginsFor(i)') <= Cardinality(LoginsFor(i)) + z
      /\ Cardinality(PlayersIn(i)') \in Nat
      /\ Cardinality(PlayersIn(i)') <= Cardinality(PlayersIn(i)) + z
  BY <1>1, GameKeeps
<1>3. Cardinality(MailFor(i)) \in Nat /\ slots[i].sticky \in Int
  BY HoldersFinite
<1>4. /\ Cardinality(MailFor(i)') \in Nat
      /\ Cardinality(MailFor(i)') <= Cardinality(MailFor(i)) + z
  <2>1. CASE UNCHANGED replies
    BY <1>1, <2>1, MailStays
  <2>2. CASE replies # <<>> /\ replies' = Tail(replies)
    BY <1>1, <1>3, <2>2, MailTaken
  <2> QED BY <2>1, <2>2
<1>5. MailNeeds(i)' <= MailNeeds(i) + z
  BY <1>1 DEF MailNeeds
<1>6. slots'[i].sticky >= slots[i].sticky + z + z + z + z
  BY <1>1, <1>3
<1> QED BY <1>1, <1>2, <1>4, <1>5, <1>6, GameBalance

\* A login that is read lets go of the slot once.
LEMMA LoginLetsGo ==
    ASSUME VoiceInv, SlotInv, GameThread, ~Attach, NEW i \in Slots,
           slots[i].character # Nobody, slots'[i].character = slots[i].character,
           slots'[i].sticky \in Int, slots'[i].sticky >= slots[i].sticky - 1,
           NEW c \in Conns, c \in LoginsFor(i), conns'[c] # conns[c],
           UNCHANGED <<replies, game>>
    PROVE  slots'[i].sticky >= Holders(i)'
<1>1. PICK l, z \in Int : l = 0 - 1 /\ z = 0
  OBVIOUS
<1>2. Cardinality(LoginsFor(i)') <= Cardinality(LoginsFor(i)) + l
  <2>1. /\ Cardinality(LoginsFor(i)) \in Nat /\ Cardinality(LoginsFor(i)') \in Nat
        /\ Cardinality(LoginsFor(i)') <= Cardinality(LoginsFor(i)) - 1
    BY GameKeeps
  <2> QED BY <1>1, <2>1
<1>3. /\ Cardinality(PlayersIn(i)') \in Nat
      /\ Cardinality(PlayersIn(i)') <= Cardinality(PlayersIn(i)) + z
  BY <1>1, GameKeeps
<1>4. /\ Cardinality(MailFor(i)') \in Nat
      /\ Cardinality(MailFor(i)') <= Cardinality(MailFor(i)) + z
  BY <1>1, MailStays
<1>5. MailNeeds(i)' <= MailNeeds(i) + z
  BY <1>1 DEF MailNeeds
<1>6. slots'[i].sticky >= slots[i].sticky + l + z + z + z
  BY <1>1, HoldersFinite
<1> QED BY <1>1, <1>2, <1>3, <1>4, <1>5, <1>6, GameBalance

LEMMA JoinCounts ==
    ASSUME VoiceInv, SlotInv, NEW c \in Conns, JoinRefused(c) \/ TakeOver(c), NEW i \in Slots,
           slots[i].character # Nobody, slots'[i].character = slots[i].character,
           slots'[i].sticky \in Int
    PROVE  slots'[i].sticky >= Holders(i)'
<1> DEFINE ch == conns[c].character
           s == SlotOf(ch)
<1>1. /\ GameThread /\ ~Attach /\ conns[c].state = "LOGIN" /\ UNCHANGED <<replies, game>>
      /\ UNCHANGED slots \/ Unstick(s)
  <2>1. game.at # "attach"
    BY PlayingStays DEF JoinRefused, TakeOver
  <2> QED BY <2>1 DEF GameThread, JoinRefused, TakeOver, Attach, Unstick, rest
<1>2. s \in Slots /\ slots[s].character = ch /\ slots \in [Slots -> SlotRecord]
      /\ slots[i].sticky \in Int
  BY <1>1, JoinFacts, HoldersFinite DEF VoiceInv, Shaped
<1>3. i = s => c \in LoginsFor(i)
  BY <1>1, <1>2 DEF LoginsFor
<1>4. conns'[c] # conns[c]
  <2>1. conns \in [Conns -> ConnRecord]
    BY DEF VoiceInv, Shaped
  <2>2. CASE JoinRefused(c)
    <3>1. conns' = Disconnected(c)
      BY <2>2 DEF JoinRefused
    <3>2. conns'[c].state = "DISCONNECTED"
      BY <2>1, <3>1, DisconnectedFacts
    <3> QED BY <1>1, <3>2
  <2>3. CASE TakeOver(c)
    <3>1. PICK t : t = LoggedOut({o \in Conns : o = Player(ch).connection})
                   /\ conns' = [t EXCEPT ![c].state = "GAME"]
      BY <2>3 DEF TakeOver
    <3>2. t \in [Conns -> ConnRecord]
      BY <2>1, <3>1, LoggedOutFacts
    <3>3. conns'[c].state = "GAME"
      BY <3>1, <3>2 DEF ConnRecord
    <3> QED BY <1>1, <3>3
  <2> QED BY <2>2, <2>3
<1> HIDE DEF s
<1>5. \/ UNCHANGED slots
      \/ Becomes(s, slots[s].character, slots[s].locked, slots[s].sticky - 1)
  BY <1>1, <1>2, StickBecomes
<1>6. CASE i = s
  <2>1. slots'[i].sticky >= slots[i].sticky - 1
    BY <1>2, <1>5, <1>6 DEF Becomes
  <2> QED BY <1>1, <1>3, <1>4, <1>6, <2>1, LoginLetsGo
<1>7. CASE i # s
  <2>1. slots'[i].sticky >= slots[i].sticky
    BY <1>2, <1>5, <1>7 DEF Becomes
  <2>2. MailNeeds(i)' <= MailNeeds(i)
    BY <1>1 DEF MailNeeds
  <2> QED BY <1>1, <2>1, <2>2, GamePlain
<1> QED BY <1>6, <1>7

LEMMA AttachCounts ==
    ASSUME VoiceInv, SlotInv, Attach, NEW i \in Slots,
           slots[i].character # Nobody, slots'[i].character = slots[i].character,
           slots'[i].sticky \in Int
    PROVE  slots'[i].sticky >= Holders(i)'
<1>1. PICK c \in Conns, ch \in Characters : c = game.who /\ ch = conns[c].character
  BY JoinFacts DEF Attach, VoiceInv, Waiting
<1>2. /\ conns[c].state = "LOGIN" /\ game.at = "attach" /\ game' = Loop /\ UNCHANGED replies
      /\ GameThread /\ slots \in [Slots -> SlotRecord] /\ players \in [Characters -> PlayerRecord]
      /\ conns' = [conns EXCEPT ![c].state = "GAME"] /\ conns \in [Conns -> ConnRecord]
  BY <1>1 DEF Attach, VoiceInv, Waiting, Shaped, GameThread, GameStep
<1>3. PICK j \in SlotsOf(ch) :
         /\ slots[j].locked = Nobody
         /\ slots' = [slots EXCEPT ![j].locked = Game]
         /\ players' = [players EXCEPT ![ch] = [Absent EXCEPT !.there = TRUE, !.slot = j,
                               !.connection = c, !.data = slots[j].data]]
  BY <1>1 DEF Attach
<1>4. j \in Slots /\ slots[j].character = ch
  BY <1>3 DEF SlotsOf
<1>5. Becomes(j, ch, Game, slots[j].sticky)
  BY <1>2, <1>3, <1>4, LockBecomes
<1>6. slots'[i].sticky = slots[i].sticky /\ slots[i].sticky \in Int
  BY <1>5, HoldersFinite DEF Becomes
<1>7. players'[ch].slot = j /\ \A h \in Characters : h # ch => players'[h] = players[h]
  <2> DEFINE r == [Absent EXCEPT !.there = TRUE, !.slot = j, !.connection = c,
                                 !.data = slots[j].data]
  <2>1. r.slot = j
    BY DEF Absent
  <2> HIDE DEF r, PlayerRecord
  <2> QED BY <1>2, <1>3, <2>1 DEF r
<1>8. conns'[c] # conns[c] /\ (i = j => c \in LoginsFor(i))
  <2>1. conns'[c].state = "GAME"
    BY <1>2 DEF ConnRecord
  <2> QED BY <1>1, <1>2, <1>4, <2>1 DEF LoginsFor
<1>9. IsFiniteSet(PlayersIn(i))
  BY HoldersFinite
<1>10. /\ PlayersIn(i)' \subseteq PlayersIn(i) \cup {ch}
       /\ i # j => PlayersIn(i)' \subseteq PlayersIn(i)
  <2>1. \A h \in Characters : ~Leaving(h)
    BY <1>2 DEF Leaving
  <2> QED BY <1>7, <2>1 DEF PlayersIn, InWorld
<1>11. /\ Cardinality(MailFor(i)') \in Nat
       /\ Cardinality(MailFor(i)') <= Cardinality(MailFor(i)) + 0
  BY <1>2, MailStays
<1>12. MailNeeds(i)' <= MailNeeds(i) + 0
  BY <1>2 DEF MailNeeds, Loop
<1>13. CASE i = j
  <2> DEFINE S == PlayersIn(i)
             T == PlayersIn(i)'
  <2>1. Cardinality(T) \in Nat /\ Cardinality(T) <= Cardinality(S) + 1
    <3>1. IsFiniteSet(S) /\ T \subseteq S \cup {ch}
      BY <1>9, <1>10
    <3> HIDE DEF S, T
    <3> QED BY <3>1, OneMoreNeeds
  <2>2. PICK l \in Int : l = 0 - 1
    OBVIOUS
  <2>3. /\ Cardinality(LoginsFor(i)) \in Nat /\ Cardinality(LoginsFor(i)') \in Nat
        /\ Cardinality(LoginsFor(i)') <= Cardinality(LoginsFor(i)) - 1
    BY <1>2, <1>8, <1>13, GameKeeps
  <2>4. Cardinality(LoginsFor(i)') <= Cardinality(LoginsFor(i)) + l
    BY <2>2, <2>3
  <2>5. slots'[i].sticky >= slots[i].sticky + l + 1 + 0 + 0
    BY <1>6, <2>2
  <2> QED BY <1>2, <1>11, <1>12, <2>1, <2>2, <2>4, <2>5, GameBalance
<1>14. CASE i # j
  <2>1. /\ Cardinality(LoginsFor(i)) \in Nat /\ Cardinality(LoginsFor(i)') \in Nat
        /\ Cardinality(LoginsFor(i)') <= Cardinality(LoginsFor(i))
    BY <1>2, GameKeeps
  <2>2. Cardinality(LoginsFor(i)') <= Cardinality(LoginsFor(i)) + 0
    BY <2>1
  <2>3. /\ Cardinality(PlayersIn(i)') \in Nat /\ Cardinality(PlayersIn(i)) \in Nat
        /\ Cardinality(PlayersIn(i)') <= Cardinality(PlayersIn(i))
    BY <1>9, <1>10, <1>14, FewerNeed
  <2>4. Cardinality(PlayersIn(i)') <= Cardinality(PlayersIn(i)) + 0
    BY <2>3
  <2>5. slots'[i].sticky >= slots[i].sticky + 0 + 0 + 0 + 0
    BY <1>6
  <2> QED BY <1>2, <1>11, <1>12, <2>2, <2>3, <2>4, <2>5, GameBalance
<1> QED BY <1>13, <1>14

LEMMA DeleteCounts ==
    ASSUME VoiceInv, SlotInv, NEW ch \in Characters, Delete(ch), NEW i \in Slots,
           slots[i].character # Nobody, slots'[i].character = slots[i].character,
           slots'[i].sticky \in Int
    PROVE  slots'[i].sticky >= Holders(i)'
<1> USE DEF Player
<1> DEFINE j == players[ch].slot
<1>1. /\ Playing /\ players[ch].there /\ UNCHANGED <<players, replies>> /\ GameThread
      /\ game'.at = "release" /\ game'.who = ch
  BY DEF Delete, GameThread, rest
<1>2. ~Attach /\ ~Leaving(ch) /\ ~Bury /\ game.at = "loop"
  BY <1>1, PlayingStays DEF Attach, Bury
<1>3. j \in Slots /\ slots \in [Slots -> SlotRecord] /\ slots[i].sticky \in Int
  BY <1>1, <1>2, PlayFacts, HoldersFinite DEF VoiceInv, Shaped
<1>4. PICK d : slots' = [slots EXCEPT ![j] = [@ EXCEPT !.dirty = TRUE, !.data = d,
                                                       !.sticky = slots[j].sticky - 1]]
  BY DEF Delete
<1>5. i = j => ch \in PlayersIn(i) /\ ch \notin PlayersIn(i)'
  BY <1>1, <1>2 DEF PlayersIn, InWorld, Leaving
<1> HIDE DEF j
<1>6. Becomes(j, slots[j].character, slots[j].locked, slots[j].sticky - 1)
  BY <1>3, <1>4, FinishBecomes
<1>7. MailNeeds(i)' <= MailNeeds(i)
  BY <1>1, <1>2 DEF MailNeeds
<1>8. CASE i # j
  <2>1. slots'[i].sticky >= slots[i].sticky
    BY <1>3, <1>6, <1>8 DEF Becomes
  <2> QED BY <1>1, <1>2, <1>7, <2>1, GamePlain
<1>9. CASE i = j
  <2>1. PlayersIn(i)' \subseteq PlayersIn(i) \ {ch} /\ IsFiniteSet(PlayersIn(i))
    BY <1>1, <1>2, <1>5, <1>9, GamePlayers, HoldersFinite
  <2>2. /\ Cardinality(PlayersIn(i)) \in Nat /\ Cardinality(PlayersIn(i)') \in Nat
        /\ Cardinality(PlayersIn(i)') <= Cardinality(PlayersIn(i)) - 1
    BY <1>5, <1>9, <2>1, OneLessNeeds
  <2>3. PICK p \in Int : p = 0 - 1
    OBVIOUS
  <2>4. Cardinality(PlayersIn(i)') <= Cardinality(PlayersIn(i)) + p
    BY <2>2, <2>3
  <2>5. slots'[i].sticky >= slots[i].sticky + 0 + p + 0 + 0
    <3>1. slots'[i].sticky = slots[i].sticky - 1
      BY <1>6, <1>9 DEF Becomes
    <3> QED BY <1>3, <2>3, <3>1
  <2>6. Cardinality(LoginsFor(i)') <= Cardinality(LoginsFor(i)) + 0
    BY <1>1, GameKeeps
  <2>7. /\ Cardinality(MailFor(i)') \in Nat
        /\ Cardinality(MailFor(i)') <= Cardinality(MailFor(i)) + 0
    BY <1>1, MailStays
  <2>8. MailNeeds(i)' <= MailNeeds(i) + 0
    BY <1>7 DEF MailNeeds
  <2> QED BY <1>1, <2>2, <2>3, <2>4, <2>5, <2>6, <2>7, <2>8, GameBalance
<1> QED BY <1>8, <1>9

LEMMA TakeReplyCounts ==
    ASSUME VoiceInv, SlotInv, TakeReply, NEW i \in Slots,
           slots[i].character # Nobody, slots'[i].character = slots[i].character,
           slots'[i].sticky \in Int
    PROVE  slots'[i].sticky >= Holders(i)'
<1>1. /\ GameThread /\ ~Attach /\ game.at = "loop" /\ replies # <<>> /\ replies' = Tail(replies)
      /\ slots \in [Slots -> SlotRecord] /\ slots[i].sticky \in Int
  BY PlayingStays, HoldersFinite DEF TakeReply, Attach, GameThread, GameStep, VoiceInv, Shaped
<1>2. CASE UNCHANGED <<slots, game>>
  <2>1. slots'[i].sticky >= slots[i].sticky
    BY <1>1, <1>2
  <2>2. MailNeeds(i)' <= MailNeeds(i)
    BY <1>2 DEF MailNeeds
  <2> QED BY <1>1, <2>1, <2>2, GamePlain
<1>3. CASE ~UNCHANGED <<slots, game>>
  <2>1. PICK j \in SlotsOf(Head(replies)) :
           /\ slots[j].locked = Nobody /\ slots' = [slots EXCEPT ![j].locked = Game]
           /\ game' = [at |-> "mail", who |-> Head(replies), slot |-> j]
    BY <1>3 DEF TakeReply
  <2>2. j \in Slots /\ slots[j].character = Head(replies)
    BY <2>1 DEF SlotsOf
  <2>3. Becomes(j, slots[j].character, Game, slots[j].sticky)
    BY <1>1, <2>1, <2>2, LockBecomes
  <2>4. slots'[i].sticky = slots[i].sticky
    BY <2>3 DEF Becomes
  <2>5. CASE i # j
    <3>1. slots'[i].sticky >= slots[i].sticky
      BY <1>1, <2>4
    <3>2. MailNeeds(i)' <= MailNeeds(i)
      BY <2>1, <2>5 DEF MailNeeds
    <3> QED BY <1>1, <3>1, <3>2, GamePlain
  <2>6. CASE i = j
    <3>1. PICK z, m, g \in Int : z = 0 /\ m = 0 - 1 /\ g = 1
      OBVIOUS
    <3>2. /\ Cardinality(LoginsFor(i)') <= Cardinality(LoginsFor(i)) + z
          /\ Cardinality(PlayersIn(i)') \in Nat
          /\ Cardinality(PlayersIn(i)') <= Cardinality(PlayersIn(i)) + z
      BY <1>1, <3>1, GameKeeps
    <3>3. /\ Cardinality(MailFor(i)') \in Nat /\ Cardinality(MailFor(i)) \in Nat
          /\ Cardinality(MailFor(i)') <= Cardinality(MailFor(i)) - 1
      BY <1>1, <2>2, <2>6, MailTaken
    <3>4. /\ Cardinality(MailFor(i)') \in Nat
          /\ Cardinality(MailFor(i)') <= Cardinality(MailFor(i)) + m
      BY <3>1, <3>3
    <3>5. MailNeeds(i)' <= MailNeeds(i) + g
      BY <3>1 DEF MailNeeds
    <3>6. slots'[i].sticky >= slots[i].sticky + z + z + m + g
      BY <1>1, <2>4, <3>1
    <3> QED BY <1>1, <3>1, <3>2, <3>4, <3>5, <3>6, GameBalance
  <2> QED BY <2>5, <2>6
<1> QED BY <1>2, <1>3

LEMMA SendMailsCounts ==
    ASSUME VoiceInv, SlotInv, SendMails, NEW i \in Slots,
           slots[i].character # Nobody, slots'[i].character = slots[i].character,
           slots'[i].sticky \in Int
    PROVE  slots'[i].sticky >= Holders(i)'
<1> DEFINE j == game.slot
<1>1. /\ GameThread /\ ~Attach /\ game.at = "mail" /\ game' = Loop /\ UNCHANGED replies
      /\ slots \in [Slots -> SlotRecord] /\ slots[i].sticky \in Int /\ j \in Slots
  BY HoldersFinite DEF SendMails, Attach, GameThread, GameStep, VoiceInv, Shaped, SlotInv,
     GameHolds, GameHold, rest
<1>2. slots' = [slots EXCEPT ![j] = [@ EXCEPT !.dirty = TRUE,
                                  !.sticky = slots[j].sticky - 1, !.locked = Nobody]]
  BY DEF SendMails, SlotInv, GameHolds, GameHold
<1>3. MailNeeds(i)' = 0 /\ MailNeeds(i) \in {0, 1} /\ (i = j => MailNeeds(i) = 1)
  BY <1>1 DEF MailNeeds, Loop
<1> HIDE DEF j
<1>4. Becomes(j, slots[j].character, Nobody, slots[j].sticky - 1)
  BY <1>1, <1>2, FinishBecomes
<1>5. CASE i # j
  <2>1. slots'[i].sticky >= slots[i].sticky
    BY <1>1, <1>4, <1>5 DEF Becomes
  <2>2. MailNeeds(i)' <= MailNeeds(i)
    BY <1>3
  <2> QED BY <1>1, <2>1, <2>2, GamePlain
<1>6. CASE i = j
  <2>1. PICK z, g \in Int : z = 0 /\ g = 0 - 1
    OBVIOUS
  <2>2. /\ Cardinality(LoginsFor(i)') <= Cardinality(LoginsFor(i)) + z
        /\ Cardinality(PlayersIn(i)') \in Nat
        /\ Cardinality(PlayersIn(i)') <= Cardinality(PlayersIn(i)) + z
    BY <1>1, <2>1, GameKeeps
  <2>3. /\ Cardinality(MailFor(i)') \in Nat
        /\ Cardinality(MailFor(i)') <= Cardinality(MailFor(i)) + z
    BY <1>1, <2>1, MailStays
  <2>4. MailNeeds(i)' <= MailNeeds(i) + g
    BY <1>3, <1>6, <2>1
  <2>5. slots'[i].sticky = slots[i].sticky - 1
    BY <1>4, <1>6 DEF Becomes
  <2>6. slots'[i].sticky >= slots[i].sticky + z + z + z + g
    BY <1>1, <2>1, <2>5
  <2> QED BY <1>1, <2>1, <2>2, <2>3, <2>4, <2>6, GameBalance
<1> QED BY <1>5, <1>6

LEMMA GameCounts ==
    ASSUME VoiceInv, VoiceInv', SlotInv, GameThread
    PROVE  Counted'
<1> SUFFICES ASSUME NEW i \in Slots, slots'[i].character # Nobody
             PROVE  slots'[i].sticky >= Holders(i)'
  BY DEF Counted
<1>1. slots'[i].sticky \in Int /\ slots[i].sticky \in Int
  <2>1. slots' \in [Slots -> SlotRecord] /\ slots \in [Slots -> SlotRecord]
    BY DEF VoiceInv, Shaped
  <2>2. slots'[i] \in SlotRecord /\ slots[i] \in SlotRecord
    BY <2>1
  <2> QED BY <2>2 DEF SlotRecord
<1>2. slots'[i].character = slots[i].character
  BY GameCareful
<1>3. ASSUME slots'[i].sticky = slots[i].sticky, UNCHANGED replies, ~Attach,
             UNCHANGED game \/ game'.at # "mail"
      PROVE  slots'[i].sticky >= Holders(i)'
  <2>1. MailNeeds(i)' <= MailNeeds(i)
    BY <1>3 DEF MailNeeds
  <2>2. slots'[i].sticky >= slots[i].sticky
    BY <1>1, <1>3
  <2> QED BY <1>1, <1>2, <1>3, <2>1, <2>2, GamePlain
<1>4. CASE \/ \E c \in Conns : JoinNew(c) \/ LogOut(c, TRUE) \/ LogOut(c, FALSE) \/ LetGo(c)
           \/ \E ch \in Characters : Die(ch) \/ OrderMail(ch)
  <2>1. /\ UNCHANGED <<slots, replies>> /\ Playing
        /\ UNCHANGED game \/ game'.at = "attach"
    <3>1. ASSUME NEW c \in Conns, JoinNew(c)
          PROVE  UNCHANGED <<slots, replies>> /\ Playing /\ game'.at = "attach"
      BY <3>1 DEF JoinNew
    <3>2. ASSUME NEW c \in Conns, LogOut(c, TRUE) \/ LogOut(c, FALSE) \/ LetGo(c)
          PROVE  UNCHANGED <<slots, replies, game>> /\ Playing
      BY <3>2 DEF LogOut, LetGo
    <3>3. ASSUME NEW ch \in Characters, Die(ch) \/ OrderMail(ch)
          PROVE  UNCHANGED <<slots, replies, game>> /\ Playing
      BY <3>3 DEF Die, OrderMail
    <3> QED BY <1>4, <3>1, <3>2, <3>3
  <2>2. ~Attach
    BY <2>1, PlayingStays DEF Attach
  <2> QED BY <1>3, <2>1, <2>2
<1>5. CASE Bury
  <2>1. slots \in [Slots -> SlotRecord]
    BY DEF VoiceInv, Shaped
  <2>2. slots'[i].sticky = slots[i].sticky
    BY <1>5, <2>1, BuryPool DEF OnlyData
  <2>3. UNCHANGED replies /\ ~Attach /\ game'.at # "mail"
    BY <1>5 DEF Bury, Loop, Attach
  <2> QED BY <1>3, <2>2, <2>3
<1>6. CASE ReleaseSlot
  <2>1. /\ game.at = "release" /\ game.slot \in Slots /\ UNCHANGED replies
        /\ slots \in [Slots -> SlotRecord] /\ Release(game.slot, Game)
        /\ slots[game.slot].locked = Game
        /\ game' = [game EXCEPT !.at = "bury"]
        /\ game = [at |-> game.at, who |-> game.who, slot |-> game.slot]
    BY <1>6 DEF ReleaseSlot, VoiceInv, Shaped, Waiting, SlotInv, GameHolds, GameHold
  <2>2. game'.at = "bury"
    BY ONLY <2>1
  <2>3. PICK j \in Slots : j = game.slot
    BY <2>1
  <2>4. Becomes(j, slots[j].character, Nobody, slots[j].sticky)
    BY <2>1, <2>3, StickBecomes
  <2>5. slots'[i].sticky = slots[i].sticky
    BY <2>4 DEF Becomes
  <2> QED BY <1>3, <2>1, <2>2, <2>5 DEF Attach
<1> QED BY <1>1, <1>2, <1>4, <1>5, <1>6, AttachWorks, AttachCounts, TakeReplyCounts,
        SendMailsCounts, JoinCounts, DeleteCounts DEF GameThread, GameStep

-----------------------------------------------------------------------------
(* The invariant holds in every state.                                       *)

LEMMA InitSlots == ASSUME Init PROVE SlotInv
<1>1. /\ \A i \in Slots : slots[i] = Empty
      /\ \A c \in Conns : conns[c] = Free
      /\ \A ch \in Characters : players[ch] = Absent
      /\ game = Loop /\ reader = Idle /\ writer = Idle /\ replies = <<>>
  BY DEF Init
<1>2. /\ Empty.character = Nobody /\ Empty.locked = Nobody /\ Empty.sticky = 0
      /\ Free.state = "FREE" /\ Free.at = "idle" /\ ~Absent.there
      /\ Loop.at = "loop" /\ Idle.at = "idle"
  BY DEF Empty, Free, Absent, Loop, Idle
<1>3. Unique /\ Counted
  BY <1>1, <1>2 DEF Unique, Counted
<1>4. LocksKnown /\ ConnHolds
  BY <1>1, <1>2, Distinct DEF LocksKnown, LockKnown, ConnHolds, ConnHold
<1>5. FilersHold
  BY <1>1, <1>2 DEF FilersHold
<1>6. GameHolds
  BY <1>1, <1>2 DEF GameHolds, GameHold, PlayerHold, Leaving
<1> QED BY <1>3, <1>4, <1>5, <1>6 DEF SlotInv

LEMMA SlotInvSame == ASSUME SlotInv, UNCHANGED vars PROVE SlotInv'
<1>1. UNCHANGED <<slots, conns, players, game, reader, writer, replies>>
  BY DEF vars
<1>2. Unique' /\ LocksKnown' /\ ConnHolds' /\ FilersHold'
  BY <1>1 DEF SlotInv, Unique, LocksKnown, LockKnown, ConnHolds, ConnHold, FilersHold, Own,
     Loaded, SlotsOf
<1>3. GameHolds'
  BY <1>1 DEF SlotInv, GameHolds, GameHold, PlayerHold, Leaving
<1>4. \A i \in Slots : LoginsFor(i)' = LoginsFor(i) /\ PlayersIn(i)' = PlayersIn(i)
                       /\ MailFor(i)' = MailFor(i)
  BY <1>1 DEF LoginsFor, At, Own, PlayersIn, InWorld, Leaving, MailFor
<1>5. \A i \in Slots : Holders(i)' = Holders(i)
  BY <1>1, <1>4 DEF Holders
<1>6. Counted'
  BY <1>1, <1>5 DEF SlotInv, Counted
<1> QED BY <1>2, <1>3, <1>6 DEF SlotInv

LEMMA StepSlots == ASSUME VoiceInv, SlotInv, ~misled', [Next]_vars PROVE SlotInv'
<1>1. VoiceInv'
  BY StepVoice
<1>2. CASE UNCHANGED vars
  BY <1>2, SlotInvSame
<1>3. CASE Next
  <2>1. ASSUME NEW c \in Conns, CommunicationThread(c) PROVE HoldInv' /\ Counted'
    BY <1>1, <2>1, CommHolds, CommCounts
  <2>2. ASSUME GameThread PROVE HoldInv' /\ Counted'
    BY <1>1, <2>2, GameThreadHolds, GameCounts
  <2>3. ASSUME ReaderThread PROVE HoldInv' /\ Counted'
    BY <1>1, <2>3, ReaderThreadHolds, ReaderCounts
  <2>4. ASSUME WriterThread PROVE HoldInv' /\ Counted'
    BY <1>1, <2>4, WriterThreadHolds, WriterCounts
  <2> QED BY <1>3, <2>1, <2>2, <2>3, <2>4 DEF Next, HoldInv, SlotInv
<1> QED BY <1>2, <1>3

\* Once a load has failed under somebody, that is not forgotten.
LEMMA MisledStays == ASSUME [Next]_vars, ~misled' PROVE ~misled
<1>1. misled' = misled \/ \E i : FailToLoad(i) \/ Forget(i)
  <2>1. CASE UNCHANGED vars
    BY <2>1 DEF vars
  <2>2. ASSUME NEW c \in Conns, CommunicationThread(c)
        PROVE  misled' = misled \/ \E i : FailToLoad(i) \/ Forget(i)
    BY <2>2 DEF CommunicationThread, Register, AssignSlot, FindNoSlot, LoadSlot, LoadFails,
       ForgetSlot, BlockLogin, KeepSlot, UnlockSlot, CallGameThread, FreeConnection, trouble
  <2>3. ASSUME GameThread PROVE misled' = misled
    BY <2>3 DEF GameThread, GameStep, Attach, AttachFails, ReleaseSlot, Bury, SendMails,
       TakeReply, JoinNew, JoinRefused, TakeOver, LogOut, LetGo, Die, Delete, OrderMail,
       rest, trouble
  <2>4. ASSUME ReaderThread PROVE misled' = misled \/ \E i : FailToLoad(i) \/ Forget(i)
    BY <2>4 DEF ReaderThread, ReaderTakesOrder, ReaderAssigns, ReaderFindsNoSlot,
       ReaderLoads, ReaderLoadFails, ReaderForgets, ReaderGivesUp, ReaderKeeps,
       ReaderTriesAgain, ReaderReplies, trouble
  <2>5. ASSUME WriterThread PROVE misled' = misled
    BY <2>5 DEF WriterThread, WriterPicks, WriterAttaches, WriterSaves, unwritten, trouble
  <2> QED BY <2>1, <2>2, <2>3, <2>4, <2>5 DEF Next
<1> QED BY <1>1, Zenon DEF FailToLoad, Forget

\* The pool is in order until a load fails under somebody who counts on it.
InOrder == misled \/ SlotInv

LEMMA StepInOrder == ASSUME VoiceInv, InOrder, [Next]_vars PROVE InOrder'
<1> SUFFICES ASSUME ~misled' PROVE SlotInv'
  BY DEF InOrder
<1>1. SlotInv
  BY MisledStays DEF InOrder
<1> QED BY <1>1, StepSlots

LEMMA NeededInOrder == ASSUME InOrder PROVE NeededSlotStays
  BY DEF InOrder, SlotInv, Counted, GameHolds, GameHold, NeededSlotStays

\* However many threads work on the pool, whichever loads fail and wherever a
\* dead player's things are written late, no slot is given to another character
\* while a login, a player, an answered mail order, the reader or the game
\* thread still needs it: Sticky covers all of them (AssignPlayerPoolSlot and
\* those who count, crmain.cc) until a load fails on a slot that somebody else
\* has counted.
THEOREM NeededStays == Spec => []NeededSlotStays
<1>1. InOrder => NeededSlotStays
  BY NeededInOrder
<1>2. VoiceInv /\ InOrder /\ [Next]_vars => VoiceInv' /\ InOrder'
  BY StepVoice, StepInOrder
<1>3. Init => VoiceInv /\ InOrder
  BY InitVoice, InitSlots DEF InOrder
<1> QED BY <1>1, <1>2, <1>3, PTL DEF Spec

LEMMA LoginHasData == ASSUME VoiceInv, InOrder PROVE LoginFindsItsData
<1> SUFFICES ASSUME SlotInv, NEW c \in Conns, conns[c].state = "LOGIN"
             PROVE  LET ch == conns[c].character
                    IN  /\ ch = conns[c].who
                        /\ Cardinality(SlotsOf(ch)) = 1
                        /\ Player(ch).there /\ ~Leaving(ch) =>
                              /\ slots[SlotOf(ch)].locked = Game
                              /\ slots[SlotOf(ch)].sticky > 1
  BY DEF LoginFindsItsData, InOrder
<1>1. PICK ch \in Characters : ch = conns[c].character
  BY JoinFacts
<1>2. PICK i \in Slots : i = SlotOf(ch)
  BY <1>1, JoinFacts
<1>3. /\ ch = conns[c].who /\ slots[i].character = ch /\ ch # Nobody
      /\ \A j \in Slots : slots[j].character = ch => j = i
  BY <1>1, <1>2, JoinFacts, Distinct
<1>4. Cardinality(SlotsOf(ch)) = 1
  <2>1. SlotsOf(ch) = {i}
    BY <1>3 DEF SlotsOf
  <2> QED BY <2>1, FS_Singleton
<1>5. ASSUME players[ch].there, ~Leaving(ch)
      PROVE  slots[i].locked = Game /\ slots[i].sticky > 1
  <2>1. players[ch].slot = i /\ slots[i].locked = Game
    BY <1>3, <1>5, PlayFacts
  <2>2. c \in LoginsFor(i) /\ ch \in PlayersIn(i)
    BY <1>1, <1>3, <1>5, <2>1 DEF LoginsFor, PlayersIn, InWorld
  <2> DEFINE l == Cardinality(LoginsFor(i))
             p == Cardinality(PlayersIn(i))
             m == Cardinality(MailFor(i))
  <2>3. /\ l \in Nat \ {0} /\ p \in Nat \ {0} /\ m \in Nat /\ slots[i].sticky \in Int
        /\ slots[i].sticky >= Holders(i)
    BY <1>3, <2>2, HoldersFinite, SomeIsOne
  <2>4. Holders(i) = l + p + m + ReaderNeeds(i) + MailNeeds(i)
    BY DEF Holders, ReaderNeeds, MailNeeds
  <2>5. ReaderNeeds(i) \in Nat /\ MailNeeds(i) \in Nat
    BY DEF ReaderNeeds, MailNeeds
  <2> HIDE DEF l, p, m
  <2>6. slots[i].sticky > 1
    BY <2>3, <2>4, <2>5
  <2> QED BY <2>1, <2>6
<1> QED BY <1>1, <1>2, <1>3, <1>4, <1>5 DEF Player

\* Whoever's load fails elsewhere, until one fails under somebody a login that
\* the game thread reads finds its character's data: the error branches of new
\* TPlayer, JoinGame and TPlayer::TakeOver (no slot, a slot the game thread has
\* not locked, a wrong Sticky) are never taken.
THEOREM LoginsFindTheirData == Spec => []LoginFindsItsData
<1>1. VoiceInv /\ InOrder => LoginFindsItsData
  BY LoginHasData
<1>2. VoiceInv /\ InOrder /\ [Next]_vars => VoiceInv' /\ InOrder'
  BY StepVoice, StepInOrder
<1>3. Init => VoiceInv /\ InOrder
  BY InitVoice, InitSlots DEF InOrder
<1> QED BY <1>1, <1>2, <1>3, PTL DEF Spec
=============================================================================
