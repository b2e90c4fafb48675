----------------------------- MODULE PlayerPool -----------------------------
(* Who owns a character (communication.cc, connections.cc, crplayer.cc,      *)
(* crmain.cc, reader.cc, writer.cc of the game service).                     *)
(*                                                                           *)
(* The data of a character lives in a slot of PlayerDataPool.  A slot has a  *)
(* lock (the thread that may touch the data) and a counter, Sticky, of those *)
(* who will still need it; a slot with neither may be given to another       *)
(* character.  Four kinds of threads work on the pool: one communication     *)
(* thread per connection (it registers a login and loads the data), the game *)
(* thread (players enter, are taken over, leave), the reader (it loads the   *)
(* data of an absent player who gets mail) and the writer (it saves).        *)
EXTENDS Integers, Sequences, FiniteSets

CONSTANTS
    Characters,
    Conns,          \* the connection table, one communication thread each
    Slots,          \* the indices of PlayerDataPool
    Nobody,         \* no character, no connection, no slot
    Game, Reader, Writer,   \* the ids of the other threads
    MaxLogins,      \* bound: logins the query manager accepts
    MaxMails,       \* bound: mail sent to characters that are offline
    MaxFailures,    \* bound: loads that fail
    MaxSticky       \* bound: the reader does not try again past this

ASSUME ThreadsAssumption ==
    /\ Nobody \notin Characters \cup Conns \cup Slots
    /\ {Game, Reader, Writer} \cap (Conns \cup {Nobody}) = {}
    /\ Cardinality({Game, Reader, Writer}) = 3
\* The table has MAX_CONNECTIONS entries.
ASSUME TableAssumption == IsFiniteSet(Conns)
ASSUME BoundsAssumption == /\ MaxLogins \in Nat
                           /\ MaxMails \in Nat
                           /\ MaxFailures \in Nat
                           /\ MaxSticky \in Nat

VARIABLES
    slots,      \* PlayerDataPool
    file,       \* what the character's file records
    conns,      \* the connections and where their threads are
    players,    \* TPlayer of each character, Absent if there is none
    game,       \* where the game thread is
    reader,     \* where the reader is
    orders,     \* its orders, oldest first
    replies,    \* its replies, oldest first
    writer,     \* where the writer is
    isOnline,   \* the query manager's count of logins of each character
    logins, mails, failures,
    \* What has gone wrong so far, for the properties only.
    misled,     \* a load failed under somebody else who counted on the slot
    spoiled     \* the characters whose stored things a late write may have hit

vars == <<slots, file, conns, players, game, reader, orders, replies, writer,
          isOnline, logins, mails, failures, misled, spoiled>>

-----------------------------------------------------------------------------
\* Stored data: how often the character has left, and whose things its
\* inventory holds (Nobody's if there is no inventory).
Fresh(ch) == [visits |-> 0, things |-> ch]

Empty == [character |-> Nobody, locked |-> Nobody, sticky |-> 0,
          dirty |-> FALSE, data |-> Fresh(Nobody)]
Free == [state |-> "FREE", who |-> Nobody, at |-> "idle", slot |-> Nobody,
         character |-> Nobody]
Absent == [there |-> FALSE, slot |-> Nobody, connection |-> Nobody,
           isDead |-> FALSE, loggingOut |-> FALSE, logoutAllowed |-> FALSE,
           data |-> Fresh(Nobody)]
Loop == [at |-> "loop", who |-> Nobody, slot |-> Nobody]
Idle == [at |-> "idle", who |-> Nobody, slot |-> Nobody]

Init ==
    /\ slots = [i \in Slots |-> Empty]
    /\ file = [ch \in Characters |-> Fresh(ch)]
    /\ conns = [c \in Conns |-> Free]
    /\ players = [ch \in Characters |-> Absent]
    /\ game = Loop
    /\ reader = Idle /\ orders = <<>> /\ replies = <<>>
    /\ writer = Idle
    /\ isOnline = [ch \in Characters |-> 0]
    /\ logins = 0 /\ mails = 0 /\ failures = 0
    /\ misled = FALSE /\ spoiled = {}

-----------------------------------------------------------------------------
(* The pool.  PlayerDataPoolMutex makes each of these one step.              *)

\* GetPlayerPoolSlot: the slots of this character (one at most).
SlotsOf(ch) == {i \in Slots : slots[i].character = ch}
Loaded(ch) == SlotsOf(ch) # {}
SlotOf(ch) == CHOOSE i \in SlotsOf(ch) : TRUE

\* The definitions named Bug... are plausible mistakes in the operator they
\* stand before; nothing uses them.
BugUnlockedIsUnused == {i \in Slots : slots[i].locked = Nobody}

\* The slots AssignPlayerPoolSlot may give away: an empty one if there is any,
\* else one nobody needs, and a clean one of those if there is any.
Unused == {i \in Slots : slots[i].locked = Nobody /\ slots[i].sticky = 0}
Clean == {i \in Unused : ~slots[i].dirty}
Takeable == IF SlotsOf(Nobody) # {} THEN SlotsOf(Nobody)
            ELSE IF Clean # {} THEN Clean ELSE Unused

\* FreePlayerPoolSlot saves a dirty slot before it is reused.
Saved(i) == IF slots[i].character # Nobody /\ slots[i].dirty
            THEN [file EXCEPT ![slots[i].character] = slots[i].data]
            ELSE file

BugLockedNotCounted(ch, thread, i, fresh) ==
    IF Loaded(ch)
    THEN /\ i = SlotOf(ch)
         /\ fresh = FALSE
         /\ slots' = [slots EXCEPT ![i].locked = IF @ = Nobody THEN thread ELSE @]
         /\ UNCHANGED file
    ELSE /\ i \in Takeable
         /\ fresh = TRUE
         /\ file' = Saved(i)
         /\ slots' = [slots EXCEPT ![i] =
                        [Empty EXCEPT !.character = ch, !.locked = thread]]

\* AssignPlayerPoolSlot(ch, DontWait = true) by a thread: the slot is locked
\* if nobody has it, and only counted if somebody does; a character without a
\* slot gets one, locked, its data still to be loaded.
Assign(ch, thread, i, fresh) ==
    IF Loaded(ch)
    THEN /\ i = SlotOf(ch)
         /\ fresh = FALSE
         /\ slots' = IF slots[i].locked = Nobody
                     THEN [slots EXCEPT ![i].locked = thread]
                     ELSE [slots EXCEPT ![i].sticky = @ + 1]
         /\ UNCHANGED file
    ELSE /\ i \in Takeable
         /\ fresh = TRUE
         /\ file' = Saved(i)
         /\ slots' = [slots EXCEPT ![i] =
                        [Empty EXCEPT !.character = ch, !.locked = thread]]

NoSlotFor(ch) == ~Loaded(ch) /\ Takeable = {}

Stick(i) == slots' = [slots EXCEPT ![i].sticky = @ + 1]
Unstick(i) == slots' = [slots EXCEPT ![i].sticky = @ - 1]
\* ReleasePlayerPoolSlot: only an error message if another thread has the lock.
Release(i, thread) ==
    slots' = [slots EXCEPT ![i].locked = IF @ = thread THEN Nobody ELSE @]

\* LoadPlayerData for ch, with the slot locked.
Load(i, ch) == slots' = [slots EXCEPT ![i].data = file[ch]]

\* LoadPlayerData fails, for what it reads or for want of memory.  Without the
\* mutex AssignPlayerPoolSlot takes the character out of the slot, whoever has
\* counted on it by now ...
FailToLoad(i) ==
    /\ failures < MaxFailures
    /\ failures' = failures + 1
    /\ slots' = [slots EXCEPT ![i] = [@ EXCEPT !.character = Nobody,
                                              !.data = Fresh(Nobody)]]
    /\ misled' = (misled \/ slots[i].sticky # 0)

\* ... and then unlocks it, whoever has taken the empty slot by now.
Forget(i) ==
    /\ slots' = [slots EXCEPT ![i].locked = Nobody]
    /\ misled' = (misled \/ (slots[i].character # Nobody /\ slots[i].locked # Nobody))

-----------------------------------------------------------------------------
(* The communication thread of connection c: PerformRegistration, the rest   *)
(* of HandleLogin, and the end of CommunicationThread.                       *)

others == <<players, game, reader, orders, replies, writer, mails, spoiled>>
trouble == <<failures, misled>>

At(c, point) == conns[c].at = point
Own(c) == slots[conns[c].slot].locked = c

\* The query manager accepts the login and counts it.
Register(c) ==
    /\ conns[c].state = "FREE"
    /\ logins < MaxLogins
    /\ \E ch \in Characters :
          /\ conns' = [conns EXCEPT ![c] = [@ EXCEPT !.state = "CONNECTED",
                                                     !.who = ch, !.at = "assign"]]
          /\ isOnline' = [isOnline EXCEPT ![ch] = @ + 1]
    /\ logins' = logins + 1
    /\ UNCHANGED <<slots, file, trouble, others>>

AssignSlot(c) ==
    /\ At(c, "assign")
    /\ \E i \in Slots, fresh \in BOOLEAN :
          /\ Assign(conns[c].who, c, i, fresh)
          /\ conns' = [conns EXCEPT ![c].slot = i,
                                    ![c].at = IF fresh THEN "load" ELSE "check"]
    /\ UNCHANGED <<isOnline, logins, trouble, others>>

\* "There are too many players online": the login is not counted any more.
FindNoSlot(c) ==
    /\ At(c, "assign")
    /\ NoSlotFor(conns[c].who)
    /\ isOnline' = [isOnline EXCEPT ![conns[c].who] = @ - 1]
    /\ conns' = [conns EXCEPT ![c] = [Free EXCEPT !.state = "DISCONNECTED"]]
    /\ UNCHANGED <<slots, file, logins, trouble, others>>

LoadSlot(c) ==
    /\ At(c, "load")
    /\ Load(conns[c].slot, conns[c].who)
    /\ conns' = [conns EXCEPT ![c].at = "check"]
    /\ UNCHANGED <<file, isOnline, logins, trouble, others>>

LoadFails(c) ==
    /\ At(c, "load")
    /\ FailToLoad(conns[c].slot)
    /\ conns' = [conns EXCEPT ![c].at = "forget"]
    /\ UNCHANGED <<file, isOnline, logins, others>>

\* The login ends as if there had been no slot.
ForgetSlot(c) ==
    /\ At(c, "forget")
    /\ Forget(conns[c].slot)
    /\ isOnline' = [isOnline EXCEPT ![conns[c].who] = @ - 1]
    /\ conns' = [conns EXCEPT ![c] = [Free EXCEPT !.state = "DISCONNECTED"]]
    /\ UNCHANGED <<file, logins, failures, others>>

\* BlockLogin: a premium world, or the waiting list.  The query manager counts
\* off the character that is in the slot.
BlockLogin(c) ==
    /\ At(c, "check")
    /\ IF Own(c) THEN Release(conns[c].slot, c) ELSE Unstick(conns[c].slot)
    /\ isOnline' = [ch \in Characters |->
          isOnline[ch] - (IF ch = slots[conns[c].slot].character THEN 1 ELSE 0)]
    /\ conns' = [conns EXCEPT ![c] = [Free EXCEPT !.state = "DISCONNECTED"]]
    /\ UNCHANGED <<file, logins, trouble, others>>

BugUnlockedUncounted(c) ==
    /\ At(c, "check")
    /\ Own(c)
    /\ conns' = [conns EXCEPT ![c].at = "unlock"]
    /\ UNCHANGED <<slots, file, isOnline, logins, trouble, others>>

\* A locked slot is counted before it is unlocked.
KeepSlot(c) ==
    /\ At(c, "check")
    /\ Own(c)
    /\ Stick(conns[c].slot)
    /\ conns' = [conns EXCEPT ![c].at = "unlock"]
    /\ UNCHANGED <<file, isOnline, logins, trouble, others>>

BugNotUnlocked(c) ==
    /\ At(c, "unlock")
    /\ conns' = [conns EXCEPT ![c].at = "call"]
    /\ UNCHANGED <<slots, file, isOnline, logins, trouble, others>>

UnlockSlot(c) ==
    /\ At(c, "unlock")
    /\ Release(conns[c].slot, c)
    /\ conns' = [conns EXCEPT ![c].at = "call"]
    /\ UNCHANGED <<file, isOnline, logins, trouble, others>>

\* The login is handed to the game thread, for the character in the slot.
CallGameThread(c) ==
    /\ \/ At(c, "call")
       \/ At(c, "check") /\ ~Own(c)
    /\ conns' = [conns EXCEPT ![c] = [@ EXCEPT !.state = "LOGIN", !.at = "idle",
                      !.slot = Nobody, !.character = slots[conns[c].slot].character]]
    /\ UNCHANGED <<slots, file, isOnline, logins, trouble, others>>

FreeConnection(c) ==
    /\ conns[c].state = "DISCONNECTED"
    /\ conns' = [conns EXCEPT ![c] = Free]
    /\ UNCHANGED <<slots, file, isOnline, logins, trouble, others>>

CommunicationThread(c) ==
    \/ Register(c) \/ AssignSlot(c) \/ FindNoSlot(c) \/ LoadSlot(c)
    \/ LoadFails(c) \/ ForgetSlot(c) \/ BlockLogin(c) \/ KeepSlot(c)
    \/ UnlockSlot(c) \/ CallGameThread(c) \/ FreeConnection(c)

-----------------------------------------------------------------------------
(* The game thread.                                                          *)

rest == <<reader, orders, writer, logins, failures, misled>>

Playing == game = Loop
Player(ch) == players[ch]
InWorld == {ch \in Characters : players[ch].there}

\* What LogoutPossible leaves in LogoutAllowed when it returns 0; a fight or
\* the field the player stands on may say no.
MayLeave(ch) == Player(ch).logoutAllowed \/ Player(ch).isDead

\* TConnection::Logout for the connections in cs, and what it does to the
\* player it spoke for.
LoggedOut(cs) == [c \in Conns |-> IF c \in cs
                  THEN [conns[c] EXCEPT !.state = "LOGOUT", !.character = Nobody]
                  ELSE conns[c]]
Disconnected(c) == [conns EXCEPT ![c] = [Free EXCEPT !.state = "DISCONNECTED"]]

\* JoinGame, the character not in the world: new TPlayer waits for the slot,
\* and the game thread with it.
JoinNew(c) ==
    /\ Playing
    /\ conns[c].state = "LOGIN"
    /\ conns[c].character \notin InWorld
    /\ game' = [at |-> "attach", who |-> c, slot |-> Nobody]
    /\ UNCHANGED <<slots, file, conns, players, replies, isOnline, mails, spoiled, rest>>

\* AttachPlayerPoolSlot(ch, false) and LoadData: the player enters with the
\* slot locked and the data in it.
Attach ==
    /\ game.at = "attach"
    /\ LET c == game.who
           ch == conns[c].character
       IN  /\ ch # Nobody
           /\ \E i \in SlotsOf(ch) :
              /\ slots[i].locked = Nobody
              /\ slots' = [slots EXCEPT ![i].locked = Game]
              /\ players' = [players EXCEPT ![ch] =
                    [Absent EXCEPT !.there = TRUE, !.slot = i, !.connection = c,
                                   !.data = slots[i].data]]
              /\ conns' = [conns EXCEPT ![c].state = "GAME"]
    /\ game' = Loop
    /\ UNCHANGED <<file, replies, isOnline, mails, spoiled, rest>>

\* new TPlayer finds no slot of this character: a ConstructError, and the
\* connection is closed.  Nobody counts the login off.
AttachFails ==
    /\ game.at = "attach"
    /\ LET ch == conns[game.who].character
       IN  ch = Nobody \/ ~Loaded(ch)
    /\ conns' = Disconnected(game.who)
    /\ game' = Loop
    /\ UNCHANGED <<slots, file, players, replies, isOnline, mails, spoiled, rest>>

\* JoinGame, the character dying or on its way out: the login lets go of the
\* slot and of its place in the query manager's count.
JoinRefused(c) ==
    /\ Playing
    /\ conns[c].state = "LOGIN"
    /\ LET ch == conns[c].character
       IN  /\ ch \in InWorld
           /\ Player(ch).isDead \/ Player(ch).loggingOut
           /\ IF Loaded(ch) THEN Unstick(SlotOf(ch)) ELSE UNCHANGED slots
           /\ players' = IF Player(ch).isDead THEN players
                         ELSE [players EXCEPT ![ch].logoutAllowed = TRUE]
           /\ isOnline' = [isOnline EXCEPT ![ch] = @ - 1]
    /\ conns' = Disconnected(c)
    /\ UNCHANGED <<file, game, replies, mails, spoiled, rest>>

BugOldVoiceKept(c) ==
    /\ Playing
    /\ conns[c].state = "LOGIN"
    /\ LET ch == conns[c].character
       IN  /\ ch \in InWorld
           /\ ~Player(ch).isDead
           /\ Player(ch).loggingOut => ~MayLeave(ch)
           /\ conns' = [conns EXCEPT ![c].state = "GAME"]
           /\ players' = [players EXCEPT ![ch] = [@ EXCEPT !.connection = c,
                             !.loggingOut = FALSE, !.logoutAllowed = FALSE]]
           /\ slots' = [slots EXCEPT ![SlotOf(ch)].sticky = @ - 1]
           /\ isOnline' = [isOnline EXCEPT ![ch] = @ - 1]
    /\ UNCHANGED <<file, game, replies, mails, spoiled, rest>>

\* JoinGame, the character in the world: the new connection takes it over and
\* the old one is logged out without it.
TakeOver(c) ==
    /\ Playing
    /\ conns[c].state = "LOGIN"
    /\ LET ch == conns[c].character
           old == {o \in Conns : o = Player(ch).connection}
       IN  /\ ch \in InWorld
           /\ ~Player(ch).isDead
           /\ Player(ch).loggingOut => ~MayLeave(ch)
           /\ conns' = [LoggedOut(old) EXCEPT ![c].state = "GAME"]
           /\ players' = [players EXCEPT ![ch] = [@ EXCEPT !.connection = c,
                             !.loggingOut = FALSE, !.logoutAllowed = FALSE]]
           /\ slots' = IF Loaded(ch) /\ slots[SlotOf(ch)].sticky > 1
                       THEN [slots EXCEPT ![SlotOf(ch)].sticky = @ - 1]
                       ELSE slots
           /\ isOnline' = [isOnline EXCEPT ![ch] = @ - 1]
    /\ UNCHANGED <<file, game, replies, mails, spoiled, rest>>

BugLogoutOrderedEarly(c, asked) ==
    /\ Playing
    /\ conns[c].state = "GAME"
    /\ LET ch == conns[c].character
       IN  /\ players' = [players EXCEPT ![ch] = [@ EXCEPT !.connection = Nobody,
                             !.loggingOut = TRUE,
                             !.logoutAllowed = Player(ch).logoutAllowed
                                            \/ (asked /\ ~Player(ch).isDead)]]
           /\ isOnline' = [isOnline EXCEPT ![ch] = @ - 1]
    /\ conns' = LoggedOut({c})
    /\ UNCHANGED <<slots, file, game, replies, mails, spoiled, rest>>

\* TConnection::Logout for a silent or lost connection, or CQuitGame, where
\* LogoutPossible has said yes: the player stays behind without a connection.
LogOut(c, asked) ==
    /\ Playing
    /\ conns[c].state = "GAME"
    /\ LET ch == conns[c].character
       IN  players' = [players EXCEPT ![ch] = [@ EXCEPT !.connection = Nobody,
                          !.loggingOut = TRUE,
                          !.logoutAllowed = Player(ch).logoutAllowed
                                            \/ (asked /\ ~Player(ch).isDead)]]
    /\ conns' = LoggedOut({c})
    /\ UNCHANGED <<slots, file, game, replies, isOnline, mails, spoiled, rest>>

\* TConnection::Process lets go of a connection that has logged out, or that
\* was lost before the game thread had read its login.
LetGo(c) ==
    /\ Playing
    /\ conns[c].state \in {"LOGOUT", "LOGIN"}
    /\ conns' = Disconnected(c)
    /\ UNCHANGED <<slots, file, players, game, replies, isOnline, mails, spoiled, rest>>

Die(ch) ==
    /\ Playing
    /\ Player(ch).there
    /\ ~Player(ch).isDead
    /\ players' = [players EXCEPT ![ch].isDead = TRUE, ![ch].loggingOut = TRUE]
    /\ UNCHANGED <<slots, file, conns, game, replies, isOnline, mails, spoiled, rest>>

\* What SaveData and SaveInventory store of a player who leaves.  A dead
\* player's inventory is deleted: ~TCreature is to save what is left of it.
Left(ch) == [visits |-> Player(ch).data.visits + 1,
             things |-> IF Player(ch).isDead THEN Nobody ELSE ch]

BugSlotNotDirty(ch) ==
    /\ Playing
    /\ Player(ch).there
    /\ Player(ch).loggingOut
    /\ LET i == Player(ch).slot
       IN  /\ slots' = [slots EXCEPT ![i] = [@ EXCEPT
                           !.data = Left(ch), !.sticky = slots[i].sticky - 1]]
           /\ game' = [at |-> "release", who |-> ch, slot |-> i]
    /\ isOnline' = [isOnline EXCEPT ![ch] = @ - 1]
    /\ spoiled' = spoiled \ {ch}
    /\ UNCHANGED <<file, conns, players, replies, mails, rest>>

\* ProcessCreatures deletes a player who may leave.  ~TPlayer: the logout is
\* ordered, the data saved into the slot, the slot counted down ...
Delete(ch) ==
    /\ Playing
    /\ Player(ch).there
    /\ Player(ch).loggingOut
    /\ LET i == Player(ch).slot
       IN  /\ slots' = [slots EXCEPT ![i] = [@ EXCEPT !.dirty = TRUE,
                           !.data = Left(ch), !.sticky = slots[i].sticky - 1]]
           /\ game' = [at |-> "release", who |-> ch, slot |-> i]
    /\ isOnline' = [isOnline EXCEPT ![ch] = @ - 1]
    /\ spoiled' = spoiled \ {ch}
    /\ UNCHANGED <<file, conns, players, replies, mails, rest>>

\* ... and unlocked, ...
ReleaseSlot ==
    /\ game.at = "release"
    /\ Release(game.slot, Game)
    /\ game' = [game EXCEPT !.at = "bury"]
    /\ UNCHANGED <<file, conns, players, replies, isOnline, mails, spoiled, rest>>

\* SaveInventory once more: into a slot that is counted down and unlocked, and
\* without setting Dirty.  What it writes is kept if the slot is the
\* character's still, waits to be saved, and is not being saved right now.
SaveInventoryLate(i, ch) ==
    /\ slots' = [slots EXCEPT ![i].data.things = ch]
    /\ spoiled' = IF slots[i].character = ch /\ slots[i].dirty
                     /\ slots[i].locked # Writer
                  THEN spoiled
                  ELSE spoiled \cup ({ch, slots[i].character} \ {Nobody})

\* ... before ~TCreature lays out the corpse, saves what a dead player has not
\* lost (LoseInventory is not LOSE_INVENTORY_ALL and nothing was thrown), logs
\* the connection out, and the player is gone.
Bury ==
    /\ game.at = "bury"
    /\ \/ UNCHANGED <<slots, spoiled>>
       \/ Player(game.who).isDead /\ SaveInventoryLate(game.slot, game.who)
    /\ conns' = LoggedOut({c \in Conns : c = Player(game.who).connection})
    /\ players' = [players EXCEPT ![game.who] = Absent]
    /\ game' = Loop
    /\ UNCHANGED <<file, replies, isOnline, mails, rest>>

\* SendMail to a character who is not in the world.
OrderMail(ch) ==
    /\ Playing
    /\ ~Player(ch).there
    /\ mails < MaxMails
    /\ mails' = mails + 1
    /\ orders' = Append(orders, ch)
    /\ UNCHANGED <<slots, file, conns, players, game, reader, replies, writer,
                   isOnline, logins, trouble, spoiled>>

\* ProcessCharacterReply: the slot is locked if nobody has it.  If somebody
\* has, DecreasePlayerPoolSlotSticky(NULL) leaves it as it is.
TakeReply ==
    /\ Playing
    /\ replies # <<>>
    /\ replies' = Tail(replies)
    /\ LET free == {i \in SlotsOf(Head(replies)) : slots[i].locked = Nobody}
       IN  IF free = {}
           THEN UNCHANGED <<slots, game>>
           ELSE \E i \in free :
                   /\ slots' = [slots EXCEPT ![i].locked = Game]
                   /\ game' = [at |-> "mail", who |-> Head(replies), slot |-> i]
    /\ UNCHANGED <<file, conns, players, isOnline, mails, spoiled, rest>>

\* SendMails, and the slot is let go.
SendMails ==
    /\ game.at = "mail"
    /\ LET i == game.slot
           lock == IF slots[i].locked = Game THEN Nobody ELSE slots[i].locked
       IN  slots' = [slots EXCEPT ![i] = [@ EXCEPT !.dirty = TRUE,
                        !.sticky = slots[i].sticky - 1, !.locked = lock]]
    /\ game' = Loop
    /\ UNCHANGED <<file, conns, players, replies, isOnline, mails, spoiled, rest>>

\* What the game thread has begun and must go on with.
GameStep == Attach \/ AttachFails \/ ReleaseSlot \/ Bury \/ SendMails \/ TakeReply

GameThread ==
    \/ GameStep
    \/ \E c \in Conns : \/ JoinNew(c) \/ JoinRefused(c) \/ TakeOver(c)
                        \/ LogOut(c, TRUE) \/ LogOut(c, FALSE) \/ LetGo(c)
    \/ \E ch \in Characters : Die(ch) \/ Delete(ch) \/ OrderMail(ch)

-----------------------------------------------------------------------------
(* The reader: ProcessLoadCharacterOrder.                                    *)

ReaderTakesOrder ==
    /\ reader.at = "idle"
    /\ orders # <<>>
    /\ reader' = [Idle EXCEPT !.at = "assign", !.who = Head(orders)]
    /\ orders' = Tail(orders)
    /\ UNCHANGED <<slots, file, conns, players, game, replies, writer, isOnline,
                   logins, mails, trouble, spoiled>>

unread == <<conns, players, game, orders, writer, isOnline, logins, mails,
            spoiled>>

ReaderAssigns ==
    /\ reader.at = "assign"
    /\ \E i \in Slots, fresh \in BOOLEAN :
          /\ Assign(reader.who, Reader, i, fresh)
          /\ reader' = [reader EXCEPT !.slot = i,
                                      !.at = IF fresh THEN "load" ELSE "look"]
    /\ UNCHANGED <<replies, trouble, unread>>

ReaderFindsNoSlot ==
    /\ reader.at = "assign"
    /\ NoSlotFor(reader.who)
    /\ reader' = Idle
    /\ UNCHANGED <<slots, file, replies, trouble, unread>>

ReaderLoads ==
    /\ reader.at = "load"
    /\ Load(reader.slot, reader.who)
    /\ reader' = [reader EXCEPT !.at = "look"]
    /\ UNCHANGED <<file, replies, trouble, unread>>

ReaderLoadFails ==
    /\ reader.at = "load"
    /\ FailToLoad(reader.slot)
    /\ reader' = [reader EXCEPT !.at = "forget"]
    /\ UNCHANGED <<file, replies, unread>>

ReaderForgets ==
    /\ reader.at = "forget"
    /\ Forget(reader.slot)
    /\ reader' = Idle
    /\ UNCHANGED <<file, replies, failures, unread>>

\* Who has the slot is looked up again, without the mutex: the player, the
\* reader itself, or a thread that may have let it go since.
ReaderGivesUp ==
    /\ reader.at = "look"
    /\ slots[reader.slot].locked = Game
    /\ reader' = Idle
    /\ UNCHANGED <<slots, file, replies, trouble, unread>>

ReaderKeeps ==
    /\ reader.at = "look"
    /\ slots[reader.slot].locked = Reader
    /\ Stick(reader.slot)
    /\ reader' = [reader EXCEPT !.at = "unlock"]
    /\ UNCHANGED <<file, replies, trouble, unread>>

ReaderTriesAgain ==
    /\ reader.at = "look"
    /\ slots[reader.slot].locked \notin {Game, Reader}
    /\ slots[reader.slot].sticky < MaxSticky
    /\ reader' = [reader EXCEPT !.at = "assign"]
    /\ UNCHANGED <<slots, file, replies, trouble, unread>>

ReaderReplies ==
    /\ reader.at = "unlock"
    /\ Release(reader.slot, Reader)
    /\ replies' = Append(replies, reader.who)
    /\ reader' = Idle
    /\ UNCHANGED <<file, trouble, unread>>

ReaderThread ==
    \/ ReaderTakesOrder \/ ReaderAssigns \/ ReaderFindsNoSlot \/ ReaderLoads
    \/ ReaderLoadFails \/ ReaderForgets \/ ReaderGivesUp \/ ReaderKeeps
    \/ ReaderTriesAgain \/ ReaderReplies

-----------------------------------------------------------------------------
(* The writer: SavePlayerPoolSlots.                                          *)

unwritten == <<conns, players, game, reader, orders, replies, isOnline, logins,
               mails, trouble, spoiled>>

\* A slot is chosen without the mutex ...
WriterPicks(i) ==
    /\ writer.at = "idle"
    /\ slots[i].character # Nobody
    /\ slots[i].locked = Nobody
    /\ slots[i].sticky <= 0
    /\ slots[i].dirty
    /\ writer' = [Idle EXCEPT !.at = "attach", !.slot = i]
    /\ UNCHANGED <<slots, file, unwritten>>

\* ... so it may be somebody's, or another character's, when it is locked.
WriterAttaches ==
    /\ writer.at = "attach"
    /\ IF slots[writer.slot].locked = Nobody
       THEN /\ slots' = [slots EXCEPT ![writer.slot].locked = Writer]
            /\ writer' = [writer EXCEPT !.at = "save"]
       ELSE /\ writer' = Idle
            /\ UNCHANGED slots
    /\ UNCHANGED <<file, unwritten>>

\* An empty slot may have been taken out of the writer's hands.
WriterSaves ==
    /\ writer.at = "save"
    /\ IF slots[writer.slot].locked = Writer
       THEN /\ file' = Saved(writer.slot)
            /\ slots' = [slots EXCEPT ![writer.slot] =
                            [@ EXCEPT !.dirty = FALSE, !.locked = Nobody]]
       ELSE UNCHANGED <<slots, file>>
    /\ writer' = Idle
    /\ UNCHANGED unwritten

WriterThread == WriterAttaches \/ WriterSaves \/ \E i \in Slots : WriterPicks(i)

-----------------------------------------------------------------------------
Next == \/ \E c \in Conns : CommunicationThread(c)
        \/ GameThread \/ ReaderThread \/ WriterThread

Spec == Init /\ [][Next]_vars

\* The threads go on with what they have begun, and the game thread comes to
\* every connection with a command.  Nobody has to log in, to fight, to log
\* out, to send mail or to save.
Fairness ==
    /\ \A c \in Conns :
          /\ WF_vars(conns[c].state # "FREE" /\ CommunicationThread(c))
          /\ SF_vars(JoinNew(c) \/ JoinRefused(c) \/ TakeOver(c))
    /\ WF_vars(GameStep)
    /\ WF_vars(ReaderThread)
    /\ WF_vars(WriterAttaches \/ WriterSaves)

FairSpec == Spec /\ Fairness

-----------------------------------------------------------------------------
(* Properties.                                                               *)

SomeSlot == Slots \cup {Nobody}
SomeCharacter == Characters \cup {Nobody}
Threads == Conns \cup {Game, Reader, Writer}

Stored == [visits : Nat, things : SomeCharacter]

\* The counts may fall below zero only once somebody has been misled.
TypeOK ==
    /\ slots \in [Slots -> [character : SomeCharacter, locked : Threads \cup {Nobody},
                            sticky : Int, dirty : BOOLEAN, data : Stored]]
    /\ file \in [Characters -> Stored]
    /\ conns \in [Conns -> [state : {"FREE", "CONNECTED", "LOGIN", "GAME",
                                     "LOGOUT", "DISCONNECTED"},
                            who : SomeCharacter, slot : SomeSlot,
                            at : {"idle", "assign", "load", "forget", "check", "unlock",
                                  "call"},
                            character : SomeCharacter]]
    /\ players \in [Characters -> [there : BOOLEAN, slot : SomeSlot,
                                   connection : Conns \cup {Nobody},
                                   isDead : BOOLEAN, loggingOut : BOOLEAN,
                                   logoutAllowed : BOOLEAN, data : Stored]]
    /\ game.at \in {"loop", "attach", "release", "bury", "mail"}
    /\ game.who \in Conns \cup SomeCharacter /\ game.slot \in SomeSlot
    /\ reader \in [at : {"idle", "assign", "load", "forget", "look", "unlock"},
                   who : SomeCharacter, slot : SomeSlot]
    /\ orders \in Seq(Characters) /\ replies \in Seq(Characters)
    /\ writer \in [at : {"idle", "attach", "save"}, who : {Nobody}, slot : SomeSlot]
    /\ isOnline \in [Characters -> Int]
    /\ logins \in 0..MaxLogins /\ mails \in 0..MaxMails /\ failures \in 0..MaxFailures
    /\ misled \in BOOLEAN /\ spoiled \in SUBSET Characters
    /\ misled \/ /\ \A i \in Slots : slots[i].sticky >= 0
                 /\ \A ch \in Characters : isOnline[ch] >= 0

\* ~TPlayer of this character has begun.
Leaving(ch) == game.at \in {"release", "bury"} /\ game.who = ch

\* Those who count on slot i, and are to count it down once: logins on their
\* way, the player, and mail on its way.  A player is not among them any more
\* once ~TPlayer has begun, although ~TCreature writes into the slot once more:
\* the code has no count for that, and SaveInventoryLate tells whom it may hit.
LoginsFor(i) ==
    {c \in Conns : \/ /\ conns[c].slot = i
                      /\ At(c, "unlock") \/ At(c, "call") \/ (At(c, "check") /\ ~Own(c))
                   \/ /\ conns[c].state = "LOGIN"
                      /\ conns[c].character = slots[i].character}
PlayersIn(i) == {ch \in InWorld : players[ch].slot = i /\ ~Leaving(ch)}
MailFor(i) == {n \in 1..Len(replies) : replies[n] = slots[i].character}
Holders(i) == Cardinality(LoginsFor(i)) + Cardinality(PlayersIn(i))
              + Cardinality(MailFor(i))
              + (IF reader.at = "unlock" /\ reader.slot = i THEN 1 ELSE 0)
              + (IF game.at = "mail" /\ game.slot = i THEN 1 ELSE 0)

\* Unless a load failed under somebody, Sticky never falls below the number of
\* those who count on the slot, and ~TPlayer has the slot locked until it has
\* stored everything: the data of a login on its way, of a player or of an
\* answered mail order is never given to another character under them, however
\* four kinds of threads interleave, failing loads and late writes included.
NeededSlotStays ==
    misled \/ /\ \A i \in Slots : slots[i].character # Nobody
                                   => slots[i].sticky >= Holders(i)
              /\ game.at = "release" => /\ slots[game.slot].character = game.who
                                        /\ slots[game.slot].locked = Game

\* Unless a load failed under somebody, a login finds the data of the character
\* that registered: none of the error branches of new TPlayer (AttachFails),
\* JoinGame and TakeOver (no slot, not locked by the game, wrong Sticky) is
\* ever taken.
LoginFindsItsData ==
    misled \/ \A c \in Conns : conns[c].state = "LOGIN" =>
        LET ch == conns[c].character
        IN  /\ ch = conns[c].who
            /\ Cardinality(SlotsOf(ch)) = 1
            /\ Player(ch).there /\ ~Leaving(ch) =>
                  /\ slots[SlotOf(ch)].locked = Game
                  /\ slots[SlotOf(ch)].sticky > 1

\* A connection speaks for a player exactly when the player answers to the
\* connection: a connection that lost its character to a second login, died
\* or was reused by another client never reaches it, whatever loads fail.
OneVoice ==
    \A c \in Conns, ch \in Characters :
        players[ch].connection = c
            <=> conns[c].state = "GAME" /\ conns[c].character = ch

\* Unless a load failed under somebody, the query manager never counts fewer
\* logins of a character than there are: it would let a second character of
\* the account in.
OnlineIsCounted ==
    misled \/ \A ch \in Characters :
        isOnline[ch] >= Cardinality({c \in Conns :
                             conns[c].state \in {"CONNECTED", "LOGIN"}
                             /\ conns[c].who = ch})
                        + (IF Player(ch).there /\ ~Leaving(ch) THEN 1 ELSE 0)

\* What the stored data of a character says, in its slot or in its file.
BeingLoaded(i) == \/ \E c \in Conns : At(c, "load") /\ conns[c].slot = i
                  \/ reader.at = "load" /\ reader.slot = i
Kept(ch) == IF \E i \in SlotsOf(ch) : ~BeingLoaded(i)
            THEN slots[CHOOSE i \in SlotsOf(ch) : ~BeingLoaded(i)].data
            ELSE file[ch]

\* What the character's stored inventory holds, as far as it can be told.
Things(ch) == IF ch \in spoiled THEN "spoiled"
              ELSE CASE Kept(ch).things = ch     -> "own"
                     [] Kept(ch).things = Nobody -> "none"
                     [] OTHER                    -> "another's"

Ownership == INSTANCE CharacterOwnership WITH
    world <- InWorld,
    fallen <- {ch \in InWorld : players[ch].isDead},
    owner <- [ch \in Characters |-> players[ch].connection],
    kept <- [ch \in Characters |-> Kept(ch).visits],
    played <- [ch \in Characters |-> IF players[ch].there THEN players[ch].data.visits
                                     ELSE Kept(ch).visits],
    things <- [ch \in Characters |-> Things(ch)]

\* Across takeovers, deaths, evictions, saves, mail and failing loads, unless
\* one failed under somebody, a character has one owner at most, comes back as
\* what it left as and finds its own things; where the late write of a dead
\* player breaks that for the things, it hits this player and one absent other
\* at most, and only until they leave the next time.
OwnedOnceKeptWhole ==
    Ownership!Init /\ [][misled' \/ Ownership!Next]_(Ownership!vars)

\* Every accepted login gets an end, the game or a closed connection: also
\* when the game thread waits in AttachPlayerPoolSlot for whoever has the slot,
\* and also when a load has failed under somebody.
LoginSettled ==
    \A c \in Conns : conns[c].state = "CONNECTED"
        ~> conns[c].state \notin {"CONNECTED", "LOGIN"}
=============================================================================
