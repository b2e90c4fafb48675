--------------------------- MODULE KnownCreatures ---------------------------
(* Which creatures the two ends of a connection believe the client knows.   *)
(*                                                                          *)
(* The server keeps a KnownCreatureTable for each connection and chains     *)
(* every entry in use to its creature (connections.cc, crmain.cc,           *)
(* operate.cc, sending.cc).  By that table it decides how little of a       *)
(* creature it sends: word 97 with everything, 98 without the name, 99 with *)
(* the direction alone, or a bare attribute update.  The client keeps the   *)
(* records it was sent (movement.cpp, initial_world.cpp) and must still     *)
(* have the one a short message refers to.  Nothing confirms either side.   *)
(*                                                                          *)
(* One entry of the server's Connections array is modelled, over its        *)
(* successive clients; its player is Self.  Positions are abstracted to the *)
(* set of creatures inside the terminal, all that a client is told about a  *)
(* creature to a version number.                                            *)
EXTENDS Integers, Sequences, FiniteSets

CONSTANTS
    Creatures,      \* creature IDs; 0 is none
    Self,           \* the CharacterID of the connection's player
    Slots,          \* the size of KnownCreatureTable, 150 in the code
    MaxChanges,     \* bound: births and attribute changes
    MaxChannel      \* bound: answers on their way to the client

ASSUME CreaturesAssumption == /\ IsFiniteSet(Creatures)
                              /\ 0 \notin Creatures
                              /\ Self \in Creatures
ASSUME SlotsAssumption == Slots \in Nat \ {0}
ASSUME BoundsAssumption == MaxChanges \in Nat /\ MaxChannel \in Nat

VARIABLES
    alive,          \* creatures in the world
    inView,         \* those at a position IsVisible accepts
    version,        \* what there is to tell about each creature
    changes,        \* how often that has changed
    state,          \* TConnection::State, FREE to DISCONNECTED as one
    table,          \* KnownCreatureTable
    chain,          \* the entries linked from FirstKnowingConnection
    channel,        \* answers not yet applied by the client, in order
    known,          \* IDs in the client's known_creatures
    told,           \* the version in each of those records
    onMap,          \* creatures on the client's stored tiles
    anomalies       \* the WorldStateAnomalyKinds the client has reported

world  == <<alive, inView, version, changes>>
server == <<state, table, chain>>
client == <<known, told, onMap, anomalies>>
vars == <<world, server, channel, client>>

-----------------------------------------------------------------------------
Entries == 1..Slots

NoEntry == [id |-> 0, state |-> "FREE"]

\* Connections whose player stands in the world and is sent what it sees.
Watching == state \in {"GAME", "DEAD"}

Lowest(S) == CHOOSE i \in S : \A j \in S : i <= j

Init ==
    /\ alive = {} /\ inView = {}
    /\ version = [c \in Creatures |-> 0]
    /\ changes = 0
    /\ state = "FREE"
    /\ table = [i \in Entries |-> NoEntry]
    /\ chain = [c \in Creatures |-> {}]
    /\ channel = <<>>
    /\ known = {} /\ onMap = {} /\ anomalies = {}
    /\ told = [c \in Creatures |-> 0]

-----------------------------------------------------------------------------
(* The table, as operators on m = [table, chain, words]: what SendMapObject *)
(* changes, and what it has written of the answer so far.                   *)

EntriesOf(m, c) == {i \in Entries : m.table[i].id = c}

\* KnownCreature without UpdateFollows.
KnownCreature(m, c) ==
    IF EntriesOf(m, c) = {} THEN "FREE"
    ELSE m.table[Lowest(EntriesOf(m, c))].state

UpdateFollows(m, c) ==
    [m EXCEPT !.table[Lowest(EntriesOf(m, c))].state = "UPTODATE"]

\* UnchainKnownCreature: a creature that is gone, or that is not known to
\* the connection, leaves the entry as it is.
UnchainKnownCreature(m, c) ==
    IF c \notin alive \/ m.chain[c] = {} THEN m
    ELSE [m EXCEPT !.table[Lowest(m.chain[c])].state = "FREE",
                   !.chain[c] = @ \ {Lowest(@)}]

\* The entry NewKnownCreature settles on: the creature's own, else the first
\* free one, else the first whose creature is out of sight; 0 if there is
\* none.
Settle(m, c, view) ==
    LET free   == {i \in Entries : m.table[i].state = "FREE"}
        unseen == {i \in Entries : m.table[i].id \notin view}
    IN  CASE EntriesOf(m, c) # {} -> Lowest(EntriesOf(m, c))
          [] EntriesOf(m, c) = {} /\ free # {} -> Lowest(free)
          [] EntriesOf(m, c) = {} /\ free = {} /\ unseen # {} -> Lowest(unseen)
          [] OTHER -> 0

\* NewKnownCreature, with word 97 around it: the ID it returns names the
\* record the client is to drop.
NewKnownCreature(m, c, view) ==
    LET i    == Settle(m, c, view)
        old  == IF i = 0 THEN 0 ELSE m.table[i].id
        word == [word |-> 97, id |-> c, old |-> old, version |-> version[c]]
        n    == IF i = 0 \/ m.table[i].state = "FREE" THEN m
                ELSE UnchainKnownCreature(m, old)
    IN  IF i = 0 THEN [m EXCEPT !.words = Append(@, word)]
        ELSE [n EXCEPT !.table[i] = [id |-> c, state |-> "UPTODATE"],
                       !.chain[c] = @ \cup {i},
                       !.words = Append(@, word)]

SendMapObject(m, c, view) ==
    CASE KnownCreature(m, c) = "UPTODATE" ->
            [m EXCEPT !.words = Append(@, [word |-> 99, id |-> c])]
      [] KnownCreature(m, c) = "OUTDATED" ->
            [UpdateFollows(m, c) EXCEPT
                !.words = Append(@, [word |-> 98, id |-> c,
                                     version |-> version[c]])]
      [] KnownCreature(m, c) = "FREE" -> NewKnownCreature(m, c, view)

\* The creatures of S in every order the tiles may put them.
Orders(S) == {s \in [1..Cardinality(S) -> S] :
                \A i, j \in DOMAIN s : i # j => s[i] # s[j]}

\* The map objects of one answer, written one after the other.
SendMapObjects(order, view) ==
    LET upTo[i \in 0..Len(order)] ==
            IF i = 0 THEN [table |-> table, chain |-> chain, words |-> <<>>]
            ELSE SendMapObject(upTo[i - 1], order[i], view)
    IN  upTo[Len(order)]

-----------------------------------------------------------------------------
(* The game thread.                                                         *)

Answer(kind, id, gone, words) ==
    Append(channel, [kind |-> kind, id |-> id, gone |-> gone, words |-> words])

Room == Len(channel) < MaxChannel

\* The answer that shows the creatures of order, given the view by then.
Shows(kind, order, gone, view) ==
    LET m == SendMapObjects(order, view)
    IN  /\ table' = m.table
        /\ chain' = m.chain
        /\ channel' = Answer(kind, 0, gone, m.words)

\* TConnection::JoinGame, EnterGame and the SendFullScreen that follows: for
\* a player still in the world, or one constructed for it.  The client on
\* the other end is a new one.
JoinGame ==
    /\ state = "FREE"
    /\ changes < MaxChanges \/ Self \in alive
    /\ state' = "GAME"
    /\ alive' = alive \cup {Self}
    /\ version' = IF Self \in alive THEN version
                  ELSE [version EXCEPT ![Self] = @ + 1]
    /\ changes' = IF Self \in alive THEN changes ELSE changes + 1
    /\ table' = [i \in Entries |-> NoEntry]
    /\ inView' = {}
    /\ channel' = <<>>
    /\ known' = {} /\ onMap' = {}
    /\ told' = [c \in Creatures |-> 0]
    /\ UNCHANGED <<chain, anomalies>>

\* SendFullScreen, when the player enters the game or has been taken to
\* another place: the view is described anew.
SendFullScreen ==
    /\ Watching /\ Room
    /\ \E view \in SUBSET alive :
        /\ Self \in view
        /\ inView' = view
        /\ \E order \in Orders(view) : Shows("FULLSCREEN", order, {}, view)
    /\ UNCHANGED <<alive, version, changes, state, client>>

\* TCreature::NotifyGo of the player and SendRow (or SendFloors): the anchor
\* has moved before the row is written.
SendRow ==
    /\ Watching /\ Room /\ Self \in inView
    /\ \E view \in SUBSET alive :
        /\ Self \in view
        /\ inView' = view
        /\ \E order \in Orders(view \ inView) :
            Shows("ROW", order, inView \ view, view)
    /\ UNCHANGED <<alive, version, changes, state, client>>

\* AnnounceMovingCreature of a creature that steps into view: SendAddField,
\* before the creature has its new position.
StepIn(c) ==
    /\ Watching /\ Room /\ Self \in inView
    /\ c \in alive \ inView
    /\ Shows("ADD_FIELD", <<c>>, {}, inView)
    /\ inView' = inView \cup {c}
    /\ UNCHANGED <<alive, version, changes, state, client>>

\* AnnounceMovingCreature within the view: SendMoveCreature names the
\* creature by its place only.
MoveCreature(c) ==
    /\ Watching /\ Room /\ Self \in inView
    /\ c \in inView
    /\ channel' = Answer("MOVE_CREATURE", c, {}, <<>>)
    /\ UNCHANGED <<world, server, client>>

\* AnnounceMovingCreature out of the view: SendDeleteField.
StepOut(c) ==
    /\ Watching /\ Room /\ Self \in inView
    /\ c \in inView \ {Self}
    /\ channel' = Answer("DELETE_FIELD", c, {c}, <<>>)
    /\ inView' = inView \ {c}
    /\ UNCHANGED <<alive, version, changes, server, client>>

\* AnnounceChangedObject of a creature that has turned: SendChangeField.
Turn(c) ==
    /\ Watching /\ Room /\ Self \in inView
    /\ c \in inView
    /\ Shows("CHANGE_FIELD", <<c>>, {}, inView)
    /\ UNCHANGED <<world, state, client>>

\* A creature is created, in view or out of it (SetOnMap).  A player comes
\* back under the ID it had.
Create(c) ==
    /\ c \notin alive /\ c # Self
    /\ changes < MaxChanges
    /\ changes' = changes + 1
    /\ version' = [version EXCEPT ![c] = @ + 1]
    /\ alive' = alive \cup {c}
    /\ UNCHANGED <<inView, server, channel, client>>

\* The definitions named Bug... are plausible mistakes in the operator they
\* stand before; nothing uses them.
BugOutOfSightForgotten(c) ==
    /\ c \in alive
    /\ changes < MaxChanges
    /\ state = "GAME" => Room /\ Self \in inView
    /\ changes' = changes + 1
    /\ version' = [version EXCEPT ![c] = @ + 1]
    /\ channel' = IF c \in inView /\ state = "GAME" /\ chain[c] # {}
                  THEN Append(channel, [kind |-> "ATTRIBUTE", id |-> c,
                          gone |-> {}, words |-> <<>>, version |-> version'[c]])
                  ELSE channel
    /\ UNCHANGED <<alive, inView, server, client>>

\* Something told about the creature changes, and AnnounceChangedCreature
\* goes along its chain.
AnnounceChangedCreature(c) ==
    /\ c \in alive
    /\ changes < MaxChanges
    /\ state = "GAME" => Room /\ Self \in inView
    /\ changes' = changes + 1
    /\ version' = [version EXCEPT ![c] = @ + 1]
    /\ LET reached == {i \in chain[c] : /\ state = "GAME"
                                        /\ table[i].state # "OUTDATED"}
       IN IF c \in inView
          THEN /\ channel' = IF reached = {} THEN channel
                             ELSE Append(channel,
                                    [kind |-> "ATTRIBUTE", id |-> c, gone |-> {},
                                     words |-> <<>>, version |-> version'[c]])
               /\ table' = table
          ELSE /\ table' = [i \in Entries |->
                              IF i \in reached
                              THEN [table[i] EXCEPT !.state = "OUTDATED"]
                              ELSE table[i]]
               /\ channel' = channel
    /\ UNCHANGED <<alive, inView, state, chain, client>>

\* TConnection::Die, when the player dies: until its next turn it is still
\* shown what happens, but AnnounceChangedCreature passes it by.
Die ==
    /\ state = "GAME" /\ Self \in inView
    /\ state' = "DEAD"
    /\ UNCHANGED <<world, table, chain, channel, client>>

\* TConnection::Logout: the connection has no player any more.  The player
\* may stay in the world.
Logout ==
    /\ Watching
    /\ state' = "LOGOUT"
    /\ inView' = {}
    /\ UNCHANGED <<alive, version, changes, table, chain, channel, client>>

BugViewKept(c) ==
    /\ c \in alive
    /\ Watching => Room /\ Self \in inView
    /\ state' = IF c = Self /\ Watching THEN "LOGOUT" ELSE state
    /\ alive' = alive \ {c}
    /\ table' = [i \in Entries |-> IF i \in chain[c]
                                   THEN [table[i] EXCEPT !.state = "FREE"]
                                   ELSE table[i]]
    /\ chain' = [chain EXCEPT ![c] = {}]
    /\ UNCHANGED <<inView, version, changes, channel, client>>

\* ~TCreature: the creature is taken off the map, its player's connection
\* logged out, and every entry in its chain marked free under its old ID.
Remove(c) ==
    /\ c \in alive
    /\ Watching => Room /\ Self \in inView
    /\ channel' = IF c \in inView THEN Answer("DELETE_FIELD", c, {c}, <<>>)
                  ELSE channel
    /\ inView' = IF c = Self THEN {} ELSE inView \ {c}
    /\ state' = IF c = Self /\ Watching THEN "LOGOUT" ELSE state
    /\ alive' = alive \ {c}
    /\ table' = [i \in Entries |-> IF i \in chain[c]
                                   THEN [table[i] EXCEPT !.state = "FREE"]
                                   ELSE table[i]]
    /\ chain' = [chain EXCEPT ![c] = {}]
    /\ UNCHANGED <<version, changes, client>>

BugNotUnchained ==
    /\ state = "LOGOUT"
    /\ table' = [i \in Entries |-> NoEntry]
    /\ state' = "FREE"
    /\ UNCHANGED <<world, chain, channel, client>>

\* TConnection::Disconnect, ClearKnownCreatureTable(true): entries in use
\* are unchained one after the other.
Disconnect ==
    /\ state = "LOGOUT"
    /\ LET cleared[i \in 0..Slots] ==
               IF i = 0 THEN [table |-> table, chain |-> chain]
               ELSE LET m == cleared[i - 1]
                        n == IF m.table[i].state = "FREE" THEN m
                             ELSE UnchainKnownCreature(m, m.table[i].id)
                    IN  [n EXCEPT !.table[i] = NoEntry]
       IN /\ table' = cleared[Slots].table
          /\ chain' = cleared[Slots].chain
    /\ state' = "FREE"
    /\ UNCHANGED <<world, channel, client>>

-----------------------------------------------------------------------------
(* The client.                                                              *)

\* RecordCreature on r = [known, told, anomalies].  ApplyFullScreen also
\* reports a word 98 it has no record for.
RecordCreature(r, w, kind) ==
    LET evicts  == w.word = 97 /\ w.old # 0 /\ w.old # w.id
        kept    == IF evicts THEN r.known \ {w.old} ELSE r.known
        unknown == w.id \notin kept
                   /\ (w.word = 99 \/ (w.word = 98 /\ kind = "FULLSCREEN"))
    IN  [known     |-> kept \cup {w.id},
         told      |-> [c \in Creatures |->
                         CASE c = w.id /\ w.word # 99 -> w.version
                           [] c = w.id /\ w.word = 99 -> r.told[c]
                           [] c # w.id /\ c \in kept -> r.told[c]
                           [] OTHER -> 0],
         anomalies |-> r.anomalies
            \cup (IF evicts /\ w.old \notin r.known
                  THEN {"UnknownEvictedCreature"} ELSE {})
            \cup (IF unknown THEN {"UnknownCreatureReference"} ELSE {})]

RecordCreatures(words, kind) ==
    LET upTo[i \in 0..Len(words)] ==
            IF i = 0 THEN [known |-> known, told |-> told,
                           anomalies |-> anomalies]
            ELSE RecordCreature(upTo[i - 1], words[i], kind)
    IN  upTo[Len(words)]

Named(words) == {words[i].id : i \in 1..Len(words)}

\* FullScreen, Row, FloorChange, AddField and ChangeField: the tiles are
\* stored first, then every creature on them is recorded.
ApplyMap ==
    /\ channel # <<>>
    /\ LET a == Head(channel)
           r == RecordCreatures(a.words, a.kind)
       IN /\ a.words # <<>> \/ a.kind = "ROW"
          /\ onMap' = (IF a.kind = "FULLSCREEN" THEN {} ELSE onMap \ a.gone)
                      \cup Named(a.words)
          /\ known' = r.known
          /\ told' = r.told
          /\ anomalies' = r.anomalies
                \cup (IF a.kind = "FULLSCREEN" /\ Cardinality(r.known) > Slots
                      THEN {"KnownCreatureTableOverflow"} ELSE {})
                \cup (IF a.kind = "CHANGE_FIELD" /\ ~ Named(a.words) \subseteq onMap
                      THEN {"StackIndexOutOfRange"} ELSE {})
    /\ channel' = Tail(channel)
    /\ UNCHANGED <<world, server>>

BugRecordDropped ==
    /\ channel # <<>>
    /\ Head(channel).kind = "DELETE_FIELD"
    /\ onMap' = onMap \ Head(channel).gone
    /\ known' = known \ Head(channel).gone
    /\ channel' = Tail(channel)
    /\ UNCHANGED <<world, server, told, anomalies>>

\* DeleteField: the creature leaves the map and keeps its record.
ApplyDeleteField ==
    /\ channel # <<>>
    /\ Head(channel).kind = "DELETE_FIELD"
    /\ onMap' = onMap \ Head(channel).gone
    /\ anomalies' = IF Head(channel).gone \subseteq onMap THEN anomalies
                    ELSE anomalies \cup {"StackIndexOutOfRange"}
    /\ channel' = Tail(channel)
    /\ UNCHANGED <<world, server, known, told>>

\* MoveCreature: found by its place; a creature without a record is given
\* an empty one.
ApplyMoveCreature ==
    /\ channel # <<>>
    /\ Head(channel).kind = "MOVE_CREATURE"
    /\ LET c == Head(channel).id
       IN IF c \notin onMap
          THEN /\ anomalies' = anomalies \cup {"MoveOriginMismatch"}
               /\ UNCHANGED <<known, told>>
          ELSE /\ anomalies' = IF c \in known THEN anomalies
                               ELSE anomalies \cup {"UnknownCreatureReference"}
               /\ known' = known \cup {c}
               /\ told' = IF c \in known THEN told ELSE [told EXCEPT ![c] = 0]
    /\ channel' = Tail(channel)
    /\ UNCHANGED <<world, server, onMap>>

\* CreatureAttribute: dropped if there is no record.
ApplyAttribute ==
    /\ channel # <<>>
    /\ Head(channel).kind = "ATTRIBUTE"
    /\ LET c == Head(channel).id
       IN /\ told' = IF c \in known
                     THEN [told EXCEPT ![c] = Head(channel).version] ELSE told
          /\ anomalies' = IF c \in known THEN anomalies
                          ELSE anomalies \cup {"UnknownCreatureReference"}
    /\ channel' = Tail(channel)
    /\ UNCHANGED <<world, server, known, onMap>>

-----------------------------------------------------------------------------
Next ==
    \/ JoinGame \/ SendFullScreen \/ SendRow \/ Die \/ Logout \/ Disconnect
    \/ \E c \in Creatures :
        \/ StepIn(c) \/ MoveCreature(c) \/ StepOut(c) \/ Turn(c)
        \/ Create(c) \/ AnnounceChangedCreature(c) \/ Remove(c)
    \/ ApplyMap \/ ApplyDeleteField \/ ApplyMoveCreature \/ ApplyAttribute

Spec == Init /\ [][Next]_vars

-----------------------------------------------------------------------------
Words == [word : {97}, id : Creatures, old : Creatures \cup {0}, version : Nat]
         \cup [word : {98}, id : Creatures, version : Nat]
         \cup [word : {99}, id : Creatures]

\* The state is made of the values the code gives it.
TypeOK ==
    /\ alive \subseteq Creatures /\ inView \subseteq alive
    /\ version \in [Creatures -> Nat] /\ changes \in Nat
    /\ state \in {"FREE", "GAME", "DEAD", "LOGOUT"}
    /\ table \in [Entries -> [id : Creatures \cup {0},
                              state : {"FREE", "UPTODATE", "OUTDATED"}]]
    /\ chain \in [Creatures -> SUBSET Entries]
    /\ known \subseteq Creatures /\ onMap \subseteq Creatures
    /\ told \in [Creatures -> Nat]
    /\ \A i \in 1..Len(channel) :
        \A j \in 1..Len(channel[i].words) : channel[i].words[j] \in Words

\* A creature's chain leads to exactly the entries in use under its ID, no
\* two entries bear the same one, and a free connection has none.  ~TCreature
\* writes through the chain and UnchainKnownCreature searches it, in steps
\* that are far apart (crmain.cc:277, connections.cc:474).
ChainsMatchTable ==
    /\ \A c \in Creatures :
        chain[c] = {i \in Entries : table[i].id = c /\ table[i].state # "FREE"}
    /\ \A i, j \in Entries : table[i].id = table[j].id /\ table[i].id # 0 => i = j
    /\ state = "FREE" => \A i \in Entries : table[i] = NoEntry

\* The client is never referred to a creature, an evicted record or a place
\* on its map that it does not have: it reports none of the anomalies that
\* mean the mirror has fallen behind.
MirrorKeepsUp ==
    anomalies \subseteq {"KnownCreatureTableOverflow"}

\* Once the client has applied every answer it shows exactly what is in
\* view, holds a record for each of those and for each entry of the table,
\* and shows every creature that is in view and in the table as it is now:
\* the short words 98 and 99 never leave an old outfit or health.
ViewIsCurrent ==
    channel = <<>> /\ state = "GAME" =>
        /\ onMap = inView
        /\ onMap \cup {table[i].id : i \in Entries} \subseteq known \cup {0}
        /\ \A c \in inView :
            (\E i \in Entries : table[i].id = c) => told[c] = version[c]
=============================================================================
