# REAL33D in TLA+

Specifications of the session, movement and connection core of REAL33D and of the
game service it talks to, model-checked with TLC and, where noted, proved with TLAPS. Paths are relative to the repository;
`Bridge` is `unreal/REAL33D/Source/REAL33D/Private/Real33DBridge.cpp`.

## 1. The system

REAL33D is an Unreal client for a Tibia-7.72 style server (Fusion32, kept under
`reference/`). A portable library, `clientcore/`, speaks the protocol; the Unreal
module puts it on a worker thread and draws what it says.

```
 login screen, Exit button        AReal33DWorld, panels
        |  calls, between frames         ^  DrainEvents, once a frame
        v                                |
   UReal33DBridge  (game thread: Phase, Credentials, Characters, attempts, PendingEvents)
        |  SPSC intent queues            ^  SPSC event queue
        v                                |
   FReal33DWorker  (worker thread: Session, Ledger, State, View)
        |  GameLoginSession / FramedConnection / TcpTransport
        v
   login service 7171            game service (TConnection, TPlayer, to-do list)
```

| Component | State | Operations | Hard behaviour | What makes it correct |
|---|---|---|---|---|
| Session lifecycle (`Bridge`, `Real33DSessionFlow.h`, `Real33DReconnectPolicy.h`) | phase, credentials, list, selected character, attempts, deliberate latch, kept events, worker | login, auto-login, enter, back, logout, close, tick, note event | a join that blocks the game thread while the worker goes on; events read after the operation that made them stale; clicks on a surface a frame old; retries | no live session cut short; no old event on a new session; nobody waits for nobody; only losses are retried; no ghosts |
| Worker (`FReal33DWorker`) | place in `Run`, `bStopping`, queues | account login, game login, read loop, logout | every exit must publish an ending, once | a waiting phase is answered |
| Movement ledger (`clientcore/src/movement_ledger.cpp`) | outstanding walks, counts | send, local move, snapback, expiry | answers without request numbers, lost answers, pushes | counts balance, answers in order |
| Walk path (bridge, worker, `worldview.cpp`, `cract.cc`) | intents, mirror, view, to-do list | press, send, execute, read, publish | several answers per pass, displacement, silent give-up | a report says what the server ruled, of the right key press |
| World mirror (`worldstate.cpp`, `movement.cpp`, `initial_world.cpp`, `map_scan.cpp`) | tiles, known creatures | apply update, prune | must stay in step with the server's known-creature table | mirror equals what the server sent |
| Transport and framing (`tcp_transport.cpp`, `framing.cpp`) | socket state, partial frame | connect, read, write, feed | short reads and writes, close in mid-frame, timeouts | a FIFO of whole frames, or a latched failure |
| Chat, channels, trade, editors, outfit, minimap | small presentation machines, minimap cache | note event, reset | session boundaries, replies to closed windows | nothing of one session shown in the next |
| Server ownership (`reference/game/src/connections.cc`, `crplayer.cc`) | connection states, player's connection, LoggingOut | JoinGame, TakeOver, Logout, Process | two clients, one character | at most one connection owns a character |
| Server threads (`communication.cc`, `reader.cc`, `writer.cc`), login server, query manager | order buffers, sockets | orders, replies | full buffers, shutdown | no order lost |

`PROJECT.json` lists the components with what is modelled of each, and the
hazards of the code at their lines.

## 2. Plan and state

1. **SessionFlow** - the session lifecycle.
2. **MovementLedger, WalkPipeline** - the ledger as a value, composed with the
   key presses, the worker, the network and the server's to-do list.
3. **PlayerPool** - login, takeover, death and logout on the game service, over the
   pool of player data and its four kinds of threads; implements **CharacterOwnership**.
4. **ConnectionIO** - the communication thread against the game thread over one
   connection; each direction implements **Stream**.
5. **ClientTransport** - the client's end of the same connection; its receiving
   direction implements **Stream** too.
6. **KnownCreatures** - the server's table of known creatures against the client's records.

All six are written, checked and, for every safety property, proved (section 6). Left: the
writer's and the reader's order and reply buffers with their sizes, the waiting list, the
presentation machines (channels, trade, editors), the minimap file, and an abstract session
specification that SessionFlow implements.

## 3. Modules

| Module | Role |
|---|---|
| `SessionFlow`, `MCSessionFlow`, `SessionFlowProofs` | the session lifecycle, its instance, its proofs |
| `MovementLedger` | the ledger: operators on its value |
| `WalkPipeline`, `MCWalkPipeline` | a walk from the key press to the report, over `MovementLedger` |
| `ConnectionIO`, `MCConnectionIO` | one connection of the game service between its two threads |
| `PlayerPool`, `MCPlayerPool` | connections, players and the pool of player data |
| `KnownCreatures`, `MCKnownCreatures` | the table of known creatures and the client's records |
| `ClientTransport`, `MCClientTransport` | socket, frame decoder and the worker's loop |
| `Stream` | abstract: what goes in comes out once, in order, until a cut |
| `CharacterOwnership` | abstract: a character is in the world once, owned by one connection, and kept whole but for what a late write may spoil |
| `WalkPipelineProofs` | the walk's invariant: counts, order and truth of reports, the picture |
| `ConnectionIOProofs` | the ring's bounds, both streams through one connection, whole answers, no lost wake-up |
| `ClientTransportProofs` | the frame decoder, the stream of messages, whole commands, and what the end says |
| `KnownCreaturesProofs` | the client's records follow the server's table |
| `PlayerPoolProofs` | one voice for each character; slots in use keep their character, logins find their data |
| `OwnershipProofs` | logins are counted, characters are owned once and kept whole |
| `DataInduction` | induction over numbers and over folds, for what recursive functions compute |

Definitions called `Bug...` are plausible mistakes in the operator they stand
before. No action uses them; they show that a property can fail.

### SessionFlow

The game thread is in one of `begin` (before BeginPlay), `input` (UI callbacks
between frames), `drain` (DrainEvents), `tick` (TickSession), `join` (blocked in
Disconnect) and `closed`. `after` names the operation a join belongs to: an
operation that calls Disconnect is two actions, `Join` and the rest, and the worker
may do anything it still does in between. Each handler of a UI callback is
a click (its guard: the surface on screen, then the bridge's own guard) and its
completion. `painted` is the phase the screen was last drawn for: the controller
redraws once a frame, before or after the world ticks (`ControllerTicksFirst`, the
engine does not say which), so a click can be judged by a surface that is one
frame old; a handler of the login screen refreshes it and nothing on it can be
clicked until the next frame (`Redrawn`).

The worker goes `start`, `answered` or `running`, `identified`, `returning`,
`done`; each exit of `Run` is an action with the event it publishes. Events carry
what the session reads of them: the kind, the orderly flag, the account of a list.
A kept event list (`pending`) is drained first, as DrainEvents does.

Abstractions: the list of an account is the account; the selected character is
whether there is one; the clock is whether the reconnect delay has passed since
the drop (`dropped`); the event queue is unbounded as in the code, and is
bounded in the model because a worker publishes at most three session events.
A bridge operation that does not stop a worker (`BeginAutoLogin` in BeginPlay)
is one step. `lastEnd` and `asked` are history variables: how the latest worker's
game ended as it published it, and whether the player pressed Exit and nothing else since.

### MovementLedger and WalkPipeline

`presses` numbers key presses, `intents` is the SPSC queue, `up` and `down` are the
two directions of the TCP stream (FIFO, no loss: a loss ends the session). The
worker's loop is `drain`, `read`, `publish`, `drainAgain`. `PassLimit` is how many
answers a pass may read before the view is compared; the code reads up to eight messages. On
the server `todo` holds the one TDGo a player's to-do list can have: a new command
clears the list and refuses the older walk (`CGoDirection`), execution moves the player,
refuses with a snapback, ends somewhere else (`GoAstray`: drunkenness, climbing, a
field that sends on) or, when the player was displaced out of reach, answers with
a text only (`GoOutOfReach`). Whether a field is free is data, so an own-field walk may be refused or executed. A
deadline is a flag on the request; `RequestAges` sets it for the oldest unflagged
one, which is the order the times have.

`truth` is a history variable: what the server did with each request. `reports` is
the list of walk events the worker published.

### ConnectionIO

The communication thread's place is `pc`: before the socket is asynchronous (`setup`), in
`ReceiveCommand` (`receive`, `call`, `signal`, `pend`), between the two (`enter`), at the loop's
condition (`check`), in `sigwait` (`wait`), in `SendData` (`send`), after the loop (`leave`,
`closed`). Reading a flag and acting on it are two steps wherever the code does them so:
`TakeReady` reads WaitingForACK, `NotePending` follows; `TakeSend` reads the counters,
`WritePacket` moves NextToSend; `LookBeforeSleep` reads ConnectionIsOk, `Wait` sleeps. The game
thread's place is `gpc`. Signals are a set, because the kernel does not queue a second one of a
kind. CONNECTION_DEAD is CONNECTION_GAME here: input and output treat them alike.

The received bytes are kept whole, so `OutputIsAStream` compares every byte with the one
the game committed. `InputIsAStream` maps the packets in the socket buffer and in `InData` to the
queue of `Stream` and the parsed ones to its output.

### PlayerPool

One action per critical section of PlayerDataPoolMutex, and one for each stretch the
threads run between them. What is stored of a character is a record: `visits`, how often it has
left the world (a slot and a file agree when they hold the same count, so a stale load or a lost
save is a wrong number), and `things`, whose possessions its inventory holds, Nobody's when the
inventory is deleted. `players[ch].connection` and the state of a connection are set by different
operations, which is what `OneVoice` relates. A login that is lost before the game thread reads it
leaves its count and its place in the query manager behind; `NeededSlotStays` and `OnlineIsCounted`
are therefore lower bounds.

Two stretches of this code touch a slot without having it, and the model keeps both.

*A load that fails* (`LoadPlayerData` returns false, for what it reads or for want of memory,
`crplayer.cc:2791`). `AssignPlayerPoolSlot` takes the character out of the slot and then unlocks the slot,
both without the mutex: `LoadFails` and `ForgetSlot` of a communication thread, `ReaderLoadFails` and
`ReaderForgets` of the reader. Another login of the character may have counted itself on the slot in
between, and an empty slot is given away without a look at its lock, so another thread may have it when
it is unlocked. The login that was counted then carries ID 0 or whoever is in the slot by then
(`CallGameThread` reads the character from the slot, as `communication.cc:1105` does); `AttachFails`,
`JoinRefused` without a slot and `TakeOver` with a wrong count are the branches it ends in.
`misled` is set when a failing load hits somebody: the slot was counted when its character was taken out, or had
another character and a lock when it was unlocked. `NeededSlotStays`, `LoginFindsItsData`,
`OnlineIsCounted` and `OwnedOnceKeptWhole` are claimed of a program that was not misled; a load that fails with
nobody else on the slot is no excuse. `OneVoice` and `LoginSettled` hold whether or not anybody was misled.

*A dead player's inventory.* `~TPlayer` and `~TCreature` are three actions, since the slot is unlocked in the
middle and other threads go on. `Delete` saves the data, deletes a dead player's inventory
(`crplayer.cc:250`), marks the slot dirty and counts it down; `ReleaseSlot` unlocks it; `Bury` is
`~TCreature`, which for a dead player who has not lost everything calls `SaveInventory` again
(`crmain.cc:252`), into a slot that is by then anybody's: `SaveInventoryLate`. The write is kept if the
slot is still the character's, still dirty and not being saved. Otherwise it may be lost (saved already, and
Dirty is not set again), hit another character that has the slot, or meet the writer over the same
inventory. `spoiled` collects the characters whose stored things it may have hit, and `OwnedOnceKeptWhole`
says exactly that much and no more: whatever was spoiled is the possessions of the dead
player and at most one other character, which is away, never what else is stored of them, and only until they leave the next
time. `PlayersIn` stops counting a player when `~TPlayer` begins, because that is where the code
counts the slot down: the late write has no count and no lock, and nothing in the code makes the slot wait for it.
What becomes of the inventory after a spoiling write is not followed further: `Things` says
"spoiled" until the character leaves again, and the two threads' use of the freed buffer is undefined.

### KnownCreatures

What a client can be told of a creature is one version number. `table` and `chain` are the
server's two records of the same fact; `known` and `told` are the client's. The channel is the
TCP stream with the answers in order. Positions are abstracted to the set in view, so the
client's map is the set of creatures on it. A full table and a creature without an entry are
reached (`Slots` 2 with three creatures in view).

### ClientTransport

`wire` is the bytes the server has sent, `buffer` and `expected` the decoder, `frames` the
queue behind it. A read takes any prefix of the wire up to `Chunk`, a write any prefix of the
command. `fin` says how the server's end is. `ended` is what the worker publishes; it is
what SessionFlow's `ServerCloses`, `LinkLost`, `EntryRefused` and `DecodeFails` stand for.
A framing error behind complete frames takes the first of them and ends the session without
looking at it, as ReadResult::ok() is false. How a link fails is told apart as the socket layer tells it, by the
class its error falls into: "the server is gone" means that the socket says so. A vanished link whose error is
ETIMEDOUT (`tcp_transport.cpp:107`: with the timeouts, so the worker reads on) or WSAECONNABORTED (`:64`: with
the resets) may end in RemoteClosed and is then an orderly close to everything above.

## 4. Runs

| Run | Instance | Shows |
|---|---|---|
| `session` | two typed accounts and the runtime one, cap 3, player's client, fairness | safety of the lifecycle under every interleaving; a join returns, a login is answered, Reconnecting ends |
| `session_auto` | automation path, controller first, threads may fail | the inductive invariant of the proofs; one automatic entry per list |
| `logout_violation` | player's client, safety | Exit can be undone by an ending that was still unread |
| `thread_violation` | threads may fail | Reconnecting with no retry left |
| `walk` | 3 x 2 fields, 3 steps, 2 presses, 1 disturbance, 2 answers per pass, slow link, fairness | reports true (while undisturbed and not read together), ordered, counts balanced, the picture catches up, every walk settled |
| `walk_batch_violation` | up to 8 answers per pass | a snapback read in the pass of a move names the wrong request |
| `walk_silent_violation` | 1 disturbance | a silent give-up claims the next walk's acceptance |
| `io` | ring of 3 bytes, answers of 1 byte and of 2+1, 2 packets, 2 answers, fairness | both directions are streams, bounds of the ring, no lost wake-up, delivery, release |
| `io_empty_violation` | the same, safety | a packet of no data |
| `pool` | 2 connections, 2 characters, 1 slot, 2 logins, 1 mail, 1 failing load, fairness | counting and data of logins and players, ownership with failing loads and late writes, and that every login is settled |
| `mirror` | table of 2, 3 creatures (2 interchangeable), 4 changes, 2 answers on their way | the client's records follow the server's table |
| `transport` | bytes of two values, limit 2, 2 frames, 1 command, fairness | the stream of messages, whole commands, the told end, and that every end is reached |

Bounds. SessionFlow has no bound of its own: its state space is finite for finite
`Accounts`. Two typed accounts are needed for one list to be shown under the
credentials of another; the cap of 3 is the code's. In WalkPipeline two presses are
enough for every confusion of one request with another, and `Disturbances` 1 puts one push,
stagger, stray snapback or late answer at every point of a run; the fields are the smallest block
with a diagonal and a place out of reach. In ConnectionIO the ring wraps, fills up and
overflows in the second answer; the second packet arrives at every point of the first one's
handling. `EarlyPackets` is FALSE because a client sends nothing between its login and the
first answer; with TRUE `NothingForgotten` fails (hazard at communication.cc:1380). In PlayerPool one
slot for two characters makes every assignment contend; the second login takes over,
is refused, evicts, or finds no slot. One failing load (`MaxFailures`) comes before, between or under
two logins and a mail; the proofs hold for any number of them. The `pool` run has 633,252 states, 44
steps deep. In KnownCreatures three creatures and two entries are the
smallest instance with an eviction and an overflow, four changes let a client leave and another
come back to old entries. In ClientTransport a byte of two values makes both bytes of a
header matter, and sizes 0 to 3 give an empty, two valid and an oversized frame.

Symmetry is used in `mirror` only, which has no temporal property. Deadlock is checked
in the session and walk runs: `Closed` stutters when the process is gone, and a
worker never stops looping. It is not checked in the other runs, where a connection's life
ends, the bounded inputs are used up, or both.

Fairness. Game thread of the client: weak fairness of its own steps, strong fairness of
`NextFrame`, because the engine ticks a frame after every pump of input and a player
cannot click a thread to a halt. Worker: weak fairness of what it does by itself;
every blocking call has a timeout (connect, read, write, the fifty reads of the account login), and a
broken link is reported in the end (strong fairness of `ReadFails`).
Nothing is assumed of the services: a game service that never answers is allowed, and
leaves the client in EnteringGame until Exit. Walks: the worker loops while the session
lives, data that is there is read (strong fairness of the two reads, since a pass may also end), the
server works off its to-do list, and the clock advances. ConnectionIO: both threads are scheduled, the
main loop returns to its signals and beats, the login timer runs out. PlayerPool: threads finish what
they begin; the game thread comes to every connection with a login (strong fairness of `JoinNew`, `JoinRefused`
and `TakeOver`, since it may be busy with another one each time it is looked at). Nobody has to log in, fight, send mail or save.

Refinement. `InputIsAStream`, `OutputIsAStream` and `MessagesAreAStream` are `Stream` under three
mappings; `OwnedOnceKeptWhole` is `CharacterOwnership`. In each the abstract module knows
nothing of threads, locks or chunks.

## 5. Findings

1. **Exit undone** (`logout_violation`). Logout decides the phase and the deliberate
   latch, then the kept, not orderly ending of the same session decides them again:
   Reconnecting, and the game is entered five seconds later.
2. **Retry without a thread** (`thread_violation`). An attempt is counted before the
   thread exists and its failure is not looked at.
3. **Snapback before move** (`walk_batch_violation`). Answers of one pass are noted in
   another order than they arrived in.
4. **Silence claims a walk** (`walk_silent_violation`). Three seconds are longer than the
   interval between two held steps (0.45 s), so the attribution stays shifted while the player keeps
   walking the same way.
5. **Empty packet** (`io_empty_violation`). SIGUSR2 is raised again for data that the SendData under
   way takes along; the next one writes a packet of length zero, which the client takes for
   corruption and ends a healthy session on.

`PROJECT.json` quotes the lines that say otherwise.

## 6. Proofs

All proofs assume nothing but the `ASSUME`s the modules name, which every run evaluates; they hold
for every value of the constants that satisfies them.

### SessionFlowProofs

For every set of accounts, every cap and every value of the three switches:

- `TypeCorrect`, conjunct by conjunct for each action;
- `Inductive`: `Spec => []IInv`, where `IInv` is `TypeOK` with ten named parts;
- from it every safety property the runs check: `ReapsNothingAlive`,
  `CarriesNothingOver`, `SomeoneAnswers`, `ListsMatch`, `GhostFree`, the action
  properties `RetriesOnlyLosses` and `AutoEntersOnce`, and `AlwaysComesBack`, which
  assumes `~ThreadMayFail` (with it the run `thread_violation` is a counterexample).

The properties are not inductive. That a join cuts nothing short needs to know that
a phase outside LoggingIn, EnteringGame and InGame has a worker that has said its last word
and been read (`RestMeansIdle`), which needs that the last word is the last event of the queue
(`LastWordIsLast`), and that kept events exist only while there is no worker
(`CarriedOnlyToDrain`). That nobody waits in vain needs `AnswersAreOwed`; the lists
need `ListsAreCurrent`, retries `LossIsLatest` and `RetryIsLeft`, the scene
`SceneIsEnded`, the automatic entry `SelectionIsSpent`. `FreshStart` describes the
state before BeginPlay. Each part is named in `SessionFlow`; the proof shows that each action
preserves them together. TLC checks `IInv` in `session_auto`.

### WalkPipelineProofs

For every map, every set of step shapes and any number of walks and disturbances:

- `WalkInvariant`: `Spec => []WalkInv`; from it `WalkTypes`, `LedgerAddsUp` and `ReportsNameInOrder`;
- `PictureFollows`: `Spec => []ViewCatchesUp`;
- `ReportsTellTheTruth`: `Spec => []ReportsAreTrue`.

`WalkInv` adds to the type invariant and the two properties what they need: presses are sent in order
(`Numbered`), the outstanding requests are in that order and not yet answered (`InTurn`), each still
knows its press (`Paired`), and whatever was reported is older than everything outstanding (`Spoken`).
The six steps that settle requests differ a good deal in the code (a move may settle several, a
snapback one, a deadline those in front), and the proof says first what they have in common
(`Settling`: the oldest k leave, the one that is named is the first of them), then that this keeps
the order. The facts about the ledger's operators are lemmas of their own, named after the operator
(`NoteLocalMoveFacts`, `ExpireBeforeFacts`, ...). For the picture, `ViewInv` says that the last move
under way leads to where the player is (`LastMoveLeads`): so when nothing is under way the mirror is
right, and at the end of a pass so is the view.

For the truth of the reports, `QuietInv` describes a session without disturbances whose passes read one
answer each. The outstanding walks are the one just read, those answered, the one on the to-do list and
those sent, consecutively and in that order (`Lined`); the walk on the list leads where its step leads
from the player's field (`Aimed`); the answers under way retrace the player's fields (`Leads`, with the
fields as a witness) and say what was ruled (`Honest`). Each step moves one walk from a queue to the next, so
there is a lemma for each such move (`LinedRead`, `KeptSettle`, `KeptAnswer`, `KeptTaken`). Two steps turn out to
be impossible in such a session: a field out of reach (`NeverOutOfReach`) and a request that grows late
although nothing is slow (`EveryWalkIsUnderWay`).

### ConnectionIOProofs

For every capacity, every shape of the answers and any number of packets:

- `RingStaysInBounds` from `RingInv`: the three counters stay ordered and less than a ring apart,
  although the two threads read each other's counters at different times; the amount to send was
  computed from older values and is still there when it is taken;
- `CommandsAreAStream` (`Spec => InputIsAStream`): the refinement of `Stream` for the commands. Its invariant
  is that a command belongs to one side at a time (`HandedOver`) and that a connection that was
  given up is not read again (`GivenUp`);
- `AnswersAreAStream` (`Spec => OutputIsAStream`): the refinement for the bytes of the answers. The ring is read
  through `Piece(ring, from, to)`, the bytes between two counters. `SlotsDiffer` shows that
  counters less than a ring apart are at different slots, so writing behind NextToCommit leaves
  what has not been sent alone (`WriteFieldKeeps`); `PieceSplits` shows that sending takes a prefix;
- `AnswersAreWhole` (`Spec => []NoTornAnswer`): an answer that does not fit is dropped whole. What is written so far
  of the current one is its first bytes (`Written`), the fields still to come complete it (`Sized`), and
  what is out or committed is whole answers one after another (`Whole`); that the sizes of the fields add up to
  the answer's is an induction over the fields (`Sums`);
- `AnswersAreNotForgotten` (`Spec => []NoForgottenOutput`) and, when the client sends nothing between its login and
  the first answer, `NothingIsForgotten` (`~EarlyPackets`, `Spec => []NothingForgotten`): the thread never sleeps
  over work without a signal on its way. `OutputNoted` and `InputNoted` follow the news from the place where it
  arises through flags and signals to `sigwait`. With `EarlyPackets` the second is false: the hazard at
  `communication.cc:1380`;
- `ConnectionTypes` (`Spec => []TypeOK`).

### ClientTransportProofs

For every size of a byte, a payload, a read and a command:

- `CommandsGoOutWhole`: what the server was sent is a prefix of whole commands in order, wherever partial
  writes cut them. `UplinkInv` says which byte is next (`Midway`, `Between`);
- `TransportTypes` (`Spec => []TypeOK`), from `ReceiveInv`: while the session runs the decoder holds less than one frame
  (`Incomplete`), and reads and attempts stay within their loops' limits (`Counts`);
- `MessagesStream` (`Spec => MessagesAreAStream`): the refinement of `Stream` for the messages. What one byte
  does to the decoder is `FeedByteFacts`; `FeedFacts` carries it over a whole read: the bytes that go in are the frames
  that come out and what is left in the buffer, or there is a fault. So every read and every delivery maps to a
  step of the stream, however the bytes are cut;
- `EndIsTold` (`Spec => EndSaysWhy`): an orderly end is reported only of a server that is gone as the socket tells it (`LatchInv`), a lost
  link only when the socket failed, the decoder met a length it refuses, or the server sent a message that ends the
  session. `Sourced` says that what is still to be decoded is the continuation of what the server sent, cut
  off only once the link is dead.

### KnownCreaturesProofs

For every set of creatures, every size of the table and every number of answers on their way:

- `ChainsAlwaysMatchTable` (`Spec => []ChainsMatchTable`): the server's two records of what a client knows agree,
  across evictions, deaths, log-outs and the loop that clears the table;
- `MirrorAlwaysKeepsUp` (`Spec => []MirrorKeepsUp`): the client is never referred to a creature, an evicted record
  or a place on its map that it does not have;
- `ViewIsAlwaysCurrent` (`Spec => []ViewIsCurrent`): once every answer is applied it shows what is in view, as it is;
- `KnownCreaturesTyped` (`Spec => []TypeOK`).

The last three properties say nothing of the answers on their way, and so are not inductive. The invariant `KInv` is:
the server's side is in order (`Kept`), and there is a state of the client that the pending answers lead to one after
the other without anomaly (`Trip`), which agrees with the table (`Agree`) and shows the view (`Followed`). A step of
the server appends an answer to the trip, one of the client takes the first off it. What an answer of many map objects
does to table, chains and client is an induction over its objects (`SentUpTo`), from what one object
does (`Sent`, `Tells`); an invariant of the loop that clears the table is another (`Cleared`).

### PlayerPoolProofs

For any number of characters, connections, slots, logins, mails and failing loads: `VoicesMatch`
(`Spec => []OneVoice`), that a connection in the game and the player it speaks for name each other, whatever
has gone wrong before. The invariant `VoiceInv` adds the shape of the tables (`Shaped`), where a connection
under registration is and what it holds there (`Placed`), what the game thread waits for between two of its
critical sections (`Waiting`: the login it is about to attach is still one, and its character is not in the
world) and that an absent character has no connection (`Silent`). `Orderly` sums up what a step may do to
the connections and players together: keep them, let go of one, or admit one.

In the same module, with the connection table finite (`TableAssumption`):

- `NeededStays` (`Spec => []NeededSlotStays`): unless a load failed under somebody, a slot is counted (`Sticky`)
  at least as often as logins, players and mails need it, and so keeps its character; and it is the leaving
  player's, locked, until `~TPlayer` has stored everything;
- `LoginsFindTheirData` (`Spec => []LoginFindsItsData`): unless a load failed under somebody, a login the game
  thread is told of finds its slot.

The invariant is `VoiceInv /\ InOrder`, where `InOrder` is `misled \/ SlotInv`: once misled the claim is over
(`MisledStays`), and until then a step either keeps `SlotInv` or misleads. `SlotInv` says that a character has
one slot (`Unique`), that every lock is held by a thread which knows it (`LocksKnown`), and for each of the
actors what it holds while it is between two of its critical sections: a connection under registration
(`ConnHolds`), the reader and the writer (`FilersHold`), and the game thread (`GameHolds`). Where a load has
failed, the slot may have any lock as long as it is empty and nobody counts on it (`LockKnown`). The count is a balance over sets of holders: each step adds or removes one
connection, player or mail, and `FewerNeed`, `OneMoreNeeds` and `OneLessNeeds` say what this does to the number of
holders. So each action is proved once for what it changes (`ConnEffects`, `AssignEffect`, `ChangedIsDone`) and once
for the balance.

### OwnershipProofs

On top of both (`PoolInv`), and with them every safety property of PlayerPool:

- `LoginsAreCounted` (`Spec => []OnlineIsCounted`): another balance, of the logins and the player of a character
  against the query manager's count (`LoginsInOrder`: `misled \/ OnlineInv`). A step changes it for one connection
  (`Counts`), or it is one of the game thread's three that count somebody off;
- `KeepsItsPromise` (`Spec => OwnedOnceKeptWhole`): the refinement of `CharacterOwnership`, up to the step in which a load
  fails under somebody. `DataInv` says that a clean slot which is not being loaded says what the file says
  (`FileMatches`: the visits always, the things unless they are spoiled), and that a player has the visits its slot has,
  which is one more once `~TPlayer` has begun (`PlayedMatches`). All steps but Delete and the late write leave what
  is kept of every character alone (`KeepsData`), shown for what a step does to the data: nothing
  (`QuietData`), a load (`LoadData`), an eviction (`GiveData`) and a save (`WriterData`). The late write leaves
  every `visits` alone, and the things of everybody but this player and the character now in the slot (`BuryKept`, from
  `LatePutAway` when the slot is the player's own and still to be saved, `LateSpoils` when it is not). Then Attach,
  TakeOver, LogOut, Die, Delete and Bury are Enter, TakeOver, Lose, Fall, Store and Leave of the promise, with the things
  unchanged, put away or spoiled, and the rest stutters;
- `PoolTypes` (`Spec => []TypeOK`): that counts do not fall below zero, unless misled, follows from the two balances.

### What recursive functions compute

Words of an answer, entries of a table, fields of a message and bytes of a read are worked through by recursive
functions of the models. The library's induction theorems take an operator as a parameter, which the installed provers
cannot instantiate. `DataInduction` states induction about sets instead: a set of numbers has a least one, so a
set that holds 0 and climbs is all of them (`SetInduction`, `UpTo`), and so a function with given steps exists
(`FoldExists`) and the model's recursive definition has the values it is written with. A proof about a loop names the set of the indexes up to which its invariant holds.

### Only model-checked

Every safety property that a passing run checks is proved. Liveness, which the prover does not reach, stays
with TLC: `NoEndlessWait`, `WalksAreSettled`, `Delivered`, `Released`, `LoginSettled`, `EndsAreReached`.

## 7. Not modelled

- The waiting list of the game service, its order and reply buffers with their sizes, the
  query manager and the login server as programs: PlayerPool has the orders and replies as sequences
  and the query manager as the place a login can be lost.
- Chat, channels, trade, editors, outfit and the minimap: presentation machines of one thread, each small.
- Intents other than walks; floors and turns; sends that fail in `DrainIntents` in the walk model (the
  link is then lost, which ends the session; ClientTransport has them).
- The game's rules (combat, magic, objects, scripts) and the contents of the map: data to everything that is
  modelled. Walks know of fields only where a step leads and that it may be refused.
- Cryptography, layout, panels, messages, evidence files, statistics, the asset pipeline: computation
  or output without a state that others depend on.
- Of the pool of player data: the 900 seconds the writer waits before it saves a slot (it may save any unlocked one),
  what concurrent use of a freed inventory does beyond spoiling it, and `houses.cc`, whose functions take the slots
  of house owners on the game thread while the service starts (`InitHouses`, map patches).
- The vendored database library, which is most of the lines of the repository.
