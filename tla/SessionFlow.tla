---------------------------- MODULE SessionFlow ----------------------------
(***************************************************************************)
(* The life of one REAL33D client session: the account screen, the         *)
(* character list, the game, and what brings the player back.              *)
(*                                                                         *)
(* Two threads take part.  The GAME THREAD owns UReal33DBridge: the UI     *)
(* calls it between frames, and once a frame AReal33DWorld::Tick drains    *)
(* the worker's events into it and then ticks the reconnect policy.  The   *)
(* WORKER is one FReal33DWorker running FReal33DWorker::Run; it talks to   *)
(* the login service or to the game service and publishes events into a    *)
(* single-producer single-consumer queue.  Disconnect joins the worker: it *)
(* sets bStopping and blocks the game thread until Run has returned, so a  *)
(* bridge operation that stops a worker is two steps here, with every      *)
(* remaining step of the worker free to happen in between.                 *)
(***************************************************************************)
EXTENDS Naturals, Sequences

CONSTANTS
    Accounts,              \* accounts a player may type, and the runtime file's
    RuntimeAccount,        \* AccountNumber 0: read from the runtime account file
    Nobody,                \* the owner of an empty character list
    MaxReconnectAttempts,  \* kMaxReconnectAttempts
    AutoLogin,             \* Config.bAutoLogin
    ControllerTicksFirst,  \* the controller's Tick runs before the world's
    ThreadMayFail          \* FRunnableThread::Create may return null

ASSUME AccountsAssumption == RuntimeAccount \in Accounts /\ Nobody \notin Accounts
ASSUME AttemptsAssumption == MaxReconnectAttempts \in Nat
ASSUME SwitchAssumption ==
    /\ AutoLogin \in BOOLEAN
    /\ ControllerTicksFirst \in BOOLEAN
    /\ ThreadMayFail \in BOOLEAN

VARIABLES
    phase,         \* UReal33DBridge::Phase
    creds,         \* the account in Credentials (RuntimeAccount when cleared)
    characters,    \* whose list Characters holds, Nobody when it is empty
    selected,      \* SelectedCharacter # INDEX_NONE
    attempts,      \* ReconnectAttempts
    deliberate,    \* bSessionEndedDeliberately
    dropped,       \* DisconnectedAt: none, recent, or due once the delay is over
    pending,       \* PendingEvents, kept from a worker that was stopped
    wmode,         \* none when Worker is null, else WorkerMode
    wpc,           \* where the worker is in Run
    wcreds,        \* the account the worker was built with
    stopping,      \* the worker's bStopping
    events,        \* the worker's event queue
    gpc,           \* where the game thread is in its frame
    after,         \* the operation a join is part of
    painted,       \* the phase the screen was drawn for, Redrawn after a Refresh
    scene,         \* AReal33DWorld holds actors of a session
    lastEnd,       \* how the latest worker's game ended, as it published it
    asked          \* the player pressed Exit and has asked for nothing since

bridge  == <<phase, creds, characters, selected, attempts, deliberate, dropped>>
worker  == <<wmode, wpc, wcreds, stopping, events>>
frame   == <<gpc, after, painted>>
history == <<lastEnd, asked>>
vars    == <<bridge, pending, worker, frame, scene, history>>

----------------------------------------------------------------------------
(* The phases and the rules of Real33DSessionFlow.h and                     *)
(* Real33DReconnectPolicy.h.                                                *)

Phases == {"Offline", "LoggingIn", "CharacterSelect",
           "EnteringGame", "InGame", "Reconnecting"}

(* The definitions named Bug... are plausible mistakes in the operator they  *)
(* stand before; no action uses them.                                       *)
BugLoginWhileLoggingIn(p) == p \in {"Offline", "LoggingIn"}
MayBeginAccountLogin(p) == p = "Offline"
MayEnterGame(p)         == p = "CharacterSelect"
MayLogout(p)            == p \in {"EnteringGame", "InGame", "Reconnecting"}
ShowsLoginSurface(p)    == p \in {"Offline", "LoggingIn", "CharacterSelect"}

BugEveryEndIsLost(orderly) == "Lost"
SessionEndFromOrderlyClose(orderly) == IF orderly THEN "Closed" ELSE "Lost"

ShouldReconnect(end, soFar, due) ==
    /\ end = "Lost"
    /\ soFar < MaxReconnectAttempts
    /\ due

Surface(have) == IF have THEN "CharacterSelect" ELSE "Offline"

BugOneRetryTooMany(orderly, soFar, have) ==
    IF SessionEndFromOrderlyClose(orderly) = "Lost" /\ soFar <= MaxReconnectAttempts
    THEN "Reconnecting"
    ELSE Surface(have)

ResolveSessionEnd(orderly, soFar, have) ==
    IF SessionEndFromOrderlyClose(orderly) = "Lost" /\ soFar < MaxReconnectAttempts
    THEN "Reconnecting"
    ELSE Surface(have)

----------------------------------------------------------------------------
(* Events.  Only the kinds the session flow reads are kept.                 *)

EndKinds   == {"Disconnected", "Failed"}
EventKinds == EndKinds \cup {"CharacterList", "LoginFailed", "Connected",
                             "LocalPlayerIdentified"}
Event == [kind: EventKinds, orderly: BOOLEAN, owner: Accounts]

Plain(k)      == [kind |-> k, orderly |-> FALSE, owner |-> RuntimeAccount]
Ended(k, how) == [kind |-> k, orderly |-> how, owner |-> RuntimeAccount]
ListFor(a)    == [kind |-> "CharacterList", orderly |-> FALSE, owner |-> a]

Publish(e) == events' = Append(events, e)

Modes       == {"none", "AccountLogin", "Game"}
WorkerPlace == {"start", "answered", "running", "identified", "returning", "done"}

(* A worker that is not there has returned and published nothing.           *)
NoWorker == /\ wmode' = "none" /\ wpc' = "done" /\ wcreds' = RuntimeAccount
            /\ stopping' = FALSE /\ events' = <<>>

(* new FReal33DWorker and its thread.                                       *)
Spawn(mode, account) ==
    /\ wmode' = mode /\ wpc' = "start" /\ wcreds' = account
    /\ stopping' = FALSE /\ events' = <<>>

----------------------------------------------------------------------------
Init ==
    /\ phase = "Offline" /\ creds = RuntimeAccount /\ characters = Nobody
    /\ selected = FALSE /\ attempts = 0 /\ deliberate = FALSE
    /\ dropped = "none" /\ pending = <<>>
    /\ wmode = "none" /\ wpc = "done" /\ wcreds = RuntimeAccount
    /\ stopping = FALSE /\ events = <<>>
    /\ gpc = "begin" /\ after = [op |-> "none", account |-> RuntimeAccount]
    /\ painted = "Offline" /\ scene = FALSE
    /\ lastEnd = "none" /\ asked = FALSE

----------------------------------------------------------------------------
(* The worker thread.                                                       *)

WorkerAt(mode, place) == wmode = mode /\ wpc = place

WorkerOnly == UNCHANGED <<bridge, pending, frame, scene, asked, wmode, wcreds, stopping>>

(* AskForCharacterList: the read loop runs only while the worker is not     *)
(* being stopped.                                                           *)
AnswerArrives ==
    /\ WorkerAt("AccountLogin", "start") /\ ~stopping
    /\ wpc' = "answered"
    /\ UNCHANGED <<events, lastEnd>> /\ WorkerOnly

PublishList ==
    /\ WorkerAt("AccountLogin", "answered")
    /\ Publish(ListFor(wcreds)) /\ wpc' = "returning"
    /\ UNCHANGED lastEnd /\ WorkerOnly

BugLoginFailsSilently ==
    /\ wmode = "AccountLogin" /\ wpc \in {"start", "answered"}
    /\ wpc' = "returning" /\ UNCHANGED <<events, lastEnd>> /\ WorkerOnly

(* Unreadable secrets, a request that cannot be built, an unreachable       *)
(* service, a refusal, an empty list, or a stop before the answer.          *)
LoginFails ==
    /\ wmode = "AccountLogin" /\ wpc \in {"start", "answered"}
    /\ Publish(Plain("LoginFailed")) /\ wpc' = "returning"
    /\ UNCHANGED lastEnd /\ WorkerOnly

EndGame(kind, orderly) ==
    /\ Publish(Ended(kind, orderly)) /\ wpc' = "returning"
    /\ lastEnd' = IF orderly THEN "orderly" ELSE "lost"
    /\ WorkerOnly

(* LoadInputs and FReal33DWorker::EnterGame: a Failed that is not orderly,  *)
(* or the game login goes out and Connected is published at once, before    *)
(* the server has answered it.                                              *)
SetupFails == WorkerAt("Game", "start") /\ EndGame("Failed", FALSE)

GameConnects ==
    /\ WorkerAt("Game", "start")
    /\ Publish(Plain("Connected")) /\ wpc' = "running"
    /\ UNCHANGED lastEnd /\ WorkerOnly

(* The first PublishWorldEvents after INIT_GAME and the map.                *)
PlayerIdentified ==
    /\ WorkerAt("Game", "running")
    /\ Publish(Plain("LocalPlayerIdentified")) /\ wpc' = "identified"
    /\ UNCHANGED lastEnd /\ WorkerOnly

InLoop == wmode = "Game" /\ wpc \in {"running", "identified"}

ServerCloses == InLoop /\ EndGame("Disconnected", TRUE)
LinkLost     == InLoop /\ EndGame("Disconnected", FALSE)
DecodeFails  == InLoop /\ EndGame("Failed", FALSE)
EntryRefused == WorkerAt("Game", "running") /\ EndGame("Failed", TRUE)

BugStopUnseenBeforeInitGame ==
    WorkerAt("Game", "identified") /\ stopping /\ EndGame("Disconnected", TRUE)

(* The loop sees bStopping, sends the logout command and leaves.            *)
LeaveOnStop  == InLoop /\ stopping /\ EndGame("Disconnected", TRUE)

RunReturns ==
    /\ wpc = "returning" /\ wpc' = "done"
    /\ UNCHANGED <<events, lastEnd>> /\ WorkerOnly

----------------------------------------------------------------------------
(* The game thread: StartWorker, Disconnect and what delivers an event.     *)

(* Disconnect, first half: ask the worker to stop and wait for it.          *)
Join(op, account) ==
    /\ gpc' = "join" /\ after' = [op |-> op, account |-> account]
    /\ stopping' = (wmode # "none")
    /\ UNCHANGED <<wmode, wpc, wcreds, events, pending>>

Joined(op) == gpc = "join" /\ after.op = op /\ wpc = "done"

(* Disconnect, second half: what the worker left unread is kept.            *)
Reap == pending' = pending \o events

BackTo(place) ==
    /\ gpc' = place
    /\ after' = [op |-> "none", account |-> RuntimeAccount]

(* A handler of the login screen refreshes it before it returns: what was   *)
(* on screen is collapsed or rebuilt and takes no further click until it    *)
(* has been painted again.                                                  *)
Redrawn == "redrawn"

Refresh == painted' = Redrawn

(* TickSession is the last thing of a frame; the surface drawn this frame   *)
(* is the controller's, which may have run before or after it.              *)
EndTick ==
    /\ BackTo("input")
    /\ painted' = IF ControllerTicksFirst THEN painted ELSE phase'

BugSceneKept == UNCHANGED scene

(* AReal33DWorld::ClearWorld: no actor of a session outlives it.            *)
ClearWorld == scene' = FALSE

(* StartGameWorker after a successful Reap.                                 *)
StartGameWorker ==
    \/ /\ Spawn("Game", creds) /\ phase' = "EnteringGame" /\ lastEnd' = "none"
    \/ /\ ThreadMayFail /\ NoWorker /\ UNCHANGED <<phase, lastEnd>>

(* BeginPlay; the automation path starts its login here.                    *)
BeginPlay ==
    /\ gpc = "begin" /\ BackTo("input")
    /\ \/ /\ AutoLogin
          /\ Spawn("AccountLogin", RuntimeAccount) /\ phase' = "LoggingIn"
       \/ /\ ~AutoLogin \/ ThreadMayFail
          /\ UNCHANGED <<worker, phase>>
    /\ UNCHANGED <<creds, characters, selected, attempts, deliberate, dropped,
                   pending, painted, scene, history>>

(* Login, or Enter in the password box.                                     *)
ClickLogin(a) ==
    /\ gpc = "input" /\ painted \in {"Offline", "LoggingIn"}
    /\ MayBeginAccountLogin(phase) /\ a # RuntimeAccount
    /\ Join("Login", a) /\ asked' = FALSE
    /\ UNCHANGED <<bridge, painted, scene, lastEnd>>

BugOldListKept == UNCHANGED characters /\ selected' = FALSE

(* Characters.Reset and SelectedCharacter = INDEX_NONE.                     *)
ForgetList == characters' = Nobody /\ selected' = FALSE

BeginAccountLogin ==
    /\ Joined("Login") /\ Reap /\ BackTo("input") /\ Refresh
    /\ ForgetList
    /\ \/ /\ Spawn("AccountLogin", after.account)
          /\ creds' = after.account /\ phase' = "LoggingIn" /\ lastEnd' = "none"
       \/ /\ ThreadMayFail /\ NoWorker
          /\ creds' = RuntimeAccount /\ UNCHANGED <<phase, lastEnd>>
    /\ UNCHANGED <<attempts, deliberate, dropped, scene, asked>>

ClickEnter ==
    /\ gpc = "input" /\ painted = "CharacterSelect"
    /\ MayEnterGame(phase) /\ characters # Nobody
    /\ Join("Enter", RuntimeAccount) /\ asked' = FALSE
    /\ UNCHANGED <<bridge, painted, scene, lastEnd>>

EnterGame ==
    /\ Joined("Enter") /\ Reap /\ BackTo("input") /\ Refresh
    /\ selected' = TRUE /\ attempts' = 0 /\ StartGameWorker
    /\ UNCHANGED <<creds, characters, deliberate, dropped, scene, asked>>

ClickBack ==
    /\ gpc = "input" /\ painted = "CharacterSelect"
    /\ Join("Back", RuntimeAccount) /\ asked' = FALSE
    /\ UNCHANGED <<bridge, painted, scene, lastEnd>>

ReturnToAccountScreen ==
    /\ Joined("Back") /\ Reap /\ NoWorker /\ BackTo("input") /\ Refresh
    /\ phase' = "Offline" /\ creds' = RuntimeAccount /\ ForgetList
    /\ attempts' = 0 /\ deliberate' = FALSE /\ dropped' = "none"
    /\ UNCHANGED <<scene, history>>

(* The Exit button: IsRunning, then MayLogout.                              *)
IsRunning == wmode = "Game" /\ ~stopping

ClickLogout ==
    /\ gpc = "input" /\ MayLogout(painted)
    /\ IsRunning /\ MayLogout(phase)
    /\ Join("Logout", RuntimeAccount) /\ asked' = TRUE
    /\ UNCHANGED <<bridge, painted, scene, lastEnd>>

Logout ==
    /\ Joined("Logout") /\ Reap /\ NoWorker /\ BackTo("input")
    /\ deliberate' = TRUE /\ dropped' = "none"
    /\ phase' = Surface(characters # Nobody)
    /\ UNCHANGED <<creds, characters, selected, attempts, painted, scene, history>>

(* EndPlay: the window is closed.                                           *)
ClickClose ==
    /\ gpc = "input" /\ Join("Close", RuntimeAccount)
    /\ UNCHANGED <<bridge, painted, scene, history>>

EndPlay ==
    /\ Joined("Close") /\ Reap /\ NoWorker /\ BackTo("closed")
    /\ ClearWorld
    /\ UNCHANGED <<bridge, painted, history>>

(* A new frame: pumped input is over and the actors tick.                   *)
NextFrame ==
    /\ gpc = "input" /\ gpc' = "drain"
    /\ painted' = IF ControllerTicksFirst THEN phase ELSE painted
    /\ UNCHANGED <<bridge, pending, worker, after, scene, history>>

(* NoteSession and, later in the same frame, AReal33DWorld::HandleEvent.    *)
NoteList(e) ==
    /\ e.kind = "CharacterList"
    /\ characters' = e.owner /\ phase' = "CharacterSelect"
    /\ UNCHANGED <<creds, selected, attempts, deliberate, dropped, scene>>

NoteLoginFailed(e) ==
    /\ e.kind = "LoginFailed" /\ phase' = "Offline"
    /\ UNCHANGED <<creds, characters, selected, attempts, deliberate, dropped, scene>>

NoteConnected(e) ==
    /\ e.kind = "Connected" /\ phase' = "EnteringGame"
    /\ attempts' = 0 /\ deliberate' = FALSE /\ dropped' = "none"
    /\ UNCHANGED <<creds, characters, selected, scene>>

NoteIdentified(e) ==
    /\ e.kind = "LocalPlayerIdentified" /\ phase' = "InGame" /\ scene' = TRUE
    /\ UNCHANGED <<creds, characters, selected, attempts, deliberate, dropped>>

BugSelectionForgotten(e) ==
    /\ e.kind \in EndKinds
    /\ phase' = ResolveSessionEnd(e.orderly, attempts, characters # Nobody)
    /\ deliberate' = e.orderly /\ dropped' = "recent" /\ ClearWorld
    /\ selected' = FALSE /\ UNCHANGED <<creds, characters, attempts>>

NoteEnd(e) ==
    /\ e.kind \in EndKinds
    /\ phase' = ResolveSessionEnd(e.orderly, attempts, characters # Nobody)
    /\ deliberate' = e.orderly /\ dropped' = "recent" /\ ClearWorld
    /\ UNCHANGED <<creds, characters, selected, attempts>>

NoteSession(e) == NoteList(e) \/ NoteLoginFailed(e) \/ NoteConnected(e)
                  \/ NoteIdentified(e) \/ NoteEnd(e)

(* DrainEvents: what a stopped worker left first, then the live queue.      *)
DeliverPending ==
    /\ gpc = "drain" /\ pending # <<>>
    /\ NoteSession(Head(pending)) /\ pending' = Tail(pending)
    /\ UNCHANGED <<worker, frame, history>>

DeliverLive ==
    /\ gpc = "drain" /\ pending = <<>> /\ events # <<>>
    /\ NoteSession(Head(events)) /\ events' = Tail(events)
    /\ UNCHANGED <<pending, wmode, wpc, wcreds, stopping, frame, history>>

BugNoWorkerNoDrain ==
    /\ gpc = "drain" /\ (pending = <<>> \/ wmode = "none") /\ events = <<>>
    /\ gpc' = "tick"
    /\ UNCHANGED <<bridge, pending, worker, after, painted, scene, history>>

DrainDone ==
    /\ gpc = "drain" /\ pending = <<>> /\ events = <<>> /\ gpc' = "tick"
    /\ UNCHANGED <<bridge, pending, worker, after, painted, scene, history>>

(* TickSession.                                                             *)
WantsAutoEnter == AutoLogin /\ ~selected /\ MayEnterGame(phase) /\ characters # Nobody

WantsRetry ==
    /\ ~WantsAutoEnter /\ phase = "Reconnecting" /\ dropped # "none"
    /\ ShouldReconnect(SessionEndFromOrderlyClose(deliberate), attempts, dropped = "due")

TickAutoEnter ==
    /\ gpc = "tick" /\ WantsAutoEnter
    /\ Join("AutoEnter", RuntimeAccount)
    /\ UNCHANGED <<bridge, painted, scene, history>>

AutoEnter ==
    /\ Joined("AutoEnter") /\ Reap
    /\ selected' = TRUE /\ attempts' = 0 /\ StartGameWorker /\ EndTick
    /\ UNCHANGED <<creds, characters, deliberate, dropped, scene, asked>>

TickNoCharacter ==
    /\ gpc = "tick" /\ WantsRetry /\ (~selected \/ characters = Nobody)
    /\ phase' = "Offline" /\ EndTick
    /\ UNCHANGED <<creds, characters, selected, attempts, deliberate, dropped,
                   pending, worker, scene, history>>

TickRetry ==
    /\ gpc = "tick" /\ WantsRetry /\ selected /\ characters # Nobody
    /\ attempts' = attempts + 1 /\ dropped' = "recent"
    /\ Join("Retry", RuntimeAccount)
    /\ UNCHANGED <<phase, creds, characters, selected, deliberate,
                   painted, scene, history>>

Retry ==
    /\ Joined("Retry") /\ Reap /\ StartGameWorker /\ EndTick
    /\ UNCHANGED <<creds, characters, selected, attempts, deliberate, dropped,
                   scene, asked>>

TickIdle ==
    /\ gpc = "tick" /\ ~WantsAutoEnter /\ ~WantsRetry
    /\ UNCHANGED <<bridge, pending, worker, scene, history>>
    /\ EndTick

(* The clock passes kReconnectDelaySeconds after DisconnectedAt.            *)
DelayElapses ==
    /\ dropped = "recent" /\ dropped' = "due"
    /\ UNCHANGED <<phase, creds, characters, selected, attempts, deliberate,
                   pending, worker, frame, scene, history>>

(* The process is gone: nothing more happens.                               *)
Closed == gpc = "closed" /\ UNCHANGED vars

----------------------------------------------------------------------------
PlayerStep == \/ \E a \in Accounts : ClickLogin(a)
              \/ ClickEnter \/ ClickBack \/ ClickLogout \/ ClickClose

GameThreadStep ==
    \/ BeginPlay \/ BeginAccountLogin \/ EnterGame \/ ReturnToAccountScreen
    \/ Logout \/ EndPlay \/ DeliverPending \/ DeliverLive \/ DrainDone
    \/ TickAutoEnter \/ AutoEnter \/ TickNoCharacter \/ TickRetry \/ Retry
    \/ TickIdle

(* What the worker does on its own, whatever the other end does: every      *)
(* blocking call of it has a timeout.                                       *)
WorkerProgress ==
    \/ AnswerArrives \/ PublishList \/ LoginFails \/ SetupFails \/ GameConnects
    \/ LeaveOnStop \/ RunReturns

ServiceStep == PlayerIdentified \/ ServerCloses \/ LinkLost \/ DecodeFails \/ EntryRefused

Next == \/ PlayerStep \/ GameThreadStep \/ NextFrame \/ WorkerProgress
        \/ ServiceStep \/ DelayElapses \/ Closed

(* The engine keeps ticking: a frame follows every pump of input, however   *)
(* many clicks the pump held.  The worker's own calls time out.             *)
Fairness == /\ WF_vars(GameThreadStep) /\ SF_vars(NextFrame)
            /\ WF_vars(WorkerProgress) /\ WF_vars(DelayElapses)

Spec     == Init /\ [][Next]_vars
FairSpec == Spec /\ Fairness

----------------------------------------------------------------------------
(* Properties.                                                              *)

BridgeTypeOK ==
    /\ phase \in Phases /\ creds \in Accounts /\ characters \in Accounts \cup {Nobody}
    /\ selected \in BOOLEAN /\ attempts \in 0..MaxReconnectAttempts
    /\ deliberate \in BOOLEAN /\ dropped \in {"none", "recent", "due"}
    /\ scene \in BOOLEAN

WorkerTypeOK ==
    /\ wmode \in Modes /\ wpc \in WorkerPlace /\ wcreds \in Accounts
    /\ stopping \in BOOLEAN
    /\ events \in Seq(Event) /\ pending \in Seq(Event)

FrameTypeOK ==
    /\ gpc \in {"begin", "input", "drain", "tick", "join", "closed"}
    /\ after \in [op: {"none", "Login", "Enter", "Back", "Logout", "Close",
                       "AutoEnter", "Retry"}, account: Accounts]
    /\ painted \in Phases \cup {Redrawn}
    /\ lastEnd \in {"none", "orderly", "lost"} /\ asked \in BOOLEAN

TypeOK == BridgeTypeOK /\ WorkerTypeOK /\ FrameTypeOK

Idle == wmode = "none" \/ wpc \in {"returning", "done"}

(* ReapFinishedWorker is "only ever called from a phase that proves no      *)
(* session is running, so this cannot cut one short": whenever the game     *)
(* thread is about to stop a worker for a new login or a new entry, that    *)
(* worker has published its last event already.                             *)
ReapCutsNothingShort ==
    gpc = "join" /\ after.op \in {"Login", "Enter", "AutoEnter", "Retry"} =>
        Idle /\ (wmode = "Game" => lastEnd # "none")

(* A worker is started only after everything the one before it published    *)
(* has been delivered: no event of an old session is ever drained on top of *)
(* a new one.                                                               *)
NothingCarriedOver == pending # <<>> => wmode = "none" /\ gpc # "tick"

(* Nobody waits for an answer that no one is going to give: between frames, *)
(* a phase that waits for the worker has a worker that is still going to    *)
(* publish, or has published, what ends the wait.                           *)
EndQueued == \E i \in 1..Len(events) : events[i].kind \in EndKinds
AnswerQueued == \E i \in 1..Len(events) : events[i].kind \in {"CharacterList", "LoginFailed"}

WaitsForSomeone ==
    gpc \in {"input", "tick"} =>
        /\ phase = "LoggingIn" =>
               wmode = "AccountLogin" /\ (wpc \in {"start", "answered"} \/ AnswerQueued)
        /\ phase \in {"EnteringGame", "InGame"} =>
               wmode = "Game" /\ (wpc \in {"start", "running", "identified"} \/ EndQueued)

(* A client that says it is coming back is: between frames, Reconnecting    *)
(* means a lost link, a clock that is running and a retry left.             *)
ReconnectingComesBack ==
    gpc = "input" /\ phase = "Reconnecting" =>
        ~deliberate /\ dropped # "none" /\ attempts < MaxReconnectAttempts

(* The list on offer belongs to the credentials the game login presents.    *)
ListBelongsToCredentials ==
    /\ characters # Nobody => characters = creds
    /\ wmode = "Game" => wcreds = creds /\ characters = creds

(* No ghosts: when the login surface is on screen the world behind it is    *)
(* empty, and a world on screen has a session behind it or is about to be   *)
(* told that it ended.                                                      *)
NoGhosts ==
    /\ gpc = "input" /\ ShowsLoginSurface(painted) => ~scene
    /\ scene => wmode = "Game" \/ \E i \in 1..Len(pending) : pending[i].kind \in EndKinds

(* The inductive strengthening behind the safety properties.                *)
Terminal(e) == e.kind \in EndKinds \cup {"CharacterList", "LoginFailed"}
Active      == phase \in {"LoggingIn", "EnteringGame", "InGame"}
StartOps    == {"Login", "Enter", "AutoEnter", "Retry"}

(* Before BeginPlay nothing has happened.                                   *)
FreshStart ==
    gpc = "begin" =>
        /\ phase = "Offline" /\ painted = "Offline" /\ wmode = "none" /\ pending = <<>>
        /\ creds = RuntimeAccount /\ characters = Nobody /\ lastEnd = "none"

(* A worker says its last word once, and then nothing.                      *)
LastWordIsLast ==
    /\ wmode = "none" => wpc = "done" /\ events = <<>>
    /\ wpc = "answered" => wmode = "AccountLogin"
    /\ wpc \in {"running", "identified"} => wmode = "Game"
    /\ \A i \in 1..Len(events) :
           /\ Terminal(events[i]) => i = Len(events) /\ Idle
           /\ events[i].kind \in {"CharacterList", "LoginFailed"} <=> wmode = "AccountLogin"
           /\ events[i].kind = "Connected" => i = 1 /\ phase # "InGame"
    /\ wpc = "start" => events = <<>> /\ phase \in {"LoggingIn", "EnteringGame"}
    /\ Idle /\ events # <<>> => Terminal(events[Len(events)])
    /\ wmode = "Game" /\ Idle => lastEnd # "none"

(* Outside the three phases that wait for a worker, the worker is over and  *)
(* everything it said has been read.                                        *)
RestMeansIdle ==
    ~Active => Idle /\ (wmode # "none" => events = <<>>)

(* Events are carried over only while there is no worker, and are drained   *)
(* before anything that could start one is on screen.                       *)
CarriedOnlyToDrain ==
    /\ pending # <<>> => wmode = "none" /\ gpc \in {"input", "drain", "join", "closed"}
    /\ gpc = "join" /\ after.op \in StartOps =>
           /\ pending = <<>> /\ events = <<>> /\ ~Active
           /\ after.op = "Login" => phase = "Offline"
           /\ after.op \in {"Enter", "AutoEnter"} => phase = "CharacterSelect" /\ characters # Nobody
           /\ after.op = "Retry" => phase = "Reconnecting" /\ characters # Nobody
    /\ gpc = "join" /\ after.op = "Logout" => MayLogout(painted) /\ wmode = "Game"
    /\ gpc = "join" /\ after.op = "Back" => painted = "CharacterSelect"
    /\ gpc = "input" /\ pending # <<>> => MayLogout(painted) \/ painted = Redrawn

(* A list that has not been read yet is the one the credentials asked for.  *)
ListsAreCurrent ==
    /\ wmode # "none" => wcreds = creds
    /\ \A i \in 1..Len(events) : events[i].kind = "CharacterList" => events[i].owner = creds
    /\ gpc # "closed" => \A i \in 1..Len(pending) : pending[i].kind # "CharacterList"
    /\ painted = "CharacterSelect" => wmode # "AccountLogin" \/ (Idle /\ events = <<>>)
    /\ ListBelongsToCredentials

(* An ending that was not orderly is the latest ending there is.            *)
LossIsLatest ==
    /\ \A i \in 1..Len(events) :
           events[i].kind \in EndKinds /\ ~events[i].orderly => lastEnd = "lost"
    /\ \A i \in 1..Len(pending) :
           pending[i].kind \in EndKinds /\ ~pending[i].orderly => lastEnd = "lost"
    /\ phase = "Reconnecting" => lastEnd = "lost"

(* What a waiting phase waits for is still to be said or still to be read.  *)
AnswersAreOwed ==
    gpc # "closed" =>
        /\ phase = "LoggingIn" => wmode = "AccountLogin" /\ (~Idle \/ events # <<>>)
        /\ phase \in {"EnteringGame", "InGame"} =>
               \/ wmode = "Game" /\ (~Idle \/ events # <<>>)
               \/ pending # <<>>
        /\ pending # <<>> => pending[Len(pending)].kind \in EndKinds
        /\ pending # <<>> /\ gpc \in {"input", "join"} =>
               phase \in {"CharacterSelect", "Offline"}

(* Reconnecting is a lost link, and while threads can be started a retry    *)
(* that is left or is being made.                                           *)
RetryIsLeft ==
    phase = "Reconnecting" =>
        /\ ~deliberate /\ dropped # "none"
        /\ ThreadMayFail \/ attempts < MaxReconnectAttempts
           \/ (gpc = "join" /\ after.op = "Retry")

(* Actors are on stage in the game, or until the carried ending is read; a  *)
(* game can only speak to a screen that was redrawn for it.                 *)
SceneIsEnded ==
    /\ scene => gpc # "closed" /\ (phase = "InGame" \/ pending # <<>>)
    /\ ShowsLoginSurface(painted) =>
           /\ gpc \in {"input", "tick", "join"} => ~scene
           /\ gpc = "drain" /\ scene => pending # <<>>
           /\ gpc \in {"drain", "tick"} \/ (gpc = "input" /\ ~ControllerTicksFirst) =>
                  wmode # "Game" \/ (Idle /\ events = <<>>)

(* A list no character was taken from yet has seen no session end.          *)
SelectionIsSpent ==
    /\ phase \in {"LoggingIn", "CharacterSelect"} /\ ~selected => lastEnd = "none"
    /\ wmode = "Game" => selected
    /\ pending # <<>> /\ ~selected /\ gpc # "closed" => characters = Nobody
    /\ gpc = "join" /\ after.op = "AutoEnter" => ~selected
    /\ gpc = "join" /\ after.op = "Retry" => selected

Shape == /\ FreshStart /\ LastWordIsLast /\ RestMeansIdle /\ CarriedOnlyToDrain
         /\ ListsAreCurrent /\ LossIsLatest /\ AnswersAreOwed /\ RetryIsLeft
         /\ SceneIsEnded /\ SelectionIsSpent

IInv == TypeOK /\ Shape

(* Only a lost link is retried, however the ending and the player's clicks  *)
(* were interleaved: never a close, a displacement or a logout.             *)
RetryOnlyAfterLoss == [][attempts' > attempts => lastEnd = "lost"]_vars

StartsGame == wmode' = "Game" /\ wpc' = "start" /\ wpc # "start"

(* "The player who pressed Logout must land on the list either way": after  *)
(* Exit no game session starts until the player asks for one.               *)
LogoutIsFinal == [][StartsGame => ~asked]_vars

(* The automation path takes a character once per list: a session that      *)
(* ended -- displaced, closed or logged out -- is not entered again by it.  *)
AutoEnterOncePerList ==
    [][StartsGame /\ after.op = "AutoEnter" => lastEnd = "none"]_vars

(* A join ends: the game thread is never blocked for good by a worker.      *)
JoinReturns == gpc = "join" ~> gpc # "join"

(* A login request is answered, one way or the other.                       *)
LoginIsAnswered == phase = "LoggingIn" ~> phase # "LoggingIn" \/ gpc = "closed"

(* A lost link is not waited on for ever.                                   *)
ReconnectingEnds == phase = "Reconnecting" ~> phase # "Reconnecting" \/ gpc = "closed"

(* Nothing the player sees as a wait lasts for ever: the frozen frame of a  *)
(* join, the form of a login on its way, the notice of a reconnect.         *)
NoEndlessWait == JoinReturns /\ LoginIsAnswered /\ ReconnectingEnds

============================================================================
