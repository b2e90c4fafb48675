------------------------- MODULE SessionFlowProofs -------------------------
(* Proofs about SessionFlow for every set of accounts, every attempt cap    *)
(* and every setting of the three switches.                                 *)
EXTENDS SessionFlow, SequenceTheorems, TLAPS

(* What the worker publishes is an event.                                   *)
LEMMA EventsTyped ==
    /\ \A k \in EventKinds : Plain(k) \in Event
    /\ \A k \in EventKinds : \A how \in BOOLEAN : Ended(k, how) \in Event
    /\ \A a \in Accounts : ListFor(a) \in Event
BY AccountsAssumption, SMT DEF Plain, Ended, ListFor, Event, EventKinds, EndKinds

(* Publishing appends one event and leaves the others where they are.       *)
LEMMA PublishFacts ==
    ASSUME NEW e \in Event, events \in Seq(Event), Publish(e)
    PROVE  /\ events' \in Seq(Event) /\ events' # <<>>
           /\ Len(events) \in Nat /\ Len(events') = Len(events) + 1
           /\ events'[Len(events')] = e
           /\ \A i \in 1..Len(events) : events'[i] = events[i]
BY SMT DEF Publish

(* The rules of the session flow name phases.                               *)
LEMMA RulesTyped ==
    /\ \A have \in BOOLEAN : Surface(have) \in {"CharacterSelect", "Offline"}
    /\ \A o \in BOOLEAN, n \in Nat, have \in BOOLEAN :
           ResolveSessionEnd(o, n, have) \in {"Reconnecting", "CharacterSelect", "Offline"}
    /\ \A o \in BOOLEAN, n \in Nat, have \in BOOLEAN :
           ResolveSessionEnd(o, n, have) = "Reconnecting" <=> ~o /\ n < MaxReconnectAttempts
BY AttemptsAssumption, SMT DEF Surface, ResolveSessionEnd, SessionEndFromOrderlyClose

----------------------------------------------------------------------------
(* What a step of the worker thread amounts to: it moves on without a word, *)
(* it publishes progress, or it publishes its last word.                    *)

WorkerAct ==
    \/ AnswerArrives \/ PublishList \/ LoginFails \/ SetupFails \/ GameConnects
    \/ LeaveOnStop \/ RunReturns \/ PlayerIdentified \/ ServerCloses \/ LinkLost
    \/ DecodeFails \/ EntryRefused

Quiet == /\ events' = events /\ lastEnd' = lastEnd
         /\ \/ WorkerAt("AccountLogin", "start") /\ wpc' = "answered"
            \/ wpc = "returning" /\ wpc' = "done"

Progress(e) == /\ Publish(e) /\ e.kind \in {"Connected", "LocalPlayerIdentified"}
               /\ wmode = "Game" /\ wpc \in {"start", "running"}
               /\ e.kind = "Connected" => wpc = "start"
               /\ wpc' \in {"running", "identified"} /\ lastEnd' = lastEnd

LoginWord(e) == /\ Publish(e) /\ e.kind \in {"CharacterList", "LoginFailed"}
                /\ e.kind = "CharacterList" => e.owner = wcreds
                /\ wmode = "AccountLogin" /\ wpc \in {"start", "answered"}
                /\ wpc' = "returning" /\ lastEnd' = lastEnd

GameWord(e) == /\ Publish(e) /\ e.kind \in EndKinds
               /\ lastEnd' = IF e.orderly THEN "orderly" ELSE "lost"
               /\ wmode = "Game" /\ wpc \in {"start", "running", "identified"}
               /\ wpc' = "returning"

LEMMA WorkerLeaves ==
    ASSUME WorkerAct PROVE WorkerOnly
BY Zenon DEF WorkerAct, AnswerArrives, PublishList, LoginFails, SetupFails, GameConnects,
    LeaveOnStop, RunReturns, PlayerIdentified, ServerCloses, LinkLost, DecodeFails,
    EntryRefused, EndGame

(* The end of a game is an EndKinds event that says whether it was orderly. *)
LEMMA EndGameSays ==
    ASSUME NEW k \in EndKinds, NEW how \in BOOLEAN, EndGame(k, how),
           wmode = "Game", wpc \in {"start", "running", "identified"}
    PROVE  \E e \in Event : GameWord(e)
<1>1. Ended(k, how) \in Event /\ Ended(k, how).kind = k /\ Ended(k, how).orderly = how
  BY EventsTyped, SMT DEF Ended, EventKinds
<1>2. GameWord(Ended(k, how))
  BY <1>1 DEF EndGame, GameWord
<1>3. QED BY <1>1, <1>2

LEMMA WorkerSays ==
    ASSUME TypeOK, WorkerAct
    PROVE  Quiet \/ \E e \in Event : Progress(e) \/ LoginWord(e) \/ GameWord(e)
<1> USE DEF WorkerAt, InLoop
<1>1. CASE AnswerArrives \/ RunReturns
  BY <1>1, Zenon DEF AnswerArrives, RunReturns, Quiet
<1>2. CASE PublishList
  <2>1. ListFor(wcreds) \in Event
    BY EventsTyped DEF TypeOK, WorkerTypeOK
  <2>2. LoginWord(ListFor(wcreds))
    BY <1>2, SMT DEF PublishList, LoginWord, ListFor
  <2>3. QED BY <2>1, <2>2
<1>3. CASE LoginFails
  <2>1. Plain("LoginFailed") \in Event
    BY EventsTyped DEF EventKinds
  <2>2. LoginWord(Plain("LoginFailed"))
    BY <1>3, SMT DEF LoginFails, LoginWord, Plain
  <2>3. QED BY <2>1, <2>2
<1>4. CASE GameConnects \/ PlayerIdentified
  <2>1. Plain("Connected") \in Event /\ Plain("LocalPlayerIdentified") \in Event
    BY EventsTyped DEF EventKinds
  <2>2. Progress(Plain("Connected")) \/ Progress(Plain("LocalPlayerIdentified"))
    BY <1>4, SMT DEF GameConnects, PlayerIdentified, Progress, Plain
  <2>3. QED BY <2>1, <2>2
<1>5. CASE SetupFails \/ LeaveOnStop \/ ServerCloses \/ LinkLost \/ DecodeFails \/ EntryRefused
  BY <1>5, EndGameSays, Zenon DEF SetupFails, LeaveOnStop, ServerCloses, LinkLost,
    DecodeFails, EntryRefused, EndKinds
<1>9. QED BY <1>1, <1>2, <1>3, <1>4, <1>5 DEF WorkerAct

LEMMA WorkerTyped ==
    ASSUME TypeOK, WorkerAct
    PROVE  TypeOK'
<1>1. WorkerOnly
  BY WorkerLeaves
<1>2. PICK e \in Event : Quiet \/ Progress(e) \/ LoginWord(e) \/ GameWord(e)
  BY WorkerSays, EventsTyped DEF EventKinds, EndKinds
<1>3. events' \in Seq(Event) /\ wpc' \in WorkerPlace /\ lastEnd' \in {"none", "orderly", "lost"}
  BY <1>2, PublishFacts DEF TypeOK, WorkerTypeOK, FrameTypeOK, Quiet, Progress, LoginWord,
    GameWord, WorkerPlace
<1>4. QED
  BY <1>1, <1>3 DEF TypeOK, BridgeTypeOK, WorkerTypeOK, FrameTypeOK, WorkerOnly, bridge, frame

----------------------------------------------------------------------------
(* Type correctness.                                                        *)

LEMMA QueueTyped ==
    ASSUME NEW S, NEW s \in Seq(S), NEW t \in Seq(S)
    PROVE  /\ s \o t \in Seq(S) /\ <<>> \in Seq(S)
           /\ s # <<>> => Head(s) \in S /\ Tail(s) \in Seq(S)
BY ConcatProperties, EmptySeq, HeadTailProperties

LEMMA ZeroAttempts == 0 \in 0..MaxReconnectAttempts
BY AttemptsAssumption, SMT

LEMMA InitTyped == Init => TypeOK
<1> SUFFICES ASSUME Init PROVE TypeOK
  OBVIOUS
<1>1. BridgeTypeOK
  <2>1. attempts \in 0..MaxReconnectAttempts
    BY AttemptsAssumption, SMT DEF Init
  <2>2. selected \in BOOLEAN /\ deliberate \in BOOLEAN /\ scene \in BOOLEAN
    BY Zenon DEF Init
  <2>3. phase \in Phases /\ creds \in Accounts /\ characters \in Accounts \cup {Nobody}
    BY AccountsAssumption DEF Init, Phases
  <2>4. dropped \in {"none", "recent", "due"}
    BY DEF Init
  <2>5. QED BY <2>1, <2>2, <2>3, <2>4 DEF BridgeTypeOK
<1>2. WorkerTypeOK
  BY AccountsAssumption, EmptySeq DEF Init, WorkerTypeOK, Modes, WorkerPlace
<1>3. FrameTypeOK
  <2>1. after \in [op: {"none", "Login", "Enter", "Back", "Logout", "Close",
                        "AutoEnter", "Retry"}, account: Accounts]
    BY AccountsAssumption, SMT DEF Init
  <2>2. asked \in BOOLEAN
    BY Zenon DEF Init
  <2>3. QED BY <2>1, <2>2 DEF Init, FrameTypeOK, Phases
<1>4. QED BY <1>1, <1>2, <1>3 DEF TypeOK

(* What starting a worker, or failing to, leaves.                           *)
LEMMA StartTyped ==
    ASSUME TypeOK, NEW mode \in Modes, NEW a \in Accounts, Spawn(mode, a) \/ NoWorker
    PROVE  /\ wmode' \in Modes /\ wpc' \in WorkerPlace /\ wcreds' \in Accounts
           /\ stopping' \in BOOLEAN /\ events' \in Seq(Event)
BY AccountsAssumption, EmptySeq DEF TypeOK, WorkerTypeOK, Spawn, NoWorker, Modes, WorkerPlace

LEMMA GameStartTyped ==
    ASSUME TypeOK, StartGameWorker
    PROVE  /\ wmode' \in Modes /\ wpc' \in WorkerPlace /\ wcreds' \in Accounts
           /\ stopping' \in BOOLEAN /\ events' \in Seq(Event)
           /\ phase' \in Phases /\ lastEnd' \in {"none", "orderly", "lost"}
<1>1. Spawn("Game", creds) \/ NoWorker
  BY DEF StartGameWorker
<1>2. phase' \in Phases /\ lastEnd' \in {"none", "orderly", "lost"}
  BY DEF StartGameWorker, TypeOK, BridgeTypeOK, FrameTypeOK, Phases
<1>3. QED
  BY <1>1, <1>2, StartTyped DEF Modes, TypeOK, BridgeTypeOK

GameThreadAct == PlayerStep \/ GameThreadStep \/ NextFrame \/ DelayElapses \/ Closed

(* What a step of the game thread does to the worker and to what it left:   *)
(* nothing, the first half of a Disconnect, the second half, or one event   *)
(* taken from a queue.                                                      *)
LEMMA GameThreadWorker ==
    ASSUME TypeOK, GameThreadAct
    PROVE  WorkerTypeOK'
<1> USE DEF TypeOK, WorkerTypeOK
<1>1. CASE PlayerStep \/ TickRetry \/ TickAutoEnter
  <2>1. UNCHANGED <<wmode, wpc, wcreds, events, pending>>
    BY <1>1 DEF PlayerStep, ClickLogin, ClickEnter, ClickBack, ClickLogout, ClickClose,
      TickRetry, TickAutoEnter, Join
  <2>2. stopping' \in BOOLEAN
    BY <1>1 DEF PlayerStep, ClickLogin, ClickEnter, ClickBack, ClickLogout, ClickClose,
      TickRetry, TickAutoEnter, Join
  <2>3. QED BY <2>1, <2>2
<1>2. CASE BeginPlay
  BY <1>2, StartTyped, AccountsAssumption DEF BeginPlay, Modes, worker
<1>3. CASE BeginAccountLogin
  <2>1. Reap /\ \E a \in Accounts : Spawn("AccountLogin", a) \/ NoWorker
    BY <1>3, AccountsAssumption DEF BeginAccountLogin, FrameTypeOK
  <2>2. QED BY <2>1, StartTyped, QueueTyped DEF Reap, Modes
<1>4. CASE EnterGame \/ AutoEnter \/ Retry
  <2>1. Reap /\ StartGameWorker
    BY <1>4 DEF EnterGame, AutoEnter, Retry
  <2>2. QED BY <2>1, GameStartTyped, QueueTyped DEF Reap
<1>5. CASE ReturnToAccountScreen \/ Logout \/ EndPlay
  <2>1. Reap /\ NoWorker
    BY <1>5 DEF ReturnToAccountScreen, Logout, EndPlay
  <2>2. QED BY <2>1, StartTyped, QueueTyped, AccountsAssumption DEF Reap, Modes
<1>6. CASE DeliverPending
  BY <1>6, QueueTyped DEF DeliverPending, worker
<1>7. CASE DeliverLive
  BY <1>7, QueueTyped DEF DeliverLive
<1>8. CASE TickNoCharacter \/ TickIdle \/ NextFrame \/ DrainDone \/ DelayElapses \/ Closed
  <2>1. UNCHANGED <<worker, pending>>
    BY <1>8 DEF TickNoCharacter, TickIdle, NextFrame, DrainDone, DelayElapses, Closed, vars
  <2>2. QED BY <2>1 DEF worker
<1>9. QED
  BY <1>1, <1>2, <1>3, <1>4, <1>5, <1>6, <1>7, <1>8 DEF GameThreadAct, GameThreadStep

(* What delivering an event leaves in the bridge.                           *)
LEMMA NoteTyped ==
    ASSUME BridgeTypeOK, NEW e \in Event, NoteSession(e)
    PROVE  BridgeTypeOK'
<1> USE DEF BridgeTypeOK
<1>1. e.orderly \in BOOLEAN /\ e.owner \in Accounts
  BY SMT DEF Event
<1>2. CASE NoteEnd(e)
  <2>1. phase' \in Phases
    <3>1. attempts \in Nat /\ (characters # Nobody) \in BOOLEAN
      BY AttemptsAssumption
    <3>2. QED BY <1>1, <1>2, <3>1, RulesTyped, Zenon DEF NoteEnd, Phases
  <2>2. deliberate' \in BOOLEAN /\ scene' \in BOOLEAN
    BY <1>1, <1>2, Zenon DEF NoteEnd, ClearWorld
  <2>3. QED BY <1>2, <2>1, <2>2 DEF NoteEnd
<1>3. CASE NoteList(e) \/ NoteLoginFailed(e)
  BY <1>1, <1>3 DEF NoteList, NoteLoginFailed, Phases
<1>4. CASE NoteConnected(e)
  <2>1. attempts' \in 0..MaxReconnectAttempts
    BY <1>4, ZeroAttempts DEF NoteConnected
  <2>2. deliberate' \in BOOLEAN
    BY <1>4 DEF NoteConnected
  <2>3. QED BY <1>4, <2>1, <2>2 DEF NoteConnected, Phases
<1>5. CASE NoteIdentified(e)
  BY <1>5 DEF NoteIdentified, Phases
<1>6. QED BY <1>2, <1>3, <1>4, <1>5 DEF NoteSession

LEMMA GameThreadBridge ==
    ASSUME TypeOK, GameThreadAct
    PROVE  BridgeTypeOK'
<1> USE DEF TypeOK, BridgeTypeOK
<1>1. CASE PlayerStep \/ TickAutoEnter \/ TickIdle \/ NextFrame \/ DrainDone \/ Closed
  <2>1. UNCHANGED <<bridge, scene>>
    BY <1>1 DEF PlayerStep, ClickLogin, ClickEnter, ClickBack, ClickLogout, ClickClose,
      TickAutoEnter, TickIdle, NextFrame, DrainDone, Closed, vars
  <2>2. QED BY <2>1 DEF bridge
<1>2. CASE EndPlay
  <2>1. UNCHANGED bridge /\ scene' \in BOOLEAN
    BY <1>2 DEF EndPlay, ClearWorld
  <2>2. QED BY <2>1 DEF bridge
<1>3. CASE BeginPlay
  BY <1>3 DEF BeginPlay, Phases
<1>4. CASE BeginAccountLogin
  <2>1. creds' \in Accounts /\ phase' \in Phases
    BY <1>4, AccountsAssumption DEF BeginAccountLogin, FrameTypeOK, Phases
  <2>2. QED BY <1>4, <2>1 DEF BeginAccountLogin, ForgetList
<1>5. CASE EnterGame \/ AutoEnter
  <2>1. attempts' \in 0..MaxReconnectAttempts
    BY <1>5, ZeroAttempts DEF EnterGame, AutoEnter
  <2>2. selected' \in BOOLEAN
    BY <1>5 DEF EnterGame, AutoEnter
  <2>3. phase' \in Phases
    BY <1>5, GameStartTyped DEF EnterGame, AutoEnter
  <2>4. QED BY <1>5, <2>1, <2>2, <2>3 DEF EnterGame, AutoEnter
<1>6. CASE Retry
  BY <1>6, GameStartTyped DEF Retry
<1>7. CASE ReturnToAccountScreen
  <2>1. attempts' \in 0..MaxReconnectAttempts
    BY <1>7, ZeroAttempts DEF ReturnToAccountScreen
  <2>2. selected' \in BOOLEAN /\ deliberate' \in BOOLEAN
    BY <1>7 DEF ReturnToAccountScreen, ForgetList
  <2>3. QED BY <1>7, <2>1, <2>2, AccountsAssumption
        DEF ReturnToAccountScreen, ForgetList, Phases
<1>8. CASE Logout
  <2>1. phase' \in Phases
    BY <1>8, RulesTyped, Zenon DEF Logout, Phases
  <2>2. QED BY <1>8, <2>1 DEF Logout
<1>9. CASE TickNoCharacter
  BY <1>9 DEF TickNoCharacter, Phases
<1>10. CASE TickRetry
  <2>1. attempts' \in 0..MaxReconnectAttempts
    BY <1>10, AttemptsAssumption, SMT DEF TickRetry, WantsRetry, ShouldReconnect
  <2>2. QED BY <1>10, <2>1 DEF TickRetry
<1>11. CASE DelayElapses
  BY <1>11 DEF DelayElapses
<1>12. CASE DeliverPending \/ DeliverLive
  <2>1. \E e \in Event : NoteSession(e)
    BY <1>12, QueueTyped DEF DeliverPending, DeliverLive, WorkerTypeOK
  <2>2. QED BY <2>1, NoteTyped
<1>13. QED
  BY <1>1, <1>2, <1>3, <1>4, <1>5, <1>6, <1>7, <1>8, <1>9, <1>10, <1>11, <1>12
  DEF GameThreadAct, GameThreadStep

AfterOps == {"none", "Login", "Enter", "Back", "Logout", "Close", "AutoEnter", "Retry"}

LEMMA GameThreadFrame ==
    ASSUME TypeOK, GameThreadAct
    PROVE  FrameTypeOK'
<1> USE DEF TypeOK, FrameTypeOK
<1>1. \A op \in AfterOps, a \in Accounts :
          Join(op, a) => gpc' \in {"join"} /\ after' \in [op: AfterOps, account: Accounts]
  BY SMT DEF Join, AfterOps
<1>2. ASSUME NEW place \in {"input", "closed"}, BackTo(place)
      PROVE  gpc' \in {"input", "closed"} /\ after' \in [op: AfterOps, account: Accounts]
  BY <1>2, AccountsAssumption, SMT DEF BackTo, AfterOps
<1>3. CASE PlayerStep \/ TickAutoEnter \/ TickRetry
  <2>1. \E op \in AfterOps, a \in Accounts : Join(op, a)
    BY <1>3, AccountsAssumption DEF PlayerStep, ClickLogin, ClickEnter, ClickBack, ClickLogout,
      ClickClose, TickAutoEnter, TickRetry, AfterOps
  <2>2. painted' = painted /\ lastEnd' = lastEnd
    BY <1>3 DEF PlayerStep, ClickLogin, ClickEnter, ClickBack, ClickLogout,
      ClickClose, TickAutoEnter, TickRetry, history
  <2>3. asked' \in BOOLEAN
    BY <1>3 DEF PlayerStep, ClickLogin, ClickEnter, ClickBack, ClickLogout,
      ClickClose, TickAutoEnter, TickRetry, history
  <2>4. QED BY <1>1, <2>1, <2>2, <2>3 DEF AfterOps
<1>4. CASE \/ BeginPlay \/ BeginAccountLogin \/ EnterGame \/ ReturnToAccountScreen \/ Logout
           \/ EndPlay \/ AutoEnter \/ Retry \/ TickNoCharacter \/ TickIdle
  <2>1. BackTo("input") \/ BackTo("closed")
    BY <1>4 DEF BeginPlay, BeginAccountLogin, EnterGame, ReturnToAccountScreen, Logout,
      EndPlay, AutoEnter, Retry, TickNoCharacter, TickIdle, EndTick
  <2>2. painted' \in Phases \cup {Redrawn}
    <3>1. phase' \in Phases
      BY GameThreadBridge DEF BridgeTypeOK
    <3>2. painted' \in {painted, phase', Redrawn}
      BY <1>4 DEF BeginPlay, BeginAccountLogin, EnterGame, ReturnToAccountScreen, Logout,
        EndPlay, AutoEnter, Retry, TickNoCharacter, TickIdle, EndTick, Refresh
    <3>3. QED BY <3>1, <3>2
  <2>3. lastEnd' \in {"none", "orderly", "lost"}
    BY <1>4, GameStartTyped DEF BeginPlay, BeginAccountLogin, EnterGame, ReturnToAccountScreen,
      Logout, EndPlay, AutoEnter, Retry, TickNoCharacter, TickIdle, history
  <2>4. asked' = asked
    BY <1>4 DEF BeginPlay, BeginAccountLogin, EnterGame, ReturnToAccountScreen,
      Logout, EndPlay, AutoEnter, Retry, TickNoCharacter, TickIdle, history
  <2>5. QED BY <1>2, <2>1, <2>2, <2>3, <2>4 DEF AfterOps
<1>5. CASE NextFrame
  BY <1>5 DEF NextFrame, history, BridgeTypeOK
<1>6. CASE DrainDone
  BY <1>6 DEF DrainDone, history
<1>7. CASE DeliverPending \/ DeliverLive \/ DelayElapses \/ Closed
  <2>1. UNCHANGED <<frame, history>>
    BY <1>7 DEF DeliverPending, DeliverLive, DelayElapses, Closed, vars
  <2>2. QED BY <2>1 DEF frame, history
<1>8. QED
  BY <1>3, <1>4, <1>5, <1>6, <1>7 DEF GameThreadAct, GameThreadStep

LEMMA NextSplit ==
    Next <=> WorkerAct \/ GameThreadAct
BY DEF Next, WorkerAct, WorkerProgress, ServiceStep, GameThreadAct

LEMMA NextTyped == TypeOK /\ [Next]_vars => TypeOK'
<1> SUFFICES ASSUME TypeOK, [Next]_vars PROVE TypeOK'
  OBVIOUS
<1>1. CASE WorkerAct
  BY <1>1, WorkerTyped
<1>2. CASE GameThreadAct
  BY <1>2, GameThreadWorker, GameThreadBridge, GameThreadFrame DEF TypeOK
<1>3. CASE UNCHANGED vars
  BY <1>3, SMT DEF vars, bridge, worker, frame, history, TypeOK, BridgeTypeOK, WorkerTypeOK,
    FrameTypeOK
<1>4. QED BY <1>1, <1>2, <1>3, NextSplit

(* Every value of every variable is one the code can hold; in particular    *)
(* ReconnectAttempts never exceeds the cap.                                 *)
THEOREM TypeCorrect == Spec => []TypeOK
<1>1. QED BY InitTyped, NextTyped, PTL DEF Spec

----------------------------------------------------------------------------
(* The inductive invariant.  Each step is one leaf: the parts of the        *)
(* invariant support each other, so they are expanded together.             *)

LEMMA InitShape == Init => Shape
BY AccountsAssumption, SMT DEF Init, Shape, FreshStart, LastWordIsLast, RestMeansIdle,
    CarriedOnlyToDrain, ListsAreCurrent, LossIsLatest, AnswersAreOwed, RetryIsLeft,
    SceneIsEnded, SelectionIsSpent, ListBelongsToCredentials, Terminal, Idle, EndKinds, Active, StartOps,
    MayLogout, Redrawn, ShowsLoginSurface

(* Reading the head of a queue: what is left, and where the last event is.  *)
LEMMA TakenFacts ==
    ASSUME NEW s \in Seq(Event), s # <<>>
    PROVE  /\ Head(s) = s[1] /\ Head(s) \in Event /\ Tail(s) \in Seq(Event)
           /\ Len(s) \in Nat /\ Len(Tail(s)) = Len(s) - 1
           /\ \A i \in 1..Len(Tail(s)) : Tail(s)[i] = s[i + 1]
           /\ Tail(s) # <<>> => Tail(s)[Len(Tail(s))] = s[Len(s)]
           /\ Tail(s) = <<>> => Head(s) = s[Len(s)]
<1>1. /\ Head(s) = s[1] /\ Head(s) \in Event /\ Tail(s) \in Seq(Event)
      /\ Len(s) \in Nat /\ Len(Tail(s)) = Len(s) - 1
      /\ \A i \in 1..Len(Tail(s)) : Tail(s)[i] = s[i + 1]
  <2>1. Head(s) = s[1]
    BY SMT
  <2>2. Len(s) \in Nat
    BY LenProperties
  <2>3. QED BY <2>1, <2>2, HeadTailProperties
<1>2. Tail(s) # <<>> => Len(Tail(s)) \in 1..Len(Tail(s))
  BY <1>1, EmptySeq, LenProperties, SMT
<1>3. Tail(s) = <<>> => Len(s) = 1
  <2>1. Tail(s) = <<>> => Len(Tail(s)) = 0
    BY EmptySeq
  <2>2. QED BY <1>1, <2>1, SMT
<1>4. QED BY <1>1, <1>2, <1>3, SMT

LEMMA WorkerKeeps ==
    ASSUME IInv, WorkerAct
    PROVE  Shape'
<1> USE AccountsAssumption DEF IInv, Shape, TypeOK, BridgeTypeOK, WorkerTypeOK, FrameTypeOK,
      FreshStart, LastWordIsLast, RestMeansIdle, CarriedOnlyToDrain, ListsAreCurrent,
      LossIsLatest, AnswersAreOwed, RetryIsLeft, SceneIsEnded, SelectionIsSpent,
      ListBelongsToCredentials, Terminal, Idle, EndKinds, Active, StartOps, MayLogout, Redrawn, ShowsLoginSurface
<1>1. WorkerOnly
  BY WorkerLeaves
<1>2. CASE Quiet
  BY <1>1, <1>2, SMTT(20) DEF Quiet, WorkerOnly, WorkerAt, bridge, frame
<1>3. ASSUME NEW e \in Event, Progress(e)
      PROVE  Shape'
  BY <1>1, <1>3, SMTT(20) DEF Progress, WorkerOnly, bridge, frame, Publish, Event
<1>4. ASSUME NEW e \in Event, LoginWord(e)
      PROVE  Shape'
  BY <1>1, <1>4, SMTT(20) DEF LoginWord, WorkerOnly, bridge, frame, Publish, Event
<1>5. ASSUME NEW e \in Event, GameWord(e)
      PROVE  Shape'
  BY <1>1, <1>5, SMTT(20) DEF GameWord, WorkerOnly, bridge, frame, Publish, Event
<1>6. QED BY <1>2, <1>3, <1>4, <1>5, WorkerSays

(* A click is the first half of a Disconnect: it moves nothing of the       *)
(* bridge, and its guards are what the second half finds.                   *)
LEMMA ClicksKeep ==
    ASSUME IInv, PlayerStep
    PROVE  Shape'
<1> USE AccountsAssumption DEF IInv, Shape, TypeOK, BridgeTypeOK, WorkerTypeOK, FrameTypeOK,
      FreshStart, LastWordIsLast, RestMeansIdle, CarriedOnlyToDrain, ListsAreCurrent,
      LossIsLatest, AnswersAreOwed, RetryIsLeft, SceneIsEnded, SelectionIsSpent,
      ListBelongsToCredentials, Terminal, Idle, EndKinds, Active, StartOps, MayLogout, Redrawn, ShowsLoginSurface
<1>1. ASSUME NEW a \in Accounts, ClickLogin(a)
      PROVE  Shape'
  BY <1>1, SMTT(20) DEF ClickLogin, Join, MayBeginAccountLogin, bridge
<1>2. CASE ClickEnter
  BY <1>2, SMTT(20) DEF ClickEnter, Join, MayEnterGame, bridge
<1>3. CASE ClickBack
  BY <1>3, SMTT(20) DEF ClickBack, Join, bridge
<1>4. CASE ClickLogout
  BY <1>4, SMTT(20) DEF ClickLogout, Join, IsRunning, bridge
<1>5. CASE ClickClose
  BY <1>5, SMTT(20) DEF ClickClose, Join, bridge, history
<1>6. QED BY <1>1, <1>2, <1>3, <1>4, <1>5 DEF PlayerStep

(* The second half of a Disconnect and what the operation does with it.     *)
LEMMA OperationsKeep ==
    ASSUME IInv, \/ BeginAccountLogin \/ EnterGame \/ ReturnToAccountScreen \/ Logout
                 \/ EndPlay \/ AutoEnter \/ Retry
    PROVE  Shape'
<1> USE AccountsAssumption DEF IInv, Shape, TypeOK, BridgeTypeOK, WorkerTypeOK, FrameTypeOK,
      FreshStart, LastWordIsLast, RestMeansIdle, CarriedOnlyToDrain, ListsAreCurrent,
      LossIsLatest, AnswersAreOwed, RetryIsLeft, SceneIsEnded, SelectionIsSpent,
      ListBelongsToCredentials, Terminal, Idle, EndKinds, Active, StartOps, MayLogout, Redrawn, ShowsLoginSurface, Joined, Reap, BackTo
<1>1. CASE BeginAccountLogin
  BY <1>1, SMTT(20) DEF BeginAccountLogin, Spawn, NoWorker, Refresh, ForgetList
<1>2. CASE EnterGame
  BY <1>2, SMTT(20) DEF EnterGame, StartGameWorker, Spawn, NoWorker, Refresh
<1>3. CASE ReturnToAccountScreen
  BY <1>3, SMTT(20) DEF ReturnToAccountScreen, NoWorker, Refresh, ForgetList, history
<1>4. CASE Logout
  BY <1>4, SMTT(20) DEF Logout, NoWorker, Surface, history
<1>5. CASE EndPlay
  BY <1>5, SMTT(20) DEF EndPlay, NoWorker, ClearWorld, bridge, history
<1>6. CASE AutoEnter
  BY <1>6, SMTT(20) DEF AutoEnter, StartGameWorker, Spawn, NoWorker, EndTick
<1>7. CASE Retry
  BY <1>7, SMTT(20) DEF Retry, StartGameWorker, Spawn, NoWorker, EndTick
<1>8. QED BY <1>1, <1>2, <1>3, <1>4, <1>5, <1>6, <1>7

(* Draining one event the worker left behind when it was stopped.           *)
LEMMA PendingKeeps ==
    ASSUME IInv, DeliverPending
    PROVE  Shape'
<1> USE AccountsAssumption DEF IInv, Shape, TypeOK, BridgeTypeOK, WorkerTypeOK, FrameTypeOK,
      FreshStart, LastWordIsLast, RestMeansIdle, CarriedOnlyToDrain, ListsAreCurrent,
      LossIsLatest, AnswersAreOwed, RetryIsLeft, SceneIsEnded, SelectionIsSpent,
      ListBelongsToCredentials, Terminal, Idle, EndKinds, Active, StartOps, MayLogout, Redrawn, ShowsLoginSurface, DeliverPending, worker, frame, history
<1> DEFINE e == Head(pending)
<1>1. pending \in Seq(Event) /\ pending # <<>>
  OBVIOUS
<1>2. CASE NoteList(e)
  BY <1>1, <1>2, TakenFacts, SMTT(20) DEF NoteList
<1>3. CASE NoteLoginFailed(e)
  BY <1>1, <1>3, TakenFacts, SMTT(20) DEF NoteLoginFailed
<1>4. CASE NoteConnected(e)
  BY <1>1, <1>4, TakenFacts, SMTT(20) DEF NoteConnected
<1>5. CASE NoteIdentified(e)
  BY <1>1, <1>5, TakenFacts, SMTT(20) DEF NoteIdentified
<1>6. CASE NoteEnd(e)
  BY <1>1, <1>6, TakenFacts, SMTT(20) DEF NoteEnd, ClearWorld, ResolveSessionEnd,
    SessionEndFromOrderlyClose, Surface
<1>7. QED BY <1>2, <1>3, <1>4, <1>5, <1>6 DEF NoteSession

(* Draining one event of the worker that is there.                          *)
LEMMA LiveKeeps ==
    ASSUME IInv, DeliverLive
    PROVE  Shape'
<1> USE AccountsAssumption DEF IInv, Shape, TypeOK, BridgeTypeOK, WorkerTypeOK, FrameTypeOK,
      FreshStart, LastWordIsLast, RestMeansIdle, CarriedOnlyToDrain, ListsAreCurrent,
      LossIsLatest, AnswersAreOwed, RetryIsLeft, SceneIsEnded, SelectionIsSpent,
      ListBelongsToCredentials, Terminal, Idle, EndKinds, Active, StartOps, MayLogout, Redrawn, ShowsLoginSurface, DeliverLive, frame, history
<1> DEFINE e == Head(events)
<1>1. events \in Seq(Event) /\ events # <<>>
  OBVIOUS
<1>2. CASE NoteList(e)
  BY <1>1, <1>2, TakenFacts, SMTT(20) DEF NoteList
<1>3. CASE NoteLoginFailed(e)
  BY <1>1, <1>3, TakenFacts, SMTT(20) DEF NoteLoginFailed
<1>4. CASE NoteConnected(e)
  <2>1. ~Terminal(e) /\ wmode = "Game"
    BY <1>1, <1>4, TakenFacts, SMTT(20) DEF NoteConnected, Modes
  <2>2. Tail(events) = <<>> => ~Idle
    BY <1>1, <2>1, TakenFacts, SMTT(20)
  <2>3. QED BY <1>1, <1>4, <2>1, <2>2, TakenFacts, SMTT(20) DEF NoteConnected
<1>5. CASE NoteIdentified(e)
  BY <1>1, <1>5, TakenFacts, SMTT(20) DEF NoteIdentified
<1>6. CASE NoteEnd(e)
  BY <1>1, <1>6, TakenFacts, SMTT(20) DEF NoteEnd, ClearWorld, ResolveSessionEnd,
    SessionEndFromOrderlyClose, Surface
<1>7. QED BY <1>2, <1>3, <1>4, <1>5, <1>6 DEF NoteSession

(* The rest of a frame.                                                     *)
LEMMA FramesKeep ==
    ASSUME IInv, \/ BeginPlay \/ NextFrame \/ DrainDone \/ TickAutoEnter \/ TickNoCharacter
                 \/ TickRetry \/ TickIdle \/ DelayElapses \/ Closed
    PROVE  Shape'
<1> USE AccountsAssumption DEF IInv, Shape, TypeOK, BridgeTypeOK, WorkerTypeOK, FrameTypeOK,
      FreshStart, LastWordIsLast, RestMeansIdle, CarriedOnlyToDrain, ListsAreCurrent,
      LossIsLatest, AnswersAreOwed, RetryIsLeft, SceneIsEnded, SelectionIsSpent,
      ListBelongsToCredentials, Terminal, Idle, EndKinds, Active, StartOps, MayLogout, Redrawn, ShowsLoginSurface, bridge, worker, history
<1>1. CASE BeginPlay
  BY <1>1, SMTT(20) DEF BeginPlay, Spawn, BackTo
<1>2. CASE NextFrame
  BY <1>2, SMTT(20) DEF NextFrame
<1>3. CASE DrainDone
  BY <1>3, SMTT(20) DEF DrainDone
<1>4. CASE TickAutoEnter
  BY <1>4, SMTT(20) DEF TickAutoEnter, WantsAutoEnter, MayEnterGame, Join
<1>5. CASE TickNoCharacter
  BY <1>5, SMTT(20) DEF TickNoCharacter, WantsRetry, EndTick, BackTo
<1>6. CASE TickRetry
  BY <1>6, SMTT(20) DEF TickRetry, WantsRetry, Join
<1>7. CASE TickIdle
  BY <1>7, SMTT(20) DEF TickIdle, EndTick, BackTo
<1>8. CASE DelayElapses
  BY <1>8, SMTT(20) DEF DelayElapses, frame
<1>9. CASE Closed
  BY <1>9, SMTT(20) DEF Closed, vars, frame
<1>10. QED BY <1>1, <1>2, <1>3, <1>4, <1>5, <1>6, <1>7, <1>8, <1>9

LEMMA NextKeeps == IInv /\ [Next]_vars => IInv'
<1> SUFFICES ASSUME IInv, [Next]_vars PROVE IInv'
  OBVIOUS
<1>1. TypeOK'
  BY NextTyped DEF IInv
<1>2. CASE UNCHANGED vars
  BY <1>1, <1>2, SMTT(20) DEF IInv, Shape, TypeOK, BridgeTypeOK, WorkerTypeOK, FrameTypeOK,
      FreshStart, LastWordIsLast, RestMeansIdle, CarriedOnlyToDrain, ListsAreCurrent,
      LossIsLatest, AnswersAreOwed, RetryIsLeft, SceneIsEnded, SelectionIsSpent,
      ListBelongsToCredentials, Terminal, Idle, EndKinds, Active, StartOps, MayLogout, Redrawn, ShowsLoginSurface, vars, bridge, worker, frame, history
<1>3. CASE Next
  BY <1>1, <1>3, NextSplit, WorkerKeeps, ClicksKeep, OperationsKeep, PendingKeeps, LiveKeeps,
    FramesKeep DEF IInv, GameThreadAct, GameThreadStep
<1>4. QED BY <1>2, <1>3

THEOREM Inductive == Spec => []IInv
<1>1. Init => IInv
  BY InitTyped, InitShape DEF IInv
<1>2. QED BY <1>1, NextKeeps, PTL DEF Spec

----------------------------------------------------------------------------
(* What follows from it.                                                    *)

(* ReapFinishedWorker never stops a worker that still has something to say. *)
THEOREM ReapsNothingAlive == Spec => []ReapCutsNothingShort
<1>1. IInv => ReapCutsNothingShort
  BY SMT DEF IInv, Shape, LastWordIsLast, RestMeansIdle, CarriedOnlyToDrain, StartOps,
    ReapCutsNothingShort
<1>2. QED BY <1>1, Inductive, PTL

(* No event of an old session is drained on top of a new one.               *)
THEOREM CarriesNothingOver == Spec => []NothingCarriedOver
<1>1. IInv => NothingCarriedOver
  BY SMT DEF IInv, Shape, CarriedOnlyToDrain, NothingCarriedOver
<1>2. QED BY <1>1, Inductive, PTL

(* A phase that waits for the worker has a worker that still has to answer, *)
(* or whose answer is in the queue.                                         *)
THEOREM SomeoneAnswers == Spec => []WaitsForSomeone
<1>1. ASSUME IInv PROVE WaitsForSomeone
  <2> USE <1>1 DEF IInv, Shape
  <2>1. CASE gpc \in {"input", "tick"}
    <3>1. phase = "LoggingIn" =>
              wmode = "AccountLogin" /\ (wpc \in {"start", "answered"} \/ AnswerQueued)
      <4>1. CASE phase = "LoggingIn" /\ events # <<>>
        <5>1. Len(events) \in 1..Len(events)
          BY <4>1, EmptySeq, SMT DEF TypeOK, WorkerTypeOK
        <5>2. events[Len(events)].kind \in {"CharacterList", "LoginFailed"}
          BY <2>1, <4>1, <5>1, SMT DEF LastWordIsLast, AnswersAreOwed
        <5>3. QED BY <2>1, <4>1, <5>1, <5>2 DEF AnswersAreOwed, AnswerQueued
      <4>2. CASE phase = "LoggingIn" /\ events = <<>>
        BY <2>1, <4>2, SMT DEF AnswersAreOwed, LastWordIsLast, TypeOK, WorkerTypeOK,
          WorkerPlace, Idle
      <4>3. QED BY <4>1, <4>2
    <3>2. phase \in {"EnteringGame", "InGame"} =>
              wmode = "Game" /\ (wpc \in {"start", "running", "identified"} \/ EndQueued)
      <4>1. CASE phase \in {"EnteringGame", "InGame"}
        <5>1. wmode = "Game" /\ (~Idle \/ events # <<>>)
          BY <2>1, <4>1, SMT DEF AnswersAreOwed, CarriedOnlyToDrain
        <5>2. CASE ~Idle
          BY <5>1, <5>2, SMT DEF LastWordIsLast, TypeOK, WorkerTypeOK, WorkerPlace, Idle
        <5>3. CASE Idle /\ events # <<>>
          <6>1. Len(events) \in 1..Len(events)
            BY <5>3, EmptySeq, SMT DEF TypeOK, WorkerTypeOK
          <6>2. events[Len(events)].kind \in EndKinds
            BY <5>1, <5>3, <6>1, SMT DEF LastWordIsLast, Terminal
          <6>3. QED BY <5>1, <6>1, <6>2 DEF EndQueued
        <5>4. QED BY <5>1, <5>2, <5>3
      <4>2. QED BY <4>1
    <3>3. QED BY <3>1, <3>2 DEF WaitsForSomeone
  <2>2. QED BY <2>1 DEF WaitsForSomeone
<1>2. QED BY <1>1, Inductive, PTL

(* A client that says it is coming back has a retry left, as long as worker *)
(* threads can be created.                                                  *)
THEOREM AlwaysComesBack == ASSUME ~ThreadMayFail PROVE Spec => []ReconnectingComesBack
<1>1. IInv => ReconnectingComesBack
  BY SMT DEF IInv, Shape, RetryIsLeft, ReconnectingComesBack
<1>2. QED BY <1>1, Inductive, PTL

(* The list on offer belongs to the credentials the game login presents.    *)
THEOREM ListsMatch == Spec => []ListBelongsToCredentials
<1>1. IInv => ListBelongsToCredentials
  BY DEF IInv, Shape, ListsAreCurrent
<1>2. QED BY <1>1, Inductive, PTL

(* No actors behind the login surface, none without a session to end them.  *)
THEOREM GhostFree == Spec => []NoGhosts
<1>1. ASSUME IInv PROVE NoGhosts
  <2> USE <1>1 DEF IInv, Shape
  <2>1. gpc = "input" /\ ShowsLoginSurface(painted) => ~scene
    BY DEF SceneIsEnded
  <2>2. ASSUME scene PROVE wmode = "Game" \/ pending # <<>>
    BY <2>2, SMT DEF SceneIsEnded, AnswersAreOwed
  <2>3. ASSUME scene, pending # <<>>
        PROVE  \E i \in 1..Len(pending) : pending[i].kind \in EndKinds
    <3>1. Len(pending) \in 1..Len(pending)
      BY <2>3, EmptySeq, SMT DEF TypeOK, WorkerTypeOK
    <3>2. pending[Len(pending)].kind \in EndKinds
      BY <2>3, SMT DEF SceneIsEnded, AnswersAreOwed
    <3>3. QED BY <3>1, <3>2
  <2>4. QED BY <2>1, <2>2, <2>3 DEF NoGhosts
<1>2. QED BY <1>1, Inductive, PTL

(* Only a lost link is ever retried.                                        *)
THEOREM RetriesOnlyLosses == Spec => RetryOnlyAfterLoss
<1>1. IInv /\ [Next]_vars => [attempts' > attempts => lastEnd = "lost"]_vars
  <2> SUFFICES ASSUME IInv, Next, attempts' > attempts PROVE lastEnd = "lost"
    OBVIOUS
  <2>1. CASE TickRetry
    BY <2>1 DEF TickRetry, WantsRetry, IInv, Shape, LossIsLatest
  <2>2. ASSUME ~TickRetry PROVE attempts' = attempts \/ attempts' = 0
    <3>1. CASE WorkerAct
      BY <3>1, WorkerLeaves DEF WorkerOnly, bridge
    <3>2. CASE GameThreadAct
      BY <2>2, <3>2, Zenon DEF GameThreadAct, PlayerStep, GameThreadStep, ClickLogin, ClickEnter,
        ClickBack, ClickLogout, ClickClose, BeginPlay, BeginAccountLogin, EnterGame,
        ReturnToAccountScreen, Logout, EndPlay, DeliverPending, DeliverLive, NoteSession,
        NoteList, NoteLoginFailed, NoteConnected, NoteIdentified, NoteEnd, DrainDone,
        TickAutoEnter, AutoEnter, TickNoCharacter, Retry, TickIdle, NextFrame, DelayElapses,
        Closed, vars, bridge
    <3>3. QED BY <3>1, <3>2, NextSplit
  <2>3. QED BY <2>1, <2>2, AttemptsAssumption, SMT DEF IInv, TypeOK, BridgeTypeOK
<1>2. QED BY <1>1, Inductive, PTL DEF Spec, RetryOnlyAfterLoss

(* The automation path enters one game per list.                            *)
THEOREM AutoEntersOnce == Spec => AutoEnterOncePerList
<1>1. IInv /\ [Next]_vars =>
          [StartsGame /\ after.op = "AutoEnter" => lastEnd = "none"]_vars
  <2> SUFFICES ASSUME IInv, Next, StartsGame, after.op = "AutoEnter" PROVE lastEnd = "none"
    OBVIOUS
  <2>1. CASE AutoEnter
    <3>1. gpc = "join" /\ ~selected /\ phase = "CharacterSelect"
      BY <2>1, SMT DEF AutoEnter, Joined, IInv, Shape, SelectionIsSpent, CarriedOnlyToDrain,
        StartOps
    <3>2. QED BY <3>1 DEF IInv, Shape, SelectionIsSpent
  <2>2. CASE EnterGame \/ Retry \/ BeginAccountLogin \/ ReturnToAccountScreen \/ Logout \/ EndPlay
    BY <2>2 DEF EnterGame, Retry, BeginAccountLogin, ReturnToAccountScreen, Logout, EndPlay, Joined
  <2>3. CASE BeginPlay
    BY <2>3, SMT DEF BeginPlay, IInv, Shape, FreshStart
  <2>4. ASSUME \/ PlayerStep \/ DeliverPending \/ DeliverLive \/ DrainDone \/ TickAutoEnter
               \/ TickNoCharacter \/ TickRetry \/ TickIdle \/ NextFrame \/ DelayElapses
               \/ Closed
        PROVE  wpc' = wpc
    BY <2>4 DEF PlayerStep, ClickLogin, ClickEnter, ClickBack, ClickLogout, ClickClose, Join,
      DeliverPending, DeliverLive, DrainDone, TickAutoEnter, TickNoCharacter, TickRetry,
      TickIdle, NextFrame, DelayElapses, Closed, vars, worker
  <2>5. ASSUME WorkerAct PROVE wpc' # "start"
    BY <2>5, WorkerSays DEF IInv, Quiet, Progress, LoginWord, GameWord
  <2>6. QED
    BY <2>1, <2>2, <2>3, <2>4, <2>5, NextSplit DEF StartsGame, GameThreadAct, GameThreadStep
<1>2. QED BY <1>1, Inductive, PTL DEF Spec, AutoEnterOncePerList

============================================================================
