------------------------- MODULE ConnectionIOProofs -------------------------
(* Proofs about ConnectionIO for every capacity of the ring, every shape of *)
(* the answers and any number of packets and answers.                       *)
EXTENDS ConnectionIO, DataInduction, SequenceTheorems

-----------------------------------------------------------------------------
(* The ring between the two threads.                                        *)

Counters == <<nextToSend, nextToCommit, nextToWrite, amount>>

CountersTyped == /\ nextToSend \in Nat /\ nextToCommit \in Nat
                 /\ nextToWrite \in Nat /\ amount \in Nat

AnswerTyped ==
    \E id, size, at : \E fields \in Seq(1..Capacity) :
        answer = [id |-> id, size |-> size, left |-> fields, at |-> at]

\* While an answer is written the login that resets the counters is over.
AnswerInGame ==
    answer # Idle => /\ state \notin {"CONNECTED", "LOGIN"}
                     /\ nextToCommit <= nextToWrite

RingInv ==
    /\ CountersTyped /\ AnswerTyped /\ AnswerInGame
    /\ nextToSend + amount <= nextToCommit
    /\ nextToCommit <= nextToSend + Capacity
    /\ nextToWrite <= nextToSend + Capacity
    /\ pc # "send" => amount = 0

LEMMA IdleTyped == answer = Idle => AnswerTyped
<1>1. <<>> \in Seq(1..Capacity)
  BY SMT
<1> QED BY <1>1 DEF Idle, AnswerTyped

LEMMA RingInitial == Init => RingInv
<1> USE CapacityAssumption
<1> SUFFICES ASSUME Init PROVE RingInv
  OBVIOUS
<1>1. AnswerTyped /\ answer = Idle
  BY IdleTyped DEF Init
<1> QED BY <1>1, SMT DEF Init, RingInv, CountersTyped, AnswerInGame

\* A step that neither moves a counter nor writes, and is no login.
LEMMA RingLeftAlone ==
    ASSUME RingInv, UNCHANGED <<Counters, answer>>,
           state' = state \/ state' \notin {"CONNECTED", "LOGIN"},
           pc' = "send" \/ pc # "send"
    PROVE  RingInv'
<1>1. CountersTyped' /\ AnswerTyped'
  BY DEF RingInv, CountersTyped, AnswerTyped, Counters
<1>2. AnswerInGame'
  <2>1. /\ answer' = answer /\ nextToCommit' = nextToCommit
        /\ nextToWrite' = nextToWrite
    BY DEF Counters
  <2>2. answer # Idle => state \notin {"CONNECTED", "LOGIN"} /\ nextToCommit <= nextToWrite
    BY DEF RingInv, AnswerInGame
  <2>3. Idle' = Idle
    BY DEF Idle
  <2>4. answer # Idle => state' \notin {"CONNECTED", "LOGIN"}
    BY <2>2
  <2> QED BY <2>1, <2>2, <2>3, <2>4 DEF AnswerInGame
<1>3. pc' # "send" => amount' = 0
  BY DEF RingInv, Counters
<1>4. /\ nextToSend' + amount' <= nextToCommit'
      /\ nextToCommit' <= nextToSend' + Capacity
      /\ nextToWrite' <= nextToSend' + Capacity
  BY DEF RingInv, Counters
<1> QED BY <1>1, <1>2, <1>3, <1>4 DEF RingInv

LEMMA RingStep == ASSUME RingInv, [Next]_vars PROVE RingInv'
<1> USE CapacityAssumption
<1>1. CASE ReadPacket
  <2>1. amount = 0 /\ amount' = 0 /\ pc # "send" /\ pc' # "send" /\ answer' = answer
    BY <1>1 DEF ReadPacket, Reading, RingInv, writer
  <2>2. CASE state = "CONNECTED"
    <3>1. answer = Idle /\ nextToSend' = 0 /\ nextToCommit' = 0 /\ nextToWrite' = 0
      BY <1>1, <2>2 DEF ReadPacket, RingInv, AnswerInGame
    <3>2. AnswerTyped' /\ AnswerInGame'
      BY <2>1, <3>1 DEF RingInv, AnswerTyped, AnswerInGame
    <3> QED BY <2>1, <3>1, <3>2, SMT DEF RingInv, CountersTyped
  <2>3. CASE state # "CONNECTED"
    <3>1. UNCHANGED <<Counters, answer>> /\ state' = state
      BY <1>1, <2>1, <2>3 DEF ReadPacket, Counters
    <3> QED BY <2>1, <3>1, RingLeftAlone
  <2> QED BY <2>2, <2>3
<1>2. CASE TakeSend
  <2>1. /\ amount' = nextToCommit - nextToSend /\ pc' = "send" /\ UNCHANGED <<answer, state>>
        /\ UNCHANGED <<nextToSend, nextToCommit, nextToWrite>>
    BY <1>2 DEF TakeSend, ring, writer, shared
  <2>2. AnswerTyped' /\ AnswerInGame'
    BY <2>1 DEF RingInv, AnswerTyped, AnswerInGame
  <2> QED BY <2>1, <2>2, SMT DEF RingInv, CountersTyped
<1>3. CASE WritePacket \/ WriteFails
  <2>1. /\ amount' = 0 /\ UNCHANGED <<answer, nextToCommit, nextToWrite>>
        /\ nextToSend' = nextToSend \/ nextToSend' = nextToSend + amount
        /\ state' = state \/ state' = "DISCONNECTED"
    BY <1>3 DEF WritePacket, WriteFails, Close, ring, writer, shared
  <2>2. AnswerTyped' /\ AnswerInGame'
    BY <2>1 DEF RingInv, AnswerTyped, AnswerInGame
  <2>3. CountersTyped /\ nextToSend + amount <= nextToCommit
        /\ nextToCommit <= nextToSend + Capacity /\ nextToWrite <= nextToSend + Capacity
    BY DEF RingInv
  <2>4. /\ nextToSend' \in Nat /\ nextToSend' <= nextToCommit
        /\ nextToCommit <= nextToSend' + Capacity
        /\ nextToWrite <= nextToSend' + Capacity
    BY ONLY <2>1, <2>3, CapacityAssumption, SMT DEF CountersTyped
  <2>5. CountersTyped'
    BY <2>1, <2>3, <2>4 DEF CountersTyped
  <2>6. nextToSend' + amount' <= nextToCommit'
    BY <2>1, <2>4, SMT
  <2> QED BY <2>1, <2>2, <2>4, <2>5, <2>6 DEF RingInv
<1>4. CASE BeginAnswer
  <2>1. /\ nextToWrite' = nextToCommit
        /\ UNCHANGED <<nextToSend, nextToCommit, amount, state, pc>>
        /\ state \notin {"CONNECTED", "LOGIN"}
    BY <1>4 DEF BeginAnswer, shared, Live
  <2>2. AnswerTyped'
    <3>1. PICK fields \in Answers :
            answer' = [id |-> answers + 1, size |-> Size(fields), left |-> fields, at |-> 0]
      BY <1>4 DEF BeginAnswer
    <3>2. fields \in Seq(1..Capacity)
      BY AnswersAssumption
    <3> QED BY <3>1, <3>2 DEF AnswerTyped
  <2>3. AnswerInGame'
    BY <2>1, SMT DEF RingInv, CountersTyped, AnswerInGame
  <2> QED BY <2>1, <2>2, <2>3, SMT DEF RingInv, CountersTyped
<1>5. CASE WriteField
  <2> DEFINE length == Head(answer.left)
  <2>1. /\ answer.left # <<>> /\ answer.left \in Seq(1..Capacity)
        /\ length \in 1..Capacity /\ Tail(answer.left) \in Seq(1..Capacity)
    BY <1>5, SMT DEF WriteField, RingInv, AnswerTyped
  <2>2. answer # Idle
    BY <2>1 DEF Idle
  <2>3. /\ UNCHANGED <<nextToSend, nextToCommit, amount, state, pc>>
        /\ answer' = [answer EXCEPT !.left = Tail(@), !.at = @ + length]
        /\ IF Room(length) THEN nextToWrite' = nextToWrite + length
                           ELSE nextToWrite' = nextToWrite
    BY <1>5 DEF WriteField, shared
  <2>4. AnswerTyped'
    <3>1. PICK id, size, at, fields :
            answer = [id |-> id, size |-> size, left |-> fields, at |-> at]
      BY DEF RingInv, AnswerTyped
    <3>2. answer' = [id |-> id, size |-> size,
                     left |-> Tail(answer.left), at |-> at + length]
      <4> HIDE DEF length
      <4> QED BY <2>3, <3>1
    <3> QED BY <2>1, <3>2 DEF AnswerTyped
  <2> HIDE DEF length
  <2>5. nextToWrite' \in Nat /\ nextToWrite <= nextToWrite' /\ nextToWrite' <= nextToSend + Capacity
    BY <2>1, <2>3, SMTT(40) DEF RingInv, CountersTyped, Room
  <2>6. AnswerInGame'
    BY <2>2, <2>3, <2>5, SMT DEF RingInv, AnswerInGame, CountersTyped
  <2> QED BY <2>3, <2>4, <2>5, <2>6, SMT DEF RingInv, CountersTyped
<1>6. CASE FinishAnswer
  <2>1. /\ answer # Idle /\ answer' = Idle /\ nextToCommit' \in {nextToCommit, nextToWrite}
        /\ UNCHANGED <<nextToSend, nextToWrite, amount, state, pc>>
    BY <1>6 DEF FinishAnswer, shared
  <2>2. Idle' = Idle /\ <<>> \in Seq(1..Capacity)
    BY SMT DEF Idle
  <2>3. AnswerTyped' /\ AnswerInGame'
    BY <2>1, <2>2 DEF AnswerTyped, AnswerInGame, Idle
  <2> QED BY <2>1, <2>3, SMT DEF RingInv, AnswerInGame, CountersTyped
<1>7. CASE \/ ClientSends \/ ClientCloses \/ LoginTimerFires
           \/ TakeGameSignal \/ SendAll \/ LogOut \/ LetGo
           \/ PassBy \/ ParseCommand \/ Join \/ RefuseJoin \/ LowerFlag \/ Acknowledge
           \/ UNCHANGED vars
  <2> USE DEF ClientSends, ClientCloses, LoginTimerFires, TakeGameSignal, SendAll, LogOut,
           LetGo, PassBy, ParseCommand, Join, RefuseJoin, LowerFlag, Acknowledge,
           Disconnect, Game, vars
  <2>1. UNCHANGED <<Counters, answer>> /\ pc' = pc
    BY <1>7, Zenon DEF Counters, ring, writer
  <2>2. state' = state \/ state' \notin {"CONNECTED", "LOGIN"}
    BY <1>7, SMT DEF shared
  <2> QED BY ONLY <2>1, <2>2, RingInv, RingLeftAlone
<1>8. CASE \/ SetUpSocket \/ RejectPacket \/ ReadNothing \/ RaiseFlag
           \/ SignalGame \/ StopReading \/ NotePending \/ EnterLoop
           \/ LookBeforeSleep \/ TakeHup \/ TakeAlarm \/ TakeReady
           \/ TakeAcknowledgement \/ Leave
  <2> USE DEF SetUpSocket, RejectPacket, ReadNothing, RaiseFlag, SignalGame, StopReading,
           NotePending, EnterLoop, LookBeforeSleep, TakeHup, TakeAlarm, TakeReady,
           TakeAcknowledgement, Leave, Close, Reading, Wait
  <2>1. UNCHANGED <<Counters, answer>>
    BY <1>8, Zenon DEF Counters, ring, writer
  <2>2. state' = state \/ state' \notin {"CONNECTED", "LOGIN"}
    BY <1>8, SMT DEF shared
  <2>3. pc # "send"
    BY <1>8
  <2> QED BY ONLY <2>1, <2>2, <2>3, RingInv, RingLeftAlone
<1> QED BY <1>1, <1>2, <1>3, <1>4, <1>5, <1>6, <1>7, <1>8, Zenon
        DEF Next, CommunicationThread, GameThread, GameStep

(* Whatever the capacity and the answers, and in any interleaving of the two *)
(* threads: no byte of the ring is written over before it has been sent, and *)
(* nothing is sent past the commit counter (sending.cc, communication.cc).   *)
THEOREM RingStaysInBounds == Spec => []RingInBounds
<1>1. RingInv => RingInBounds
  BY CapacityAssumption, SMT DEF RingInv, RingInBounds, AnswerInGame, CountersTyped
<1> QED BY <1>1, RingInitial, RingStep, PTL DEF Spec

-----------------------------------------------------------------------------
(* The commands of the client, a stream across the two threads.             *)

LEMMA SeqFacts ==
    ASSUME NEW S, NEW h \in Seq(S), NEW s \in Seq(S), NEW x \in S
    PROVE  /\ h \o s \in Seq(S) /\ <<>> \o s = s /\ s \o <<>> = s /\ <<x>> \in Seq(S)
           /\ Append(s, x) \in Seq(S) /\ Append(s, x) = s \o <<x>>
           /\ s # <<>> => /\ Head(s) \in S /\ Tail(s) \in Seq(S)
                          /\ s = <<Head(s)>> \o Tail(s)
  BY SMT

LEMMA PrefixFacts ==
    ASSUME NEW S, NEW h \in Seq(S), NEW s \in Seq(S), NEW x \in S
    PROVE  /\ Commands!Prefix(h \o s, h \o Append(s, x))
           /\ Commands!Prefix(h, h \o s)
           /\ Commands!Prefix(<<>>, s)
           /\ Commands!Prefix(s, s)
  BY SMT DEF Commands!Prefix

LEMMA FirstOf ==
    ASSUME NEW S, NEW s \in Seq(S), NEW x \in S, NEW q, q = <<x>> \o s
    PROVE  /\ 1 \in 1..Len(q) /\ SubSeq(q, 1, 1) = <<x>>
           /\ SubSeq(q, 1 + 1, Len(q)) = s
<1>1. q \in Seq(S) /\ Len(q) = Len(s) + 1 /\ Len(s) \in Nat /\ q # <<>>
      /\ q[1] = x /\ \A i \in 1..Len(s) : q[i + 1] = s[i]
  BY SMT
<1>2. Tail(q) = s
  <2>1. /\ Tail(q) \in Seq(S) /\ Len(Tail(q)) = Len(s)
        /\ \A i \in 1..Len(Tail(q)) : Tail(q)[i] = q[i + 1]
    BY <1>1, HeadTailProperties
  <2> QED BY <1>1, <2>1, SeqEqual
<1>3. SubSeq(q, 2, Len(q)) = s
  BY <1>1, <1>2, TailIsSubSeq
<1>4. SubSeq(q, 1, 1) = <<x>>
  <2>1. SubSeq(q, 1, 1) = <<q[1]>> \o SubSeq(q, 1 + 1, 1)
    BY <1>1, SubSeqRecursiveFirst, SMT
  <2>2. SubSeq(q, 1 + 1, 1) = <<>>
    BY SubSeqEmpty, SMT
  <2>3. <<x>> \in Seq(S)
    BY SMT
  <2> QED BY <1>1, <2>1, <2>2, <2>3, ConcatEmptySeq
<1> QED BY <1>1, <1>3, <1>4, SMT

Packet == Nat \ {0}

InputTyped == /\ sent \in Nat /\ inData \in Nat
              /\ socket \in Seq(Packet) /\ handled \in Seq(Packet)

\* A command is in InData from the read until the game thread has parsed it,
\* and the flag is up from the signal until the game thread is through.
HandedOver ==
    /\ inData # 0 => pc = "call" \/ waitingForACK
    /\ pc = "call" => ~waitingForACK /\ inData # 0
    /\ waitingForACK /\ gpc \notin {"join", "ack"} => inData # 0
    /\ gpc \in {"join", "ack"} => waitingForACK /\ inData = 0
    /\ gpc = "join" => state = "LOGIN"

\* A connection that has been given up is not read from again.
GivenUp ==
    /\ state = "CONNECTED" => connectionIsOk
    /\ ~connectionIsOk /\ Live => pc \in {"enter", "check", "leave"}
    /\ pc = "leave" => ~connectionIsOk

InputInv == InputTyped /\ HandedOver /\ GivenUp

LEMMA InputInitial == Init => InputInv
<1> SUFFICES ASSUME Init PROVE InputInv
  OBVIOUS
<1>1. InputTyped
  BY SMT DEF Init, InputTyped
<1>2. HandedOver /\ GivenUp
  BY DEF Init, HandedOver, GivenUp, Live
<1> QED BY <1>1, <1>2 DEF InputInv

LEMMA TypedStep == ASSUME InputInv, [Next]_vars PROVE InputTyped'
<1>0. InputTyped
  BY DEF InputInv
<1>1. CASE ClientSends
  <2>1. sent + 1 \in Packet
    BY <1>0, SMT DEF InputTyped, Packet
  <2>2. sent' = sent + 1 /\ socket' = Append(socket, sent + 1)
        /\ UNCHANGED <<inData, handled>>
    BY <1>1 DEF ClientSends, shared
  <2> QED BY <1>0, <2>1, <2>2, SeqFacts DEF InputTyped, Packet
<1>2. CASE ReadPacket
  <2>1. socket # <<>> /\ inData' = Head(socket) /\ socket' = Tail(socket)
        /\ UNCHANGED <<sent, handled>>
    BY <1>2 DEF ReadPacket
  <2> QED BY <1>0, <2>1, SeqFacts DEF InputTyped, Packet
<1>3. CASE RejectPacket
  <2>1. socket # <<>> /\ socket' = Tail(socket) /\ UNCHANGED <<sent, inData, handled>>
    BY <1>3 DEF RejectPacket
  <2> QED BY <1>0, <2>1, SeqFacts DEF InputTyped, Packet
<1>4. CASE ParseCommand
  <2>1. /\ handled' = Append(handled, inData) /\ inData' = 0 /\ UNCHANGED <<sent, socket>>
        /\ waitingForACK /\ gpc = "scan"
    BY <1>4 DEF ParseCommand, Game, input
  <2>2. inData \in Packet
    BY <1>0, <2>1 DEF InputInv, HandedOver, InputTyped, Packet
  <2> QED BY <1>0, <2>1, <2>2, SeqFacts DEF InputTyped, Packet
<1>5. CASE \/ ClientCloses \/ LoginTimerFires
           \/ SetUpSocket \/ ReadNothing \/ RaiseFlag
           \/ SignalGame \/ StopReading \/ NotePending \/ EnterLoop
           \/ LookBeforeSleep \/ TakeHup \/ TakeAlarm \/ TakeReady \/ TakeAcknowledgement
           \/ TakeSend \/ WritePacket \/ WriteFails
           \/ Leave \/ TakeGameSignal \/ SendAll \/ LogOut \/ LetGo
           \/ PassBy \/ Join \/ RefuseJoin \/ LowerFlag \/ Acknowledge
           \/ BeginAnswer \/ WriteField \/ FinishAnswer
           \/ UNCHANGED vars
  <2>1. UNCHANGED <<sent, socket, inData, handled>>
    BY <1>5, Zenon DEF ClientCloses, LoginTimerFires, SetUpSocket, ReadNothing,
           RaiseFlag, SignalGame, StopReading, NotePending, EnterLoop,
           LookBeforeSleep, TakeHup, TakeAlarm, TakeReady, TakeAcknowledgement,
           TakeSend, WritePacket, WriteFails, Leave, TakeGameSignal, SendAll,
           LogOut, LetGo, PassBy, Join, RefuseJoin, LowerFlag, Acknowledge,
           BeginAnswer, WriteField, FinishAnswer, vars, input, shared
  <2> QED BY <1>0, <2>1 DEF InputTyped
<1> QED BY <1>1, <1>2, <1>3, <1>4, <1>5, Zenon
        DEF Next, CommunicationThread, GameThread, GameStep

\* A step that touches neither InData, the flag nor the state, on the game
\* thread at most from and to a place between two commands.
Elsewhere == /\ UNCHANGED <<inData, waitingForACK, state, connectionIsOk>>
             /\ gpc' = gpc \/ {gpc, gpc'} \subseteq {"idle", "scan", "notify"}
             /\ \/ pc' = pc
                \/ pc \notin {"call", "enter", "check", "leave"} /\ pc' \notin {"call", "leave"}

LEMMA ElsewhereStep == ASSUME InputInv, Elsewhere PROVE HandedOver' /\ GivenUp'
<1>1. HandedOver'
  BY SMT DEF InputInv, HandedOver, Elsewhere
<1>2. Live' = Live
  BY DEF Elsewhere, Live
<1>3. GivenUp'
  BY <1>2, SMT DEF InputInv, GivenUp, Elsewhere
<1> QED BY <1>1, <1>3

LEMMA HandedOverStep == ASSUME InputInv, [Next]_vars PROVE HandedOver' /\ GivenUp'
<1> USE DEF HandedOver, GivenUp
<1>0. HandedOver /\ GivenUp /\ InputTyped
  BY DEF InputInv
<1>1. CASE ReadPacket
  <2>1. inData' # 0
    BY <1>1, <1>0, SeqFacts DEF ReadPacket, InputTyped, Packet
  <2>2. /\ pc = "receive" /\ ~waitingForACK /\ pc' = "call"
        /\ UNCHANGED <<waitingForACK, gpc, connectionIsOk>>
        /\ \/ state = "CONNECTED" /\ state' = "LOGIN"
           \/ state # "CONNECTED" /\ state' = state
    BY <1>1 DEF ReadPacket, Reading
  <2> QED BY <1>0, <2>1, <2>2, SMT DEF Live
<1>2. CASE RejectPacket \/ ReadNothing \/ TakeHup \/ TakeAlarm \/ WriteFails
  <2>1. /\ UNCHANGED <<inData, waitingForACK, gpc>>
        /\ pc \in {"receive", "wait", "send"} /\ pc' \in {"enter", "check"}
    BY <1>2, SMT DEF RejectPacket, ReadNothing, TakeHup, TakeAlarm, WriteFails, Reading,
           Return, Wait
  <2>2. Close \/ UNCHANGED <<connectionIsOk, state>>
    BY <1>2, Zenon DEF RejectPacket, ReadNothing, TakeHup, TakeAlarm, WriteFails
  <2> QED BY <1>0, <2>1, <2>2, SMT DEF Close, Live
<1>3. CASE RaiseFlag
  <2>1. /\ pc = "call" /\ waitingForACK' = TRUE /\ pc' = "signal"
        /\ UNCHANGED <<inData, gpc, state, connectionIsOk>>
    BY <1>3 DEF RaiseFlag
  <2> QED BY <1>0, <2>1, SMT DEF Live
<1>4. CASE EnterLoop \/ LookBeforeSleep
  <2>1. /\ pc \in {"enter", "check"} /\ pc' \in {"check", "wait", "leave"}
        /\ UNCHANGED <<inData, waitingForACK, gpc, state, connectionIsOk>>
        /\ pc' = "leave" => ~connectionIsOk
        /\ pc' = "wait" => connectionIsOk
    BY <1>4, SMT DEF EnterLoop, LookBeforeSleep, shared
  <2> QED BY <1>0, <2>1, SMT DEF Live
<1>5. CASE Leave
  <2>1. /\ pc = "leave" /\ pc' = "closed" /\ state' = "FREE" /\ ~Live
        /\ UNCHANGED <<inData, waitingForACK, gpc, connectionIsOk>>
    BY <1>5 DEF Leave
  <2> QED BY <1>0, <2>1, SMT DEF Live
<1>6. CASE ParseCommand
  <2>1. /\ waitingForACK /\ gpc = "scan" /\ inData' = 0 /\ Live
        /\ UNCHANGED <<waitingForACK, connectionIsOk, pc>>
        /\ gpc' = IF state = "LOGIN" THEN "join" ELSE "ack"
        /\ state' \in IF state = "GAME" THEN {"GAME", "LOGOUT"} ELSE {state}
    BY <1>6 DEF ParseCommand, Game
  <2> QED BY <1>0, <2>1, SMT DEF Live
<1>7. CASE Join \/ RefuseJoin
  <2>1. /\ gpc = "join" /\ gpc' = "ack" /\ UNCHANGED <<inData, waitingForACK, pc>>
        /\ \/ state' = "GAME" /\ connectionIsOk' = connectionIsOk
           \/ state' = "DISCONNECTED" /\ connectionIsOk' = FALSE
    BY <1>7 DEF Join, RefuseJoin, Game, Disconnect
  <2> QED BY <1>0, <2>1, SMT DEF Live
<1>8. CASE LowerFlag
  <2>1. /\ gpc = "ack" /\ gpc' = "notify" /\ waitingForACK' = FALSE
        /\ UNCHANGED <<inData, state, connectionIsOk, pc>>
    BY <1>8 DEF LowerFlag, Game
  <2> QED BY <1>0, <2>1, SMT DEF Live
<1>9. CASE LogOut \/ LetGo
  <2>1. /\ gpc = "idle" /\ UNCHANGED <<inData, waitingForACK, pc, gpc>>
        /\ \/ state = "GAME" /\ state' = "LOGOUT" /\ connectionIsOk' = connectionIsOk
           \/ state' = "DISCONNECTED" /\ connectionIsOk' = FALSE
    BY <1>9 DEF LogOut, LetGo, Game, Disconnect
  <2> QED BY <1>0, <2>1, SMT DEF Live
<1>10. CASE \/ SetUpSocket \/ SignalGame \/ StopReading
            \/ NotePending \/ TakeReady \/ TakeAcknowledgement \/ TakeSend \/ WritePacket
  <2>1. /\ UNCHANGED <<inData, waitingForACK, gpc, state, connectionIsOk>>
        /\ pc \in {"setup", "signal", "receive", "pend", "wait", "send"}
        /\ pc' \in {"receive", "pend", "enter", "check", "send"}
    BY <1>10, SMT DEF SetUpSocket, SignalGame, StopReading, NotePending, TakeReady,
           TakeAcknowledgement, TakeSend, WritePacket, Wait, Return, shared
  <2> QED BY <2>1, ElsewhereStep, SMT DEF Elsewhere
<1>11. CASE \/ ClientSends \/ ClientCloses \/ LoginTimerFires
            \/ TakeGameSignal \/ PassBy \/ Acknowledge \/ SendAll
            \/ BeginAnswer \/ WriteField \/ FinishAnswer \/ UNCHANGED vars
  <2>1. /\ UNCHANGED <<inData, waitingForACK, state, connectionIsOk, pc>>
        /\ gpc' = gpc \/ {gpc, gpc'} \subseteq {"idle", "scan", "notify"}
    BY <1>11, SMT DEF ClientSends, ClientCloses, LoginTimerFires, TakeGameSignal, PassBy,
           Acknowledge, SendAll, BeginAnswer, WriteField, FinishAnswer, Game, vars, shared
  <2> QED BY <2>1, ElsewhereStep DEF Elsewhere
<1> QED BY <1>1, <1>2, <1>3, <1>4, <1>5, <1>6, <1>7, <1>8, <1>9, <1>10, <1>11, Zenon
        DEF Next, CommunicationThread, GameThread, GameStep

LEMMA InputStep == ASSUME InputInv, [Next]_vars PROVE InputInv'
  BY TypedStep, HandedOverStep DEF InputInv

\* What is in InData, and what the socket still holds for the game.
Held == IF inData = 0 THEN <<>> ELSE <<inData>>
InReach == state = "CONNECTED" \/ Live

LEMMA HeldTyped == inData \in Nat => Held \in Seq(Packet)
<1>1. <<>> \in Seq(Packet)
  BY EmptySeq
<1>2. inData \in Packet => <<inData>> \in Seq(Packet)
  BY <1>1, SeqFacts
<1>3. inData \in Nat => inData = 0 \/ inData \in Packet
  BY DEF Packet
<1> QED BY <1>1, <1>2, <1>3 DEF Held

LEMMA HeldTypedNext == inData' \in Nat => Held' \in Seq(Packet)
<1>1. <<>> \in Seq(Packet)
  BY EmptySeq
<1>2. inData' \in Packet => <<inData'>> \in Seq(Packet)
  BY <1>1, SeqFacts
<1>3. inData' \in Nat => inData' = 0 \/ inData' \in Packet
  BY DEF Packet
<1> QED BY <1>1, <1>2, <1>3 DEF Held

LEMMA UnreadIs ==
    ASSUME InputTyped
    PROVE  /\ Held \in Seq(Packet)
           /\ InReach /\ connectionIsOk => Unread = Held \o socket
           /\ InReach /\ ~connectionIsOk => Unread = Held
           /\ ~InReach => Unread = <<>>
           /\ Unread \in Seq(Packet)
<1>1. Held \in Seq(Packet) /\ <<>> \in Seq(Packet) /\ socket \in Seq(Packet)
  BY HeldTyped, EmptySeq DEF InputTyped
<1>2. Held \o <<>> = Held /\ Held \o socket \in Seq(Packet)
  BY <1>1, ConcatEmptySeq, ConcatProperties
<1> QED BY <1>1, <1>2 DEF Unread, Held, InReach

LEMMA UnreadNext ==
    ASSUME InputTyped'
    PROVE  /\ Held' \in Seq(Packet)
           /\ InReach' /\ connectionIsOk' => Unread' = Held' \o socket'
           /\ InReach' /\ ~connectionIsOk' => Unread' = Held'
           /\ ~InReach' => Unread' = <<>>
<1>1. Held' \in Seq(Packet) /\ <<>> \in Seq(Packet)
  BY HeldTypedNext, EmptySeq DEF InputTyped
<1>2. Held' \o <<>> = Held'
  BY <1>1, ConcatEmptySeq
<1> QED BY <1>1, <1>2 DEF Unread, Held, InReach

\* When the connection is given up the packets behind InData are lost.
LEMMA GivingUpCuts ==
    ASSUME InputTyped, InputTyped', connectionIsOk' = FALSE,
           UNCHANGED <<inData, handled>>, InReach' => InReach
    PROVE  Commands!Cut
<1>1. Held' = Held
  BY DEF Held
<1>2. Commands!Prefix(Unread', Unread)
  <2>1. CASE ~InReach'
    <3>1. 1 \in Packet
      BY SMT DEF Packet
    <3>2. Unread \in Seq(Packet) /\ Unread' = <<>>
      BY <2>1, UnreadIs, UnreadNext
    <3> QED BY <3>1, <3>2, PrefixFacts
  <2>2. CASE InReach'
    <3>1. Unread' = Held /\ Unread \in {Held, Held \o socket} /\ Held \in Seq(Packet)
      BY <1>1, <2>2, UnreadIs, UnreadNext
    <3>2. socket \in Seq(Packet) /\ 1 \in Packet
      BY SMT DEF InputTyped, Packet
    <3> QED BY <3>1, <3>2, PrefixFacts
  <2> QED BY <2>1, <2>2
<1> QED BY <1>2 DEF Commands!Cut

LEMMA CommandsInitial == Init => Commands!Init
<1> SUFFICES ASSUME Init PROVE Commands!Init
  OBVIOUS
<1>1. Unread = <<>> \o <<>> /\ handled = <<>> /\ connectionIsOk = TRUE
  BY DEF Init, Unread
<1>2. <<>> \o <<>> = <<>>
  BY SMT
<1> QED BY <1>1, <1>2 DEF Commands!Init

LEMMA CommandsStep ==
    ASSUME InputInv, InputInv', [Next]_vars
    PROVE  Commands!Next \/ UNCHANGED Commands!vars
<1> USE DEF InputInv
<1>1. CASE ClientSends
  <2>1. /\ socket' = Append(socket, sent + 1)
        /\ UNCHANGED <<inData, state, connectionIsOk, handled>>
    BY <1>1 DEF ClientSends, shared
  <2>2. Held' = Held /\ InReach' = InReach
    BY <2>1 DEF Held, InReach, Live
  <2>3. CASE InReach /\ connectionIsOk
    <3>1. Unread = Held \o socket /\ Unread' = Held \o Append(socket, sent + 1)
      BY <2>1, <2>2, <2>3, UnreadIs, UnreadNext
    <3>2. sent + 1 \in Packet /\ socket \in Seq(Packet) /\ Held \in Seq(Packet)
      <4>1. sent + 1 \in Packet
        BY SMT DEF InputTyped, Packet
      <4> QED BY <4>1, UnreadIs DEF InputTyped
    <3>3. Commands!Prefix(Unread, Unread')
      BY <3>1, <3>2, PrefixFacts
    <3> QED BY <2>1, <2>3, <3>3 DEF Commands!Next, Commands!Put
  <2>4. CASE ~(InReach /\ connectionIsOk)
    BY <2>1, <2>2, <2>4, UnreadIs, UnreadNext DEF Commands!vars
  <2> QED BY <2>3, <2>4
<1>2. CASE ReadPacket
  <2>1. /\ pc = "receive" /\ ~waitingForACK /\ socket # <<>>
        /\ inData' = Head(socket) /\ socket' = Tail(socket)
        /\ UNCHANGED <<connectionIsOk, handled>>
        /\ \/ state = "CONNECTED" /\ state' = "LOGIN"
           \/ state # "CONNECTED" /\ state' = state
    BY <1>2 DEF ReadPacket, Reading
  <2>2. inData = 0 /\ InReach' = InReach
    BY <2>1, SMT DEF HandedOver, InReach, Live
  <2>3. CASE InReach
    <3>1. connectionIsOk
      BY <2>1, <2>3 DEF GivenUp, InReach
    <3>2. socket \in Seq(Packet) /\ Head(socket) \in Packet
          /\ socket = <<Head(socket)>> \o Tail(socket) /\ <<>> \o socket = socket
      <4>1. socket \in Seq(Packet) /\ 1 \in Packet
        BY SMT DEF InputTyped, Packet
      <4> QED BY <2>1, <4>1, SeqFacts
    <3>3. Held = <<>> /\ Held' = <<Head(socket)>>
      BY <2>1, <2>2, <3>2 DEF Held, Packet
    <3>4. Unread = socket /\ Unread' = socket
      BY <2>1, <2>2, <2>3, <3>1, <3>2, <3>3, UnreadIs, UnreadNext
    <3> QED BY <2>1, <3>4 DEF Commands!vars
  <2>4. CASE ~InReach
    BY <2>1, <2>2, <2>4, UnreadIs, UnreadNext DEF Commands!vars
  <2> QED BY <2>3, <2>4
<1>3. CASE \/ RejectPacket
           \/ (ReadNothing \/ TakeHup \/ TakeAlarm \/ WriteFails) /\ connectionIsOk' = FALSE
  <2>1. UNCHANGED <<inData, handled>> /\ connectionIsOk' = FALSE
    BY <1>3 DEF RejectPacket, ReadNothing, TakeHup, TakeAlarm, WriteFails, Close
  <2>2. state' \in {state, "DISCONNECTED"}
    BY <1>3, SMT DEF RejectPacket, ReadNothing, TakeHup, TakeAlarm, WriteFails, Close
  <2>3. InReach' => InReach
    BY <2>2, SMT DEF InReach, Live
  <2> QED BY <2>1, <2>3, GivingUpCuts DEF Commands!Next
<1>4. CASE ParseCommand
  <2>1. /\ handled' = Append(handled, inData) /\ inData' = 0 /\ waitingForACK
        /\ gpc = "scan" /\ Live /\ UNCHANGED <<socket, connectionIsOk>>
        /\ state' \in IF state = "GAME" THEN {"GAME", "LOGOUT"} ELSE {state}
    BY <1>4 DEF ParseCommand, Game, input
  <2>2. inData \in Packet /\ InReach /\ InReach'
    BY <2>1, SMT DEF HandedOver, InReach, Live, InputTyped, Packet
  <2>3. Held = <<inData>> /\ Held' = <<>>
    BY <2>1, <2>2 DEF Held, Packet
  <2> DEFINE rest == IF connectionIsOk THEN socket ELSE <<>>
  <2>4. rest \in Seq(Packet) /\ handled \in Seq(Packet)
    BY EmptySeq DEF InputTyped
  <2>5. Unread = <<inData>> \o rest /\ Unread' = rest
    <3>1. <<inData>> \o <<>> = <<inData>> /\ <<>> \o rest = rest /\ <<>> \o <<>> = <<>>
      BY <2>2, <2>3, <2>4, UnreadIs, ConcatEmptySeq, EmptySeq
    <3>2. CASE connectionIsOk
      BY <2>1, <2>2, <2>3, <3>1, <3>2, UnreadIs, UnreadNext
    <3>3. CASE ~connectionIsOk
      BY <2>1, <2>2, <2>3, <3>1, <3>3, UnreadIs, UnreadNext
    <3> QED BY <3>2, <3>3
  <2> HIDE DEF rest
  <2>6. handled' = handled \o <<inData>>
    BY <2>1, <2>2, <2>4, SeqFacts
  <2>7. Commands!Take
    <3>1. 1 \in 1..Len(Unread) /\ SubSeq(Unread, 1, 1) = <<inData>>
          /\ SubSeq(Unread, 1 + 1, Len(Unread)) = rest
      <4>1. inData \in Packet /\ rest \in Seq(Packet) /\ Unread = <<inData>> \o rest
        BY <2>2, <2>4, <2>5
      <4>2. 1 \in 1..Len(Unread)
        BY ONLY <4>1, FirstOf
      <4>3. SubSeq(Unread, 1, 1) = <<inData>>
        BY ONLY <4>1, FirstOf, ZenonT(90)
      <4>4. SubSeq(Unread, 1 + 1, Len(Unread)) = rest
        BY ONLY <4>1, FirstOf
      <4> QED BY <4>2, <4>3, <4>4
    <3> QED BY <2>1, <2>5, <2>6, <3>1 DEF Commands!Take
  <2> QED BY <2>7 DEF Commands!Next
<1>5. CASE Join \/ LogOut
  <2>1. /\ UNCHANGED <<inData, handled, socket, connectionIsOk>>
        /\ state \in {"LOGIN", "GAME"} /\ state' \in {"GAME", "LOGOUT"}
    BY <1>5 DEF Join, LogOut, Game, HandedOver, input
  <2>2. InReach /\ InReach' /\ Held' = Held
    BY <2>1, SMT DEF InReach, Live, Held
  <2>3. Unread' = Unread
    BY <2>1, <2>2, UnreadIs, UnreadNext
  <2> QED BY <2>1, <2>3 DEF Commands!vars
<1>6. CASE RefuseJoin \/ LetGo
  <2>1. /\ UNCHANGED <<inData, handled>> /\ connectionIsOk' = FALSE
        /\ state' = "DISCONNECTED"
    BY <1>6 DEF RefuseJoin, LetGo, Disconnect
  <2>2. ~InReach'
    BY <2>1 DEF InReach, Live
  <2> QED BY <2>1, <2>2, GivingUpCuts DEF Commands!Next
<1>7. CASE Leave
  <2>1. /\ pc = "leave" /\ ~Live /\ state' = "FREE"
        /\ UNCHANGED <<inData, handled, connectionIsOk>>
    BY <1>7 DEF Leave
  <2>2. ~InReach /\ ~InReach'
    BY <2>1 DEF GivenUp, InReach, Live
  <2> QED BY <2>1, <2>2, UnreadIs, UnreadNext DEF Commands!vars
<1>8. CASE \/ ClientCloses \/ LoginTimerFires
           \/ (ReadNothing \/ TakeHup \/ TakeAlarm \/ WriteFails) /\ connectionIsOk' # FALSE
           \/ SetUpSocket \/ RaiseFlag \/ SignalGame \/ StopReading \/ NotePending
           \/ EnterLoop \/ LookBeforeSleep \/ TakeReady \/ TakeAcknowledgement
           \/ TakeSend \/ WritePacket \/ TakeGameSignal \/ SendAll \/ PassBy
           \/ LowerFlag \/ Acknowledge \/ BeginAnswer \/ WriteField \/ FinishAnswer
           \/ UNCHANGED vars
  <2>1. UNCHANGED <<inData, handled, socket, state, connectionIsOk>>
    BY <1>8, Zenon DEF ClientCloses, LoginTimerFires, ReadNothing, TakeHup, TakeAlarm,
           WriteFails, Close, SetUpSocket, RaiseFlag, SignalGame, StopReading, NotePending,
           EnterLoop, LookBeforeSleep, TakeReady, TakeAcknowledgement, TakeSend,
           WritePacket, TakeGameSignal, SendAll, PassBy, LowerFlag, Acknowledge,
           BeginAnswer, WriteField, FinishAnswer, vars, input, shared
  <2>2. Unread' = Unread
    BY <2>1, Zenon DEF Unread, Live
  <2> QED BY <2>1, <2>2 DEF Commands!vars
<1> QED BY <1>1, <1>2, <1>3, <1>4, <1>5, <1>6, <1>7, <1>8, Zenon
        DEF Next, CommunicationThread, GameThread, GameStep

(* Handed from thread to thread through one buffer, one flag and signals     *)
(* that merge, in any interleaving and however the connection ends: the game *)
(* parses the client's packets once each, in order, none overwritten in      *)
(* InData, and none after the connection has been given up                   *)
(* (communication.cc, receiving.cc).                                         *)
THEOREM CommandsAreAStream == Spec => InputIsAStream
<1>1. InputInv /\ InputInv' /\ [Next]_vars => [Commands!Next]_(Commands!vars)
  BY CommandsStep
<1>2. Spec => []InputInv
  BY InputInitial, InputStep, PTL DEF Spec
<1> QED BY <1>1, <1>2, CommandsInitial, PTL DEF Spec, InputIsAStream, Commands!Spec

-----------------------------------------------------------------------------
(* The answers of the game, a stream through the ring.                      *)

\* Less than a ring apart, two counters are at different slots.
LEMMA SlotsDiffer ==
    ASSUME NEW a \in Nat, NEW b \in Nat, a < b, b - a < Capacity
    PROVE  a % Capacity # b % Capacity
<1> DEFINE C == Capacity
<1>1. C \in Nat /\ C > 0
  BY CapacityAssumption, SMT
<1> HIDE DEF C
<1>2. a = (a \div C) * C + (a % C) /\ a \div C \in Int /\ a % C \in 0..(C - 1)
  BY <1>1, Z3T(30)
<1>3. b = (b \div C) * C + (b % C) /\ b \div C \in Int /\ b % C \in 0..(C - 1)
  BY <1>1, Z3T(30)
<1>4. ASSUME a % C = b % C PROVE FALSE
  <2> DEFINE p == a \div C
             q == b \div C
             r == a % C
             d == b - a
  <2>1. /\ p \in Int /\ q \in Int /\ r \in 0..(C - 1) /\ d \in Int
        /\ 0 < d /\ d < C /\ p * C + r + d = q * C + r
    <3>1. a = p * C + r /\ b = q * C + r
      BY <1>2, <1>3, <1>4
    <3>2. d \in Int /\ 0 < d /\ d < C /\ b = a + d
      BY <1>1, SMT DEF C
    <3> QED BY <1>2, <1>3, <3>1, <3>2
  <2> HIDE DEF p, q, r, d
  <2>2. (q - p) * C = d /\ q - p \in Int
    BY <1>1, <2>1, SMT
  <2>3. q - p > 0 /\ q - p < 1
    BY <1>1, <2>1, <2>2, SMT
  <2> QED BY <2>2, <2>3, SMT
<1> QED BY <1>4 DEF C

LEMMA SlotInRing == \A n \in Nat : n % Capacity \in 0..(Capacity - 1)
<1> DEFINE C == Capacity
<1>1. C \in Nat /\ C > 0
  BY CapacityAssumption, SMT
<1> HIDE DEF C
<1>2. \A n \in Nat : n % C \in 0..(C - 1)
  BY <1>1, Z3T(30)
<1> QED BY <1>2 DEF C

\* The bytes of a ring between two counters.
Piece(r, from, to) == [i \in 1..(to - from) |-> r[(from + i - 1) % Capacity]]

Cell == Nat \X Nat \X ({0} \cup {Size(fields) : fields \in Answers})
Ring == [0..(Capacity - 1) -> Cell]

LEMMA PieceFacts ==
    ASSUME NEW r \in Ring, NEW from \in Nat, NEW to \in Nat, from <= to
    PROVE  /\ Piece(r, from, to) \in Seq(Cell)
           /\ Len(Piece(r, from, to)) = to - from
           /\ \A i \in 1..(to - from) :
                 Piece(r, from, to)[i] = r[(from + i - 1) % Capacity]
<1>1. \A i \in 1..(to - from) : from + i - 1 \in Nat
  BY SMT
<1>2. \A i \in 1..(to - from) : r[(from + i - 1) % Capacity] \in Cell
  BY <1>1, SlotInRing DEF Ring
<1>3. to - from \in Nat
  BY SMT
<1>4. Piece(r, from, to) \in [1..(to - from) -> Cell]
  BY <1>2 DEF Piece
<1>5. Piece(r, from, to) \in Seq(Cell) /\ Len(Piece(r, from, to)) = to - from
  BY <1>3, <1>4, SMT
<1> QED BY <1>5 DEF Piece

LEMMA PieceSplits ==
    ASSUME NEW r \in Ring, NEW from \in Nat, NEW mid \in Nat, NEW to \in Nat,
           from <= mid, mid <= to
    PROVE  /\ SubSeq(Piece(r, from, to), 1, mid - from) = Piece(r, from, mid)
           /\ SubSeq(Piece(r, from, to), mid - from + 1, to - from) = Piece(r, mid, to)
<1> DEFINE all == Piece(r, from, to)
<1>1. /\ all \in Seq(Cell) /\ Len(all) = to - from
      /\ \A i \in 1..(to - from) : all[i] = r[(from + i - 1) % Capacity] /\ all[i] \in Cell
  <2>1. /\ all \in Seq(Cell) /\ Len(all) = to - from
        /\ \A i \in 1..(to - from) : all[i] = r[(from + i - 1) % Capacity]
    <3>1. from <= to
      BY SMT
    <3> QED BY <3>1, PieceFacts
  <2>2. \A i \in 1..(to - from) : all[i] \in Cell
    BY <2>1, ElementOfSeq
  <2> QED BY <2>1, <2>2
<1>2. /\ Piece(r, from, mid) \in Seq(Cell) /\ Len(Piece(r, from, mid)) = mid - from
      /\ \A i \in 1..(mid - from) : Piece(r, from, mid)[i] = r[(from + i - 1) % Capacity]
  BY PieceFacts
<1>3. /\ Piece(r, mid, to) \in Seq(Cell) /\ Len(Piece(r, mid, to)) = to - mid
      /\ \A i \in 1..(to - mid) : Piece(r, mid, to)[i] = r[(mid + i - 1) % Capacity]
  BY PieceFacts
<1> HIDE DEF all
<1>4. SubSeq(all, 1, mid - from) = Piece(r, from, mid)
  <2> DEFINE n == mid - from
             s == SubSeq(all, 1, n)
  <2>1. n \in Nat /\ \A i \in 1..n : i \in 1..(to - from)
    BY SMT
  <2>2. \A i \in 1..n : all[i] \in Cell
    BY <1>1, <2>1
  <2> HIDE DEF n
  <2>3. /\ s \in Seq(Cell)
        /\ Len(s) = IF 1 <= n THEN n - 1 + 1 ELSE 0
        /\ \A i \in 1..(n - 1 + 1) : s[i] = all[1 + i - 1]
    <3>1. 1 \in Int /\ n \in Int
      BY <2>1, SMT
    <3> QED BY <2>2, <3>1, SubSeqProperties
  <2> HIDE DEF s
  <2>4. Len(s) = n /\ \A i \in 1..n : s[i] = all[i]
    BY <2>1, <2>3, SMT
  <2>5. \A i \in 1..Len(s) : s[i] = Piece(r, from, mid)[i]
    BY <1>1, <1>2, <2>1, <2>4 DEF n
  <2>6. s = Piece(r, from, mid)
    BY <1>2, <2>1, <2>3, <2>4, <2>5, SeqEqual DEF n
  <2> QED BY <2>6 DEF s, n
<1>5. SubSeq(all, mid - from + 1, to - from) = Piece(r, mid, to)
  <2> DEFINE k == mid - from
             n == to - from
             s == SubSeq(all, k + 1, n)
  <2>1. /\ k \in Nat /\ n \in Nat /\ k <= n /\ n - k = to - mid
        /\ \A i \in (k + 1)..n : i \in 1..n
        /\ \A i \in 1..(n - k) : k + i \in 1..n /\ from + (k + i) - 1 = mid + i - 1
    BY SMT
  <2>2. \A i \in (k + 1)..n : all[i] \in Cell
    BY <1>1, <2>1
  <2> HIDE DEF k, n
  <2>3. /\ s \in Seq(Cell)
        /\ Len(s) = IF k + 1 <= n THEN n - (k + 1) + 1 ELSE 0
        /\ \A i \in 1..(n - (k + 1) + 1) : s[i] = all[(k + 1) + i - 1]
    <3>1. k + 1 \in Int /\ n \in Int
      BY <2>1, SMT
    <3> QED BY <2>2, <3>1, SubSeqProperties
  <2> HIDE DEF s
  <2>4. Len(s) = n - k /\ \A i \in 1..(n - k) : s[i] = all[k + i]
    BY <2>1, <2>3, SMT
  <2>5. \A i \in 1..Len(s) : s[i] = Piece(r, mid, to)[i]
    <3>1. \A i \in 1..(n - k) : all[k + i] = r[(mid + i - 1) % Capacity]
      BY <1>1, <2>1 DEF n
    <3> QED BY <1>3, <2>1, <2>4, <3>1
  <2>6. s = Piece(r, mid, to)
    BY <1>3, <2>1, <2>3, <2>4, <2>5, SeqEqual
  <2> QED BY <2>6 DEF s, k, n
<1> QED BY <1>4, <1>5 DEF all

\* A piece depends on the ring's slots between its two counters only.
LEMMA PieceUntouched ==
    ASSUME NEW r, NEW t, NEW from \in Nat, NEW to \in Nat,
           \A n \in Nat : from <= n /\ n < to => t[n % Capacity] = r[n % Capacity]
    PROVE  Piece(t, from, to) = Piece(r, from, to)
<1>1. \A i \in 1..(to - from) : /\ from + i - 1 \in Nat
                               /\ from <= from + i - 1 /\ from + i - 1 < to
  BY SMT
<1>2. \A i \in 1..(to - from) :
         t[(from + i - 1) % Capacity] = r[(from + i - 1) % Capacity]
  BY <1>1
<1> QED BY <1>2 DEF Piece

LEMMA EmptyPiece ==
    ASSUME NEW r, NEW n \in Nat PROVE Piece(r, n, n) = <<>>
  BY SMT DEF Piece

-----------------------------------------------------------------------------
\* The cells of the ring are bytes of answers, and before the login nothing
\* is in the ring.
AnswerCells == /\ answer.id \in Nat /\ answer.at \in Nat /\ answers \in Nat
               /\ answer.size \in {0} \cup {Size(fields) : fields \in Answers}

OutputInv == /\ outData \in Ring /\ received \in Seq(Cell) /\ AnswerCells
             /\ state = "CONNECTED" => nextToCommit = nextToSend
             /\ RingInv

LEMMA OutputInitial == Init => OutputInv
<1> SUFFICES ASSUME Init PROVE OutputInv
  OBVIOUS
<1>1. outData \in Ring
  <2>1. <<0, 0, 0>> \in Cell
    BY SMT DEF Cell
  <2>2. outData = [i \in 0..(Capacity - 1) |-> <<0, 0, 0>>]
    BY DEF Init
  <2> QED BY <2>1, <2>2 DEF Ring
<1>2. AnswerCells
  BY SMT DEF Init, AnswerCells, Idle
<1>3. received \in Seq(Cell) /\ nextToCommit = nextToSend
  BY EmptySeq DEF Init
<1> QED BY <1>1, <1>2, <1>3, RingInitial DEF OutputInv

\* A field is written behind everything that has not been sent.
LEMMA WriteFieldKeeps ==
    ASSUME OutputInv, WriteField
    PROVE  /\ outData' \in Ring /\ AnswerCells'
           /\ Piece(outData', nextToSend, nextToCommit) = Piece(outData, nextToSend, nextToCommit)
<1> DEFINE length == Head(answer.left)
           Slot(i) == (nextToWrite + i - 1) % Capacity
           written == [slot \in 0..(Capacity - 1) |->
                        IF \E i \in 1..length : Slot(i) = slot
                        THEN LET i == CHOOSE i \in 1..length : Slot(i) = slot
                             IN  <<answer.id, answer.at + i, answer.size>>
                        ELSE outData[slot]]
<1>1. PICK id, size, at : \E fields \in Seq(1..Capacity) :
            answer = [id |-> id, size |-> size, left |-> fields, at |-> at]
  BY DEF OutputInv, RingInv, AnswerTyped
<1>2. PICK fields \in Seq(1..Capacity) :
            answer = [id |-> id, size |-> size, left |-> fields, at |-> at]
  BY <1>1
<1>3. /\ id \in Nat /\ at \in Nat /\ answers \in Nat
      /\ size \in {0} \cup {Size(f) : f \in Answers}
  BY <1>2 DEF OutputInv, AnswerCells
<1>4. fields # <<>> /\ answer # Idle
  BY <1>2 DEF WriteField, Idle
<1>5. length \in 1..Capacity /\ Capacity \in Nat
  <2>1. length = Head(fields)
    BY <1>2
  <2>2. Head(fields) \in 1..Capacity
    BY <1>4, HeadTailProperties
  <2> QED BY <2>1, <2>2, CapacityAssumption
<1>6. /\ answer' = [answer EXCEPT !.left = Tail(@), !.at = @ + length]
      /\ UNCHANGED <<nextToSend, nextToCommit, answers>>
      /\ IF Room(length) THEN outData' = written ELSE outData' = outData
  BY DEF WriteField
<1> HIDE DEF length
<1>7. AnswerCells'
  <2>1. answer' = [id |-> id, size |-> size, left |-> Tail(fields), at |-> at + length]
    BY <1>2, <1>6
  <2>2. at + length \in Nat
    BY <1>3, <1>5, SMT
  <2>3. answer'.id = id /\ answer'.size = size /\ answer'.at = at + length
    BY <2>1
  <2> QED BY <1>3, <1>6, <2>2, <2>3 DEF AnswerCells
<1>8. outData \in Ring
  BY DEF OutputInv
<1>9. written \in Ring
  <2>1. ASSUME NEW i \in 1..length
        PROVE  <<answer.id, answer.at + i, answer.size>> \in Cell
    <3>1. at + i \in Nat
      BY <1>3, <1>5, SMT
    <3>2. answer.id = id /\ answer.size = size /\ answer.at = at
      BY <1>2
    <3> QED BY <1>3, <3>1, <3>2 DEF Cell
  <2>2. ASSUME NEW slot \in 0..(Capacity - 1) PROVE written[slot] \in Cell
    <3>1. CASE \E i \in 1..length : Slot(i) = slot
      <4> DEFINE j == CHOOSE i \in 1..length : Slot(i) = slot
      <4>1. j \in 1..length
        BY <3>1
      <4>2. written[slot] = <<answer.id, answer.at + j, answer.size>>
        BY <3>1
      <4> QED BY <2>1, <4>1, <4>2
    <3>2. CASE ~ \E i \in 1..length : Slot(i) = slot
      <4>1. written[slot] = outData[slot]
        BY <3>2
      <4> QED BY <1>8, <4>1 DEF Ring
    <3> QED BY <3>1, <3>2
  <2> QED BY <2>2 DEF Ring
<1>10. Room(length) =>
          Piece(written, nextToSend, nextToCommit) = Piece(outData, nextToSend, nextToCommit)
  <2> SUFFICES ASSUME Room(length)
               PROVE  Piece(written, nextToSend, nextToCommit)
                        = Piece(outData, nextToSend, nextToCommit)
    OBVIOUS
  <2>1. /\ nextToSend \in Nat /\ nextToCommit \in Nat /\ nextToWrite \in Nat
        /\ nextToCommit <= nextToWrite
        /\ nextToWrite - nextToSend + length <= Capacity
    BY <1>4 DEF OutputInv, RingInv, CountersTyped, AnswerInGame, Room
  <2>2. ASSUME NEW n \in Nat, nextToSend <= n /\ n < nextToCommit
        PROVE  written[n % Capacity] = outData[n % Capacity]
    <3>1. ASSUME NEW i \in 1..length PROVE Slot(i) # n % Capacity
      <4> DEFINE m == nextToWrite + i - 1
      <4>1. m \in Nat /\ n < m /\ m - n < Capacity
        BY <1>5, <2>1, <2>2, SMT
      <4>2. Slot(i) = m % Capacity
        OBVIOUS
      <4> HIDE DEF m, Slot
      <4>3. n % Capacity # m % Capacity
        BY <4>1, SlotsDiffer
      <4> QED BY <4>2, <4>3
    <3>2. n % Capacity \in 0..(Capacity - 1)
      BY SlotInRing
    <3> QED BY <3>1, <3>2
  <2> HIDE DEF written
  <2> QED BY <2>1, <2>2, PieceUntouched, ZenonT(60)
<1> HIDE DEF written
<1> QED BY <1>6, <1>7, <1>8, <1>9, <1>10

\* A step that leaves the ring, what has been received and the answer alone.
RingVars == <<outData, nextToSend, nextToCommit, received, answer, answers>>

LEMMA RingVarsKept ==
    \/ ClientSends \/ ClientCloses \/ LoginTimerFires
    \/ SetUpSocket \/ RejectPacket \/ ReadNothing \/ RaiseFlag
    \/ SignalGame \/ StopReading \/ NotePending \/ EnterLoop
    \/ LookBeforeSleep \/ TakeHup \/ TakeAlarm \/ TakeReady \/ TakeAcknowledgement
    \/ TakeSend \/ WriteFails \/ Leave \/ TakeGameSignal \/ SendAll \/ LogOut \/ LetGo
    \/ PassBy \/ ParseCommand \/ Join \/ RefuseJoin \/ LowerFlag \/ Acknowledge
    \/ UNCHANGED vars
    => UNCHANGED RingVars /\ (state' = state \/ state' # "CONNECTED")
<1> USE DEF ClientSends, ClientCloses, LoginTimerFires, SetUpSocket, RejectPacket,
        ReadNothing, RaiseFlag, SignalGame, StopReading, NotePending, EnterLoop,
        LookBeforeSleep, TakeHup, TakeAlarm, TakeReady, TakeAcknowledgement, TakeSend,
        WriteFails, Leave, TakeGameSignal, SendAll, LogOut, LetGo, PassBy, ParseCommand,
        Join, RefuseJoin, LowerFlag, Acknowledge, Close, Disconnect, vars
<1> SUFFICES ASSUME \/ ClientSends \/ ClientCloses \/ LoginTimerFires
                    \/ SetUpSocket \/ RejectPacket \/ ReadNothing \/ RaiseFlag
                    \/ SignalGame \/ StopReading \/ NotePending \/ EnterLoop
                    \/ LookBeforeSleep \/ TakeHup \/ TakeAlarm \/ TakeReady
                    \/ TakeAcknowledgement \/ TakeSend \/ WriteFails \/ Leave
                    \/ TakeGameSignal \/ SendAll \/ LogOut \/ LetGo
                    \/ PassBy \/ ParseCommand \/ Join \/ RefuseJoin \/ LowerFlag
                    \/ Acknowledge \/ UNCHANGED vars
             PROVE  UNCHANGED RingVars /\ (state' = state \/ state' # "CONNECTED")
  OBVIOUS
<1>1. UNCHANGED RingVars
  BY Zenon DEF RingVars, ring, writer, output
<1>2. state' = state \/ state' # "CONNECTED"
  BY SMT DEF shared
<1> QED BY <1>1, <1>2

\* The login finds the ring empty, wherever its counters stand.
LEMMA LoginFindsNothing ==
    ASSUME OutputInv, ReadPacket
    PROVE  /\ UNCHANGED <<outData, received, answer, answers, pc>> \/ pc' = "call"
           /\ UNCHANGED <<outData, received, answer, answers>>
           /\ \/ UNCHANGED <<nextToSend, nextToCommit>>
              \/ /\ nextToSend' = 0 /\ nextToCommit' = 0
                 /\ nextToCommit = nextToSend
           /\ state' # "CONNECTED"
  BY DEF ReadPacket, OutputInv, writer, output

LEMMA BytesCounted ==
    ASSUME OutputInv
    PROVE  /\ nextToSend \in Nat /\ nextToCommit \in Nat /\ amount \in Nat
           /\ nextToSend <= nextToCommit /\ nextToSend + amount <= nextToCommit
           /\ nextToSend + amount \in Nat /\ nextToSend <= nextToSend + amount
           /\ outData \in Ring
  BY SMT DEF OutputInv, RingInv, CountersTyped

LEMMA OutputStep == ASSUME OutputInv, [Next]_vars PROVE OutputInv'
<1>1. RingInv'
  BY RingStep DEF OutputInv
<1>2. CASE ReadPacket
  <2>1. /\ UNCHANGED <<outData, received, answer, answers>> /\ state' # "CONNECTED"
    BY <1>2, LoginFindsNothing
  <2> QED BY <1>1, <2>1 DEF OutputInv, AnswerCells
<1>3. CASE WritePacket
  <2>1. /\ received' = received \o Piece(outData, nextToSend, nextToSend + amount)
        /\ UNCHANGED <<outData, answer, answers, state, nextToCommit>> /\ pc = "send"
    BY <1>3 DEF WritePacket, Bytes, Piece, shared, writer
  <2>2. Piece(outData, nextToSend, nextToSend + amount) \in Seq(Cell)
    BY BytesCounted, PieceFacts
  <2>3. received' \in Seq(Cell)
    BY <2>1, <2>2, ConcatProperties DEF OutputInv
  <2>4. state = "CONNECTED" => nextToSend' = nextToSend
    <3>1. state = "CONNECTED" => amount = 0
      BY BytesCounted, SMT DEF OutputInv
    <3>2. nextToSend' = nextToSend + amount
      BY <1>3 DEF WritePacket
    <3> QED BY <3>1, <3>2, BytesCounted, SMT
  <2> QED BY <1>1, <2>1, <2>3, <2>4 DEF OutputInv, AnswerCells
<1>4. CASE BeginAnswer
  <2>1. /\ UNCHANGED <<outData, received, nextToSend, nextToCommit, state>>
        /\ state # "CONNECTED" /\ answers' = answers + 1
    BY <1>4 DEF BeginAnswer, Live, shared, output
  <2>2. PICK fields \in Answers :
           answer' = [id |-> answers + 1, size |-> Size(fields), left |-> fields, at |-> 0]
    BY <1>4 DEF BeginAnswer
  <2>3. answers + 1 \in Nat
    BY SMT DEF OutputInv, AnswerCells
  <2>4. AnswerCells'
    BY <2>1, <2>2, <2>3 DEF AnswerCells
  <2> QED BY <1>1, <2>1, <2>4 DEF OutputInv
<1>5. CASE WriteField
  <2>1. outData' \in Ring /\ AnswerCells'
    BY <1>5, WriteFieldKeeps
  <2>2. UNCHANGED <<received, nextToSend, nextToCommit, state>>
    BY <1>5 DEF WriteField, shared, output
  <2> QED BY <1>1, <2>1, <2>2 DEF OutputInv
<1>6. CASE FinishAnswer
  <2>1. /\ UNCHANGED <<outData, received, nextToSend, answers, state>>
        /\ answer # Idle /\ answer' = Idle
    BY <1>6 DEF FinishAnswer, shared, output
  <2>2. state # "CONNECTED"
    BY <2>1 DEF OutputInv, RingInv, AnswerInGame
  <2>3. Idle.id = 0 /\ Idle.at = 0 /\ Idle.size = 0 /\ 0 \in Nat
    BY SMT DEF Idle
  <2>4. AnswerCells'
    BY <2>1, <2>3 DEF AnswerCells, OutputInv
  <2> QED BY <1>1, <2>1, <2>2, <2>4 DEF OutputInv
<1>7. CASE UNCHANGED RingVars /\ (state' = state \/ state' # "CONNECTED")
  BY <1>1, <1>7 DEF RingVars, OutputInv, AnswerCells
<1> QED BY <1>2, <1>3, <1>4, <1>5, <1>6, <1>7, RingVarsKept, Zenon
        DEF Next, CommunicationThread, GameThread, GameStep

-----------------------------------------------------------------------------
LEMMA UnsentIs ==
    /\ Over => Unsent = <<>>
    /\ ~Over => Unsent = Piece(outData, nextToSend, nextToCommit)
  BY DEF Unsent, Bytes, Piece

LEMMA UnsentNext ==
    /\ Over' => Unsent' = <<>>
    /\ ~Over' => Unsent' = Piece(outData', nextToSend', nextToCommit')
  BY DEF Unsent, Bytes, Piece

LEMMA OutputBegins == Init => Output!Init
<1> SUFFICES ASSUME Init PROVE Output!Init
  OBVIOUS
<1>1. ~Over /\ received = <<>> /\ nextToSend = 0 /\ nextToCommit = 0
  BY DEF Init, Over
<1>2. Unsent = <<>>
  BY <1>1, UnsentIs, EmptyPiece
<1> QED BY <1>1, <1>2 DEF Output!Init

\* Once the thread has left its loop the ring is not looked at again.
LEMMA OverStays == ASSUME [Next]_vars, Over PROVE Over'
<1>1. CASE CommunicationThread
  <2>1. CASE Leave
    BY <2>1 DEF Leave, Over
  <2>2. CASE ~Leave
    BY <1>1, <2>2, SMT DEF CommunicationThread, SetUpSocket, ReadPacket, RejectPacket,
       ReadNothing, RaiseFlag, SignalGame, StopReading, NotePending, EnterLoop,
       LookBeforeSleep, TakeHup, TakeAlarm, TakeReady, TakeAcknowledgement, TakeSend,
       WritePacket, WriteFails, Reading, Wait, Over
  <2> QED BY <2>1, <2>2
<1>2. CASE ~CommunicationThread
  <2>1. pc' = pc
    BY <1>2, Zenon DEF Next, GameThread, GameStep, ClientSends, ClientCloses,
       LoginTimerFires, TakeGameSignal, SendAll, LogOut, LetGo, PassBy, ParseCommand,
       Join, RefuseJoin, LowerFlag, Acknowledge, BeginAnswer, WriteField, FinishAnswer, vars
  <2> QED BY <2>1 DEF Over
<1> QED BY <1>1, <1>2

LEMMA OutputStreams ==
    ASSUME OutputInv, [Next]_vars
    PROVE  Output!Next \/ UNCHANGED Output!vars
<1>1. CASE WritePacket
  <2> DEFINE mid == nextToSend + amount
  <2>1. /\ received' = received \o Piece(outData, nextToSend, mid)
        /\ nextToSend' = mid /\ UNCHANGED <<outData, nextToCommit>>
        /\ ~Over /\ ~Over'
    BY <1>1 DEF WritePacket, Bytes, Piece, Over
  <2>2. /\ mid \in Nat /\ nextToSend <= mid /\ mid <= nextToCommit
        /\ nextToSend \in Nat /\ nextToCommit \in Nat /\ amount \in Nat /\ outData \in Ring
    BY BytesCounted
  <2>3. Unsent = Piece(outData, nextToSend, nextToCommit)
        /\ Unsent' = Piece(outData, mid, nextToCommit)
    BY <2>1, UnsentIs, UnsentNext
  <2>4. mid - nextToSend = amount
    BY <2>2, SMT
  <2>5. nextToSend <= nextToCommit
    BY BytesCounted
  <2> HIDE DEF mid
  <2>6. /\ SubSeq(Unsent, 1, mid - nextToSend) = Piece(outData, nextToSend, mid)
        /\ SubSeq(Unsent, mid - nextToSend + 1, nextToCommit - nextToSend)
             = Piece(outData, mid, nextToCommit)
        /\ Len(Unsent) = nextToCommit - nextToSend
    <3>1. Len(Piece(outData, nextToSend, nextToCommit)) = nextToCommit - nextToSend
      BY <2>2, <2>5, PieceFacts
    <3>2. /\ SubSeq(Piece(outData, nextToSend, nextToCommit), 1, mid - nextToSend)
               = Piece(outData, nextToSend, mid)
          /\ SubSeq(Piece(outData, nextToSend, nextToCommit),
                    mid - nextToSend + 1, nextToCommit - nextToSend)
               = Piece(outData, mid, nextToCommit)
      BY <2>2, PieceSplits
    <3> QED BY <2>3, <3>1, <3>2
  <2>7. CASE amount = 0
    <3>1. mid = nextToSend
      BY <2>2, <2>7, SMT DEF mid
    <3>2. received \o <<>> = received
      BY ConcatEmptySeq DEF OutputInv
    <3>3. received' = received /\ Unsent' = Unsent
      BY <2>1, <2>2, <2>3, <3>1, <3>2, EmptyPiece
    <3> QED BY <2>1, <3>3 DEF Output!vars
  <2>8. CASE amount # 0
    <3>1. amount \in 1..Len(Unsent)
      BY <2>2, <2>4, <2>6, <2>8, SMT
    <3>2. /\ received' = received \o SubSeq(Unsent, 1, amount)
          /\ Unsent' = SubSeq(Unsent, amount + 1, Len(Unsent))
      BY <2>1, <2>3, <2>4, <2>6
    <3> QED BY <2>1, <3>1, <3>2 DEF Output!Next, Output!Take
  <2> QED BY <2>7, <2>8
<1>2. CASE FinishAnswer
  <2>1. /\ UNCHANGED <<outData, received, nextToSend>> /\ Over' = Over
        /\ nextToCommit' \in {nextToCommit, nextToWrite} /\ answer # Idle
    BY <1>2 DEF FinishAnswer, Over, output
  <2>2. CASE Over
    BY <2>1, <2>2, UnsentIs, UnsentNext DEF Output!vars
  <2>3. CASE ~Over
    <3>1. /\ nextToSend \in Nat /\ nextToCommit \in Nat /\ nextToCommit' \in Nat
          /\ nextToSend <= nextToCommit /\ nextToCommit <= nextToCommit' /\ outData \in Ring
          /\ nextToSend <= nextToCommit'
      <4>1. /\ nextToWrite \in Nat /\ nextToCommit <= nextToWrite
        BY <2>1 DEF OutputInv, RingInv, CountersTyped, AnswerInGame
      <4> QED BY <2>1, <4>1, BytesCounted, SMT
    <3>2. /\ Unsent = Piece(outData, nextToSend, nextToCommit)
          /\ Unsent' = Piece(outData, nextToSend, nextToCommit')
      BY <2>1, <2>3, UnsentIs, UnsentNext
    <3>3. SubSeq(Unsent', 1, nextToCommit - nextToSend) = Unsent
      BY <3>1, <3>2, PieceSplits
    <3>4. Len(Unsent) = nextToCommit - nextToSend /\ Len(Unsent') = nextToCommit' - nextToSend
      <4>1. Len(Piece(outData, nextToSend, nextToCommit)) = nextToCommit - nextToSend
        BY <3>1, PieceFacts
      <4>2. Len(Piece(outData, nextToSend, nextToCommit')) = nextToCommit' - nextToSend
        BY <3>1, PieceFacts
      <4> QED BY <3>2, <4>1, <4>2
    <3>5. Len(Unsent) <= Len(Unsent')
      <4> DEFINE n == nextToCommit'
      <4>0. /\ nextToSend \in Nat /\ nextToCommit \in Nat /\ n \in Nat
            /\ nextToCommit <= n
        BY <3>1
      <4> HIDE DEF n
      <4>1. nextToCommit - nextToSend <= n - nextToSend
        BY ONLY <4>0, SMT
      <4> QED BY <3>4, <4>1 DEF n
    <3>6. Output!Prefix(Unsent, Unsent')
      BY <3>3, <3>4, <3>5 DEF Output!Prefix
    <3> QED BY <2>1, <2>3, <3>6 DEF Output!Next, Output!Put
  <2> QED BY <2>2, <2>3
<1>3. CASE WriteField
  <2>1. UNCHANGED <<received, nextToSend, nextToCommit>> /\ Over' = Over
    BY <1>3 DEF WriteField, Over, output
  <2>2. Piece(outData', nextToSend, nextToCommit) = Piece(outData, nextToSend, nextToCommit)
    BY <1>3, WriteFieldKeeps
  <2> QED BY <2>1, <2>2, UnsentIs, UnsentNext DEF Output!vars
<1>4. CASE ReadPacket
  <2>1. /\ UNCHANGED <<outData, received>> /\ ~Over /\ ~Over'
        /\ \/ UNCHANGED <<nextToSend, nextToCommit>>
           \/ /\ nextToSend' = 0 /\ nextToCommit' = 0
              /\ nextToCommit = nextToSend
    BY <1>4, LoginFindsNothing DEF ReadPacket, Reading, Over
  <2>2. nextToSend \in Nat
    BY BytesCounted
  <2>3. Unsent' = Unsent
    BY <2>1, <2>2, UnsentIs, UnsentNext, EmptyPiece
  <2> QED BY <2>1, <2>3 DEF Output!vars
<1>5. CASE BeginAnswer
  <2>1. UNCHANGED <<outData, nextToSend, nextToCommit, received>> /\ Over' = Over
    BY <1>5 DEF BeginAnswer, Over, output
  <2> QED BY <2>1, UnsentIs, UnsentNext DEF Output!vars
<1>6. CASE UNCHANGED RingVars
  <2>1. CASE Over' = Over
    BY <1>6, <2>1, UnsentIs, UnsentNext DEF RingVars, Output!vars
  <2>2. CASE Over' # Over
    <3>1. ~Over /\ Over'
      BY <2>2, OverStays DEF Over
    <3>2. Unsent = Piece(outData, nextToSend, nextToCommit) /\ Unsent' = <<>>
      BY <3>1, UnsentIs, UnsentNext
    <3>3. Unsent \in Seq(Cell)
      BY <3>2, BytesCounted, PieceFacts
    <3>4. Output!Prefix(Unsent', Unsent)
      BY <3>2, <3>3, SMT DEF Output!Prefix
    <3> QED BY <1>6, <3>1, <3>4 DEF RingVars, Output!Next, Output!Cut
  <2> QED BY <2>1, <2>2
<1> QED BY <1>1, <1>2, <1>3, <1>4, <1>5, <1>6, RingVarsKept, Zenon
        DEF Next, CommunicationThread, GameThread, GameStep

(* For every capacity and across every wrap of the ring: the bytes the game  *)
(* thread commits reach the client once and in order, while it writes new    *)
(* ones beside those being sent (sending.cc).                                *)
THEOREM AnswersAreAStream == Spec => OutputIsAStream
<1>1. OutputInv /\ [Next]_vars => [Output!Next]_(Output!vars)
  BY OutputStreams
<1>2. Spec => []OutputInv
  BY OutputInitial, OutputStep, PTL DEF Spec
<1> QED BY <1>1, <1>2, OutputBegins, PTL DEF Spec, OutputIsAStream, Output!Spec

-----------------------------------------------------------------------------
(* The wake-ups of the communication thread.                                *)

\* There is something for the communication thread to read.
Unseen == socket # <<>> \/ fin

\* The game thread still has a command, or its acknowledgement is on the way.
Answering == waitingForACK \/ gpc = "notify" \/ "USR1" \in signals

\* The thread will be woken for what is unseen.
Noted == "IO" \in signals \/ (sigIOPending /\ Answering)

\* What may be there before O_ASYNC is set: the first packet, or the end.
Early == \/ socket = <<>>
         \/ ~fin /\ Tail(socket) = <<>>

Setup == {"setup", "receive", "call", "signal", "pend", "enter"}

\* Which states and places go together.
Placed ==
    /\ first => pc \in Setup
    /\ ~first => pc \notin {"setup", "enter"}
    /\ connectionIsOk => state \in {"CONNECTED", "LOGIN", "GAME", "LOGOUT"}
    /\ state = "CONNECTED" => /\ ~waitingForACK /\ inData = 0
                              /\ gpc \notin {"join", "ack", "notify"}

\* Nothing for the thread to read goes unnoticed on its way to sigwait.
InputNoted ==
    /\ pc = "setup" => Early /\ ~waitingForACK /\ (sent = 0 => socket = <<>>)
    /\ first /\ pc = "receive" /\ connectionIsOk /\ "IO" \notin signals
          => ~Unseen \/ (Early /\ ~waitingForACK)
    /\ first /\ pc \in {"call", "signal", "pend", "enter"} /\ connectionIsOk /\ Unseen
          => "IO" \in signals
    /\ pc = "pend" /\ connectionIsOk => Answering
    /\ pc \in {"check", "wait", "send"} /\ connectionIsOk /\ Unseen => Noted

\* Nothing that is committed goes unnoticed either.
OutputNoted ==
    connectionIsOk /\ Live /\ nextToSend + amount < nextToCommit
        => "USR2" \in signals \/ willingToSend

LEMMA PlacedStep == ASSUME InputInv, Placed, [Next]_vars PROVE Placed'
<1> USE DEF InputInv, HandedOver, GivenUp, Placed, Setup, Live, Return, Close, Disconnect,
        Wait, Game, Reading, Arrival, Async, input, shared, ring, writer, output
<1>1. CASE SetUpSocket
  BY <1>1, SMT DEF SetUpSocket
<1>2. CASE ReadPacket
  BY <1>2, SMT DEF ReadPacket
<1>3. CASE RejectPacket
  BY <1>3, SMT DEF RejectPacket
<1>4. CASE ReadNothing
  BY <1>4, SMT DEF ReadNothing
<1>5. CASE RaiseFlag
  BY <1>5, SMT DEF RaiseFlag
<1>6. CASE SignalGame
  BY <1>6, SMT DEF SignalGame
<1>7. CASE StopReading
  BY <1>7, SMT DEF StopReading
<1>8. CASE NotePending
  BY <1>8, SMT DEF NotePending
<1>9. CASE EnterLoop
  BY <1>9, SMT DEF EnterLoop
<1>10. CASE LookBeforeSleep
  BY <1>10, SMT DEF LookBeforeSleep
<1>11. CASE TakeHup
  BY <1>11, SMT DEF TakeHup
<1>12. CASE TakeAlarm
  BY <1>12, SMT DEF TakeAlarm
<1>13. CASE TakeReady
  BY <1>13, SMT DEF TakeReady
<1>14. CASE TakeAcknowledgement
  BY <1>14, SMT DEF TakeAcknowledgement
<1>15. CASE TakeSend
  BY <1>15, SMT DEF TakeSend
<1>16. CASE WritePacket
  BY <1>16, SMT DEF WritePacket
<1>17. CASE WriteFails
  BY <1>17, SMT DEF WriteFails
<1>18. CASE Leave
  BY <1>18, SMT DEF Leave
<1>19. CASE ClientSends
  BY <1>19, SMT DEF ClientSends
<1>20. CASE ClientCloses
  BY <1>20, SMT DEF ClientCloses
<1>21. CASE LoginTimerFires
  BY <1>21, SMT DEF LoginTimerFires
<1>22. CASE TakeGameSignal
  BY <1>22, SMT DEF TakeGameSignal
<1>23. CASE PassBy
  BY <1>23, SMT DEF PassBy
<1>24. CASE ParseCommand
  BY <1>24, SMT DEF ParseCommand
<1>25. CASE Join
  BY <1>25, SMT DEF Join
<1>26. CASE RefuseJoin
  BY <1>26, SMT DEF RefuseJoin
<1>27. CASE LowerFlag
  BY <1>27, SMT DEF LowerFlag
<1>28. CASE Acknowledge
  BY <1>28, SMT DEF Acknowledge
<1>29. CASE BeginAnswer
  BY <1>29, SMT DEF BeginAnswer
<1>30. CASE WriteField
  BY <1>30, SMT DEF WriteField
<1>31. CASE FinishAnswer
  BY <1>31, SMT DEF FinishAnswer
<1>32. CASE SendAll
  BY <1>32, SMT DEF SendAll
<1>33. CASE LogOut
  BY <1>33, SMT DEF LogOut
<1>34. CASE LetGo
  BY <1>34, SMT DEF LetGo
<1>35. CASE UNCHANGED vars
  BY <1>35, SMT DEF vars
<1> QED BY <1>1, <1>2, <1>3, <1>4, <1>5, <1>6, <1>7, <1>8, <1>9, <1>10, <1>11, <1>12, <1>13, <1>14, <1>15, <1>16, <1>17, <1>18, <1>19, <1>20, <1>21, <1>22, <1>23, <1>24, <1>25, <1>26, <1>27, <1>28, <1>29, <1>30, <1>31, <1>32, <1>33, <1>34, <1>35, Zenon
        DEF Next, CommunicationThread, GameThread, GameStep

LEMMA InputNotedStep ==
    ASSUME ~EarlyPackets, InputInv, Placed, InputNoted, [Next]_vars
    PROVE  InputNoted'
<1> USE DEF InputInv, InputTyped, HandedOver, GivenUp, Placed, InputNoted, Unseen, Noted,
           Answering, Early, Setup, Live, Return, Close, Disconnect, Wait, Game, Reading, Arrival,
           Async, input, shared, ring, writer, output
<1>1. CASE SetUpSocket
  BY <1>1, SMT DEF SetUpSocket
<1>2. CASE ReadPacket
  BY <1>2, SMT DEF ReadPacket
<1>3. CASE RejectPacket
  BY <1>3, SMT DEF RejectPacket
<1>4. CASE ReadNothing
  BY <1>4, SMT DEF ReadNothing
<1>5. CASE RaiseFlag
  BY <1>5, SMT DEF RaiseFlag
<1>6. CASE SignalGame
  BY <1>6, SMT DEF SignalGame
<1>7. CASE StopReading
  BY <1>7, SMT DEF StopReading
<1>8. CASE NotePending
  BY <1>8, SMT DEF NotePending
<1>9. CASE EnterLoop
  BY <1>9, SMT DEF EnterLoop
<1>10. CASE LookBeforeSleep
  BY <1>10, SMT DEF LookBeforeSleep
<1>11. CASE TakeHup
  BY <1>11, SMT DEF TakeHup
<1>12. CASE TakeAlarm
  BY <1>12, SMT DEF TakeAlarm
<1>13. CASE TakeReady
  BY <1>13, SMT DEF TakeReady
<1>14. CASE TakeAcknowledgement
  BY <1>14, SMT DEF TakeAcknowledgement
<1>15. CASE TakeSend
  BY <1>15, SMT DEF TakeSend
<1>16. CASE WritePacket
  BY <1>16, SMT DEF WritePacket
<1>17. CASE WriteFails
  BY <1>17, SMT DEF WriteFails
<1>18. CASE Leave
  BY <1>18, SMT DEF Leave
<1>19. CASE ClientSends
  BY <1>19, SMT DEF ClientSends
<1>20. CASE ClientCloses
  BY <1>20, SMT DEF ClientCloses
<1>21. CASE LoginTimerFires
  BY <1>21, SMT DEF LoginTimerFires
<1>22. CASE TakeGameSignal
  BY <1>22, SMT DEF TakeGameSignal
<1>23. CASE PassBy
  BY <1>23, SMT DEF PassBy
<1>24. CASE ParseCommand
  BY <1>24, SMT DEF ParseCommand
<1>25. CASE Join
  BY <1>25, SMT DEF Join
<1>26. CASE RefuseJoin
  BY <1>26, SMT DEF RefuseJoin
<1>27. CASE LowerFlag
  BY <1>27, SMT DEF LowerFlag
<1>28. CASE Acknowledge
  BY <1>28, SMT DEF Acknowledge
<1>29. CASE BeginAnswer
  BY <1>29, SMT DEF BeginAnswer
<1>30. CASE WriteField
  BY <1>30, SMT DEF WriteField
<1>31. CASE FinishAnswer
  BY <1>31, SMT DEF FinishAnswer
<1>32. CASE SendAll
  BY <1>32, SMT DEF SendAll
<1>33. CASE LogOut
  BY <1>33, SMT DEF LogOut
<1>34. CASE LetGo
  BY <1>34, SMT DEF LetGo
<1>35. CASE UNCHANGED vars
  BY <1>35, SMT DEF vars
<1> QED BY <1>1, <1>2, <1>3, <1>4, <1>5, <1>6, <1>7, <1>8, <1>9, <1>10, <1>11, <1>12, <1>13, <1>14, <1>15, <1>16, <1>17, <1>18, <1>19, <1>20, <1>21, <1>22, <1>23, <1>24, <1>25, <1>26, <1>27, <1>28, <1>29, <1>30, <1>31, <1>32, <1>33, <1>34, <1>35, Zenon
        DEF Next, CommunicationThread, GameThread, GameStep

LEMMA OutputNotedStep ==
    ASSUME RingInv, InputInv, Placed, OutputNoted, [Next]_vars
    PROVE  OutputNoted'
<1> USE DEF RingInv, CountersTyped, InputInv, GivenUp, Placed, OutputNoted,
           Setup, Live, Return, Close, Disconnect, Wait, Game, Reading, Arrival,
           Async, input, shared, ring, writer, output
<1>1. CASE SetUpSocket
  BY <1>1, SMT DEF SetUpSocket
<1>2. CASE ReadPacket
  BY <1>2, SMT DEF ReadPacket
<1>3. CASE RejectPacket
  BY <1>3, SMT DEF RejectPacket
<1>4. CASE ReadNothing
  <2>1. CASE fin
    BY <1>4, <2>1, SMT DEF ReadNothing
  <2>2. CASE ~fin
    BY <1>4, <2>2, SMT DEF ReadNothing
  <2> QED BY <2>1, <2>2
<1>5. CASE RaiseFlag
  BY <1>5, SMT DEF RaiseFlag
<1>6. CASE SignalGame
  BY <1>6, SMT DEF SignalGame
<1>7. CASE StopReading
  BY <1>7, SMT DEF StopReading
<1>8. CASE NotePending
  BY <1>8, SMT DEF NotePending
<1>9. CASE EnterLoop
  BY <1>9, SMT DEF EnterLoop
<1>10. CASE LookBeforeSleep
  BY <1>10, SMT DEF LookBeforeSleep
<1>11. CASE TakeHup
  BY <1>11, SMT DEF TakeHup
<1>12. CASE TakeAlarm
  <2>1. CASE state = "CONNECTED"
    BY <1>12, <2>1, SMT DEF TakeAlarm
  <2>2. CASE state # "CONNECTED"
    BY <1>12, <2>2, SMT DEF TakeAlarm
  <2> QED BY <2>1, <2>2
<1>13. CASE TakeReady
  BY <1>13, SMT DEF TakeReady
<1>14. CASE TakeAcknowledgement
  BY <1>14, SMT DEF TakeAcknowledgement
<1>15. CASE TakeSend
  BY <1>15, SMT DEF TakeSend
<1>16. CASE WritePacket
  BY <1>16, SMT DEF WritePacket
<1>17. CASE WriteFails
  BY <1>17, SMT DEF WriteFails
<1>18. CASE Leave
  BY <1>18, SMT DEF Leave
<1>19. CASE ClientSends
  BY <1>19, SMT DEF ClientSends
<1>20. CASE ClientCloses
  BY <1>20, SMT DEF ClientCloses
<1>21. CASE LoginTimerFires
  BY <1>21, SMT DEF LoginTimerFires
<1>22. CASE TakeGameSignal
  BY <1>22, SMT DEF TakeGameSignal
<1>23. CASE PassBy
  BY <1>23, SMT DEF PassBy
<1>24. CASE ParseCommand
  BY <1>24, SMT DEF ParseCommand
<1>25. CASE Join
  BY <1>25, SMT DEF Join
<1>26. CASE RefuseJoin
  BY <1>26, SMT DEF RefuseJoin
<1>27. CASE LowerFlag
  BY <1>27, SMT DEF LowerFlag
<1>28. CASE Acknowledge
  BY <1>28, SMT DEF Acknowledge
<1>29. CASE BeginAnswer
  BY <1>29, SMT DEF BeginAnswer
<1>30. CASE WriteField
  BY <1>30, SMT DEF WriteField
<1>31. CASE FinishAnswer
  BY <1>31, SMT DEF FinishAnswer
<1>32. CASE SendAll
  BY <1>32, SMT DEF SendAll
<1>33. CASE LogOut
  BY <1>33, SMT DEF LogOut
<1>34. CASE LetGo
  BY <1>34, SMT DEF LetGo
<1>35. CASE UNCHANGED vars
  BY <1>35, SMT DEF vars
<1> QED BY <1>1, <1>2, <1>3, <1>4, <1>5, <1>6, <1>7, <1>8, <1>9, <1>10, <1>11, <1>12, <1>13, <1>14, <1>15, <1>16, <1>17, <1>18, <1>19, <1>20, <1>21, <1>22, <1>23, <1>24, <1>25, <1>26, <1>27, <1>28, <1>29, <1>30, <1>31, <1>32, <1>33, <1>34, <1>35, Zenon
        DEF Next, CommunicationThread, GameThread, GameStep

WakeInv == RingInv /\ InputInv /\ Placed /\ OutputNoted

LEMMA WakeInitial == Init => WakeInv /\ InputNoted
<1> SUFFICES ASSUME Init PROVE WakeInv /\ InputNoted
  OBVIOUS
<1>1. RingInv /\ InputInv
  BY RingInitial, InputInitial
<1>2. Placed /\ OutputNoted
  BY SMT DEF Init, Placed, OutputNoted, Setup, Live
<1>3. InputNoted
  BY SMT DEF Init, InputNoted, Early, Unseen
<1> QED BY <1>1, <1>2, <1>3 DEF WakeInv

LEMMA WakeStep == WakeInv /\ [Next]_vars => WakeInv'
  BY RingStep, InputStep, PlacedStep, OutputNotedStep DEF WakeInv

(* Whatever the interleaving: committed answers never lie in the ring while  *)
(* the communication thread sleeps, with no signal on the way.  A SIGUSR2    *)
(* that is pending already takes the place of the one that is not queued,    *)
(* and the packet being written leaves the rest to a later one               *)
(* (sending.cc, communication.cc).                                           *)
THEOREM AnswersAreNotForgotten == Spec => []NoForgottenOutput
<1>1. WakeInv => NoForgottenOutput
  BY SMT DEF WakeInv, RingInv, CountersTyped, OutputNoted, NoForgottenOutput, Asleep
<1> QED BY <1>1, WakeInitial, WakeStep, PTL DEF Spec

(* And neither does the client's input, of a client that sends its login     *)
(* and waits: what arrives while the flag is up is noted before the          *)
(* acknowledgement that makes the thread read it can be taken.  A client     *)
(* that sends more before O_ASYNC is set is not woken for: EnterLoop clears  *)
(* SigIOPending (communication.cc).                                          *)
THEOREM NothingIsForgotten ==
    ASSUME ~EarlyPackets
    PROVE  Spec => []NothingForgotten
<1>1. WakeInv /\ InputNoted /\ [Next]_vars => InputNoted'
  BY InputNotedStep DEF WakeInv
<1>2. WakeInv /\ InputNoted => NothingForgotten
  <2>1. WakeInv => NoForgottenOutput
    BY SMT DEF WakeInv, RingInv, CountersTyped, OutputNoted, NoForgottenOutput, Asleep
  <2>2. InputNoted => NoForgottenInput
    BY DEF InputNoted, NoForgottenInput, Asleep, Unseen, Noted, Answering
  <2> QED BY <2>1, <2>2 DEF NothingForgotten
<1> QED BY <1>1, <1>2, WakeInitial, WakeStep, PTL DEF Spec

-----------------------------------------------------------------------------
(* The size of an answer, added up field by field.                          *)

\* The sums of the first fields.
Sums(u, fields) ==
    /\ u \in [0..Len(fields) -> Nat] /\ u[0] = 0
    /\ \A i \in 1..Len(fields) : u[i] = u[i - 1] + fields[i]

LEMMA SizeIs ==
    ASSUME NEW fields \in Seq(1..Capacity)
    PROVE  \E u : Sums(u, fields) /\ Size(fields) = u[Len(fields)]
<1> DEFINE n == Len(fields)
           g == [i \in 1..n |-> [x \in Nat |-> x + fields[i]]]
           upTo[i \in 0..n] == IF i = 0 THEN 0 ELSE upTo[i - 1] + fields[i]
<1>1. n \in Nat /\ \A i \in 1..n : fields[i] \in Nat /\ i - 1 \in 0..n
  BY CapacityAssumption
<1> HIDE DEF n, upTo
<1>2. g \in [1..n -> [Nat -> Nat]]
  BY <1>1
<1>3. PICK f \in [0..n -> Nat] : Folds(f, n, 0, g)
  <2> HIDE DEF g
  <2>1. 0 \in Nat
    OBVIOUS
  <2> QED BY <1>1, <1>2, <2>1, FoldExists
<1>4. f = [i \in 0..n |-> IF i = 0 THEN 0 ELSE f[i - 1] + fields[i]]
  <2>1. \A i \in 1..n : g[i][f[i - 1]] = f[i - 1] + fields[i]
    BY <1>1, <1>3
  <2>2. f = [i \in 0..n |-> IF i = 0 THEN 0 ELSE g[i][f[i - 1]]]
    BY <1>3 DEF Folds
  <2>3. \A i \in 0..n : i # 0 => i \in 1..n
    BY <1>1
  <2> HIDE DEF g
  <2> QED BY <2>1, <2>2, <2>3
<1>5. upTo = [i \in 0..n |-> IF i = 0 THEN 0 ELSE upTo[i - 1] + fields[i]]
  BY <1>4 DEF upTo
<1>6. upTo[0] = 0 /\ \A i \in 1..n : upTo[i] = upTo[i - 1] + fields[i]
  BY <1>1, <1>5
<1>7. \A i \in 0..n : upTo[i] \in Nat
  <2> DEFINE P == {i \in 0..n : upTo[i] \in Nat}
  <2>1. 0 \in P
    BY <1>1, <1>6
  <2>2. ASSUME NEW i \in 1..n, i - 1 \in P PROVE i \in P
    <3>1. upTo[i - 1] \in Nat
      BY <2>2
    <3>2. fields[i] \in Nat /\ upTo[i] = upTo[i - 1] + fields[i] /\ i \in 0..n
      BY <1>1, <1>6
    <3> QED BY <3>1, <3>2
  <2> HIDE DEF P
  <2>3. 0..n \subseteq P
    BY <1>1, <2>1, <2>2, UpTo DEF Climbs
  <2> QED BY <2>3 DEF P
<1>8. upTo \in [0..n -> Nat]
  BY <1>5, <1>7
<1>9. Size(fields) = upTo[n]
  BY DEF Size, upTo, n
<1> QED BY <1>6, <1>8, <1>9 DEF Sums, n

LEMMA SizeFacts ==
    ASSUME NEW fields \in Seq(1..Capacity)
    PROVE  /\ Size(fields) \in Nat
           /\ fields = <<>> => Size(fields) = 0
           /\ fields # <<>> => Size(fields) = Head(fields) + Size(Tail(fields))
<1>1. PICK u : Sums(u, fields) /\ Size(fields) = u[Len(fields)]
  BY SizeIs
<1>2. Size(fields) \in Nat /\ (fields = <<>> => Size(fields) = 0)
  BY <1>1 DEF Sums
<1>3. ASSUME fields # <<>> PROVE Size(fields) = Head(fields) + Size(Tail(fields))
  <2> DEFINE rest == Tail(fields)
             n == Len(rest)
  <2>1. /\ rest \in Seq(1..Capacity) /\ n \in Nat /\ Len(fields) = n + 1
        /\ Head(fields) = fields[1] /\ fields[1] \in Nat
        /\ \A i \in 1..n : rest[i] = fields[i + 1] /\ rest[i] \in Nat
    BY <1>3, CapacityAssumption
  <2>2. PICK v : Sums(v, rest) /\ Size(rest) = v[n]
    BY <2>1, SizeIs
  <2> HIDE DEF rest, n
  <2> DEFINE P == {i \in 0..n : u[i + 1] = fields[1] + v[i]}
  <2>3. v[0] = 0 /\ \A i \in 1..n : v[i] = v[i - 1] + rest[i] /\ v[i - 1] \in Nat
    <3>1. /\ v \in [0..n -> Nat] /\ v[0] = 0
          /\ \A i \in 1..n : v[i] = v[i - 1] + rest[i]
      BY <2>2 DEF Sums, n
    <3>2. \A i \in 1..n : i - 1 \in 0..n
      BY <2>1
    <3> QED BY <3>1, <3>2
  <2>4. u[0] = 0 /\ \A i \in 1..(n + 1) : u[i] = u[i - 1] + fields[i]
    BY <1>1, <2>1 DEF Sums
  <2>5. 0 \in P
    BY <2>1, <2>3, <2>4
  <2>6. ASSUME NEW i \in 1..n, i - 1 \in P PROVE i \in P
    <3>1. u[i] = fields[1] + v[i - 1]
      BY <2>6
    <3>2. u[i + 1] = u[i] + fields[i + 1]
      BY <2>1, <2>4
    <3> QED BY <2>1, <2>3, <3>1, <3>2
  <2>7. 0..n \subseteq P
    <3> HIDE DEF P
    <3> QED BY <2>1, <2>5, <2>6, UpTo DEF Climbs
  <2>8. u[n + 1] = fields[1] + v[n]
    BY <2>1, <2>7
  <2> QED BY <1>1, <2>1, <2>2, <2>8 DEF rest
<1> QED BY <1>2, <1>3

-----------------------------------------------------------------------------
(* Whole answers, one after another.                                        *)

\* The fields that are left complete the answer.
Sized == answer.at + Size(answer.left) = answer.size

\* What has been written of an answer that fits is its first bytes.
Written ==
    answer # Idle /\ ~overflow
        => /\ nextToWrite = nextToCommit + answer.at
           /\ \A i \in 1..answer.at :
                 outData[(nextToCommit + i - 1) % Capacity] = <<answer.id, i, answer.size>>
\* A sequence of bytes is whole answers.
Whole(q) ==
    \A i \in 1..Len(q) :
        /\ q[i][2] = 1 => i = 1 \/ q[i - 1][2] = q[i - 1][3]
        /\ q[i][2] # 1 => i > 1 /\ q[i - 1] = <<q[i][1], q[i][2] - 1, q[i][3]>>
        /\ i = Len(q) => q[i][2] = q[i][3]

\* The bytes of one answer.
OneAnswer(t, id, size) == /\ t \in Seq(Cell) /\ Len(t) = size
                          /\ \A i \in 1..size : t[i] = <<id, i, size>>

LEMMA WholeGrows ==
    ASSUME NEW q \in Seq(Cell), Whole(q), NEW id, NEW k \in Nat, NEW t, OneAnswer(t, id, k)
    PROVE  Whole(q \o t)
<1> DEFINE r == q \o t
           n == Len(q)
<1>1. /\ n \in Nat /\ Len(r) = n + k
      /\ \A i \in 1..n : r[i] = q[i]
      /\ \A i \in 1..k : r[n + i] = <<id, i, k>>
  <2>1. /\ Len(r) = Len(q) + Len(t)
        /\ \A i \in 1..(Len(q) + Len(t)) :
              r[i] = IF i <= Len(q) THEN q[i] ELSE t[i - Len(q)]
    BY ConcatProperties DEF OneAnswer
  <2>2. Len(q) \in Nat /\ Len(t) = k /\ \A i \in 1..k : t[i] = <<id, i, k>>
    BY DEF OneAnswer
  <2>3. \A i \in 1..k : n + i \in 1..(Len(q) + Len(t)) /\ ~ (n + i <= Len(q))
                        /\ (n + i) - Len(q) = i
    BY <2>2
  <2>4. \A i \in 1..n : i \in 1..(Len(q) + Len(t)) /\ i <= Len(q)
    BY <2>2
  <2> QED BY <2>1, <2>2, <2>3, <2>4
<1> HIDE DEF r
<1>2. ASSUME NEW i \in 1..n
      PROVE  /\ r[i][2] = 1 => i = 1 \/ r[i - 1][2] = r[i - 1][3]
             /\ r[i][2] # 1 => i > 1 /\ r[i - 1] = <<r[i][1], r[i][2] - 1, r[i][3]>>
             /\ i = n => r[i][2] = r[i][3]
  <2>1. i = 1 \/ i - 1 \in 1..n
    BY <1>1
  <2> QED BY <1>1, <2>1 DEF Whole
<1>3. ASSUME NEW j \in 1..k
      PROVE  /\ r[n + j][2] = 1 => n + j = 1 \/ r[n + j - 1][2] = r[n + j - 1][3]
             /\ r[n + j][2] # 1 =>
                  /\ n + j > 1
                  /\ r[n + j - 1] = <<r[n + j][1], r[n + j][2] - 1, r[n + j][3]>>
             /\ n + j = n + k => r[n + j][2] = r[n + j][3]
  <2>1. r[n + j][1] = id /\ r[n + j][2] = j /\ r[n + j][3] = k
    BY <1>1
  <2>2. CASE j = 1
    <3>1. n + j - 1 = n /\ (n + j = 1 \/ n \in 1..n)
      BY <1>1, <2>2
    <3>2. n + j = n + k => j = k
      BY <1>1
    <3> QED BY <1>2, <2>1, <2>2, <3>1, <3>2
  <2>3. CASE j # 1
    <3>1. j - 1 \in 1..k /\ n + (j - 1) = n + j - 1 /\ n + j > 1
      BY <1>1, <2>3
    <3>2. r[n + j - 1] = <<id, j - 1, k>>
      BY <1>1, <3>1
    <3>3. n + j = n + k => j = k
      BY <1>1
    <3> QED BY <2>1, <2>3, <3>1, <3>2, <3>3
  <2> QED BY <2>2, <2>3
<1>4. ASSUME NEW i \in 1..Len(r)
      PROVE  /\ r[i][2] = 1 => i = 1 \/ r[i - 1][2] = r[i - 1][3]
             /\ r[i][2] # 1 => i > 1 /\ r[i - 1] = <<r[i][1], r[i][2] - 1, r[i][3]>>
             /\ i = Len(r) => r[i][2] = r[i][3]
  <2>1. CASE i \in 1..n
    <3>1. i = Len(r) => i = n
      BY <1>1, <2>1
    <3> QED BY <1>2, <2>1, <3>1
  <2>2. CASE i \notin 1..n
    <3> DEFINE j == i - n
    <3>1. j \in 1..k /\ i = n + j /\ Len(r) = n + k
      BY <1>1, <2>2
    <3> HIDE DEF j
    <3>2. /\ r[n + j][2] = 1 => n + j = 1 \/ r[n + j - 1][2] = r[n + j - 1][3]
          /\ r[n + j][2] # 1 =>
                /\ n + j > 1
                /\ r[n + j - 1] = <<r[n + j][1], r[n + j][2] - 1, r[n + j][3]>>
          /\ n + j = n + k => r[n + j][2] = r[n + j][3]
      BY <1>3, <3>1
    <3>3. r[i] = r[n + j] /\ r[i - 1] = r[n + j - 1]
      BY <3>1
    <3>4. /\ n + j = 1 => i = 1
          /\ n + j > 1 => i > 1
          /\ i = Len(r) => n + j = n + k
      BY <3>1
    <3> QED BY <3>2, <3>3, <3>4
  <2> QED BY <2>1, <2>2
<1> QED BY <1>4 DEF Whole, r

LEMMA PieceJoins ==
    ASSUME NEW r \in Ring, NEW from \in Nat, NEW mid \in Nat, NEW to \in Nat,
           from <= mid, mid <= to
    PROVE  Piece(r, from, mid) \o Piece(r, mid, to) = Piece(r, from, to)
<1> DEFINE a == Piece(r, from, mid)
           b == Piece(r, mid, to)
           c == Piece(r, from, to)
<1>1. /\ a \in Seq(Cell) /\ Len(a) = mid - from
      /\ \A i \in 1..(mid - from) : a[i] = r[(from + i - 1) % Capacity]
  BY PieceFacts
<1>2. /\ b \in Seq(Cell) /\ Len(b) = to - mid
      /\ \A i \in 1..(to - mid) : b[i] = r[(mid + i - 1) % Capacity]
  BY PieceFacts
<1>3. /\ c \in Seq(Cell) /\ Len(c) = to - from
      /\ \A i \in 1..(to - from) : c[i] = r[(from + i - 1) % Capacity]
  <2>1. from <= to
    OBVIOUS
  <2> QED BY <2>1, PieceFacts
<1> HIDE DEF a, b, c
<1>4. /\ a \o b \in Seq(Cell) /\ Len(a \o b) = Len(a) + Len(b)
      /\ \A i \in 1..(Len(a) + Len(b)) :
            (a \o b)[i] = IF i <= Len(a) THEN a[i] ELSE b[i - Len(a)]
  BY <1>1, <1>2, ConcatProperties
<1>5. Len(a \o b) = to - from
  BY <1>1, <1>2, <1>4
<1>6. ASSUME NEW i \in 1..(to - from) PROVE (a \o b)[i] = c[i]
  <2>1. CASE i <= Len(a)
    <3>1. i \in 1..(mid - from) /\ i \in 1..(Len(a) + Len(b))
      BY <1>1, <1>2, <2>1
    <3> QED BY <1>1, <1>3, <1>4, <2>1, <3>1
  <2>2. CASE ~ (i <= Len(a))
    <3>1. /\ i - Len(a) \in 1..(to - mid) /\ i \in 1..(Len(a) + Len(b))
          /\ mid + (i - Len(a)) - 1 = from + i - 1
      BY <1>1, <1>2, <2>2
    <3>2. (a \o b)[i] = b[i - Len(a)]
      BY <1>4, <2>2, <3>1
    <3>3. b[i - Len(a)] = r[(from + i - 1) % Capacity]
      BY <1>2, <3>1
    <3> QED BY <1>3, <3>2, <3>3
  <2> QED BY <2>1, <2>2
<1>7. \A i \in 1..Len(a \o b) : (a \o b)[i] = c[i]
  BY <1>5, <1>6
<1>8. Len(a \o b) = Len(c)
  BY <1>3, <1>5
<1>9. a \o b = c
  BY <1>3, <1>4, <1>7, <1>8, SeqEqual
<1> QED BY <1>9 DEF a, b, c

-----------------------------------------------------------------------------
\* The invariant: what is out or committed is whole answers, and what is
\* being written is the beginning of one.
TornInv == /\ OutputInv /\ Sized /\ Written
           /\ Whole(received \o Piece(outData, nextToSend, nextToCommit))

LEMMA TornInitial == Init => TornInv
<1> SUFFICES ASSUME Init PROVE TornInv
  OBVIOUS
<1>1. OutputInv
  BY OutputInitial
<1>2. answer = Idle /\ received = <<>> /\ nextToSend = 0 /\ nextToCommit = 0
  BY DEF Init
<1>3. Sized
  <2>1. <<>> \in Seq(1..Capacity)
    BY EmptySeq
  <2>2. Size(<<>>) = 0
    BY <2>1, SizeFacts
  <2> QED BY <1>2, <2>2 DEF Sized, Idle
<1>4. Written
  BY <1>2 DEF Written
<1>5. received \o Piece(outData, nextToSend, nextToCommit) = <<>>
  <2>1. Piece(outData, 0, 0) = <<>>
    BY EmptyPiece
  <2>2. <<>> \o <<>> = <<>>
    BY SMT
  <2> QED BY <1>2, <2>1, <2>2
<1>6. Whole(<<>>)
  BY DEF Whole
<1> QED BY <1>1, <1>3, <1>4, <1>5, <1>6 DEF TornInv

\* The answer being written and the fields it has left.
LEMMA AnswerIs ==
    ASSUME OutputInv
    PROVE  \E id, size, at \in Nat : \E fields \in Seq(1..Capacity) :
              /\ answer = [id |-> id, size |-> size, left |-> fields, at |-> at]
              /\ answer.id = id /\ answer.size = size /\ answer.left = fields /\ answer.at = at
<1>1. PICK id, size, at : \E fields \in Seq(1..Capacity) :
            answer = [id |-> id, size |-> size, left |-> fields, at |-> at]
  BY DEF OutputInv, RingInv, AnswerTyped
<1>2. PICK fields \in Seq(1..Capacity) :
            answer = [id |-> id, size |-> size, left |-> fields, at |-> at]
  BY <1>1
<1>3. answer.id = id /\ answer.size = size /\ answer.left = fields /\ answer.at = at
  BY <1>2
<1>4. id \in Nat /\ at \in Nat /\ size \in {0} \cup {Size(f) : f \in Answers}
  BY <1>3 DEF OutputInv, AnswerCells
<1>5. size \in Nat
  <2>1. \A f \in Answers : Size(f) \in Nat
    BY AnswersAssumption, SizeFacts
  <2> QED BY <1>4, <2>1
<1> QED BY <1>2, <1>3, <1>4, <1>5

\* A field that fits is written behind the fields before it.
LEMMA WriteFieldAdds ==
    ASSUME TornInv, WriteField
    PROVE  Sized' /\ Written'
<1>1. PICK id, size, at \in Nat : \E fields \in Seq(1..Capacity) :
            /\ answer = [id |-> id, size |-> size, left |-> fields, at |-> at]
            /\ answer.id = id /\ answer.size = size /\ answer.left = fields /\ answer.at = at
  BY AnswerIs DEF TornInv
<1>2. PICK fields \in Seq(1..Capacity) :
            /\ answer = [id |-> id, size |-> size, left |-> fields, at |-> at]
            /\ answer.id = id /\ answer.size = size /\ answer.left = fields /\ answer.at = at
  BY <1>1
<1> DEFINE length == Head(fields)
           Slot(i) == (nextToWrite + i - 1) % Capacity
           written == [slot \in 0..(Capacity - 1) |->
                        IF \E i \in 1..length : Slot(i) = slot
                        THEN LET i == CHOOSE i \in 1..length : Slot(i) = slot
                             IN  <<id, at + i, size>>
                        ELSE outData[slot]]
<1>3. fields # <<>> /\ answer # Idle
  BY <1>2 DEF WriteField, Idle
<1>4. length \in 1..Capacity /\ Capacity \in Nat /\ Tail(fields) \in Seq(1..Capacity)
  BY <1>3, CapacityAssumption
<1>5. /\ answer' = [answer EXCEPT !.left = Tail(@), !.at = @ + length]
      /\ nextToCommit' = nextToCommit
      /\ overflow' = (overflow \/ ~Room(length))
      /\ Room(length) => nextToWrite' = nextToWrite + length /\ outData' = written
  BY <1>2 DEF WriteField
<1> HIDE DEF length, written
<1>6. answer' = [id |-> id, size |-> size, left |-> Tail(fields), at |-> at + length]
  BY <1>2, <1>5
<1>7. answer'.id = id /\ answer'.size = size /\ answer'.left = Tail(fields)
      /\ answer'.at = at + length
  BY <1>6
<1>8. Sized'
  <2>1. at + Size(fields) = size
    BY <1>2 DEF TornInv, Sized
  <2>2. Size(fields) = length + Size(Tail(fields)) /\ Size(Tail(fields)) \in Nat
    BY <1>3, <1>4, SizeFacts DEF length
  <2>3. (at + length) + Size(Tail(fields)) = size
    BY <1>4, <2>1, <2>2
  <2> QED BY <1>7, <2>3 DEF Sized
<1>9. ASSUME ~overflow'
      PROVE  /\ nextToWrite' = nextToCommit + (at + length)
             /\ \A i \in 1..(at + length) :
                   outData'[(nextToCommit + i - 1) % Capacity] = <<id, i, size>>
  <2>1. ~overflow /\ Room(length)
    BY <1>5, <1>9
  <2>2. /\ nextToWrite = nextToCommit + at
        /\ \A i \in 1..at : outData[(nextToCommit + i - 1) % Capacity] = <<id, i, size>>
    BY <1>2, <1>3, <2>1 DEF TornInv, Written
  <2>3. nextToWrite' = nextToWrite + length /\ outData' = written
    BY <1>5, <2>1
  <2>4. /\ nextToSend \in Nat /\ nextToCommit \in Nat /\ nextToWrite \in Nat
        /\ nextToSend <= nextToCommit
        /\ nextToWrite - nextToSend + length <= Capacity
    BY <2>1, BytesCounted DEF TornInv, OutputInv, RingInv, CountersTyped, Room
  <2>5. ASSUME NEW i \in 1..at
        PROVE  written[(nextToCommit + i - 1) % Capacity] = <<id, i, size>>
    <3> DEFINE n == nextToCommit + i - 1
    <3>1. n \in Nat /\ n % Capacity \in 0..(Capacity - 1)
      <4>1. n \in Nat
        BY <2>4
      <4> HIDE DEF n
      <4> QED BY <4>1, SlotInRing
    <3>2. ASSUME NEW j \in 1..length PROVE Slot(j) # n % Capacity
      <4> DEFINE m == nextToWrite + j - 1
      <4>1. m \in Nat /\ n < m /\ m - n < Capacity
        BY <1>4, <2>2, <2>4
      <4>2. Slot(j) = m % Capacity
        OBVIOUS
      <4> HIDE DEF m, n, Slot
      <4>3. n % Capacity # m % Capacity
        BY <3>1, <4>1, SlotsDiffer
      <4> QED BY <4>2, <4>3
    <3>3. outData[n % Capacity] = <<id, i, size>>
      BY <2>2
    <3> HIDE DEF n
    <3>4. written[n % Capacity] = outData[n % Capacity]
      BY <3>1, <3>2 DEF written
    <3> QED BY <3>3, <3>4 DEF n
  <2>6. ASSUME NEW j \in 1..length
        PROVE  written[Slot(j)] = <<id, at + j, size>>
    <3>1. ASSUME NEW k \in 1..length, Slot(k) = Slot(j) PROVE k = j
      <4> DEFINE m == nextToWrite + j - 1
                 n == nextToWrite + k - 1
      <4>1. m \in Nat /\ n \in Nat /\ m - n < Capacity /\ n - m < Capacity
            /\ (n < m \/ m < n \/ k = j)
        BY <1>4, <2>4
      <4>2. Slot(j) = m % Capacity /\ Slot(k) = n % Capacity
        OBVIOUS
      <4> HIDE DEF m, n, Slot
      <4>3. n < m => n % Capacity # m % Capacity
        BY <4>1, SlotsDiffer
      <4>4. m < n => m % Capacity # n % Capacity
        BY <4>1, SlotsDiffer
      <4> QED BY <3>1, <4>1, <4>2, <4>3, <4>4
    <3>2. Slot(j) \in 0..(Capacity - 1)
      <4>1. nextToWrite + j - 1 \in Nat
        BY <1>4, <2>4
      <4> QED BY <4>1, SlotInRing
    <3> HIDE DEF Slot
    <3>3. (CHOOSE i \in 1..length : Slot(i) = Slot(j)) = j
      BY <3>1
    <3>4. written[Slot(j)] = IF \E i \in 1..length : Slot(i) = Slot(j)
                             THEN <<id, at + (CHOOSE i \in 1..length : Slot(i) = Slot(j)), size>>
                             ELSE outData[Slot(j)]
      BY <3>2 DEF written
    <3> QED BY <3>3, <3>4
  <2>7. ASSUME NEW i \in 1..(at + length)
        PROVE  written[(nextToCommit + i - 1) % Capacity] = <<id, i, size>>
    <3>1. CASE i \in 1..at
      BY <2>5, <3>1
    <3>2. CASE i \notin 1..at
      <4> DEFINE j == i - at
      <4>1. j \in 1..length /\ at + j = i /\ nextToWrite + j - 1 = nextToCommit + i - 1
        BY <1>4, <2>2, <2>4, <3>2
      <4> HIDE DEF j
      <4>2. Slot(j) = (nextToCommit + i - 1) % Capacity
        BY <4>1
      <4> HIDE DEF Slot
      <4> QED BY <2>6, <4>1, <4>2
    <3> QED BY <3>1, <3>2
  <2>8. nextToWrite' = nextToCommit + (at + length)
    BY <1>4, <2>2, <2>3, <2>4
  <2> QED BY <2>3, <2>7, <2>8
<1>10. Written'
  BY <1>5, <1>7, <1>9 DEF Written
<1> QED BY <1>8, <1>10

\* A step that leaves the answer and its counters alone.
WriterVars == <<outData, nextToCommit, nextToWrite, overflow, answer>>

LEMMA WriterVarsKept ==
    \/ ClientSends \/ ClientCloses \/ LoginTimerFires
    \/ SetUpSocket \/ RejectPacket \/ ReadNothing \/ RaiseFlag
    \/ SignalGame \/ StopReading \/ NotePending \/ EnterLoop
    \/ LookBeforeSleep \/ TakeHup \/ TakeAlarm \/ TakeReady \/ TakeAcknowledgement
    \/ TakeSend \/ WritePacket \/ WriteFails \/ Leave \/ TakeGameSignal \/ SendAll
    \/ LogOut \/ LetGo
    \/ PassBy \/ ParseCommand \/ Join \/ RefuseJoin \/ LowerFlag \/ Acknowledge
    \/ UNCHANGED vars
    => UNCHANGED WriterVars
  BY Zenon DEF ClientSends, ClientCloses, LoginTimerFires, SetUpSocket, RejectPacket,
        ReadNothing, RaiseFlag, SignalGame, StopReading, NotePending, EnterLoop,
        LookBeforeSleep, TakeHup, TakeAlarm, TakeReady, TakeAcknowledgement, TakeSend,
        WritePacket, WriteFails, Leave, TakeGameSignal, SendAll, LogOut, LetGo, PassBy,
        ParseCommand, Join, RefuseJoin, LowerFlag, Acknowledge, vars, WriterVars, ring, writer

LEMMA WrittenStep == ASSUME TornInv, [Next]_vars PROVE Sized' /\ Written'
<1>1. CASE WriteField
  BY <1>1, WriteFieldAdds
<1>2. CASE UNCHANGED WriterVars
  BY <1>2 DEF TornInv, Sized, Written, WriterVars, Idle
<1>3. CASE ReadPacket
  <2>1. CASE state = "CONNECTED"
    <3>1. answer' = Idle /\ answer = Idle
      BY <1>3, <2>1 DEF ReadPacket, writer, TornInv, OutputInv, RingInv, AnswerInGame
    <3> QED BY <3>1 DEF TornInv, Sized, Written, Idle
  <2>2. CASE state # "CONNECTED"
    BY <1>2, <1>3, <2>2 DEF ReadPacket, writer, WriterVars
  <2> QED BY <2>1, <2>2
<1>4. CASE BeginAnswer
  <2>1. PICK fields \in Answers :
           answer' = [id |-> answers + 1, size |-> Size(fields), left |-> fields, at |-> 0]
    BY <1>4 DEF BeginAnswer
  <2>2. answer'.at = 0 /\ answer'.left = fields /\ answer'.size = Size(fields)
    BY <2>1
  <2>3. Size(fields) \in Nat
    BY AnswersAssumption, SizeFacts
  <2>4. Sized'
    BY <2>2, <2>3 DEF Sized
  <2>5. nextToWrite' = nextToCommit' /\ nextToCommit' \in Nat
    BY <1>4 DEF BeginAnswer, TornInv, OutputInv, RingInv, CountersTyped
  <2>6. nextToWrite' = nextToCommit' + answer'.at /\ \A i \in 1..answer'.at : FALSE
    <3>1. \A i \in 1..0 : FALSE
      OBVIOUS
    <3>2. \A n \in Nat : n + 0 = n
      OBVIOUS
    <3> QED BY <2>2, <2>5, <3>1, <3>2, Zenon
  <2>7. Written'
    BY <2>6 DEF Written
  <2> QED BY <2>4, <2>7
<1>5. CASE FinishAnswer
  <2>1. answer' = Idle
    BY <1>5 DEF FinishAnswer
  <2>2. Size(<<>>) = 0
    <3>1. <<>> \in Seq(1..Capacity)
      BY EmptySeq
    <3> QED BY <3>1, SizeFacts
  <2>3. answer'.at = 0 /\ answer'.left = <<>> /\ answer'.size = 0
    BY <2>1 DEF Idle
  <2>4. Sized'
    BY <2>2, <2>3 DEF Sized
  <2> QED BY <2>1, <2>4 DEF Written, Idle
<1> QED BY <1>1, <1>2, <1>3, <1>4, <1>5, WriterVarsKept, Zenon
        DEF Next, CommunicationThread, GameThread, GameStep

\* What is out and what is committed, one after the other.
OnItsWay == received \o Piece(outData, nextToSend, nextToCommit)

LEMMA OnItsWayStep ==
    ASSUME TornInv, [Next]_vars
    PROVE  \/ OnItsWay' = OnItsWay
           \/ FinishAnswer /\ ~overflow
<1> USE DEF TornInv
<1>0. received \in Seq(Cell) /\ outData \in Ring
  BY DEF OutputInv
<1>1. CASE WritePacket
  <2> DEFINE mid == nextToSend + amount
  <2>1. /\ received' = received \o Piece(outData, nextToSend, mid)
        /\ nextToSend' = mid /\ UNCHANGED <<outData, nextToCommit>>
    BY <1>1 DEF WritePacket, Bytes, Piece
  <2>2. /\ mid \in Nat /\ nextToSend <= mid /\ mid <= nextToCommit
        /\ nextToSend \in Nat /\ nextToCommit \in Nat
    BY BytesCounted
  <2> HIDE DEF mid
  <2>3. /\ Piece(outData, nextToSend, mid) \in Seq(Cell)
        /\ Piece(outData, mid, nextToCommit) \in Seq(Cell)
    BY <1>0, <2>2, PieceFacts
  <2>4. (received \o Piece(outData, nextToSend, mid)) \o Piece(outData, mid, nextToCommit)
           = received \o (Piece(outData, nextToSend, mid) \o Piece(outData, mid, nextToCommit))
    BY <1>0, <2>3, ConcatAssociative
  <2>5. Piece(outData, nextToSend, mid) \o Piece(outData, mid, nextToCommit)
           = Piece(outData, nextToSend, nextToCommit)
    BY <1>0, <2>2, PieceJoins
  <2> QED BY <2>1, <2>4, <2>5 DEF OnItsWay
<1>2. CASE FinishAnswer /\ overflow
  BY <1>2 DEF FinishAnswer, OnItsWay, output
<1>3. CASE WriteField
  <2>1. UNCHANGED <<received, nextToSend, nextToCommit>>
    BY <1>3 DEF WriteField, output
  <2>2. Piece(outData', nextToSend, nextToCommit) = Piece(outData, nextToSend, nextToCommit)
    BY <1>3, WriteFieldKeeps
  <2> QED BY <2>1, <2>2 DEF OnItsWay
<1>4. CASE ReadPacket
  <2>1. /\ UNCHANGED <<outData, received>>
        /\ \/ UNCHANGED <<nextToSend, nextToCommit>>
           \/ nextToSend' = 0 /\ nextToCommit' = 0 /\ nextToCommit = nextToSend
    BY <1>4, LoginFindsNothing
  <2>2. nextToSend \in Nat
    BY BytesCounted
  <2> QED BY <2>1, <2>2, EmptyPiece DEF OnItsWay
<1>5. CASE BeginAnswer
  BY <1>5 DEF BeginAnswer, OnItsWay, output
<1>6. CASE UNCHANGED RingVars
  BY <1>6 DEF RingVars, OnItsWay
<1> QED BY <1>1, <1>2, <1>3, <1>4, <1>5, <1>6, RingVarsKept, Zenon
        DEF Next, CommunicationThread, GameThread, GameStep

\* An answer that fits is committed whole.
LEMMA CommitIsOneAnswer ==
    ASSUME TornInv, FinishAnswer, ~overflow
    PROVE  \E t, id : \E size \in Nat : OneAnswer(t, id, size) /\ OnItsWay' = OnItsWay \o t
<1> USE DEF TornInv
<1>1. PICK id, size, at \in Nat : \E fields \in Seq(1..Capacity) :
            /\ answer = [id |-> id, size |-> size, left |-> fields, at |-> at]
            /\ answer.id = id /\ answer.size = size /\ answer.left = fields /\ answer.at = at
  BY AnswerIs
<1>2. answer # Idle /\ answer.left = <<>> /\ nextToCommit' = nextToWrite
      /\ UNCHANGED <<outData, nextToSend, received>>
  BY DEF FinishAnswer, output
<1>3. at = size
  <2>1. Size(<<>>) = 0
    <3>1. <<>> \in Seq(1..Capacity)
      BY EmptySeq
    <3> QED BY <3>1, SizeFacts
  <2> QED BY <1>1, <1>2, <2>1 DEF Sized
<1>4. /\ nextToWrite = nextToCommit + size
      /\ \A i \in 1..size : outData[(nextToCommit + i - 1) % Capacity] = <<id, i, size>>
  BY <1>1, <1>2, <1>3 DEF Written
<1>5. /\ nextToSend \in Nat /\ nextToCommit \in Nat /\ nextToWrite \in Nat
      /\ nextToSend <= nextToCommit /\ nextToCommit <= nextToWrite
      /\ nextToWrite - nextToCommit = size /\ outData \in Ring
  BY <1>1, <1>4, BytesCounted DEF OutputInv, RingInv, CountersTyped
<1> DEFINE t == Piece(outData, nextToCommit, nextToWrite)
<1>6. OneAnswer(t, id, size)
  <2>1. /\ t \in Seq(Cell) /\ Len(t) = nextToWrite - nextToCommit
        /\ \A i \in 1..(nextToWrite - nextToCommit) :
              t[i] = outData[(nextToCommit + i - 1) % Capacity]
    BY <1>5, PieceFacts
  <2> HIDE DEF t
  <2> QED BY <1>4, <1>5, <2>1 DEF OneAnswer
<1>7. OnItsWay' = OnItsWay \o t
  <2>1. OnItsWay' = received \o Piece(outData, nextToSend, nextToWrite)
    BY <1>2 DEF OnItsWay
  <2>2. Piece(outData, nextToSend, nextToCommit) \o t = Piece(outData, nextToSend, nextToWrite)
    BY <1>5, PieceJoins
  <2>3. /\ received \in Seq(Cell) /\ t \in Seq(Cell)
        /\ Piece(outData, nextToSend, nextToCommit) \in Seq(Cell)
    BY <1>5, PieceFacts DEF OutputInv
  <2> HIDE DEF t
  <2>4. (received \o Piece(outData, nextToSend, nextToCommit)) \o t
           = received \o (Piece(outData, nextToSend, nextToCommit) \o t)
    BY <2>3, ConcatAssociative
  <2> QED BY <2>1, <2>2, <2>4 DEF OnItsWay
<1> QED BY <1>1, <1>6, <1>7

LEMMA TornStep == TornInv /\ [Next]_vars => TornInv'
<1> SUFFICES ASSUME TornInv, [Next]_vars PROVE TornInv'
  OBVIOUS
<1>1. OutputInv'
  BY OutputStep DEF TornInv
<1>2. Sized' /\ Written'
  BY WrittenStep
<1>3. Whole(OnItsWay)
  BY DEF TornInv, OnItsWay
<1>4. Whole(OnItsWay')
  <2>1. CASE OnItsWay' = OnItsWay
    BY <1>3, <2>1
  <2>2. CASE FinishAnswer /\ ~overflow
    <3>1. PICK t, id : \E size \in Nat : OneAnswer(t, id, size) /\ OnItsWay' = OnItsWay \o t
      BY <2>2, CommitIsOneAnswer
    <3>2. PICK size \in Nat : OneAnswer(t, id, size) /\ OnItsWay' = OnItsWay \o t
      BY <3>1
    <3>3. OnItsWay \in Seq(Cell)
      <4>1. received \in Seq(Cell) /\ Piece(outData, nextToSend, nextToCommit) \in Seq(Cell)
        BY BytesCounted, PieceFacts DEF TornInv, OutputInv
      <4> QED BY <4>1, ConcatProperties DEF OnItsWay
    <3>4. Whole(OnItsWay \o t)
      BY <1>3, <3>2, <3>3, WholeGrows
    <3> QED BY <3>2, <3>4
  <2> QED BY <2>1, <2>2, OnItsWayStep
<1>5. Whole(received' \o Piece(outData', nextToSend', nextToCommit'))
  BY <1>4 DEF OnItsWay
<1> QED BY <1>1, <1>2, <1>5 DEF TornInv

(* For every capacity and every shape of the answers: an answer that does    *)
(* not fit into the ring is dropped whole.  What the client has read, and    *)
(* what it will read of the ring, is whole answers one after another, the    *)
(* fields after the one that did not fit included (sending.cc).              *)
THEOREM AnswersAreWhole == Spec => []NoTornAnswer
<1>1. TornInv => NoTornAnswer
  BY DEF TornInv, Whole, NoTornAnswer, Bytes, Piece
<1> QED BY <1>1, TornInitial, TornStep, PTL DEF Spec

-----------------------------------------------------------------------------
(* The types.                                                               *)

FlagsTyped ==
    /\ fin \in BOOLEAN /\ armed \in BOOLEAN /\ gameSignal \in BOOLEAN
    /\ connectionIsOk \in BOOLEAN
    /\ waitingForACK \in BOOLEAN /\ sigIOPending \in BOOLEAN
    /\ overflow \in BOOLEAN /\ willingToSend \in BOOLEAN /\ first \in BOOLEAN

PlacesTyped ==
    /\ signals \subseteq Signals /\ state \in States
    /\ pc \in Points /\ gpc \in GamePoints

NumbersTyped ==
    /\ sent \in 0..MaxPackets /\ socket \in Seq(1..MaxPackets)
    /\ inData \in 0..MaxPackets /\ handled \in Seq(1..MaxPackets)
    /\ answers \in 0..MaxAnswers /\ packets \in Seq(Nat)

LEMMA FlagsStep == ASSUME FlagsTyped, [Next]_vars PROVE FlagsTyped'
<1> USE DEF FlagsTyped, Live, Return, Close, Disconnect,
        Wait, Game, Reading, Arrival, Async, input, shared, ring, writer, output
<1>1. CASE SetUpSocket
  BY <1>1, Zenon DEF SetUpSocket
<1>2. CASE ReadPacket
  BY <1>2, Zenon DEF ReadPacket
<1>3. CASE RejectPacket
  BY <1>3, Zenon DEF RejectPacket
<1>4. CASE ReadNothing
  BY <1>4, Zenon DEF ReadNothing
<1>5. CASE RaiseFlag
  BY <1>5, Zenon DEF RaiseFlag
<1>6. CASE SignalGame
  BY <1>6, Zenon DEF SignalGame
<1>7. CASE StopReading
  BY <1>7, Zenon DEF StopReading
<1>8. CASE NotePending
  BY <1>8, Zenon DEF NotePending
<1>9. CASE EnterLoop
  BY <1>9, Zenon DEF EnterLoop
<1>10. CASE LookBeforeSleep
  BY <1>10, Zenon DEF LookBeforeSleep
<1>11. CASE TakeHup
  BY <1>11, Zenon DEF TakeHup
<1>12. CASE TakeAlarm
  BY <1>12, Zenon DEF TakeAlarm
<1>13. CASE TakeReady
  BY <1>13, Zenon DEF TakeReady
<1>14. CASE TakeAcknowledgement
  BY <1>14, Zenon DEF TakeAcknowledgement
<1>15. CASE TakeSend
  BY <1>15, Zenon DEF TakeSend
<1>16. CASE WritePacket
  BY <1>16, Zenon DEF WritePacket
<1>17. CASE WriteFails
  BY <1>17, Zenon DEF WriteFails
<1>18. CASE Leave
  BY <1>18, Zenon DEF Leave
<1>19. CASE ClientSends
  BY <1>19, Zenon DEF ClientSends
<1>20. CASE ClientCloses
  BY <1>20, Zenon DEF ClientCloses
<1>21. CASE LoginTimerFires
  BY <1>21, Zenon DEF LoginTimerFires
<1>22. CASE TakeGameSignal
  BY <1>22, Zenon DEF TakeGameSignal
<1>23. CASE PassBy
  BY <1>23, Zenon DEF PassBy
<1>24. CASE ParseCommand
  BY <1>24, Zenon DEF ParseCommand
<1>25. CASE Join
  BY <1>25, Zenon DEF Join
<1>26. CASE RefuseJoin
  BY <1>26, Zenon DEF RefuseJoin
<1>27. CASE LowerFlag
  BY <1>27, Zenon DEF LowerFlag
<1>28. CASE Acknowledge
  BY <1>28, Zenon DEF Acknowledge
<1>29. CASE BeginAnswer
  BY <1>29, Zenon DEF BeginAnswer
<1>30. CASE WriteField
  BY <1>30, Zenon DEF WriteField
<1>31. CASE FinishAnswer
  BY <1>31, Zenon DEF FinishAnswer
<1>32. CASE SendAll
  BY <1>32, Zenon DEF SendAll
<1>33. CASE LogOut
  BY <1>33, Zenon DEF LogOut
<1>34. CASE LetGo
  BY <1>34, Zenon DEF LetGo
<1>35. CASE UNCHANGED vars
  BY <1>35, Zenon DEF vars
<1> QED BY <1>1, <1>2, <1>3, <1>4, <1>5, <1>6, <1>7, <1>8, <1>9, <1>10, <1>11, <1>12, <1>13, <1>14, <1>15, <1>16, <1>17, <1>18, <1>19, <1>20, <1>21, <1>22, <1>23, <1>24, <1>25, <1>26, <1>27, <1>28, <1>29, <1>30, <1>31, <1>32, <1>33, <1>34, <1>35, Zenon
        DEF Next, CommunicationThread, GameThread, GameStep

LEMMA PlacesStep == ASSUME PlacesTyped, [Next]_vars PROVE PlacesTyped'
<1> USE DEF PlacesTyped, Signals, States, Points, GamePoints, Live, Return, Close, Disconnect,
        Wait, Game, Reading, Arrival, Async, input, shared, ring, writer, output
<1>1. CASE SetUpSocket
  BY <1>1, SMT DEF SetUpSocket
<1>2. CASE ReadPacket
  <2>1. state' \in {state, "LOGIN"} /\ pc' = "call" /\ gpc' = gpc
    BY <1>2 DEF ReadPacket
  <2>2. signals' \subseteq signals \cup {"PIPE"}
    BY <1>2 DEF ReadPacket
  <2> QED BY <2>1, <2>2
<1>3. CASE RejectPacket
  BY <1>3, SMT DEF RejectPacket
<1>4. CASE ReadNothing
  BY <1>4, SMT DEF ReadNothing
<1>5. CASE RaiseFlag
  BY <1>5, SMT DEF RaiseFlag
<1>6. CASE SignalGame
  BY <1>6, SMT DEF SignalGame
<1>7. CASE StopReading
  BY <1>7, SMT DEF StopReading
<1>8. CASE NotePending
  BY <1>8, SMT DEF NotePending
<1>9. CASE EnterLoop
  BY <1>9, SMT DEF EnterLoop
<1>10. CASE LookBeforeSleep
  BY <1>10, SMT DEF LookBeforeSleep
<1>11. CASE TakeHup
  <2>1. signals' \subseteq signals /\ pc' = "check" /\ gpc' = gpc
    BY <1>11 DEF TakeHup
  <2>2. state' \in {state, "DISCONNECTED"}
    BY <1>11 DEF TakeHup
  <2> QED BY <2>1, <2>2
<1>12. CASE TakeAlarm
  BY <1>12, SMT DEF TakeAlarm
<1>13. CASE TakeReady
  BY <1>13, SMT DEF TakeReady
<1>14. CASE TakeAcknowledgement
  BY <1>14, SMT DEF TakeAcknowledgement
<1>15. CASE TakeSend
  BY <1>15, SMT DEF TakeSend
<1>16. CASE WritePacket
  BY <1>16, SMT DEF WritePacket
<1>17. CASE WriteFails
  BY <1>17, SMT DEF WriteFails
<1>18. CASE Leave
  BY <1>18, SMT DEF Leave
<1>19. CASE ClientSends
  BY <1>19, SMT DEF ClientSends
<1>20. CASE ClientCloses
  BY <1>20, SMT DEF ClientCloses
<1>21. CASE LoginTimerFires
  BY <1>21, SMT DEF LoginTimerFires
<1>22. CASE TakeGameSignal
  BY <1>22, SMT DEF TakeGameSignal
<1>23. CASE PassBy
  BY <1>23, SMT DEF PassBy
<1>24. CASE ParseCommand
  BY <1>24, SMT DEF ParseCommand
<1>25. CASE Join
  BY <1>25, SMT DEF Join
<1>26. CASE RefuseJoin
  BY <1>26, SMT DEF RefuseJoin
<1>27. CASE LowerFlag
  BY <1>27, SMT DEF LowerFlag
<1>28. CASE Acknowledge
  BY <1>28, SMT DEF Acknowledge
<1>29. CASE BeginAnswer
  BY <1>29, SMT DEF BeginAnswer
<1>30. CASE WriteField
  BY <1>30, SMT DEF WriteField
<1>31. CASE FinishAnswer
  BY <1>31, SMT DEF FinishAnswer
<1>32. CASE SendAll
  BY <1>32, SMT DEF SendAll
<1>33. CASE LogOut
  BY <1>33, SMT DEF LogOut
<1>34. CASE LetGo
  BY <1>34, SMT DEF LetGo
<1>35. CASE UNCHANGED vars
  BY <1>35, SMT DEF vars
<1> QED BY <1>1, <1>2, <1>3, <1>4, <1>5, <1>6, <1>7, <1>8, <1>9, <1>10, <1>11, <1>12, <1>13, <1>14, <1>15, <1>16, <1>17, <1>18, <1>19, <1>20, <1>21, <1>22, <1>23, <1>24, <1>25, <1>26, <1>27, <1>28, <1>29, <1>30, <1>31, <1>32, <1>33, <1>34, <1>35, Zenon
        DEF Next, CommunicationThread, GameThread, GameStep

LEMMA NumbersStep ==
    ASSUME NumbersTyped, InputInv, RingInv, [Next]_vars
    PROVE  NumbersTyped'
<1> USE DEF NumbersTyped, BoundsAssumption
<1>1. CASE ClientSends
  <2>1. sent + 1 \in 1..MaxPackets
    BY <1>1, BoundsAssumption DEF ClientSends
  <2>2. sent' = sent + 1 /\ socket' = Append(socket, sent + 1)
        /\ UNCHANGED <<inData, handled, answers, packets>>
    BY <1>1 DEF ClientSends, shared, writer, output
  <2> QED BY <2>1, <2>2, SeqFacts
<1>2. CASE ReadPacket
  <2>1. socket # <<>> /\ inData' = Head(socket) /\ socket' = Tail(socket)
        /\ UNCHANGED <<sent, handled, answers, packets>>
    BY <1>2 DEF ReadPacket, writer, output
  <2>2. Head(socket) \in 1..MaxPackets /\ Tail(socket) \in Seq(1..MaxPackets)
    BY <2>1, HeadTailProperties
  <2> QED BY <2>1, <2>2
<1>3. CASE RejectPacket
  <2>1. socket # <<>> /\ socket' = Tail(socket)
        /\ UNCHANGED <<sent, inData, handled, answers, packets>>
    BY <1>3 DEF RejectPacket, writer, output
  <2>2. Tail(socket) \in Seq(1..MaxPackets)
    BY <2>1, HeadTailProperties
  <2> QED BY <2>1, <2>2
<1>4. CASE ParseCommand
  <2>1. /\ handled' = Append(handled, inData) /\ inData' = 0 /\ waitingForACK /\ gpc = "scan"
        /\ UNCHANGED <<sent, socket, answers, packets>>
    BY <1>4 DEF ParseCommand, Game, input, writer, output
  <2>2. inData \in 1..MaxPackets
    BY <2>1 DEF InputInv, HandedOver
  <2> QED BY <2>1, <2>2, SeqFacts, BoundsAssumption
<1>5. CASE WritePacket
  <2>1. packets' = Append(packets, amount) /\ amount \in Nat
        /\ UNCHANGED <<sent, socket, inData, handled, answers>>
    BY <1>5 DEF WritePacket, RingInv, CountersTyped, input, shared, writer
  <2> QED BY <2>1, SeqFacts
<1>6. CASE BeginAnswer
  <2>1. answers' = answers + 1 /\ answers < MaxAnswers
        /\ UNCHANGED <<sent, socket, inData, handled, packets>>
    BY <1>6 DEF BeginAnswer, input, shared, output
  <2> QED BY <2>1, BoundsAssumption
<1>7. CASE \/ ClientCloses \/ LoginTimerFires
           \/ SetUpSocket \/ ReadNothing \/ RaiseFlag
           \/ SignalGame \/ StopReading \/ NotePending \/ EnterLoop
           \/ LookBeforeSleep \/ TakeHup \/ TakeAlarm \/ TakeReady \/ TakeAcknowledgement
           \/ TakeSend \/ WriteFails
           \/ Leave \/ TakeGameSignal \/ SendAll \/ LogOut \/ LetGo
           \/ PassBy \/ Join \/ RefuseJoin \/ LowerFlag \/ Acknowledge
           \/ WriteField \/ FinishAnswer
           \/ UNCHANGED vars
  <2>1. UNCHANGED <<sent, socket, inData, handled, answers, packets>>
    BY <1>7, Zenon DEF ClientCloses, LoginTimerFires, SetUpSocket, ReadNothing,
           RaiseFlag, SignalGame, StopReading, NotePending, EnterLoop,
           LookBeforeSleep, TakeHup, TakeAlarm, TakeReady, TakeAcknowledgement,
           TakeSend, WriteFails, Leave, TakeGameSignal, SendAll,
           LogOut, LetGo, PassBy, Join, RefuseJoin, LowerFlag, Acknowledge,
           WriteField, FinishAnswer, vars, input, shared, writer, output
  <2> QED BY <2>1
<1> QED BY <1>1, <1>2, <1>3, <1>4, <1>5, <1>6, <1>7, Zenon
        DEF Next, CommunicationThread, GameThread, GameStep

\* The cells of the ring are bytes.
LEMMA CellsAreBytes == Cell \subseteq Byte
<1>1. \A fields \in Answers : Size(fields) \in Nat
  BY AnswersAssumption, SizeFacts
<1> QED BY <1>1 DEF Cell, Byte

TypesInv == FlagsTyped /\ PlacesTyped /\ NumbersTyped /\ InputInv /\ OutputInv

LEMMA TypesInitial == Init => TypesInv
<1> SUFFICES ASSUME Init PROVE TypesInv
  OBVIOUS
<1>1. FlagsTyped /\ PlacesTyped
  <2>1. FlagsTyped
    BY Zenon DEF Init, FlagsTyped
  <2>2. PlacesTyped
    BY SMT DEF Init, PlacesTyped, Signals, States, Points, GamePoints
  <2> QED BY <2>1, <2>2
<1>2. NumbersTyped
  BY EmptySeq, BoundsAssumption DEF Init, NumbersTyped
<1> QED BY <1>1, <1>2, InputInitial, OutputInitial DEF TypesInv

LEMMA TypesStep == TypesInv /\ [Next]_vars => TypesInv'
  BY FlagsStep, PlacesStep, NumbersStep, InputStep, OutputStep DEF TypesInv, OutputInv

\* Every variable keeps its type, for every capacity, every shape of the
\* answers and any number of packets: no counter of the ring runs below
\* zero, the flags and places are those of the code, and every cell of the
\* ring holds a byte of an answer (connections.hh, communication.cc).
THEOREM ConnectionTypes == Spec => []TypeOK
<1>1. TypesInv => TypeOK
  <2> SUFFICES ASSUME TypesInv PROVE TypeOK
    OBVIOUS
  <2>1. FlagsTyped /\ PlacesTyped /\ NumbersTyped /\ OutputInv
    BY DEF TypesInv
  <2>2. outData \in [0..(Capacity - 1) -> Byte]
    BY <2>1, CellsAreBytes DEF OutputInv, Ring
  <2>3. received \in Seq(Byte)
    <3>1. received \in Seq(Cell)
      BY <2>1 DEF OutputInv
    <3> QED BY <3>1, CellsAreBytes
  <2>4. answer \in [id : Nat, size : Nat, left : Seq(1..Capacity), at : Nat]
    <3>1. PICK id, size, at \in Nat : \E fields \in Seq(1..Capacity) :
             answer = [id |-> id, size |-> size, left |-> fields, at |-> at]
      BY <2>1, AnswerIs
    <3> QED BY <3>1
  <2>5. /\ nextToSend \in Nat /\ nextToCommit \in Nat /\ nextToWrite \in Nat
        /\ amount \in Nat
    BY <2>1 DEF OutputInv, RingInv, CountersTyped
  <2> QED BY <2>1, <2>2, <2>3, <2>4, <2>5 DEF TypeOK, FlagsTyped, PlacesTyped, NumbersTyped
<1> QED BY <1>1, TypesInitial, TypesStep, PTL DEF Spec
=============================================================================
