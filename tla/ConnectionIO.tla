---------------------------- MODULE ConnectionIO ----------------------------
(* One connection of the game service, between the communication thread     *)
(* that owns its socket and the game thread that owns the world             *)
(* (communication.cc, receiving.cc, sending.cc, connections.cc).            *)
(*                                                                          *)
(* The two threads share the TConnection without a lock.  A command crosses *)
(* from one to the other in InData, guarded by WaitingForACK; the answers   *)
(* cross back in the ring OutData, guarded by three counters.  Each thread  *)
(* wakes the other with a signal, and a signal that is already pending is   *)
(* not queued a second time.                                                *)
(*                                                                          *)
(* One life of the connection is modelled, from Connect to Free, with the   *)
(* game running.  A packet is a number (the position at which the client    *)
(* sent it), a byte of an answer is <<answer, position, length>>.           *)
EXTENDS Integers, Sequences

CONSTANTS
    Capacity,       \* sizeof(OutData), 16384 in the code
    Answers,        \* the shapes of an answer: the sizes of its fields
    MaxPackets,     \* bound: packets the client sends, the login included
    MaxAnswers,     \* bound: answers the game begins to write
    EarlyPackets    \* may more follow the login before O_ASYNC is set?

ASSUME CapacityAssumption == Capacity \in Nat \ {0}
ASSUME AnswersAssumption == Answers \subseteq Seq(1..Capacity)
ASSUME BoundsAssumption == /\ MaxPackets \in Nat
                           /\ MaxAnswers \in Nat
                           /\ EarlyPackets \in BOOLEAN

VARIABLES
    sent,           \* how many packets the client has sent
    socket,         \* packets in the socket's receive buffer
    fin,            \* the client has closed its end
    armed,          \* the login timer is running
    signals,        \* signals pending for the communication thread
    gameSignal,     \* SIGUSR1 pending for the game thread
    state,          \* TConnection::State
    connectionIsOk,
    waitingForACK,
    sigIOPending,
    inData,         \* the command in InData, 0 once it has been parsed
    outData,        \* the ring, indexed by counter % Capacity
    nextToSend, nextToCommit, nextToWrite,
    overflow,
    willingToSend,
    pc,             \* where the communication thread is
    first,          \* it is in the ReceiveCommand before its signal loop
    amount,         \* DataSize, read when SendData starts
    gpc,            \* where the game thread is
    answer,         \* the answer being written: [id, size, left, at]
    answers,        \* how many answers have been begun
    handled,        \* packets the game thread has parsed, in order
    received,       \* bytes written to the socket, in order
    packets         \* the DataSize of every packet written to the socket

input  == <<sent, socket, fin>>
shared == <<state, connectionIsOk, waitingForACK, sigIOPending, inData>>
ring   == <<outData, nextToSend, nextToCommit, nextToWrite>>
writer == <<overflow, willingToSend, answer, answers>>
output == <<received, packets>>
vars == <<input, armed, signals, gameSignal, shared, ring, writer,
          pc, first, amount, gpc, handled, output>>

-----------------------------------------------------------------------------
Live == state \in {"LOGIN", "GAME", "LOGOUT"}

Idle == [id |-> 0, size |-> 0, left |-> <<>>, at |-> 0]

\* The fields of an answer and the bytes they take together.
Size(fields) ==
    LET upTo[i \in 0..Len(fields)] ==
            IF i = 0 THEN 0 ELSE upTo[i - 1] + fields[i]
    IN  upTo[Len(fields)]

Init ==
    /\ sent = 0 /\ socket = <<>> /\ fin = FALSE
    /\ armed = TRUE
    /\ signals = {} /\ gameSignal = FALSE
    /\ state = "CONNECTED"
    /\ connectionIsOk = TRUE
    /\ waitingForACK = FALSE /\ sigIOPending = FALSE /\ inData = 0
    /\ outData = [i \in 0..(Capacity - 1) |-> <<0, 0, 0>>]
    /\ nextToSend = 0 /\ nextToCommit = 0 /\ nextToWrite = 0
    /\ overflow = FALSE /\ willingToSend = FALSE
    /\ answer = Idle /\ answers = 0
    /\ pc = "setup" /\ first = TRUE /\ amount = 0
    /\ gpc = "idle"
    /\ handled = <<>> /\ received = <<>> /\ packets = <<>>

-----------------------------------------------------------------------------
(* The client and the kernel. *)

Async == pc # "setup"

\* Data or a FIN on the socket raises SIGIO, once O_ASYNC is set.
Arrival == signals' = IF Async /\ pc # "closed" THEN signals \cup {"IO"} ELSE signals

ClientSends ==
    /\ ~fin
    /\ sent < MaxPackets
    /\ sent = 0 \/ Async \/ EarlyPackets
    /\ sent' = sent + 1
    /\ socket' = Append(socket, sent + 1)
    /\ Arrival
    /\ UNCHANGED <<fin, armed, gameSignal, shared, ring, writer, pc, first,
                   amount, gpc, handled, output>>

ClientCloses ==
    /\ ~fin
    /\ sent = 0 \/ Async \/ EarlyPackets
    /\ fin' = TRUE
    /\ Arrival
    /\ UNCHANGED <<sent, socket, armed, gameSignal, shared, ring, writer, pc,
                   first, amount, gpc, handled, output>>

LoginTimerFires ==
    /\ armed
    /\ Async
    /\ "ALRM" \notin signals
    /\ signals' = signals \cup {"ALRM"}
    /\ UNCHANGED <<input, armed, gameSignal, shared, ring, writer, pc, first,
                   amount, gpc, handled, output>>
-----------------------------------------------------------------------------
(* The communication thread. *)

\* TConnection::Close, as the communication thread calls it.
Close ==
    /\ connectionIsOk' = FALSE
    /\ state' = IF state = "CONNECTED" THEN "DISCONNECTED" ELSE state

\* ReceiveCommand returns to the code before the loop, or to the loop.
Return == pc' = IF first THEN "enter" ELSE "check"

\* The definitions named Bug... are plausible mistakes in the operator they
\* stand before; nothing uses them.
BugReadsAhead == pc = "receive"

\* while(!WaitingForACK)
Reading == pc = "receive" /\ ~waitingForACK

\* O_ASYNC is set and the signals are blocked; the first ReceiveCommand.
SetUpSocket ==
    /\ pc = "setup"
    /\ pc' = "receive"
    /\ UNCHANGED <<input, armed, signals, gameSignal, shared, ring, writer,
                   first, amount, gpc, handled, output>>

\* while(!WaitingForACK): a whole packet is read into InData.  The first one
\* is the login: it stops the timer and, registered, resets the counters and
\* makes the connection a login the game thread may see.  The notice of a
\* premium account, written to a client that is gone, leaves SIGPIPE pending.
ReadPacket ==
    /\ Reading
    /\ socket # <<>>
    /\ inData' = Head(socket)
    /\ socket' = Tail(socket)
    /\ pc' = "call"
    /\ IF state = "CONNECTED"
       THEN /\ armed' = FALSE
            /\ state' = "LOGIN"
            /\ nextToSend' = 0 /\ nextToCommit' = 0 /\ nextToWrite' = 0
            /\ \/ UNCHANGED signals
               \/ fin /\ signals' = signals \cup {"PIPE"}
       ELSE UNCHANGED <<armed, signals, state, nextToSend, nextToCommit,
                        nextToWrite>>
    /\ UNCHANGED <<sent, fin, gameSignal, connectionIsOk, waitingForACK,
                   sigIOPending, outData, writer, first, amount, gpc, handled,
                   output>>

\* A packet of a wrong size, one that breaks off, or a login HandleLogin
\* turns away: ReceiveCommand returns false and the connection is closed.
\* A first packet that was read whole has stopped the timer.
RejectPacket ==
    /\ Reading
    /\ socket # <<>>
    /\ socket' = Tail(socket)
    /\ Close
    /\ armed' \in {armed, armed /\ state # "CONNECTED"}
    /\ Return
    /\ UNCHANGED <<sent, fin, signals, gameSignal, waitingForACK, sigIOPending,
                   inData, ring, writer, first, amount, gpc, handled, output>>

\* Nothing to read: EAGAIN keeps the connection, the end of the stream
\* closes it.
ReadNothing ==
    /\ Reading
    /\ socket = <<>>
    /\ IF fin THEN Close ELSE UNCHANGED <<connectionIsOk, state>>
    /\ Return
    /\ UNCHANGED <<input, armed, signals, gameSignal, waitingForACK,
                   sigIOPending, inData, ring, writer, first, amount, gpc,
                   handled, output>>

\* CallGameThread: the flag first, then the signal.
RaiseFlag ==
    /\ pc = "call"
    /\ waitingForACK' = TRUE
    /\ pc' = "signal"
    /\ UNCHANGED <<input, armed, signals, gameSignal, state, connectionIsOk,
                   sigIOPending, inData, ring, writer, first, amount, gpc,
                   handled, output>>

SignalGame ==
    /\ pc = "signal"
    /\ gameSignal' = TRUE
    /\ pc' = "receive"
    /\ UNCHANGED <<input, armed, signals, shared, ring, writer, first, amount,
                   gpc, handled, output>>

\* The loop of ReceiveCommand ends: the flag is still up.
StopReading ==
    /\ pc = "receive"
    /\ waitingForACK
    /\ pc' = "pend"
    /\ UNCHANGED <<input, armed, signals, gameSignal, shared, ring, writer,
                   first, amount, gpc, handled, output>>

\* SigIOPending = true, on the way out of ReceiveCommand or because SIGIO
\* came while the flag was up.
NotePending ==
    /\ pc = "pend"
    /\ sigIOPending' = TRUE
    /\ Return
    /\ UNCHANGED <<input, armed, signals, gameSignal, state, connectionIsOk,
                   waitingForACK, inData, ring, writer, first, amount, gpc,
                   handled, output>>

\* SigIOPending = false, between the first ReceiveCommand and the loop.
EnterLoop ==
    /\ pc = "enter"
    /\ sigIOPending' = FALSE
    /\ first' = FALSE
    /\ pc' = "check"
    /\ UNCHANGED <<input, armed, signals, gameSignal, state, connectionIsOk,
                   waitingForACK, inData, ring, writer, amount, gpc, handled,
                   output>>

\* The condition of the loop is looked at before the thread goes to sleep; a
\* Close or Disconnect after that look is seen when a signal has woken it.
LookBeforeSleep ==
    /\ pc = "check"
    /\ pc' = IF connectionIsOk THEN "wait" ELSE "leave"
    /\ UNCHANGED <<input, armed, signals, gameSignal, shared, ring, writer,
                   first, amount, gpc, handled, output>>

\* sigwait takes a pending signal, here in any order.
Wait(signal) ==
    /\ pc = "wait"
    /\ signal \in signals
    /\ signals' = signals \ {signal}

TakeHup ==
    /\ Wait("HUP") \/ Wait("PIPE")
    /\ Close
    /\ pc' = "check"
    /\ UNCHANGED <<input, armed, gameSignal, waitingForACK, sigIOPending,
                   inData, ring, writer, first, amount, gpc, handled, output>>

TakeAlarm ==
    /\ Wait("ALRM")
    /\ armed' = FALSE
    /\ IF state = "CONNECTED" THEN Close ELSE UNCHANGED <<connectionIsOk, state>>
    /\ pc' = "check"
    /\ UNCHANGED <<input, gameSignal, waitingForACK, sigIOPending, inData,
                   ring, writer, first, amount, gpc, handled, output>>

BugArrivalNotNoted ==
    /\ \E signal \in {"IO", "USR1"} :
          /\ Wait(signal)
          /\ signal = "IO" \/ sigIOPending
    /\ IF waitingForACK
       THEN pc' = "check" /\ UNCHANGED sigIOPending
       ELSE pc' = "receive" /\ sigIOPending' = FALSE
    /\ UNCHANGED <<input, armed, gameSignal, state, connectionIsOk,
                   waitingForACK, inData, ring, writer, first, amount, gpc,
                   handled, output>>

\* SIGIO, or SIGUSR1 with data known to be waiting: read unless the game
\* thread still has the last command.  The flag is read here; what follows
\* from it is the next step.
TakeReady ==
    /\ \E signal \in {"IO", "USR1"} :
          /\ Wait(signal)
          /\ signal = "IO" \/ sigIOPending
    /\ IF waitingForACK
       THEN pc' = "pend" /\ UNCHANGED sigIOPending
       ELSE pc' = "receive" /\ sigIOPending' = FALSE
    /\ UNCHANGED <<input, armed, gameSignal, state, connectionIsOk,
                   waitingForACK, inData, ring, writer, first, amount, gpc,
                   handled, output>>

TakeAcknowledgement ==
    /\ Wait("USR1")
    /\ ~sigIOPending
    /\ pc' = "check"
    /\ UNCHANGED <<input, armed, gameSignal, shared, ring, writer, first,
                   amount, gpc, handled, output>>

BugAmountBackwards ==
    /\ Wait("USR2")
    /\ amount' = nextToSend - nextToCommit
    /\ pc' = "send"
    /\ UNCHANGED <<input, armed, gameSignal, shared, ring, writer, first, gpc,
                   handled, output>>

\* SIGUSR2: SendData reads the counters once ...
TakeSend ==
    /\ Wait("USR2")
    /\ amount' = nextToCommit - nextToSend
    /\ pc' = "send"
    /\ UNCHANGED <<input, armed, gameSignal, shared, ring, writer, first, gpc,
                   handled, output>>

\* The bytes of the ring between two counters.
Bytes(from, to) == [i \in 1..(to - from) |-> outData[(from + i - 1) % Capacity]]

BugCounterReadAgain ==
    /\ pc = "send"
    /\ received' = received \o Bytes(nextToSend, nextToSend + amount)
    /\ packets' = Append(packets, amount)
    /\ nextToSend' = nextToCommit
    /\ amount' = 0
    /\ pc' = "check"
    /\ UNCHANGED <<input, armed, signals, gameSignal, shared, outData,
                   nextToCommit, nextToWrite, writer, first, gpc, handled>>

\* ... copies that many bytes, writes them as one packet and only then moves
\* NextToSend.
WritePacket ==
    /\ pc = "send"
    /\ received' = received \o Bytes(nextToSend, nextToSend + amount)
    /\ packets' = Append(packets, amount)
    /\ nextToSend' = nextToSend + amount
    /\ amount' = 0
    /\ pc' = "check"
    /\ UNCHANGED <<input, armed, signals, gameSignal, shared, outData,
                   nextToCommit, nextToWrite, writer, first, gpc, handled>>

\* The peer does not take the packet, after every attempt.
WriteFails ==
    /\ pc = "send"
    /\ Close
    /\ amount' = 0
    /\ pc' = "check"
    /\ UNCHANGED <<input, armed, signals, gameSignal, waitingForACK,
                   sigIOPending, inData, ring, writer, first, gpc, handled,
                   output>>

\* The loop ends; the socket is closed when the game thread has let go.
Leave ==
    /\ pc = "leave"
    /\ ~Live
    /\ state' = "FREE"
    /\ signals' = {}
    /\ armed' = FALSE
    /\ pc' = "closed"
    /\ UNCHANGED <<input, gameSignal, connectionIsOk, waitingForACK,
                   sigIOPending, inData, ring, writer, first, amount, gpc,
                   handled, output>>

CommunicationThread ==
    \/ SetUpSocket \/ ReadPacket \/ RejectPacket \/ ReadNothing \/ RaiseFlag
    \/ SignalGame \/ StopReading \/ NotePending \/ EnterLoop
    \/ LookBeforeSleep \/ TakeHup \/ TakeAlarm \/ TakeReady \/ TakeAcknowledgement \/ TakeSend
    \/ WritePacket \/ WriteFails \/ Leave
-----------------------------------------------------------------------------
(* The game thread.  Its main loop answers SIGUSR1 with ReceiveData and a    *)
(* beat with AdvanceGame, one at a time; answers are written from both.      *)

BugNoHangUp ==
    /\ connectionIsOk' = FALSE
    /\ state' = "DISCONNECTED"
    /\ UNCHANGED signals

\* TConnection::Disconnect, as the game thread calls it.
Disconnect ==
    /\ connectionIsOk' = FALSE
    /\ state' = "DISCONNECTED"
    /\ signals' = signals \cup {"HUP"}

\* The game thread is at this point, with no answer half written.
Game(point) == gpc = point /\ answer = Idle

\* SigUsr1Counter is cleared before the connections are looked at.
TakeGameSignal ==
    /\ Game("idle")
    /\ gameSignal
    /\ gameSignal' = FALSE
    /\ gpc' = "scan"
    /\ UNCHANGED <<input, armed, signals, shared, ring, writer, pc, first,
                   amount, handled, output>>

\* No command in this connection: a signal sent for another one, or twice.
PassBy ==
    /\ Game("scan")
    /\ ~(Live /\ waitingForACK)
    /\ gpc' = "idle"
    /\ UNCHANGED <<input, armed, signals, gameSignal, shared, ring, writer,
                   pc, first, amount, handled, output>>

\* ReceiveData(Connection): the command is read out of InData.  A command of
\* a player in the game is carried out; CL_CMD_LOGOUT may log it out.
ParseCommand ==
    /\ Game("scan")
    /\ Live
    /\ waitingForACK
    /\ handled' = Append(handled, inData)
    /\ inData' = 0
    /\ gpc' = IF state = "LOGIN" THEN "join" ELSE "ack"
    /\ state' \in IF state = "GAME" THEN {"GAME", "LOGOUT"} ELSE {state}
    /\ UNCHANGED <<input, armed, signals, gameSignal, connectionIsOk,
                   waitingForACK, sigIOPending, ring, writer, pc, first,
                   amount, output>>

\* JoinGame: the player enters the game, or the login is refused.
Join ==
    /\ Game("join")
    /\ state' = "GAME"
    /\ gpc' = "ack"
    /\ UNCHANGED <<input, armed, signals, gameSignal, connectionIsOk,
                   waitingForACK, sigIOPending, inData, ring, writer, pc,
                   first, amount, handled, output>>

RefuseJoin ==
    /\ Game("join")
    /\ Disconnect
    /\ gpc' = "ack"
    /\ UNCHANGED <<input, armed, gameSignal, waitingForACK, sigIOPending,
                   inData, ring, writer, pc, first, amount, handled, output>>

LowerFlag ==
    /\ Game("ack")
    /\ waitingForACK' = FALSE
    /\ gpc' = "notify"
    /\ UNCHANGED <<input, armed, signals, gameSignal, state, connectionIsOk,
                   sigIOPending, inData, ring, writer, pc, first, amount,
                   handled, output>>

BugNoAcknowledgement ==
    /\ Game("notify")
    /\ gpc' = "idle"
    /\ UNCHANGED <<input, armed, signals, gameSignal, shared, ring, writer, pc,
                   first, amount, handled, output>>

Acknowledge ==
    /\ Game("notify")
    /\ signals' = IF Live THEN signals \cup {"USR1"} ELSE signals
    /\ gpc' = "idle"
    /\ UNCHANGED <<input, armed, gameSignal, shared, ring, writer, pc, first,
                   amount, handled, output>>

\* BeginSendData: in a beat, or while a command is carried out.
BeginAnswer ==
    /\ Game("idle") \/ Game("ack")
    /\ Live /\ state # "LOGIN"
    /\ nextToCommit - nextToSend < Capacity
    /\ answers < MaxAnswers
    /\ \E fields \in Answers :
          answer' = [id |-> answers + 1, size |-> Size(fields),
                     left |-> fields, at |-> 0]
    /\ answers' = answers + 1
    /\ nextToWrite' = nextToCommit
    /\ overflow' = FALSE
    /\ UNCHANGED <<input, armed, signals, gameSignal, shared, outData,
                   nextToSend, nextToCommit, willingToSend, pc, first, amount,
                   gpc, handled, output>>

BugRoomForOneMore(length) == nextToWrite - nextToSend + length <= Capacity + 1

Room(length) == nextToWrite - nextToSend + length <= Capacity

\* SendByte, SendWord, SendQuad, SendBytes: a field is written whole, or not
\* at all and the answer is marked; the fields after it are still tried.
WriteField ==
    /\ answer.left # <<>>
    /\ LET length == Head(answer.left)
           fits == Room(length)
           Slot(i) == (nextToWrite + i - 1) % Capacity
       IN  /\ answer' = [answer EXCEPT !.left = Tail(@), !.at = @ + length]
           /\ overflow' = (overflow \/ ~fits)
           /\ IF fits
              THEN /\ nextToWrite' = nextToWrite + length
                   /\ outData' = [slot \in 0..(Capacity - 1) |->
                        IF \E i \in 1..length : Slot(i) = slot
                        THEN LET i == CHOOSE i \in 1..length : Slot(i) = slot
                             IN  <<answer.id, answer.at + i, answer.size>>
                        ELSE outData[slot]]
              ELSE UNCHANGED <<nextToWrite, outData>>
    /\ UNCHANGED <<input, armed, signals, gameSignal, shared, nextToSend,
                   nextToCommit, willingToSend, answers, pc, first, amount,
                   gpc, handled, output>>

BugTornAnswerCommitted ==
    /\ answer # Idle
    /\ answer.left = <<>>
    /\ answer' = Idle
    /\ nextToCommit' = nextToWrite /\ willingToSend' = TRUE
    /\ UNCHANGED <<input, armed, signals, gameSignal, shared, outData,
                   nextToSend, nextToWrite, overflow, answers, pc, first,
                   amount, gpc, handled, output>>

\* FinishSendData: the answer is committed, or dropped whole.
FinishAnswer ==
    /\ answer # Idle
    /\ answer.left = <<>>
    /\ answer' = Idle
    /\ IF overflow
       THEN UNCHANGED <<nextToCommit, willingToSend>>
       ELSE nextToCommit' = nextToWrite /\ willingToSend' = TRUE
    /\ UNCHANGED <<input, armed, signals, gameSignal, shared, outData,
                   nextToSend, nextToWrite, overflow, answers, pc, first,
                   amount, gpc, handled, output>>

\* SendAll, at the end of a beat.
SendAll ==
    /\ Game("idle")
    /\ willingToSend
    /\ willingToSend' = FALSE
    /\ signals' = IF Live /\ nextToCommit > nextToSend
                  THEN signals \cup {"USR2"}
                  ELSE signals
    /\ UNCHANGED <<input, armed, gameSignal, shared, ring, overflow, answer,
                   answers, pc, first, amount, gpc, handled, output>>

\* TConnection::Process and whatever else takes the player away from this
\* connection between commands: 90 silent rounds, the client gone, a second
\* login of the character.
LogOut ==
    /\ Game("idle")
    /\ state = "GAME"
    /\ state' = "LOGOUT"
    /\ UNCHANGED <<input, armed, signals, gameSignal, connectionIsOk,
                   waitingForACK, sigIOPending, inData, ring, writer, pc,
                   first, amount, gpc, handled, output>>

LetGo ==
    /\ Game("idle")
    /\ state = "LOGOUT" \/ (state = "LOGIN" /\ ~connectionIsOk)
    /\ Disconnect
    /\ UNCHANGED <<input, armed, gameSignal, waitingForACK, sigIOPending,
                   inData, ring, writer, pc, first, amount, gpc, handled,
                   output>>

\* What the game thread does once it has begun.
GameStep == \/ PassBy \/ ParseCommand \/ Join \/ RefuseJoin \/ LowerFlag
            \/ Acknowledge \/ WriteField \/ FinishAnswer

GameThread == \/ TakeGameSignal \/ GameStep \/ BeginAnswer \/ SendAll
              \/ LogOut \/ LetGo

Next == \/ ClientSends \/ ClientCloses \/ LoginTimerFires
        \/ CommunicationThread \/ GameThread

Spec == Init /\ [][Next]_vars

\* Both threads are scheduled; the main loop comes back to its signals, its
\* beats and its rounds; the five-second timer runs out.  A player who is gone
\* is logged out: once the client has closed its end the commands that could
\* restart the 90 rounds are finitely many.
Fairness ==
    /\ WF_vars(CommunicationThread)
    /\ WF_vars(GameStep)
    /\ WF_vars(TakeGameSignal)
    /\ WF_vars(SendAll)
    /\ WF_vars(LogOut /\ (fin \/ ~connectionIsOk))
    /\ WF_vars(LetGo)
    /\ WF_vars(LoginTimerFires)

FairSpec == Spec /\ Fairness
-----------------------------------------------------------------------------
(* Properties. *)

Signals == {"HUP", "PIPE", "USR1", "USR2", "ALRM", "IO"}
States == {"CONNECTED", "LOGIN", "GAME", "LOGOUT", "DISCONNECTED", "FREE"}
Points == {"setup", "receive", "call", "signal", "pend", "enter", "check",
           "wait", "send", "leave", "closed"}
GamePoints == {"idle", "scan", "join", "ack", "notify"}
Byte == Nat \X Nat \X Nat

TypeOK ==
    /\ sent \in 0..MaxPackets
    /\ socket \in Seq(1..MaxPackets)
    /\ fin \in BOOLEAN /\ armed \in BOOLEAN
    /\ signals \subseteq Signals /\ gameSignal \in BOOLEAN
    /\ state \in States
    /\ connectionIsOk \in BOOLEAN
    /\ waitingForACK \in BOOLEAN /\ sigIOPending \in BOOLEAN
    /\ inData \in 0..MaxPackets
    /\ outData \in [0..(Capacity - 1) -> Byte]
    /\ nextToSend \in Nat /\ nextToCommit \in Nat /\ nextToWrite \in Nat
    /\ overflow \in BOOLEAN /\ willingToSend \in BOOLEAN
    /\ pc \in Points /\ first \in BOOLEAN /\ amount \in Nat
    /\ gpc \in GamePoints
    /\ answer \in [id : Nat, size : Nat, left : Seq(1..Capacity), at : Nat]
    /\ answers \in 0..MaxAnswers
    /\ handled \in Seq(1..MaxPackets)
    /\ received \in Seq(Byte)
    /\ packets \in Seq(Nat)

\* What the client has sent and the game may still parse.
Unread == IF state = "CONNECTED" \/ Live
          THEN (IF inData = 0 THEN <<>> ELSE <<inData>>)
               \o (IF connectionIsOk THEN socket ELSE <<>>)
          ELSE <<>>

\* The communication thread has left its loop.
Over == pc \in {"leave", "closed"}

\* What the game has committed and the client may still get.
Unsent == IF Over THEN <<>> ELSE Bytes(nextToSend, nextToCommit)

Commands == INSTANCE Stream WITH queue <- Unread, out <- handled,
                                 open <- connectionIsOk
Output == INSTANCE Stream WITH queue <- Unsent, out <- received,
                               open <- ~Over

\* Handed from thread to thread through one buffer and a flag, the packets of
\* the client are still a stream: the game parses each once, in order, none
\* overwritten in InData, and none after the connection has been given up.
InputIsAStream == Commands!Spec

\* The ring and its three counters are a stream: the bytes the game commits
\* reach the client once, in order, across every wrap of the ring, while the
\* game writes new ones beside those being sent.
OutputIsAStream == Output!Spec

\* An answer that does not fit is dropped whole: what is on the wire or
\* committed is whole answers one after another, so a client that reads
\* opcodes never starts in the middle of one.
NoTornAnswer ==
    LET all == received \o Bytes(nextToSend, nextToCommit)
        Place(i) == all[i][2]
        Length(i) == all[i][3]
    IN  \A i \in 1..Len(all) :
           /\ Place(i) = 1 => i = 1 \/ Place(i - 1) = Length(i - 1)
           /\ Place(i) # 1 => /\ i > 1
                              /\ all[i - 1] = <<all[i][1], Place(i) - 1, Length(i)>>
           /\ i = Len(all) => Place(i) = Length(i)

\* The game thread never writes over bytes the communication thread has not
\* sent, and the communication thread never sends past the commit counter it
\* read, although neither takes a lock.
RingInBounds ==
    /\ nextToSend + amount <= nextToCommit
    /\ answer # Idle => nextToCommit <= nextToWrite
    /\ nextToCommit - nextToSend <= Capacity
    /\ nextToWrite - nextToSend <= Capacity

Asleep == pc = "wait" /\ connectionIsOk

\* The communication thread never sleeps on input it will not be woken for:
\* SIGIO is pending, or it knows there is more and the acknowledgement that
\* wakes it is pending or still to come.
NoForgottenInput ==
    Asleep /\ (socket # <<>> \/ fin)
        => \/ "IO" \in signals
           \/ /\ sigIOPending
              /\ waitingForACK \/ gpc = "notify" \/ "USR1" \in signals

\* It never sleeps on committed answers either: SIGUSR2 is pending or the
\* next SendAll raises it, although a pending SIGUSR2 is not queued twice.
NoForgottenOutput ==
    Asleep /\ Live /\ nextToSend < nextToCommit
        => "USR2" \in signals \/ willingToSend

\* Neither thread's work is left lying because a wake-up was merged with one
\* that was pending already or came while the other thread was busy.
NothingForgotten == NoForgottenInput /\ NoForgottenOutput

\* Every packet is parsed, and every committed byte sent, unless the
\* connection is given up: the wake-ups of the two threads never deadlock.
Delivered ==
    /\ \A n \in 1..MaxPackets :
          sent >= n ~> Len(handled) >= n \/ ~connectionIsOk
    /\ \A n \in 1..(Capacity * MaxAnswers) :
          nextToCommit >= n ~> nextToSend >= n \/ ~connectionIsOk

\* A client that is gone gives its slot in the connection table back.
Released == fin ~> state = "FREE"

\* SIGUSR2 means "there is pending data in the connection's output buffer"
\* (sending.cc), so a packet carries data.
NoEmptyPacket == \A i \in 1..Len(packets) : packets[i] > 0
=============================================================================
