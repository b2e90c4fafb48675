-------------------------- MODULE ClientTransport --------------------------
(* The client's end of a game connection: the socket (tcp_transport.cpp),   *)
(* the frame decoder over it (framing.cpp, framed_connection.cpp), the      *)
(* queue of complete frames (gamelogin.cpp), and the loop of the worker     *)
(* thread that reads messages and writes commands (Real33DBridge.cpp).      *)
(*                                                                          *)
(* TCP delivers the server's bytes in pieces of any size; a piece may end   *)
(* inside a header and may hold several frames.  The server may close,      *)
(* reset or vanish between any two bytes, and the game thread may ask the   *)
(* worker to stop at any time.                                              *)
(*                                                                          *)
(* A byte is a number below Base.  Decryption and the game's commands are   *)
(* abstracted to the first byte of a payload: 0 for a message the client    *)
(* goes on after, anything else for one that ends the session.              *)
EXTENDS Integers, Sequences

CONSTANTS
    Base,           \* values of a byte, 256 in the code
    MaxPayload,     \* limits.max_receive_payload
    Chunk,          \* read_chunk_size
    MaxReads,       \* messages between two drains of the intents, 8
    MaxAttempts,    \* reads ReadNextMessage makes for one message, 100
    CommandSize,    \* bytes of a framed command
    Sizes,          \* payload sizes the other end may announce
    MaxFrames,      \* bound: frames it sends
    MaxCommands     \* bound: commands the worker sends before the logout

ASSUME ByteAssumption == Base \in Nat \ {0, 1}
ASSUME LimitAssumption == /\ MaxPayload \in 1..(Base * Base - 1)
                          /\ Sizes \subseteq 0..(Base * Base - 1)
ASSUME LoopAssumption == {Chunk, MaxReads, MaxAttempts, CommandSize} \subseteq Nat \ {0}
ASSUME BoundsAssumption == MaxFrames \in Nat /\ MaxCommands \in Nat

VARIABLES
    sent,           \* payloads the server has sent
    wire,           \* its bytes that the client has not read
    fin,            \* how the server's end is: open, closed, reset, broken
    conn,           \* TcpTransport's ConnectionState
    buffer,         \* FrameDecoder::buffer_
    expected,       \* expected_payload_size_, 0 when unknown
    error,          \* FrameDecoder::error_
    frames,         \* pending_frames_
    delivered,      \* payloads handed to the message loop, in order
    uplink,         \* bytes the server's end has been sent, <<command, index>>
    command,        \* commands begun
    left,           \* bytes of the current one not yet written
    pc,             \* where the worker is
    after,          \* where it goes on once the command is written
    reads, attempts,
    stopping,       \* bStopping
    ended           \* what the worker has published as the end

peer    == <<sent, wire, fin>>
decoder == <<buffer, expected, error, frames>>
writer  == <<uplink, command, left, after>>
loop    == <<pc, reads, attempts>>
vars == <<peer, conn, decoder, delivered, writer, loop, stopping, ended>>

-----------------------------------------------------------------------------
Frame(payload) ==
    <<Len(payload) % Base, Len(payload) \div Base>> \o payload

Init ==
    /\ sent = <<>> /\ wire = <<>> /\ fin = "open"
    /\ conn = "Connected"
    /\ buffer = <<>> /\ expected = 0 /\ error = "None" /\ frames = <<>>
    /\ delivered = <<>>
    /\ uplink = <<>> /\ command = 0 /\ left = 0 /\ after = "drain"
    /\ pc = "drain" /\ reads = 0 /\ attempts = 0
    /\ stopping = FALSE
    /\ ended = "none"

-----------------------------------------------------------------------------
(* The server and the network.                                              *)

PeerSends ==
    /\ fin = "open"
    /\ Len(sent) < MaxFrames
    /\ \E n \in Sizes, kind \in {0, 1} :
        LET payload == [i \in 1..n |-> IF i = 1 THEN kind ELSE Base - 1]
        IN  /\ sent' = Append(sent, payload)
            /\ wire' = wire \o Frame(payload)
    /\ UNCHANGED <<fin, conn, decoder, delivered, writer, loop, stopping, ended>>

\* An orderly close: what was sent before can still be read.
PeerCloses ==
    /\ fin = "open"
    /\ fin' = "closed"
    /\ UNCHANGED <<sent, wire, conn, decoder, delivered, writer, loop,
                   stopping, ended>>

\* A reset, or a link that breaks: a tail of what was sent is lost.
LinkDies ==
    /\ fin = "open"
    /\ fin' \in {"reset", "broken"}
    /\ \E n \in 0..Len(wire) : wire' = SubSeq(wire, 1, n)
    /\ UNCHANGED <<sent, conn, decoder, delivered, writer, loop, stopping, ended>>

\* The game thread: UReal33DBridge::Disconnect sets bStopping and joins.
Stop ==
    /\ ~stopping
    /\ stopping' = TRUE
    /\ UNCHANGED <<peer, conn, decoder, delivered, writer, loop, ended>>

\* The joined worker is destroyed and its socket with it.
Destroy ==
    /\ stopping /\ pc = "done" /\ conn # "Disconnected"
    /\ conn' = "Disconnected"
    /\ UNCHANGED <<peer, decoder, delivered, writer, loop, stopping, ended>>

-----------------------------------------------------------------------------
(* Writing: SendCommand, SendFrame and WriteAll.                            *)

\* A command of DrainIntents, or the keepalive; bStopping may have been set
\* since the loop looked at it.
SendCommand ==
    /\ pc = "drain"
    /\ conn = "Connected" /\ command < MaxCommands
    /\ command' = command + 1 /\ left' = CommandSize /\ after' = "drain"
    /\ pc' = "write"
    /\ UNCHANGED <<peer, conn, decoder, delivered, uplink, reads, attempts,
                   stopping, ended>>

\* The definitions named Bug... are plausible mistakes in the operator they
\* stand before; nothing uses them.
BugLogoutNeedsLink ==
    /\ pc = "drain" /\ stopping /\ conn = "Connected"
    /\ command' = command + 1 /\ left' = CommandSize /\ after' = "quit"
    /\ pc' = "write"
    /\ UNCHANGED <<peer, conn, decoder, delivered, uplink, reads, attempts,
                   stopping, ended>>

\* The loop's condition fails: the logout command, then Session.Disconnect.
Quit ==
    /\ pc = "drain" /\ stopping
    /\ IF conn = "Connected"
       THEN /\ command' = command + 1 /\ left' = CommandSize /\ after' = "quit"
            /\ pc' = "write"
       ELSE /\ pc' = "quit"
            /\ UNCHANGED <<command, left, after>>
    /\ UNCHANGED <<peer, conn, decoder, delivered, uplink, reads, attempts,
                   stopping, ended>>

\* One send: the kernel takes as much as it has room for.
SendBytes ==
    /\ pc = "write" /\ left > 0
    /\ \E n \in 1..left :
        /\ uplink' = uplink \o [i \in 1..n |-> <<command, CommandSize - left + i>>]
        /\ left' = left - n
    /\ pc' = IF left' = 0 THEN after ELSE "write"
    /\ UNCHANGED <<peer, conn, decoder, delivered, command, after, reads,
                   attempts, stopping, ended>>

BugLinkKept ==
    /\ pc = "write" /\ left > 0
    /\ left' = 0
    /\ pc' = after
    /\ UNCHANGED <<peer, conn, decoder, delivered, uplink, command, after, reads,
                   attempts, stopping, ended>>

\* A send that times out, finds the connection gone, or fails otherwise.  The
\* rest of the frame is given up and the socket closed.
SendFails ==
    /\ pc = "write" /\ left > 0
    /\ conn' \in {"Failed"} \cup (IF fin \in {"closed", "reset"}
                             THEN {"RemoteClosed"} ELSE {})
    /\ left' = 0
    /\ pc' = after
    /\ UNCHANGED <<peer, decoder, delivered, uplink, command, after, reads,
                   attempts, stopping, ended>>

\* Session.Disconnect: the decoder is reset and the frames dropped.
Disconnected ==
    /\ conn' = "Disconnected"
    /\ buffer' = <<>> /\ expected' = 0 /\ error' = "None" /\ frames' = <<>>

LogOut ==
    /\ pc = "quit"
    /\ Disconnected
    /\ ended' = "quit" /\ pc' = "done"
    /\ UNCHANGED <<peer, delivered, writer, reads, attempts, stopping>>

-----------------------------------------------------------------------------
(* Reading: Feed, ReadOnce, ReadNextMessage and the worker's loop.          *)

BugNoLimit(r, b) ==
    LET buf  == Append(r.buffer, b)
        size == IF r.expected = 0 THEN buf[1] + Base * buf[2] ELSE r.expected
    IN  CASE r.error # "None" -> r
          [] r.error = "None" /\ Len(buf) < 2 -> [r EXCEPT !.buffer = buf]
          [] r.error = "None" /\ Len(buf) >= 2 /\ size = 0 ->
                [r EXCEPT !.buffer = buf, !.error = "ZeroLength"]
          [] r.error = "None" /\ Len(buf) >= 2 /\ size > 0 /\ Len(buf) < 2 + size ->
                [r EXCEPT !.buffer = buf, !.expected = size]
          [] OTHER ->
                [r EXCEPT !.buffer = <<>>, !.expected = 0,
                          !.frames = Append(@, SubSeq(buf, 3, Len(buf)))]

\* One byte into r = [buffer, expected, error, frames].  After an error no
\* byte is consumed.
FeedByte(r, b) ==
    LET buf  == Append(r.buffer, b)
        size == IF r.expected = 0 THEN buf[1] + Base * buf[2] ELSE r.expected
    IN  CASE r.error # "None" -> r
          [] r.error = "None" /\ Len(buf) < 2 -> [r EXCEPT !.buffer = buf]
          [] r.error = "None" /\ Len(buf) >= 2 /\ size = 0 ->
                [r EXCEPT !.buffer = buf, !.error = "ZeroLength"]
          [] r.error = "None" /\ Len(buf) >= 2 /\ size > MaxPayload ->
                [r EXCEPT !.buffer = buf, !.expected = size,
                          !.error = "ExceedsConfiguredMaximum"]
          [] r.error = "None" /\ Len(buf) >= 2 /\ size \in 1..MaxPayload
                /\ Len(buf) < 2 + size ->
                [r EXCEPT !.buffer = buf, !.expected = size]
          [] OTHER ->
                [r EXCEPT !.buffer = <<>>, !.expected = 0,
                          !.frames = Append(@, SubSeq(buf, 3, Len(buf)))]

Feed(data) ==
    LET upTo[i \in 0..Len(data)] ==
            IF i = 0 THEN [buffer |-> buffer, expected |-> expected,
                           error |-> error, frames |-> <<>>]
            ELSE FeedByte(upTo[i - 1], data[i])
    IN  upTo[Len(data)]

BugOrderlyUnlessFailed(latched) ==
    /\ ended' = IF latched = "Failed" THEN "lost" ELSE "orderly"
    /\ pc' = "done"
    /\ UNCHANGED <<reads, attempts>>

\* The worker's Run publishes Disconnected and returns.  Only the state the
\* transport latched tells a close by the server from a lost link.
LinkEnds(latched) ==
    /\ ended' = IF latched = "RemoteClosed" THEN "orderly" ELSE "lost"
    /\ pc' = "done"
    /\ UNCHANGED <<reads, attempts>>

\* ReadNextMessage comes back with nothing and the worker leaves its reads.
NoMessage == /\ pc' = "drain" /\ reads' = 0 /\ attempts' = 0
             /\ UNCHANGED ended

\* A read that completed no frame: ReadNextMessage tries again, so often.
TryAgain ==
    IF attempts + 1 < MaxAttempts
    THEN attempts' = attempts + 1 /\ UNCHANGED <<pc, reads, ended>>
    ELSE NoMessage

\* Between two messages the loop looks at bStopping and counts its reads.
StartReads ==
    /\ pc = "drain" /\ ~stopping
    /\ pc' = "read" /\ reads' = 0 /\ attempts' = 0
    /\ UNCHANGED <<peer, conn, decoder, delivered, writer, stopping, ended>>

StopReads ==
    /\ pc = "read" /\ attempts = 0
    /\ stopping \/ reads = MaxReads
    /\ pc' = "drain" /\ reads' = 0
    /\ UNCHANGED <<peer, conn, decoder, delivered, writer, attempts, stopping,
                   ended>>

Reading == pc = "read" /\ (attempts > 0 \/ (reads < MaxReads /\ ~stopping))

BugRestDropped(fs) ==
    LET payload == Head(fs)
    IN  /\ delivered' = Append(delivered, payload)
        /\ frames' = <<>>
        /\ IF payload[1] = 0
           THEN reads' = reads + 1 /\ attempts' = 0 /\ UNCHANGED <<conn, pc, ended>>
           ELSE /\ ended' = "refused" /\ pc' = "done" /\ conn' = "Disconnected"
                /\ UNCHANGED <<reads, attempts>>

\* The first of the given frames is handed on; the others stay pending.  A
\* message the session ends with is a refusal (the worker disconnects), one
\* that cannot be decoded (it returns with the socket as it is), or one that
\* cannot be decrypted (taken for the end of the link).
Deliver(fs) ==
    LET payload == Head(fs)
    IN  IF payload[1] = 0
        THEN /\ delivered' = Append(delivered, payload)
             /\ frames' = Tail(fs)
             /\ reads' = reads + 1 /\ attempts' = 0
             /\ UNCHANGED <<conn, pc, ended>>
        ELSE \/ /\ delivered' = Append(delivered, payload)
                /\ ended' = "refused" /\ pc' = "done"
                /\ conn' = "Disconnected" /\ frames' = <<>>
                /\ UNCHANGED <<reads, attempts>>
             \/ /\ delivered' = Append(delivered, payload)
                /\ ended' = "undecodable" /\ pc' = "done"
                /\ frames' = Tail(fs)
                /\ UNCHANGED <<conn, reads, attempts>>
             \/ /\ LinkEnds(conn)
                /\ frames' = Tail(fs)
                /\ UNCHANGED <<conn, delivered>>

TakePending ==
    /\ Reading /\ frames # <<>>
    /\ Deliver(frames)
    /\ \/ /\ ended' = "refused"
          /\ buffer' = <<>> /\ expected' = 0 /\ error' = "None"
       \/ /\ ended' # "refused"
          /\ UNCHANGED <<buffer, expected, error>>
    /\ UNCHANGED <<peer, writer, stopping>>

\* recv returns bytes.  A framing error in them ends the session at once: the
\* first of the frames completed before it is taken, but not processed.
ReadBytes ==
    /\ Reading /\ frames = <<>> /\ conn = "Connected" /\ wire # <<>>
    /\ \E n \in 1..(IF Chunk < Len(wire) THEN Chunk ELSE Len(wire)) :
        LET r == Feed(SubSeq(wire, 1, n))
        IN  /\ wire' = SubSeq(wire, n + 1, Len(wire))
            /\ IF r.error = "None" /\ r.frames # <<>>
               THEN /\ Deliver(r.frames)
                    /\ buffer' = (IF ended' = "refused" THEN <<>> ELSE r.buffer)
                    /\ expected' = (IF ended' = "refused" THEN 0 ELSE r.expected)
                    /\ error' = "None"
               ELSE /\ buffer' = r.buffer /\ expected' = r.expected
                    /\ error' = r.error
                    /\ frames' = (IF r.frames = <<>> THEN <<>> ELSE Tail(r.frames))
                    /\ IF r.error = "None" THEN TryAgain ELSE LinkEnds(conn)
                    /\ UNCHANGED <<conn, delivered>>
    /\ UNCHANGED <<sent, fin, writer, stopping>>

ReadTimesOut ==
    /\ Reading /\ frames = <<>> /\ conn = "Connected" /\ wire = <<>>
    /\ fin \in {"open", "broken"}
    /\ NoMessage
    /\ UNCHANGED <<peer, conn, decoder, delivered, writer, stopping>>

\* recv returns 0, or an error that means the server's end is gone.  Finish
\* complains only of a frame cut short; otherwise the next read finds the
\* socket closed.
ReadClosed ==
    /\ Reading /\ frames = <<>> /\ conn = "Connected" /\ wire = <<>>
    /\ fin \in {"closed", "reset"}
    /\ conn' = "RemoteClosed"
    /\ IF buffer # <<>>
       THEN /\ error' = "TruncatedFrame" /\ LinkEnds("RemoteClosed")
       ELSE /\ UNCHANGED error /\ TryAgain
    /\ UNCHANGED <<peer, buffer, expected, frames, delivered, writer, stopping>>

\* Any other error of recv.
ReadFails ==
    /\ Reading /\ frames = <<>> /\ conn = "Connected" /\ wire = <<>>
    /\ fin = "broken"
    /\ conn' = "Failed"
    /\ LinkEnds("Failed")
    /\ UNCHANGED <<peer, decoder, delivered, writer, stopping>>

ReadNotConnected ==
    /\ Reading /\ frames = <<>> /\ conn # "Connected"
    /\ LinkEnds(conn)
    /\ UNCHANGED <<peer, conn, decoder, delivered, writer, stopping>>

-----------------------------------------------------------------------------
Worker ==
    \/ SendCommand \/ Quit \/ SendBytes \/ SendFails \/ LogOut
    \/ StartReads \/ StopReads \/ TakePending
    \/ ReadBytes \/ ReadTimesOut \/ ReadClosed \/ ReadFails \/ ReadNotConnected

Next ==
    \/ PeerSends \/ PeerCloses \/ LinkDies
    \/ Stop \/ Destroy
    \/ Worker

Spec == Init /\ [][Next]_vars

\* The worker's thread is scheduled, no call on the socket blocks for longer
\* than its timeout, a broken link is reported in the end, and a join is
\* followed by the destruction of the worker.
Fairness == WF_vars(Worker) /\ SF_vars(ReadFails) /\ WF_vars(Destroy)

FairSpec == Spec /\ Fairness

-----------------------------------------------------------------------------
(* Properties.                                                              *)

Byte == 0..(Base - 1)

\* The state is made of the values the code gives it, and the decoder never
\* holds more than one frame's bytes.
TypeOK ==
    /\ sent \in Seq(Seq(Byte)) /\ wire \in Seq(Byte)
    /\ fin \in {"open", "closed", "reset", "broken"}
    /\ conn \in {"Connected", "RemoteClosed", "Failed", "Disconnected"}
    /\ buffer \in Seq(Byte) /\ Len(buffer) < 2 + MaxPayload
    /\ expected \in 0..(Base * Base - 1)
    /\ error \in {"None", "ZeroLength", "ExceedsConfiguredMaximum",
                  "TruncatedFrame"}
    /\ frames \in Seq(Seq(Byte)) /\ delivered \in Seq(Seq(Byte))
    /\ uplink \in Seq(Nat \X Nat)
    /\ command \in 0..(MaxCommands + 1) /\ left \in 0..CommandSize
    /\ pc \in {"drain", "write", "read", "quit", "done"}
    /\ after \in {"drain", "quit"}
    /\ reads \in 0..MaxReads /\ attempts \in 0..(MaxAttempts - 1)
    /\ stopping \in BOOLEAN
    /\ ended \in {"none", "orderly", "lost", "refused", "undecodable", "quit"}

\* "A partial frame cannot be safely resumed" (tcp_transport.cpp:507): what
\* the server is sent is whole commands in the order of their sending, with at
\* most the last one cut off.
Following(byte) == IF byte[2] < CommandSize THEN <<byte[1], byte[2] + 1>>
                                            ELSE <<byte[1] + 1, 1>>
UplinkIsWhole ==
    \A i \in 1..Len(uplink) :
        uplink[i] = IF i = 1 THEN <<1, 1>> ELSE Following(uplink[i - 1])

\* "WHY it ended, not just that it did" (Real33DBridge.cpp:462): an orderly
\* close is reported only of a server whose end is gone, and a lost link only
\* after a fault of the link or of what came over it, never because the server
\* closed between two frames.
EndSaysWhy ==
    [][ended = "none" =>
        /\ ended' = "orderly" => fin \in {"closed", "reset"}
        /\ ended' = "lost" =>
            \/ conn' = "Failed"
            \/ error' \in {"ZeroLength", "ExceedsConfiguredMaximum"}
            \/ \E i \in 1..Len(sent) : sent[i] # <<>> /\ sent[i][1] # 0]_vars

\* The bytes that the given payloads take on the wire, those of the given
\* kinds.
Framed(payloads, kinds) ==
    LET upTo[i \in 0..Len(payloads)] ==
            IF i = 0 THEN <<>>
            ELSE upTo[i - 1]
                 \o (IF payloads[i][1] \in kinds THEN Frame(payloads[i]) ELSE <<>>)
    IN  upTo[Len(payloads)]

\* However the reads cut the stream -- inside a header, inside a payload, or
\* behind several frames -- the socket, the decoder and the pending frames
\* are a stream: while the session runs every byte the server sent is handed
\* on once, in order, as a part of the message it was sent in, or is still to
\* come (framing.cpp:39).
Messages == INSTANCE Stream WITH
    queue <- IF ended = "none" THEN Framed(frames, Byte) \o buffer \o wire ELSE <<>>,
    out   <- Framed(delivered, {0}),
    open  <- ended = "none" /\ fin \in {"open", "closed"}
MessagesAreAStream == Messages!Spec

\* A server that closes, resets or vanishes is noticed.
PeerEndIsSeen == (fin # "open") ~> (ended # "none")

\* A worker that is told to stop ends and gives up its socket, whatever it is
\* reading or writing: the game thread is blocked in a join meanwhile.
StopReleasesSocket == stopping ~> (conn = "Disconnected" /\ pc = "done")

\* The two ways a session can be told to be over, by the server's end and by
\* the player's, both reach their end.
EndsAreReached == PeerEndIsSeen /\ StopReleasesSocket
=============================================================================
