----------------------- MODULE ClientTransportProofs -----------------------
(* Proofs about ClientTransport for every size of a byte, of a payload, of  *)
(* a read and of a command, and any number of frames and commands.          *)
EXTENDS ClientTransport, DataInduction, SequenceTheorems, TLAPS

-----------------------------------------------------------------------------
(* The inductive invariant of the sending direction.                        *)

\* The byte the server was sent last; before the first, one that the first
\* byte of the first command follows.
Last == IF uplink = <<>> THEN <<0, CommandSize>> ELSE uplink[Len(uplink)]

\* A command is being written: what is left begins behind the last byte.
Midway == /\ conn = "Connected"
          /\ left \in 1..CommandSize
          /\ Following(Last) = <<command, CommandSize - left + 1>>

\* No command is being written, and the socket has not been given up.
Between == Last = <<command, CommandSize>>

Places == {"drain", "write", "read", "quit", "done"}

UplinkInv ==
    /\ uplink \in Seq(Nat \X Nat)
    /\ command \in Nat
    /\ pc \in Places /\ after \in {"drain", "quit"}
    /\ UplinkIsWhole
    /\ pc = "write" => Midway
    /\ pc # "write" /\ conn = "Connected" => Between

\* What a sequence put behind another one looks like.
LEMMA AppendFacts ==
    ASSUME NEW S, NEW s \in Seq(S), NEW t \in Seq(S), NEW u, u = s \o t
    PROVE  /\ u \in Seq(S) /\ Len(s) \in Nat /\ Len(u) = Len(s) + Len(t)
           /\ \A i \in 1..Len(s) : u[i] = s[i]
           /\ \A i \in 1..Len(t) : u[Len(s) + i] = t[i]
  BY SMT

LEMMA UplinkAppended ==
    ASSUME NEW S, uplink \in Seq(S), NEW t \in Seq(S), uplink' = uplink \o t
    PROVE  /\ uplink' \in Seq(S) /\ Len(uplink) \in Nat
           /\ Len(uplink') = Len(uplink) + Len(t)
           /\ \A i \in 1..Len(uplink) : uplink'[i] = uplink[i]
           /\ \A i \in 1..Len(t) : uplink'[Len(uplink) + i] = t[i]
  BY AppendFacts

\* The bytes of a piece of a command, put behind the last one, are in order.
LEMMA PieceFollows ==
    ASSUME UplinkInv, pc = "write",
           NEW n \in 1..left, NEW piece \in Seq(Nat \X Nat), Len(piece) = n,
           \A i \in 1..n : piece[i] = <<command, CommandSize - left + i>>,
           uplink' = uplink \o piece
    PROVE  /\ uplink' \in Seq(Nat \X Nat)
           /\ UplinkIsWhole'
           /\ Last' = <<command, CommandSize - left + n>>
<1> USE LoopAssumption
<1>1. /\ left \in 1..CommandSize /\ CommandSize \in Nat \ {0} /\ n \in Nat \ {0}
      /\ command \in Nat /\ uplink \in Seq(Nat \X Nat)
      /\ Following(Last) = <<command, CommandSize - left + 1>>
  BY SMT DEF UplinkInv, Midway
<1>2. /\ Len(piece) = n
      /\ \A i \in 1..n : piece[i] = <<command, CommandSize - left + i>>
  OBVIOUS
<1>3. /\ uplink' \in Seq(Nat \X Nat) /\ Len(uplink') = Len(uplink) + n
      /\ Len(uplink) \in Nat
      /\ \A i \in 1..Len(uplink) : uplink'[i] = uplink[i]
      /\ \A i \in 1..n : uplink'[Len(uplink) + i] = piece[i]
  <2>1. /\ uplink' \in Seq(Nat \X Nat) /\ Len(uplink) \in Nat
        /\ Len(uplink') = Len(uplink) + Len(piece)
        /\ \A i \in 1..Len(uplink) : uplink'[i] = uplink[i]
        /\ \A i \in 1..Len(piece) : uplink'[Len(uplink) + i] = piece[i]
    BY <1>1, UplinkAppended, Zenon
  <2> QED BY <1>2, <2>1
<1>4. Last' = <<command, CommandSize - left + n>>
  <2>1. uplink' # <<>> /\ Len(uplink') = Len(uplink) + n
    BY <1>1, <1>3, SMT
  <2>2. uplink'[Len(uplink) + n] = <<command, CommandSize - left + n>>
    BY <1>1, <1>2, <1>3, SMT
  <2> QED BY <2>1, <2>2 DEF Last
<1>5. ASSUME NEW i \in 1..Len(uplink')
      PROVE  uplink'[i] = IF i = 1 THEN <<1, 1>> ELSE Following(uplink'[i - 1])
  <2>1. CASE i \in 1..Len(uplink)
    <3>1. uplink'[i] = uplink[i] /\ (i # 1 => i - 1 \in 1..Len(uplink))
      <4>1. uplink'[i] = uplink[i]
        BY <1>3, <2>1, Zenon
      <4>2. Len(uplink) \in Nat
        BY <1>3, Zenon
      <4>3. i # 1 => i - 1 \in 1..Len(uplink)
        BY ONLY <4>2, i \in 1..Len(uplink), SMT
      <4> QED BY ONLY <4>1, <4>3
    <3>2. i # 1 => uplink'[i - 1] = uplink[i - 1]
      BY <1>3, <3>1
    <3>3. uplink[i] = IF i = 1 THEN <<1, 1>> ELSE Following(uplink[i - 1])
      BY <2>1 DEF UplinkInv, UplinkIsWhole
    <3> QED BY <3>1, <3>2, <3>3
  <2>2. CASE i = Len(uplink) + 1
    <3>1. uplink'[i] = <<command, CommandSize - left + 1>>
      BY <1>1, <1>2, <1>3, <2>2, SMT
    <3>2. uplink'[i] = Following(Last)
      BY <1>1, <3>1
    <3>3. CASE i = 1
      <4>1. uplink = <<>>
        BY <1>1, <2>2, <3>3, SMT
      <4>2. Last = <<0, CommandSize>>
        BY <4>1 DEF Last
      <4>3. Following(Last) = <<1, 1>>
        BY <1>1, <4>2, SMT DEF Following
      <4> QED BY <3>2, <3>3, <4>3
    <3>4. CASE i # 1
      <4>1. uplink # <<>> /\ i - 1 = Len(uplink) /\ i - 1 \in 1..Len(uplink)
        BY <1>1, <1>3, <2>2, <3>4, SMT
      <4>2. Last = uplink'[i - 1]
        BY <1>3, <4>1 DEF Last
      <4> QED BY <3>2, <3>4, <4>2
    <3> QED BY <3>3, <3>4
  <2>3. CASE i \in (Len(uplink) + 2)..(Len(uplink) + n)
    <3> DEFINE k == i - Len(uplink)
    <3>1. k \in 2..n /\ i = Len(uplink) + k
      BY <1>1, <1>3, <2>3, SMT
    <3> HIDE DEF k
    <3>2. uplink'[i] = <<command, CommandSize - left + k>>
      BY <1>2, <1>3, <3>1, SMTT(40)
    <3>3. uplink'[i - 1] = <<command, CommandSize - left + k - 1>>
      <4>1. k - 1 \in 1..n /\ i - 1 = Len(uplink) + (k - 1)
        BY <1>1, <1>3, <3>1, SMT
      <4>2. uplink'[Len(uplink) + (k - 1)] = piece[k - 1]
        BY <1>3, <4>1
      <4>3. piece[k - 1] = <<command, CommandSize - left + (k - 1)>>
        BY <1>2, <4>1
      <4>4. CommandSize - left + (k - 1) = CommandSize - left + k - 1
        BY <1>1, <3>1, SMT
      <4> QED BY <4>1, <4>2, <4>3, <4>4
    <3>4. k - 1 \in Nat /\ CommandSize - left + k - 1 < CommandSize
          /\ CommandSize - left + k - 1 + 1 = CommandSize - left + k
      BY <1>1, <3>1, SMT
    <3>5. Following(uplink'[i - 1]) = <<command, CommandSize - left + k>>
      BY <1>1, <3>3, <3>4 DEF Following
    <3>6. i # 1
      BY <1>3, <3>1, SMT
    <3> QED BY <3>2, <3>5, <3>6
  <2>4. i \in 1..(Len(uplink) + n) /\ Len(uplink) \in Nat /\ n \in Nat
    BY <1>1, <1>3
  <2>5. \/ i \in 1..Len(uplink) \/ i = Len(uplink) + 1
        \/ i \in (Len(uplink) + 2)..(Len(uplink) + n)
    BY <2>4, SMT
  <2> QED BY <2>1, <2>2, <2>3, <2>5
<1> QED BY <1>3, <1>4, <1>5 DEF UplinkIsWhole

-----------------------------------------------------------------------------
\* What the sending direction looks at.
UplinkVars == <<uplink, command, left, pc, after, conn>>

\* A step that writes nothing leaves the socket as it is or gives it up, and
\* begins no command.
LEMMA NothingWritten ==
    ASSUME UplinkInv, UNCHANGED <<uplink, command, after>>, pc # "write",
           pc' \in Places \ {"write"}, conn' = conn \/ conn' # "Connected"
    PROVE  UplinkInv'
<1>1. UplinkIsWhole'
  BY Zenon DEF UplinkInv, UplinkIsWhole
<1>2. Last' = Last
  BY DEF Last
<1> QED BY <1>1, <1>2, SMT DEF UplinkInv, Between

LEMMA UplinkInitial == Init => UplinkInv
<1> SUFFICES ASSUME Init PROVE UplinkInv
  OBVIOUS
<1>1. uplink = <<>> /\ command = 0 /\ pc = "drain" /\ after = "drain"
  BY DEF Init
<1>2. UplinkIsWhole
  BY <1>1, SMT DEF UplinkIsWhole
<1> QED BY <1>1, <1>2, SMT DEF UplinkInv, Between, Last, Places

LEMMA UplinkStep ==
    ASSUME UplinkInv, [Next]_vars
    PROVE  UplinkInv'
<1> USE LoopAssumption
<1>1. CASE SendCommand \/ (Quit /\ conn = "Connected")
  <2>1. /\ pc = "drain" /\ conn = "Connected" /\ conn' = conn
        /\ command' = command + 1 /\ left' = CommandSize
        /\ pc' = "write" /\ after' \in {"drain", "quit"} /\ uplink' = uplink
    BY <1>1, SMT DEF SendCommand, Quit
  <2>2. Last' = <<command, CommandSize>> /\ command \in Nat /\ CommandSize \in Nat \ {0}
    BY <2>1 DEF UplinkInv, Between, Last
  <2>3. Following(Last)' = <<command + 1, 1>>
    BY <2>2, SMT DEF Following
  <2>4. Midway'
    BY <2>1, <2>2, <2>3, SMT DEF Midway
  <2>5. UplinkIsWhole'
    BY <2>1, Zenon DEF UplinkInv, UplinkIsWhole
  <2> QED BY <2>1, <2>2, <2>4, <2>5, SMT DEF UplinkInv, Places
<1>2. CASE Quit /\ conn # "Connected"
  <2>1. UNCHANGED <<uplink, command, after, conn>> /\ pc = "drain" /\ pc' = "quit"
    BY <1>2 DEF Quit
  <2> QED BY <2>1, NothingWritten DEF Places
<1>3. CASE SendBytes
  <2>1. /\ pc = "write" /\ UNCHANGED <<command, after, conn>>
        /\ pc' = IF left' = 0 THEN after ELSE "write"
    BY <1>3 DEF SendBytes
  <2>2. PICK n \in 1..left :
           /\ uplink' = uplink \o [i \in 1..n |-> <<command, CommandSize - left + i>>]
           /\ left' = left - n
    BY <1>3 DEF SendBytes
  <2>3. /\ uplink' \in Seq(Nat \X Nat) /\ UplinkIsWhole'
        /\ Last' = <<command, CommandSize - left + n>>
    <3> DEFINE piece == [i \in 1..n |-> <<command, CommandSize - left + i>>]
    <3>1. left \in 1..CommandSize /\ n \in Nat /\ command \in Nat /\ CommandSize \in Nat
      BY <2>1, <2>2, SMT DEF UplinkInv, Midway
    <3>2. \A i \in 1..n : piece[i] = <<command, CommandSize - left + i>>
      OBVIOUS
    <3>3. \A i \in 1..n : piece[i] \in Nat \X Nat
      BY <3>1, SMT
    <3>4. piece \in [1..n -> Nat \X Nat]
      BY <3>3
    <3>5. uplink' = uplink \o piece
      BY <2>2
    <3> HIDE DEF piece
    <3>6. piece \in Seq(Nat \X Nat) /\ Len(piece) = n
      BY <3>1, <3>4, SMT
    <3> QED BY <2>1, <3>2, <3>5, <3>6, PieceFollows
  <2>4. left \in 1..CommandSize /\ command \in Nat /\ after \in {"drain", "quit"}
        /\ CommandSize \in Nat \ {0} /\ conn = "Connected"
    BY <2>1 DEF UplinkInv, Midway
  <2>5. CASE left' = 0
    <3>1. Last' = <<command, CommandSize>> /\ pc' \in {"drain", "quit"}
      BY <2>1, <2>2, <2>3, <2>4, <2>5, SMT
    <3> QED BY <2>1, <2>3, <2>4, <3>1, SMT DEF UplinkInv, Between, Places
  <2>6. CASE left' # 0
    <3>1. left' \in 1..CommandSize /\ CommandSize - left + n = CommandSize - left'
          /\ CommandSize - left' < CommandSize /\ CommandSize - left' \in Nat
      BY <2>2, <2>4, <2>6, SMT
    <3>2. Following(Last)' = <<command, CommandSize - left' + 1>>
      BY <2>3, <3>1, SMT DEF Following
    <3>3. pc' = "write" /\ Midway'
      BY <2>1, <2>4, <2>6, <3>1, <3>2 DEF Midway
    <3> QED BY <2>1, <2>3, <2>4, <3>3, SMT DEF UplinkInv, Places
  <2> QED BY <2>5, <2>6
<1>4. CASE SendFails
  <2>1. /\ UNCHANGED <<uplink, command, after>> /\ conn' # "Connected" /\ pc' = after
    BY <1>4, SMT DEF SendFails
  <2>2. UplinkIsWhole'
    BY <2>1, Zenon DEF UplinkInv, UplinkIsWhole
  <2> QED BY <2>1, <2>2, SMT DEF UplinkInv, Places
<1>5. CASE LogOut \/ Destroy
  <2>1. UNCHANGED <<uplink, command, after>> /\ pc # "write" /\ pc' = "done"
        /\ conn' # "Connected"
    BY <1>5, SMT DEF LogOut, Destroy, Disconnected, writer, loop
  <2> QED BY <2>1, NothingWritten DEF Places
<1>6. CASE PeerSends \/ PeerCloses \/ LinkDies \/ Stop
  <2>1. UNCHANGED UplinkVars
    BY <1>6 DEF PeerSends, PeerCloses, LinkDies, Stop, writer, loop, UplinkVars
  <2> QED BY <2>1, Zenon DEF UplinkVars, UplinkInv, UplinkIsWhole, Midway, Between, Last, Following
<1>7. CASE \/ StartReads \/ StopReads \/ TakePending \/ ReadBytes \/ ReadTimesOut
           \/ ReadClosed \/ ReadFails \/ ReadNotConnected
  <2>1. UNCHANGED <<uplink, command, after>> /\ pc \in {"drain", "read"}
    BY <1>7, SMT DEF StartReads, StopReads, TakePending, ReadBytes, ReadTimesOut,
           ReadClosed, ReadFails, ReadNotConnected, Reading, writer
  <2>2. pc' \in {"drain", "read", "done"}
    BY <1>7, SMT DEF StartReads, StopReads, TakePending, ReadBytes, ReadTimesOut,
           ReadClosed, ReadFails, ReadNotConnected, Reading, Deliver, TryAgain,
           NoMessage, LinkEnds
  <2>3. conn' = conn \/ conn' # "Connected"
    BY <1>7, SMT DEF StartReads, StopReads, TakePending, ReadBytes, ReadTimesOut,
           ReadClosed, ReadFails, ReadNotConnected, Deliver
  <2> QED BY <2>1, <2>2, <2>3, NothingWritten, SMT DEF Places
<1>8. CASE UNCHANGED vars
  <2>1. UNCHANGED UplinkVars
    BY <1>8 DEF vars, writer, loop, UplinkVars
  <2> QED BY <2>1, Zenon DEF UplinkVars, UplinkInv, UplinkIsWhole, Midway, Between, Last, Following
<1> QED BY <1>1, <1>2, <1>3, <1>4, <1>5, <1>6, <1>7, <1>8, Zenon DEF Next, Worker

(* Whatever the sizes, wherever a send fails and whenever the worker is     *)
(* stopped: the server is sent whole commands in order, and at most the     *)
(* last one is cut off (TcpTransport::WriteAll, DrainIntents).              *)
THEOREM CommandsGoOutWhole == Spec => []UplinkIsWhole
<1>1. UplinkInv => UplinkIsWhole
  BY DEF UplinkInv
<1> QED BY <1>1, UplinkInitial, UplinkStep, PTL DEF Spec

-----------------------------------------------------------------------------
(* The half of EndSaysWhy that is about an orderly close.                   *)

\* The transport latches a close only when the server's end is gone.
LatchInv == conn = "RemoteClosed" => fin \in {"closed", "reset"}

LEMMA LatchInitial == Init => LatchInv
  BY DEF Init, LatchInv

LEMMA LatchStep == ASSUME LatchInv, [Next]_vars PROVE LatchInv'
<1>1. CASE SendFails
  BY <1>1 DEF SendFails, LatchInv, peer
<1>2. CASE PeerCloses \/ LinkDies
  BY <1>2 DEF PeerCloses, LinkDies, LatchInv
<1>3. CASE ReadClosed
  BY <1>3 DEF ReadClosed, LatchInv, peer
<1>4. CASE LogOut \/ Destroy
  <2>1. conn' = "Disconnected"
    BY <1>4 DEF LogOut, Destroy, Disconnected
  <2> QED BY <2>1 DEF LatchInv
<1>5. CASE TakePending \/ ReadBytes
  <2>1. fin' = fin
    BY <1>5 DEF TakePending, ReadBytes, peer
  <2>2. conn' = conn \/ conn' = "Disconnected"
    BY <1>5, SMT DEF TakePending, ReadBytes, Deliver
  <2> QED BY <2>1, <2>2 DEF LatchInv
<1>6. CASE ReadFails
  BY <1>6 DEF ReadFails, LatchInv
<1>7. CASE \/ PeerSends \/ Stop \/ SendCommand \/ Quit \/ SendBytes
           \/ StartReads \/ StopReads \/ ReadTimesOut \/ ReadNotConnected
           \/ UNCHANGED vars
  <2>1. conn' = conn /\ fin' = fin
    BY <1>7 DEF PeerSends, Stop, SendCommand, Quit, SendBytes, StartReads,
           StopReads, ReadTimesOut, ReadNotConnected, vars, peer
  <2> QED BY <2>1 DEF LatchInv
<1> QED BY <1>1, <1>2, <1>3, <1>4, <1>5, <1>6, <1>7, Zenon DEF Next, Worker

LEMMA OrderlyStep ==
    ASSUME LatchInv, [Next]_vars, ended = "none", ended' = "orderly"
    PROVE  fin \in {"closed", "reset"}
<1>1. CASE TakePending \/ ReadBytes
  <2>1. LinkEnds(conn)
    BY <1>1, SMT DEF TakePending, ReadBytes, Deliver, TryAgain, NoMessage
  <2> QED BY <2>1 DEF LinkEnds, LatchInv
<1>2. CASE ReadClosed
  BY <1>2 DEF ReadClosed
<1>3. CASE ReadNotConnected
  BY <1>3 DEF ReadNotConnected, LinkEnds, LatchInv
<1>4. CASE ReadFails
  BY <1>4 DEF ReadFails, LinkEnds
<1>5. CASE LogOut
  BY <1>5 DEF LogOut
<1>6. CASE \/ PeerSends \/ PeerCloses \/ LinkDies \/ Stop \/ Destroy
           \/ SendCommand \/ Quit \/ SendBytes \/ SendFails
           \/ StartReads \/ StopReads \/ ReadTimesOut \/ UNCHANGED vars
  BY <1>6 DEF PeerSends, PeerCloses, LinkDies, Stop, Destroy, SendCommand, Quit,
         SendBytes, SendFails, StartReads, StopReads, ReadTimesOut, NoMessage, vars
<1> QED BY <1>1, <1>2, <1>3, <1>4, <1>5, <1>6, Zenon DEF Next, Worker

-----------------------------------------------------------------------------
(* Frames: the header of a payload, and the bytes of many.                  *)

\* The payloads a decoder completes.
Payload == {p \in Seq(Byte) : Len(p) \in 1..MaxPayload}

\* What one payload adds to Framed.
Piece(p, kinds) == IF p[1] \in kinds THEN Frame(p) ELSE <<>>

LEMMA Regroup ==
    ASSUME NEW a \in Seq(Byte), NEW b \in Seq(Byte), NEW c \in Seq(Byte)
    PROVE  (a \o b) \o c = a \o (b \o c)
  BY ConcatAssociative

LEMMA ByteFacts ==
    /\ Base \in Nat \ {0, 1} /\ MaxPayload \in Nat \ {0}
    /\ 0 \in Byte /\ 1 \in Byte /\ Base - 1 \in Byte
    /\ \A b \in Byte : b \in Nat /\ b < Base
<1>1. Base * Base \in Nat
  BY ByteAssumption
<1>2. MaxPayload \in 1..(Base * Base - 1)
  BY LimitAssumption
<1>3. MaxPayload \in Nat \ {0}
  BY <1>1, <1>2
<1> QED BY <1>3, ByteAssumption DEF Byte

\* The header of n is two bytes, low byte first.
LEMMA HeaderBytes ==
    ASSUME NEW n \in 0..(Base * Base - 1)
    PROVE  /\ n % Base \in Byte /\ n \div Base \in Byte
           /\ n = (n % Base) + Base * (n \div Base)
<1> USE ByteAssumption
<1>1. n \in Nat /\ n < Base * Base
  BY SMT
<1>2. n % Base \in 0..(Base - 1) /\ n \div Base \in Nat
      /\ n = (n % Base) + Base * (n \div Base)
  BY <1>1
<1>3. n \div Base < Base
  <2>1. PICK q \in Nat, r \in Nat : q = n \div Base /\ r = n % Base /\ n = r + Base * q
    BY <1>2
  <2>2. SUFFICES ASSUME q >= Base PROVE FALSE
    BY <2>1
  <2>3. Base * q >= Base * Base
    BY <2>1, <2>2
  <2> QED BY <1>1, <2>1, <2>3
<1> QED BY <1>2, <1>3 DEF Byte

LEMMA HeaderValue ==
    ASSUME NEW a \in Byte, NEW b \in Byte
    PROVE  /\ a + Base * b \in 0..(Base * Base - 1)
           /\ (a + Base * b) % Base = a /\ (a + Base * b) \div Base = b
<1> USE ByteAssumption
<1>1. a \in Nat /\ b \in Nat /\ a < Base /\ b < Base
  BY ByteFacts
<1>2. b + 1 <= Base /\ Base * (b + 1) <= Base * Base /\ Base * (b + 1) = Base * b + Base
  BY <1>1
<1>3. a + Base * b \in 0..(Base * Base - 1)
  <2>1. Base * b \in Nat /\ Base * Base \in Nat
    BY <1>1
  <2> QED BY <1>1, <1>2, <2>1
<1>4. PICK q \in Byte, r \in Byte : /\ q = (a + Base * b) \div Base
                                    /\ r = (a + Base * b) % Base
                                    /\ a + Base * b = r + Base * q
  BY <1>3, HeaderBytes
<1>5. q \in Nat /\ r \in Nat /\ r < Base
  BY ByteFacts
<1>6. ASSUME q >= b + 1 PROVE FALSE
  <2>1. Base * q >= Base * (b + 1)
    BY <1>1, <1>5, <1>6
  <2>2. Base * q \in Nat /\ Base * b \in Nat
    BY <1>1, <1>5
  <2> QED BY <1>1, <1>2, <1>4, <1>5, <2>1, <2>2
<1>7. ASSUME b >= q + 1 PROVE FALSE
  <2>1. Base * b >= Base * (q + 1) /\ Base * (q + 1) = Base * q + Base
    BY <1>1, <1>5, <1>7
  <2>2. Base * q \in Nat /\ Base * b \in Nat
    BY <1>1, <1>5
  <2> QED BY <1>1, <1>4, <1>5, <2>1, <2>2
<1>8. q = b
  BY <1>1, <1>5, <1>6, <1>7
<1>9. Base * b \in Nat
  BY <1>1
<1> QED BY <1>1, <1>3, <1>4, <1>5, <1>8, <1>9

\* A payload's frame is its length and its bytes.
LEMMA FrameFacts ==
    ASSUME NEW p \in Seq(Byte), Len(p) < Base * Base
    PROVE  /\ Frame(p) \in Seq(Byte) /\ Len(Frame(p)) = 2 + Len(p)
           /\ Frame(p)[1] + Base * Frame(p)[2] = Len(p)
           /\ \A i \in 1..Len(p) : Frame(p)[2 + i] = p[i]
<1> DEFINE a == Len(p) % Base
           b == Len(p) \div Base
           h == <<a, b>>
<1>1. Len(p) \in 0..(Base * Base - 1)
  BY ByteAssumption
<1>2. a \in Byte /\ b \in Byte /\ Len(p) = a + Base * b
  BY <1>1, HeaderBytes
<1> HIDE DEF a, b
<1>3. h \in Seq(Byte) /\ Len(h) = 2 /\ h[1] = a /\ h[2] = b
  BY <1>2
<1>4. Frame(p) = h \o p
  BY DEF Frame, a, b
<1> HIDE DEF h
<1>5. /\ h \o p \in Seq(Byte) /\ Len(h \o p) = 2 + Len(p) /\ Len(p) \in Nat
      /\ (h \o p)[1] = a /\ (h \o p)[2] = b
      /\ \A i \in 1..Len(p) : (h \o p)[2 + i] = p[i]
  <2>1. /\ h \o p \in Seq(Byte) /\ Len(h \o p) = 2 + Len(p) /\ Len(p) \in Nat
        /\ \A i \in 1..(2 + Len(p)) : (h \o p)[i] = IF i <= 2 THEN h[i] ELSE p[i - 2]
    <3>1. /\ h \o p \in Seq(Byte) /\ Len(h \o p) = Len(h) + Len(p)
          /\ \A i \in 1..(Len(h) + Len(p)) :
                 (h \o p)[i] = IF i <= Len(h) THEN h[i] ELSE p[i - Len(h)]
      BY <1>3, ConcatProperties
    <3>2. Len(p) \in Nat
      BY LenProperties
    <3> QED BY <1>3, <3>1, <3>2
  <2>2. \A i \in 1..Len(p) : 2 + i \in 1..(2 + Len(p)) /\ ~ (2 + i <= 2) /\ (2 + i) - 2 = i
    BY <2>1
  <2> QED BY <1>3, <2>1, <2>2
<1> QED BY <1>2, <1>4, <1>5

\* The frames of the first payloads, one behind the other.
Strings(f, ps, kinds) ==
    /\ f \in [0..Len(ps) -> Seq(Byte)] /\ f[0] = <<>>
    /\ \A i \in 1..Len(ps) : f[i] = f[i - 1] \o Piece(ps[i], kinds)

LEMMA PieceTyped ==
    ASSUME NEW p \in Payload, NEW kinds
    PROVE  Piece(p, kinds) \in Seq(Byte)
<1>1. p \in Seq(Byte) /\ Len(p) \in 1..MaxPayload
  BY DEF Payload
<1>2. Len(p) < Base * Base
  <2>1. PICK s \in Nat : s = Base * Base
    BY ByteAssumption
  <2> QED BY <1>1, <2>1, LimitAssumption, ByteFacts
<1>3. Frame(p) \in Seq(Byte) /\ <<>> \in Seq(Byte)
  BY <1>1, <1>2, FrameFacts
<1> QED BY <1>3 DEF Piece

LEMMA FramedIs ==
    ASSUME NEW ps \in Seq(Payload), NEW kinds
    PROVE  \E f : Strings(f, ps, kinds) /\ Framed(ps, kinds) = f[Len(ps)]
<1> DEFINE n == Len(ps)
           X == Seq(Byte)
           a == <<>>
           g == [i \in 1..n |-> [x \in X |-> x \o Piece(ps[i], kinds)]]
           upTo[i \in 0..n] == IF i = 0 THEN <<>> ELSE upTo[i - 1] \o Piece(ps[i], kinds)
<1>1. n \in Nat /\ a \in X /\ (\A i \in 1..n : Piece(ps[i], kinds) \in X /\ i - 1 \in 0..n)
  <2>1. n \in Nat /\ \A i \in 1..n : ps[i] \in Payload /\ i - 1 \in 0..n
    BY LenProperties, ElementOfSeq
  <2> QED BY <2>1, PieceTyped
<1>2. Framed(ps, kinds) = upTo[n]
  BY DEF Framed, Piece
<1> HIDE DEF n, upTo
<1>3. g \in [1..n -> [X -> X]]
  <2>1. \A i \in 1..n : \A x \in X : x \o Piece(ps[i], kinds) \in X
    BY <1>1, ConcatProperties
  <2> HIDE DEF X
  <2> QED BY <2>1
<1>4. PICK f \in [0..n -> X] : Folds(f, n, a, g)
  <2> HIDE DEF g, X, a
  <2> QED BY <1>1, <1>3, FoldExists
<1>5. f = [i \in 0..n |-> IF i = 0 THEN <<>> ELSE f[i - 1] \o Piece(ps[i], kinds)]
  <2>1. \A i \in 1..n : g[i][f[i - 1]] = f[i - 1] \o Piece(ps[i], kinds)
    BY <1>1, <1>4
  <2>3. \A i \in 0..n : i # 0 => i \in 1..n
    BY <1>1
  <2> HIDE DEF g
  <2>2. f = [i \in 0..n |-> IF i = 0 THEN <<>> ELSE g[i][f[i - 1]]]
    BY <1>4 DEF Folds
  <2> QED BY <2>1, <2>2, <2>3
<1>6. upTo = [i \in 0..n |-> IF i = 0 THEN <<>> ELSE upTo[i - 1] \o Piece(ps[i], kinds)]
  BY <1>5 DEF upTo
<1>7. upTo[0] = <<>> /\ \A i \in 1..n : upTo[i] = upTo[i - 1] \o Piece(ps[i], kinds)
  <2>1. 0 \in 0..n /\ \A i \in 1..n : i \in 0..n /\ i # 0
    BY <1>1
  <2>2. upTo[0] = <<>>
    BY <1>6, <2>1, Zenon
  <2>3. ASSUME NEW i \in 1..n PROVE upTo[i] = upTo[i - 1] \o Piece(ps[i], kinds)
    <3>1. i \in 0..n /\ i # 0
      BY <2>1
    <3> QED BY <1>6, <3>1, Zenon
  <2> QED BY <2>2, <2>3
<1>8. \A i \in 0..n : upTo[i] \in X
  <2> DEFINE P == {i \in 0..n : upTo[i] \in X}
  <2>1. 0 \in P
    <3> HIDE DEF X
    <3> QED BY <1>1, <1>7
  <2>2. ASSUME NEW i \in 1..n, i - 1 \in P PROVE i \in P
    <3>1. upTo[i - 1] \in X
      BY <2>2
    <3>2. Piece(ps[i], kinds) \in X /\ upTo[i] = upTo[i - 1] \o Piece(ps[i], kinds)
      BY <1>1, <1>7, Zenon
    <3>4. i \in 0..n
      BY <1>1
    <3>3. upTo[i - 1] \o Piece(ps[i], kinds) \in X
      BY <3>1, <3>2, ConcatProperties
    <3> QED BY <3>2, <3>3, <3>4
  <2> HIDE DEF P
  <2>3. 0..n \subseteq P
    BY <1>1, <2>1, <2>2, UpTo DEF Climbs
  <2> QED BY <2>3 DEF P
<1>9. upTo \in [0..n -> X]
  BY <1>6, <1>8
<1> QED BY <1>2, <1>7, <1>9 DEF Strings, n

\* A recursion over a sequence has one solution.
Builds(f, ps, kinds, n) ==
    f[0] = <<>> /\ \A i \in 1..n : f[i] = f[i - 1] \o Piece(ps[i], kinds)

LEMMA StringsAgree ==
    ASSUME NEW ps \in Seq(Payload), NEW kinds, NEW n \in 0..Len(ps), NEW f, NEW h,
           Builds(f, ps, kinds, n), Builds(h, ps, kinds, n)
    PROVE  f[n] = h[n]
<1> DEFINE P == {i \in 0..n : f[i] = h[i]}
<1>1. n \in Nat
  BY LenProperties
<1>2. 0 \in P
  BY <1>1 DEF Builds
<1>3. ASSUME NEW i \in 1..n, i - 1 \in P PROVE i \in P
  <2>1. f[i - 1] = h[i - 1] /\ i \in 0..n
    BY <1>1, <1>3
  <2>2. f[i] = f[i - 1] \o Piece(ps[i], kinds) /\ h[i] = h[i - 1] \o Piece(ps[i], kinds)
    BY DEF Builds
  <2> QED BY <2>1, <2>2
<1>4. 0..n \subseteq P
  <2> HIDE DEF P
  <2> QED BY <1>1, <1>2, <1>3, UpTo DEF Climbs
<1> QED BY <1>1, <1>4

LEMMA FramedFacts ==
    ASSUME NEW ps \in Seq(Payload), NEW kinds
    PROVE  /\ Framed(ps, kinds) \in Seq(Byte)
           /\ ps = <<>> => Framed(ps, kinds) = <<>>
           /\ \A p \in Payload :
                Framed(Append(ps, p), kinds) = Framed(ps, kinds) \o Piece(p, kinds)
<1>1. PICK f : Strings(f, ps, kinds) /\ Framed(ps, kinds) = f[Len(ps)]
  BY FramedIs
<1>2. Len(ps) \in Nat
  BY LenProperties
<1>3. Framed(ps, kinds) \in Seq(Byte) /\ (ps = <<>> => Framed(ps, kinds) = <<>>)
  BY <1>1, <1>2 DEF Strings
<1>4. ASSUME NEW p \in Payload
      PROVE  Framed(Append(ps, p), kinds) = Framed(ps, kinds) \o Piece(p, kinds)
  <2> DEFINE qs == Append(ps, p)
             n == Len(ps)
  <2>1. qs \in Seq(Payload) /\ Len(qs) = n + 1 /\ qs[n + 1] = p
        /\ \A i \in 1..n : qs[i] = ps[i]
    BY AppendProperties
  <2> HIDE DEF qs
  <2>2. PICK h : Strings(h, qs, kinds) /\ Framed(qs, kinds) = h[Len(qs)]
    BY <2>1, FramedIs
  <2>3. h[0] = <<>> /\ \A i \in 1..(n + 1) : h[i] = h[i - 1] \o Piece(qs[i], kinds)
    BY <2>1, <2>2 DEF Strings
  <2>4. n + 1 \in 1..(n + 1) /\ (n + 1) - 1 = n /\ n \in 0..n /\ 1..n \subseteq 1..(n + 1)
    BY <1>2
  <2>5. \A i \in 1..n : h[i] = h[i - 1] \o Piece(ps[i], kinds)
    BY <2>1, <2>3, <2>4, Zenon
  <2>6. f[0] = h[0] /\ \A i \in 1..n : f[i] = f[i - 1] \o Piece(ps[i], kinds)
    BY <1>1, <2>3, Zenon DEF Strings
  <2>7. f[n] = h[n]
    <3>1. n \in 0..Len(ps)
      BY <2>4
    <3>2. Builds(f, ps, kinds, n) /\ Builds(h, ps, kinds, n)
      BY <2>3, <2>5, <2>6 DEF Builds
    <3> HIDE DEF n
    <3> QED BY <3>1, <3>2, StringsAgree
  <2>8. h[n + 1] = h[n] \o Piece(p, kinds)
    BY <2>1, <2>3, <2>4
  <2> QED BY <1>1, <2>1, <2>2, <2>7, <2>8 DEF qs
<1> QED BY <1>3, <1>4

\* The first frame of several.
LEMMA FramedFirst ==
    ASSUME NEW ps \in Seq(Payload), NEW kinds, ps # <<>>
    PROVE  /\ Head(ps) \in Payload /\ Tail(ps) \in Seq(Payload)
           /\ Framed(ps, kinds) = Piece(Head(ps), kinds) \o Framed(Tail(ps), kinds)
<1> DEFINE rest == Tail(ps)
           n == Len(rest)
           p == Head(ps)
<1>1. /\ p \in Payload /\ rest \in Seq(Payload) /\ n \in Nat /\ Len(ps) = n + 1
      /\ p = ps[1] /\ \A i \in 1..n : rest[i] = ps[i + 1]
  <2>1. p \in Payload /\ rest \in Seq(Payload) /\ Len(rest) = Len(ps) - 1
        /\ \A i \in 1..Len(rest) : rest[i] = ps[i + 1]
    BY HeadTailProperties
  <2>2. Len(ps) \in Nat /\ Len(rest) \in Nat
    BY <2>1, LenProperties
  <2>3. p = ps[1]
    OBVIOUS
  <2> HIDE DEF p, rest
  <2> QED BY <2>1, <2>2, <2>3
<1> HIDE DEF p, rest
<1>2. PICK f : Strings(f, ps, kinds) /\ Framed(ps, kinds) = f[n + 1]
  BY <1>1, FramedIs
<1>3. PICK h : Strings(h, rest, kinds) /\ Framed(rest, kinds) = h[n]
  BY <1>1, FramedIs
<1> HIDE DEF n
<1>4. /\ f[0] = <<>> /\ h[0] = <<>>
      /\ \A i \in 1..(n + 1) : f[i] = f[i - 1] \o Piece(ps[i], kinds)
      /\ \A i \in 1..n : h[i] = h[i - 1] \o Piece(rest[i], kinds)
      /\ \A i \in 0..n : h[i] \in Seq(Byte)
  <2>1. Len(rest) = n
    BY DEF n
  <2> QED BY <1>1, <1>2, <1>3, <2>1, Zenon DEF Strings
<1>5. Piece(p, kinds) \in Seq(Byte) /\ \A i \in 1..n : Piece(rest[i], kinds) \in Seq(Byte)
  <2>1. \A i \in 1..n : rest[i] \in Payload
    BY <1>1, ElementOfSeq DEF n
  <2> QED BY <1>1, <2>1, PieceTyped
<1> DEFINE P == {i \in 0..n : f[i + 1] = Piece(p, kinds) \o h[i]}
<1>6. 0 \in P
  <2>1. f[1] = <<>> \o Piece(p, kinds)
    <3>1. 1 \in 1..(n + 1) /\ 1 - 1 = 0
      BY <1>1
    <3> QED BY <1>1, <1>4, <3>1
  <2>2. f[1] = Piece(p, kinds) \o <<>>
    BY <1>5, <2>1, ConcatEmptySeq
  <2>3. 0 \in 0..n /\ 0 + 1 = 1
    BY <1>1
  <2> QED BY <1>4, <2>2, <2>3
<1>7. ASSUME NEW i \in 1..n, i - 1 \in P PROVE i \in P
  <2>1. f[i] = Piece(p, kinds) \o h[i - 1]
    BY <1>7
  <2>2. i \in 0..n /\ i - 1 \in 0..n /\ i + 1 \in 1..(n + 1) /\ (i + 1) - 1 = i
    BY <1>1
  <2>3. f[i + 1] = f[i] \o Piece(ps[i + 1], kinds)
    BY <1>4, <2>2
  <2>4. h[i] = h[i - 1] \o Piece(rest[i], kinds) /\ rest[i] = ps[i + 1]
    BY <1>1, <1>4, Zenon
  <2>5. f[i + 1] = (Piece(p, kinds) \o h[i - 1]) \o Piece(rest[i], kinds)
    BY <2>1, <2>3, <2>4
  <2>6. h[i - 1] \in Seq(Byte) /\ Piece(rest[i], kinds) \in Seq(Byte)
    BY <1>4, <1>5, <2>2
  <2>7. f[i + 1] = Piece(p, kinds) \o h[i]
    <3> DEFINE a == Piece(p, kinds)
               b == h[i - 1]
               c == Piece(rest[i], kinds)
    <3>1. f[i + 1] = (a \o b) \o c /\ h[i] = b \o c
      BY <2>4, <2>5
    <3>2. a \in Seq(Byte) /\ b \in Seq(Byte) /\ c \in Seq(Byte)
      BY <1>5, <2>6
    <3> HIDE DEF a, b, c
    <3>3. (a \o b) \o c = a \o (b \o c)
      BY <3>2, Regroup, Zenon
    <3>4. f[i + 1] = a \o h[i]
      BY <3>1, <3>3
    <3> QED BY <3>4 DEF a
  <2> QED BY <2>2, <2>7
<1>8. f[n + 1] = Piece(p, kinds) \o h[n]
  <2> HIDE DEF P
  <2>1. 0..n \subseteq P
    BY <1>1, <1>6, <1>7, UpTo DEF Climbs
  <2>2. n \in P
    BY <1>1, <2>1
  <2> QED BY <2>2 DEF P
<1> QED BY <1>1, <1>2, <1>3, <1>8 DEF p, rest

\* While the session runs every kind of byte counts.
LEMMA WholePiece ==
    ASSUME NEW p \in Payload
    PROVE  Piece(p, Byte) = Frame(p) /\ p # <<>> /\ p[1] \in Byte
<1>1. p \in Seq(Byte) /\ Len(p) \in 1..MaxPayload
  BY DEF Payload
<1>2. 1 \in 1..Len(p)
  BY <1>1, ByteFacts
<1>3. p[1] \in Byte
  BY <1>1, <1>2, ElementOfSeq
<1> QED BY <1>1, <1>2, <1>3 DEF Piece

LEMMA PayloadIsShort ==
    ASSUME NEW p \in Payload
    PROVE  p \in Seq(Byte) /\ Len(p) < Base * Base
<1>1. p \in Seq(Byte) /\ Len(p) \in 1..MaxPayload
  BY DEF Payload
<1>2. PICK s \in Nat : s = Base * Base
  BY ByteAssumption
<1> QED BY <1>1, <1>2, LimitAssumption, ByteFacts

\* Bytes as long as their header says are a frame.
LEMMA FrameOf ==
    ASSUME NEW q \in Seq(Byte), Len(q) >= 2, Len(q) = 2 + (q[1] + Base * q[2])
    PROVE  LET p == SubSeq(q, 3, Len(q))
           IN  p \in Seq(Byte) /\ Len(p) = Len(q) - 2 /\ Frame(p) = q
<1> DEFINE p == SubSeq(q, 3, Len(q))
           n == Len(q) - 2
<1>1. Len(q) \in Nat /\ n \in Nat /\ q[1] \in Byte /\ q[2] \in Byte
  BY LenProperties, ElementOfSeq
<1>2. p \in Seq(Byte) /\ Len(p) = n /\ \A i \in 1..n : p[i] = q[i + 2]
  <2>1. \A i \in 3..Len(q) : q[i] \in Byte
    BY <1>1, ElementOfSeq
  <2>2. /\ p \in Seq(Byte) /\ Len(p) = (IF 3 <= Len(q) THEN Len(q) - 3 + 1 ELSE 0)
        /\ \A i \in 1..(Len(q) - 3 + 1) : p[i] = q[3 + i - 1]
    BY <1>1, <2>1, SubSeqProperties
  <2>3. /\ Len(q) - 3 + 1 = n /\ (3 <= Len(q) \/ n = 0)
        /\ \A i \in 1..n : 3 + i - 1 = i + 2
    BY <1>1
  <2> HIDE DEF p
  <2>4. Len(p) = n
    BY <1>1, <2>2, <2>3
  <2>5. \A i \in 1..n : p[i] = q[i + 2]
    BY <2>2, <2>3
  <2> QED BY <2>2, <2>4, <2>5
<1> HIDE DEF p
<1>3. n = q[1] + Base * q[2] /\ n \in 0..(Base * Base - 1)
      /\ n % Base = q[1] /\ n \div Base = q[2]
  <2>1. q[1] + Base * q[2] \in Nat
    BY <1>1, ByteFacts
  <2>2. n = q[1] + Base * q[2]
    BY <1>1, <2>1
  <2> HIDE DEF n
  <2> QED BY <1>1, <2>2, HeaderValue
<1>4. Frame(p) = <<q[1], q[2]>> \o p
  BY <1>2, <1>3 DEF Frame
<1>5. /\ <<q[1], q[2]>> \in Seq(Byte) /\ Len(<<q[1], q[2]>>) = 2
      /\ <<q[1], q[2]>>[1] = q[1] /\ <<q[1], q[2]>>[2] = q[2]
  BY <1>1
<1> DEFINE h == <<q[1], q[2]>>
<1>6. Frame(p) = q
  <2> HIDE DEF h
  <2>1. /\ h \in Seq(Byte) /\ Len(h) = 2 /\ h[1] = q[1] /\ h[2] = q[2]
    BY <1>5 DEF h
  <2>2. /\ h \o p \in Seq(Byte) /\ Len(h \o p) = Len(h) + Len(p)
        /\ \A i \in 1..(Len(h) + Len(p)) :
               (h \o p)[i] = IF i <= Len(h) THEN h[i] ELSE p[i - Len(h)]
    <3>1. p \in Seq(Byte)
      BY <1>2
    <3> QED BY <2>1, <3>1, ConcatProperties
  <2>3. Len(h) + Len(p) = Len(q) /\ Len(h \o p) = Len(q)
    BY <1>1, <1>2, <2>1, <2>2
  <2>4. ASSUME NEW i \in 1..Len(q) PROVE (h \o p)[i] = q[i]
    <3>1. (h \o p)[i] = IF i <= 2 THEN h[i] ELSE p[i - 2]
      BY <2>1, <2>2, <2>3
    <3>2. i > 2 => i - 2 \in 1..n /\ (i - 2) + 2 = i
      BY <1>1
    <3>3. i > 2 => p[i - 2] = q[i]
      BY <1>2, <3>2
    <3>4. i <= 2 => i = 1 \/ i = 2
      BY <1>1
    <3> QED BY <1>1, <2>1, <3>1, <3>3, <3>4
  <2>5. h \o p = q
    BY <2>2, <2>3, <2>4, SeqEqual
  <2> QED BY <1>4, <2>5 DEF h
<1> QED BY <1>2, <1>6 DEF p

-----------------------------------------------------------------------------
(* The decoder, byte by byte.                                               *)

Faults == {"None", "ZeroLength", "ExceedsConfiguredMaximum"}

\* What the decoder holds of a frame that is not complete: less than a
\* header, or a header that is known and less than it announces.
Incomplete(bytes, size) ==
    \/ size = 0 /\ Len(bytes) < 2
    \/ /\ size \in 1..MaxPayload /\ Len(bytes) \in 2..(1 + size)
       /\ size = bytes[1] + Base * bytes[2]

Decoder == [buffer : Seq(Byte), expected : 0..(Base * Base - 1),
            error : Faults, frames : Seq(Payload)]

Fits(r) == /\ r \in Decoder
           /\ Len(r.buffer) < 2 + MaxPayload
           /\ r.error = "None" => Incomplete(r.buffer, r.expected)

\* The bytes that went into it.
Held(r) == Framed(r.frames, Byte) \o r.buffer

LEMMA LimitFacts ==
    MaxPayload \in Nat \ {0} /\ Base \in Nat /\ 0 \in 0..(Base * Base - 1)
<1>1. PICK s \in Nat : s = Base * Base
  BY ByteAssumption
<1>2. 0 \in 0..(s - 1)
  BY <1>1, LimitAssumption
<1> QED BY <1>1, <1>2, ByteFacts

\* FeedByte once the byte has been put behind the others and the size is known.
Filled(r, buf, size) ==
    CASE r.error # "None" -> r
      [] r.error = "None" /\ Len(buf) < 2 -> [r EXCEPT !.buffer = buf]
      [] r.error = "None" /\ Len(buf) >= 2 /\ size = 0 ->
            [r EXCEPT !.buffer = buf, !.error = "ZeroLength"]
      [] r.error = "None" /\ Len(buf) >= 2 /\ size > MaxPayload ->
            [r EXCEPT !.buffer = buf, !.expected = size,
                      !.error = "ExceedsConfiguredMaximum"]
      [] r.error = "None" /\ Len(buf) >= 2 /\ size \in 1..MaxPayload
            /\ Len(buf) < 2 + size ->
            [r EXCEPT !.buffer = buf, !.expected = size]
      [] OTHER ->
            [r EXCEPT !.buffer = <<>>, !.expected = 0,
                      !.frames = Append(@, SubSeq(buf, 3, Len(buf)))]

LEMMA FeedByteFacts ==
    ASSUME NEW r, Fits(r), NEW b \in Byte
    PROVE  LET q == FeedByte(r, b)
           IN  /\ Fits(q)
               /\ q.error = "None" => r.error = "None" /\ Held(q) = Held(r) \o <<b>>
<1> DEFINE buf  == Append(r.buffer, b)
           size == IF r.expected = 0 THEN buf[1] + Base * buf[2] ELSE r.expected
           q == FeedByte(r, b)
           n == Len(r.buffer)
<1>1. /\ r \in Decoder /\ r.buffer \in Seq(Byte) /\ n \in Nat /\ n < 2 + MaxPayload
      /\ r.expected \in 0..(Base * Base - 1) /\ r.frames \in Seq(Payload)
      /\ Framed(r.frames, Byte) \in Seq(Byte)
  BY FramedFacts, LenProperties DEF Fits, Decoder
<1>2. /\ buf \in Seq(Byte) /\ Len(buf) = n + 1 /\ buf = r.buffer \o <<b>>
      /\ (\A i \in 1..n : buf[i] = r.buffer[i])
      /\ <<b>> \in Seq(Byte)
  BY <1>1, AppendProperties, AppendIsConcat
<1>3. MaxPayload \in Nat \ {0} /\ Base \in Nat /\ 0 \in 0..(Base * Base - 1)
  BY LimitFacts
<1>4. Held(r) \o <<b>> = Framed(r.frames, Byte) \o buf
  <2> DEFINE f == Framed(r.frames, Byte)
             c == <<b>>
             m == r.buffer
  <2>1. f \in Seq(Byte) /\ c \in Seq(Byte) /\ m \in Seq(Byte)
        /\ buf = m \o c /\ Held(r) = f \o m
    BY <1>1, <1>2 DEF Held
  <2> HIDE DEF buf, f, c, m
  <2>2. (f \o m) \o c = f \o (m \o c)
    BY <2>1, Regroup, Zenon
  <2>3. Held(r) \o c = f \o buf
    BY <2>1, <2>2
  <2> QED BY <2>3 DEF f, c
<1>9. q = Filled(r, buf, size)
  BY Zenon DEF FeedByte, Filled
<1> HIDE DEF buf, size, q, n
<1>5. CASE r.error # "None"
  <2>1. q = r
    BY <1>5, <1>9 DEF Filled
  <2> QED BY <1>5, <2>1 DEF q
<1>6. CASE r.error = "None" /\ Len(buf) < 2
  <2>1. q = [r EXCEPT !.buffer = buf]
    BY <1>6, <1>9 DEF Filled
  <2>2. q \in Decoder /\ q.buffer = buf /\ q.expected = r.expected /\ q.frames = r.frames
    BY <1>1, <1>2, <2>1 DEF Decoder
  <2>3. r.expected = 0
    BY <1>1, <1>2, <1>6 DEF Fits, Incomplete, n
  <2>4. Fits(q)
    BY <1>2, <1>3, <1>6, <2>2, <2>3 DEF Fits, Incomplete
  <2> QED BY <1>4, <1>6, <2>2, <2>4 DEF Held, q
<1>7. CASE r.error = "None" /\ Len(buf) >= 2
  <2>1. Incomplete(r.buffer, r.expected)
    BY <1>7 DEF Fits
  <2>2. /\ r.expected = 0 => n = 1
        /\ r.expected # 0 => r.expected \in 1..MaxPayload /\ n \in 2..(1 + r.expected)
    BY <1>1, <1>2, <1>7, <2>1 DEF Incomplete, n
  <2>3. buf[1] \in Byte /\ buf[2] \in Byte
    BY <1>1, <1>2, <1>7, ElementOfSeq
  <2>4. size = buf[1] + Base * buf[2] /\ size \in 0..(Base * Base - 1)
    <3>1. CASE r.expected = 0
      <4>1. size = buf[1] + Base * buf[2]
        BY <3>1 DEF size
      <4> QED BY <2>3, <4>1, HeaderValue
    <3>2. CASE r.expected # 0
      <4>1. r.expected = r.buffer[1] + Base * r.buffer[2]
        BY <2>1, <3>2 DEF Incomplete
      <4>2. 1 \in 1..n /\ 2 \in 1..n
        BY <1>1, <2>2, <3>2
      <4>3. buf[1] = r.buffer[1] /\ buf[2] = r.buffer[2]
        BY <1>2, <4>2
      <4> QED BY <1>1, <3>2, <4>1, <4>3 DEF size
    <3> QED BY <3>1, <3>2
  <2>6. size \in Nat /\ Len(buf) \in Nat
    <3>1. PICK s \in Nat : s = Base * Base
      BY ByteAssumption
    <3>2. size \in 0..(s - 1)
      BY <2>4, <3>1
    <3> QED BY <1>1, <1>2, <3>2
  <2>5. /\ size = 0 \/ size > MaxPayload => Len(buf) = 2
        /\ size \in 1..MaxPayload => Len(buf) <= 2 + size
    <3>1. r.expected # 0 => size = r.expected
      BY DEF size
    <3>2. PICK m, k : m \in Nat /\ k = r.expected /\ m = n /\ Len(buf) = m + 1
      BY <1>1, <1>2
    <3> QED BY ONLY <1>3, <2>2, <2>6, <3>1, <3>2
  <2>8. CASE size = 0
    <3>1. q = [r EXCEPT !.buffer = buf, !.error = "ZeroLength"]
      BY <1>3, <1>7, <1>9, <2>8 DEF Filled
    <3>2. q \in Decoder /\ q.buffer = buf /\ q.error = "ZeroLength"
      BY <1>1, <1>2, <3>1 DEF Decoder, Faults
    <3>3. Len(buf) = 2
      BY <2>5, <2>8
    <3>4. Fits(q) /\ q.error # "None"
      BY <1>3, <3>2, <3>3 DEF Fits
    <3> QED BY <3>4 DEF q
  <2>9. CASE size > MaxPayload
    <3>1. q = [r EXCEPT !.buffer = buf, !.expected = size,
                        !.error = "ExceedsConfiguredMaximum"]
      BY <1>3, <1>7, <1>9, <2>6, <2>9 DEF Filled
    <3>2. q \in Decoder /\ q.buffer = buf /\ q.error = "ExceedsConfiguredMaximum"
      BY <1>1, <1>2, <2>4, <3>1 DEF Decoder, Faults
    <3>3. Len(buf) = 2
      BY <2>5, <2>9
    <3>4. Fits(q) /\ q.error # "None"
      BY <1>3, <3>2, <3>3 DEF Fits
    <3> QED BY <3>4 DEF q
  <2>10. CASE size \in 1..MaxPayload /\ Len(buf) < 2 + size
    <3>1. q = [r EXCEPT !.buffer = buf, !.expected = size]
      BY <1>3, <1>7, <1>9, <2>6, <2>10 DEF Filled
    <3>2. q \in Decoder /\ q.buffer = buf /\ q.expected = size /\ q.frames = r.frames
      BY <1>1, <1>2, <2>4, <3>1 DEF Decoder
    <3>3. Incomplete(buf, size) /\ Len(buf) < 2 + MaxPayload
      BY <1>3, <1>7, <2>4, <2>6, <2>10 DEF Incomplete
    <3> QED BY <1>4, <1>7, <3>2, <3>3 DEF Fits, Held, q
  <2>11. CASE size \in 1..MaxPayload /\ Len(buf) >= 2 + size
    <3> DEFINE p == SubSeq(buf, 3, Len(buf))
    <3>1. q = [r EXCEPT !.buffer = <<>>, !.expected = 0, !.frames = Append(@, p)]
      BY <1>3, <1>7, <1>9, <2>6, <2>11 DEF Filled
    <3>2. Len(buf) = 2 + (buf[1] + Base * buf[2])
      BY <2>4, <2>5, <2>6, <2>11
    <3>3. p \in Seq(Byte) /\ Len(p) = size /\ Frame(p) = buf
      <4>1. p \in Seq(Byte) /\ Len(p) = Len(buf) - 2 /\ Frame(p) = buf
        BY <1>2, <1>7, <3>2, FrameOf
      <4>2. Len(buf) = 2 + size
        BY <2>4, <3>2
      <4> QED BY <2>6, <4>1, <4>2
    <3> HIDE DEF p
    <3>4. p \in Payload
      BY <2>11, <3>3 DEF Payload
    <3>5. Append(r.frames, p) \in Seq(Payload) /\ <<>> \in Seq(Byte) /\ Len(<<>>) = 0
      BY <1>1, <3>4, AppendProperties
    <3>6. /\ q \in Decoder /\ q.buffer = <<>> /\ q.expected = 0
          /\ q.frames = Append(r.frames, p)
      BY <1>1, <1>3, <3>1, <3>5 DEF Decoder
    <3>7. Fits(q)
      BY <1>3, <3>5, <3>6 DEF Fits, Incomplete
    <3>8. Framed(q.frames, Byte) = Framed(r.frames, Byte) \o buf
      BY <1>1, <3>3, <3>4, <3>6, FramedFacts, WholePiece
    <3>9. Held(q) = Framed(r.frames, Byte) \o buf
      <4>1. Framed(r.frames, Byte) \o buf \in Seq(Byte)
        BY <1>1, <1>2, ConcatProperties
      <4> QED BY <3>6, <3>8, <4>1, ConcatEmptySeq DEF Held
    <3> QED BY <1>4, <1>7, <3>7, <3>9 DEF q
  <2> QED BY <1>3, <2>6, <2>8, <2>9, <2>10, <2>11
<1>8. Len(buf) \in Nat
  BY <1>1, <1>2
<1> QED BY <1>5, <1>6, <1>7, <1>8

\* What the decoder does with the bytes of one read.
LEMMA FeedFacts ==
    ASSUME NEW r, r = [buffer |-> buffer, expected |-> expected, error |-> error,
                       frames |-> <<>>],
           Fits(r), error = "None", NEW data \in Seq(Byte)
    PROVE  LET q == Feed(data)
           IN  Fits(q) /\ (q.error = "None" => Held(q) = buffer \o data)
<1> DEFINE n == Len(data)
           X == {x \in Decoder : Fits(x)}
           g == [i \in 1..n |-> [x \in X |-> FeedByte(x, data[i])]]
           upTo[i \in 0..n] ==
               IF i = 0 THEN [buffer |-> buffer, expected |-> expected,
                              error |-> error, frames |-> <<>>]
               ELSE FeedByte(upTo[i - 1], data[i])
           vTo[i \in 0..n] == IF i = 0 THEN r ELSE FeedByte(vTo[i - 1], data[i])
<1>1. n \in Nat /\ \A i \in 1..n : data[i] \in Byte /\ i - 1 \in 0..n /\ i \in 0..n /\ i # 0
  BY LenProperties, ElementOfSeq
<1>2. Feed(data) = vTo[n]
  <2>1. Feed(data) = upTo[n]
    BY DEF Feed
  <2>2. upTo = vTo
    BY Zenon
  <2> QED BY <2>1, <2>2, Zenon
<1>3. r \in X
  BY DEF Fits
<1>4. \A i \in 1..n : \A x \in X : FeedByte(x, data[i]) \in X
  <2>1. ASSUME NEW i \in 1..n, NEW x \in X PROVE FeedByte(x, data[i]) \in X
    <3>1. Fits(FeedByte(x, data[i]))
      BY <1>1, FeedByteFacts
    <3> QED BY <3>1 DEF Fits
  <2> QED BY <2>1
<1> HIDE DEF n, upTo, vTo, X
<1>5. g \in [1..n -> [X -> X]]
  BY <1>4
<1>6. PICK f \in [0..n -> X] : Folds(f, n, r, g)
  <2> HIDE DEF g
  <2> QED BY <1>1, <1>3, <1>5, FoldExists
<1>7. f = [i \in 0..n |-> IF i = 0 THEN r ELSE FeedByte(f[i - 1], data[i])]
  <2>1. \A i \in 1..n : g[i][f[i - 1]] = FeedByte(f[i - 1], data[i])
    BY <1>1, <1>6
  <2>2. \A i \in 0..n : i # 0 => i \in 1..n
    BY <1>1
  <2> HIDE DEF g
  <2>3. f = [i \in 0..n |-> IF i = 0 THEN r ELSE g[i][f[i - 1]]]
    BY <1>6 DEF Folds
  <2> QED BY <2>1, <2>2, <2>3
<1>8. vTo = [i \in 0..n |-> IF i = 0 THEN r ELSE FeedByte(vTo[i - 1], data[i])]
  BY <1>7 DEF vTo
<1>9. vTo[0] = r /\ \A i \in 1..n : vTo[i] = FeedByte(vTo[i - 1], data[i])
  <2>1. 0 \in 0..n
    BY <1>1
  <2>2. vTo[0] = r
    BY <1>8, <2>1, Zenon
  <2>3. ASSUME NEW i \in 1..n PROVE vTo[i] = FeedByte(vTo[i - 1], data[i])
    BY <1>1, <1>8, Zenon
  <2> QED BY <2>2, <2>3
<1> DEFINE before(i) == SubSeq(data, 1, i)
           P == {i \in 0..n : Fits(vTo[i])
                     /\ (vTo[i].error = "None" => Held(vTo[i]) = buffer \o before(i))}
<1>10. 0 \in P
  <2>1. before(0) = <<>>
    BY SubSeqEmpty
  <2>2. buffer \in Seq(Byte) /\ r.frames = <<>> /\ r.buffer = buffer /\ <<>> \in Seq(Payload)
    BY DEF Fits, Decoder
  <2>3. Held(r) = <<>> \o buffer
    BY <2>2, FramedFacts DEF Held
  <2>4. Held(r) = buffer \o <<>>
    BY <2>2, <2>3, ConcatEmptySeq
  <2> HIDE DEF before
  <2>5. Fits(vTo[0]) /\ Held(vTo[0]) = buffer \o before(0)
    BY <1>9, <2>1, <2>4
  <2>6. 0 \in 0..n
    BY <1>1
  <2> QED BY <2>5, <2>6
<1>11. ASSUME NEW i \in 1..n, i - 1 \in P PROVE i \in P
  <2> DEFINE x == vTo[i - 1]
             y == vTo[i]
             b == data[i]
  <2>1. Fits(x) /\ (x.error = "None" => Held(x) = buffer \o before(i - 1))
    BY <1>11
  <2>2. y = FeedByte(x, b) /\ b \in Byte /\ i \in 0..n
    BY <1>1, <1>9
  <2> HIDE DEF x, y
  <2>3. Fits(y) /\ (y.error = "None" => x.error = "None" /\ Held(y) = Held(x) \o <<b>>)
    BY <2>1, <2>2, FeedByteFacts
  <2>4. before(i) = before(i - 1) \o <<b>> /\ before(i - 1) \in Seq(Byte)
    <3>1. 1 \in 1..Len(data) /\ i \in 1..Len(data)
      BY <1>1 DEF n
    <3>2. before(i) = before(i - 1) \o <<b>>
      BY <3>1, SubSeqRecursiveSecond
    <3>3. \A j \in 1..(i - 1) : data[j] \in Byte
      BY <1>1
    <3>4. before(i - 1) \in Seq(Byte)
      BY <1>1, <3>3, SubSeqProperties
    <3> QED BY <3>2, <3>4
  <2>5. ASSUME y.error = "None" PROVE Held(y) = buffer \o before(i)
    <3> DEFINE c == <<b>>
               m == before(i - 1)
    <3>1. buffer \in Seq(Byte) /\ c \in Seq(Byte) /\ m \in Seq(Byte)
      BY <2>2, <2>4 DEF Fits, Decoder
    <3>2. Held(y) = (buffer \o m) \o c /\ before(i) = m \o c
      BY <2>1, <2>3, <2>4, <2>5
    <3> HIDE DEF c, m, before
    <3>3. (buffer \o m) \o c = buffer \o (m \o c)
      BY <3>1, Regroup, Zenon
    <3> QED BY <3>2, <3>3
  <2> HIDE DEF before
  <2> QED BY <2>2, <2>3, <2>5 DEF y
<1>12. n \in P
  <2> HIDE DEF P
  <2>1. 0..n \subseteq P
    BY <1>1, <1>10, <1>11, UpTo DEF Climbs
  <2> QED BY <1>1, <2>1
<1>13. before(n) = data
  BY SubSeqFull DEF n
<1> HIDE DEF before
<1> QED BY <1>2, <1>12, <1>13

-----------------------------------------------------------------------------
(* The inductive invariant of the receiving direction.                      *)

\* What the server may send: the header has room for its length.
Message == {p \in Seq(Byte) : Len(p) < Base * Base}

Received ==
    /\ sent \in Seq(Message) /\ wire \in Seq(Byte)
    /\ frames \in Seq(Payload) /\ delivered \in Seq(Payload)
    /\ buffer \in Seq(Byte) /\ Len(buffer) < 2 + MaxPayload
    /\ expected \in 0..(Base * Base - 1)
    /\ error \in Faults \cup {"TruncatedFrame"}

\* Until the worker has published an end its decoder is in good order.
Decoding == ended = "none" => error = "None" /\ Incomplete(buffer, expected)

Flags ==
    /\ fin \in {"open", "closed", "reset", "broken"}
    /\ conn \in {"Connected", "RemoteClosed", "Failed", "Disconnected"}
    /\ stopping \in BOOLEAN
    /\ ended \in {"none", "orderly", "lost", "refused", "undecodable", "quit"}
    /\ pc \in Places /\ after \in {"drain", "quit"}
    /\ pc = "done" <=> ended # "none"
    /\ conn = "Disconnected" => pc = "done"

\* Reads and attempts are counted within their limits, and the logout is one
\* command more than the others.
Counts ==
    /\ command \in 0..(MaxCommands + 1) /\ left \in 0..CommandSize
    /\ reads \in 0..MaxReads /\ attempts \in 0..(MaxAttempts - 1)
    /\ pc = "read" /\ attempts > 0 => reads < MaxReads
    /\ pc \in {"drain", "read"} => command <= MaxCommands
    /\ pc = "write" /\ after = "drain" => command <= MaxCommands

ReceiveInv == Received /\ Decoding /\ Flags /\ Counts

\* The three outcomes of Deliver.
GoesOn(fs) ==
    /\ Head(fs)[1] = 0
    /\ delivered' = Append(delivered, Head(fs)) /\ frames' = Tail(fs)
    /\ reads' = reads + 1 /\ attempts' = 0 /\ UNCHANGED <<conn, pc, ended>>

Refuses(fs) ==
    /\ Head(fs)[1] # 0
    /\ delivered' = Append(delivered, Head(fs)) /\ frames' \in {<<>>, Tail(fs)}
    /\ ended' \in {"refused", "undecodable"} /\ pc' = "done"
    /\ conn' \in {conn, "Disconnected"} /\ UNCHANGED <<reads, attempts>>

Breaks(fs) ==
    /\ Head(fs)[1] # 0
    /\ LinkEnds(conn) /\ frames' = Tail(fs) /\ UNCHANGED <<conn, delivered>>

LEMMA DeliverFacts ==
    ASSUME NEW fs \in Seq(Payload), fs # <<>>, delivered \in Seq(Payload), Deliver(fs)
    PROVE  /\ frames' \in Seq(Payload) /\ delivered' \in Seq(Payload)
           /\ GoesOn(fs) \/ Refuses(fs) \/ Breaks(fs)
<1>1. Head(fs) \in Payload /\ Tail(fs) \in Seq(Payload)
  BY HeadTailProperties
<1>2. <<>> \in Seq(Payload) /\ Append(delivered, Head(fs)) \in Seq(Payload)
  BY <1>1, AppendProperties
<1>3. GoesOn(fs) \/ Refuses(fs) \/ Breaks(fs)
  BY SMT DEF Deliver, GoesOn, Refuses, Breaks
<1>4. frames' \in {<<>>, Tail(fs)} /\ delivered' \in {delivered, Append(delivered, Head(fs))}
  BY <1>3 DEF GoesOn, Refuses, Breaks
<1> QED BY <1>1, <1>2, <1>3, <1>4

\* The three outcomes of a read, q being what the decoder made of its bytes.
Handed(q) ==
    /\ q.error = "None" /\ q.frames # <<>> /\ Deliver(q.frames)
    /\ error' = "None"
    /\ \/ ended' = "refused" /\ buffer' = <<>> /\ expected' = 0
       \/ ended' # "refused" /\ buffer' = q.buffer /\ expected' = q.expected

Nothing(q) ==
    /\ q.error = "None" /\ q.frames = <<>> /\ frames' = <<>>
    /\ error' = "None" /\ buffer' = q.buffer /\ expected' = q.expected
    /\ TryAgain /\ UNCHANGED <<conn, delivered>>

Faulty(q) ==
    /\ q.error # "None" /\ error' = q.error
    /\ buffer' = q.buffer /\ expected' = q.expected
    /\ frames' = (IF q.frames = <<>> THEN <<>> ELSE Tail(q.frames))
    /\ LinkEnds(conn) /\ UNCHANGED <<conn, delivered>>

\* Every byte of the read is in the decoder or in a frame it completed.
Taken(q) ==
    /\ Fits(q)
    /\ wire' \in Seq(Byte)
    /\ q.error = "None" => Held(q) \o wire' = buffer \o wire

LEMMA ReadFacts ==
    ASSUME Received, Decoding, Flags, ReadBytes
    PROVE  /\ pc = "read" /\ ended = "none" /\ frames = <<>> /\ conn = "Connected"
           /\ attempts > 0 \/ reads < MaxReads
           /\ \E q : Taken(q) /\ (Handed(q) \/ Nothing(q) \/ Faulty(q))
           /\ UNCHANGED <<sent, fin, uplink, command, left, after, stopping>>
<1>1. /\ pc = "read" /\ ended = "none" /\ frames = <<>> /\ conn = "Connected"
      /\ attempts > 0 \/ reads < MaxReads
      /\ UNCHANGED <<sent, fin, uplink, command, left, after, stopping>>
  BY DEF ReadBytes, Reading, Flags, writer
<1>2. PICK n \in 1..(IF Chunk < Len(wire) THEN Chunk ELSE Len(wire)) :
         LET q == Feed(SubSeq(wire, 1, n))
         IN  /\ wire' = SubSeq(wire, n + 1, Len(wire))
             /\ IF q.error = "None" /\ q.frames # <<>>
                THEN /\ Deliver(q.frames)
                     /\ buffer' = (IF ended' = "refused" THEN <<>> ELSE q.buffer)
                     /\ expected' = (IF ended' = "refused" THEN 0 ELSE q.expected)
                     /\ error' = "None"
                ELSE /\ buffer' = q.buffer /\ expected' = q.expected
                     /\ error' = q.error
                     /\ frames' = (IF q.frames = <<>> THEN <<>> ELSE Tail(q.frames))
                     /\ IF q.error = "None" THEN TryAgain ELSE LinkEnds(conn)
                     /\ UNCHANGED <<conn, delivered>>
  BY Zenon DEF ReadBytes
<1> DEFINE data == SubSeq(wire, 1, n)
           q == Feed(data)
<1>3. Handed(q) \/ Nothing(q) \/ Faulty(q)
  <2>1. wire' = SubSeq(wire, n + 1, Len(wire))
    BY <1>2
  <2> HIDE DEF q
  <2> QED BY <1>2, SMT DEF q, Handed, Nothing, Faulty
<1>4. n \in 1..Len(wire) /\ Len(wire) \in Nat /\ wire \in Seq(Byte)
  <2>1. Len(wire) \in Nat /\ wire \in Seq(Byte) /\ Chunk \in Nat \ {0}
    BY LenProperties, LoopAssumption DEF Received
  <2> QED BY <2>1
<1>5. data \in Seq(Byte) /\ wire' \in Seq(Byte)
  <2>1. \A i \in 1..n : wire[i] \in Byte
    BY <1>4, ElementOfSeq
  <2>2. \A i \in (n + 1)..Len(wire) : wire[i] \in Byte
    BY <1>4, ElementOfSeq
  <2>3. data \in Seq(Byte)
    BY <1>4, <2>1, SubSeqProperties
  <2>4. SubSeq(wire, n + 1, Len(wire)) \in Seq(Byte)
    BY <1>4, <2>2, SubSeqProperties
  <2> QED BY <1>2, <2>3, <2>4
<1>6. data \o wire' = wire
  <2>1. SubSeq(wire, 1, n) \o SubSeq(wire, n + 1, Len(wire)) = SubSeq(wire, 1, Len(wire))
    <3>1. 1 \in 1..(Len(wire) + 1) /\ n \in (1 - 1)..Len(wire) /\ Len(wire) \in n..Len(wire)
      BY <1>4
    <3> QED BY <1>4, <3>1, ConcatAdjacentSubSeq
  <2>2. SubSeq(wire, 1, Len(wire)) = wire
    BY <1>4, SubSeqFull
  <2> QED BY <1>2, <2>1, <2>2
<1>7. Taken(q)
  <2> DEFINE r == [buffer |-> buffer, expected |-> expected, error |-> error,
                   frames |-> <<>>]
  <2>1. Fits(r) /\ error = "None"
    <3>1. error = "None" /\ Incomplete(buffer, expected) /\ buffer \in Seq(Byte)
          /\ Len(buffer) < 2 + MaxPayload /\ expected \in 0..(Base * Base - 1)
      BY <1>1 DEF Received, Decoding
    <3>2. r \in Decoder
      <4>1. <<>> \in Seq(Payload)
        BY EmptySeq
      <4> QED BY <3>1, <4>1 DEF Decoder, Faults
    <3> QED BY <3>1, <3>2 DEF Fits
  <2> HIDE DEF data
  <2>2. Fits(q) /\ (q.error = "None" => Held(q) = buffer \o data)
    BY <1>5, <2>1, FeedFacts
  <2>3. ASSUME q.error = "None" PROVE Held(q) \o wire' = buffer \o wire
    <3>1. buffer \in Seq(Byte)
      BY DEF Received
    <3>2. (buffer \o data) \o wire' = buffer \o (data \o wire')
      BY <1>5, <3>1, Regroup, Zenon
    <3> QED BY <1>6, <2>2, <2>3, <3>2
  <2> QED BY <1>5, <2>2, <2>3 DEF Taken
<1> HIDE DEF q
<1> QED BY <1>1, <1>3, <1>7

LEMMA ReceiveInitial == Init => ReceiveInv
<1> SUFFICES ASSUME Init PROVE ReceiveInv
  OBVIOUS
<1>1. /\ <<>> \in Seq(Message) /\ <<>> \in Seq(Byte) /\ <<>> \in Seq(Payload)
      /\ Len(<<>>) = 0
  BY EmptySeq
<1>2. MaxPayload \in Nat \ {0} /\ 0 \in 0..(Base * Base - 1)
  BY LimitFacts
<1>3. Received /\ Decoding
  BY <1>1, <1>2, SMT DEF Init, Received, Decoding, Faults, Incomplete
<1>4. Flags
  <2>1. /\ fin = "open" /\ conn = "Connected" /\ stopping = FALSE /\ ended = "none"
        /\ pc = "drain" /\ after = "drain"
    BY DEF Init
  <2> QED BY <2>1 DEF Flags, Places
<1>5. Counts
  BY LoopAssumption, BoundsAssumption, SMT DEF Init, Counts
<1> QED BY <1>3, <1>4, <1>5 DEF ReceiveInv

LEMMA EmptyFits == <<>> \in Seq(Byte) /\ Len(<<>>) < 2 + MaxPayload
<1>1. <<>> \in Seq(Byte) /\ Len(<<>>) = 0
  BY EmptySeq
<1>2. MaxPayload \in Nat
  BY LimitFacts
<1> HIDE DEF Byte
<1> QED BY <1>1, <1>2

\* What the server sends has room in its header.
LEMMA SentIsMessage ==
    ASSUME NEW n \in Sizes, NEW kind \in {0, 1}
    PROVE  [i \in 1..n |-> IF i = 1 THEN kind ELSE Base - 1] \in Message
<1> DEFINE p == [i \in 1..n |-> IF i = 1 THEN kind ELSE Base - 1]
<1>1. PICK s \in Nat : s = Base * Base
  BY ByteAssumption
<1>2. n \in Nat /\ n < s
  BY <1>1, LimitAssumption
<1>3. p \in [1..n -> Byte]
  BY ByteFacts
<1> HIDE DEF p
<1>4. p \in Seq(Byte) /\ Len(p) = n
  BY <1>2, <1>3
<1>5. p \in Message
  BY <1>1, <1>2, <1>4 DEF Message
<1> QED BY <1>5 DEF p

\* What of the stream a step leaves alone.
StreamVars == <<sent, wire, buffer, expected, error, frames, delivered>>

LEMMA ReceivedStep ==
    ASSUME ReceiveInv, [Next]_vars
    PROVE  Received'
<1> USE DEF peer, decoder, writer, loop
<1>1. CASE PeerSends
  <2>1. PICK n \in Sizes, kind \in {0, 1} :
           LET payload == [i \in 1..n |-> IF i = 1 THEN kind ELSE Base - 1]
           IN  /\ sent' = Append(sent, payload)
               /\ wire' = wire \o Frame(payload)
    BY <1>1 DEF PeerSends
  <2> DEFINE p == [i \in 1..n |-> IF i = 1 THEN kind ELSE Base - 1]
  <2>2. p \in Message /\ sent' = Append(sent, p) /\ wire' = wire \o Frame(p)
    BY <2>1, SentIsMessage
  <2> HIDE DEF p
  <2>3. Frame(p) \in Seq(Byte) /\ sent \in Seq(Message) /\ wire \in Seq(Byte)
    BY <2>2, FrameFacts DEF ReceiveInv, Received, Message
  <2>4. sent' \in Seq(Message) /\ wire' \in Seq(Byte)
    BY <2>2, <2>3, AppendProperties, ConcatProperties
  <2>5. UNCHANGED <<decoder, delivered>>
    BY <1>1 DEF PeerSends
  <2> QED BY <2>4, <2>5 DEF ReceiveInv, Received
<1>2. CASE LinkDies
  <2>1. PICK n \in 0..Len(wire) : wire' = SubSeq(wire, 1, n)
    BY <1>2 DEF LinkDies
  <2>2. wire \in Seq(Byte) /\ Len(wire) \in Nat
    BY LenProperties DEF ReceiveInv, Received
  <2>3. \A i \in 1..n : wire[i] \in Byte
    BY <2>2, ElementOfSeq
  <2>4. wire' \in Seq(Byte)
    BY <2>1, <2>2, <2>3, SubSeqProperties
  <2>5. UNCHANGED <<sent, decoder, delivered>>
    BY <1>2 DEF LinkDies
  <2> QED BY <2>4, <2>5 DEF ReceiveInv, Received
<1>3. CASE LogOut
  <2>1. <<>> \in Seq(Payload) /\ <<>> \in Seq(Byte) /\ Len(<<>>) = 0
    BY EmptySeq
  <2>2. MaxPayload \in Nat \ {0} /\ 0 \in 0..(Base * Base - 1)
    BY LimitFacts
  <2>3. /\ buffer' = <<>> /\ expected' = 0 /\ error' = "None" /\ frames' = <<>>
        /\ UNCHANGED <<sent, wire, delivered>>
    BY <1>3 DEF LogOut, Disconnected
  <2> QED BY <2>1, <2>2, <2>3 DEF ReceiveInv, Received, Faults
<1>4. CASE TakePending
  <2>1. frames \in Seq(Payload) /\ delivered \in Seq(Payload)
    BY DEF ReceiveInv, Received
  <2>2. frames # <<>> /\ Deliver(frames) /\ UNCHANGED <<sent, wire>>
    BY <1>4 DEF TakePending
  <2>3. frames' \in Seq(Payload) /\ delivered' \in Seq(Payload)
    BY <2>1, <2>2, DeliverFacts
  <2>4. \/ buffer' = <<>> /\ expected' = 0 /\ error' = "None"
        \/ UNCHANGED <<buffer, expected, error>>
    BY <1>4 DEF TakePending
  <2>5. <<>> \in Seq(Byte) /\ Len(<<>>) = 0
    BY EmptySeq
  <2>6. MaxPayload \in Nat \ {0} /\ 0 \in 0..(Base * Base - 1)
    BY LimitFacts
  <2>7. Received
    BY DEF ReceiveInv
  <2>8. /\ error' \in Faults \cup {"TruncatedFrame"}
        /\ expected' \in 0..(Base * Base - 1)
    BY <2>4, <2>6, <2>7 DEF Faults, Received
  <2>9. buffer' \in Seq(Byte) /\ Len(buffer') < 2 + MaxPayload
    <3>1. CASE buffer' = <<>>
      BY EmptyFits, <3>1
    <3>2. CASE buffer' = buffer
      BY <2>7, <3>2 DEF Received
    <3> QED BY <2>4, <3>1, <3>2
  <2> QED BY <2>2, <2>3, <2>7, <2>8, <2>9 DEF Received
<1>5. CASE ReadBytes
  <2>1. PICK q : Taken(q) /\ (Handed(q) \/ Nothing(q) \/ Faulty(q))
    BY <1>5, ReadFacts DEF ReceiveInv
  <2>2. /\ wire' \in Seq(Byte) /\ sent' = sent /\ q.frames \in Seq(Payload)
        /\ q.buffer \in Seq(Byte) /\ Len(q.buffer) < 2 + MaxPayload
        /\ q.expected \in 0..(Base * Base - 1) /\ q.error \in Faults
    BY <1>5, <2>1, ReadFacts DEF ReceiveInv, Taken, Fits, Decoder
  <2>3. <<>> \in Seq(Byte) /\ <<>> \in Seq(Payload) /\ Len(<<>>) = 0
    BY EmptySeq
  <2>4. MaxPayload \in Nat \ {0} /\ 0 \in 0..(Base * Base - 1)
    BY LimitFacts
  <2>5. delivered \in Seq(Payload) /\ sent \in Seq(Message)
    BY DEF ReceiveInv, Received
  <2>6. CASE Handed(q)
    <3>1. frames' \in Seq(Payload) /\ delivered' \in Seq(Payload)
      BY <2>2, <2>5, <2>6, DeliverFacts DEF Handed
    <3>2. /\ error' = "None"
          /\ \/ buffer' = <<>> /\ expected' = 0
             \/ buffer' = q.buffer /\ expected' = q.expected
      BY <2>6 DEF Handed
    <3>3. /\ error' \in Faults \cup {"TruncatedFrame"}
          /\ expected' \in 0..(Base * Base - 1)
      BY <2>2, <2>4, <3>2 DEF Faults
    <3>4. buffer' \in Seq(Byte) /\ Len(buffer') < 2 + MaxPayload
      <4>1. CASE buffer' = <<>>
        BY EmptyFits, <4>1
      <4>2. CASE buffer' = q.buffer
        BY <2>2, <4>2
      <4> QED BY <3>2, <4>1, <4>2
    <3> QED BY <2>2, <2>5, <3>1, <3>3, <3>4 DEF Received
  <2>7. CASE Nothing(q) \/ Faulty(q)
    <3>1. /\ frames' \in {<<>>, Tail(q.frames)} /\ (frames' = <<>> \/ q.frames # <<>>)
          /\ error' = q.error /\ buffer' = q.buffer
          /\ expected' = q.expected /\ delivered' = delivered
      BY <2>7 DEF Nothing, Faulty
    <3>2. frames' \in Seq(Payload)
      BY <2>2, <2>3, <3>1, HeadTailProperties
    <3> QED BY <2>2, <2>5, <3>1, <3>2 DEF Received
  <2> QED BY <2>1, <2>6, <2>7
<1>6. CASE ReadClosed
  <2>1. UNCHANGED <<sent, wire, buffer, expected, frames, delivered>>
        /\ error' \in {error, "TruncatedFrame"}
    BY <1>6 DEF ReadClosed
  <2> QED BY <2>1 DEF ReceiveInv, Received
<1>7. CASE \/ PeerCloses \/ Stop \/ Destroy \/ SendCommand \/ Quit \/ SendBytes
           \/ SendFails \/ StartReads \/ StopReads \/ ReadTimesOut \/ ReadFails
           \/ ReadNotConnected \/ UNCHANGED vars
  <2>1. UNCHANGED StreamVars
    BY <1>7 DEF PeerCloses, Stop, Destroy, SendCommand, Quit, SendBytes, SendFails,
           StartReads, StopReads, ReadTimesOut, ReadFails, ReadNotConnected, vars,
           StreamVars
  <2> QED BY <2>1 DEF ReceiveInv, Received, StreamVars
<1> QED BY <1>1, <1>2, <1>3, <1>4, <1>5, <1>6, <1>7, Zenon DEF Next, Worker

\* A worker that has published an end is done, and has no decoder to keep.
LEMMA DecodingStep ==
    ASSUME ReceiveInv, [Next]_vars
    PROVE  Decoding'
<1> USE DEF peer, decoder, writer, loop
<1>1. SUFFICES ASSUME ended' = "none"
               PROVE  error' = "None" /\ Incomplete(buffer, expected)'
  BY DEF Decoding
<1>2. Incomplete(<<>>, 0)
  <2>1. Len(<<>>) < 2
    BY EmptySeq
  <2> QED BY <2>1 DEF Incomplete
<1>3. CASE LogOut
  BY <1>1, <1>3 DEF LogOut
<1>4. CASE TakePending
  <2>1. ended' # "refused"
    BY <1>1
  <2>2. UNCHANGED <<buffer, expected, error>>
    BY <1>4, <2>1 DEF TakePending
  <2>3. ended = "none"
    BY <1>4 DEF TakePending, Reading, ReceiveInv, Flags
  <2> QED BY <2>2, <2>3 DEF ReceiveInv, Decoding, Incomplete
<1>5. CASE ReadBytes
  <2>1. PICK q : Taken(q) /\ (Handed(q) \/ Nothing(q) \/ Faulty(q))
    BY <1>5, ReadFacts DEF ReceiveInv
  <2>2. ~ Faulty(q)
    BY <1>1 DEF Faulty, LinkEnds
  <2>3. q.error = "None" /\ error' = "None" /\ buffer' = q.buffer /\ expected' = q.expected
    BY <1>1, <2>1, <2>2 DEF Handed, Nothing
  <2> QED BY <2>1, <2>3 DEF Taken, Fits, Incomplete
<1>6. CASE ReadClosed
  <2>1. UNCHANGED <<buffer, expected>> /\ error' = error /\ ended = "none"
    BY <1>1, <1>6 DEF ReadClosed, LinkEnds, Reading, ReceiveInv, Flags
  <2> QED BY <2>1 DEF ReceiveInv, Decoding, Incomplete
<1>7. CASE \/ PeerSends \/ PeerCloses \/ LinkDies \/ Stop \/ Destroy
           \/ SendCommand \/ Quit \/ SendBytes \/ SendFails \/ StartReads
           \/ StopReads \/ ReadTimesOut \/ ReadFails \/ ReadNotConnected
           \/ UNCHANGED vars
  <2>1. UNCHANGED <<buffer, expected, error>> /\ ended = "none"
    BY <1>1, <1>7 DEF PeerSends, PeerCloses, LinkDies, Stop, Destroy, SendCommand,
           Quit, SendBytes, SendFails, StartReads, StopReads, ReadTimesOut,
           ReadFails, ReadNotConnected, NoMessage, LinkEnds, vars
  <2> QED BY <2>1 DEF ReceiveInv, Decoding, Incomplete
<1> QED BY <1>3, <1>4, <1>5, <1>6, <1>7, Zenon DEF Next, Worker

\* The values of what a read leaves behind.
LEMMA ReadOutcome ==
    ASSUME ReceiveInv, TakePending \/ ReadBytes
    PROVE  /\ pc = "read" /\ ended = "none"
           /\ attempts > 0 \/ reads < MaxReads
           /\ UNCHANGED <<sent, fin, uplink, command, left, after, stopping>>
           /\ \/ /\ reads' = reads + 1 /\ attempts' = 0
                 /\ UNCHANGED <<conn, pc, ended>>
              \/ /\ conn' \in {conn, "Disconnected"} /\ pc' = "done"
                 /\ ended' \in {"refused", "undecodable", "orderly", "lost"}
                 /\ UNCHANGED <<reads, attempts>>
              \/ TryAgain /\ UNCHANGED conn
<1>1. CASE TakePending
  <2>1. /\ pc = "read" /\ ended = "none"
        /\ attempts > 0 \/ reads < MaxReads
        /\ UNCHANGED <<sent, fin, uplink, command, left, after, stopping>>
    BY <1>1 DEF TakePending, Reading, ReceiveInv, Flags, peer, writer
  <2>2. frames \in Seq(Payload) /\ frames # <<>> /\ delivered \in Seq(Payload)
        /\ Deliver(frames)
    BY <1>1 DEF TakePending, ReceiveInv, Received
  <2>3. GoesOn(frames) \/ Refuses(frames) \/ Breaks(frames)
    BY <2>2, DeliverFacts
  <2> QED BY <2>1, <2>3 DEF GoesOn, Refuses, Breaks, LinkEnds
<1>2. CASE ReadBytes
  <2>1. /\ pc = "read" /\ ended = "none"
        /\ attempts > 0 \/ reads < MaxReads
        /\ UNCHANGED <<sent, fin, uplink, command, left, after, stopping>>
    BY <1>2, ReadFacts DEF ReceiveInv
  <2>2. PICK q : Taken(q) /\ (Handed(q) \/ Nothing(q) \/ Faulty(q))
    BY <1>2, ReadFacts DEF ReceiveInv
  <2>3. CASE Handed(q)
    <3>1. q.frames \in Seq(Payload) /\ q.frames # <<>> /\ delivered \in Seq(Payload)
          /\ Deliver(q.frames)
      BY <2>2, <2>3 DEF Taken, Fits, Decoder, Handed, ReceiveInv, Received
    <3>2. GoesOn(q.frames) \/ Refuses(q.frames) \/ Breaks(q.frames)
      BY <3>1, DeliverFacts
    <3> QED BY <2>1, <3>2 DEF GoesOn, Refuses, Breaks, LinkEnds
  <2>4. CASE Nothing(q)
    BY <2>1, <2>4 DEF Nothing
  <2>5. CASE Faulty(q)
    BY <2>1, <2>5 DEF Faulty, LinkEnds
  <2> QED BY <2>2, <2>3, <2>4, <2>5
<1> QED BY <1>1, <1>2

LEMMA FlagsStep ==
    ASSUME ReceiveInv, [Next]_vars
    PROVE  Flags'
<1> USE DEF peer, decoder, writer, loop, Flags, Places
<1>1. Flags
  BY DEF ReceiveInv
<1>2. CASE PeerSends
  BY <1>1, <1>2 DEF PeerSends
<1>3. CASE PeerCloses
  BY <1>1, <1>3 DEF PeerCloses
<1>4. CASE LinkDies
  BY <1>1, <1>4 DEF LinkDies
<1>5. CASE Stop
  BY <1>1, <1>5 DEF Stop
<1>6. CASE Destroy
  BY <1>1, <1>6 DEF Destroy
<1>7. CASE SendCommand
  BY <1>1, <1>7 DEF SendCommand
<1>8. CASE Quit
  BY <1>1, <1>8 DEF Quit
<1>9. CASE SendBytes
  BY <1>1, <1>9 DEF SendBytes
<1>10. CASE SendFails
  BY <1>1, <1>10 DEF SendFails
<1>11. CASE LogOut
  BY <1>1, <1>11 DEF LogOut, Disconnected
<1>12. CASE StartReads
  BY <1>1, <1>12 DEF StartReads
<1>13. CASE StopReads
  BY <1>1, <1>13 DEF StopReads
<1>14. CASE TakePending \/ ReadBytes
  BY <1>1, <1>14, ReadOutcome DEF TryAgain, NoMessage
<1>15. CASE ReadTimesOut
  BY <1>1, <1>15 DEF ReadTimesOut, NoMessage, Reading
<1>16. CASE ReadClosed
  BY <1>1, <1>16 DEF ReadClosed, LinkEnds, TryAgain, NoMessage, Reading
<1>17. CASE ReadFails
  BY <1>1, <1>17 DEF ReadFails, LinkEnds
<1>18. CASE ReadNotConnected
  BY <1>1, <1>18 DEF ReadNotConnected, LinkEnds
<1>19. CASE UNCHANGED vars
  BY <1>1, <1>19 DEF vars
<1> QED BY <1>2, <1>3, <1>4, <1>5, <1>6, <1>7, <1>8, <1>9, <1>10, <1>11, <1>12,
           <1>13, <1>14, <1>15, <1>16, <1>17, <1>18, <1>19, Zenon DEF Next, Worker

LEMMA CountsStep ==
    ASSUME ReceiveInv, [Next]_vars
    PROVE  Counts'
<1> USE DEF peer, decoder, writer, loop, Counts
<1>1. /\ Counts /\ pc \in Places
      /\ MaxReads \in Nat \ {0} /\ MaxAttempts \in Nat \ {0}
      /\ CommandSize \in Nat \ {0} /\ MaxCommands \in Nat
  BY LoopAssumption, BoundsAssumption DEF ReceiveInv, Flags
<1>2. CASE PeerSends \/ PeerCloses \/ LinkDies \/ Stop \/ Destroy
  BY <1>1, <1>2 DEF PeerSends, PeerCloses, LinkDies, Stop, Destroy
<1>3. CASE SendCommand
  BY <1>1, <1>3 DEF SendCommand
<1>4. CASE Quit
  BY <1>1, <1>4 DEF Quit
<1>5. CASE SendBytes
  <2>1. after \in {"drain", "quit"}
    BY DEF ReceiveInv, Flags
  <2> QED BY <1>1, <1>5, <2>1 DEF SendBytes
<1>6. CASE SendFails
  <2>1. after \in {"drain", "quit"}
    BY DEF ReceiveInv, Flags
  <2> QED BY <1>1, <1>6, <2>1 DEF SendFails
<1>7. CASE LogOut
  BY <1>1, <1>7 DEF LogOut
<1>8. CASE StartReads
  BY <1>1, <1>8 DEF StartReads
<1>9. CASE StopReads
  BY <1>1, <1>9 DEF StopReads
<1>10. CASE TakePending \/ ReadBytes
  BY <1>1, <1>10, ReadOutcome DEF TryAgain, NoMessage
<1>11. CASE ReadTimesOut
  BY <1>1, <1>11 DEF ReadTimesOut, NoMessage, Reading
<1>12. CASE ReadClosed
  BY <1>1, <1>12 DEF ReadClosed, LinkEnds, TryAgain, NoMessage, Reading
<1>13. CASE ReadFails \/ ReadNotConnected
  BY <1>1, <1>13 DEF ReadFails, ReadNotConnected, LinkEnds
<1>14. CASE UNCHANGED vars
  BY <1>1, <1>14 DEF vars
<1> QED BY <1>2, <1>3, <1>4, <1>5, <1>6, <1>7, <1>8, <1>9, <1>10, <1>11, <1>12,
           <1>13, <1>14, Zenon DEF Next, Worker

LEMMA ReceiveStep == ReceiveInv /\ [Next]_vars => ReceiveInv'
<1> SUFFICES ASSUME ReceiveInv, [Next]_vars PROVE ReceiveInv'
  OBVIOUS
<1> QED BY ReceivedStep, DecodingStep, FlagsStep, CountsStep DEF ReceiveInv

(* Every value the client's end of a connection takes is one the code can    *)
(* give it; the decoder never holds the bytes of more than one frame, the    *)
(* worker never reads more messages in a pass nor tries more often for one   *)
(* than its loops say (FrameDecoder::Feed, ReadNextMessage, Run).            *)
THEOREM TransportTypes == Spec => []TypeOK
<1>1. ASSUME ReceiveInv, UplinkInv PROVE TypeOK
  <2>1. /\ sent \in Seq(Seq(Byte)) /\ frames \in Seq(Seq(Byte))
        /\ delivered \in Seq(Seq(Byte))
    <3>1. Message \subseteq Seq(Byte) /\ Payload \subseteq Seq(Byte)
      BY DEF Message, Payload
    <3>2. /\ sent \in Seq(Message) /\ frames \in Seq(Payload)
          /\ delivered \in Seq(Payload)
      BY <1>1 DEF ReceiveInv, Received
    <3> QED BY <3>1, <3>2, SeqMonotonic
  <2>2. Received /\ Flags /\ Counts
    BY <1>1 DEF ReceiveInv
  <2>3. uplink \in Seq(Nat \X Nat)
    BY <1>1 DEF UplinkInv
  <2> QED BY <2>1, <2>2, <2>3 DEF TypeOK, Received, Flags, Counts, Places, Faults
<1> QED BY <1>1, ReceiveInitial, ReceiveStep, UplinkInitial, UplinkStep, PTL DEF Spec

-----------------------------------------------------------------------------
(* The messages of the server, a stream behind socket, decoder and frames.  *)

Pending == Framed(frames, Byte) \o buffer \o wire
Queue == IF ended = "none" THEN Pending ELSE <<>>
Out == Framed(delivered, {0})
Open == ended = "none" /\ fin \in {"open", "closed"}

\* A sequence between two others can be cut off at either side.
LEMMA CutOff ==
    ASSUME NEW S, NEW s \in Seq(S), NEW t \in Seq(S), NEW q, q = s \o t
    PROVE  /\ q \in Seq(S) /\ Len(q) = Len(s) + Len(t) /\ Len(s) \in Nat
           /\ SubSeq(q, 1, Len(s)) = s
           /\ SubSeq(q, Len(s) + 1, Len(q)) = t
<1>1. /\ q \in Seq(S) /\ Len(s) \in Nat /\ Len(t) \in Nat
      /\ Len(q) = Len(s) + Len(t)
      /\ \A i \in 1..(Len(s) + Len(t)) : q[i] = IF i <= Len(s) THEN s[i] ELSE t[i - Len(s)]
  BY ConcatProperties, LenProperties
<1>2. /\ \A i \in 1..Len(s) : q[i] \in S
      /\ \A i \in (Len(s) + 1)..Len(q) : q[i] \in S
  BY <1>1, ElementOfSeq
<1> DEFINE a == SubSeq(q, 1, Len(s))
           b == SubSeq(q, Len(s) + 1, Len(q))
<1>3. /\ a \in Seq(S) /\ Len(a) = (IF 1 <= Len(s) THEN Len(s) - 1 + 1 ELSE 0)
      /\ \A i \in 1..(Len(s) - 1 + 1) : a[i] = q[1 + i - 1]
  BY <1>1, <1>2, SubSeqProperties
<1>4. /\ b \in Seq(S)
      /\ Len(b) = (IF Len(s) + 1 <= Len(q) THEN Len(q) - (Len(s) + 1) + 1 ELSE 0)
      /\ \A i \in 1..(Len(q) - (Len(s) + 1) + 1) : b[i] = q[(Len(s) + 1) + i - 1]
  BY <1>1, <1>2, SubSeqProperties
<1> HIDE DEF a, b
<1>5. a = s
  <2>1. Len(a) = Len(s) /\ \A i \in 1..Len(s) : 1 + i - 1 = i
    BY <1>1, <1>3
  <2>2. \A i \in 1..Len(s) : a[i] = s[i]
    BY <1>1, <1>3, <2>1
  <2> QED BY <1>3, <2>1, <2>2, SeqEqual
<1>6. b = t
  <2>1. Len(b) = Len(t)
    BY <1>1, <1>4
  <2>2. ASSUME NEW i \in 1..Len(t) PROVE b[i] = t[i]
    <3>1. b[i] = q[Len(s) + i]
      BY <1>1, <1>4
    <3>2. Len(s) + i \in 1..(Len(s) + Len(t)) /\ ~ (Len(s) + i <= Len(s))
          /\ (Len(s) + i) - Len(s) = i
      BY <1>1
    <3> QED BY <1>1, <3>1, <3>2
  <2> QED BY <1>4, <2>1, <2>2, SeqEqual
<1> QED BY <1>1, <1>5, <1>6 DEF a, b

LEMMA IsPrefix ==
    ASSUME NEW S, NEW s \in Seq(S), NEW t \in Seq(S)
    PROVE  Messages!Prefix(s, s \o t) /\ Messages!Prefix(<<>>, s)
<1>1. Messages!Prefix(s, s \o t)
  <2>1. Len(s \o t) = Len(s) + Len(t) /\ Len(s) \in Nat /\ SubSeq(s \o t, 1, Len(s)) = s
        /\ Len(t) \in Nat
    BY CutOff, LenProperties
  <2> QED BY <2>1 DEF Messages!Prefix
<1>2. Messages!Prefix(<<>>, s)
  <2>1. Len(<<>>) = 0 /\ Len(s) \in Nat /\ SubSeq(s, 1, 0) = <<>>
    BY EmptySeq, LenProperties, SubSeqEmpty
  <2> QED BY <2>1 DEF Messages!Prefix
<1> QED BY <1>1, <1>2

LEMMA PendingTyped ==
    ASSUME Received
    PROVE  /\ Framed(frames, Byte) \in Seq(Byte) /\ buffer \in Seq(Byte)
           /\ wire \in Seq(Byte) /\ Pending \in Seq(Byte) /\ Queue \in Seq(Byte)
           /\ Out \in Seq(Byte)
<1>1. /\ Framed(frames, Byte) \in Seq(Byte) /\ buffer \in Seq(Byte)
      /\ wire \in Seq(Byte) /\ Framed(delivered, {0}) \in Seq(Byte)
  BY FramedFacts DEF Received
<1>2. Pending \in Seq(Byte)
  BY <1>1, ConcatProperties DEF Pending
<1>3. <<>> \in Seq(Byte)
  BY EmptySeq
<1> QED BY <1>1, <1>2, <1>3 DEF Queue, Out

\* The stream after a step.
LEMMA Later ==
    /\ Pending' = Framed(frames', Byte) \o buffer' \o wire'
    /\ Queue' = IF ended' = "none" THEN Pending' ELSE <<>>
    /\ Out' = Framed(delivered', {0})
    /\ Open' <=> ended' = "none" /\ fin' \in {"open", "closed"}
<1>1. Byte' = Byte
  BY DEF Byte
<1> QED BY <1>1 DEF Pending, Queue, Out, Open, Framed, Frame

LEMMA PutIs == Open /\ Messages!Prefix(Queue, Queue') /\ Out' = Out /\ Open' = Open
               => Messages!Put
  BY DEF Messages!Put, Queue, Pending, Out, Open

LEMMA TakeIs ==
    ASSUME NEW n \in 1..Len(Queue),
           Out' = Out \o SubSeq(Queue, 1, n),
           Queue' = SubSeq(Queue, n + 1, Len(Queue)), Open' = Open
    PROVE  Messages!Take
  BY DEF Messages!Take, Queue, Pending, Out, Open

LEMMA CutIs == ~ Open' /\ Messages!Prefix(Queue', Queue) /\ Out' = Out => Messages!Cut
  BY DEF Messages!Cut, Queue, Pending, Out, Open

LEMMA StayIs == Queue' = Queue /\ Out' = Out /\ Open' = Open => UNCHANGED Messages!vars
  BY DEF Messages!vars, Queue, Pending, Out, Open

\* When the worker publishes an end, what has not been handed on is lost.
LEMMA EndCuts ==
    ASSUME Received, ended' # "none", Out' = Out
    PROVE  Messages!Cut
<1>1. Queue' = <<>> /\ ~ Open'
  BY Later
<1>2. Messages!Prefix(<<>>, Queue)
  BY PendingTyped, IsPrefix
<1> QED BY <1>1, <1>2, CutIs

\* A message that ends the session is not counted as handed on.
LEMMA OutKept ==
    ASSUME delivered \in Seq(Payload), NEW p \in Payload, p[1] # 0,
           delivered' = Append(delivered, p)
    PROVE  Out' = Out
<1>1. Framed(delivered', {0}) = Framed(delivered, {0}) \o Piece(p, {0})
  BY FramedFacts
<1>2. Piece(p, {0}) = <<>>
  BY DEF Piece
<1>3. Framed(delivered, {0}) \in Seq(Byte)
  BY FramedFacts
<1>4. Framed(delivered', {0}) = Framed(delivered, {0})
  BY <1>1, <1>2, <1>3, ConcatEmptySeq
<1> QED BY <1>4, Later DEF Out

\* The given frames are the first of the stream and are being delivered; x is
\* what is behind them.
Handing(fs, x) ==
    /\ fs \in Seq(Payload) /\ fs # <<>> /\ Deliver(fs)
    /\ ended = "none" /\ fin' = fin
    /\ x \in Seq(Byte) /\ Queue = Framed(fs, Byte) \o x
    /\ ended' = "none" => /\ buffer' \in Seq(Byte) /\ wire' \in Seq(Byte)
                          /\ buffer' \o wire' = x

\* A message that is gone on after leaves the stream without its first frame.
LEMMA FirstLeaves ==
    ASSUME Received, NEW fs, NEW x, Handing(fs, x)
    PROVE  /\ Head(fs) \in Payload
           /\ GoesOn(fs) \/ Refuses(fs) \/ Breaks(fs)
           /\ \E y \in Seq(Byte) : /\ Queue = Frame(Head(fs)) \o y
                                   /\ ended' = "none" => GoesOn(fs) /\ Queue' = y
<1> DEFINE p == Head(fs)
           f == Frame(p)
           rest == Framed(Tail(fs), Byte)
           y == rest \o x
<1>1. /\ fs \in Seq(Payload) /\ fs # <<>> /\ Deliver(fs) /\ x \in Seq(Byte)
      /\ Queue = Framed(fs, Byte) \o x
      /\ ended' = "none" => /\ buffer' \in Seq(Byte) /\ wire' \in Seq(Byte)
                            /\ buffer' \o wire' = x
  BY DEF Handing
<1>2. /\ p \in Payload /\ Tail(fs) \in Seq(Payload)
      /\ Framed(fs, Byte) = Piece(p, Byte) \o rest
  BY <1>1, FramedFirst
<1>3. Piece(p, Byte) = f /\ f \in Seq(Byte) /\ rest \in Seq(Byte)
  <2>1. Piece(p, Byte) = f /\ p \in Seq(Byte) /\ Len(p) < Base * Base
    BY <1>2, WholePiece, PayloadIsShort
  <2> QED BY <1>2, <2>1, FrameFacts, FramedFacts
<1>4. GoesOn(fs) \/ Refuses(fs) \/ Breaks(fs)
  BY <1>1, DeliverFacts DEF Received
<1>5. ASSUME ended' = "none" PROVE GoesOn(fs)
  BY <1>4, <1>5 DEF Refuses, Breaks, LinkEnds
<1>6. ASSUME ended' = "none" PROVE Queue' = y
  <2> DEFINE b == buffer'
             c == wire'
  <2>1. frames' = Tail(fs)
    BY <1>5, <1>6 DEF GoesOn
  <2>2. b \in Seq(Byte) /\ c \in Seq(Byte) /\ b \o c = x /\ Queue' = (rest \o b) \o c
    BY <1>1, <1>6, <2>1, Later
  <2> HIDE DEF b, c, rest
  <2>3. (rest \o b) \o c = rest \o (b \o c)
    BY <1>3, <2>2, Regroup, Zenon
  <2> QED BY <2>2, <2>3
<1>7. Queue = f \o y /\ y \in Seq(Byte)
  <2> HIDE DEF p, f, rest
  <2>1. (f \o rest) \o x = f \o (rest \o x)
    BY <1>1, <1>3, Regroup, Zenon
  <2>2. rest \o x \in Seq(Byte)
    BY <1>1, <1>3, ConcatProperties
  <2> QED BY <1>1, <1>2, <1>3, <2>1, <2>2
<1> HIDE DEF y
<1> QED BY <1>2, <1>4, <1>5, <1>6, <1>7

\* Whatever a read or a frame behind it leads to.
LEMMA DeliverStep ==
    ASSUME Received, NEW fs, NEW x, Handing(fs, x)
    PROVE  Messages!Next
<1> DEFINE p == Head(fs)
           f == Frame(p)
<1>1. p \in Payload /\ (GoesOn(fs) \/ Refuses(fs) \/ Breaks(fs)) /\ fin' = fin
      /\ ended = "none" /\ delivered \in Seq(Payload)
  BY FirstLeaves DEF Handing, Received
<1>2. CASE GoesOn(fs)
  <2>1. PICK y \in Seq(Byte) : Queue = f \o y /\ Queue' = y
    BY <1>1, <1>2, FirstLeaves DEF GoesOn
  <2>2. f \in Seq(Byte) /\ Len(f) = 2 + Len(p) /\ Len(p) \in Nat /\ Len(y) \in Nat
    <3>1. p \in Seq(Byte) /\ Len(p) < Base * Base
      BY <1>1, PayloadIsShort
    <3> QED BY <3>1, FrameFacts, LenProperties
  <2>3. Out' = Out \o f
    <3>1. delivered' = Append(delivered, p) /\ p[1] = 0
      BY <1>2 DEF GoesOn
    <3>2. Framed(delivered', {0}) = Framed(delivered, {0}) \o Piece(p, {0})
      BY <1>1, <3>1, FramedFacts
    <3>3. Piece(p, {0}) = f
      BY <3>1 DEF Piece
    <3> QED BY <3>2, <3>3, Later DEF Out
  <2> HIDE DEF p, f
  <2>4. /\ Len(Queue) = Len(f) + Len(y) /\ SubSeq(Queue, 1, Len(f)) = f
        /\ SubSeq(Queue, Len(f) + 1, Len(Queue)) = y
    <3>1. f \in Seq(Byte) /\ y \in Seq(Byte) /\ Queue = f \o y
      BY <2>1, <2>2
    <3> QED BY <3>1, CutOff
  <2>5. Len(f) \in 1..Len(Queue)
    BY <2>2, <2>4
  <2>6. Open' = Open
    BY <1>1, <1>2, Later DEF GoesOn, Open
  <2> QED BY <2>1, <2>3, <2>4, <2>5, <2>6, TakeIs DEF Messages!Next
<1>3. CASE Refuses(fs)
  <2>1. ended' # "none"
    BY <1>3 DEF Refuses
  <2>2. Out' = Out
    BY <1>1, <1>3, OutKept DEF Refuses
  <2> QED BY <2>1, <2>2, EndCuts DEF Messages!Next
<1>4. CASE Breaks(fs)
  <2>1. ended' # "none" /\ delivered' = delivered
    BY <1>4 DEF Breaks, LinkEnds
  <2>2. Out' = Out
    BY <2>1, Later DEF Out
  <2> QED BY <2>1, <2>2, EndCuts DEF Messages!Next
<1> QED BY <1>1, <1>2, <1>3, <1>4

\* What the server sends is put behind the stream.
LEMMA PutGrows ==
    ASSUME ReceiveInv, PeerSends, ended = "none"
    PROVE  \E p \in Message : /\ sent' = Append(sent, p)
                              /\ Frame(p) \in Seq(Byte) /\ Queue \in Seq(Byte)
                              /\ Queue' = Queue \o Frame(p)
<1> USE DEF peer, decoder, writer, loop
<1>1. PICK n \in Sizes, kind \in {0, 1} :
         LET payload == [i \in 1..n |-> IF i = 1 THEN kind ELSE Base - 1]
         IN  /\ sent' = Append(sent, payload)
             /\ wire' = wire \o Frame(payload)
  BY DEF PeerSends
<1> DEFINE p == [i \in 1..n |-> IF i = 1 THEN kind ELSE Base - 1]
<1>2. p \in Message /\ sent' = Append(sent, p) /\ wire' = wire \o Frame(p)
  BY <1>1, SentIsMessage
<1> HIDE DEF p
<1>3. Frame(p) \in Seq(Byte)
  BY <1>2, FrameFacts DEF Message
<1>4. UNCHANGED <<frames, buffer, ended>>
  BY DEF PeerSends
<1> DEFINE a == Framed(frames, Byte) \o buffer
           f == Frame(p)
<1>5. a \in Seq(Byte) /\ wire \in Seq(Byte) /\ Queue = a \o wire /\ Queue \in Seq(Byte)
  BY PendingTyped, ConcatProperties DEF ReceiveInv, Pending, Queue
<1>6. Queue' = a \o (wire \o f)
  BY <1>2, <1>4, Later
<1> HIDE DEF a, f
<1>7. (a \o wire) \o f = a \o (wire \o f)
  BY <1>3, <1>5, Regroup, Zenon DEF f
<1> QED BY <1>2, <1>3, <1>5, <1>6, <1>7 DEF f

LEMMA PutStep == ASSUME ReceiveInv, PeerSends PROVE Messages!Next \/ UNCHANGED Messages!vars
<1>1. UNCHANGED <<frames, buffer, delivered, ended, fin>> /\ fin = "open"
  BY DEF PeerSends, peer, decoder
<1>2. Out' = Out /\ Open' = Open
  BY <1>1, Later DEF Out, Open
<1>3. CASE ended = "none"
  <2>1. Open
    BY <1>1, <1>3 DEF Open
  <2>2. PICK p \in Message : /\ Frame(p) \in Seq(Byte) /\ Queue \in Seq(Byte)
                             /\ Queue' = Queue \o Frame(p)
    BY <1>3, PutGrows
  <2>3. Messages!Prefix(Queue, Queue')
    BY <2>2, IsPrefix
  <2> QED BY <1>2, <2>1, <2>3, PutIs DEF Messages!Next
<1>4. CASE ended # "none"
  <2>1. Queue' = Queue
    BY <1>1, <1>4, Later DEF Queue
  <2> QED BY <1>2, <2>1, StayIs
<1> QED BY <1>3, <1>4

\* A tail of what was sent is lost.
LEMMA DieShortens ==
    ASSUME ReceiveInv, LinkDies, ended = "none"
    PROVE  \E t \in Seq(Byte) : Queue' \in Seq(Byte) /\ Queue = Queue' \o t
<1> USE DEF peer, decoder, writer, loop
<1>1. PICK n \in 0..Len(wire) : wire' = SubSeq(wire, 1, n)
  BY DEF LinkDies
<1>2. UNCHANGED <<frames, buffer, ended>>
  BY DEF LinkDies
<1>3. /\ Framed(frames, Byte) \in Seq(Byte) /\ buffer \in Seq(Byte)
      /\ wire \in Seq(Byte)
  BY PendingTyped DEF ReceiveInv
<1> DEFINE a == Framed(frames, Byte) \o buffer
           s == SubSeq(wire, 1, n)
           t == SubSeq(wire, n + 1, Len(wire))
<1>4. a \in Seq(Byte)
  BY <1>3, ConcatProperties
<1>5. Len(wire) \in Nat /\ n \in 0..Len(wire)
  BY <1>3, LenProperties
<1>6. s \in Seq(Byte) /\ t \in Seq(Byte) /\ s \o t = wire
  <2>1. \A i \in 1..n : wire[i] \in Byte
    BY <1>3, <1>5, ElementOfSeq
  <2>2. \A i \in (n + 1)..Len(wire) : wire[i] \in Byte
    BY <1>3, <1>5, ElementOfSeq
  <2>3. 1 \in 1..(Len(wire) + 1) /\ n \in (1 - 1)..Len(wire) /\ Len(wire) \in n..Len(wire)
    BY <1>5
  <2>4. s \o t = SubSeq(wire, 1, Len(wire))
    BY <1>3, <2>3, ConcatAdjacentSubSeq
  <2>5. s \o t = wire
    BY <1>3, <2>4, SubSeqFull
  <2>6. s \in Seq(Byte)
    BY <1>5, <2>1, SubSeqProperties
  <2>7. t \in Seq(Byte)
    BY <1>5, <2>2, SubSeqProperties
  <2> QED BY <2>5, <2>6, <2>7
<1>7. Queue = a \o (s \o t) /\ Queue' = a \o s
  BY <1>1, <1>2, <1>6, Later DEF Queue, Pending
<1> HIDE DEF a, s, t
<1>8. (a \o s) \o t = a \o (s \o t)
  BY <1>4, <1>6, Regroup, Zenon
<1>9. a \o s \in Seq(Byte)
  BY <1>4, <1>6, ConcatProperties
<1> QED BY <1>6, <1>7, <1>8, <1>9

LEMMA DieStep == ASSUME ReceiveInv, LinkDies PROVE Messages!Next
<1>1. UNCHANGED <<delivered, ended>> /\ fin' \in {"reset", "broken"}
  BY DEF LinkDies
<1>2. Out' = Out /\ ~ Open'
  BY <1>1, Later DEF Out
<1>3. Messages!Prefix(Queue', Queue)
  <2>1. CASE ended = "none"
    <3>1. PICK t \in Seq(Byte) : Queue' \in Seq(Byte) /\ Queue = Queue' \o t
      BY <2>1, DieShortens
    <3> QED BY <3>1, IsPrefix
  <2>2. CASE ended # "none"
    <3>1. Queue' = <<>> /\ Queue \in Seq(Byte)
      BY <1>1, <2>2, Later, PendingTyped DEF ReceiveInv
    <3> QED BY <3>1, IsPrefix
  <2> QED BY <2>1, <2>2
<1> QED BY <1>2, <1>3, CutIs DEF Messages!Next

LEMMA PendingHanded ==
    ASSUME ReceiveInv, TakePending
    PROVE  \E x : Handing(frames, x)
<1>1. /\ frames # <<>> /\ Deliver(frames) /\ wire' = wire /\ fin' = fin
      /\ ended = "none"
  BY DEF TakePending, Reading, peer, ReceiveInv, Flags
<1>2. Received /\ frames \in Seq(Payload)
  BY DEF ReceiveInv, Received
<1> DEFINE x == buffer \o wire
<1>3. buffer \in Seq(Byte) /\ wire \in Seq(Byte) /\ x \in Seq(Byte)
  BY <1>2, PendingTyped, ConcatProperties
<1>4. Queue = Framed(frames, Byte) \o x
  <2> DEFINE a == Framed(frames, Byte)
  <2>1. a \in Seq(Byte) /\ Queue = (a \o buffer) \o wire
    BY <1>1, <1>2, PendingTyped DEF Queue, Pending
  <2> HIDE DEF a
  <2>2. (a \o buffer) \o wire = a \o (buffer \o wire)
    BY <1>3, <2>1, Regroup, Zenon
  <2> QED BY <2>1, <2>2 DEF a
<1>5. ended' = "none" => buffer' = buffer
  BY DEF TakePending
<1>6. ended' = "none" => buffer' \o wire' = x
  BY <1>1, <1>5
<1>7. ended' = "none" => buffer' \in Seq(Byte) /\ wire' \in Seq(Byte)
  BY <1>1, <1>3, <1>5
<1> HIDE DEF x
<1>8. Handing(frames, x)
  BY <1>1, <1>2, <1>3, <1>4, <1>6, <1>7 DEF Handing
<1> QED BY <1>8

\* A read moves bytes from the socket to the decoder, and may complete frames.
LEMMA ReadStream ==
    ASSUME ReceiveInv, NEW q, Taken(q), q.error = "None", ended = "none", frames = <<>>
    PROVE  /\ Queue = Framed(q.frames, Byte) \o (q.buffer \o wire')
           /\ q.frames \in Seq(Payload) /\ q.buffer \in Seq(Byte) /\ wire' \in Seq(Byte)
           /\ q.buffer \o wire' \in Seq(Byte) /\ Framed(q.frames, Byte) \in Seq(Byte)
<1>1. q.frames \in Seq(Payload) /\ q.buffer \in Seq(Byte) /\ wire' \in Seq(Byte)
  BY DEF Taken, Fits, Decoder
<1>2. Framed(q.frames, Byte) \in Seq(Byte) /\ q.buffer \o wire' \in Seq(Byte)
  BY <1>1, FramedFacts, ConcatProperties
<1>3. Held(q) \o wire' = buffer \o wire
  BY DEF Taken
<1>4. Queue = buffer \o wire
  <2>1. buffer \in Seq(Byte) /\ Framed(frames, Byte) = <<>>
    BY FramedFacts DEF ReceiveInv, Received
  <2>2. Framed(frames, Byte) \o buffer = buffer
    BY <2>1, ConcatEmptySeq
  <2> QED BY <2>2 DEF Queue, Pending
<1> DEFINE a == Framed(q.frames, Byte)
           b == q.buffer
           c == wire'
<1>5. a \in Seq(Byte) /\ b \in Seq(Byte) /\ c \in Seq(Byte) /\ Queue = (a \o b) \o c
  BY <1>1, <1>2, <1>3, <1>4 DEF Held
<1> HIDE DEF a, b, c
<1>6. (a \o b) \o c = a \o (b \o c)
  BY ONLY <1>5, Regroup, Zenon
<1>7. Queue = a \o (b \o c)
  BY <1>5, <1>6
<1> QED BY <1>1, <1>2, <1>7 DEF a, b, c

\* A read that completes no frame leaves the stream as it is.
LEMMA NothingStays ==
    ASSUME ReceiveInv, NEW q, Taken(q), Nothing(q), ended = "none", frames = <<>>,
           fin' = fin
    PROVE  Queue' = Queue /\ Out' = Out /\ Open' = Open
<1>1. Queue = Framed(q.frames, Byte) \o (q.buffer \o wire') /\ q.buffer \in Seq(Byte)
      /\ wire' \in Seq(Byte)
  BY ReadStream DEF Nothing
<1>2. /\ q.frames = <<>> /\ frames' = <<>> /\ buffer' = q.buffer
      /\ ended' = ended /\ delivered' = delivered
  BY DEF Nothing, TryAgain, NoMessage
<1>3. Framed(<<>>, Byte) = <<>>
  <2>1. <<>> \in Seq(Payload)
    BY EmptySeq
  <2> QED BY <2>1, FramedFacts
<1>4. buffer' \o wire' \in Seq(Byte)
  BY <1>1, <1>2, ConcatProperties
<1>5. Queue = buffer' \o wire'
  BY <1>1, <1>2, <1>3, <1>4, ConcatEmptySeq
<1>6. Queue' = buffer' \o wire'
  <2>1. <<>> \o buffer' = buffer'
    BY <1>1, <1>2, ConcatEmptySeq
  <2> QED BY <1>2, <1>3, <2>1, Later
<1>7. Out' = Out /\ Open' = Open
  BY <1>2, Later DEF Out, Open
<1> QED BY <1>5, <1>6, <1>7

LEMMA ReadHanded ==
    ASSUME ReceiveInv, NEW q, Taken(q), Handed(q), ended = "none", frames = <<>>,
           fin' = fin
    PROVE  \E x : Handing(q.frames, x)
<1> DEFINE x == q.buffer \o wire'
<1>1. /\ Queue = Framed(q.frames, Byte) \o x /\ q.frames \in Seq(Payload)
      /\ x \in Seq(Byte) /\ q.buffer \in Seq(Byte) /\ wire' \in Seq(Byte)
  BY ReadStream DEF Handed
<1>2. q.frames # <<>> /\ Deliver(q.frames) /\ (ended' = "none" => buffer' = q.buffer)
  BY DEF Handed
<1>3. ended' = "none" => buffer' \o wire' = x
  BY <1>2
<1> HIDE DEF x
<1>4. Handing(q.frames, x)
  BY <1>1, <1>2, <1>3 DEF Handing
<1> QED BY <1>4

LEMMA ReadBytesStep ==
    ASSUME ReceiveInv, ReadBytes
    PROVE  Messages!Next \/ UNCHANGED Messages!vars
<1>1. /\ ended = "none" /\ frames = <<>> /\ fin' = fin
  BY ReadFacts DEF ReceiveInv
<1>2. PICK q : Taken(q) /\ (Handed(q) \/ Nothing(q) \/ Faulty(q))
  BY ReadFacts DEF ReceiveInv
<1>3. CASE Handed(q)
  <2>1. PICK x : Handing(q.frames, x)
    BY <1>1, <1>2, <1>3, ReadHanded
  <2> QED BY <2>1, DeliverStep DEF ReceiveInv
<1>4. CASE Nothing(q)
  BY <1>1, <1>2, <1>4, NothingStays, StayIs
<1>5. CASE Faulty(q)
  <2>1. ended' # "none" /\ delivered' = delivered
    BY <1>5 DEF Faulty, LinkEnds
  <2>2. Out' = Out /\ Received
    BY <2>1, Later DEF Out, ReceiveInv
  <2> QED BY <2>1, <2>2, EndCuts DEF Messages!Next
<1> QED BY <1>2, <1>3, <1>4, <1>5

LEMMA StreamStep ==
    ASSUME ReceiveInv, [Next]_vars
    PROVE  Messages!Next \/ UNCHANGED Messages!vars
<1> USE DEF peer, decoder, writer, loop
<1>1. CASE LogOut \/ ReadFails \/ ReadNotConnected \/ (ReadClosed /\ ended' # ended)
  <2>1. ended' # "none" /\ delivered' = delivered
    BY <1>1 DEF LogOut, ReadFails, ReadNotConnected, ReadClosed, LinkEnds, TryAgain,
           NoMessage
  <2>2. Out' = Out /\ Received
    BY <2>1, Later DEF Out, ReceiveInv
  <2> QED BY <2>1, <2>2, EndCuts DEF Messages!Next
<1>2. CASE \/ PeerCloses \/ Stop \/ Destroy \/ SendCommand \/ Quit \/ SendBytes
           \/ SendFails \/ StartReads \/ StopReads \/ ReadTimesOut
           \/ (ReadClosed /\ ended' = ended) \/ UNCHANGED vars
  <2>1. /\ UNCHANGED <<wire, buffer, frames, delivered, ended>>
        /\ fin' = fin \/ (fin = "open" /\ fin' = "closed")
    <3> USE <1>2
    <3>1. CASE PeerCloses
      BY <3>1 DEF PeerCloses
    <3>2. CASE ReadClosed /\ ended' = ended
      BY <3>2 DEF ReadClosed
    <3> QED BY <3>1, <3>2 DEF PeerCloses, Stop, Destroy, SendCommand, Quit, SendBytes, SendFails,
           StartReads, StopReads, ReadTimesOut, ReadClosed, NoMessage, vars
  <2>2. Queue' = Queue /\ Out' = Out /\ Open' = Open
    BY <2>1, Later DEF Queue, Pending, Out, Open
  <2> QED BY <2>2, StayIs
<1>3. CASE TakePending
  BY <1>3, PendingHanded, DeliverStep DEF ReceiveInv
<1> QED BY <1>1, <1>2, <1>3, PutStep, DieStep, ReadBytesStep, Zenon
        DEF Next, Worker

LEMMA StreamInitial == Init => Messages!Init
<1> SUFFICES ASSUME Init PROVE Messages!Init
  OBVIOUS
<1>1. frames = <<>> /\ buffer = <<>> /\ wire = <<>> /\ delivered = <<>>
      /\ ended = "none" /\ fin = "open"
  BY DEF Init
<1>2. <<>> \in Seq(Payload) /\ <<>> \in Seq(Byte)
  BY EmptySeq
<1>3. Framed(<<>>, Byte) = <<>> /\ Framed(<<>>, {0}) = <<>>
  BY <1>2, FramedFacts
<1>4. <<>> \o <<>> = <<>>
  BY <1>2, ConcatEmptySeq
<1>5. Framed(frames, Byte) \o buffer \o wire = <<>> /\ Framed(delivered, {0}) = <<>>
  BY <1>1, <1>3, <1>4
<1> QED BY <1>1, <1>5 DEF Messages!Init

(* However the reads cut the server's bytes, for every size of a read, of a  *)
(* byte and of a payload: while the session runs each byte is handed on      *)
(* once, in order, in the message it was sent in, or is still to come        *)
(* (FrameDecoder::Feed, FramedConnection::ReadOnce, ReadNextMessage).        *)
THEOREM MessagesStream == Spec => MessagesAreAStream
<1>1. ReceiveInv /\ [Next]_vars => [Messages!Next]_(Messages!vars)
  BY StreamStep
<1> QED BY <1>1, StreamInitial, ReceiveInitial, ReceiveStep,
        PTL DEF Spec, MessagesAreAStream, Messages!Spec

-----------------------------------------------------------------------------
(* Where the messages come from, and why the session ends.                  *)

\* Two frames that begin the same bytes are one.
LEMMA FramesDiffer ==
    ASSUME NEW p \in Message, NEW m \in Message, NEW a \in Seq(Byte), NEW b \in Seq(Byte),
           Frame(p) \o a = Frame(m) \o b
    PROVE  p = m /\ a = b
<1> DEFINE f == Frame(p)
           g == Frame(m)
           s == f \o a
<1>1. /\ p \in Seq(Byte) /\ m \in Seq(Byte) /\ Len(p) \in Nat /\ Len(m) \in Nat
      /\ f \in Seq(Byte) /\ Len(f) = 2 + Len(p) /\ f[1] + Base * f[2] = Len(p)
      /\ g \in Seq(Byte) /\ Len(g) = 2 + Len(m) /\ g[1] + Base * g[2] = Len(m)
      /\ \A i \in 1..Len(p) : f[2 + i] = p[i]
      /\ \A i \in 1..Len(m) : g[2 + i] = m[i]
  BY FrameFacts, LenProperties DEF Message
<1>2. s = g \o b
  OBVIOUS
<1> HIDE DEF f, g, s
<1>3. \A i \in 1..Len(f) : s[i] = f[i]
  BY <1>1, ConcatProperties, LenProperties DEF s
<1>4. \A i \in 1..Len(g) : s[i] = g[i]
  <2>1. \A i \in 1..Len(g) : (g \o b)[i] = g[i]
    BY <1>1, ConcatProperties, LenProperties
  <2> QED BY <1>2, <2>1
<1>5. f[1] = g[1] /\ f[2] = g[2]
  <2>1. 1 \in 1..Len(f) /\ 1 \in 1..Len(g) /\ 2 \in 1..Len(f) /\ 2 \in 1..Len(g)
    BY <1>1
  <2> QED BY <1>3, <1>4, <2>1
<1>6. Len(p) = Len(m) /\ Len(f) = Len(g)
  BY <1>1, <1>5
<1>7. p = m
  <2>1. ASSUME NEW i \in 1..Len(p) PROVE p[i] = m[i]
    <3>1. 2 + i \in 1..Len(f) /\ 2 + i \in 1..Len(g) /\ i \in 1..Len(m)
      BY <1>1, <1>6
    <3> QED BY <1>1, <1>3, <1>4, <3>1
  <2> QED BY <1>1, <1>6, <2>1, SeqEqual
<1>8. a = b
  <2>1. SubSeq(s, Len(f) + 1, Len(s)) = a
    BY <1>1, CutOff DEF s
  <2>2. SubSeq(s, Len(g) + 1, Len(s)) = b
    BY <1>1, <1>2, CutOff
  <2> QED BY <1>6, <2>1, <2>2
<1> QED BY <1>7, <1>8

\* u[i] is what is sent behind the first i payloads.
Behind(u, k, payloads) ==
    /\ k \in 0..Len(payloads)
    /\ u \in [k..Len(payloads) -> Seq(Byte)]
    /\ u[Len(payloads)] = <<>>
    /\ \A i \in (k + 1)..Len(payloads) : u[i - 1] = Frame(payloads[i]) \o u[i]

\* What is behind the payloads handed on is the stream and what was lost of
\* it, which is nothing before the link dies.
Continues(u, z, k, payloads, queue, end) ==
    /\ Behind(u, k, payloads)
    /\ z \in Seq(Byte) /\ (end = "open" => z = <<>>)
    /\ u[k] = queue \o z

Sourced ==
    ended = "none" =>
        \E u, z : Continues(u, z, Len(delivered), sent, Queue, fin)

\* The first pending frame is the next payload that the server sent.
LEMMA FirstIsNext ==
    ASSUME NEW u, NEW z, NEW k, NEW queue, NEW end, NEW ps \in Seq(Message),
           Continues(u, z, k, ps, queue, end),
           NEW p \in Payload, NEW y \in Seq(Byte), queue = Frame(p) \o y
    PROVE  /\ k + 1 \in 1..Len(ps) /\ ps[k + 1] = p
           /\ \E v : Continues(v, z, k + 1, ps, y, end)
<1>1. /\ k \in 0..Len(ps) /\ Len(ps) \in Nat /\ z \in Seq(Byte)
      /\ u \in [k..Len(ps) -> Seq(Byte)] /\ u[Len(ps)] = <<>>
      /\ \A i \in (k + 1)..Len(ps) : u[i - 1] = Frame(ps[i]) \o u[i]
      /\ u[k] = queue \o z
  BY LenProperties DEF Continues, Behind
<1>2. p \in Message /\ Frame(p) \in Seq(Byte) /\ Len(Frame(p)) = 2 + Len(p) /\ Len(p) \in Nat
  <2>1. p \in Seq(Byte) /\ Len(p) < Base * Base
    BY PayloadIsShort
  <2> QED BY <2>1, FrameFacts, LenProperties DEF Message
<1>3. u[k] = Frame(p) \o (y \o z) /\ y \o z \in Seq(Byte)
  <2> DEFINE f == Frame(p)
  <2>1. f \in Seq(Byte) /\ u[k] = (f \o y) \o z
    BY <1>1, <1>2
  <2> HIDE DEF f
  <2>2. (f \o y) \o z = f \o (y \o z)
    BY <1>1, <2>1, Regroup, Zenon
  <2>3. y \o z \in Seq(Byte)
    BY <1>1, ConcatProperties
  <2> QED BY <2>1, <2>2, <2>3 DEF f
<1>4. k < Len(ps)
  <2>1. SUFFICES ASSUME k = Len(ps) PROVE FALSE
    BY <1>1
  <2>2. Frame(p) \o (y \o z) = <<>>
    BY <1>1, <1>3, <2>1
  <2>3. Len(Frame(p) \o (y \o z)) = Len(Frame(p)) + Len(y \o z) /\ Len(y \o z) \in Nat
    BY <1>2, <1>3, ConcatProperties, LenProperties
  <2>4. Len(<<>>) = 0
    BY EmptySeq
  <2> QED BY <1>2, <2>2, <2>3, <2>4
<1>5. k + 1 \in 1..Len(ps) /\ k + 1 \in (k + 1)..Len(ps) /\ k + 1 \in k..Len(ps)
      /\ (k + 1) - 1 = k
  BY <1>1, <1>4
<1>6. ps[k + 1] \in Message /\ u[k + 1] \in Seq(Byte)
      /\ u[k] = Frame(ps[k + 1]) \o u[k + 1]
  <2>1. ps[k + 1] \in Message
    BY <1>5, ElementOfSeq
  <2>2. u[(k + 1) - 1] = Frame(ps[k + 1]) \o u[k + 1]
    BY <1>1, <1>5
  <2> QED BY <1>1, <1>5, <2>1, <2>2
<1>7. p = ps[k + 1] /\ y \o z = u[k + 1]
  <2> DEFINE a == y \o z
             b == u[k + 1]
             m == ps[k + 1]
  <2>1. /\ m \in Message /\ a \in Seq(Byte) /\ b \in Seq(Byte)
        /\ Frame(p) \o a = Frame(m) \o b
    BY <1>3, <1>6
  <2> HIDE DEF a, b, m
  <2>2. p = m /\ a = b
    BY <1>2, <2>1, FramesDiffer
  <2> QED BY <2>2 DEF a, b, m
<1> DEFINE v == [i \in (k + 1)..Len(ps) |-> u[i]]
<1>8. Behind(v, k + 1, ps)
  <2>1. k + 1 \in 0..Len(ps)
    BY <1>1, <1>5
  <2>2. v \in [(k + 1)..Len(ps) -> Seq(Byte)]
    BY <1>1
  <2>3. v[Len(ps)] = <<>>
    BY <1>1, <1>4
  <2>4. ASSUME NEW i \in ((k + 1) + 1)..Len(ps) PROVE v[i - 1] = Frame(ps[i]) \o v[i]
    <3>1. i \in (k + 1)..Len(ps) /\ i - 1 \in (k + 1)..Len(ps)
      BY <1>1
    <3> QED BY <1>1, <3>1
  <2> HIDE DEF v
  <2> QED BY <2>1, <2>2, <2>3, <2>4 DEF Behind
<1>9. v[k + 1] = y \o z
  BY <1>5, <1>7
<1>10. Continues(v, z, k + 1, ps, y, end)
  <2> HIDE DEF v
  <2> QED BY <1>8, <1>9 DEF Continues
<1> QED BY <1>5, <1>7, <1>10

\* One payload more is sent.
LEMMA SentLonger ==
    ASSUME NEW u, NEW z, NEW k, NEW queue \in Seq(Byte), NEW ps \in Seq(Message),
           Continues(u, z, k, ps, queue, "open"), NEW p \in Message
    PROVE  \E v, x : Continues(v, x, k, Append(ps, p), queue \o Frame(p), "open")
<1> DEFINE f == Frame(p)
           qs == Append(ps, p)
           n == Len(ps)
           v == [i \in k..(n + 1) |-> IF i = n + 1 THEN <<>> ELSE u[i] \o f]
<1>1. /\ k \in 0..n /\ n \in Nat /\ z = <<>>
      /\ u \in [k..n -> Seq(Byte)] /\ u[n] = <<>>
      /\ \A i \in (k + 1)..n : u[i - 1] = Frame(ps[i]) \o u[i]
      /\ u[k] = queue
  <2>1. z = <<>> /\ u[k] = queue \o z
    BY DEF Continues
  <2>2. u[k] = queue
    BY <2>1, ConcatEmptySeq
  <2> QED BY <2>1, <2>2, LenProperties DEF Continues, Behind
<1>2. /\ f \in Seq(Byte) /\ <<>> \in Seq(Byte)
      /\ \A i \in 1..n : Frame(ps[i]) \in Seq(Byte)
  <2>1. \A i \in 1..n : ps[i] \in Message
    BY ElementOfSeq
  <2> QED BY <2>1, FrameFacts, EmptySeq DEF Message
<1>3. Len(qs) = n + 1 /\ qs[n + 1] = p /\ \A i \in 1..n : qs[i] = ps[i]
  BY AppendProperties
<1> HIDE DEF f, qs, n
<1>4. v \in [k..(n + 1) -> Seq(Byte)]
  <2>1. ASSUME NEW i \in k..n PROVE u[i] \o f \in Seq(Byte)
    BY <1>1, <1>2, ConcatProperties
  <2>2. \A i \in k..(n + 1) : i # n + 1 => i \in k..n
    BY <1>1
  <2> QED BY <1>2, <2>1, <2>2
<1>5. v[n + 1] = <<>> /\ \A i \in k..n : v[i] = u[i] \o f
  <2>1. n + 1 \in k..(n + 1) /\ \A i \in k..n : i \in k..(n + 1) /\ i # n + 1
    BY <1>1
  <2> QED BY <2>1
<1> HIDE DEF v
<1>6. ASSUME NEW i \in (k + 1)..(n + 1) PROVE v[i - 1] = Frame(qs[i]) \o v[i]
  <2>1. CASE i = n + 1
    <3>1. v[i - 1] = <<>> \o f /\ v[i] = <<>> /\ Frame(qs[i]) = f
      <4>1. i - 1 = n /\ n \in k..n
        BY <1>1, <2>1
      <4>2. v[n] = u[n] \o f
        BY <1>5, <4>1
      <4> QED BY <1>1, <1>3, <1>5, <2>1, <4>1, <4>2 DEF f
    <3>2. <<>> \o f = f /\ f \o <<>> = f
      BY <1>2, ConcatEmptySeq
    <3> QED BY <3>1, <3>2
  <2>2. CASE i \in (k + 1)..n
    <3>1. i \in k..n /\ i - 1 \in k..n /\ i \in 1..n
      BY <1>1, <2>2
    <3> DEFINE a == Frame(ps[i])
               b == u[i]
    <3>2. v[i - 1] = (a \o b) \o f /\ v[i] = b \o f /\ Frame(qs[i]) = a
      BY <1>1, <1>3, <1>5, <2>2, <3>1
    <3>3. a \in Seq(Byte) /\ b \in Seq(Byte) /\ f \in Seq(Byte)
      BY <1>1, <1>2, <3>1
    <3> HIDE DEF a, b
    <3>4. (a \o b) \o f = a \o (b \o f)
      BY ONLY <3>3, Regroup, Zenon
    <3> QED BY <3>2, <3>4
  <2>3. i = n + 1 \/ i \in (k + 1)..n
    BY <1>1
  <2> QED BY <2>1, <2>2, <2>3
<1>7. Behind(v, k, qs)
  <2>1. k \in 0..(n + 1)
    BY <1>1
  <2> QED BY <1>3, <1>4, <1>5, <1>6, <2>1, Zenon DEF Behind
<1>8. queue \o f \in Seq(Byte) /\ v[k] = queue \o f
  <2>1. queue \o f \in Seq(Byte)
    BY <1>2, ConcatProperties
  <2>2. k \in k..n
    BY <1>1
  <2> QED BY <1>1, <1>5, <2>1, <2>2
<1>9. v[k] = (queue \o f) \o <<>>
  BY <1>8, ConcatEmptySeq
<1>10. Continues(v, <<>>, k, qs, queue \o f, "open")
  BY <1>2, <1>7, <1>9 DEF Continues
<1> QED BY <1>10 DEF f, qs

-----------------------------------------------------------------------------
(* The pending bytes are always the next ones of what the server sent.      *)

LEMMA SourcedLater ==
    Sourced' <=> (ended' = "none" =>
        \E u, z : Continues(u, z, Len(delivered'), sent', Queue', fin'))
<1>1. Byte' = Byte
  BY DEF Byte
<1> QED BY <1>1 DEF Sourced, Continues, Behind, Frame

\* What is pending stays, and a link that was gone stays gone.
LEMMA SourcedStays ==
    ASSUME Sourced, UNCHANGED <<sent, delivered, ended>>, Queue' = Queue,
           fin' = "open" => fin = "open"
    PROVE  Sourced'
<1>1. SUFFICES ASSUME ended' = "none"
               PROVE  \E u, z : Continues(u, z, Len(delivered'), sent', Queue', fin')
  BY SourcedLater
<1>2. PICK u, z : Continues(u, z, Len(delivered), sent, Queue, fin)
  BY <1>1 DEF Sourced
<1>3. Continues(u, z, Len(delivered'), sent', Queue', fin')
  BY <1>2 DEF Continues
<1> QED BY <1>3

LEMMA SourcedPut ==
    ASSUME ReceiveInv, Sourced, PeerSends
    PROVE  Sourced'
<1>1. UNCHANGED <<delivered, ended, fin>> /\ fin = "open"
  BY DEF PeerSends, decoder
<1>2. SUFFICES ASSUME ended = "none"
               PROVE  \E u, z : Continues(u, z, Len(delivered'), sent', Queue', fin')
  BY <1>1, SourcedLater
<1>3. PICK p \in Message : /\ sent' = Append(sent, p)
                           /\ Frame(p) \in Seq(Byte) /\ Queue \in Seq(Byte)
                           /\ Queue' = Queue \o Frame(p)
  BY <1>2, PutGrows
<1>4. PICK u, z : Continues(u, z, Len(delivered), sent, Queue, "open")
  BY <1>1, <1>2 DEF Sourced
<1>5. sent \in Seq(Message)
  BY DEF ReceiveInv, Received
<1>6. PICK v, x : Continues(v, x, Len(delivered), Append(sent, p), Queue \o Frame(p), "open")
  BY <1>3, <1>4, <1>5, SentLonger
<1>7. Continues(v, x, Len(delivered'), sent', Queue', fin')
  BY <1>1, <1>3, <1>6
<1> QED BY <1>7

LEMMA SourcedCut ==
    ASSUME ReceiveInv, Sourced, LinkDies
    PROVE  Sourced'
<1>1. UNCHANGED <<sent, delivered, ended>> /\ fin' # "open"
  BY DEF LinkDies
<1>2. SUFFICES ASSUME ended = "none"
               PROVE  \E u, z : Continues(u, z, Len(delivered'), sent', Queue', fin')
  BY <1>1, SourcedLater
<1>3. PICK t \in Seq(Byte) : Queue' \in Seq(Byte) /\ Queue = Queue' \o t
  BY <1>2, DieShortens
<1>4. PICK u, z : Continues(u, z, Len(delivered), sent, Queue, fin)
  BY <1>2 DEF Sourced
<1> DEFINE k == Len(delivered)
           r == Queue'
<1>5. Behind(u, k, sent) /\ z \in Seq(Byte) /\ u[k] = (r \o t) \o z /\ r \in Seq(Byte)
  BY <1>3, <1>4 DEF Continues
<1> HIDE DEF k, r
<1>6. (r \o t) \o z = r \o (t \o z)
  BY <1>3, <1>5, Regroup, Zenon
<1>7. t \o z \in Seq(Byte)
  BY <1>3, <1>5, ConcatProperties
<1>8. Continues(u, t \o z, k, sent, r, fin')
  BY <1>1, <1>5, <1>6, <1>7 DEF Continues
<1>9. Continues(u, t \o z, Len(delivered'), sent', Queue', fin')
  BY <1>1, <1>8 DEF k, r
<1> QED BY <1>9

\* The frame that is delivered is the next payload of the server.
LEMMA HandedIsNext ==
    ASSUME Received, Sourced, NEW fs, NEW x, Handing(fs, x)
    PROVE  /\ \E i \in 1..Len(sent) : sent[i] = Head(fs)
           /\ sent' = sent => Sourced'
<1>1. /\ Head(fs) \in Payload /\ sent \in Seq(Message)
      /\ ended = "none" /\ fin' = fin /\ delivered \in Seq(Payload)
  BY FirstLeaves DEF Handing, Received
<1>2. PICK y \in Seq(Byte) : /\ Queue = Frame(Head(fs)) \o y
                             /\ ended' = "none" => GoesOn(fs) /\ Queue' = y
  BY FirstLeaves
<1>3. PICK u, z : Continues(u, z, Len(delivered), sent, Queue, fin)
  BY <1>1 DEF Sourced
<1> DEFINE p == Head(fs)
           k == Len(delivered)
<1>4. Continues(u, z, k, sent, Queue, fin) /\ Queue = Frame(p) \o y /\ p \in Payload
  BY <1>1, <1>2, <1>3
<1>5. ended' = "none" => Len(delivered') = k + 1
  <2>1. ASSUME ended' = "none" PROVE delivered' = Append(delivered, p)
    BY <1>2, <2>1 DEF GoesOn
  <2>2. Len(Append(delivered, p)) = k + 1
    BY <1>1, AppendProperties
  <2> QED BY <2>1, <2>2
<1> HIDE DEF p, k
<1>6. /\ k + 1 \in 1..Len(sent) /\ sent[k + 1] = p
      /\ \E v : Continues(v, z, k + 1, sent, y, fin)
  BY <1>1, <1>4, FirstIsNext
<1>7. ASSUME sent' = sent, ended' = "none"
      PROVE  \E v, w : Continues(v, w, Len(delivered'), sent', Queue', fin')
  <2>1. PICK v : Continues(v, z, k + 1, sent, y, fin)
    BY <1>6
  <2>2. Continues(v, z, Len(delivered'), sent', Queue', fin')
    BY <1>1, <1>2, <1>5, <1>7, <2>1
  <2> QED BY <2>2
<1>8. sent' = sent => Sourced'
  BY <1>7, SourcedLater
<1>9. \E i \in 1..Len(sent) : sent[i] = Head(fs)
  BY <1>6 DEF p
<1> QED BY <1>8, <1>9

LEMMA SourcedEnded == ASSUME ended' # "none" PROVE Sourced'
  BY SourcedLater

LEMMA SourcedStep ==
    ASSUME ReceiveInv, Sourced, [Next]_vars
    PROVE  Sourced'
<1> USE DEF peer, decoder, writer, loop
<1>1. CASE LogOut \/ ReadFails \/ ReadNotConnected \/ (ReadClosed /\ ended' # ended)
  <2>1. ended' # "none"
    BY <1>1 DEF LogOut, ReadFails, ReadNotConnected, ReadClosed, LinkEnds, TryAgain,
           NoMessage
  <2> QED BY <2>1, SourcedEnded
<1>2. CASE \/ PeerCloses \/ Stop \/ Destroy \/ SendCommand \/ Quit \/ SendBytes
           \/ SendFails \/ StartReads \/ StopReads \/ ReadTimesOut
           \/ (ReadClosed /\ ended' = ended) \/ UNCHANGED vars
  <2>1. /\ UNCHANGED <<sent, wire, buffer, frames, delivered, ended>>
        /\ fin' = "open" => fin = "open"
    <3> USE <1>2
    <3>1. CASE PeerCloses
      BY <3>1 DEF PeerCloses
    <3>2. CASE ReadClosed /\ ended' = ended
      BY <3>2 DEF ReadClosed
    <3> QED BY <3>1, <3>2 DEF PeerCloses, Stop, Destroy, SendCommand, Quit, SendBytes, SendFails,
           StartReads, StopReads, ReadTimesOut, ReadClosed, NoMessage, vars
  <2>2. Queue' = Queue
    BY <2>1, Later DEF Queue, Pending
  <2> QED BY <2>1, <2>2, SourcedStays
<1>3. CASE TakePending
  <2>1. sent' = sent
    BY <1>3 DEF TakePending
  <2>2. PICK x : Handing(frames, x)
    BY <1>3, PendingHanded
  <2> QED BY <2>1, <2>2, HandedIsNext DEF ReceiveInv
<1>4. CASE ReadBytes
  <2>1. ended = "none" /\ frames = <<>> /\ fin' = fin /\ sent' = sent
    BY <1>4, ReadFacts DEF ReceiveInv
  <2>2. PICK q : Taken(q) /\ (Handed(q) \/ Nothing(q) \/ Faulty(q))
    BY <1>4, ReadFacts DEF ReceiveInv
  <2>3. CASE Handed(q)
    <3>1. PICK x : Handing(q.frames, x)
      BY <2>1, <2>2, <2>3, ReadHanded
    <3> QED BY <2>1, <3>1, HandedIsNext DEF ReceiveInv
  <2>4. CASE Nothing(q)
    <3>1. Queue' = Queue
      BY <2>1, <2>2, <2>4, NothingStays
    <3>2. ended' = ended /\ delivered' = delivered
      BY <2>4 DEF Nothing, TryAgain, NoMessage
    <3> QED BY <2>1, <3>1, <3>2, SourcedStays
  <2>5. CASE Faulty(q)
    <3>1. ended' # "none"
      BY <2>5 DEF Faulty, LinkEnds
    <3> QED BY <3>1, SourcedEnded
  <2> QED BY <2>2, <2>3, <2>4, <2>5
<1> QED BY <1>1, <1>2, <1>3, <1>4, SourcedPut, SourcedCut, Zenon DEF Next, Worker

LEMMA SourcedInitial == Init => Sourced
<1> SUFFICES ASSUME Init PROVE Sourced
  OBVIOUS
<1>1. /\ sent = <<>> /\ delivered = <<>> /\ fin = "open"
      /\ frames = <<>> /\ buffer = <<>> /\ wire = <<>>
  BY DEF Init
<1>2. <<>> \in Seq(Byte) /\ <<>> \in Seq(Payload) /\ Len(<<>>) = 0
  BY EmptySeq
<1>3. <<>> \o <<>> = <<>>
  BY <1>2, ConcatEmptySeq
<1>4. Queue = <<>>
  <2>1. Framed(<<>>, Byte) = <<>>
    BY <1>2, FramedFacts
  <2>2. Pending = <<>>
    BY <1>1, <1>3, <2>1 DEF Pending
  <2> QED BY <2>2 DEF Queue
<1> DEFINE u == [i \in 0..0 |-> <<>>]
<1>5. u \in [0..0 -> Seq(Byte)] /\ u[0] = <<>>
  BY <1>2
<1> HIDE DEF u
<1>6. Behind(u, 0, <<>>)
  BY <1>2, <1>5 DEF Behind
<1>7. Continues(u, <<>>, 0, <<>>, <<>>, "open")
  BY <1>2, <1>3, <1>5, <1>6 DEF Continues
<1>8. Continues(u, <<>>, Len(delivered), sent, Queue, fin)
  BY <1>1, <1>2, <1>4, <1>7
<1> QED BY <1>8 DEF Sourced

\* The server sent something that ends the session.
Unwelcome == \E i \in 1..Len(sent) : sent[i] # <<>> /\ sent[i][1] # 0

LEMMA BreaksOnWhatWasSent ==
    ASSUME Received, Sourced, NEW fs, NEW x, Handing(fs, x),
           ended' = "lost"
    PROVE  Unwelcome
<1>1. Head(fs) \in Payload /\ (GoesOn(fs) \/ Refuses(fs) \/ Breaks(fs)) /\ ended = "none"
  BY FirstLeaves DEF Handing
<1>2. Head(fs)[1] # 0
  BY <1>1 DEF GoesOn, Refuses, Breaks
<1>3. Head(fs) # <<>>
  BY <1>1, EmptySeq DEF Payload
<1>4. PICK i \in 1..Len(sent) : sent[i] = Head(fs)
  BY HandedIsNext
<1> QED BY <1>2, <1>3, <1>4 DEF Unwelcome

LEMMA LostStep ==
    ASSUME ReceiveInv, Sourced, [Next]_vars, ended = "none", ended' = "lost"
    PROVE  \/ conn' = "Failed"
           \/ error' \in {"ZeroLength", "ExceedsConfiguredMaximum"}
           \/ Unwelcome
<1> USE DEF peer, decoder, writer, loop
<1>1. CASE TakePending
  <2>1. PICK x : Handing(frames, x)
    BY <1>1, PendingHanded
  <2> QED BY <2>1, BreaksOnWhatWasSent DEF ReceiveInv
<1>2. CASE ReadBytes
  <2>1. frames = <<>> /\ fin' = fin
    BY <1>2, ReadFacts DEF ReceiveInv
  <2>2. PICK q : Taken(q) /\ (Handed(q) \/ Nothing(q) \/ Faulty(q))
    BY <1>2, ReadFacts DEF ReceiveInv
  <2>3. CASE Handed(q)
    <3>1. PICK x : Handing(q.frames, x)
      BY <2>1, <2>2, <2>3, ReadHanded
    <3> QED BY <3>1, BreaksOnWhatWasSent DEF ReceiveInv
  <2>4. CASE Nothing(q)
    BY <2>4 DEF Nothing, TryAgain, NoMessage
  <2>5. CASE Faulty(q)
    <3>1. q.error \in Faults
      BY <2>2 DEF Taken, Fits, Decoder
    <3> QED BY <2>5, <3>1 DEF Faulty, Faults
  <2> QED BY <2>2, <2>3, <2>4, <2>5
<1>3. CASE ReadFails
  BY <1>3 DEF ReadFails
<1>4. CASE ReadNotConnected
  <2>1. conn' = conn /\ conn # "Connected" /\ conn # "RemoteClosed"
    BY <1>4 DEF ReadNotConnected, LinkEnds
  <2>2. conn # "Disconnected" /\ conn \in {"Connected", "RemoteClosed", "Failed", "Disconnected"}
    BY <1>4 DEF ReadNotConnected, Reading, ReceiveInv, Flags
  <2> QED BY <2>1, <2>2
<1>5. CASE ReadClosed
  BY <1>5 DEF ReadClosed, LinkEnds, TryAgain, NoMessage
<1>6. CASE LogOut
  BY <1>6 DEF LogOut
<1>7. CASE \/ PeerSends \/ PeerCloses \/ LinkDies \/ Stop \/ Destroy
           \/ SendCommand \/ Quit \/ SendBytes \/ SendFails
           \/ StartReads \/ StopReads \/ ReadTimesOut \/ UNCHANGED vars
  BY <1>7 DEF PeerSends, PeerCloses, LinkDies, Stop, Destroy, SendCommand, Quit,
         SendBytes, SendFails, StartReads, StopReads, ReadTimesOut, NoMessage, vars
<1> QED BY <1>1, <1>2, <1>3, <1>4, <1>5, <1>6, <1>7, Zenon DEF Next, Worker

(* The end a session is said to have had is the one it had: an orderly one   *)
(* when the server's end is gone, a lost link when the socket failed, when   *)
(* the decoder met a length it does not accept, or when the server sent a    *)
(* message that ends the session; never because it closed between two frames *)
(* (FRealBridgeWorker::Run, TcpTransport's latched state).                   *)
THEOREM EndIsTold == Spec => EndSaysWhy
<1>1. ASSUME ReceiveInv, Sourced, LatchInv, [Next]_vars
      PROVE  [ended = "none" =>
                /\ ended' = "orderly" => fin \in {"closed", "reset"}
                /\ ended' = "lost" =>
                    \/ conn' = "Failed"
                    \/ error' \in {"ZeroLength", "ExceedsConfiguredMaximum"}
                    \/ \E i \in 1..Len(sent) : sent[i] # <<>> /\ sent[i][1] # 0]_vars
  BY <1>1, OrderlyStep, LostStep DEF Unwelcome
<1>2. ReceiveInv /\ Sourced /\ [Next]_vars => Sourced'
  BY SourcedStep
<1> QED BY <1>1, <1>2, ReceiveInitial, ReceiveStep, SourcedInitial, LatchInitial, LatchStep,
        PTL DEF Spec, EndSaysWhy
=============================================================================
