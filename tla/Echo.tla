-------------------------------- MODULE Echo --------------------------------
(***************************************************************************)
(* One session of the server from the bytes it receives to the bytes it    *)
(* sends: RecvBuffer and SendBuffer joined by LogicMain::Run and by the    *)
(* one handler that answers a request of any size, DevEcho.                *)
(*                                                                         *)
(* AddPacketQue copies nothing: a queued packet is a pointer into          *)
(* pRecvBuffer, and DevEcho reads the body there when the queue is         *)
(* drained.  A queued packet outlives the connection it came from, and so  *)
(* does its answer.                                                        *)
(*                                                                         *)
(* Clients send echo requests, and packets with the ID 0.  One of these at *)
(* the front ends the drain, and what is queued behind it is handled after *)
(* the next recv, when its bytes are gone from under it.                   *)
(***************************************************************************)
EXTENDS RecvBuffer, SendBuffer

CONSTANTS
    BaseSize,       \* sizeof(PktBase), the error code of an answer
    MaxQueue        \* bound: packets sent and not handled

ASSUME BaseAssumption == {BaseSize, MaxQueue} \subseteq Nat

\* The answers to all the packets that one recv can complete, together with
\* the rest of a packet before it, fit in the send buffer.
ASSUME AnswersFit ==
    LET most == HeaderSize + MaxBodySize - 1 + 2 * MaxBodySize IN
    \A c \in 0 .. most, b \in BodySizes :
        c * (HeaderSize + b) <= most => most + c * BaseSize <= MaxClientSendBufferSize

VARIABLES
    queue,      \* the packets in TCPNetWork::packetQue
    turn,       \* what LogicMain::Run and TCPNetWork::Run are at
    unsent,     \* history: SendSize when the drain of the queue began
    cutShort    \* history: whether the last drain left packets in the queue

echoVars == <<vars, sendVars, queue, turn, unsent, cutShort>>

EchoInit ==
    /\ Init /\ SendInit
    /\ queue = << >> /\ turn = "read" /\ unsent = 0 /\ cutShort = FALSE

Drain == turn' = "drain" /\ unsent' = SendSize'

\* The client sends a packet.
Request(b) ==
    /\ Len(queue) + Len(sizes) - Len(packetQue) < MaxQueue
    /\ Send(b)
    /\ UNCHANGED <<sendVars, queue, turn, unsent, cutShort>>

\* RunProcessReceive, when select reports something to read.
Receive(n) ==
    /\ turn = "read"
    /\ RecvSocket(n) \/ RecvOverrun(n)
    /\ UNCHANGED <<sendVars, queue, turn, unsent, cutShort>>

\* Nothing up to here depends on the ID in the header, so it is chosen here.
AddPacketQue ==
    /\ FramePacket
    /\ \E id \in {"DEV_ECHO_REQ", "ZERO"} :
         queue' = Append(queue, [PacketId |-> id, pData |-> readPos + HeaderSize,
                                 PacketBodySize |-> BodySize])
    /\ UNCHANGED <<sendVars, turn, unsent, cutShort>>

Received ==
    /\ FrameRest
    /\ turn' = "write"
    /\ UNCHANGED <<sendVars, queue, unsent, cutShort>>

NothingToRead ==
    /\ turn = "read" /\ pc = "recv"
    /\ turn' = "write"
    /\ UNCHANGED <<vars, sendVars, queue, unsent, cutShort>>

\* RunProcessWrite: send takes n bytes, or none when there are none or the
\* socket is not ready.
Write(n) ==
    /\ turn = "write" /\ FlushSendBuff(n)
    /\ UNCHANGED <<vars, queue, cutShort>>
    /\ Drain

NothingWritten ==
    /\ turn = "write"
    /\ UNCHANGED <<vars, sendVars, queue, cutShort>>
    /\ Drain

\* The answer of DevEcho: a header, the error code, and the body of the
\* request as pRecvBuffer holds it now.  Its length is the DataSize that the
\* request gives, which nobody compares with the body's; clients give that of
\* the body.
Answer(q, p) == [packet |-> 0, place |-> p, size |-> q.PacketBodySize]
Header(q) == [p \in 1 .. HeaderSize |-> Answer(q, p)]
Res(q, data) == [p \in 1 .. BaseSize |-> Answer(q, HeaderSize + p)] \o data
Data(q) == SubSeq(pRecvBuffer, q.pData + 1, q.pData + q.PacketBodySize)

\* When a recv has come in between, the place of DataSize may hold anything.
Found(q) ==
    IF cutShort THEN {[p \in 1 .. b |-> Answer(q, p)] : b \in BodySizes} ELSE {Data(q)}

DevEcho ==
    /\ turn = "drain" /\ queue # << >> /\ Head(queue).PacketId # "ZERO"
    /\ \E data \in Found(Head(queue)) : SendData(Header(Head(queue)), Res(Head(queue), data))
    /\ queue' = Tail(queue)
    /\ UNCHANGED <<vars, turn, unsent, cutShort>>

\* GetPacketInfo finds the queue empty; the fault takes one packet a turn.
OneTaken == Len(queue) <= 1
Empty == queue = << >>

\* It returns a PacketId of 0: there is no packet, or the client's is 0.
NoPacketId ==
    \/ Empty /\ cutShort' = FALSE /\ UNCHANGED queue
    \/ /\ queue # << >> /\ Head(queue).PacketId = "ZERO"
       /\ queue' = Tail(queue)
       /\ cutShort' = (queue' # << >>)

EndDrain ==
    /\ turn = "drain" /\ NoPacketId
    /\ turn' = "read" /\ unsent' = 0
    /\ UNCHANGED <<vars, sendVars>>

\* CloseSession, because of a body that is too large or a recv that fails,
\* because of a send that fails, or out of StateCheck.
Closed ==
    /\ ClearSend
    /\ UNCHANGED <<queue, cutShort>>

CloseOnRecv == turn = "read" /\ (FrameTooLarge \/ SessionLost) /\ Closed /\ Drain
CloseOnSend == turn = "write" /\ SendSize > 0 /\ SessionLost /\ Closed /\ Drain
CloseOnCheck ==
    /\ turn = "drain" /\ NoPacketId
    /\ SessionLost /\ ClearSend
    /\ turn' = "read" /\ unsent' = 0

\* NewSession gives the index to another connection.
NewSession ==
    /\ turn = "read"
    /\ ConnectedSession
    /\ UNCHANGED <<sendVars, queue, turn, unsent, cutShort>>

\* Nothing is said of a server that has written behind the receive buffer.
Undefined == Overrun /\ UNCHANGED <<sendVars, queue, turn, unsent, cutShort>>

EchoNext ==
    \/ \E b \in BodySizes : Request(b)
    \/ \E n \in 0 .. 2 * MaxBodySize : Receive(n)
    \/ AddPacketQue \/ Received \/ NothingToRead
    \/ \E n \in 1 .. SendSize : Write(n)
    \/ NothingWritten
    \/ DevEcho \/ EndDrain
    \/ CloseOnRecv \/ CloseOnSend \/ CloseOnCheck \/ NewSession
    \/ Undefined

EchoSpec == EchoInit /\ [][EchoNext]_echoVars

\* The bytes of the answers, for TLC.
EchoBytes ==
    [packet : 0 .. MaxPackets, place : 1 .. HeaderSize + BaseSize + MaxBodySize, size : BodySizes]
EchoHeaders == {[p \in 1 .. HeaderSize |-> [packet |-> 0, place |-> p, size |-> b]] : b \in BodySizes}
EchoBodies == {<< >>}

\* For TLC: leaves out the bytes of both buffers that nothing reads any more
\* (a packet left behind by a cut drain may hold anything) and, because the
\* properties compare every byte when it moves, the histories of bytes.
Readable == IF pc = "frame" \/ (queue # << >> /\ ~cutShort)
            THEN <<pRecvBuffer, PrevReadPosInRecvBuffer>> ELSE <<Moved, 0>>
EchoView == <<sizes, wire, Readable, RemainingDataSize, readPos, Len(packetQue), pc,
              SubSeq(pSendBuffer, 1, SendSize), queue, turn, unsent, cutShort>>

-----------------------------------------------------------------------------
(* Properties.                                                             *)

\* Until its handler has run, what pData of a queued packet points at is
\* the body the client sent: neither another recv into the same buffer nor
\* the close of the session comes in between, unless a client's packet with
\* the ID 0 has ended a drain and nothing has emptied the queue since.
DataHeld ==
    ~cutShort =>
        \A i \in 1 .. Len(queue) :
            LET sent == packetQue[Len(packetQue) - Len(queue) + i] IN
            /\ queue[i].pData + queue[i].PacketBodySize <= Len(pRecvBuffer)
            /\ Data(queue[i]) = SubSeq(sent, HeaderSize + 1, Len(sent))

\* An answer is dropped only if the client left bytes of earlier answers
\* unread when the queue began to be drained, or if its packets with the ID 0
\* had the packets of two recvs drained together: the answers to all that one
\* recv may complete fit in the send buffer.
LostOnlyBehind ==
    [][DevEcho => SendSize' > SendSize \/ unsent > 0 \/ cutShort]_echoVars
=============================================================================
