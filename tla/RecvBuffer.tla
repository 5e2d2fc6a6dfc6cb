----------------------------- MODULE RecvBuffer -----------------------------
(***************************************************************************)
(* RecvSocket and RecvBufferProcess of TCPNetWork: how the byte stream of  *)
(* one session is cut into packets.  recv returns any part of what has     *)
(* arrived; what is left of an incomplete packet is moved to the front of  *)
(* the receive buffer before the next recv.                                *)
(*                                                                         *)
(* A byte is a record: the packet it belongs to, its place in the packet   *)
(* and the BodySize that the header of the packet holds.  pRecvBuffer is   *)
(* the sequence of the bytes written since the last move.  The memcpy that *)
(* moves the rest may overlap; it is taken to copy as memmove does.        *)
(*                                                                         *)
(* BodySize is compared with MAX_PACKET_BODY_SIZE when all of the packet   *)
(* has arrived.  Until then a client that announces more than the buffer   *)
(* can hold makes recv write behind its end; what the server does from     *)
(* there on is undefined, and the model stops.                             *)
(*                                                                         *)
(* The session can be closed at any time, and its buffer goes to the next  *)
(* connection of the index.  Histories begin anew with a connection.       *)
(***************************************************************************)
EXTENDS Naturals, Sequences, SequencesExt

CONSTANTS
    HeaderSize,     \* PACKET_HEADER_SIZE
    MaxBodySize,    \* MAX_PACKET_BODY_SIZE
    BufferSize,     \* config.MaxClientRecvBufferSize
    BodySizes,      \* the values of BodySize that clients send
    MaxPackets      \* bound: packets sent in one behaviour

ASSUME BufferAssumption ==
    /\ {HeaderSize, MaxBodySize} \subseteq Nat \ {0}
    /\ {BufferSize, MaxPackets} \subseteq Nat
    /\ BodySizes \subseteq Nat

\* What is left of the largest packet that is allowed and the largest recv fit
\* in the buffer (8192 bytes for 4 + 1024 - 1 + 2 * 1024).
ASSUME FitsAssumption == HeaderSize + MaxBodySize - 1 + 2 * MaxBodySize <= BufferSize

VARIABLES
    sizes,                      \* history: BodySize of every packet sent on the connection
    wire,                       \* bytes sent and not received
    pRecvBuffer,
    RemainingDataSize, PrevReadPosInRecvBuffer,
    readPos,                    \* of the loop of RecvBufferProcess
    packetQue,                  \* history: the bytes of every packet queued
    pc

vars == <<sizes, wire, pRecvBuffer, RemainingDataSize, PrevReadPosInRecvBuffer,
          readPos, packetQue, pc>>

Byte == [packet : Nat, place : Nat, size : BodySizes]
Bytes(k, b) == [p \in 1 .. HeaderSize + b |-> [packet |-> k, place |-> p, size |-> b]]

Init ==
    /\ sizes = << >> /\ wire = << >> /\ packetQue = << >>
    /\ pRecvBuffer = << >> /\ RemainingDataSize = 0 /\ PrevReadPosInRecvBuffer = 0
    /\ readPos = 0 /\ pc = "recv"

\* The client sends a packet.
Send(b) ==
    /\ pc \in {"recv", "frame"} /\ Len(sizes) < MaxPackets
    /\ sizes' = Append(sizes, b)
    /\ wire' = wire \o Bytes(Len(sizes) + 1, b)
    /\ UNCHANGED <<pRecvBuffer, RemainingDataSize, PrevReadPosInRecvBuffer, readPos,
                   packetQue, pc>>

\* The bytes that the memcpy moves to the front.
Moved == SubSeq(pRecvBuffer, PrevReadPosInRecvBuffer + 1,
                PrevReadPosInRecvBuffer + RemainingDataSize)

\* recv is asked for twice the largest body, whatever the buffer already holds.
\* It may return fewer bytes, or none when it would block.
Recv(n) == pc = "recv" /\ n <= Len(wire) /\ n <= 2 * MaxBodySize

RecvSocket(n) ==
    /\ Recv(n) /\ RemainingDataSize + n <= BufferSize
    /\ pRecvBuffer' = Moved \o SubSeq(wire, 1, n)
    /\ wire' = SubSeq(wire, n + 1, Len(wire))
    /\ RemainingDataSize' = RemainingDataSize + n
    /\ readPos' = 0
    /\ pc' = "frame"
    /\ UNCHANGED <<sizes, PrevReadPosInRecvBuffer, packetQue>>

\* The bytes do not fit behind what is left: memory that belongs to something
\* else is overwritten, and nothing is known of what follows.
RecvOverrun(n) ==
    /\ Recv(n) /\ RemainingDataSize + n > BufferSize
    /\ pc' = "overrun"
    /\ UNCHANGED <<sizes, wire, pRecvBuffer, RemainingDataSize, PrevReadPosInRecvBuffer,
                   readPos, packetQue>>

Overrun == pc = "overrun" /\ UNCHANGED vars

\* The body size in the header at readPos, and whether all of the packet at
\* readPos has arrived; the fault waits for the header of the next one too.
Rest == RemainingDataSize - readPos
BodySize == pRecvBuffer[readPos + 1].size
HeaderArrived == Rest >= HeaderSize
NextArrivedToo == HeaderArrived /\ HeaderSize + BodySize + HeaderSize <= Rest
Arrived == HeaderArrived /\ HeaderSize + BodySize <= Rest

\* readPos behind the packet; the fault counts the header twice.
HeaderTwice == readPos + HeaderSize + HeaderSize + BodySize
NextPos == readPos + HeaderSize + BodySize

\* AddPacketQue of a complete packet: one iteration of the loop.
FramePacket ==
    /\ pc = "frame" /\ Arrived /\ BodySize <= MaxBodySize
    /\ packetQue' = Append(packetQue,
           SubSeq(pRecvBuffer, readPos + 1, readPos + HeaderSize + BodySize))
    /\ readPos' = NextPos
    /\ UNCHANGED <<sizes, wire, pRecvBuffer, RemainingDataSize, PrevReadPosInRecvBuffer, pc>>

\* ClientSession::Clear, which leaves the buffer as it is; the fault leaves
\* RemainingDataSize too.
RemainingKept == RemainingDataSize
RemainingCleared == 0
Clear ==
    /\ RemainingDataSize' = RemainingCleared
    /\ PrevReadPosInRecvBuffer' = 0
    /\ UNCHANGED pRecvBuffer

\* CloseSession: what is still on the wire goes with the socket, what has
\* been queued stays.
CloseSession ==
    /\ pc' = "closed"
    /\ Clear
    /\ wire' = << >> /\ readPos' = 0
    /\ UNCHANGED <<sizes, packetQue>>

\* RECV_CLIENT_MAX_PACKET, found when all of the packet has arrived.
FrameTooLarge ==
    /\ pc = "frame" /\ Arrived /\ BodySize > MaxBodySize
    /\ CloseSession

\* recv reports the end of the connection or an error, a send fails, or
\* StateCheck closes the session.
SessionLost ==
    /\ pc = "recv"
    /\ CloseSession

\* The index is given to a new connection, with its buffer.
ConnectedSession ==
    /\ pc = "closed"
    /\ pc' = "recv"
    /\ sizes' = << >> /\ packetQue' = << >>
    /\ UNCHANGED <<wire, pRecvBuffer, RemainingDataSize, PrevReadPosInRecvBuffer, readPos>>

\* What RecvBufferProcess leaves in RemainingDataSize; the fault forgets to
\* take readPos back behind a header whose body is incomplete.
HeaderLost == IF HeaderArrived THEN Rest - HeaderSize ELSE Rest
Left == Rest

FrameRest ==
    /\ pc = "frame" /\ ~Arrived
    /\ RemainingDataSize' = Left
    /\ PrevReadPosInRecvBuffer' = RemainingDataSize - Left
    /\ pc' = "recv"
    /\ UNCHANGED <<sizes, wire, pRecvBuffer, readPos, packetQue>>

Next ==
    \/ \E b \in BodySizes : Send(b)
    \/ \E n \in 0 .. 2 * MaxBodySize : RecvSocket(n) \/ RecvOverrun(n)
    \/ Overrun
    \/ FramePacket \/ FrameTooLarge \/ FrameRest
    \/ SessionLost \/ ConnectedSession

Spec == Init /\ [][Next]_vars

-----------------------------------------------------------------------------
(* Properties.                                                             *)

TypeOK ==
    /\ sizes \in Seq(BodySizes)
    /\ wire \in Seq(Byte) /\ pRecvBuffer \in Seq(Byte) /\ packetQue \in Seq(Seq(Byte))
    /\ RemainingDataSize \in Nat /\ PrevReadPosInRecvBuffer \in Nat /\ readPos \in Nat
    /\ pc \in {"recv", "frame", "closed", "overrun"}

\* recv writes behind the end of the receive buffer only while it waits for a
\* packet that announces a body of 6142 bytes or more (8192 - 2 * 1024 - 4 + 2):
\* no cut of the stream, no rest of an earlier packet and no earlier
\* connection of the session makes a smaller body overrun it.
BufferFits ==
    pc = "overrun" =>
        HeaderSize + sizes[Len(packetQue) + 1] - 1 + 2 * MaxBodySize > BufferSize

\* However the stream is cut up by recv, the packets queued are the packets
\* sent on this connection, whole and in order, and none of them is larger
\* than allowed: nothing an earlier connection left in the buffer is read.
FramesExact ==
    \A k \in 1 .. Len(packetQue) :
        sizes[k] <= MaxBodySize /\ packetQue[k] = Bytes(k, sizes[k])

\* No byte is lost or doubled between two recvs: queue, rest and wire are
\* the stream.
StreamKept ==
    pc = "recv" =>
        FlattenSeq(packetQue)
            \o SubSeq(pRecvBuffer, PrevReadPosInRecvBuffer + 1,
                      PrevReadPosInRecvBuffer + RemainingDataSize)
            \o wire
        = FlattenSeq([k \in 1 .. Len(sizes) |-> Bytes(k, sizes[k])])

\* A packet is queued by the recv that completes it: it does not wait for
\* bytes of the next one, which may never come.
NothingHeldBack ==
    pc = "recv" /\ RemainingDataSize > 0 =>
        RemainingDataSize < HeaderSize + pRecvBuffer[PrevReadPosInRecvBuffer + 1].size
=============================================================================
