----------------------------- MODULE SendBuffer -----------------------------
(***************************************************************************)
(* SendData and FlushSendBuff of TCPNetWork: the send buffer of one        *)
(* session, byte by byte.  SendData puts a header and a body behind the    *)
(* SendSize bytes that wait, or drops the message; send takes any part of  *)
(* them, and the rest is moved to the front.  Clear leaves the buffer as   *)
(* it is: what the index sends to its next connection is written over it.  *)
(*                                                                         *)
(* pSendBuffer is the bytes written so far; those behind SendSize that are *)
(* written again before they are read are left out when SendData writes.   *)
(* The histories begin anew when the session is cleared.                   *)
(***************************************************************************)
EXTENDS Naturals, Sequences

CONSTANTS
    MaxClientSendBufferSize,
    OutBytes,           \* what messages are made of
    Headers, Bodies     \* the messages: sequences of bytes

ASSUME SendAssumption ==
    /\ MaxClientSendBufferSize \in Nat
    /\ Headers \subseteq Seq(OutBytes) /\ Bodies \subseteq Seq(OutBytes)

VARIABLES
    pSendBuffer, SendSize,
    accepted,       \* history: the bytes that SendData took since Clear
    received        \* history: the bytes that send took since Clear

sendVars == <<pSendBuffer, SendSize, accepted, received>>

SendInit ==
    /\ pSendBuffer = << >> /\ SendSize = 0
    /\ accepted = << >> /\ received = << >>

\* Whether the message fits; the faults count the body only, and the header
\* twice.
BodyFits(header, body) == SendSize + Len(body) <= MaxClientSendBufferSize
HeaderTwiceFits(header, body) ==
    SendSize + Len(body) + 2 * Len(header) <= MaxClientSendBufferSize
Fits(header, body) == SendSize + Len(body) + Len(header) <= MaxClientSendBufferSize

\* No caller looks at CLIENT_SEND_BUFFER_FULL.
SendData(header, body) ==
    \/ /\ Fits(header, body)
       /\ pSendBuffer' = SubSeq(pSendBuffer, 1, SendSize) \o (header \o body)
       /\ SendSize' = SendSize + Len(header \o body)
       /\ accepted' = accepted \o (header \o body)
       /\ UNCHANGED received
    \/ ~Fits(header, body) /\ UNCHANGED sendVars

\* What the buffer holds when send took n of the SendSize bytes; the fault
\* leaves the rest where it is.
NotMovedUp(n) == pSendBuffer
MovedUp(n) == SubSeq(pSendBuffer, n + 1, SendSize)

\* FlushSendBuff, when send takes n bytes.
FlushSendBuff(n) ==
    /\ n \in 1 .. SendSize
    /\ received' = received \o SubSeq(pSendBuffer, 1, n)
    /\ pSendBuffer' = IF n < SendSize THEN MovedUp(n) ELSE pSendBuffer
    /\ SendSize' = SendSize - n
    /\ UNCHANGED accepted

\* ClientSession::Clear; the fault leaves SendSize as it is.
SizeKept == SendSize
SizeCleared == 0
ClearSend ==
    /\ SendSize' = SizeCleared
    /\ accepted' = << >> /\ received' = << >>
    /\ UNCHANGED pSendBuffer

SendNext ==
    \/ \E header \in Headers, body \in Bodies : SendData(header, body)
    \/ \E n \in 1 .. SendSize : FlushSendBuff(n)
    \/ ClearSend

SendSpec == SendInit /\ [][SendNext]_sendVars

-----------------------------------------------------------------------------
(* Properties.                                                             *)

\* However little of the buffer send takes at a time, the client gets the
\* bytes of the messages that SendData took since the session was cleared,
\* every message whole, in order and none of an earlier connection's, and
\* nothing is written behind the end of the buffer.
StreamWhole ==
    /\ SendSize <= MaxClientSendBufferSize
    /\ received \o SubSeq(pSendBuffer, 1, SendSize) = accepted
=============================================================================
