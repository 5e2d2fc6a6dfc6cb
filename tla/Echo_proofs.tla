----------------------------- MODULE Echo_proofs -----------------------------
(***************************************************************************)
(* Theorems about SendBuffer, for every size of the buffer, every set of   *)
(* messages and every way in which send may take the bytes, and about      *)
(* Echo, from those about RecvBuffer.                                      *)
(*                                                                         *)
(*   SendTypeOK   the send buffer and its histories hold bytes, and        *)
(*                SendSize never leaves what has been written to it        *)
(*   Phases       where the turns of LogicMain::Run are, and what the      *)
(*                queue and the counters hold                              *)
(*   Fresh        while no drain has been cut short by a packet with the   *)
(*                ID 0:                                                    *)
(*     Stored     the queued packets lie in the receive buffer one behind  *)
(*                the other, as they were sent                             *)
(*     Turns      recv comes to a buffer of which nothing is queued        *)
(*     Space      the answers given since the drain began are not larger   *)
(*                than the packets handled allow                           *)
(***************************************************************************)
EXTENDS Echo, RecvBuffer_proofs

-----------------------------------------------------------------------------
(* The send buffer.                                                        *)

HoldsBytes(S) ==
    /\ pSendBuffer \in Seq(S)
    /\ accepted \in Seq(S) /\ received \in Seq(S)
    /\ SendSize \in 0 .. Len(pSendBuffer)

SendTypeOK == HoldsBytes(OutBytes)

Waiting == SubSeq(pSendBuffer, 1, SendSize)

SendBufferInv(S) == HoldsBytes(S) /\ StreamWhole

-----------------------------------------------------------------------------
(* Lemmas about sequences of bytes.                                        *)

\* The first c bytes, and those behind the first c.
LEMMA Split ==
    ASSUME NEW S, NEW s \in Seq(S), NEW n \in 0 .. Len(s), NEW c \in 0 .. n
    PROVE  /\ SubSeq(s, 1, c) \in Seq(S) /\ Len(SubSeq(s, 1, c)) = c
           /\ SubSeq(s, c + 1, n) \in Seq(S) /\ Len(SubSeq(s, c + 1, n)) = n - c
           /\ SubSeq(s, 1, c) \o SubSeq(s, c + 1, n) = SubSeq(s, 1, n)
<1>1. Len(s) \in Nat /\ n \in Int /\ c \in Int /\ c + 1 \in Int /\ 1 \in Int
  BY LenProperties
<1>2. \A i \in 1 .. Len(s) : s[i] \in S
  BY ElementOfSeq
<1>3. \A i \in 1 .. c : s[i] \in S
  BY <1>1, <1>2
<1>4. \A i \in c + 1 .. n : s[i] \in S
  BY <1>1, <1>2
<1>5. /\ SubSeq(s, 1, c) \in Seq(S)
      /\ Len(SubSeq(s, 1, c)) = IF 1 <= c THEN c - 1 + 1 ELSE 0
  BY <1>1, <1>3, SubSeqProperties
<1>6. /\ SubSeq(s, c + 1, n) \in Seq(S)
      /\ Len(SubSeq(s, c + 1, n)) = IF c + 1 <= n THEN n - (c + 1) + 1 ELSE 0
  BY <1>1, <1>4, SubSeqProperties
<1>7. SubSeq(s, 1, c) \o SubSeq(s, c + 1, n) = SubSeq(s, 1, n)
  <2>1. 1 \in 1 .. Len(s) + 1 /\ c \in 1 - 1 .. Len(s) /\ n \in c .. Len(s)
    BY <1>1
  <2> QED BY <2>1, ConcatAdjacentSubSeq
<1> QED BY <1>1, <1>5, <1>6, <1>7

\* The first bytes of a concatenation are its first part.
LEMMA FirstPart ==
    ASSUME NEW S, NEW s \in Seq(S), NEW t \in Seq(S)
    PROVE  SubSeq(s \o t, 1, Len(s \o t)) = s \o t /\ s \o t \in Seq(S)
           /\ Len(s \o t) = Len(s) + Len(t)
BY ConcatProperties, SubSeqFull

Associative(S) == \A s, t, u \in Seq(S) : (s \o t) \o u = s \o (t \o u)

LEMMA ConcatIsAssociative == ASSUME NEW S PROVE Associative(S)
BY ConcatAssociative DEF Associative

-----------------------------------------------------------------------------
(* SendBufferInv, operation by operation.                                  *)

LEMMA SendBufferInit == ASSUME NEW S, SendInit PROVE SendBufferInv(S)
<1>1. << >> \in Seq(S) /\ Len(<< >>) = 0 /\ << >> \o << >> = << >>
  BY EmptySeq, ConcatEmptySeq
<1>2. SubSeq(<< >>, 1, 0) = << >>
  BY SubSeqEmpty
<1> QED BY <1>1, <1>2, SendAssumption DEF SendInit, SendBufferInv, HoldsBytes, StreamWhole

LEMMA SendDataWhole ==
    ASSUME NEW S, SendBufferInv(S), NEW header \in Seq(S), NEW body \in Seq(S),
           SendData(header, body)
    PROVE  SendBufferInv(S)'
<1> DEFINE message == header \o body
<1>1. Len(header) \in Nat /\ Len(body) \in Nat
  BY LenProperties
<1>2. message \in Seq(S) /\ Len(message) = Len(header) + Len(body)
  BY <1>1, ConcatProperties
<1>3. CASE UNCHANGED sendVars
  BY <1>3 DEF sendVars, SendBufferInv, HoldsBytes, StreamWhole
<1>4. CASE /\ Fits(header, body)
           /\ pSendBuffer' = Waiting \o message
           /\ SendSize' = SendSize + Len(message)
           /\ accepted' = accepted \o message
           /\ received' = received
  <2> HIDE DEF message
  <2>1. Waiting \in Seq(S) /\ Len(Waiting) = SendSize /\ SendSize \in Nat
    <3>1. SendSize \in 0 .. Len(pSendBuffer) /\ pSendBuffer \in Seq(S)
      BY DEF SendBufferInv, HoldsBytes
    <3>2. Len(pSendBuffer) \in Nat
      BY <3>1, LenProperties
    <3>3. SendSize \in 0 .. SendSize /\ SendSize \in Nat
      BY <3>1, <3>2
    <3> QED BY <3>1, <3>3, Split DEF Waiting
  <2>2. /\ pSendBuffer' \in Seq(S)
        /\ Len(pSendBuffer') = SendSize'
        /\ SubSeq(pSendBuffer', 1, SendSize') = Waiting \o message
    BY <1>1, <1>2, <1>4, <2>1, FirstPart
  <2>3. SendSize' \in 0 .. Len(pSendBuffer')
    BY <1>1, <1>2, <1>4, <2>1, <2>2
  <2>4. HoldsBytes(S)'
    BY <1>2, <1>4, <2>2, <2>3, ConcatProperties DEF SendBufferInv, HoldsBytes
  <2>5. SendSize' <= MaxClientSendBufferSize
    BY <1>1, <1>2, <1>4, <2>1, SendAssumption DEF Fits
  <2>6. received \o (Waiting \o message) = (received \o Waiting) \o message
    <3>1. received \in Seq(S)
      BY DEF SendBufferInv, HoldsBytes
    <3>2. Associative(S)
      BY ConcatIsAssociative
    <3>3. (received \o Waiting) \o message = received \o (Waiting \o message)
      BY ONLY <1>2, <2>1, <3>1, <3>2 DEF Associative
    <3> QED BY <3>3
  <2>7. accepted = received \o Waiting
    BY DEF SendBufferInv, StreamWhole, Waiting
  <2>8. received' \o SubSeq(pSendBuffer', 1, SendSize') = accepted'
    BY <1>4, <2>2, <2>6, <2>7
  <2> QED BY <2>4, <2>5, <2>8 DEF SendBufferInv, StreamWhole
<1> QED BY <1>3, <1>4 DEF SendData, Waiting

LEMMA FlushSendBuffWhole ==
    ASSUME NEW S, SendBufferInv(S), NEW n \in 1 .. SendSize, FlushSendBuff(n)
    PROVE  SendBufferInv(S)'
<1> DEFINE sent == SubSeq(pSendBuffer, 1, n)
           rest == SubSeq(pSendBuffer, n + 1, SendSize)
<1>1. /\ received' = received \o sent /\ SendSize' = SendSize - n
      /\ pSendBuffer' = IF n < SendSize THEN rest ELSE pSendBuffer
      /\ accepted' = accepted
  BY DEF FlushSendBuff, MovedUp
<1>2. /\ pSendBuffer \in Seq(S) /\ Len(pSendBuffer) \in Nat
      /\ received \in Seq(S) /\ accepted \in Seq(S)
      /\ SendSize \in Nat /\ SendSize <= Len(pSendBuffer) /\ n \in 1 .. SendSize
  <2>1. /\ pSendBuffer \in Seq(S) /\ SendSize \in 0 .. Len(pSendBuffer)
        /\ received \in Seq(S) /\ accepted \in Seq(S)
    BY DEF SendBufferInv, HoldsBytes
  <2>2. Len(pSendBuffer) \in Nat
    BY <2>1, LenProperties
  <2> QED BY <2>1, <2>2
<1>3. /\ sent \in Seq(S) /\ rest \in Seq(S) /\ Len(rest) = SendSize - n
      /\ sent \o rest = Waiting
  <2>1. SendSize \in 0 .. Len(pSendBuffer) /\ n \in 0 .. SendSize
    BY <1>2
  <2> QED BY <1>2, <2>1, Split DEF Waiting
<1> HIDE DEF sent, rest
<1>4. /\ pSendBuffer' \in Seq(S) /\ SendSize' \in 0 .. Len(pSendBuffer')
      /\ SubSeq(pSendBuffer', 1, SendSize') = rest
  <2>1. CASE n < SendSize
    <3>1. pSendBuffer' = rest /\ SendSize' = Len(rest) /\ SendSize' \in Nat
      BY <1>1, <1>2, <1>3, <2>1
    <3>2. SubSeq(rest, 1, Len(rest)) = rest
      BY <1>3, SubSeqFull
    <3> QED BY <1>3, <3>1, <3>2
  <2>2. CASE ~(n < SendSize)
    <3>1. pSendBuffer' = pSendBuffer /\ SendSize' = 0 /\ Len(rest) = 0
      BY <1>1, <1>2, <1>3, <2>2
    <3>2. SubSeq(pSendBuffer, 1, 0) = << >>
      BY SubSeqEmpty
    <3>3. rest = << >>
      BY <1>3, <3>1, EmptySeq
    <3> QED BY <1>2, <3>1, <3>2, <3>3
  <2> QED BY <2>1, <2>2
<1>5. HoldsBytes(S)'
  BY <1>1, <1>2, <1>3, <1>4, ConcatProperties DEF HoldsBytes
<1>6. SendSize' <= MaxClientSendBufferSize
  BY <1>1, <1>2, SendAssumption DEF SendBufferInv, StreamWhole
<1>7. (received \o sent) \o rest = received \o Waiting
  <2>1. Associative(S)
    BY ConcatIsAssociative
  <2>2. (received \o sent) \o rest = received \o (sent \o rest)
    BY ONLY <1>2, <1>3, <2>1 DEF Associative
  <2> QED BY <1>3, <2>2
<1>8. accepted = received \o Waiting
  BY DEF SendBufferInv, StreamWhole, Waiting
<1> QED BY <1>1, <1>4, <1>5, <1>6, <1>7, <1>8 DEF SendBufferInv, StreamWhole

LEMMA ClearSendWhole == ASSUME NEW S, SendBufferInv(S), ClearSend PROVE SendBufferInv(S)'
<1>1. /\ SendSize' = 0 /\ accepted' = << >> /\ received' = << >>
      /\ pSendBuffer' = pSendBuffer
  BY DEF ClearSend, SizeCleared
<1>2. << >> \in Seq(S) /\ << >> \o << >> = << >>
  BY EmptySeq, ConcatEmptySeq
<1>3. SubSeq(pSendBuffer, 1, 0) = << >>
  BY SubSeqEmpty
<1>4. 0 \in 0 .. Len(pSendBuffer)
  <2>1. Len(pSendBuffer) \in Nat
    BY LenProperties DEF SendBufferInv, HoldsBytes
  <2> QED BY <2>1
<1> QED BY <1>1, <1>2, <1>3, <1>4, SendAssumption
        DEF SendBufferInv, HoldsBytes, StreamWhole

LEMMA SendKept == ASSUME NEW S, SendBufferInv(S), UNCHANGED sendVars PROVE SendBufferInv(S)'
BY DEF sendVars, SendBufferInv, HoldsBytes, StreamWhole

LEMMA SendBufferNext ==
    SendBufferInv(OutBytes) /\ [SendNext]_sendVars => SendBufferInv(OutBytes)'
<1> SUFFICES ASSUME SendBufferInv(OutBytes), [SendNext]_sendVars PROVE SendBufferInv(OutBytes)'
  OBVIOUS
<1>1. ASSUME NEW header \in Headers, NEW body \in Bodies, SendData(header, body)
      PROVE  SendBufferInv(OutBytes)'
  BY <1>1, SendAssumption, SendDataWhole
<1>2. ASSUME NEW n \in 1 .. SendSize, FlushSendBuff(n) PROVE SendBufferInv(OutBytes)'
  BY <1>2, FlushSendBuffWhole
<1>3. CASE ClearSend
  BY <1>3, ClearSendWhole
<1>4. CASE UNCHANGED sendVars
  BY <1>4, SendKept
<1> QED BY <1>1, <1>2, <1>3, <1>4 DEF SendNext

-----------------------------------------------------------------------------
(* The theorems.                                                           *)

\* What the client gets and what still waits are the messages that SendData
\* took, whole and in order, for every size of the buffer and of the
\* messages, and whatever part of the buffer send takes at a time.
THEOREM StreamWholeCorrect == SendSpec => []StreamWhole
<1>1. SendBufferInv(OutBytes) => StreamWhole
  BY DEF SendBufferInv
<1>2. SendInit => SendBufferInv(OutBytes)
  BY SendBufferInit
<1> QED BY <1>1, <1>2, SendBufferNext, PTL DEF SendSpec

\* SendSize never passes what has been written to the buffer: send hands no
\* byte to the client that SendData did not put there.
THEOREM SendTypeCorrect == SendSpec => []SendTypeOK
<1>1. SendBufferInv(OutBytes) => SendTypeOK
  BY DEF SendBufferInv, SendTypeOK
<1>2. SendInit => SendBufferInv(OutBytes)
  BY SendBufferInit
<1> QED BY <1>1, <1>2, SendBufferNext, PTL DEF SendSpec

-----------------------------------------------------------------------------
(* The queued packets in the receive buffer.                               *)

Queued == [PacketId : {"DEV_ECHO_REQ", "ZERO"}, pData : Nat, PacketBodySize : BodySizes]
End(q) == q.pData + q.PacketBodySize

\* The most bytes that the buffer holds when a packet is queued.
MostAtOnce == HeaderSize + MaxBodySize - 1 + 2 * MaxBodySize

\* The i-th packet of que is the packet sent that its place in que stands for.
HeldAt(buffer, packets, que, i) ==
    LET sent == packets[Len(packets) - Len(que) + i] IN
    /\ End(que[i]) <= Len(buffer)
    /\ SubSeq(buffer, que[i].pData + 1, End(que[i])) = SubSeq(sent, HeaderSize + 1, Len(sent))

InRow(buffer, packets, que) ==
    /\ que \in Seq(Queued) /\ Len(que) <= Len(packets)
    /\ \A i \in 1 .. Len(que) : HeldAt(buffer, packets, que, i) /\ que[i].pData >= HeaderSize
    /\ \A i, j \in 1 .. Len(que) : j = i + 1 => que[j].pData = End(que[i]) + HeaderSize
    /\ que # << >> => Len(buffer) <= MostAtOnce

LEMMA MostNat == MostAtOnce \in Nat
BY HeaderPositive DEF MostAtOnce

LEMMA QueuedFields ==
    ASSUME NEW que \in Seq(Queued)
    PROVE  /\ Len(que) \in Nat
           /\ \A i \in 1 .. Len(que) : /\ que[i] \in Queued /\ que[i].pData \in Nat
                                       /\ que[i].PacketBodySize \in BodySizes
                                       /\ que[i].PacketBodySize \in Nat /\ End(que[i]) \in Nat
<1>1. Len(que) \in Nat /\ \A i \in 1 .. Len(que) : que[i] \in Queued
  BY LenProperties, ElementOfSeq
<1>2. \A q \in Queued : q.pData \in Nat /\ q.PacketBodySize \in BodySizes
  BY DEF Queued
<1>3. ASSUME NEW i \in 1 .. Len(que)
      PROVE  /\ que[i].pData \in Nat /\ que[i].PacketBodySize \in BodySizes
             /\ que[i].PacketBodySize \in Nat /\ End(que[i]) \in Nat
  <2>1. que[i].pData \in Nat /\ que[i].PacketBodySize \in BodySizes
    BY <1>1, <1>2
  <2>2. que[i].PacketBodySize \in Nat
    BY <2>1, BodySizesNat
  <2> QED BY <2>1, <2>2 DEF End
<1> QED BY <1>1, <1>3

LEMMA RowEmpty == ASSUME NEW buffer, NEW packets \in Seq(Seq(Byte)) PROVE InRow(buffer, packets, << >>)
<1>1. << >> \in Seq(Queued) /\ Len(<< >>) = 0 /\ Len(packets) \in Nat
  BY EmptySeq, LenProperties
<1> QED BY <1>1 DEF InRow

\* The oldest packet is taken.
LEMMA RowTail ==
    ASSUME NEW buffer, NEW packets \in Seq(Seq(Byte)), NEW que, que # << >>,
           InRow(buffer, packets, que)
    PROVE  /\ InRow(buffer, packets, Tail(que))
           /\ Head(que) = que[1] /\ que[1] \in Queued
           /\ Tail(que) # << >> => Tail(que)[1].pData = End(que[1]) + HeaderSize
<1>1. que \in Seq(Queued) /\ Len(que) <= Len(packets) /\ Len(packets) \in Nat
  BY LenProperties DEF InRow
<1>2. Len(que) \in Nat \ {0}
  BY <1>1, QueuedFields, EmptySeq
<1>3. /\ Tail(que) \in Seq(Queued) /\ Len(Tail(que)) = Len(que) - 1
      /\ \A i \in 1 .. Len(que) - 1 : Tail(que)[i] = que[i + 1]
      /\ Head(que) = que[1]
  BY <1>1, HeadTailProperties
<1> DEFINE tail == Tail(que)
           n == Len(que)
<1> HIDE DEF tail
<1>4. \A i \in 1 .. n - 1 : i + 1 \in 1 .. n
  BY <1>2
<1>5. ASSUME NEW i \in 1 .. n - 1
      PROVE  HeldAt(buffer, packets, tail, i) /\ tail[i].pData >= HeaderSize
  <2>1. HeldAt(buffer, packets, que, i + 1) /\ que[i + 1].pData >= HeaderSize
    BY <1>4 DEF InRow
  <2>2. Len(packets) - Len(tail) + i = Len(packets) - n + (i + 1)
    BY <1>1, <1>2, <1>3 DEF tail
  <2>3. tail[i] = que[i + 1]
    BY <1>3 DEF tail
  <2> QED BY <2>1, <2>2, <2>3 DEF HeldAt
<1>6. ASSUME NEW i \in 1 .. n - 1, NEW j \in 1 .. n - 1, j = i + 1
      PROVE  tail[j].pData = End(tail[i]) + HeaderSize
  <2>1. i + 1 \in 1 .. n /\ j + 1 \in 1 .. n /\ j + 1 = i + 1 + 1
    BY <1>2, <1>6
  <2>2. que[j + 1].pData = End(que[i + 1]) + HeaderSize
    BY <2>1 DEF InRow
  <2> QED BY <1>3, <2>2 DEF tail
<1>7. InRow(buffer, packets, tail)
  <2>1. Len(tail) <= Len(packets) /\ Len(tail) = n - 1
    BY <1>1, <1>2, <1>3 DEF tail
  <2>2. Len(buffer) <= MostAtOnce
    BY DEF InRow
  <2> QED BY <1>3, <1>5, <1>6, <2>1, <2>2 DEF InRow, tail
<1>8. ASSUME tail # << >> PROVE tail[1].pData = End(que[1]) + HeaderSize
  <2>1. Len(tail) # 0 /\ tail \in Seq(Queued)
    BY <1>3, <1>8, EmptySeq DEF tail
  <2>2. 1 \in 1 .. n - 1 /\ 1 \in 1 .. n /\ 2 \in 1 .. n
    BY <1>2, <1>3, <2>1 DEF tail
  <2>3. tail[1] = que[2]
    BY <1>3, <2>2 DEF tail
  <2> QED BY <2>2, <2>3 DEF InRow
<1>9. que[1] \in Queued
  BY <1>1, <1>2, QueuedFields
<1> QED BY <1>3, <1>7, <1>8, <1>9 DEF tail

\* The next packet in the buffer is queued.
LEMMA RowAppend ==
    ASSUME NEW buffer \in Seq(Byte), NEW packets \in Seq(Seq(Byte)), NEW que,
           InRow(buffer, packets, que), NEW pos \in Nat, NEW b \in BodySizes,
           NEW id \in {"DEV_ECHO_REQ", "ZERO"},
           pos + HeaderSize + b <= Len(buffer), Len(buffer) <= MostAtOnce,
           que # << >> => pos = End(que[Len(que)])
    PROVE  InRow(buffer, Append(packets, SubSeq(buffer, pos + 1, pos + HeaderSize + b)),
                 Append(que, [PacketId |-> id, pData |-> pos + HeaderSize,
                              PacketBodySize |-> b]))
<1> DEFINE q == [PacketId |-> id, pData |-> pos + HeaderSize, PacketBodySize |-> b]
           sent == SubSeq(buffer, pos + 1, pos + HeaderSize + b)
           longQue == Append(que, q)
           longPackets == Append(packets, sent)
           n == Len(que)
           m == Len(packets)
<1>1. b \in Nat /\ HeaderSize \in Nat /\ Len(buffer) \in Nat
  BY HeaderPositive, BodySizesNat, LenProperties
<1>2. que \in Seq(Queued) /\ n \in Nat /\ m \in Nat /\ n <= m
  BY QueuedFields, LenProperties DEF InRow
<1>3. /\ sent \in Seq(Byte) /\ Len(sent) = HeaderSize + b
      /\ \A i \in 1 .. HeaderSize + b : sent[i] = buffer[pos + i]
  <2>1. HeaderSize + b \in Nat /\ pos + (HeaderSize + b) <= Len(buffer)
        /\ pos + (HeaderSize + b) = pos + HeaderSize + b
    BY <1>1
  <2>2. /\ SubSeq(buffer, pos + 1, pos + (HeaderSize + b)) \in Seq(Byte)
        /\ Len(SubSeq(buffer, pos + 1, pos + (HeaderSize + b))) = HeaderSize + b
        /\ \A i \in 1 .. HeaderSize + b :
             SubSeq(buffer, pos + 1, pos + (HeaderSize + b))[i] = buffer[pos + i]
    BY <2>1, PartOf
  <2> QED BY <2>1, <2>2
<1> HIDE DEF sent
<1>4. q \in Queued /\ q.pData = pos + HeaderSize /\ End(q) = pos + HeaderSize + b
  BY <1>1 DEF Queued, End
<1>5. SubSeq(buffer, q.pData + 1, End(q)) = SubSeq(sent, HeaderSize + 1, Len(sent))
  <2> DEFINE x == SubSeq(buffer, pos + HeaderSize + 1, pos + HeaderSize + b)
             y == SubSeq(sent, HeaderSize + 1, HeaderSize + b)
  <2>1. x \in Seq(Byte) /\ Len(x) = b /\ \A i \in 1 .. b : x[i] = buffer[pos + HeaderSize + i]
    <3>1. pos + HeaderSize \in Nat
      BY <1>1
    <3> QED BY <1>1, <3>1, PartOf
  <2>2. y \in Seq(Byte) /\ Len(y) = b /\ \A i \in 1 .. b : y[i] = sent[HeaderSize + i]
    <3>1. HeaderSize + b <= Len(sent)
      BY <1>1, <1>3
    <3> QED BY <1>1, <1>3, <3>1, PartOf
  <2> HIDE DEF x, y
  <2>3. \A i \in 1 .. b : x[i] = y[i]
    <3>1. \A i \in 1 .. b : /\ HeaderSize + i \in 1 .. HeaderSize + b
                            /\ pos + (HeaderSize + i) = pos + HeaderSize + i
      BY <1>1
    <3>2. \A i \in 1 .. b : sent[HeaderSize + i] = buffer[pos + (HeaderSize + i)]
      BY <1>3, <3>1
    <3> QED BY <2>1, <2>2, <3>1, <3>2
  <2>4. x = y
    BY <2>1, <2>2, <2>3, SeqEqual
  <2> QED BY <1>3, <1>4, <2>4 DEF x, y
<1> HIDE DEF q
<1>6. /\ longQue \in Seq(Queued) /\ Len(longQue) = n + 1
      /\ \A i \in 1 .. n : longQue[i] = que[i]
      /\ longQue[n + 1] = q
  BY <1>2, <1>4, AppendProperties
<1>7. /\ Len(longPackets) = m + 1
      /\ \A i \in 1 .. m : longPackets[i] = packets[i]
      /\ longPackets[m + 1] = sent
  BY <1>2, <1>3, AppendProperties
<1>n. n = Len(que) /\ m = Len(packets) /\ n + 1 \in Nat
  BY <1>2
<1> HIDE DEF longQue, longPackets, n, m
<1>8. ASSUME NEW i \in 1 .. n + 1
      PROVE  HeldAt(buffer, longPackets, longQue, i) /\ longQue[i].pData >= HeaderSize
  <2>1. CASE i = n + 1
    <3>1. Len(longPackets) - Len(longQue) + i = m + 1 /\ longQue[i] = q
      BY <1>2, <1>6, <1>7, <2>1
    <3>2. longPackets[Len(longPackets) - Len(longQue) + i] = sent
      BY <1>7, <3>1
    <3>3. End(q) <= Len(buffer) /\ q.pData >= HeaderSize
      BY <1>1, <1>4
    <3>4. HeldAt(buffer, longPackets, longQue, i)
      BY <1>5, <3>1, <3>2, <3>3 DEF HeldAt
    <3> QED BY <3>1, <3>3, <3>4
  <2>2. CASE i # n + 1
    <3>1. i \in 1 .. n /\ longQue[i] = que[i]
      BY <1>2, <1>6, <2>2
    <3>2. /\ Len(longPackets) - Len(longQue) + i = m - n + i
          /\ m - n + i \in 1 .. m
      BY <1>2, <1>6, <1>7, <3>1
    <3>3. HeldAt(buffer, packets, que, i) /\ que[i].pData >= HeaderSize
      BY <1>n, <3>1 DEF InRow
    <3>4. longPackets[m - n + i] = packets[m - n + i]
      BY <1>7, <3>2
    <3> QED BY <1>n, <3>1, <3>2, <3>3, <3>4 DEF HeldAt
  <2> QED BY <2>1, <2>2
<1>9. ASSUME NEW i \in 1 .. n + 1, NEW j \in 1 .. n + 1, j = i + 1
      PROVE  longQue[j].pData = End(longQue[i]) + HeaderSize
  <2>1. i \in 1 .. n /\ longQue[i] = que[i]
    BY <1>2, <1>6, <1>9
  <2>2. CASE j = n + 1
    <3>1. i = n /\ que # << >> /\ longQue[j] = q
      <4>1. i = n /\ n # 0
        BY <1>2, <1>9, <2>1, <2>2
      <4> QED BY <1>n, <1>2, <1>6, <2>2, <4>1, EmptySeq
    <3> QED BY <1>n, <1>4, <2>1, <3>1
  <2>3. CASE j # n + 1
    <3>1. j \in 1 .. n /\ longQue[j] = que[j]
      BY <1>2, <1>6, <2>3
    <3> QED BY <1>n, <1>9, <2>1, <3>1 DEF InRow
  <2> QED BY <2>2, <2>3
<1>10. InRow(buffer, longPackets, longQue)
  <2>1. Len(longQue) <= Len(longPackets)
    BY <1>2, <1>6, <1>7
  <2> QED BY <1>n, <1>6, <1>8, <1>9, <2>1 DEF InRow
<1> QED BY <1>10 DEF longQue, longPackets, sent, q
-----------------------------------------------------------------------------
(* The sizes of the answers.                                               *)

\* A function on 1 .. n is a sequence of length n.
LEMMA FunctionSeq ==
    ASSUME NEW S, NEW n \in Nat, NEW f \in [1 .. n -> S]
    PROVE  f \in Seq(S) /\ Len(f) = n
<1>1. f \in Seq(S)
  BY SeqDef
<1>2. Len(f) \in Nat /\ 1 .. Len(f) = 1 .. n
  BY <1>1, LenProperties
<1> QED BY <1>1, <1>2

LEMMA WiderSeq ==
    ASSUME NEW S, NEW T, S \subseteq T, NEW s \in Seq(S)
    PROVE  s \in Seq(T)
<1>1. Len(s) \in Nat /\ s \in [1 .. Len(s) -> S]
  BY LenProperties
<1>2. s \in [1 .. Len(s) -> T]
  BY <1>1
<1> QED BY <1>1, <1>2, FunctionSeq

\* The length of what DevEcho puts together from a header, an error code
\* and a body.
LEMMA AnswerLength ==
    ASSUME NEW S, NEW h \in Seq(S), NEW e \in Seq(S), NEW d \in Seq(S)
    PROVE  /\ Len(e \o d) = Len(e) + Len(d)
           /\ Len(h \o (e \o d)) = Len(h) + (Len(e) + Len(d))
<1>1. e \o d \in Seq(S) /\ Len(e \o d) = Len(e) + Len(d)
  BY ConcatProperties
<1>2. Len(h \o (e \o d)) = Len(h) + Len(e \o d)
  BY <1>1, ConcatProperties
<1> QED BY <1>1, <1>2

AnswerBytes == [packet : Nat, place : Nat, size : Nat]

\* What DevEcho finds behind a queued packet: bytes, and those of its body
\* unless a drain has been cut short.
LEMMA FoundBytes ==
    ASSUME NEW q \in Queued, pRecvBuffer \in Seq(Byte), NEW data \in Found(q),
           ~cutShort => End(q) <= Len(pRecvBuffer)
    PROVE  data \in Seq(AnswerBytes) /\ (~cutShort => Len(data) = q.PacketBodySize)
<1>1. PICK a, b : a = q.pData /\ b = q.PacketBodySize
  OBVIOUS
<1>2. a \in Nat /\ b \in Nat
  BY <1>1, BodySizesNat DEF Queued
<1>3. PICK Symbol : Symbol = AnswerBytes
  OBVIOUS
<1>4. CASE ~cutShort
  <2>1. data = SubSeq(pRecvBuffer, a + 1, a + b) /\ a + b <= Len(pRecvBuffer)
    BY <1>1, <1>4 DEF Found, Data, End
  <2>2. SubSeq(pRecvBuffer, a + 1, a + b) \in Seq(Byte)
        /\ Len(SubSeq(pRecvBuffer, a + 1, a + b)) = b
    BY <1>2, <2>1, PartOf
  <2>3. Byte \subseteq Symbol
    BY <1>3, BodySizesNat DEF Byte, AnswerBytes
  <2>4. data \in Seq(Byte) /\ Len(data) = b
    BY <2>1, <2>2
  <2>5. data \in Seq(Symbol)
    BY ONLY <2>3, <2>4, WiderSeq
  <2> QED BY <1>1, <1>3, <2>4, <2>5
<1>5. CASE cutShort
  <2>1. PICK n \in BodySizes : data = [p \in 1 .. n |-> Answer(q, p)]
    BY <1>5 DEF Found
  <2>2. n \in Nat
    BY BodySizesNat
  <2>3. \A p \in 1 .. n : Answer(q, p) \in Symbol
    BY <1>1, <1>2, <1>3, <2>2 DEF Answer, AnswerBytes
  <2>4. data \in [1 .. n -> Symbol]
    BY <2>1, <2>3
  <2>5. data \in Seq(Symbol)
    BY <2>2, <2>4, FunctionSeq
  <2> QED BY <1>3, <1>5, <2>5
<1> QED BY <1>4, <1>5

\* What DevEcho gives to SendData for a queued packet.
LEMMA AnswerSize ==
    ASSUME NEW q \in Queued, NEW data \in Seq(AnswerBytes)
    PROVE  /\ Header(q) \in Seq(AnswerBytes) /\ Res(q, data) \in Seq(AnswerBytes)
           /\ Len(Header(q)) = HeaderSize
           /\ Len(Res(q, data)) = BaseSize + Len(data)
           /\ Len(Header(q) \o Res(q, data)) = HeaderSize + (BaseSize + Len(data))
<1>1. PICK b : b = q.PacketBodySize
  OBVIOUS
<1>2. b \in Nat /\ HeaderSize \in Nat /\ BaseSize \in Nat
  BY <1>1, HeaderPositive, BodySizesNat, BaseAssumption DEF Queued
<1>3. PICK Symbol : Symbol = AnswerBytes
  OBVIOUS
<1>4. data \in Seq(Symbol)
  BY <1>3
<1>5. \A p \in Nat : Answer(q, p) \in Symbol
  <2>1. \A p \in Nat : [packet |-> 0, place |-> p, size |-> b] \in Symbol
    BY <1>2, <1>3 DEF AnswerBytes
  <2> QED BY <1>1, <2>1 DEF Answer
<1>6. Header(q) \in Seq(Symbol) /\ Len(Header(q)) = HeaderSize
  <2>1. \A p \in 1 .. HeaderSize : p \in Nat
    BY <1>2
  <2>2. [p \in 1 .. HeaderSize |-> Answer(q, p)] \in [1 .. HeaderSize -> Symbol]
    BY <1>5, <2>1
  <2>3. Header(q) \in [1 .. HeaderSize -> Symbol]
    BY <2>2 DEF Header
  <2> QED BY <1>2, <2>3, FunctionSeq
<1>7. PICK e : e = [p \in 1 .. BaseSize |-> Answer(q, HeaderSize + p)]
  OBVIOUS
<1>8. e \in Seq(Symbol) /\ Len(e) = BaseSize
  <2>1. \A p \in 1 .. BaseSize : HeaderSize + p \in Nat
    BY <1>2
  <2>2. e \in [1 .. BaseSize -> Symbol]
    BY <1>5, <1>7, <2>1
  <2> QED BY <1>2, <2>2, FunctionSeq
<1>9. Res(q, data) = e \o data
  BY <1>7 DEF Res
<1>10. /\ Len(e \o data) = BaseSize + Len(data)
       /\ Len(Header(q) \o (e \o data)) = HeaderSize + (BaseSize + Len(data))
  <2>1. PICK h : h = Header(q)
    OBVIOUS
  <2>2. h \in Seq(Symbol) /\ e \in Seq(Symbol) /\ data \in Seq(Symbol)
    BY <1>4, <1>6, <1>8, <2>1
  <2>3. /\ Len(e \o data) = Len(e) + Len(data)
        /\ Len(h \o (e \o data)) = Len(h) + (Len(e) + Len(data))
    BY ONLY <2>2, AnswerLength
  <2> QED BY <1>6, <1>8, <2>1, <2>3
<1>11. e \o data \in Seq(Symbol)
  BY <1>4, <1>8, ConcatProperties
<1> QED BY <1>3, <1>6, <1>9, <1>10, <1>11

\* The size of the shortest packet.
Shortest == CHOOSE m \in {HeaderSize + b : b \in BodySizes} :
              \A b \in BodySizes : m <= HeaderSize + b

LEMMA ShortestLeast ==
    ASSUME BodySizes # {}
    PROVE  /\ Shortest \in Nat /\ Shortest >= 1
           /\ \E b \in BodySizes : Shortest = HeaderSize + b
           /\ \A b \in BodySizes : Shortest <= HeaderSize + b
<1>1. PICK least \in BodySizes : \A b \in BodySizes : least <= b
  BY BodySizesNat, LeastNat
<1>2. \E m \in {HeaderSize + b : b \in BodySizes} : \A b \in BodySizes : m <= HeaderSize + b
  <2>1. \A b \in BodySizes : HeaderSize + least <= HeaderSize + b
    BY <1>1, BodySizesNat, HeaderPositive
  <2> QED BY <2>1
<1>3. /\ Shortest \in {HeaderSize + b : b \in BodySizes}
      /\ \A b \in BodySizes : Shortest <= HeaderSize + b
  BY <1>2 DEF Shortest
<1>4. PICK b \in BodySizes : Shortest = HeaderSize + b
  BY <1>3
<1> QED BY <1>3, <1>4, BodySizesNat, HeaderPositive

\* As many answers as packets that fit in the receive buffer at once fit in
\* the send buffer: c packets of together s bytes.
LEMMA AnswersFitFor ==
    ASSUME BodySizes # {}, NEW c \in Nat, NEW s \in Nat, c * Shortest <= s, s <= MostAtOnce
    PROVE  s + c * BaseSize <= MaxClientSendBufferSize
<1>1. PICK b \in BodySizes : Shortest = HeaderSize + b
  BY ShortestLeast
<1>2. Shortest \in Nat /\ Shortest >= 1 /\ MostAtOnce \in Nat /\ BaseSize \in Nat
      /\ MaxClientSendBufferSize \in Nat
  BY ShortestLeast, MostNat, BaseAssumption, SendAssumption
<1>3. c <= c * Shortest /\ c * Shortest \in Nat
  <2>1. PICK d \in Nat : Shortest = 1 + d
    <3>1. Shortest - 1 \in Nat /\ Shortest = 1 + (Shortest - 1)
      BY <1>2
    <3> QED BY <3>1
  <2>2. c * (1 + d) = c + c * d /\ c * d \in Nat
    OBVIOUS
  <2> QED BY <2>1, <2>2
<1>4. c \in 0 .. MostAtOnce /\ c * (HeaderSize + b) <= MostAtOnce
  BY <1>1, <1>2, <1>3
<1>5. MostAtOnce + c * BaseSize <= MaxClientSendBufferSize
  BY <1>4, AnswersFit DEF MostAtOnce
<1>6. c * BaseSize \in Nat
  BY <1>2
<1> QED BY <1>2, <1>5, <1>6
-----------------------------------------------------------------------------
(* The invariant of Echo.                                                  *)

Stored == InRow(pRecvBuffer, packetQue, queue)

\* Where the packets queued end, and the most that the buffer holds behind a
\* first packet of the size that its header gives.
Behind == IF queue = << >> THEN 0 ELSE End(queue[Len(queue)])
FirstLarge ==
    Len(pRecvBuffer) > 0 =>
        Len(pRecvBuffer) <= HeaderSize + pRecvBuffer[1].size - 1 + 2 * MaxBodySize

Phases ==
    /\ turn \in {"read", "write", "drain"} /\ SendSize \in Nat /\ unsent \in Nat
    /\ cutShort \in BOOLEAN /\ queue \in Seq(Queued)
    /\ pc = "frame" => turn = "read" /\ FirstLarge

Turns ==
    /\ pc = "frame" => readPos = Behind
    /\ turn = "read" /\ pc # "frame" => queue = << >>
    /\ turn # "drain" /\ queue # << >> => queue[1].pData = HeaderSize

\* c answers have been put behind each other since the drain began with an
\* empty send buffer, for packets of together pData - HeaderSize bytes.
Space ==
    turn = "drain" /\ unsent = 0 /\ queue # << >> =>
        \E c \in Nat : /\ c * Shortest <= queue[1].pData - HeaderSize
                       /\ SendSize <= queue[1].pData - HeaderSize + c * BaseSize

Fresh == Stored /\ Turns /\ Space

EchoInv == Inv /\ Phases /\ (~cutShort => Fresh)

-----------------------------------------------------------------------------
(* EchoInv, operation by operation.                                        *)

LEMMA StoredNext ==
    ASSUME NEW b, NEW p, NEW q, InRow(b, p, q),
           pRecvBuffer' = b, packetQue' = p, queue' = q
    PROVE  Stored'
BY DEF Stored, InRow, HeldAt, End, Queued, MostAtOnce

LEMMA StoredKept ==
    ASSUME Stored, UNCHANGED <<pRecvBuffer, packetQue, queue>>
    PROVE  Stored'
BY DEF Stored, InRow, HeldAt, End, Queued, MostAtOnce

\* Every step of Echo is a step of RecvBuffer, or leaves it alone.
LEMMA EchoStep == [EchoNext]_echoVars => [Next]_vars
<1> SUFFICES ASSUME EchoNext PROVE [Next]_vars
  BY DEF echoVars
<1>1. ASSUME NEW b \in BodySizes, Request(b) PROVE Next
  BY <1>1 DEF Request, Next
<1>2. ASSUME NEW n \in 0 .. 2 * MaxBodySize, Receive(n) PROVE Next
  BY <1>2 DEF Receive, Next
<1>3. CASE AddPacketQue
  BY <1>3 DEF AddPacketQue, Next
<1>4. CASE Received
  BY <1>4 DEF Received, Next
<1>5. CASE NothingToRead
  BY <1>5 DEF NothingToRead
<1>6. ASSUME NEW n \in 1 .. SendSize, Write(n) PROVE UNCHANGED vars
  BY <1>6 DEF Write, vars
<1>7. CASE NothingWritten
  BY <1>7 DEF NothingWritten
<1>8. CASE DevEcho
  BY <1>8 DEF DevEcho, vars
<1>9. CASE EndDrain
  BY <1>9 DEF EndDrain
<1>10. CASE CloseOnRecv
  BY <1>10 DEF CloseOnRecv, Next
<1>11. CASE CloseOnSend
  BY <1>11 DEF CloseOnSend, Next
<1>12. CASE CloseOnCheck
  BY <1>12 DEF CloseOnCheck, Next
<1>13. CASE NewSession
  BY <1>13 DEF NewSession, Next
<1>14. CASE Undefined
  BY <1>14 DEF Undefined, Next
<1> QED BY <1>1, <1>2, <1>3, <1>4, <1>5, <1>6, <1>7, <1>8, <1>9, <1>10, <1>11, <1>12,
           <1>13, <1>14 DEF EchoNext

LEMMA EchoInvInit == EchoInit => EchoInv
<1> SUFFICES ASSUME EchoInit PROVE EchoInv
  OBVIOUS
<1>1. Init /\ Inv
  BY InvInit DEF EchoInit
<1>2. Stored
  <2>1. packetQue \in Seq(Seq(Byte)) /\ queue = << >>
    BY <1>1 DEF EchoInit, Inv, TypeOK
  <2> QED BY <2>1, RowEmpty DEF Stored
<1>3. Phases
  <2>1. << >> \in Seq(Queued)
    BY EmptySeq
  <2> QED BY <1>1, <2>1 DEF EchoInit, Init, SendInit, Phases
<1>4. Turns /\ Space
  BY <1>1 DEF EchoInit, Init, SendInit, Turns, Space
<1> QED BY <1>1, <1>2, <1>3, <1>4 DEF EchoInv, Fresh

LEMMA RequestInv == ASSUME EchoInv, NEW b \in BodySizes, Request(b) PROVE EchoInv'
<1>1. /\ Send(b) /\ UNCHANGED <<sendVars, queue, turn, unsent, cutShort>>
      /\ UNCHANGED <<pRecvBuffer, readPos, packetQue, pc>>
  BY DEF Request, Send
<1>2. Inv'
  BY <1>1, SendInv DEF EchoInv
<1>3. Phases'
  BY <1>1 DEF EchoInv, Phases, FirstLarge, Queued, sendVars
<1>4. ASSUME ~cutShort' PROVE Fresh'
  <2>1. Fresh
    BY <1>1, <1>4 DEF EchoInv
  <2>2. Stored'
    BY <1>1, <2>1, StoredKept DEF Fresh
  <2>3. Turns' /\ Space'
    BY <1>1, <2>1 DEF Fresh, Turns, Space, Behind, End, sendVars, Shortest
  <2> QED BY <2>2, <2>3 DEF Fresh
<1> QED BY <1>2, <1>3, <1>4 DEF EchoInv

\* What recv leaves at the front of the buffer, and behind it.
LEMMA FirstLargeNext ==
    ASSUME Inv, NEW n \in 0 .. 2 * MaxBodySize, RecvSocket(n)
    PROVE  FirstLarge'
<1>1. /\ pc = "recv" /\ n <= Len(wire)
      /\ pRecvBuffer' = Moved \o SubSeq(wire, 1, n)
  BY DEF RecvSocket, Recv
<1>2. /\ n \in Nat /\ wire \in Seq(Byte) /\ pRecvBuffer \in Seq(Byte) /\ Len(pRecvBuffer) \in Nat
      /\ RemainingDataSize \in Nat /\ PrevReadPosInRecvBuffer \in Nat
      /\ PrevReadPosInRecvBuffer + RemainingDataSize <= Len(pRecvBuffer)
  BY <1>1, HeaderPositive, LenProperties DEF Inv, TypeOK, Positions
<1>3. /\ Moved \in Seq(Byte) /\ Len(Moved) = RemainingDataSize
      /\ \A i \in 1 .. RemainingDataSize :
           Moved[i] = pRecvBuffer[PrevReadPosInRecvBuffer + i]
  BY <1>2, PartOf DEF Moved
<1>4. SubSeq(wire, 1, n) \in Seq(Byte) /\ Len(SubSeq(wire, 1, n)) = n
  <2>1. 0 \in Nat /\ 0 + n <= Len(wire) /\ 0 + 1 = 1 /\ 0 + n = n
    BY <1>1, <1>2
  <2>2. /\ SubSeq(wire, 0 + 1, 0 + n) \in Seq(Byte)
        /\ Len(SubSeq(wire, 0 + 1, 0 + n)) = n
    BY <1>2, <2>1, PartOf
  <2> QED BY <2>1, <2>2
<1>5. /\ pRecvBuffer' \in Seq(Byte) /\ Len(pRecvBuffer') = RemainingDataSize + n
      /\ RemainingDataSize > 0 =>
           pRecvBuffer'[1] = pRecvBuffer[PrevReadPosInRecvBuffer + 1]
  <2>1. PICK m, w : m = Moved /\ w = SubSeq(wire, 1, n)
    OBVIOUS
  <2>2. m \in Seq(Byte) /\ w \in Seq(Byte) /\ Len(m) = RemainingDataSize /\ Len(w) = n
    BY <1>3, <1>4, <2>1
  <2>3. /\ m \o w \in Seq(Byte) /\ Len(m \o w) = Len(m) + Len(w)
        /\ \A i \in 1 .. Len(m) + Len(w) :
             (m \o w)[i] = IF i <= Len(m) THEN m[i] ELSE w[i - Len(m)]
    BY <2>2, ConcatProperties
  <2>4. RemainingDataSize > 0 => 1 \in 1 .. RemainingDataSize
                                 /\ 1 \in 1 .. RemainingDataSize + n
    BY <1>2
  <2>5. RemainingDataSize > 0 => (m \o w)[1] = m[1]
    BY <2>2, <2>3, <2>4
  <2> QED BY <1>1, <1>3, <2>1, <2>2, <2>3, <2>4, <2>5
<1> SUFFICES ASSUME Len(pRecvBuffer') > 0
             PROVE  Len(pRecvBuffer')
                      <= HeaderSize + pRecvBuffer'[1].size - 1 + 2 * MaxBodySize
  BY DEF FirstLarge
<1>6. pRecvBuffer'[1] \in Byte
  <2>1. 1 \in 1 .. Len(pRecvBuffer')
    BY <1>2, <1>5
  <2> QED BY <1>5, <2>1, ElementOfSeq
<1>7. PICK b : b = pRecvBuffer'[1].size
  OBVIOUS
<1>8. b \in Nat
  BY <1>6, <1>7, BodySizesNat DEF Byte
<1>9. RemainingDataSize < HeaderSize + b
  <2>1. CASE RemainingDataSize = 0
    BY <1>8, <2>1, HeaderPositive
  <2>2. CASE RemainingDataSize > 0
    <3>1. \/ RemainingDataSize < HeaderSize
          \/ RemainingDataSize < HeaderSize + b
      BY <1>1, <1>5, <1>7, <2>2 DEF Inv, IncompleteRest
    <3> QED BY <1>2, <1>8, <3>1, HeaderPositive
  <2> QED BY <1>2, <2>1, <2>2
<1>10. n <= 2 * MaxBodySize
  BY HeaderPositive
<1>11. RemainingDataSize + n <= HeaderSize + b - 1 + 2 * MaxBodySize
  BY <1>2, <1>8, <1>9, <1>10, HeaderPositive
<1> QED BY <1>5, <1>7, <1>11

\* Receiving into a buffer of which nothing is queued, or behind its end.
LEMMA ReceiveInv ==
    ASSUME EchoInv, NEW n \in 0 .. 2 * MaxBodySize, Receive(n) PROVE EchoInv'
<1>1. /\ turn = "read" /\ (RecvSocket(n) \/ RecvOverrun(n))
      /\ UNCHANGED <<sendVars, queue, turn, unsent, cutShort>>
  BY DEF Receive
<1>2. pc = "recv" /\ UNCHANGED packetQue
  BY <1>1 DEF RecvSocket, RecvOverrun, Recv
<1>3. Inv /\ Inv'
  BY <1>1, RecvSocketInv, RecvOverrunInv DEF EchoInv
<1>4. \/ pc' = "overrun" /\ UNCHANGED pRecvBuffer
      \/ pc' = "frame" /\ readPos' = 0 /\ FirstLarge'
  BY <1>1, <1>3, FirstLargeNext DEF RecvSocket, RecvOverrun
<1>5. Phases'
  BY <1>1, <1>4 DEF EchoInv, Phases, Queued, sendVars
<1>6. ASSUME ~cutShort' PROVE Fresh'
  <2>1. queue = << >>
    BY <1>1, <1>2, <1>6 DEF EchoInv, Fresh, Turns
  <2>2. Stored'
    <3>1. packetQue \in Seq(Seq(Byte))
      BY <1>3 DEF Inv, TypeOK
    <3>2. InRow(pRecvBuffer', packetQue, << >>)
      BY <3>1, RowEmpty
    <3> QED BY <1>1, <1>2, <2>1, <3>2, StoredNext
  <2>3. Turns' /\ Space'
    BY <1>1, <1>4, <2>1 DEF Turns, Space, Behind
  <2> QED BY <2>2, <2>3 DEF Fresh
<1> QED BY <1>3, <1>5, <1>6 DEF EchoInv

\* Queueing the packet at readPos, which lies behind those queued before.
LEMMA AddPacketQueInv == ASSUME EchoInv, AddPacketQue PROVE EchoInv'
<1>1. PICK b : b = BodySize
  OBVIOUS
<1>2. PICK id \in {"DEV_ECHO_REQ", "ZERO"} :
        queue' = Append(queue, [PacketId |-> id, pData |-> readPos + HeaderSize,
                                PacketBodySize |-> b])
  BY <1>1 DEF AddPacketQue
<1>3. /\ FramePacket /\ pc = "frame" /\ pc' = "frame" /\ HeaderArrived
      /\ HeaderSize + b <= RemainingDataSize - readPos /\ b <= MaxBodySize
      /\ packetQue' = Append(packetQue,
                             SubSeq(pRecvBuffer, readPos + 1, readPos + HeaderSize + b))
      /\ readPos' = readPos + HeaderSize + b
      /\ UNCHANGED <<sendVars, turn, unsent, cutShort, pRecvBuffer>>
  BY <1>1 DEF AddPacketQue, FramePacket, Arrived, Rest, NextPos
<1>4. Inv /\ Inv'
  BY <1>3, FramePacketInv DEF EchoInv
<1>5. /\ packetQue \in Seq(Seq(Byte)) /\ pRecvBuffer \in Seq(Byte)
      /\ readPos \in Nat /\ RemainingDataSize \in Nat
      /\ Len(pRecvBuffer) = RemainingDataSize
  BY <1>3, <1>4 DEF Inv, TypeOK, Positions
<1>6. b \in BodySizes /\ b \in Nat
  <2>1. pRecvBuffer[readPos + 1] \in Byte
    BY <1>3, <1>4, NextIsFirst DEF Inv
  <2> QED BY <1>1, <2>1, BodySizesNat DEF BodySize, Byte
<1>7. readPos + HeaderSize + b <= Len(pRecvBuffer)
  BY <1>3, <1>5, <1>6, HeaderPositive
<1>8. turn = "read" /\ FirstLarge /\ queue \in Seq(Queued) /\ Len(queue) \in Nat
  BY <1>3, LenProperties DEF EchoInv, Phases
<1>9. PICK q : q = [PacketId |-> id, pData |-> readPos + HeaderSize, PacketBodySize |-> b]
  OBVIOUS
<1>10. q \in Queued /\ q.pData = readPos + HeaderSize /\ End(q) = readPos + HeaderSize + b
  BY <1>5, <1>6, <1>9, HeaderPositive DEF Queued, End
<1>11. /\ queue' \in Seq(Queued)
       /\ Len(queue') = Len(queue) + 1 /\ queue'[Len(queue) + 1] = q
       /\ \A i \in 1 .. Len(queue) : queue'[i] = queue[i]
  <2>1. queue' = Append(queue, q)
    BY <1>2, <1>9
  <2> QED BY <1>8, <1>10, <2>1, AppendProperties
<1>12. Phases'
  <2>1. FirstLarge'
    BY <1>3, <1>8 DEF FirstLarge
  <2>2. (queue \in Seq(Queued))'
    BY <1>11 DEF Queued
  <2> QED BY <1>3, <1>8, <2>1, <2>2 DEF EchoInv, Phases, sendVars
<1>13. ASSUME ~cutShort' PROVE Fresh'
  <2>1. Stored /\ Turns
    BY <1>3, <1>13 DEF EchoInv, Fresh
  <2>2. /\ queue = << >> => readPos = 0
        /\ queue # << >> => readPos = End(queue[Len(queue)]) /\ queue[1].pData = HeaderSize
    BY <1>3, <1>8, <2>1 DEF Turns, Behind
  <2>3. InRow(pRecvBuffer, packetQue, queue)
    BY <2>1 DEF Stored
  <2>4. Len(pRecvBuffer) <= MostAtOnce
    <3>1. CASE queue = << >>
      <4>1. b = pRecvBuffer[1].size
        BY <1>1, <2>2, <3>1 DEF BodySize
      <4>2. Len(pRecvBuffer) \in Nat /\ Len(pRecvBuffer) > 0
        BY <1>5, <1>6, <1>7, HeaderPositive
      <4>3. Len(pRecvBuffer) <= HeaderSize + b - 1 + 2 * MaxBodySize
        BY <1>8, <4>1, <4>2 DEF FirstLarge
      <4> QED BY <1>3, <1>6, <4>2, <4>3, HeaderPositive DEF MostAtOnce
    <3>2. CASE queue # << >>
      BY <2>3, <3>2 DEF InRow
    <3> QED BY <3>1, <3>2
  <2>5. Stored'
    <3>1. InRow(pRecvBuffer, Append(packetQue, SubSeq(pRecvBuffer, readPos + 1,
                                                      readPos + HeaderSize + b)),
                Append(queue, [PacketId |-> id, pData |-> readPos + HeaderSize,
                               PacketBodySize |-> b]))
      BY <1>5, <1>6, <1>7, <2>2, <2>3, <2>4, RowAppend
    <3> QED BY <1>2, <1>3, <3>1, StoredNext
  <2>6. readPos' = Behind'
    <3>1. End(queue'[Len(queue')]) = readPos'
      BY <1>3, <1>10, <1>11
    <3>2. queue' # << >>
      BY <1>8, <1>11, EmptySeq
    <3> QED BY <3>1, <3>2 DEF Behind, End
  <2>7. queue'[1].pData = HeaderSize
    <3>1. CASE queue = << >>
      <4>1. Len(queue) = 0
        BY <3>1, EmptySeq
      <4> QED BY <1>10, <1>11, <2>2, <3>1, <4>1, HeaderPositive
    <3>2. CASE queue # << >>
      <4>1. 1 \in 1 .. Len(queue)
        BY <1>8, <3>2, EmptySeq
      <4> QED BY <1>11, <2>2, <3>2, <4>1
    <3> QED BY <3>1, <3>2
  <2>8. Turns' /\ Space'
    BY <1>3, <1>8, <2>6, <2>7 DEF Turns, Space
  <2> QED BY <2>5, <2>8 DEF Fresh
<1> QED BY <1>4, <1>12, <1>13 DEF EchoInv

LEMMA ReceivedInv == ASSUME EchoInv, Received PROVE EchoInv'
<1>1. /\ FrameRest /\ pc = "frame" /\ pc' = "recv" /\ turn' = "write"
      /\ UNCHANGED <<sendVars, queue, unsent, cutShort, pRecvBuffer, packetQue>>
  BY DEF Received, FrameRest
<1>2. Inv'
  BY <1>1, FrameRestInv DEF EchoInv
<1>3. Phases'
  BY <1>1 DEF EchoInv, Phases, Queued, sendVars
<1>4. ASSUME ~cutShort' PROVE Fresh'
  <2>1. Fresh /\ turn = "read"
    BY <1>1, <1>4 DEF EchoInv, Phases
  <2>2. Stored'
    BY <1>1, <2>1, StoredKept DEF Fresh
  <2>3. Turns' /\ Space'
    BY <1>1, <2>1 DEF Fresh, Turns, Space
  <2> QED BY <2>2, <2>3 DEF Fresh
<1> QED BY <1>2, <1>3, <1>4 DEF EchoInv

LEMMA NothingToReadInv == ASSUME EchoInv, NothingToRead PROVE EchoInv'
<1>1. /\ turn = "read" /\ pc = "recv" /\ turn' = "write"
      /\ UNCHANGED <<vars, sendVars, queue, unsent, cutShort>>
      /\ UNCHANGED <<pc, pRecvBuffer, packetQue>>
  BY DEF NothingToRead, vars
<1>2. Inv'
  BY <1>1, InvNext DEF EchoInv
<1>3. Phases'
  BY <1>1 DEF EchoInv, Phases, Queued, sendVars
<1>4. ASSUME ~cutShort' PROVE Fresh'
  <2>1. Fresh
    BY <1>1, <1>4 DEF EchoInv
  <2>2. Stored'
    BY <1>1, <2>1, StoredKept DEF Fresh
  <2>3. Turns' /\ Space'
    BY <1>1, <2>1 DEF Fresh, Turns, Space
  <2> QED BY <2>2, <2>3 DEF Fresh
<1> QED BY <1>2, <1>3, <1>4 DEF EchoInv

\* When the drain begins no answer has been given.
LEMMA DrainSpace ==
    ASSUME Drain, queue' = queue, queue \in Seq(Queued),
           queue # << >> => queue[1].pData = HeaderSize
    PROVE  Space'
<1> SUFFICES ASSUME unsent' = 0, queue # << >>
             PROVE  \E c \in Nat : /\ c * Shortest <= queue[1].pData - HeaderSize
                                   /\ SendSize' <= queue[1].pData - HeaderSize + c * BaseSize
  BY DEF Space, Shortest
<1>1. SendSize' = 0 /\ queue[1].pData - HeaderSize = 0
  BY HeaderPositive DEF Drain
<1>2. Shortest \in Nat /\ BaseSize \in Nat
  <2>1. 1 \in 1 .. Len(queue)
    BY EmptySeq, LenProperties
  <2>2. BodySizes # {}
    BY <2>1, QueuedFields
  <2> QED BY <2>2, ShortestLeast, BaseAssumption
<1>3. 0 * Shortest = 0 /\ 0 * BaseSize = 0
  BY <1>2
<1>4. 0 * Shortest <= queue[1].pData - HeaderSize
      /\ SendSize' <= queue[1].pData - HeaderSize + 0 * BaseSize
  BY <1>1, <1>3
<1> QED BY <1>4

LEMMA QueueType == ASSUME EchoInv PROVE queue \in Seq(Queued)
BY DEF EchoInv, Phases

\* The drain begins, whether or not the session has just been closed.
LEMMA DrainInv ==
    ASSUME EchoInv, Inv', Drain, turn # "drain", pc' # "frame", SendSize' \in Nat,
           UNCHANGED <<queue, cutShort, pRecvBuffer, packetQue>>
    PROVE  EchoInv'
<1>1. turn' = "drain" /\ unsent' \in Nat
  BY DEF Drain
<1>2. Phases'
  BY <1>1 DEF EchoInv, Phases, Queued
<1>3. ASSUME ~cutShort' PROVE Fresh'
  <2>1. Fresh /\ (queue # << >> => queue[1].pData = HeaderSize)
    BY <1>3 DEF EchoInv, Fresh, Turns
  <2>2. Stored'
    BY <2>1, StoredKept DEF Fresh
  <2>3. Turns'
    BY <1>1 DEF Turns
  <2>4. Space'
    BY <2>1, QueueType, DrainSpace
  <2> QED BY <2>2, <2>3, <2>4 DEF Fresh
<1> QED BY <1>2, <1>3 DEF EchoInv

LEMMA WriteInv == ASSUME EchoInv, NEW n \in 1 .. SendSize, Write(n) PROVE EchoInv'
<1>1. /\ turn = "write" /\ Drain /\ SendSize' = SendSize - n
      /\ UNCHANGED <<vars, queue, cutShort>> /\ UNCHANGED <<pc, pRecvBuffer, packetQue>>
  BY DEF Write, FlushSendBuff, vars
<1>2. SendSize \in Nat /\ pc # "frame"
  BY <1>1 DEF EchoInv, Phases
<1>3. Inv' /\ SendSize' \in Nat
  BY <1>1, <1>2, InvNext DEF EchoInv
<1> QED BY <1>1, <1>2, <1>3, DrainInv

LEMMA NothingWrittenInv == ASSUME EchoInv, NothingWritten PROVE EchoInv'
<1>1. /\ turn = "write" /\ Drain /\ SendSize' = SendSize
      /\ UNCHANGED <<vars, queue, cutShort>> /\ UNCHANGED <<pc, pRecvBuffer, packetQue>>
  BY DEF NothingWritten, vars, sendVars
<1>2. SendSize \in Nat /\ pc # "frame"
  BY <1>1 DEF EchoInv, Phases
<1>3. Inv'
  BY <1>1, InvNext DEF EchoInv
<1> QED BY <1>1, <1>2, <1>3, DrainInv

\* The answer to the oldest packet, put behind those given since the drain
\* began, is no longer than the packets up to that one and as many error
\* codes as there can be packets.
LEMMA AnswersSoFar ==
    ASSUME EchoInv, ~cutShort, turn = "drain", unsent = 0, queue # << >>
    PROVE  /\ BodySizes # {}
           /\ \E c \in Nat :
                /\ c * Shortest <= End(queue[1])
                /\ SendSize + HeaderSize + BaseSize + queue[1].PacketBodySize
                     <= End(queue[1]) + c * BaseSize
<1>1. PICK a, b, s, m : /\ a = queue[1].pData /\ b = queue[1].PacketBodySize
                        /\ s = SendSize /\ m = Shortest
  OBVIOUS
<1>2. 1 \in 1 .. Len(queue)
  BY QueueType, EmptySeq, LenProperties
<1>3. /\ a \in Nat /\ b \in BodySizes /\ b \in Nat /\ End(queue[1]) = a + b
      /\ a >= HeaderSize
  BY <1>1, <1>2, QueueType, QueuedFields DEF EchoInv, Fresh, Stored, InRow, End
<1>4. m \in Nat /\ m <= HeaderSize + b /\ HeaderSize \in Nat /\ BaseSize \in Nat /\ s \in Nat
  BY <1>1, <1>3, ShortestLeast, HeaderPositive, BaseAssumption DEF EchoInv, Phases
<1>5. PICK c \in Nat : c * m <= a - HeaderSize /\ s <= a - HeaderSize + c * BaseSize
  BY <1>1 DEF EchoInv, Fresh, Space
<1>6. (c + 1) * m = c * m + m /\ (c + 1) * BaseSize = c * BaseSize + BaseSize
      /\ c * m \in Nat /\ c * BaseSize \in Nat
  BY <1>4
<1>7. (c + 1) * m <= a + b
  BY <1>3, <1>4, <1>5, <1>6
<1>8. s + HeaderSize + BaseSize + b <= a + b + (c + 1) * BaseSize
  BY <1>3, <1>4, <1>5, <1>6
<1> QED BY <1>1, <1>3, <1>7, <1>8

LEMMA DevEchoParts ==
    ASSUME EchoInv, DevEcho
    PROVE  /\ queue # << >> /\ turn = "drain" /\ pc # "frame" /\ SendSize \in Nat
           /\ queue[1] \in Queued /\ queue[1].PacketBodySize \in Nat
           /\ Tail(queue) \in Seq(Queued) /\ SendSize' \in Nat
           /\ \E data \in Seq(AnswerBytes) : SendData(Header(queue[1]), Res(queue[1], data))
           /\ ~cutShort =>
                /\ End(queue[1]) <= Len(pRecvBuffer) /\ Len(pRecvBuffer) <= MostAtOnce
                /\ InRow(pRecvBuffer, packetQue, Tail(queue))
                /\ Tail(queue) # << >> => Tail(queue)[1].pData = End(queue[1]) + HeaderSize
                /\ \/ SendSize' = SendSize
                                  + (HeaderSize + BaseSize + queue[1].PacketBodySize)
                   \/ /\ ~(SendSize + HeaderSize + BaseSize + queue[1].PacketBodySize
                             <= MaxClientSendBufferSize)
                      /\ SendSize' = SendSize
           /\ queue' = Tail(queue) /\ UNCHANGED <<vars, turn, unsent, cutShort>>
<1>1. /\ turn = "drain" /\ queue # << >>
      /\ \E data \in Found(Head(queue)) :
           SendData(Header(Head(queue)), Res(Head(queue), data))
      /\ queue' = Tail(queue) /\ UNCHANGED <<vars, turn, unsent, cutShort>>
  BY DEF DevEcho
<1>2. pc # "frame" /\ SendSize \in Nat /\ queue \in Seq(Queued)
  BY <1>1 DEF EchoInv, Phases
<1>3. packetQue \in Seq(Seq(Byte)) /\ pRecvBuffer \in Seq(Byte)
  BY DEF EchoInv, Inv, TypeOK
<1>4. 1 \in 1 .. Len(queue)
  BY <1>1, <1>2, EmptySeq, LenProperties
<1>5. Tail(queue) \in Seq(Queued) /\ Head(queue) = queue[1] /\ queue[1] \in Queued
  BY <1>1, <1>2, <1>4, HeadTailProperties, ElementOfSeq
<1>6. ASSUME ~cutShort
      PROVE  /\ End(queue[1]) <= Len(pRecvBuffer) /\ Len(pRecvBuffer) <= MostAtOnce
             /\ InRow(pRecvBuffer, packetQue, Tail(queue))
             /\ Tail(queue) # << >> => Tail(queue)[1].pData = End(queue[1]) + HeaderSize
  <2>1. InRow(pRecvBuffer, packetQue, queue)
    BY <1>6 DEF EchoInv, Fresh, Stored
  <2>2. End(queue[1]) <= Len(pRecvBuffer) /\ Len(pRecvBuffer) <= MostAtOnce
    BY <1>1, <1>4, <2>1 DEF InRow, HeldAt
  <2> QED BY <1>1, <1>3, <2>1, <2>2, RowTail
<1>7. PICK q, b : q = queue[1] /\ b = q.PacketBodySize
  OBVIOUS
<1>8. b \in Nat /\ HeaderSize \in Nat /\ BaseSize \in Nat
  BY <1>5, <1>7, BodySizesNat, HeaderPositive, BaseAssumption DEF Queued
<1>9. PICK data \in Found(q) : SendData(Header(q), Res(q, data))
  BY <1>1, <1>5, <1>7
<1>10. data \in Seq(AnswerBytes) /\ (~cutShort => Len(data) = b)
  BY <1>3, <1>5, <1>6, <1>7, FoundBytes
<1>11. PICK n : n = Len(data)
  OBVIOUS
<1>12. /\ n \in Nat /\ Len(Header(q)) = HeaderSize /\ Len(Res(q, data)) = BaseSize + n
       /\ Len(Header(q) \o Res(q, data)) = HeaderSize + (BaseSize + n)
  BY <1>5, <1>7, <1>10, <1>11, AnswerSize, LenProperties
<1>13. \/ SendSize' = SendSize + (HeaderSize + (BaseSize + n))
       \/ /\ ~(SendSize + (BaseSize + n) + HeaderSize <= MaxClientSendBufferSize)
          /\ SendSize' = SendSize
  BY <1>9, <1>12 DEF SendData, Fits, sendVars
<1>14. SendSize' \in Nat
  BY <1>2, <1>8, <1>12, <1>13
<1>15. ASSUME ~cutShort
       PROVE  \/ SendSize' = SendSize + (HeaderSize + BaseSize + b)
              \/ /\ ~(SendSize + HeaderSize + BaseSize + b <= MaxClientSendBufferSize)
                 /\ SendSize' = SendSize
  <2>1. n = b
    BY <1>10, <1>11, <1>15
  <2>2. /\ HeaderSize + (BaseSize + b) = HeaderSize + BaseSize + b
        /\ SendSize + (BaseSize + b) + HeaderSize = SendSize + HeaderSize + BaseSize + b
    BY <1>2, <1>8
  <2> QED BY <1>13, <2>1, <2>2
<1> QED BY <1>1, <1>2, <1>5, <1>6, <1>7, <1>8, <1>9, <1>10, <1>14, <1>15

LEMMA DevEchoInv == ASSUME EchoInv, DevEcho PROVE EchoInv'
<1>1. PICK b : b = queue[1].PacketBodySize
  OBVIOUS
<1>2. /\ queue # << >> /\ turn = "drain" /\ pc # "frame" /\ SendSize \in Nat /\ b \in Nat
      /\ Tail(queue) \in Seq(Queued) /\ SendSize' \in Nat
      /\ queue' = Tail(queue) /\ UNCHANGED <<vars, turn, unsent, cutShort>>
  BY <1>1, DevEchoParts
<1>3. UNCHANGED <<pc, readPos, pRecvBuffer, packetQue>>
  BY <1>2 DEF vars
<1>4. Inv'
  BY <1>2, InvNext DEF EchoInv
<1>5. Phases'
  <2>1. (queue \in Seq(Queued))'
    BY <1>2 DEF Queued
  <2> QED BY <1>2, <1>3, <2>1 DEF EchoInv, Phases
<1>6. HeaderSize \in Nat /\ BaseSize \in Nat
  BY HeaderPositive, BaseAssumption
<1>7. ASSUME ~cutShort' PROVE Fresh'
  <2>1. /\ ~cutShort
        /\ InRow(pRecvBuffer, packetQue, Tail(queue))
        /\ Tail(queue) # << >> => Tail(queue)[1].pData = End(queue[1]) + HeaderSize
        /\ \/ SendSize' = SendSize + (HeaderSize + BaseSize + b)
           \/ SendSize' = SendSize
    BY <1>1, <1>2, <1>7, DevEchoParts
  <2>2. Stored'
    BY <1>2, <1>3, <2>1, StoredNext
  <2>3. Turns'
    BY <1>2, <1>3 DEF Turns
  <2>4. Space'
    <3> SUFFICES ASSUME unsent = 0, Tail(queue) # << >>
                 PROVE  \E c \in Nat :
                          /\ c * Shortest <= Tail(queue)[1].pData - HeaderSize
                          /\ SendSize' <= Tail(queue)[1].pData - HeaderSize + c * BaseSize
      BY <1>2 DEF Space, Shortest
    <3>1. PICK e, first : e = End(queue[1]) /\ first = Tail(queue)[1].pData
      OBVIOUS
    <3>2. PICK c \in Nat : /\ c * Shortest <= e
                           /\ SendSize + HeaderSize + BaseSize + b <= e + c * BaseSize
      BY <1>1, <1>2, <2>1, <3>1, AnswersSoFar
    <3>3. e \in Nat
      <4>1. 1 \in 1 .. Len(queue)
        BY <1>2, QueueType, EmptySeq, LenProperties
      <4> QED BY <3>1, <4>1, QueueType, QueuedFields
    <3>4. first - HeaderSize = e
      <4>1. first = e + HeaderSize
        BY <2>1, <3>1
      <4> QED BY <1>6, <3>3, <4>1
    <3>5. c * BaseSize \in Nat
      BY <1>6
    <3>6. SendSize' <= e + c * BaseSize
      <4>1. SendSize' <= SendSize + HeaderSize + BaseSize + b
        BY <1>2, <1>6, <2>1
      <4> QED BY <1>2, <1>6, <3>2, <3>3, <3>5, <4>1
    <3> QED BY <3>1, <3>2, <3>4, <3>6
  <2> QED BY <2>2, <2>3, <2>4 DEF Fresh
<1> QED BY <1>4, <1>5, <1>7 DEF EchoInv

\* The drain ends.  If it has not been cut short, it has emptied the queue.
LEMMA NoPacketIdInv ==
    ASSUME EchoInv, Inv', NoPacketId, turn' = "read", unsent' = 0, pc' # "frame",
           SendSize' \in Nat, UNCHANGED <<pRecvBuffer, packetQue>>
    PROVE  EchoInv'
<1>1. queue \in Seq(Queued) /\ packetQue \in Seq(Seq(Byte))
  BY DEF EchoInv, Phases, Inv, TypeOK
<1>2. queue' \in Seq(Queued) /\ cutShort' \in BOOLEAN /\ (~cutShort' => queue' = << >>)
  <2>1. queue # << >> => Tail(queue) \in Seq(Queued)
    BY <1>1, HeadTailProperties
  <2> QED BY <1>1, <2>1 DEF NoPacketId, Empty
<1>3. Phases'
  <2>1. (queue \in Seq(Queued))'
    BY <1>2 DEF Queued
  <2> QED BY <1>2, <2>1 DEF Phases
<1>4. ASSUME ~cutShort' PROVE Fresh'
  <2>1. queue' = << >>
    BY <1>2, <1>4
  <2>2. InRow(pRecvBuffer, packetQue, << >>)
    BY <1>1, RowEmpty
  <2>3. Stored'
    BY <2>1, <2>2, StoredNext
  <2>4. Turns' /\ Space'
    BY <2>1 DEF Turns, Space
  <2> QED BY <2>3, <2>4 DEF Fresh
<1> QED BY <1>3, <1>4 DEF EchoInv

LEMMA EndDrainInv == ASSUME EchoInv, EndDrain PROVE EchoInv'
<1>1. /\ turn = "drain" /\ NoPacketId /\ turn' = "read" /\ unsent' = 0
      /\ UNCHANGED <<vars, pc, pRecvBuffer, packetQue, SendSize>>
  BY DEF EndDrain, vars, sendVars
<1>2. Inv' /\ pc # "frame" /\ SendSize \in Nat
  BY <1>1, InvNext DEF EchoInv, Phases
<1> QED BY <1>1, <1>2, NoPacketIdInv

\* Closing the session leaves the queue and what it points at.
LEMMA ClosedParts ==
    ASSUME EchoInv, CloseSession, ClearSend
    PROVE  /\ Inv' /\ pc' = "closed" /\ SendSize' = 0
           /\ UNCHANGED <<pRecvBuffer, packetQue>>
<1>1. /\ pc' = "closed" /\ SendSize' = 0 /\ UNCHANGED <<pRecvBuffer, packetQue>>
  BY DEF CloseSession, Clear, ClearSend, SizeCleared
<1>2. Inv'
  BY <1>1, CloseSessionInv DEF EchoInv
<1> QED BY <1>1, <1>2

LEMMA CloseOnRecvInv == ASSUME EchoInv, CloseOnRecv PROVE EchoInv'
<1>1. /\ turn = "read" /\ CloseSession /\ ClearSend /\ Drain
      /\ UNCHANGED <<queue, cutShort>>
  BY DEF CloseOnRecv, FrameTooLarge, SessionLost, Closed
<1>2. Inv' /\ pc' = "closed" /\ SendSize' = 0 /\ UNCHANGED <<pRecvBuffer, packetQue>>
  BY <1>1, ClosedParts
<1> QED BY <1>1, <1>2, DrainInv

LEMMA CloseOnSendInv == ASSUME EchoInv, CloseOnSend PROVE EchoInv'
<1>1. /\ turn = "write" /\ CloseSession /\ ClearSend /\ Drain
      /\ UNCHANGED <<queue, cutShort>>
  BY DEF CloseOnSend, SessionLost, Closed
<1>2. Inv' /\ pc' = "closed" /\ SendSize' = 0 /\ UNCHANGED <<pRecvBuffer, packetQue>>
  BY <1>1, ClosedParts
<1> QED BY <1>1, <1>2, DrainInv

LEMMA CloseOnCheckInv == ASSUME EchoInv, CloseOnCheck PROVE EchoInv'
<1>1. CloseSession /\ ClearSend /\ NoPacketId /\ turn' = "read" /\ unsent' = 0
  BY DEF CloseOnCheck, SessionLost
<1>2. Inv' /\ pc' = "closed" /\ SendSize' = 0 /\ UNCHANGED <<pRecvBuffer, packetQue>>
  BY <1>1, ClosedParts
<1> QED BY <1>1, <1>2, NoPacketIdInv

\* The index is given away when nothing of its last connection is queued, or
\* after a drain that was cut short.
LEMMA NewSessionInv == ASSUME EchoInv, NewSession PROVE EchoInv'
<1>1. /\ turn = "read" /\ ConnectedSession
      /\ UNCHANGED <<sendVars, queue, turn, unsent, cutShort>>
      /\ pc = "closed" /\ pc' = "recv" /\ packetQue' = << >> /\ SendSize' = SendSize
  BY DEF NewSession, ConnectedSession, sendVars
<1>2. Inv'
  BY <1>1, ConnectedSessionInv DEF EchoInv
<1>3. Phases'
  BY <1>1 DEF EchoInv, Phases, Queued
<1>4. ASSUME ~cutShort' PROVE Fresh'
  <2>1. queue = << >>
    BY <1>1, <1>4 DEF EchoInv, Fresh, Turns
  <2>2. Stored'
    <3>1. << >> \in Seq(Seq(Byte))
      BY EmptySeq
    <3>2. InRow(pRecvBuffer', << >>, << >>)
      BY <3>1, RowEmpty
    <3> QED BY <1>1, <2>1, <3>2, StoredNext
  <2>3. Turns' /\ Space'
    BY <1>1, <2>1 DEF Turns, Space
  <2> QED BY <2>2, <2>3 DEF Fresh
<1> QED BY <1>2, <1>3, <1>4 DEF EchoInv

LEMMA EchoInvNext == EchoInv /\ [EchoNext]_echoVars => EchoInv'
<1> SUFFICES ASSUME EchoInv, [EchoNext]_echoVars PROVE EchoInv'
  OBVIOUS
<1>1. CASE \E b \in BodySizes : Request(b)
  BY <1>1, RequestInv
<1>2. CASE \E n \in 0 .. 2 * MaxBodySize : Receive(n)
  BY <1>2, ReceiveInv
<1>3. CASE AddPacketQue
  BY <1>3, AddPacketQueInv
<1>4. CASE Received
  BY <1>4, ReceivedInv
<1>5. CASE NothingToRead
  BY <1>5, NothingToReadInv
<1>6. CASE \E n \in 1 .. SendSize : Write(n)
  BY <1>6, WriteInv
<1>7. CASE NothingWritten
  BY <1>7, NothingWrittenInv
<1>8. CASE DevEcho
  BY <1>8, DevEchoInv
<1>9. CASE EndDrain
  BY <1>9, EndDrainInv
<1>10. CASE CloseOnRecv
  BY <1>10, CloseOnRecvInv
<1>11. CASE CloseOnSend
  BY <1>11, CloseOnSendInv
<1>12. CASE CloseOnCheck
  BY <1>12, CloseOnCheckInv
<1>13. CASE NewSession
  BY <1>13, NewSessionInv
<1>14. CASE UNCHANGED echoVars \/ Undefined
  <2>1. /\ UNCHANGED <<vars, SendSize, queue, turn, unsent, cutShort>>
        /\ UNCHANGED <<pc, readPos, pRecvBuffer, packetQue>>
    BY <1>14 DEF Undefined, Overrun, echoVars, sendVars, vars
  <2>2. Inv'
    BY <2>1, InvNext DEF EchoInv
  <2>3. Phases'
    BY <2>1 DEF EchoInv, Phases, FirstLarge, Queued
  <2>4. ASSUME ~cutShort' PROVE Fresh'
    <3>1. Stored'
      BY <2>1, <2>4, StoredKept DEF EchoInv, Fresh
    <3>2. Turns' /\ Space'
      BY <2>1, <2>4 DEF EchoInv, Fresh, Turns, Space, Behind, End, Shortest
    <3> QED BY <3>1, <3>2 DEF Fresh
  <2> QED BY <2>2, <2>3, <2>4 DEF EchoInv
<1> QED BY <1>1, <1>2, <1>3, <1>4, <1>5, <1>6, <1>7, <1>8, <1>9, <1>10, <1>11, <1>12,
           <1>13, <1>14 DEF EchoNext

LEMMA EchoInvCorrect == EchoSpec => []EchoInv
BY EchoInvInit, EchoInvNext, PTL DEF EchoSpec

-----------------------------------------------------------------------------
(* What Echo sends.                                                        *)

EchoSent == SendBufferInv(AnswerBytes)

LEMMA EchoSentInit == EchoInit => EchoSent
BY SendBufferInit DEF EchoInit, EchoSent

LEMMA SentKept == ASSUME EchoSent, UNCHANGED sendVars PROVE EchoSent'
<1>1. SendBufferInv(AnswerBytes)'
  BY SendKept DEF EchoSent
<1> QED BY <1>1 DEF EchoSent

LEMMA DevEchoSent == ASSUME EchoInv, EchoSent, DevEcho PROVE EchoSent'
<1>1. PICK q : q = queue[1]
  OBVIOUS
<1>2. q \in Queued
      /\ \E data \in Seq(AnswerBytes) : SendData(Header(q), Res(q, data))
  BY <1>1, DevEchoParts
<1>3. PICK data \in Seq(AnswerBytes) : SendData(Header(q), Res(q, data))
  BY <1>2
<1>4. Header(q) \in Seq(AnswerBytes) /\ Res(q, data) \in Seq(AnswerBytes)
  BY <1>2, AnswerSize
<1>5. SendBufferInv(AnswerBytes)'
  BY <1>3, <1>4, SendDataWhole DEF EchoSent
<1> QED BY <1>5 DEF EchoSent

LEMMA EchoSentNext == EchoInv /\ EchoSent /\ [EchoNext]_echoVars => EchoSent'
<1> SUFFICES ASSUME EchoInv, EchoSent, [EchoNext]_echoVars PROVE EchoSent'
  OBVIOUS
<1>1. ASSUME NEW n \in 1 .. SendSize, Write(n) PROVE EchoSent'
  <2>1. SendBufferInv(AnswerBytes)'
    BY <1>1, FlushSendBuffWhole DEF Write, EchoSent
  <2> QED BY <2>1 DEF EchoSent
<1>2. ASSUME ClearSend PROVE EchoSent'
  <2>1. SendBufferInv(AnswerBytes)'
    BY <1>2, ClearSendWhole DEF EchoSent
  <2> QED BY <2>1 DEF EchoSent
<1>3. CASE DevEcho
  BY <1>3, DevEchoSent
<1>4. CASE CloseOnRecv \/ CloseOnSend \/ CloseOnCheck
  BY <1>2, <1>4 DEF CloseOnRecv, CloseOnSend, CloseOnCheck, Closed
<1>5. ASSUME NEW b \in BodySizes, Request(b) PROVE UNCHANGED sendVars
  BY <1>5 DEF Request, sendVars
<1>6. ASSUME NEW n \in 0 .. 2 * MaxBodySize, Receive(n) PROVE UNCHANGED sendVars
  BY <1>6 DEF Receive, sendVars
<1>7. CASE AddPacketQue \/ Received \/ NothingToRead \/ NothingWritten \/ EndDrain
           \/ NewSession \/ Undefined
  <2>1. UNCHANGED sendVars
    BY <1>7 DEF AddPacketQue, Received, NothingToRead, NothingWritten, EndDrain, NewSession,
                Undefined, sendVars
  <2> QED BY <2>1, SentKept
<1>8. CASE UNCHANGED echoVars
  <2>1. UNCHANGED sendVars
    BY <1>8 DEF echoVars
  <2> QED BY <2>1, SentKept
<1> QED BY <1>1, <1>3, <1>4, <1>5, <1>6, <1>7, <1>8, SentKept DEF EchoNext

-----------------------------------------------------------------------------
(* The theorems about Echo.                                                *)

\* The echo server cuts the stream of each connection up as RecvBuffer does:
\* neither its turns nor what DevEcho does interfere.
THEOREM RecvBufferKept == EchoSpec => Spec
<1>1. EchoInit => Init
  BY DEF EchoInit
<1> QED BY <1>1, EchoStep, PTL DEF EchoSpec, Spec

\* So the packets that reach its handlers are the packets sent, whole and in
\* order, none waits for bytes of the next one, and recv leaves its buffer
\* only for a packet that announces a body too large for it.
THEOREM EchoFramesCorrect == EchoSpec => [](FramesExact /\ NothingHeldBack /\ BufferFits)
BY RecvBufferKept, FramesExactCorrect, NothingHeldBackCorrect, BufferFitsCorrect, PTL

\* And no byte is lost or doubled between two recvs while the handlers answer.
THEOREM EchoStreamKept == EchoSpec => []StreamKept
BY RecvBufferKept, StreamKeptCorrect, PTL

\* What the client gets and what still waits are the answers that SendData
\* took since the connection began, whole and in order.
THEOREM EchoStreamWhole == EchoSpec => []StreamWhole
<1>1. EchoSent => StreamWhole
  BY DEF EchoSent, SendBufferInv
<1>2. EchoSpec => []EchoSent
  BY EchoInvCorrect, EchoSentInit, EchoSentNext, PTL DEF EchoSpec
<1> QED BY <1>1, <1>2, PTL

\* For every size of packets and buffers, a handler finds in the receive
\* buffer the body that the client sent, whatever has been received, sent
\* or closed since its packet was queued, unless a packet with the ID 0 has
\* cut a drain short and none has emptied the queue since.
THEOREM DataHeldCorrect == EchoSpec => []DataHeld
<1>1. EchoInv => DataHeld
  <2> SUFFICES ASSUME EchoInv, ~cutShort, NEW i \in 1 .. Len(queue)
               PROVE  LET sent == packetQue[Len(packetQue) - Len(queue) + i] IN
                      /\ queue[i].pData + queue[i].PacketBodySize <= Len(pRecvBuffer)
                      /\ Data(queue[i]) = SubSeq(sent, HeaderSize + 1, Len(sent))
    BY DEF DataHeld
  <2>1. HeldAt(pRecvBuffer, packetQue, queue, i)
    BY DEF EchoInv, Fresh, Stored, InRow
  <2> QED BY <2>1 DEF HeldAt, End, Data
<1> QED BY <1>1, EchoInvCorrect, PTL

\* With buffers of sizes that AnswersFit allows, no answer to a client that
\* has read all the earlier ones is dropped, unless packets with the ID 0
\* have had the packets of two recvs drained together.
THEOREM LostOnlyBehindCorrect == EchoSpec => LostOnlyBehind
<1>1. EchoInv /\ [EchoNext]_echoVars
        => [DevEcho => SendSize' > SendSize \/ unsent > 0 \/ cutShort]_echoVars
  <2> SUFFICES ASSUME EchoInv, DevEcho, ~(unsent > 0), ~cutShort
               PROVE  SendSize' > SendSize
    OBVIOUS
  <2>1. PICK b, e : b = queue[1].PacketBodySize /\ e = End(queue[1])
    OBVIOUS
  <2>2. /\ queue # << >> /\ turn = "drain" /\ SendSize \in Nat /\ b \in Nat
        /\ e <= Len(pRecvBuffer) /\ Len(pRecvBuffer) <= MostAtOnce
        /\ queue[1] \in Queued
        /\ \/ SendSize' = SendSize + (HeaderSize + BaseSize + b)
           \/ ~(SendSize + HeaderSize + BaseSize + b <= MaxClientSendBufferSize)
    BY <2>1, DevEchoParts
  <2>3. unsent = 0
    BY DEF EchoInv, Phases
  <2>4. BodySizes # {}
        /\ \E c \in Nat : /\ c * Shortest <= e
                          /\ SendSize + HeaderSize + BaseSize + b <= e + c * BaseSize
    BY <2>1, <2>2, <2>3, AnswersSoFar
  <2>5. PICK c \in Nat : /\ c * Shortest <= e
                         /\ SendSize + HeaderSize + BaseSize + b <= e + c * BaseSize
    BY <2>4
  <2>6. /\ e \in Nat /\ Len(pRecvBuffer) \in Nat /\ MostAtOnce \in Nat
        /\ HeaderSize \in Nat /\ HeaderSize > 0 /\ BaseSize \in Nat
        /\ MaxClientSendBufferSize \in Nat
    <3>1. e \in Nat
      <4>1. queue[1].pData \in Nat
        BY <2>2 DEF Queued
      <4> QED BY <2>1, <2>2, <4>1 DEF End
    <3>2. pRecvBuffer \in Seq(Byte)
      BY DEF EchoInv, Inv, TypeOK
    <3> QED BY <3>1, <3>2, LenProperties, MostNat, HeaderPositive, BaseAssumption,
               SendAssumption
  <2>7. e + c * BaseSize <= MaxClientSendBufferSize
    <3>1. e <= MostAtOnce
      BY <2>2, <2>6
    <3> QED BY <2>4, <2>5, <2>6, <3>1, AnswersFitFor
  <2>8. SendSize + HeaderSize + BaseSize + b <= MaxClientSendBufferSize
    <3>1. c * BaseSize \in Nat
      BY <2>6
    <3> QED BY <2>2, <2>5, <2>6, <2>7, <3>1
  <2>9. SendSize' = SendSize + (HeaderSize + BaseSize + b)
    BY <2>2, <2>8
  <2> QED BY <2>2, <2>6, <2>9
<1>2. EchoSpec => [][DevEcho => SendSize' > SendSize \/ unsent > 0 \/ cutShort]_echoVars
  BY <1>1, EchoInvCorrect, PTL DEF EchoSpec
<1> QED BY <1>2 DEF LostOnlyBehind

=============================================================================
