-------------------------- MODULE RecvBuffer_proofs --------------------------
(***************************************************************************)
(* Theorems about RecvBuffer for every header size, every body size that a *)
(* client may announce, every size of the buffer that FitsAssumption       *)
(* allows, any number of packets and every way in which recv may cut the   *)
(* stream up.                                                              *)
(*                                                                         *)
(*   Positions       the read position and the two sizes lie in the        *)
(*                   buffer, and a closed session has nothing left in it   *)
(*   IncompleteRest  what waits for the next recv is less than a packet    *)
(*   Uncut           what is not yet queued, in the buffer and on the      *)
(*                   wire, is a row of whole packets, the next one first,  *)
(*                   as long as the session is connected                   *)
(*   NoneLost        what is queued and what is not yet queued is all that *)
(*                   has been sent on the connection                       *)
(***************************************************************************)
EXTENDS RecvBuffer, SequenceTheorems, WellFoundedInduction, TLAPS

Positions ==
    /\ pc # "frame" => PrevReadPosInRecvBuffer + RemainingDataSize <= Len(pRecvBuffer)
    /\ pc = "frame" => Len(pRecvBuffer) = RemainingDataSize /\ readPos <= RemainingDataSize
    /\ pc = "closed" => wire = << >> /\ PrevReadPosInRecvBuffer = 0 /\ RemainingDataSize = 0

IncompleteRest ==
    pc = "recv" =>
        \/ RemainingDataSize < HeaderSize
        \/ RemainingDataSize < HeaderSize + pRecvBuffer[PrevReadPosInRecvBuffer + 1].size

\* A packet begins at position p of the stream, all of it is there, and
\* behind it the stream ends with the last packet sent or the next begins.
WholeAt(stream, p, sent) ==
    LET k == stream[p].packet
        b == stream[p].size
        end == p + HeaderSize + b
    IN
    /\ k \in 1 .. Len(sent) /\ b = sent[k]
    /\ end <= Len(stream) + 1
    /\ \A j \in 1 .. HeaderSize + b :
         stream[p + j - 1] = [packet |-> k, place |-> j, size |-> b]
    /\ end = Len(stream) + 1 => k = Len(sent)
    /\ end # Len(stream) + 1 => stream[end].place = 1 /\ stream[end].packet = k + 1

\* The stream is the packets sent, without the first queued ones.
Packets(stream, queued, sent) ==
    /\ stream = << >> => queued = Len(sent)
    /\ stream # << >> => stream[1].place = 1 /\ stream[1].packet = queued + 1
    /\ \A p \in 1 .. Len(stream) : stream[p].place = 1 => WholeAt(stream, p, sent)

Held == IF pc = "frame" THEN SubSeq(pRecvBuffer, readPos + 1, Len(pRecvBuffer)) ELSE Moved
Unqueued == Held \o wire
Uncut == pc # "closed" => Packets(Unqueued, Len(packetQue), sizes)

\* The packets sent, one behind the other.
PacketsOf(sent) == [k \in 1 .. Len(sent) |-> Bytes(k, sent[k])]
NoneLost ==
    pc # "closed" => FlattenSeq(packetQue) \o Unqueued = FlattenSeq(PacketsOf(sizes))

Inv == TypeOK /\ Positions /\ IncompleteRest /\ Uncut /\ FramesExact /\ NoneLost

\* f is the recursive function of FlattenSeq on the first m sequences of s.
FlatTo(s, m, f) == f = [i \in 1 .. m |-> IF i = 1 THEN s[i] ELSE f[i - 1] \o s[i]]

-----------------------------------------------------------------------------
(* Lemmas about FlattenSeq.                                                *)

\* < is well-founded on the natural numbers.
LEMMA NatOrder == \E R : IsWellFoundedOn(R, Nat) /\ \A a, b \in Nat : <<a, b>> \in R <=> a < b
<1> DEFINE R == OpToRel(<, Nat)
<1>1. IsWellFoundedOn(R, Nat)
  BY NatLessThanWellFounded
<1>2. \A a, b \in Nat : <<a, b>> \in R <=> a < b
  BY DEF OpToRel
<1> HIDE DEF R
<1> QED BY <1>1, <1>2

\* Every nonempty set of numbers has a least one.
LEMMA LeastNat ==
    ASSUME NEW S \in SUBSET Nat, S # {}
    PROVE  \E k \in S : \A j \in S : k <= j
<1>1. PICK R : IsWellFoundedOn(R, Nat) /\ \A a, b \in Nat : <<a, b>> \in R <=> a < b
  BY NatOrder
<1>2. IsWellFoundedOn(R, Nat) /\ S \subseteq Nat /\ S # {}
  BY <1>1
<1>3. \E k \in S : \A j \in S : ~(<<j, k>> \in R)
  BY ONLY <1>2, WFMin
<1>4. PICK k \in S : \A j \in S : ~(<<j, k>> \in R)
  BY <1>3
<1>5. k \in Nat /\ \A j \in S : j \in Nat /\ ~(j < k)
  BY <1>1, <1>4
<1>6. \A j \in S : k <= j
  BY <1>5
<1> QED BY <1>6

\* The recursive equation, at one index.
LEMMA FlatAt ==
    ASSUME NEW s, NEW m \in Nat, NEW f, FlatTo(s, m, f), NEW i \in 1 .. m
    PROVE  f[i] = IF i = 1 THEN s[i] ELSE f[i - 1] \o s[i]
<1> DEFINE g == [j \in 1 .. m |-> IF j = 1 THEN s[j] ELSE f[j - 1] \o s[j]]
<1>1. g[i] = IF i = 1 THEN s[i] ELSE f[i - 1] \o s[i]
  OBVIOUS
<1>2. f = g
  BY DEF FlatTo
<1> HIDE DEF g
<1> QED BY <1>1, <1>2

\* The results at the first m indices are determined by the first m
\* sequences: a least index at which they differ cannot be.
LEMMA FlatAgree ==
    ASSUME NEW s, NEW t, NEW m \in Nat, NEW n \in Nat, m <= n,
           NEW f, FlatTo(s, m, f), NEW g, FlatTo(t, n, g),
           \A i \in 1 .. m : s[i] = t[i]
    PROVE  \A i \in 1 .. m : f[i] = g[i]
<1> DEFINE S == {i \in 1 .. m : f[i] # g[i]}
<1>1. CASE S # {}
  <2>1. S \in SUBSET Nat
    OBVIOUS
  <2> HIDE DEF S
  <2>2. PICK k \in S : \A j \in S : k <= j
    BY <1>1, <2>1, LeastNat
  <2>3. k \in 1 .. m /\ k \in 1 .. n /\ k \in Nat /\ f[k] # g[k]
    BY DEF S
  <2>4. /\ f[k] = IF k = 1 THEN s[k] ELSE f[k - 1] \o s[k]
        /\ g[k] = IF k = 1 THEN t[k] ELSE g[k - 1] \o t[k]
    BY <2>3, FlatAt
  <2>5. k # 1 => f[k - 1] = g[k - 1]
    <3>1. k # 1 => k - 1 \in 1 .. m /\ ~(k <= k - 1)
      BY <2>3
    <3> QED BY <2>2, <3>1 DEF S
  <2> QED BY <2>3, <2>4, <2>5
<1>2. CASE S = {}
  BY <1>2
<1> QED BY <1>1, <1>2

\* There is such a function: a least m for which there is none cannot be.
LEMMA FlatExists ==
    ASSUME NEW U, NEW s \in Seq(Seq(U))
    PROVE  \A m \in 0 .. Len(s) :
             \E f : FlatTo(s, m, f) /\ \A i \in 1 .. m : f[i] \in Seq(U)
<1> DEFINE Some(m) == \E f : FlatTo(s, m, f) /\ \A i \in 1 .. m : f[i] \in Seq(U)
           S == {m \in 0 .. Len(s) : ~Some(m)}
<1>1. Len(s) \in Nat /\ \A i \in 1 .. Len(s) : s[i] \in Seq(U)
  BY LenProperties, ElementOfSeq
<1>2. CASE S # {}
  <2>1. S \in SUBSET Nat
    BY <1>1
  <2> HIDE DEF S
  <2>2. PICK m \in S : \A j \in S : m <= j
    BY <1>2, <2>1, LeastNat
  <2>3. m \in 0 .. Len(s) /\ m \in Nat /\ ~Some(m)
    BY <1>1 DEF S
  <2>4. m # 0
    <3> DEFINE f == [i \in 1 .. 0 |-> IF i = 1 THEN s[i] ELSE << >>]
    <3>1. FlatTo(s, 0, f) /\ \A i \in 1 .. 0 : f[i] \in Seq(U)
      BY DEF FlatTo
    <3>2. Some(0)
      BY <3>1
    <3> HIDE DEF Some
    <3> QED BY <2>3, <3>2
  <2>5. m - 1 \in 0 .. Len(s) /\ m - 1 \in Nat /\ ~(m <= m - 1) /\ m \in 1 .. Len(s)
    BY <1>1, <2>3, <2>4
  <2>6. Some(m - 1)
    <3>1. m - 1 \notin S
      BY <2>2, <2>5
    <3> HIDE DEF Some
    <3> QED BY <2>5, <3>1 DEF S
  <2>7. PICK f : FlatTo(s, m - 1, f) /\ \A i \in 1 .. m - 1 : f[i] \in Seq(U)
    BY <2>6
  <2> DEFINE last == IF m = 1 THEN s[m] ELSE f[m - 1] \o s[m]
             g == [i \in 1 .. m |-> IF i = m THEN last ELSE f[i]]
  <2>8. last \in Seq(U)
    <3>1. s[m] \in Seq(U)
      BY <1>1, <2>5
    <3>2. m # 1 => f[m - 1] \in Seq(U)
      BY <2>5, <2>7
    <3> QED BY <3>1, <3>2, ConcatProperties
  <2>9. ASSUME NEW i \in 1 .. m
        PROVE  g[i] \in Seq(U) /\ g[i] = IF i = 1 THEN s[i] ELSE g[i - 1] \o s[i]
    <3>1. CASE i = m
      <4>1. g[i] = last
        BY <3>1
      <4>2. m # 1 => g[m - 1] = f[m - 1]
        BY <2>3
      <4> QED BY <2>8, <3>1, <4>1, <4>2
    <3>2. CASE i # m
      <4>1. i \in 1 .. m - 1 /\ i - 1 # m
        BY <2>3, <3>2
      <4>2. g[i] = f[i] /\ f[i] \in Seq(U) /\ (i # 1 => g[i - 1] = f[i - 1])
        BY <2>3, <2>7, <3>2, <4>1
      <4>3. f[i] = IF i = 1 THEN s[i] ELSE f[i - 1] \o s[i]
        BY <2>5, <2>7, <4>1, FlatAt
      <4> HIDE DEF g
      <4> QED BY <4>2, <4>3
    <3> QED BY <3>1, <3>2
  <2>10. \A i \in 1 .. m : g[i] \in Seq(U)
    BY <2>9
  <2>11. FlatTo(s, m, g)
    <3> DEFINE h == [i \in 1 .. m |-> IF i = 1 THEN s[i] ELSE g[i - 1] \o s[i]]
    <3>1. h = [i \in 1 .. m |-> g[i]]
      <4> HIDE DEF g
      <4> QED BY <2>9
    <3>2. g = [i \in 1 .. m |-> g[i]]
      OBVIOUS
    <3> HIDE DEF g
    <3> QED BY <3>1, <3>2 DEF FlatTo
  <2>12. Some(m)
    <3> HIDE DEF g
    <3> QED BY <2>10, <2>11
  <2> HIDE DEF Some
  <2> QED BY <2>3, <2>12
<1>3. CASE S = {}
  <2>1. \A m \in 0 .. Len(s) : Some(m)
    <3> HIDE DEF Some
    <3> QED BY <1>3
  <2> QED BY <2>1
<1> QED BY <1>2, <1>3

\* What FlattenSeq chooses is one.
LEMMA FlattenIs ==
    ASSUME NEW U, NEW s \in Seq(Seq(U)), Len(s) # 0
    PROVE  \E f : FlatTo(s, Len(s), f) /\ FlattenSeq(s) = f[Len(s)] /\ f[Len(s)] \in Seq(U)
<1>1. Len(s) \in Nat /\ Len(s) \in 0 .. Len(s) /\ Len(s) \in 1 .. Len(s)
  <2>1. Len(s) \in Nat
    BY LenProperties
  <2> QED BY <2>1
<1>2. PICK f : FlatTo(s, Len(s), f) /\ \A i \in 1 .. Len(s) : f[i] \in Seq(U)
  BY <1>1, FlatExists
<1> DEFINE g == CHOOSE h : FlatTo(s, Len(s), h)
<1>3. FlatTo(s, Len(s), g)
  BY <1>2
<1>4. FlattenSeq(s) = g[Len(s)]
  BY DEF FlattenSeq, FlatTo
<1> HIDE DEF g
<1>5. g[Len(s)] = f[Len(s)]
  BY <1>1, <1>2, <1>3, FlatAgree
<1> QED BY <1>1, <1>2, <1>4, <1>5

\* No sequences, no elements.
LEMMA FlattenEmpty == FlattenSeq(<< >>) = << >>
BY EmptySeq DEF FlattenSeq

\* Flattening sequences over a set gives a sequence over it.
LEMMA FlattenType ==
    ASSUME NEW U, NEW s \in Seq(Seq(U))
    PROVE  FlattenSeq(s) \in Seq(U)
<1>1. CASE Len(s) = 0
  <2>1. s = << >> /\ << >> \in Seq(U)
    BY <1>1, EmptySeq
  <2> QED BY <2>1, FlattenEmpty
<1>2. CASE Len(s) # 0
  BY <1>2, FlattenIs
<1> QED BY <1>1, <1>2

\* One more sequence is put behind the others.
LEMMA FlattenAppend ==
    ASSUME NEW U, NEW s \in Seq(Seq(U)), NEW x \in Seq(U)
    PROVE  FlattenSeq(Append(s, x)) = FlattenSeq(s) \o x
<1> DEFINE n == Len(s)
           t == Append(s, x)
<1>1. n \in Nat
  BY LenProperties
<1>2. /\ t \in Seq(Seq(U)) /\ Len(t) = n + 1 /\ t[n + 1] = x
      /\ \A i \in 1 .. n : t[i] = s[i]
  BY AppendProperties
<1> HIDE DEF t
<1>3. PICK f : FlatTo(t, n + 1, f) /\ FlattenSeq(t) = f[n + 1]
  <2>1. Len(t) # 0
    BY <1>1, <1>2
  <2>2. \E f : FlatTo(t, Len(t), f) /\ FlattenSeq(t) = f[Len(t)]
    BY <1>2, <2>1, FlattenIs
  <2> HIDE DEF n
  <2> QED BY <1>2, <2>2
<1>4. f[n + 1] = IF n = 0 THEN x ELSE f[n] \o x
  <2>1. n + 1 \in Nat /\ n + 1 \in 1 .. n + 1 /\ n + 1 - 1 = n /\ (n + 1 = 1 <=> n = 0)
    BY <1>1
  <2> HIDE DEF n
  <2>2. PICK k \in Nat : k = n + 1
    BY <2>1
  <2>3. FlatTo(t, k, f) /\ k \in 1 .. k
    BY <1>3, <2>1, <2>2
  <2>4. f[k] = IF k = 1 THEN t[k] ELSE f[k - 1] \o t[k]
    BY <2>3, FlatAt
  <2>5. t[k] = x /\ k - 1 = n /\ (k = 1 <=> n = 0)
    BY <1>1, <1>2, <2>2
  <2> QED BY <2>2, <2>4, <2>5
<1>5. CASE n = 0
  <2>1. s = << >> /\ << >> \o x = x
    BY <1>5, EmptySeq, ConcatEmptySeq
  <2> QED BY <1>3, <1>4, <1>5, <2>1, FlattenEmpty DEF t
<1>6. CASE n # 0
  <2>1. PICK g : FlatTo(s, n, g) /\ FlattenSeq(s) = g[n]
    BY <1>6, FlattenIs
  <2> HIDE DEF n
  <2>2. n \in 1 .. n /\ n + 1 \in Nat /\ n <= n + 1
    BY <1>1, <1>6
  <2>3. \A i \in 1 .. n : s[i] = t[i]
    BY <1>2
  <2>4. g[n] = f[n]
    BY <1>1, <1>3, <2>1, <2>2, <2>3, FlatAgree
  <2> QED BY <1>3, <1>4, <1>6, <2>1, <2>4 DEF t
<1> QED BY <1>5, <1>6

-----------------------------------------------------------------------------
(* Lemmas about the stream.                                                *)

LEMMA HeaderPositive == HeaderSize \in Nat /\ HeaderSize > 0 /\ MaxBodySize \in Nat
BY BufferAssumption

LEMMA BodySizesNat == BodySizes \subseteq Nat
BY BufferAssumption

\* The c bytes behind position a.
LEMMA PartOf ==
    ASSUME NEW s \in Seq(Byte), NEW a \in Nat, NEW c \in Nat, a + c <= Len(s)
    PROVE  /\ SubSeq(s, a + 1, a + c) \in Seq(Byte)
           /\ Len(SubSeq(s, a + 1, a + c)) = c
           /\ \A i \in 1 .. c : SubSeq(s, a + 1, a + c)[i] = s[a + i]
<1> DEFINE part == SubSeq(s, a + 1, a + c)
<1>1. Len(s) \in Nat /\ \A p \in 1 .. Len(s) : s[p] \in Byte
  BY LenProperties, ElementOfSeq
<1>2. a + 1 \in Int /\ a + c \in Int /\ \A p \in a + 1 .. a + c : s[p] \in Byte
  BY <1>1
<1>3. /\ part \in Seq(Byte)
      /\ Len(part) = IF a + 1 <= a + c THEN a + c - (a + 1) + 1 ELSE 0
      /\ \A i \in 1 .. a + c - (a + 1) + 1 : part[i] = s[a + 1 + i - 1]
  BY <1>2, SubSeqProperties
<1> HIDE DEF part
<1>4. \A i \in 1 .. c : i \in 1 .. a + c - (a + 1) + 1 /\ a + 1 + i - 1 = a + i
  OBVIOUS
<1>5. Len(part) = c /\ \A i \in 1 .. c : part[i] = s[a + i]
  BY <1>3, <1>4
<1> QED BY <1>3, <1>5 DEF part

LEMMA BytesProperties ==
    ASSUME NEW k \in Nat, NEW b \in BodySizes
    PROVE  /\ Bytes(k, b) \in Seq(Byte)
           /\ Len(Bytes(k, b)) = HeaderSize + b
           /\ \A j \in 1 .. HeaderSize + b :
                Bytes(k, b)[j] = [packet |-> k, place |-> j, size |-> b]
<1>1. HeaderSize + b \in Nat
  BY HeaderPositive, BodySizesNat
<1>2. Bytes(k, b) \in [1 .. HeaderSize + b -> Byte]
  BY <1>1 DEF Bytes, Byte
<1>3. Bytes(k, b) \in Seq(Byte)
  BY <1>1, <1>2, SeqDef
<1>4. Len(Bytes(k, b)) = HeaderSize + b
  <2>1. Len(Bytes(k, b)) \in Nat /\ 1 .. Len(Bytes(k, b)) = 1 .. HeaderSize + b
    BY <1>2, <1>3, LenProperties
  <2> QED BY <1>1, <2>1
<1> QED BY <1>3, <1>4 DEF Bytes

\* A packet put behind the stream.
LEMMA PacketSent ==
    ASSUME NEW stream \in Seq(Byte), NEW queued \in Nat, NEW sent \in Seq(BodySizes),
           NEW b \in BodySizes, Packets(stream, queued, sent)
    PROVE  Packets(stream \o Bytes(Len(sent) + 1, b), queued, Append(sent, b))
<1> DEFINE k == Len(sent) + 1
           more == Bytes(k, b)
           long == stream \o more
           sent2 == Append(sent, b)
           n == Len(stream)
           m == HeaderSize + b
<1>1. n \in Nat /\ Len(sent) \in Nat /\ k \in Nat /\ m \in Nat /\ m > 0
  BY LenProperties, HeaderPositive, BodySizesNat
<1>2. /\ Len(sent2) = k /\ sent2[k] = b
      /\ \A l \in 1 .. Len(sent) : sent2[l] = sent[l] /\ l \in 1 .. Len(sent2)
  BY <1>1, AppendProperties
<1>3. /\ Len(long) = n + m
      /\ \A p \in 1 .. n : long[p] = stream[p]
      /\ \A j \in 1 .. m : long[n + j] = [packet |-> k, place |-> j, size |-> b]
  <2>1. more \in Seq(Byte) /\ Len(more) = m
        /\ \A j \in 1 .. m : more[j] = [packet |-> k, place |-> j, size |-> b]
    BY <1>1, BytesProperties
  <2>2. /\ Len(long) = n + Len(more)
        /\ \A p \in 1 .. n + Len(more) : long[p] = IF p <= n THEN stream[p] ELSE more[p - n]
    BY <2>1, ConcatProperties
  <2> HIDE DEF long, more, n, m, k
  <2>3. \A p \in 1 .. n : p \in 1 .. n + m /\ p <= n
    BY <1>1
  <2>4. \A j \in 1 .. m : n + j \in 1 .. n + m /\ ~(n + j <= n) /\ n + j - n = j
    BY <1>1
  <2>5. \A p \in 1 .. n + m : long[p] = IF p <= n THEN stream[p] ELSE more[p - n]
    BY <2>1, <2>2
  <2>6. \A j \in 1 .. m : long[n + j] = more[j]
    BY <1>1, <2>4, <2>5
  <2> QED BY <2>1, <2>2, <2>3, <2>5, <2>6
<1>4. \A p \in 1 .. n : stream[p] \in Byte
  BY ElementOfSeq
<1>5. n = Len(stream) /\ m = HeaderSize + b /\ k = Len(sent) + 1
  OBVIOUS
<1>6. n = 0 => stream = << >>
  BY EmptySeq
<1>7. stream = << >> => n = 0
  BY EmptySeq
<1> HIDE DEF long, more, sent2, n, m, k
<1>fields. \A j \in 1 .. m : /\ long[n + j].packet = k /\ long[n + j].place = j
                             /\ long[n + j].size = b
  <2>1. ASSUME NEW j \in 1 .. m
        PROVE  /\ long[n + j].packet = k /\ long[n + j].place = j /\ long[n + j].size = b
    <3>1. long[n + j] = [packet |-> k, place |-> j, size |-> b]
      BY <1>3
    <3> QED BY <3>1
  <2> QED BY <2>1
<1>8. ASSUME NEW p \in 1 .. n, long[p].place = 1
      PROVE  WholeAt(long, p, sent2)
  <2> DEFINE l == stream[p].packet
             c == stream[p].size
             end == p + HeaderSize + c
  <2>1. WholeAt(stream, p, sent) /\ long[p] = stream[p] /\ c \in Nat
    BY <1>3, <1>4, <1>5, <1>8, BodySizesNat DEF Packets, Byte
  <2>2. /\ l \in 1 .. Len(sent) /\ c = sent[l] /\ end <= n + 1
        /\ \A j \in 1 .. HeaderSize + c :
             stream[p + j - 1] = [packet |-> l, place |-> j, size |-> c]
        /\ end = n + 1 => l = Len(sent)
        /\ end # n + 1 => stream[end].place = 1 /\ stream[end].packet = l + 1
    BY <1>5, <2>1 DEF WholeAt
  <2>3. end \in Nat /\ end > p
    BY <1>1, <2>1, HeaderPositive
  <2> HIDE DEF l
  <2>4. ASSUME NEW j \in 1 .. HeaderSize + c
        PROVE  long[p + j - 1] = [packet |-> l, place |-> j, size |-> c]
    <3>1. p + j - 1 \in 1 .. n
      BY <1>1, <2>1, <2>2, HeaderPositive
    <3> QED BY <1>3, <2>2, <3>1
  <2>5. end # n + m + 1
    BY <1>1, <2>2, <2>3
  <2>6. long[end].place = 1 /\ long[end].packet = l + 1
    <3>1. CASE end = n + 1
      <4>1. 1 \in 1 .. m
        BY <1>1
      <4>2. long[n + 1].place = 1 /\ long[n + 1].packet = k
        BY <1>fields, <4>1
      <4> QED BY <1>5, <2>2, <3>1, <4>2
    <3>2. CASE end # n + 1
      <4>1. end \in 1 .. n
        BY <1>1, <2>2, <2>3, <3>2
      <4> QED BY <1>3, <2>2, <3>2, <4>1
    <3> QED BY <3>1, <3>2
  <2>7. l \in 1 .. Len(sent2) /\ c = sent2[l] /\ end <= Len(long) + 1
    BY <1>1, <1>2, <1>3, <2>2, <2>3
  <2>8. l = long[p].packet /\ c = long[p].size
    BY <2>1 DEF l
  <2>9. end = Len(long) + 1 => l = Len(sent2)
    BY <1>3, <2>5
  <2> HIDE DEF c
  <2> QED BY <2>4, <2>6, <2>7, <2>8, <2>9 DEF WholeAt
<1>9. ASSUME NEW j \in 1 .. m, long[n + j].place = 1
      PROVE  WholeAt(long, n + j, sent2)
  <2>1. j = 1 /\ long[n + 1].packet = k /\ long[n + 1].size = b
    BY <1>1, <1>9, <1>fields
  <2>2. n + 1 + HeaderSize + b = Len(long) + 1
    BY <1>1, <1>3, <1>5, HeaderPositive, BodySizesNat
  <2>3. k \in 1 .. Len(sent2) /\ b = sent2[k] /\ k = Len(sent2)
    BY <1>1, <1>2, <1>5
  <2>4. ASSUME NEW a \in 1 .. HeaderSize + b
        PROVE  long[n + 1 + a - 1] = [packet |-> k, place |-> a, size |-> b]
    <3>1. n + 1 + a - 1 = n + a /\ a \in 1 .. m
      BY <1>1, <1>5
    <3> QED BY <1>3, <3>1
  <2>5. WholeAt(long, n + 1, sent2)
    BY <2>1, <2>2, <2>3, <2>4 DEF WholeAt
  <2> QED BY <2>1, <2>5
<1>10. \A p \in 1 .. Len(long) : p \in 1 .. n \/ \E j \in 1 .. m : p = n + j
  <2>1. \A p \in 1 .. n + m : p \in 1 .. n \/ (p - n \in 1 .. m /\ p = n + (p - n))
    BY <1>1
  <2> QED BY <1>3, <2>1
<1>11. long # << >>
  BY <1>1, <1>3, EmptySeq
<1>12. long[1].place = 1 /\ long[1].packet = queued + 1
  <2>1. CASE n = 0
    <3>1. long[1] = [packet |-> k, place |-> 1, size |-> b]
      <4>1. 1 \in 1 .. m /\ n + 1 = 1
        BY <1>1, <2>1
      <4> QED BY <1>3, <4>1
    <3>2. queued = Len(sent)
      BY <1>6, <2>1 DEF Packets
    <3> QED BY <1>5, <3>1, <3>2
  <2>2. CASE n # 0
    <3>1. 1 \in 1 .. n
      BY <1>1, <2>2
    <3> QED BY <1>3, <1>7, <2>2, <3>1 DEF Packets
  <2> QED BY <2>1, <2>2
<1>13. \A p \in 1 .. Len(long) : long[p].place = 1 => WholeAt(long, p, sent2)
  BY <1>8, <1>9, <1>10
<1>14. Packets(long, queued, sent2)
  BY <1>11, <1>12, <1>13 DEF Packets
<1> QED BY <1>14 DEF long, more, sent2, k

\* The first packet of the stream, and the stream behind it.
LEMMA FirstPacket ==
    ASSUME NEW stream \in Seq(Byte), NEW queued \in Nat, NEW sent \in Seq(BodySizes),
           Packets(stream, queued, sent), stream # << >>
    PROVE  LET b == stream[1].size
               m == HeaderSize + b
           IN  /\ queued + 1 \in 1 .. Len(sent) /\ b = sent[queued + 1]
               /\ m <= Len(stream)
               /\ \A j \in 1 .. m :
                    stream[j] = [packet |-> queued + 1, place |-> j, size |-> b]
               /\ Packets(SubSeq(stream, m + 1, Len(stream)), queued + 1, sent)
<1> DEFINE b == stream[1].size
           m == HeaderSize + b
           n == Len(stream)
           rest == SubSeq(stream, m + 1, n)
<1>1. /\ n \in Nat \ {0} /\ 1 \in 1 .. n /\ Len(sent) \in Nat
      /\ \A p \in 1 .. n : stream[p] \in Byte
  BY EmptySeq, LenProperties, ElementOfSeq
<1>2. b \in Nat /\ m \in Nat /\ m > 0 /\ m = HeaderSize + b
  <2>1. b \in Nat
    BY <1>1, BodySizesNat DEF Byte
  <2> HIDE DEF b
  <2> QED BY <2>1, HeaderPositive
<1>b. b = stream[1].size
  OBVIOUS
<1> HIDE DEF n, b, m
<1>3. stream[1].place = 1 /\ stream[1].packet = queued + 1
  BY DEF Packets
<1>4. WholeAt(stream, 1, sent)
  BY <1>1, <1>3 DEF Packets, n
<1>5. /\ queued + 1 \in 1 .. Len(sent) /\ b = sent[queued + 1]
      /\ 1 + HeaderSize + b <= n + 1
      /\ \A j \in 1 .. HeaderSize + b :
           stream[1 + j - 1] = [packet |-> queued + 1, place |-> j, size |-> b]
      /\ 1 + HeaderSize + b = n + 1 => queued + 1 = Len(sent)
      /\ 1 + HeaderSize + b # n + 1 =>
           /\ stream[1 + HeaderSize + b].place = 1
           /\ stream[1 + HeaderSize + b].packet = queued + 1 + 1
  BY <1>b, <1>3, <1>4 DEF WholeAt, n
<1>6. m <= n /\ 1 + HeaderSize + b = m + 1
  <2>1. 1 + HeaderSize + b = m + 1
    BY <1>2, HeaderPositive
  <2> QED BY <1>1, <1>2, <1>5, <2>1
<1>7. \A j \in 1 .. m : stream[j] = [packet |-> queued + 1, place |-> j, size |-> b]
  <2>1. \A j \in 1 .. m : 1 + j - 1 = j
    BY <1>2
  <2> QED BY <1>2, <1>5, <2>1
<1>8. /\ rest \in Seq(Byte) /\ Len(rest) = n - m
      /\ \A p \in 1 .. n - m : rest[p] = stream[m + p]
  <2> DEFINE d == n - m
  <2>1. d \in Nat /\ m + d = n
    BY <1>1, <1>2, <1>6
  <2> HIDE DEF d
  <2>2. m + d <= Len(stream)
    BY <1>1, <2>1 DEF n
  <2>3. /\ SubSeq(stream, m + 1, m + d) \in Seq(Byte)
        /\ Len(SubSeq(stream, m + 1, m + d)) = d
        /\ \A p \in 1 .. d : SubSeq(stream, m + 1, m + d)[p] = stream[m + p]
    BY <1>2, <2>1, <2>2, PartOf
  <2>4. rest = SubSeq(stream, m + 1, m + d)
    BY <2>1
  <2> HIDE DEF rest
  <2> QED BY <2>3, <2>4 DEF d
<1>9. n = Len(stream)
  BY DEF n
<1>10. rest = << >> <=> n - m = 0
  BY <1>1, <1>2, <1>6, <1>8, EmptySeq
<1> HIDE DEF rest
<1>11. ASSUME NEW p \in 1 .. n - m, rest[p].place = 1
       PROVE  WholeAt(rest, p, sent)
  <2> DEFINE l == rest[p].packet
             c == rest[p].size
             end == p + HeaderSize + c
  <2>1. m + p \in 1 .. n /\ rest[p] = stream[m + p]
    BY <1>1, <1>2, <1>8
  <2>2. WholeAt(stream, m + p, sent) /\ c \in Nat
    BY <1>1, <1>9, <1>11, <2>1, BodySizesNat DEF Packets, Byte
  <2>3. /\ l \in 1 .. Len(sent) /\ c = sent[l] /\ m + p + HeaderSize + c <= n + 1
        /\ \A j \in 1 .. HeaderSize + c :
             stream[m + p + j - 1] = [packet |-> l, place |-> j, size |-> c]
        /\ m + p + HeaderSize + c = n + 1 => l = Len(sent)
        /\ m + p + HeaderSize + c # n + 1 =>
             /\ stream[m + p + HeaderSize + c].place = 1
             /\ stream[m + p + HeaderSize + c].packet = l + 1
    BY <1>9, <2>1, <2>2 DEF WholeAt
  <2> HIDE DEF l
  <2>4. /\ end \in Nat /\ m + p + HeaderSize + c = m + end /\ end >= 1
        /\ p \in Nat /\ p >= 1 /\ end = p + (HeaderSize + c) /\ HeaderSize + c \in Nat
    <3>1. p \in Nat /\ p >= 1 /\ c \in Nat
      BY <1>1, <1>2, <2>2
    <3> HIDE DEF c
    <3> QED BY <1>2, <3>1, HeaderPositive
  <2> HIDE DEF end, c
  <2>num. n \in Nat /\ m \in Nat /\ end \in Nat
    BY <1>1, <1>2, <2>4
  <2>5. end <= n - m + 1
    <3>1. m + end <= n + 1
      BY <2>3, <2>4
    <3> QED BY ONLY <2>num, <3>1
  <2>6. ASSUME NEW j \in 1 .. HeaderSize + c
        PROVE  rest[p + j - 1] = [packet |-> l, place |-> j, size |-> c]
    <3>1. p + j - 1 \in 1 .. n - m /\ m + (p + j - 1) = m + p + j - 1
      <4>1. p + (HeaderSize + c) <= n - m + 1 /\ p \in Nat /\ p >= 1 /\ HeaderSize + c \in Nat
        BY <2>4, <2>5
      <4> DEFINE d == HeaderSize + c
      <4>2. d \in Nat /\ p + d <= n - m + 1 /\ j \in 1 .. d
        BY <4>1
      <4> HIDE DEF d
      <4> QED BY <2>num, <4>1, <4>2
    <3>2. rest[p + j - 1] = stream[m + (p + j - 1)]
      BY <1>8, <3>1
    <3>3. stream[m + p + j - 1] = [packet |-> l, place |-> j, size |-> c]
      BY <2>3
    <3>4. stream[m + (p + j - 1)] = stream[m + p + j - 1]
      BY <3>1
    <3>5. stream[m + (p + j - 1)] = [packet |-> l, place |-> j, size |-> c]
      BY ONLY <3>3, <3>4
    <3> QED BY ONLY <3>2, <3>5
  <2>7. end = n - m + 1 => l = Len(sent)
    <3>1. m + end = n + 1 => l = Len(sent)
      BY <2>3, <2>4
    <3> QED BY ONLY <2>num, <3>1
  <2>8. end # n - m + 1 => rest[end].place = 1 /\ rest[end].packet = l + 1
    <3>1. end # n - m + 1 => end \in 1 .. n - m /\ m + end # n + 1
      <4>1. end >= 1
        BY <2>4
      <4> QED BY <2>num, <2>5, <4>1
    <3>2. end # n - m + 1 => rest[end] = stream[m + end]
      BY <1>8, <3>1
    <3>3. m + end # n + 1 => stream[m + end].place = 1 /\ stream[m + end].packet = l + 1
      BY <2>3, <2>4
    <3> QED BY <3>1, <3>2, <3>3
  <2>9. l = rest[p].packet /\ Len(rest) + 1 = n - m + 1
    BY <1>8 DEF l
  <2> QED BY <2>3, <2>5, <2>6, <2>7, <2>8, <2>9 DEF WholeAt, end, c
<1>12. rest # << >> => rest[1].place = 1 /\ rest[1].packet = queued + 1 + 1
  <2>1. rest # << >> => 1 \in 1 .. n - m /\ m + 1 # n + 1
    BY <1>1, <1>2, <1>6, <1>10
  <2> QED BY <1>5, <1>6, <1>8, <2>1
<1>13. rest = << >> => queued + 1 = Len(sent)
  BY <1>1, <1>2, <1>5, <1>6, <1>10
<1>14. Packets(rest, queued + 1, sent)
  BY <1>8, <1>11, <1>12, <1>13 DEF Packets
<1> QED BY <1>5, <1>6, <1>7, <1>9, <1>14 DEF rest, b, m

\* What lies behind position a of the buffer s, and the wire w behind it.
LEMMA StreamBytes ==
    ASSUME NEW s \in Seq(Byte), NEW w \in Seq(Byte), NEW a \in Nat, a <= Len(s)
    PROVE  LET stream == SubSeq(s, a + 1, Len(s)) \o w
               c == Len(s) - a
           IN  /\ SubSeq(s, a + 1, Len(s)) \in Seq(Byte)
               /\ stream \in Seq(Byte) /\ Len(stream) = c + Len(w)
               /\ \A i \in 1 .. c : stream[i] = s[a + i]
               /\ \A i \in 1 .. Len(w) : stream[c + i] = w[i]
<1> DEFINE c == Len(s) - a
           part == SubSeq(s, a + 1, Len(s))
           stream == part \o w
<1>1. Len(s) \in Nat /\ Len(w) \in Nat
  BY LenProperties
<1>2. c \in Nat /\ a + c = Len(s)
  BY <1>1
<1> HIDE DEF c
<1>3. /\ part \in Seq(Byte) /\ Len(part) = c
      /\ \A i \in 1 .. c : part[i] = s[a + i]
  <2>1. /\ SubSeq(s, a + 1, a + c) \in Seq(Byte)
        /\ Len(SubSeq(s, a + 1, a + c)) = c
        /\ \A i \in 1 .. c : SubSeq(s, a + 1, a + c)[i] = s[a + i]
    BY <1>2, PartOf
  <2> QED BY <1>2, <2>1
<1> HIDE DEF part
<1>4. /\ stream \in Seq(Byte)
      /\ Len(stream) = Len(part) + Len(w)
      /\ \A i \in 1 .. Len(part) + Len(w) :
           stream[i] = IF i <= Len(part) THEN part[i] ELSE w[i - Len(part)]
  BY <1>3, ConcatProperties
<1> HIDE DEF stream
<1>5. /\ Len(stream) = c + Len(w)
      /\ \A i \in 1 .. c + Len(w) : stream[i] = IF i <= c THEN part[i] ELSE w[i - c]
  BY ONLY <1>3, <1>4
<1>6. ASSUME NEW i \in 1 .. c
      PROVE  stream[i] = s[a + i]
  <2>1. i \in 1 .. c + Len(w) /\ i <= c
    BY <1>1, <1>2
  <2>2. stream[i] = part[i]
    BY ONLY <1>5, <2>1
  <2> QED BY <1>3, <2>2
<1>7. \A i \in 1 .. c + Len(w) : ~(i <= c) => stream[i] = w[i - c]
  BY ONLY <1>5
<1>8. ASSUME NEW i \in 1 .. Len(w)
      PROVE  stream[c + i] = w[i]
  <2> DEFINE q == c + i
  <2>1. q \in 1 .. c + Len(w) /\ ~(q <= c) /\ q - c = i
    BY <1>1, <1>2
  <2> HIDE DEF q
  <2>2. stream[q] = w[q - c]
    BY ONLY <1>7, <2>1
  <2>3. stream[q] = w[i]
    BY ONLY <2>1, <2>2
  <2> QED BY ONLY <2>3 DEF q
<1> QED BY <1>3, <1>4, <1>5, <1>6, <1>8 DEF stream, part, c

\* Reading m bytes further drops the first m bytes of the stream.
LEMMA StreamDrop ==
    ASSUME NEW s \in Seq(Byte), NEW w \in Seq(Byte), NEW a \in Nat, NEW m \in Nat,
           a + m <= Len(s)
    PROVE  LET stream == SubSeq(s, a + 1, Len(s)) \o w
           IN  SubSeq(s, a + m + 1, Len(s)) \o w = SubSeq(stream, m + 1, Len(stream))
<1> DEFINE stream == SubSeq(s, a + 1, Len(s)) \o w
           rest == SubSeq(s, a + m + 1, Len(s)) \o w
           c == Len(s) - a
           d == Len(s) - (a + m)
           dropped == SubSeq(stream, m + 1, Len(stream))
           e == d + Len(w)
<1>1. /\ Len(s) \in Nat /\ Len(w) \in Nat /\ c \in Nat /\ d \in Nat /\ c = m + d
      /\ e \in Nat /\ a + m \in Nat /\ a <= Len(s)
  <2>1. Len(s) \in Nat /\ Len(w) \in Nat
    BY LenProperties
  <2>2. c \in Nat /\ d \in Nat /\ c = m + d /\ a + m \in Nat /\ a <= Len(s)
    BY <2>1
  <2> HIDE DEF c, d
  <2> QED BY <2>1, <2>2
<1>2. /\ stream \in Seq(Byte) /\ Len(stream) = c + Len(w)
      /\ \A i \in 1 .. c : stream[i] = s[a + i]
      /\ \A i \in 1 .. Len(w) : stream[c + i] = w[i]
  <2>1. a \in Nat /\ a <= Len(s) /\ s \in Seq(Byte) /\ w \in Seq(Byte)
    BY <1>1
  <2> QED BY ONLY <2>1, StreamBytes
<1>3. /\ rest \in Seq(Byte) /\ Len(rest) = d + Len(w)
      /\ \A i \in 1 .. d : rest[i] = s[a + m + i]
      /\ \A i \in 1 .. Len(w) : rest[d + i] = w[i]
  <2>1. a + m \in Nat /\ a + m <= Len(s) /\ s \in Seq(Byte) /\ w \in Seq(Byte)
    BY <1>1
  <2> QED BY ONLY <2>1, StreamBytes
<1>4. e = d + Len(w)
  OBVIOUS
<1> HIDE DEF stream, rest, c, d, e
<1>5. m + e = Len(stream) /\ m + e <= Len(stream)
  BY <1>1, <1>2, <1>4
<1>6. /\ dropped \in Seq(Byte) /\ Len(dropped) = e
      /\ \A i \in 1 .. e : dropped[i] = stream[m + i]
  <2>1. /\ SubSeq(stream, m + 1, m + e) \in Seq(Byte)
        /\ Len(SubSeq(stream, m + 1, m + e)) = e
        /\ \A i \in 1 .. e : SubSeq(stream, m + 1, m + e)[i] = stream[m + i]
    <3>1. stream \in Seq(Byte) /\ e \in Nat /\ m + e <= Len(stream)
      BY <1>1, <1>2, <1>5
    <3> QED BY ONLY <3>1, m \in Nat, PartOf
  <2> QED BY <1>5, <2>1
<1> HIDE DEF dropped
<1>7. ASSUME NEW i \in 1 .. d
      PROVE  rest[i] = dropped[i]
  <2>1. /\ i \in 1 .. e /\ m + i \in 1 .. c
        /\ a + (m + i) = a + m + i
    BY <1>1, <1>4
  <2>2. dropped[i] = stream[m + i] /\ stream[m + i] = s[a + (m + i)]
    BY <1>2, <1>6, <2>1
  <2>3. s[a + (m + i)] = s[a + m + i]
    BY <2>1
  <2>4. rest[i] = s[a + m + i]
    BY <1>3
  <2> QED BY <2>2, <2>3, <2>4
<1>8. ASSUME NEW i \in 1 .. Len(w)
      PROVE  rest[d + i] = dropped[d + i]
  <2>1. d + i \in 1 .. e /\ m + (d + i) = c + i
    BY <1>1, <1>4
  <2>2. dropped[d + i] = stream[m + (d + i)]
    BY <1>6, <2>1
  <2>3. stream[m + (d + i)] = stream[c + i]
    BY <2>1
  <2>4. stream[c + i] = w[i] /\ rest[d + i] = w[i]
    BY <1>2, <1>3
  <2> QED BY <2>2, <2>3, <2>4
<1>9. ASSUME NEW i \in 1 .. e
      PROVE  rest[i] = dropped[i]
  <2>1. i \in 1 .. d \/ (i - d \in 1 .. Len(w) /\ i = d + (i - d))
    BY <1>1, <1>4
  <2> QED BY <1>7, <1>8, <2>1
<1>10. rest = dropped
  BY <1>3, <1>4, <1>6, <1>9, SeqEqual
<1> QED BY <1>10 DEF rest, dropped, stream

\* Concatenation of bytes is associative.
LEMMA ConcatBytes ==
    \A s, t, u \in Seq(Byte) : (s \o t) \o u = s \o (t \o u)
BY ConcatAssociative

\* The packets sent, as sequences of bytes.
LEMMA PacketsOfBytes ==
    ASSUME NEW sent \in Seq(BodySizes)
    PROVE  /\ PacketsOf(sent) \in Seq(Seq(Byte))
           /\ Len(PacketsOf(sent)) = Len(sent)
           /\ \A k \in 1 .. Len(sent) : PacketsOf(sent)[k] = Bytes(k, sent[k])
<1>1. Len(sent) \in Nat
  BY LenProperties
<1>2. \A k \in 1 .. Len(sent) : Bytes(k, sent[k]) \in Seq(Byte)
  <2>1. ASSUME NEW k \in 1 .. Len(sent) PROVE Bytes(k, sent[k]) \in Seq(Byte)
    <3>1. k \in Nat /\ sent[k] \in BodySizes
      BY <1>1, ElementOfSeq
    <3> QED BY <3>1, BytesProperties
  <2> QED BY <2>1
<1>3. PacketsOf(sent) \in [1 .. Len(sent) -> Seq(Byte)]
  BY <1>2 DEF PacketsOf
<1>4. PacketsOf(sent) \in Seq(Seq(Byte))
  BY <1>1, <1>3, SeqDef
<1>5. Len(PacketsOf(sent)) = Len(sent)
  <2>1. Len(PacketsOf(sent)) \in Nat /\ 1 .. Len(PacketsOf(sent)) = 1 .. Len(sent)
    BY <1>3, <1>4, LenProperties
  <2> QED BY <1>1, <2>1
<1> QED BY <1>4, <1>5 DEF PacketsOf

\* One more packet sent puts its bytes behind the stream.
LEMMA StreamSent ==
    ASSUME NEW sent \in Seq(BodySizes), NEW b \in BodySizes
    PROVE  FlattenSeq(PacketsOf(Append(sent, b)))
             = FlattenSeq(PacketsOf(sent)) \o Bytes(Len(sent) + 1, b)
<1> DEFINE n == Len(sent)
           long == Append(sent, b)
           more == Bytes(n + 1, b)
           before == PacketsOf(sent)
           after == PacketsOf(long)
<1>1. n \in Nat /\ n + 1 \in Nat /\ more \in Seq(Byte)
  <2>1. n \in Nat
    BY LenProperties
  <2> HIDE DEF n
  <2>2. PICK k \in Nat : k = n + 1
    BY <2>1
  <2>3. Bytes(k, b) \in Seq(Byte)
    BY BytesProperties
  <2> QED BY <2>1, <2>2, <2>3
<1>2. /\ long \in Seq(BodySizes) /\ Len(long) = n + 1 /\ long[n + 1] = b
      /\ \A k \in 1 .. n : long[k] = sent[k]
  BY AppendProperties
<1> HIDE DEF long
<1>3. /\ before \in Seq(Seq(Byte)) /\ Len(before) = n
      /\ \A k \in 1 .. n : before[k] = Bytes(k, sent[k])
  BY PacketsOfBytes
<1>4. /\ after \in Seq(Seq(Byte)) /\ Len(after) = n + 1
      /\ \A k \in 1 .. n + 1 : after[k] = Bytes(k, long[k])
  BY <1>2, PacketsOfBytes
<1> HIDE DEF n, more, before, after
<1>5. /\ Append(before, more) \in Seq(Seq(Byte))
      /\ Len(Append(before, more)) = n + 1 /\ Append(before, more)[n + 1] = more
      /\ \A k \in 1 .. n : Append(before, more)[k] = before[k]
  BY <1>1, <1>3, AppendProperties
<1>6. ASSUME NEW k \in 1 .. n + 1
      PROVE  after[k] = Append(before, more)[k]
  <2>1. after[k] = Bytes(k, long[k])
    BY <1>4
  <2>2. CASE k = n + 1
    BY <1>2, <1>5, <2>1, <2>2 DEF more
  <2>3. CASE k # n + 1
    <3>1. k \in 1 .. n
      BY <1>1, <2>3
    <3> QED BY <1>2, <1>3, <1>5, <2>1, <3>1
  <2> QED BY <2>2, <2>3
<1>7. after = Append(before, more)
  BY <1>4, <1>5, <1>6, SeqEqual
<1>8. FlattenSeq(Append(before, more)) = FlattenSeq(before) \o more
  BY <1>1, <1>3, FlattenAppend
<1> QED BY <1>7, <1>8 DEF after, before, more, long, n

-----------------------------------------------------------------------------
(* Inv, operation by operation.                                            *)

\* Nothing is unqueued when the buffer holds no rest and the wire is empty.
LEMMA NothingUnqueued ==
    ASSUME pc # "frame", PrevReadPosInRecvBuffer = 0, RemainingDataSize = 0, wire = << >>
    PROVE  Unqueued = << >>
<1>1. SubSeq(pRecvBuffer, 0 + 1, 0 + 0) = << >>
  BY SubSeqEmpty
<1>2. << >> \in Seq(Byte) /\ << >> \o << >> = << >>
  BY EmptySeq, ConcatEmptySeq
<1> QED BY <1>1, <1>2 DEF Unqueued, Held, Moved

\* On a new connection nothing is queued, left or sent.
LEMMA NothingSent == FlattenSeq(<< >>) \o << >> = FlattenSeq(PacketsOf(<< >>))
<1>1. << >> \in Seq(BodySizes) /\ << >> \in Seq(Byte) /\ Len(<< >>) = 0
  BY EmptySeq
<1>2. PacketsOf(<< >>) = << >>
  <2>1. PacketsOf(<< >>) \in Seq(Seq(Byte)) /\ Len(PacketsOf(<< >>)) = 0
    BY <1>1, PacketsOfBytes
  <2> QED BY <2>1, EmptySeq
<1>3. << >> \o << >> = << >>
  BY <1>1, ConcatEmptySeq
<1> QED BY <1>2, <1>3, FlattenEmpty

LEMMA InvInit == Init => Inv
<1> SUFFICES ASSUME Init PROVE Inv
  OBVIOUS
<1>1. /\ << >> \in Seq(BodySizes) /\ << >> \in Seq(Byte) /\ << >> \in Seq(Seq(Byte))
      /\ Len(<< >>) = 0
  BY EmptySeq
<1>2. TypeOK
  BY <1>1 DEF Init, TypeOK
<1>3. Positions /\ IncompleteRest /\ FramesExact
  BY <1>1, HeaderPositive DEF Init, Positions, IncompleteRest, FramesExact
<1>4. Unqueued = << >>
  <2>1. Init => Unqueued = << >>
    BY NothingUnqueued DEF Init
  <2> QED BY <2>1
<1>5. Uncut
  BY <1>1, <1>4 DEF Init, Uncut, Packets
<1>6. NoneLost
  BY <1>4, NothingSent DEF Init, NoneLost
<1> QED BY <1>2, <1>3, <1>5, <1>6 DEF Inv

\* What has not been queued.
LEMMA UnqueuedBytes ==
    ASSUME TypeOK, Positions
    PROVE  Held \in Seq(Byte) /\ Unqueued \in Seq(Byte)
<1>1. /\ PrevReadPosInRecvBuffer \in Nat /\ RemainingDataSize \in Nat /\ readPos \in Nat
      /\ wire \in Seq(Byte) /\ pRecvBuffer \in Seq(Byte) /\ Len(pRecvBuffer) \in Nat
  BY LenProperties DEF TypeOK
<1>2. CASE pc = "frame"
  <2>1. readPos <= Len(pRecvBuffer)
    BY <1>2 DEF Positions
  <2> QED BY <1>1, <1>2, <2>1, StreamBytes DEF Unqueued, Held
<1>3. CASE pc # "frame"
  <2>1. PrevReadPosInRecvBuffer + RemainingDataSize <= Len(pRecvBuffer)
    BY <1>3 DEF Positions
  <2>2. Moved \in Seq(Byte)
    BY <1>1, <2>1, PartOf DEF Moved
  <2> QED BY <1>1, <1>3, <2>2, ConcatProperties DEF Unqueued, Held
<1> QED BY <1>2, <1>3

\* Where the bytes of the packets that are being framed come from.
LEMMA FramedBytes ==
    ASSUME TypeOK, Positions, pc = "frame"
    PROVE  /\ Len(Unqueued) = Len(pRecvBuffer) - readPos + Len(wire)
           /\ \A i \in 1 .. Len(pRecvBuffer) - readPos :
                Unqueued[i] = pRecvBuffer[readPos + i]
<1>1. /\ readPos \in Nat /\ Len(pRecvBuffer) \in Nat /\ readPos <= Len(pRecvBuffer)
      /\ wire \in Seq(Byte) /\ Len(wire) \in Nat /\ pRecvBuffer \in Seq(Byte)
  BY LenProperties DEF TypeOK, Positions
<1> QED BY <1>1, StreamBytes DEF Unqueued, Held

\* The stream is cut up further without a byte being lost.
LEMMA SameStream ==
    ASSUME Uncut, NoneLost, pc # "closed", Unqueued' = Unqueued,
           UNCHANGED <<packetQue, sizes>>
    PROVE  Uncut' /\ NoneLost'
<1>1. FlattenSeq(packetQue)' = FlattenSeq(packetQue)
  OBVIOUS
<1>2. FlattenSeq(PacketsOf(sizes))' = FlattenSeq(PacketsOf(sizes))
  OBVIOUS
<1> QED BY <1>1, <1>2 DEF Uncut, NoneLost

LEMMA SendInv == ASSUME Inv, NEW b \in BodySizes, Send(b) PROVE Inv'
<1> DEFINE more == Bytes(Len(sizes) + 1, b)
<1>1. /\ pc # "closed" /\ sizes' = Append(sizes, b) /\ wire' = wire \o more
      /\ UNCHANGED <<pRecvBuffer, RemainingDataSize, PrevReadPosInRecvBuffer, readPos,
                     packetQue, pc>>
  BY DEF Send
<1>2. /\ sizes \in Seq(BodySizes) /\ wire \in Seq(Byte) /\ packetQue \in Seq(Seq(Byte))
      /\ Len(sizes) \in Nat /\ Len(packetQue) \in Nat
  BY LenProperties DEF Inv, TypeOK
<1>3. /\ sizes' \in Seq(BodySizes) /\ Len(sizes') = Len(sizes) + 1
      /\ \A k \in 1 .. Len(sizes) : sizes'[k] = sizes[k]
  BY <1>1, <1>2, AppendProperties
<1>4. more \in Seq(Byte)
  <2>1. Len(sizes) + 1 \in Nat
    BY <1>2
  <2> QED BY <2>1, BytesProperties
<1> HIDE DEF more
<1>5. TypeOK'
  BY <1>1, <1>2, <1>3, <1>4, ConcatProperties DEF Inv, TypeOK
<1>6. Positions' /\ IncompleteRest'
  BY <1>1 DEF Inv, Positions, IncompleteRest
<1>7. Unqueued' = Unqueued \o more
  <2> DEFINE part == Held
  <2>1. part \in Seq(Byte)
    BY UnqueuedBytes DEF Inv
  <2>2. Unqueued' = part \o (wire \o more) /\ Unqueued = part \o wire
    BY <1>1 DEF Unqueued, Held, Moved
  <2>3. part \o (wire \o more) = (part \o wire) \o more
    <3>1. wire \in Seq(Byte) /\ part \in Seq(Byte) /\ more \in Seq(Byte)
      BY <1>2, <1>4, <2>1
    <3> HIDE DEF part
    <3>2. (part \o wire) \o more = part \o (wire \o more)
      BY ONLY <3>1, ConcatBytes
    <3> QED BY <3>2
  <2> QED BY <2>2, <2>3
<1>8. Uncut'
  <2>1. Unqueued \in Seq(Byte)
    BY UnqueuedBytes DEF Inv
  <2>2. Packets(Unqueued \o more, Len(packetQue), Append(sizes, b))
    BY <1>1, <1>2, <2>1, PacketSent DEF Inv, Uncut, more
  <2> QED BY <1>1, <1>7, <2>2 DEF Uncut
<1>9. FramesExact'
  <2>1. Len(packetQue) <= Len(sizes)
    <3>1. CASE Unqueued = << >>
      BY <1>1, <1>2, <3>1 DEF Inv, Uncut, Packets
    <3>2. CASE Unqueued # << >>
      <4>1. Unqueued \in Seq(Byte) /\ Packets(Unqueued, Len(packetQue), sizes)
        BY <1>1, UnqueuedBytes DEF Inv, Uncut
      <4>2. Len(packetQue) + 1 \in 1 .. Len(sizes)
        BY ONLY <1>2, <3>2, <4>1, FirstPacket
      <4> QED BY <1>2, <4>2
    <3> QED BY <3>1, <3>2
  <2>2. \A k \in 1 .. Len(packetQue) : sizes'[k] = sizes[k]
    BY <1>2, <1>3, <2>1
  <2> QED BY <1>1, <2>2 DEF Inv, FramesExact, Bytes
<1>10. NoneLost'
  <2> DEFINE queued == FlattenSeq(packetQue)
             rest == Unqueued
             stream == FlattenSeq(PacketsOf(sizes))
  <2>1. queued \in Seq(Byte) /\ rest \in Seq(Byte)
    BY <1>2, FlattenType, UnqueuedBytes DEF Inv
  <2>2. queued \o rest = stream
    BY <1>1 DEF Inv, NoneLost
  <2>3. Unqueued' = rest \o more
    BY <1>7
  <2>4. FlattenSeq(PacketsOf(Append(sizes, b))) = stream \o more
    BY <1>2, StreamSent DEF more
  <2>5. (queued \o rest) \o more = queued \o (rest \o more)
    <3> HIDE DEF queued, rest
    <3> QED BY ONLY <1>4, <2>1, ConcatBytes
  <2>6. /\ FlattenSeq(packetQue)' = FlattenSeq(packetQue)
        /\ FlattenSeq(PacketsOf(sizes))' = FlattenSeq(PacketsOf(Append(sizes, b)))
    BY <1>1
  <2> QED BY <2>2, <2>3, <2>4, <2>5, <2>6 DEF NoneLost
<1> QED BY <1>5, <1>6, <1>8, <1>9, <1>10 DEF Inv

LEMMA RecvSocketInv ==
    ASSUME Inv, NEW n \in 0 .. 2 * MaxBodySize, RecvSocket(n) PROVE Inv'
<1> DEFINE taken == SubSeq(wire, 1, n)
           left == SubSeq(wire, n + 1, Len(wire))
<1>1. /\ pc = "recv" /\ pc' = "frame" /\ n <= Len(wire)
      /\ pRecvBuffer' = Moved \o taken /\ wire' = left
      /\ RemainingDataSize' = RemainingDataSize + n /\ readPos' = 0
      /\ UNCHANGED <<sizes, PrevReadPosInRecvBuffer, packetQue>>
  BY DEF RecvSocket, Recv
<1>2. /\ n \in Nat /\ wire \in Seq(Byte) /\ Len(wire) \in Nat
      /\ pRecvBuffer \in Seq(Byte) /\ Len(pRecvBuffer) \in Nat
      /\ RemainingDataSize \in Nat /\ PrevReadPosInRecvBuffer \in Nat
      /\ PrevReadPosInRecvBuffer + RemainingDataSize <= Len(pRecvBuffer)
  BY <1>1, LenProperties, HeaderPositive DEF Inv, TypeOK, Positions
<1>3. Moved \in Seq(Byte) /\ Len(Moved) = RemainingDataSize
  BY <1>2, PartOf DEF Moved
<1>4. taken \in Seq(Byte) /\ Len(taken) = n
  <2>1. 0 \in Nat /\ 0 + n <= Len(wire) /\ 0 + 1 = 1 /\ 0 + n = n
    BY <1>1, <1>2
  <2>2. /\ SubSeq(wire, 0 + 1, 0 + n) \in Seq(Byte)
        /\ Len(SubSeq(wire, 0 + 1, 0 + n)) = n
    BY <1>2, <2>1, PartOf
  <2> QED BY <2>1, <2>2
<1>5. left \in Seq(Byte) /\ taken \o left = wire
  <2>1. \A p \in n + 1 .. Len(wire) : wire[p] \in Byte
    BY <1>2, ElementOfSeq
  <2>2. left \in Seq(Byte)
    BY <1>2, <2>1, SubSeqProperties
  <2>3. 1 \in 1 .. Len(wire) + 1 /\ n \in 1 - 1 .. Len(wire) /\ Len(wire) \in n .. Len(wire)
    BY <1>1, <1>2
  <2>4. taken \o left = SubSeq(wire, 1, Len(wire))
    BY <1>2, <2>3, ConcatAdjacentSubSeq
  <2> QED BY <1>2, <2>2, <2>4, SubSeqFull
<1> HIDE DEF taken, left
<1>6. /\ pRecvBuffer' \in Seq(Byte) /\ Len(pRecvBuffer') = RemainingDataSize + n
  BY <1>1, <1>3, <1>4, ConcatProperties
<1>7. TypeOK'
  BY <1>1, <1>2, <1>5, <1>6 DEF Inv, TypeOK
<1>8. Positions' /\ IncompleteRest'
  BY <1>1, <1>2, <1>6 DEF Positions, IncompleteRest
<1>9. Unqueued' = Unqueued
  <2>1. Unqueued' = SubSeq(pRecvBuffer', 1, Len(pRecvBuffer')) \o left
    BY <1>1 DEF Unqueued, Held
  <2>2. SubSeq(pRecvBuffer', 1, Len(pRecvBuffer')) = pRecvBuffer'
    BY <1>6, SubSeqFull
  <2>3. (Moved \o taken) \o left = Moved \o (taken \o left)
    <3>1. Moved \in Seq(Byte) /\ taken \in Seq(Byte) /\ left \in Seq(Byte)
      BY <1>3, <1>4, <1>5
    <3> QED BY ONLY <3>1, ConcatBytes
  <2>4. Unqueued = Moved \o wire
    BY <1>1 DEF Unqueued, Held
  <2> QED BY <1>1, <1>5, <2>1, <2>2, <2>3, <2>4
<1>10. Uncut' /\ NoneLost' /\ FramesExact'
  BY <1>1, <1>9, SameStream DEF Inv, FramesExact, Bytes
<1> QED BY <1>7, <1>8, <1>10 DEF Inv

\* An overrun ends the model in the state it finds.
LEMMA RecvOverrunInv ==
    ASSUME Inv, NEW n \in 0 .. 2 * MaxBodySize, RecvOverrun(n) PROVE Inv'
<1>1. /\ pc = "recv" /\ pc' = "overrun"
      /\ UNCHANGED <<sizes, wire, pRecvBuffer, RemainingDataSize, PrevReadPosInRecvBuffer,
                     readPos, packetQue>>
  BY DEF RecvOverrun, Recv
<1>2. TypeOK'
  BY <1>1 DEF Inv, TypeOK
<1>3. Positions' /\ IncompleteRest'
  BY <1>1 DEF Inv, Positions, IncompleteRest
<1>4. Unqueued' = Unqueued
  BY <1>1 DEF Unqueued, Held, Moved
<1>5. Uncut' /\ NoneLost' /\ FramesExact'
  BY <1>1, <1>4, SameStream DEF Inv, FramesExact, Bytes
<1> QED BY <1>2, <1>3, <1>5 DEF Inv

\* The packet at readPos is the next one sent.
LEMMA NextIsFirst ==
    ASSUME TypeOK, Positions, Uncut, pc = "frame", HeaderArrived
    PROVE  /\ pRecvBuffer[readPos + 1] \in Byte /\ BodySize \in Nat
           /\ Unqueued # << >> /\ Unqueued[1].size = BodySize
<1>1. /\ Len(pRecvBuffer) = RemainingDataSize
      /\ readPos \in Nat /\ RemainingDataSize \in Nat /\ pRecvBuffer \in Seq(Byte)
      /\ Len(wire) \in Nat
  BY LenProperties DEF TypeOK, Positions
<1>2. RemainingDataSize - readPos >= HeaderSize
  BY DEF HeaderArrived, Rest
<1>3. readPos + 1 \in 1 .. Len(pRecvBuffer) /\ 1 \in 1 .. Len(pRecvBuffer) - readPos
  BY <1>1, <1>2, HeaderPositive
<1>4. pRecvBuffer[readPos + 1] \in Byte
  BY <1>1, <1>3, ElementOfSeq
<1>5. BodySize \in Nat
  BY <1>4, BodySizesNat DEF BodySize, Byte
<1>6. Unqueued[1] = pRecvBuffer[readPos + 1]
  BY <1>1, <1>3, FramedBytes
<1>7. Unqueued # << >>
  <2>1. Len(Unqueued) = RemainingDataSize - readPos + Len(wire)
    BY <1>1, FramedBytes
  <2>2. Len(Unqueued) # 0
    BY <1>1, <1>2, <2>1, HeaderPositive
  <2> QED BY <2>2, EmptySeq
<1> QED BY <1>4, <1>5, <1>6, <1>7 DEF BodySize

LEMMA FramePacketInv == ASSUME Inv, FramePacket PROVE Inv'
<1> DEFINE b == BodySize
           m == HeaderSize + BodySize
           k == Len(packetQue) + 1
           packet == SubSeq(pRecvBuffer, readPos + 1, readPos + HeaderSize + BodySize)
<1>1. /\ pc = "frame" /\ pc' = "frame" /\ HeaderArrived
      /\ b <= MaxBodySize /\ m <= RemainingDataSize - readPos
      /\ packetQue' = Append(packetQue, packet)
      /\ readPos' = readPos + HeaderSize + b
      /\ UNCHANGED <<sizes, wire, pRecvBuffer, RemainingDataSize, PrevReadPosInRecvBuffer>>
  BY DEF FramePacket, Arrived, Rest, NextPos
<1>2. /\ packetQue \in Seq(Seq(Byte)) /\ Len(packetQue) \in Nat /\ sizes \in Seq(BodySizes)
      /\ pRecvBuffer \in Seq(Byte) /\ wire \in Seq(Byte)
      /\ readPos \in Nat /\ RemainingDataSize \in Nat
      /\ Len(pRecvBuffer) = RemainingDataSize
  BY <1>1, LenProperties DEF Inv, TypeOK, Positions
<1>3. b \in Nat /\ Unqueued # << >> /\ Unqueued[1].size = b
  BY <1>1, NextIsFirst DEF Inv
<1> HIDE DEF b
<1>4. m \in Nat /\ m = HeaderSize + b /\ readPos + HeaderSize + b = readPos + m
      /\ readPos + m <= Len(pRecvBuffer)
  <2>1. m = HeaderSize + b
    BY DEF b
  <2> HIDE DEF m
  <2> QED BY <1>1, <1>2, <1>3, <2>1, HeaderPositive
<1>5. /\ k \in 1 .. Len(sizes) /\ b = sizes[k]
      /\ \A j \in 1 .. m : Unqueued[j] = [packet |-> k, place |-> j, size |-> b]
      /\ Packets(SubSeq(Unqueued, m + 1, Len(Unqueued)), k, sizes)
  <2>1. Unqueued \in Seq(Byte)
    BY UnqueuedBytes DEF Inv
  <2>2. HeaderSize + Unqueued[1].size = m
    BY <1>3, <1>4
  <2> HIDE DEF m
  <2> QED BY <1>1, <1>2, <1>3, <2>1, <2>2, FirstPacket DEF Inv, Uncut
<1>6. /\ packet = SubSeq(pRecvBuffer, readPos + 1, readPos + m)
      /\ readPos' = readPos + m
  BY <1>1, <1>4 DEF b
<1> HIDE DEF m, packet
<1>7. packet = Bytes(k, b)
  <2>1. /\ packet \in Seq(Byte) /\ Len(packet) = m
        /\ \A i \in 1 .. m : packet[i] = pRecvBuffer[readPos + i]
    <3>1. /\ pRecvBuffer \in Seq(Byte) /\ readPos \in Nat /\ m \in Nat
          /\ readPos + m <= Len(pRecvBuffer)
      BY <1>2, <1>4
    <3> QED BY <1>6, <3>1, PartOf
  <2>2. k \in Nat /\ b \in BodySizes
    BY <1>2, <1>5, ElementOfSeq
  <2>3. /\ Bytes(k, b) \in Seq(Byte) /\ Len(Bytes(k, b)) = m
        /\ \A j \in 1 .. m : Bytes(k, b)[j] = [packet |-> k, place |-> j, size |-> b]
    BY <1>4, <2>2, BytesProperties
  <2>4. \A i \in 1 .. m : Unqueued[i] = pRecvBuffer[readPos + i]
    <3>1. \A i \in 1 .. m : i \in 1 .. Len(pRecvBuffer) - readPos
      BY <1>2, <1>4
    <3> QED BY <1>1, <1>2, <3>1, FramedBytes DEF Inv
  <2>5. \A i \in 1 .. m : packet[i] = Bytes(k, b)[i]
    BY <1>5, <2>1, <2>3, <2>4
  <2> QED BY <2>1, <2>3, <2>5, SeqEqual
<1>8. /\ packetQue' \in Seq(Seq(Byte)) /\ Len(packetQue') = k
      /\ \A j \in 1 .. Len(packetQue) : packetQue'[j] = packetQue[j]
      /\ packetQue'[k] = Bytes(k, b)
  <2>1. packet \in Seq(Byte)
    <3>1. k \in Nat /\ b \in BodySizes
      BY <1>2, <1>5, ElementOfSeq
    <3>2. Bytes(k, b) \in Seq(Byte)
      BY <3>1, BytesProperties
    <3> QED BY <1>7, <3>2
  <2>2. /\ Append(packetQue, packet) \in Seq(Seq(Byte))
        /\ Len(Append(packetQue, packet)) = k
        /\ \A j \in 1 .. Len(packetQue) : Append(packetQue, packet)[j] = packetQue[j]
        /\ Append(packetQue, packet)[k] = packet
    BY <1>2, <2>1, AppendProperties
  <2>3. packetQue' = Append(packetQue, packet)
    BY <1>1
  <2> HIDE DEF k
  <2> QED BY ONLY <1>7, <2>2, <2>3
<1>9. TypeOK'
  <2>1. readPos' \in Nat
    BY <1>2, <1>4, <1>6
  <2> QED BY <1>1, <1>8, <2>1 DEF Inv, TypeOK
<1>10. Positions' /\ IncompleteRest'
  BY <1>1, <1>2, <1>4, <1>6 DEF Positions, IncompleteRest
<1>11. Unqueued' = SubSeq(Unqueued, m + 1, Len(Unqueued))
  <2>1. Unqueued' = SubSeq(pRecvBuffer, readPos + m + 1, Len(pRecvBuffer)) \o wire
    BY <1>1, <1>6 DEF Unqueued, Held
  <2>2. Unqueued = SubSeq(pRecvBuffer, readPos + 1, Len(pRecvBuffer)) \o wire
    BY <1>1 DEF Unqueued, Held
  <2>3. SubSeq(pRecvBuffer, readPos + m + 1, Len(pRecvBuffer)) \o wire
          = SubSeq(Unqueued, m + 1, Len(Unqueued))
    <3>1. /\ pRecvBuffer \in Seq(Byte) /\ wire \in Seq(Byte) /\ readPos \in Nat /\ m \in Nat
          /\ readPos + m <= Len(pRecvBuffer)
      BY <1>2, <1>4
    <3>2. SubSeq(pRecvBuffer, readPos + m + 1, Len(pRecvBuffer)) \o wire
            = LET stream == SubSeq(pRecvBuffer, readPos + 1, Len(pRecvBuffer)) \o wire
              IN  SubSeq(stream, m + 1, Len(stream))
      BY ONLY <3>1, StreamDrop
    <3> QED BY <2>2, <3>2
  <2> QED BY <2>1, <2>3
<1>12. Uncut'
  BY <1>1, <1>5, <1>8, <1>11 DEF Uncut
<1>13. FramesExact'
  <2>1. \A j \in 1 .. k : j \in 1 .. Len(packetQue) \/ j = k
    BY <1>2
  <2>2. ASSUME NEW j \in 1 .. k
        PROVE  sizes[j] <= MaxBodySize /\ packetQue'[j] = Bytes(j, sizes[j])
    <3>1. CASE j \in 1 .. Len(packetQue)
      BY <1>8, <3>1 DEF Inv, FramesExact
    <3>2. CASE j = k
      BY <1>1, <1>5, <1>8, <3>2
    <3> QED BY <2>1, <3>1, <3>2
  <2> HIDE DEF k
  <2> QED BY <1>1, <1>8, <2>2 DEF FramesExact, Bytes
<1>14. Unqueued = packet \o Unqueued'
  <2> DEFINE rest == Unqueued
             first == SubSeq(rest, 1, m)
  <2>1. rest \in Seq(Byte) /\ Len(rest) \in Nat /\ m <= Len(rest)
    <3>1. rest \in Seq(Byte) /\ Len(wire) \in Nat
      BY <1>2, UnqueuedBytes, LenProperties DEF Inv
    <3>2. Len(rest) = Len(pRecvBuffer) - readPos + Len(wire)
      BY <1>1, FramedBytes DEF Inv
    <3> HIDE DEF rest
    <3> QED BY <1>2, <1>4, <3>1, <3>2
  <2>2. \A j \in 1 .. m : rest[j] = [packet |-> k, place |-> j, size |-> b]
    BY <1>5
  <2>3. Unqueued' = SubSeq(rest, m + 1, Len(rest))
    BY <1>11
  <2> HIDE DEF rest
  <2>4. first \in Seq(Byte) /\ Len(first) = m /\ \A i \in 1 .. m : first[i] = rest[i]
    <3>1. 0 \in Nat /\ 0 + m <= Len(rest) /\ 0 + 1 = 1 /\ 0 + m = m
          /\ \A i \in 1 .. m : 0 + i = i
      BY <1>4, <2>1
    <3>2. /\ SubSeq(rest, 0 + 1, 0 + m) \in Seq(Byte)
          /\ Len(SubSeq(rest, 0 + 1, 0 + m)) = m
          /\ \A i \in 1 .. m : SubSeq(rest, 0 + 1, 0 + m)[i] = rest[0 + i]
      BY <1>4, <2>1, <3>1, PartOf
    <3> QED BY <3>1, <3>2
  <2>5. packet = first
    <3>1. k \in Nat /\ b \in BodySizes
      BY <1>2, <1>5, ElementOfSeq
    <3>2. /\ packet \in Seq(Byte) /\ Len(packet) = m
          /\ \A j \in 1 .. m : packet[j] = [packet |-> k, place |-> j, size |-> b]
      BY <1>4, <1>7, <3>1, BytesProperties
    <3> HIDE DEF first
    <3>3. \A j \in 1 .. m : packet[j] = first[j]
      BY <2>2, <2>4, <3>2
    <3> QED BY <2>4, <3>2, <3>3, SeqEqual
  <2>6. first \o SubSeq(rest, m + 1, Len(rest)) = rest
    <3>1. 1 \in 1 .. Len(rest) + 1 /\ m \in 1 - 1 .. Len(rest) /\ Len(rest) \in m .. Len(rest)
      BY <1>4, <2>1
    <3>2. first \o SubSeq(rest, m + 1, Len(rest)) = SubSeq(rest, 1, Len(rest))
      BY <2>1, <3>1, ConcatAdjacentSubSeq
    <3> QED BY <2>1, <3>2, SubSeqFull
  <2> HIDE DEF first
  <2>7. rest = packet \o Unqueued'
    BY <2>3, <2>5, <2>6
  <2> QED BY <2>7 DEF rest
<1>15. NoneLost'
  <2>1. PICK queued, rest, left :
          queued = FlattenSeq(packetQue) /\ rest = Unqueued /\ left = Unqueued'
    OBVIOUS
  <2>2. packet \in Seq(Byte)
    <3>1. k \in Nat /\ b \in BodySizes
      BY <1>2, <1>5, ElementOfSeq
    <3> QED BY <1>7, <3>1, BytesProperties
  <2>3. queued \in Seq(Byte) /\ left \in Seq(Byte)
    <3>1. Unqueued' \in Seq(Byte)
      <4>1. (TypeOK /\ Positions => Unqueued \in Seq(Byte))'
        BY UnqueuedBytes, PTL
      <4> QED BY <1>9, <1>10, <4>1
    <3> QED BY <1>2, <2>1, <3>1, FlattenType
  <2>4. FlattenSeq(packetQue)' = queued \o packet
    <3>1. FlattenSeq(Append(packetQue, packet)) = FlattenSeq(packetQue) \o packet
      BY <1>2, <2>2, FlattenAppend
    <3> QED BY <1>1, <2>1, <3>1
  <2>5. (queued \o packet) \o left = queued \o rest
    <3>1. (queued \o packet) \o left = queued \o (packet \o left)
      BY ONLY <2>2, <2>3, ConcatBytes
    <3> QED BY <1>14, <2>1, <3>1
  <2>6. queued \o rest = FlattenSeq(PacketsOf(sizes))
    BY <1>1, <2>1 DEF Inv, NoneLost
  <2>7. FlattenSeq(PacketsOf(sizes))' = FlattenSeq(PacketsOf(sizes))
    BY <1>1
  <2> QED BY <2>1, <2>4, <2>5, <2>6, <2>7 DEF NoneLost
<1> QED BY <1>9, <1>10, <1>12, <1>13, <1>15 DEF Inv

LEMMA CloseSessionInv == ASSUME Inv, CloseSession PROVE Inv'
<1>1. /\ pc' = "closed" /\ wire' = << >> /\ readPos' = 0
      /\ RemainingDataSize' = 0 /\ PrevReadPosInRecvBuffer' = 0
      /\ UNCHANGED <<sizes, pRecvBuffer, packetQue>>
  BY DEF CloseSession, Clear, RemainingCleared
<1>2. << >> \in Seq(Byte) /\ pRecvBuffer \in Seq(Byte) /\ Len(pRecvBuffer) \in Nat
  BY EmptySeq, LenProperties DEF Inv, TypeOK
<1>3. TypeOK'
  BY <1>1, <1>2 DEF Inv, TypeOK
<1>4. Positions' /\ IncompleteRest' /\ Uncut' /\ NoneLost'
  BY <1>1, <1>2 DEF Positions, IncompleteRest, Uncut, NoneLost
<1>5. FramesExact'
  BY <1>1 DEF Inv, FramesExact, Bytes
<1> QED BY <1>3, <1>4, <1>5 DEF Inv

\* The next connection of the index begins with nothing unqueued, whatever
\* the buffer holds.
LEMMA ConnectedSessionInv == ASSUME Inv, ConnectedSession PROVE Inv'
<1>1. /\ pc = "closed" /\ pc' = "recv" /\ sizes' = << >> /\ packetQue' = << >>
      /\ UNCHANGED <<wire, pRecvBuffer, RemainingDataSize, PrevReadPosInRecvBuffer, readPos>>
  BY DEF ConnectedSession
<1>2. wire = << >> /\ PrevReadPosInRecvBuffer = 0 /\ RemainingDataSize = 0
  BY <1>1 DEF Inv, Positions
<1>3. << >> \in Seq(BodySizes) /\ << >> \in Seq(Seq(Byte)) /\ Len(<< >>) = 0
  BY EmptySeq
<1>4. TypeOK'
  BY <1>1, <1>3 DEF Inv, TypeOK
<1>5. Positions' /\ IncompleteRest'
  BY <1>1, <1>2, HeaderPositive DEF Inv, Positions, IncompleteRest
<1>6. Unqueued' = << >>
  <2>1. Unqueued = << >> /\ Unqueued' = Unqueued
    BY <1>1, <1>2, NothingUnqueued DEF Unqueued, Held, Moved
  <2> QED BY <2>1
<1>7. Uncut'
  BY <1>1, <1>3, <1>6 DEF Uncut, Packets
<1>8. FramesExact'
  BY <1>1, <1>3 DEF FramesExact
<1>9. NoneLost'
  BY <1>1, <1>6, NothingSent DEF NoneLost
<1> QED BY <1>4, <1>5, <1>7, <1>8, <1>9 DEF Inv

LEMMA FrameRestInv == ASSUME Inv, FrameRest PROVE Inv'
<1>1. /\ pc = "frame" /\ pc' = "recv" /\ ~Arrived
      /\ RemainingDataSize' = RemainingDataSize - readPos
      /\ PrevReadPosInRecvBuffer' = RemainingDataSize - (RemainingDataSize - readPos)
      /\ UNCHANGED <<sizes, wire, pRecvBuffer, readPos, packetQue>>
  BY DEF FrameRest, Left, Rest
<1>2. /\ RemainingDataSize \in Nat /\ readPos \in Nat /\ readPos <= RemainingDataSize
      /\ Len(pRecvBuffer) = RemainingDataSize
  BY <1>1 DEF Inv, TypeOK, Positions
<1>3. PrevReadPosInRecvBuffer' = readPos /\ RemainingDataSize' \in Nat
      /\ Len(pRecvBuffer) = readPos + RemainingDataSize'
  BY <1>1, <1>2
<1>4. TypeOK' /\ Positions'
  BY <1>1, <1>2, <1>3 DEF Inv, TypeOK, Positions
<1>5. IncompleteRest'
  <2>1. CASE HeaderArrived
    <3>1. ~(HeaderSize + BodySize <= RemainingDataSize')
      BY <1>1, <2>1 DEF Arrived, Rest
    <3>2. BodySize \in Nat
      BY <1>1, <2>1, NextIsFirst DEF Inv
    <3>3. BodySize = (pRecvBuffer[PrevReadPosInRecvBuffer + 1].size)'
      BY <1>1, <1>3 DEF BodySize
    <3>4. RemainingDataSize' < HeaderSize + BodySize
      BY <1>3, <3>1, <3>2, HeaderPositive
    <3> QED BY <3>3, <3>4 DEF IncompleteRest
  <2>2. CASE ~HeaderArrived
    <3>1. RemainingDataSize' < HeaderSize
      BY <1>1, <1>3, <2>2, HeaderPositive DEF HeaderArrived, Rest
    <3> QED BY <3>1 DEF IncompleteRest
  <2> QED BY <2>1, <2>2
<1>6. Unqueued' = Unqueued
  <2>1. Moved' = SubSeq(pRecvBuffer, readPos + 1, Len(pRecvBuffer))
    BY <1>1, <1>3 DEF Moved
  <2> QED BY <1>1, <2>1 DEF Unqueued, Held
<1>7. Uncut' /\ NoneLost' /\ FramesExact'
  BY <1>1, <1>6, SameStream DEF Inv, FramesExact, Bytes
<1> QED BY <1>4, <1>5, <1>7 DEF Inv

LEMMA InvNext == Inv /\ [Next]_vars => Inv'
<1> SUFFICES ASSUME Inv, [Next]_vars PROVE Inv'
  OBVIOUS
<1>1. CASE \E b \in BodySizes : Send(b)
  BY <1>1, SendInv
<1>2. CASE \E n \in 0 .. 2 * MaxBodySize : RecvSocket(n)
  BY <1>2, RecvSocketInv
<1>9. CASE \E n \in 0 .. 2 * MaxBodySize : RecvOverrun(n)
  BY <1>9, RecvOverrunInv
<1>3. CASE FramePacket
  BY <1>3, FramePacketInv
<1>4. CASE FrameTooLarge
  BY <1>4, CloseSessionInv DEF FrameTooLarge
<1>5. CASE FrameRest
  BY <1>5, FrameRestInv
<1>6. CASE SessionLost
  BY <1>6, CloseSessionInv DEF SessionLost
<1>7. CASE ConnectedSession
  BY <1>7, ConnectedSessionInv
<1>8. CASE UNCHANGED vars \/ Overrun
  <2>1. TypeOK' /\ Positions' /\ IncompleteRest' /\ FramesExact'
    BY <1>8 DEF Overrun, vars, Inv, TypeOK, Positions, IncompleteRest, FramesExact, Bytes
  <2>2. Unqueued' = Unqueued
    BY <1>8 DEF Overrun, vars, Unqueued, Held, Moved
  <2>3. UNCHANGED <<pc, packetQue, sizes>>
    BY <1>8 DEF Overrun, vars
  <2>4. CASE pc # "closed"
    BY <2>1, <2>2, <2>3, <2>4, SameStream DEF Inv
  <2>5. CASE pc = "closed"
    BY <2>1, <2>3, <2>5 DEF Inv, Uncut, NoneLost
  <2> QED BY <2>4, <2>5
<1> QED BY <1>1, <1>2, <1>3, <1>4, <1>5, <1>6, <1>7, <1>8, <1>9 DEF Next

LEMMA InvCorrect == Spec => []Inv
BY InvInit, InvNext, PTL DEF Spec

-----------------------------------------------------------------------------
(* The theorems.                                                           *)

\* The buffer, the wire and the queue hold bytes, and RemainingDataSize and
\* the read positions never become negative.
THEOREM TypeCorrect == Spec => []TypeOK
<1>1. Inv => TypeOK
  BY DEF Inv
<1> QED BY <1>1, InvCorrect, PTL

\* What waits for the next recv is the beginning of the first packet that is
\* not queued, and less than all of it.
LEMMA RestOfNext ==
    ASSUME Inv, pc = "recv", HeaderSize <= RemainingDataSize
    PROVE  /\ sizes[Len(packetQue) + 1] \in Nat
           /\ RemainingDataSize < HeaderSize + sizes[Len(packetQue) + 1]
<1> DEFINE first == pRecvBuffer[PrevReadPosInRecvBuffer + 1]
<1>1. /\ RemainingDataSize \in Nat /\ PrevReadPosInRecvBuffer \in Nat
      /\ pRecvBuffer \in Seq(Byte) /\ Len(pRecvBuffer) \in Nat
      /\ PrevReadPosInRecvBuffer + RemainingDataSize <= Len(pRecvBuffer)
      /\ wire \in Seq(Byte) /\ Len(wire) \in Nat
      /\ sizes \in Seq(BodySizes) /\ packetQue \in Seq(Seq(Byte)) /\ Len(packetQue) \in Nat
  BY LenProperties DEF Inv, TypeOK, Positions
<1>2. 1 \in 1 .. RemainingDataSize /\ PrevReadPosInRecvBuffer + 1 \in 1 .. Len(pRecvBuffer)
  BY <1>1, HeaderPositive
<1>3. first \in Byte
  BY <1>1, <1>2, ElementOfSeq
<1>4. first.size \in Nat
  BY <1>3, BodySizesNat DEF Byte
<1>5. Moved \in Seq(Byte) /\ Len(Moved) = RemainingDataSize /\ Moved[1] = first
  BY <1>1, <1>2, PartOf DEF Moved
<1>6. Unqueued = Moved \o wire
  BY DEF Unqueued, Held
<1>7. /\ Unqueued \in Seq(Byte) /\ Len(Unqueued) = RemainingDataSize + Len(wire)
      /\ Unqueued[1] = Moved[1]
  <2>1. PICK m, w : m = Moved /\ w = wire
    OBVIOUS
  <2>2. m \in Seq(Byte) /\ w \in Seq(Byte) /\ Len(m) = RemainingDataSize /\ 1 \in 1 .. Len(m)
    BY <1>1, <1>2, <1>5, <2>1
  <2>3. m \o w \in Seq(Byte) /\ Len(m \o w) = Len(m) + Len(w) /\ (m \o w)[1] = m[1]
    <3>1. 1 \in 1 .. Len(m) + Len(w) /\ 1 <= Len(m)
      BY <2>2, LenProperties
    <3> QED BY <2>2, <3>1, ConcatProperties
  <2> QED BY <1>1, <1>6, <2>1, <2>2, <2>3
<1>8. Unqueued # << >>
  <2>1. Len(Unqueued) # 0
    BY <1>1, <1>2, <1>7
  <2> QED BY <2>1, EmptySeq
<1>9. Packets(Unqueued, Len(packetQue), sizes)
  BY DEF Inv, Uncut
<1>10. Unqueued[1].size = sizes[Len(packetQue) + 1]
  BY ONLY <1>1, <1>7, <1>8, <1>9, FirstPacket
<1>11. sizes[Len(packetQue) + 1] = first.size
  BY <1>5, <1>7, <1>10
<1>12. RemainingDataSize < HeaderSize + first.size
  <2>1. ~(RemainingDataSize < HeaderSize)
    BY <1>1, HeaderPositive
  <2> QED BY <2>1 DEF Inv, IncompleteRest
<1> HIDE DEF first
<1> QED BY <1>4, <1>11, <1>12

\* recv writes behind the end of the receive buffer only while it waits for a
\* packet that announces a body too large for it: what the bytes before the
\* packet were, how they were cut up and what an earlier connection left
\* behind do not matter.
THEOREM BufferFitsCorrect == Spec => []BufferFits
<1>1. Init => BufferFits
  BY DEF Init, BufferFits
<1>2. Inv /\ BufferFits /\ [Next]_vars => BufferFits'
  <2> SUFFICES ASSUME Inv, BufferFits, [Next]_vars, pc' = "overrun"
               PROVE  (HeaderSize + sizes[Len(packetQue) + 1] - 1
                         + 2 * MaxBodySize > BufferSize)'
    BY DEF BufferFits
  <2>1. CASE \E n \in 0 .. 2 * MaxBodySize : RecvOverrun(n)
    <3>1. PICK n \in 0 .. 2 * MaxBodySize : RecvOverrun(n)
      BY <2>1
    <3>2. /\ pc = "recv" /\ RemainingDataSize + n > BufferSize
          /\ UNCHANGED <<sizes, packetQue>>
      BY <3>1 DEF RecvOverrun, Recv
    <3>3. /\ RemainingDataSize \in Nat /\ BufferSize \in Nat /\ n \in Nat
          /\ n <= 2 * MaxBodySize
      BY BufferAssumption, HeaderPositive DEF Inv, TypeOK
    <3>4. HeaderSize <= RemainingDataSize
      BY <3>2, <3>3, HeaderPositive, FitsAssumption
    <3>5. PICK b : b = sizes[Len(packetQue) + 1]
      OBVIOUS
    <3>6. b \in Nat /\ RemainingDataSize < HeaderSize + b
      BY <3>2, <3>4, <3>5, RestOfNext
    <3>7. HeaderSize + b - 1 + 2 * MaxBodySize > BufferSize
      BY <3>2, <3>3, <3>6, HeaderPositive
    <3> QED BY <3>2, <3>5, <3>7
  <2>2. CASE UNCHANGED vars \/ Overrun
    BY <2>2 DEF BufferFits, Overrun, vars
  <2>3. CASE \E b \in BodySizes : Send(b)
    BY <2>3 DEF Send
  <2>4. CASE \E n \in 0 .. 2 * MaxBodySize : RecvSocket(n)
    BY <2>4 DEF RecvSocket
  <2>5. CASE FramePacket \/ FrameTooLarge \/ FrameRest \/ SessionLost \/ ConnectedSession
    BY <2>5 DEF FramePacket, FrameTooLarge, FrameRest, SessionLost, CloseSession,
                ConnectedSession
  <2> QED BY <2>1, <2>2, <2>3, <2>4, <2>5 DEF Next
<1> QED BY <1>1, <1>2, InvInit, InvNext, PTL DEF Spec

\* A packet never waits in the receive buffer for bytes of the next one.
THEOREM NothingHeldBackCorrect == Spec => []NothingHeldBack
<1>1. Inv => NothingHeldBack
  <2> SUFFICES ASSUME Inv, pc = "recv", RemainingDataSize > 0
               PROVE  RemainingDataSize < HeaderSize
                                          + pRecvBuffer[PrevReadPosInRecvBuffer + 1].size
    BY DEF NothingHeldBack
  <2> DEFINE b == pRecvBuffer[PrevReadPosInRecvBuffer + 1].size
  <2>1. /\ RemainingDataSize \in Nat /\ PrevReadPosInRecvBuffer \in Nat
        /\ pRecvBuffer \in Seq(Byte) /\ Len(pRecvBuffer) \in Nat
        /\ PrevReadPosInRecvBuffer + RemainingDataSize <= Len(pRecvBuffer)
    BY LenProperties DEF Inv, TypeOK, Positions
  <2>2. PrevReadPosInRecvBuffer + 1 \in 1 .. Len(pRecvBuffer)
    BY <2>1
  <2>3. pRecvBuffer[PrevReadPosInRecvBuffer + 1] \in Byte
    BY <2>1, <2>2, ElementOfSeq
  <2>4. b \in Nat
    BY <2>3, BodySizesNat DEF Byte
  <2>5. RemainingDataSize < HeaderSize \/ RemainingDataSize < HeaderSize + b
    BY DEF Inv, IncompleteRest
  <2> HIDE DEF b
  <2>6. RemainingDataSize < HeaderSize + b
    BY <2>1, <2>4, <2>5, HeaderPositive
  <2> QED BY <2>6 DEF b
<1> QED BY <1>1, InvCorrect, PTL

\* The packets queued are the packets sent, whole and in order, for any
\* sizes of header and body and any way in which recv cuts the stream up.
THEOREM FramesExactCorrect == Spec => []FramesExact
<1>1. Inv => FramesExact
  BY DEF Inv
<1> QED BY <1>1, InvCorrect, PTL

\* No byte is lost or doubled between two recvs: the packets queued, what is
\* left of the next one in the buffer and what is still on the wire are, one
\* behind the other, all that was sent on the connection.
THEOREM StreamKeptCorrect == Spec => []StreamKept
<1>1. Inv => StreamKept
  <2> SUFFICES ASSUME Inv, pc = "recv"
               PROVE  (FlattenSeq(packetQue) \o Moved) \o wire = FlattenSeq(PacketsOf(sizes))
    BY DEF StreamKept, Moved, PacketsOf
  <2> DEFINE queued == FlattenSeq(packetQue)
             rest == Moved
  <2>1. queued \in Seq(Byte) /\ rest \in Seq(Byte) /\ wire \in Seq(Byte)
    <3>1. queued \in Seq(Byte) /\ wire \in Seq(Byte)
      BY FlattenType DEF Inv, TypeOK
    <3>2. Held = Moved
      BY DEF Held
    <3> QED BY <3>1, <3>2, UnqueuedBytes DEF Inv
  <2>2. queued \o (rest \o wire) = FlattenSeq(PacketsOf(sizes))
    BY DEF Inv, NoneLost, Unqueued, Held
  <2> HIDE DEF queued, rest
  <2>3. (queued \o rest) \o wire = queued \o (rest \o wire)
    BY ONLY <2>1, ConcatBytes
  <2>4. (queued \o rest) \o wire = FlattenSeq(PacketsOf(sizes))
    BY <2>2, <2>3
  <2> QED BY <2>4 DEF queued, rest
<1> QED BY <1>1, InvCorrect, PTL
=============================================================================
