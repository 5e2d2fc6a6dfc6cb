-------------------------- MODULE TCPNetWork_proofs --------------------------
(***************************************************************************)
(* Theorems about TCPNetWork for every size of the pool and the buffers,   *)
(* every number of sockets and every MaxSeq.                               *)
(*                                                                         *)
(*   PoolMatches  what the pool's fields say about each other              *)
(*   QueueInv     what the packet queue says about pool and logic          *)
(*                                                                         *)
(* With the types, PoolMatches is inductive by itself; QueueInv is         *)
(* inductive relative to it.                                               *)
(*                                                                         *)
(*   Polls        which sockets select has reported                        *)
(*   Reuse        how an index passes from one connection to the next      *)
(*                                                                         *)
(* Both are inductive relative to these, Reuse as long as every drain has  *)
(* emptied the queue: on a poll only connections that the logic has heard  *)
(* of are touched (ConnectsUnpolled), so an index is closed only after its *)
(* CONNECT was handled, and the logic is at most one connection behind     *)
(* (KnownIsRecent).  A drain that a client's packet with the ID 0 ends in  *)
(* front of queued packets breaks Reuse; the next one that empties the     *)
(* queue restores it (Kept), but for messages sent in between.             *)
(***************************************************************************)
EXTENDS TCPNetWork, PoolDeque, SequenceTheorems, FiniteSetTheorems, TLAPS

\* A session has a sequence number exactly while it has a socket.
SeqMatches == \A i \in Index : SessionSeq[i] # 0 <=> IsConnected(i)

PoolMatches == PoolPartition /\ ReadFdsMatch /\ CountMatches /\ SeqMatches

-----------------------------------------------------------------------------
(* PoolMatches, operation by operation.                                    *)

LEMMA PartitionHolds == PoolPartition <=> Holds(clientSessionPoolIndex, Index \ Connected, Index)
BY DEF PoolPartition, Holds, Connected

LEMMA PartitionHoldsNext ==
    PoolPartition' <=> Holds(clientSessionPoolIndex', Index \ Connected', Index)
BY DEF PoolPartition, Holds, Connected

LEMMA ConnectedFinite == IsFiniteSet(Connected) /\ Cardinality(Connected) \in Nat
<1>1. 0 \in Int /\ PoolSize - 1 \in Int
  BY SizesAssumption
<1>2. IsFiniteSet(Index)
  BY <1>1, FS_Interval DEF Index
<1> QED BY <1>2, FS_Subset, FS_CardinalityType DEF Connected

\* The pool's fields, all that PoolMatches is about, and their types.
PoolFields == <<SocketFD, SessionSeq, clientSessionPoolIndex, ReadFds, connectedSessionCount>>
PoolTypes ==
    /\ SocketFD \in [Index -> Sockets \cup {NoSocket}]
    /\ SessionSeq \in [Index -> Nat]
    /\ clientSessionPoolIndex \in Seq(Index)
    /\ ReadFds \subseteq Sockets
    /\ connectedSessionCount \in Nat

\* Accepting a connection on a handle that no session has.
LEMMA ConnectedSessionPool ==
    ASSUME PoolTypes, PoolMatches, connectSeq \in Nat,
           clientSessionPoolIndex # << >>,
           NEW fd \in Sockets \ {SocketFD[i] : i \in Connected},
           ConnectedSession(fd)
    PROVE  PoolTypes' /\ PoolMatches'
<1> DEFINE i == Head(clientSessionPoolIndex)
<1>1. /\ i \in Index /\ ~IsConnected(i)
      /\ clientSessionPoolIndex' \in Seq(Index)
      /\ Holds(clientSessionPoolIndex', (Index \ Connected) \ {i}, Index)
  <2>1. Holds(clientSessionPoolIndex, Index \ Connected, Index)
    BY PartitionHolds DEF PoolMatches
  <2>2. i \in Index \ Connected
    BY <2>1, TailHolds DEF PoolTypes
  <2>3. /\ clientSessionPoolIndex' \in Seq(Index)
        /\ Holds(clientSessionPoolIndex', (Index \ Connected) \ {i}, Index)
    BY <2>1, TailHolds DEF PoolTypes, ConnectedSession, Popped
  <2> QED BY <2>2, <2>3 DEF Connected
<1>2. /\ SocketFD' = [SocketFD EXCEPT ![i] = fd]
      /\ SessionSeq' = [SessionSeq EXCEPT ![i] = connectSeq + 1]
      /\ ReadFds' = ReadFds \cup {fd}
      /\ connectedSessionCount' = connectedSessionCount + 1
  BY DEF ConnectedSession, CountedIn
<1> HIDE DEF i
<1>3. PoolTypes'
  BY <1>1, <1>2 DEF PoolTypes
<1>4. \A j \in Index : IsConnected(j)' <=> j = i \/ IsConnected(j)
  BY <1>1, <1>2, SocketsAssumption DEF IsConnected, PoolTypes
<1>5. Connected' = Connected \cup {i} /\ i \notin Connected
  BY <1>1, <1>4 DEF Connected
<1>6. PoolPartition'
  <2>1. (Index \ Connected) \ {i} = Index \ Connected'
    BY <1>5
  <2> QED BY <1>1, <2>1, PartitionHoldsNext
<1>7. ReadFdsMatch'
  <2>1. \A j \in Connected : j # i /\ SocketFD'[j] = SocketFD[j] /\ SocketFD[j] # fd
    BY <1>2, <1>5 DEF PoolTypes, Connected
  <2>2. SocketFD'[i] = fd
    BY <1>1, <1>2 DEF PoolTypes
  <2>3. {SocketFD'[j] : j \in Connected'} = {SocketFD[j] : j \in Connected} \cup {fd}
    BY <1>5, <2>1, <2>2
  <2>4. \A j, k \in Connected' : SocketFD'[j] = SocketFD'[k] => j = k
    BY <1>5, <2>1, <2>2 DEF PoolMatches, ReadFdsMatch
  <2> QED BY <1>2, <2>3, <2>4 DEF PoolMatches, ReadFdsMatch
<1>8. CountMatches'
  BY <1>2, <1>5, ConnectedFinite, FS_AddElement DEF PoolMatches, CountMatches
<1>9. SeqMatches'
  BY <1>1, <1>2, <1>4 DEF PoolMatches, SeqMatches, PoolTypes
<1> QED BY <1>3, <1>6, <1>7, <1>8, <1>9 DEF PoolMatches

\* Closing a connected session, with whatever queue was there before.
LEMMA CloseSessionPool ==
    ASSUME PoolTypes, PoolMatches, NEW i \in Index, IsConnected(i),
           NEW que, CloseSession(i, que)
    PROVE  PoolTypes' /\ PoolMatches'
<1>1. /\ SocketFD' = [SocketFD EXCEPT ![i] = NoSocket]
      /\ SessionSeq' = [SessionSeq EXCEPT ![i] = 0]
      /\ ReadFds' = ReadFds \ {SocketFD[i]}
      /\ connectedSessionCount' = connectedSessionCount - 1
      /\ clientSessionPoolIndex' = Append(clientSessionPoolIndex, i)
  BY DEF CloseSession, FdCleared, CountedOut
<1>2. \A j \in Index : IsConnected(j)' <=> j # i /\ IsConnected(j)
  BY <1>1, SocketsAssumption DEF IsConnected, PoolTypes
<1>3. Connected' = Connected \ {i} /\ i \in Connected
  BY <1>2 DEF Connected
<1>4. /\ clientSessionPoolIndex' \in Seq(Index)
      /\ Holds(clientSessionPoolIndex', (Index \ Connected) \cup {i}, Index)
  <2>1. Holds(clientSessionPoolIndex, Index \ Connected, Index)
    BY PartitionHolds DEF PoolMatches
  <2>2. i \notin Index \ Connected /\ clientSessionPoolIndex \in Seq(Index)
    BY <1>3 DEF PoolTypes
  <2>3. /\ Append(clientSessionPoolIndex, i) \in Seq(Index)
        /\ Holds(Append(clientSessionPoolIndex, i), (Index \ Connected) \cup {i}, Index)
    BY <2>1, <2>2, AppendHolds
  <2> QED BY <1>1, <2>3
<1>5. PoolPartition'
  <2>1. (Index \ Connected) \cup {i} = Index \ Connected'
    BY <1>3 DEF Connected
  <2> QED BY <1>4, <2>1, PartitionHoldsNext
<1>6. ReadFdsMatch'
  <2>1. \A j \in Connected' : /\ j \in Connected /\ SocketFD'[j] = SocketFD[j]
                              /\ SocketFD[j] # SocketFD[i]
    BY <1>1, <1>3 DEF PoolTypes, PoolMatches, ReadFdsMatch, Connected
  <2>2. {SocketFD'[j] : j \in Connected'} = {SocketFD[j] : j \in Connected} \ {SocketFD[i]}
    BY <1>3, <2>1
  <2> QED BY <1>1, <2>1, <2>2 DEF PoolMatches, ReadFdsMatch
<1>7. CountMatches' /\ connectedSessionCount' \in Nat
  <2>1. Cardinality(Connected \ {i}) = Cardinality(Connected) - 1
        /\ Cardinality(Connected \ {i}) \in Nat
    BY <1>3, ConnectedFinite, FS_RemoveElement, FS_CardinalityType
  <2> QED BY <1>1, <1>3, <2>1 DEF PoolMatches, CountMatches
<1>8. SeqMatches'
  BY <1>1, <1>2 DEF PoolMatches, SeqMatches, PoolTypes
<1>9. PoolTypes'
  BY <1>1, <1>4, <1>7 DEF PoolTypes
<1> QED BY <1>5, <1>6, <1>7, <1>8, <1>9 DEF PoolMatches

\* A step that leaves the pool's fields alone.
LEMMA SamePool ==
    ASSUME PoolTypes, PoolMatches, UNCHANGED PoolFields
    PROVE  PoolTypes' /\ PoolMatches'
BY DEF PoolFields, PoolTypes, PoolMatches, PoolPartition, ReadFdsMatch, CountMatches,
       SeqMatches, Connected, IsConnected

-----------------------------------------------------------------------------
(* Lemmas about bracketed queues.                                          *)

LEMMA EventFields ==
    ASSUME NEW que \in Seq(Event)
    PROVE  /\ Len(que) \in Nat
           /\ \A p \in 1 .. Len(que) : que[p] \in Event /\ que[p].SessionIndex \in Index
<1>1. Len(que) \in Nat /\ \A p \in 1 .. Len(que) : que[p] \in Event
  BY ElementOfSeq, LenProperties
<1>2. \A e \in Event : e.SessionIndex \in Index
  BY DEF Event
<1> QED BY <1>1, <1>2

\* Events of one session, each starting where the one before it ended and the
\* first where the queue had left the session, may be put behind the queue.
LEMMA BracketedExtend ==
    ASSUME NEW que \in Seq(Event), NEW more \in Seq(Event), more # << >>,
           NEW before \in [Index -> Nat], NEW after \in [Index -> Nat],
           Bracketed(que, before, after),
           NEW i \in Index,
           \A a \in 1 .. Len(more) : more[a].SessionIndex = i,
           Before(more[1]) = after[i],
           \A a \in 1 .. Len(more) - 1 : After(more[a]) = Before(more[a + 1])
    PROVE  Bracketed(que \o more, before, [after EXCEPT ![i] = After(more[Len(more)])])
<1> DEFINE long == que \o more
           n == Len(que)
           m == Len(more)
           end == [after EXCEPT ![i] = After(more[m])]
<1>1. /\ n \in Nat /\ m \in Nat \ {0} /\ Len(long) = n + m
      /\ \A p \in 1 .. n : long[p] = que[p]
      /\ \A a \in 1 .. m : long[n + a] = more[a]
  <2>1. n \in Nat /\ m \in Nat \ {0}
    BY EmptySeq, LenProperties
  <2>2. /\ Len(long) = n + m
        /\ \A p \in 1 .. n + m : long[p] = IF p <= n THEN que[p] ELSE more[p - n]
    BY ConcatProperties
  <2> HIDE DEF long, n, m
  <2> QED BY <2>1, <2>2
<1>2. \A p \in 1 .. n + m : p \in 1 .. n \/ \E a \in 1 .. m : p = n + a
  <2>1. \A p \in 1 .. n + m : p \in 1 .. n \/ (p - n \in 1 .. m /\ p = n + (p - n))
    BY <1>1
  <2> QED BY <2>1
<1>3. \A p \in 1 .. n : que[p].SessionIndex \in Index
  BY EventFields
<1>pos. /\ n = Len(que) /\ m = Len(more)
      /\ \A a \in 1 .. m : long[n + a].SessionIndex = i /\ n + a \in 1 .. Len(long)
      /\ 1 \in 1 .. m /\ m \in 1 .. m
      /\ long[n + 1] = more[1] /\ long[n + m] = more[m]
  BY <1>1
<1>num. n \in Nat /\ m \in Nat /\ Len(long) = n + m
  BY <1>1
<1> HIDE DEF long, n, m
<1>4. ASSUME NEW p \in 1 .. n + m, NEW q \in 1 .. n + m, Adjacent(long, p, q)
      PROVE  After(long[p]) = Before(long[q])
  <2>1. CASE q \in 1 .. n
    <3>1. p \in 1 .. n /\ Adjacent(que, p, q)
      BY <1>pos, <1>1, <1>4, <2>1 DEF Adjacent
    <3> QED BY <1>pos, <1>1, <2>1, <3>1 DEF Bracketed
  <2>2. CASE p \in 1 .. n /\ \E a \in 1 .. m : q = n + a
    <3>1. que[p].SessionIndex = i
      BY <1>pos, <1>1, <1>4, <2>2 DEF Adjacent
    <3>2. q = n + 1
      <4>1. n + 1 \in 1 .. Len(long) /\ long[n + 1].SessionIndex = i
        BY <1>pos, <1>1
      <4>2. p < n + 1 /\ n + 1 <= q /\ long[p].SessionIndex = i
        BY <1>1, <2>2, <3>1
      <4>3. ~(n + 1 < q)
        BY <1>4, <4>1, <4>2 DEF Adjacent
      <4> QED BY <1>num, <4>2, <4>3
    <3>3. Last(que, p)
      BY <1>pos, <1>1, <1>4, <2>2, <3>2 DEF Adjacent, Last
    <3>4. after[i] = After(que[p])
      BY <1>pos, <2>2, <3>1, <3>3 DEF Bracketed
    <3>5. long[p] = que[p]
      BY <1>1, <2>2
    <3>6. long[q] = more[1]
      BY <1>pos, <3>2
    <3> QED BY <3>4, <3>5, <3>6
  <2>3. CASE \E a \in 1 .. m : p = n + a
    <3>1. PICK a \in 1 .. m : p = n + a
      BY <2>3
    <3>2. q = n + a + 1 /\ a + 1 \in 1 .. m
      <4>1. p < q
        BY <1>4 DEF Adjacent
      <4>2. /\ a + 1 \in 1 .. m /\ n + (a + 1) \in 1 .. Len(long)
            /\ n + (a + 1) = p + 1 /\ p < p + 1 /\ p + 1 <= q
        BY <1>num, <3>1, <4>1
      <4>3. long[p + 1].SessionIndex = i /\ long[p].SessionIndex = i
        BY <1>pos, <3>1, <4>2
      <4>4. ~(p + 1 < q)
        BY <1>4, <4>2, <4>3 DEF Adjacent
      <4>5. q = p + 1
        BY <1>num, <4>2, <4>4
      <4> QED BY <1>num, <3>1, <4>2, <4>5
    <3>3. long[p] = more[a] /\ long[q] = more[a + 1]
      <4>1. q = n + (a + 1)
        BY <1>num, <3>2
      <4> QED BY <1>1, <3>1, <3>2, <4>1
    <3>4. a \in 1 .. Len(more) - 1
      BY <1>pos, <1>1, <3>2
    <3> QED BY <3>3, <3>4
  <2> QED BY <1>2, <2>1, <2>2, <2>3
<1>5. ASSUME NEW p \in 1 .. n + m, First(long, p)
      PROVE  before[long[p].SessionIndex] = Before(long[p])
  <2>1. CASE p \in 1 .. n
    <3>1. ASSUME NEW r \in 1 .. Len(que), r < p
          PROVE  que[r].SessionIndex # que[p].SessionIndex
      <4>1. r \in 1 .. Len(long) /\ long[r] = que[r] /\ long[p] = que[p]
        BY <1>pos, <1>1, <2>1
      <4> QED BY <1>5, <3>1, <4>1 DEF First
    <3>2. First(que, p)
      BY <3>1 DEF First
    <3> QED BY <1>pos, <1>1, <2>1, <3>2 DEF Bracketed
  <2>2. CASE \E a \in 1 .. m : p = n + a
    <3>1. p = n + 1 /\ long[p] = more[1] /\ long[p].SessionIndex = i
      <4>1. n + 1 \in 1 .. Len(long) /\ long[n + 1] = more[1]
            /\ long[n + 1].SessionIndex = i /\ long[p].SessionIndex = i
        BY <1>pos, <1>1, <2>2
      <4>2. n + 1 <= p /\ p \in Int
        BY <1>1, <2>2
      <4>3. ~(n + 1 < p)
        BY <1>5, <4>1 DEF First
      <4>4. p = n + 1
        BY <1>1, <4>2, <4>3
      <4> QED BY <4>1, <4>4
    <3>2. \A r \in 1 .. n : que[r].SessionIndex # i
      BY <1>1, <1>5, <3>1 DEF First
    <3>3. before[i] = after[i]
      BY <1>pos, <3>2 DEF Bracketed
    <3> QED BY <3>1, <3>3
  <2> QED BY <1>2, <2>1, <2>2
<1>6. ASSUME NEW p \in 1 .. n + m, Last(long, p)
      PROVE  end[long[p].SessionIndex] = After(long[p])
  <2>1. n + m \in 1 .. Len(long) /\ m \in 1 .. m /\ long[n + m] = more[m]
        /\ long[n + m].SessionIndex = i
    BY <1>pos, <1>1
  <2>2. CASE p \in 1 .. n
    <3>1. p < n + m /\ long[p] = que[p]
      BY <1>1, <2>2
    <3>2. que[p].SessionIndex # i /\ que[p].SessionIndex \in Index
      BY <1>3, <1>6, <2>1, <2>2, <3>1 DEF Last
    <3>3. Last(que, p)
      BY <1>pos, <1>1, <1>6, <2>2 DEF Last
    <3>4. after[que[p].SessionIndex] = After(que[p])
      BY <1>pos, <2>2, <3>3 DEF Bracketed
    <3> QED BY <3>1, <3>2, <3>4
  <2>3. CASE \E a \in 1 .. m : p = n + a
    <3>1. long[p].SessionIndex = i /\ p <= n + m
      BY <1>pos, <1>1, <2>3
    <3>2. ~(n + m > p)
      BY <1>6, <2>1, <3>1 DEF Last
    <3>3. p = n + m
      BY <1>1, <3>1, <3>2
    <3> QED BY <2>1, <3>3
  <2> QED BY <1>2, <2>2, <2>3
<1>7. ASSUME NEW j \in Index, \A p \in 1 .. n + m : long[p].SessionIndex # j
      PROVE  before[j] = end[j]
  <2>1. j # i
    <3>1. n + 1 \in 1 .. n + m /\ long[n + 1].SessionIndex = i
      BY <1>pos, <1>1
    <3> QED BY <1>7, <3>1
  <2>2. \A p \in 1 .. n : que[p].SessionIndex # j
    BY <1>1, <1>7
  <2>3. before[j] = after[j]
    BY <1>pos, <2>2 DEF Bracketed
  <2> QED BY <2>1, <2>3
<1> QED BY <1>1, <1>4, <1>5, <1>6, <1>7 DEF Bracketed, long, m

\* The first event starts from what the logic knows of its session; when the
\* logic has taken over what the event leaves behind, the rest is bracketed.
LEMMA BracketedTail ==
    ASSUME NEW que \in Seq(Event), que # << >>,
           NEW before \in [Index -> Nat], NEW after \in [Index -> Nat],
           Bracketed(que, before, after)
    PROVE  /\ before[Head(que).SessionIndex] = Before(Head(que))
           /\ Bracketed(Tail(que),
                        [before EXCEPT ![Head(que).SessionIndex] = After(Head(que))], after)
<1> DEFINE rest == Tail(que)
           i == que[1].SessionIndex
           start == [before EXCEPT ![i] = After(que[1])]
<1>1. /\ Head(que) = que[1]
      /\ Len(que) \in Nat \ {0} /\ Len(rest) = Len(que) - 1
      /\ \A p \in 1 .. Len(rest) : rest[p] = que[p + 1] /\ p + 1 \in 1 .. Len(que)
      /\ \A p \in 1 .. Len(que) : p = 1 \/ (p - 1 \in 1 .. Len(rest) /\ rest[p - 1] = que[p])
  <2>1. Len(que) \in Nat \ {0} /\ Len(rest) = Len(que) - 1 /\ Head(que) = que[1]
    BY HeadTailProperties, EmptySeq
  <2>2. \A p \in 1 .. Len(rest) : rest[p] = que[p + 1]
    BY HeadTailProperties
  <2> HIDE DEF rest
  <2>3. \A p \in 1 .. Len(que) : p = 1 \/ (p - 1 \in 1 .. Len(rest) /\ (p - 1) + 1 = p)
    BY <2>1
  <2> QED BY <2>1, <2>2, <2>3
<1>2. 1 \in 1 .. Len(que) /\ i \in Index
  BY <1>1, EventFields
<1> HIDE DEF rest
<1>3. before[i] = Before(que[1])
  <2>1. First(que, 1)
    BY <1>1 DEF First
  <2> QED BY <1>2, <2>1 DEF Bracketed
<1>4. ASSUME NEW p \in 1 .. Len(rest), NEW q \in 1 .. Len(rest), Adjacent(rest, p, q)
      PROVE  After(rest[p]) = Before(rest[q])
  <2>1. ASSUME NEW r \in 1 .. Len(que), p + 1 < r, r < q + 1
        PROVE  que[r].SessionIndex # que[p + 1].SessionIndex
    <3>1. r - 1 \in 1 .. Len(rest) /\ p < r - 1 /\ r - 1 < q /\ rest[r - 1] = que[r]
      BY <1>1, <2>1
    <3> QED BY <1>1, <1>4, <3>1 DEF Adjacent
  <2>2. Adjacent(que, p + 1, q + 1)
    BY <1>1, <1>4, <2>1 DEF Adjacent
  <2> QED BY <1>1, <2>2 DEF Bracketed
<1>5. ASSUME NEW p \in 1 .. Len(rest), First(rest, p)
      PROVE  start[rest[p].SessionIndex] = Before(rest[p])
  <2>1. ASSUME NEW r \in 1 .. Len(que), 1 < r, r < p + 1
        PROVE  que[r].SessionIndex # que[p + 1].SessionIndex
    <3>1. r - 1 \in 1 .. Len(rest) /\ r - 1 < p /\ rest[r - 1] = que[r]
      BY <1>1, <2>1
    <3> QED BY <1>1, <1>5, <3>1 DEF First
  <2>2. p + 1 \in 1 .. Len(que) /\ rest[p] = que[p + 1] /\ rest[p].SessionIndex \in Index
    BY <1>1, EventFields
  <2>3. CASE rest[p].SessionIndex = i
    <3>1. Adjacent(que, 1, p + 1)
      BY <1>1, <2>1, <2>2, <2>3 DEF Adjacent
    <3>2. After(que[1]) = Before(que[p + 1])
      BY <1>2, <2>2, <3>1 DEF Bracketed
    <3> QED BY <1>2, <2>2, <2>3, <3>2
  <2>4. CASE rest[p].SessionIndex # i
    <3>1. First(que, p + 1)
      BY <1>1, <2>1, <2>2, <2>4 DEF First
    <3>2. before[que[p + 1].SessionIndex] = Before(que[p + 1])
      BY <2>2, <3>1 DEF Bracketed
    <3> QED BY <2>2, <2>4, <3>2
  <2> QED BY <2>3, <2>4
<1>6. ASSUME NEW p \in 1 .. Len(rest), Last(rest, p)
      PROVE  after[rest[p].SessionIndex] = After(rest[p])
  <2>1. ASSUME NEW r \in 1 .. Len(que), r > p + 1
        PROVE  que[r].SessionIndex # que[p + 1].SessionIndex
    <3>1. r - 1 \in 1 .. Len(rest) /\ r - 1 > p /\ rest[r - 1] = que[r]
      BY <1>1, <2>1
    <3> QED BY <1>1, <1>6, <3>1 DEF Last
  <2>2. Last(que, p + 1)
    BY <2>1 DEF Last
  <2> QED BY <1>1, <2>2 DEF Bracketed
<1>7. ASSUME NEW j \in Index, \A p \in 1 .. Len(rest) : rest[p].SessionIndex # j
      PROVE  start[j] = after[j]
  <2>1. ASSUME NEW r \in 1 .. Len(que), r # 1
        PROVE  que[r].SessionIndex # j
    BY <1>1, <1>7, <2>1
  <2>2. CASE j = i
    <3>1. Last(que, 1)
      BY <1>1, <2>1, <2>2 DEF Last
    <3>2. after[i] = After(que[1])
      BY <1>2, <3>1 DEF Bracketed
    <3> QED BY <1>2, <2>2, <3>2
  <2>3. CASE j # i
    <3>1. \A r \in 1 .. Len(que) : que[r].SessionIndex # j
      BY <2>1, <2>3
    <3>2. before[j] = after[j]
      BY <3>1 DEF Bracketed
    <3> QED BY <2>3, <3>2
  <2> QED BY <2>2, <2>3
<1> QED BY <1>1, <1>3, <1>4, <1>5, <1>6, <1>7 DEF Bracketed, rest

-----------------------------------------------------------------------------
(* The invariant of the queue, and what each way to change it does.        *)

\* The CONNECTs of a queue carry ascending numbers, all above low (the last
\* one that the logic has heard of) and none above high (the last one given).
ConnectsAscend(que, low, high) ==
    /\ low <= high
    /\ \A p \in 1 .. Len(que) : que[p].PacketId = "CONNECT" =>
         /\ low < que[p].seq /\ que[p].seq <= high
         /\ \A r \in 1 .. Len(que) : que[r].PacketId = "CONNECT" /\ r < p =>
              que[r].seq < que[p].seq

\* From the end of a drain that emptied the queue to the next select, only
\* StateCheck appends, and nothing is accepted on the indices whose
\* connections it closes.
OnlyCloses ==
    pc \in {"check", "select"} /\ drained # "cut" =>
        \A p \in 1 .. Len(packetQue) :
            packetQue[p].PacketId = "CLOSE" /\ ~IsConnected(packetQue[p].SessionIndex)

QueueInv ==
    /\ EventsBracketed
    /\ ConnectsAscend(packetQue, latest, connectSeq)
    /\ OnlyCloses

Inv == TypeOK /\ PoolMatches /\ QueueInv

\* The types of what PoolTypes leaves out.
OtherTypes ==
    /\ SendBuffer \in [Index -> Seq(Nat)]
    /\ connectSeq \in Nat
    /\ packetQue \in Seq(Event)
    /\ announced \in [Index -> Nat] /\ latest \in Nat
    /\ prior \in [Index -> Nat]
    /\ drained \in {"always", "again", "cut"}
    /\ pc \in {"select", "accept", "poll", "drain", "check", "stopped"}
    /\ cursor \in 0 .. PoolSize
    /\ tryCount \in 0 .. AcceptMax
    /\ polled \subseteq Sockets
    /\ packetInfo \in [SessionIndex : Index, PacketId : PacketIds \cup {"NONE"}, seq : Nat]
    /\ m_IsRun \in BOOLEAN

LEMMA TypesSplit == TypeOK <=> PoolTypes /\ OtherTypes
BY DEF TypeOK, PoolTypes, OtherTypes

LEMMA TypesSplitNext == TypeOK' <=> PoolTypes' /\ OtherTypes'
BY DEF TypeOK, PoolTypes, OtherTypes

\* Events that are not CONNECTs may be put behind such a queue.
LEMMA AscendExtend ==
    ASSUME NEW que \in Seq(Event), NEW more \in Seq(Event),
           NEW low \in Nat, NEW high \in Nat, ConnectsAscend(que, low, high),
           \A a \in 1 .. Len(more) : more[a].PacketId # "CONNECT"
    PROVE  ConnectsAscend(que \o more, low, high)
<1> DEFINE long == que \o more
<1>1. /\ Len(que) \in Nat /\ Len(more) \in Nat
      /\ Len(long) = Len(que) + Len(more)
      /\ \A p \in 1 .. Len(long) :
           long[p] = IF p <= Len(que) THEN que[p] ELSE more[p - Len(que)]
  BY ConcatProperties, LenProperties
<1> HIDE DEF long
<1>2. \A p \in 1 .. Len(long) : long[p].PacketId = "CONNECT" =>
        p \in 1 .. Len(que) /\ long[p] = que[p]
  <2>1. ASSUME NEW p \in 1 .. Len(long), ~(p <= Len(que))
        PROVE  long[p].PacketId # "CONNECT"
    <3>1. p - Len(que) \in 1 .. Len(more) /\ long[p] = more[p - Len(que)]
      BY <1>1, <2>1
    <3> QED BY <3>1
  <2> QED BY <1>1, <2>1
<1> QED BY <1>1, <1>2 DEF ConnectsAscend, long

\* What recv can complete is a sequence of the packets that clients send.
LEMMA ReceivableSeq == Receivable \subseteq Seq(ClientIds)
<1> SUFFICES ASSUME NEW ids \in Receivable PROVE ids \in Seq(ClientIds)
  OBVIOUS
<1>1. CASE ids = << >>
  BY <1>1
<1>2. CASE ids # << >>
  <2>1. PICK k \in {n \in 1 .. RecvMax : Len(packetQue) + n <= MaxQueue} :
          ids \in [1 .. k -> ClientIds]
    BY <1>2 DEF Receivable
  <2>2. k \in Nat
    BY <2>1, SizesAssumption
  <2> QED BY <2>1, <2>2, SeqDef
<1> QED BY <1>1, <1>2

\* The events of packets of a connected session.
LEMMA ReceivedEvents ==
    ASSUME TypeOK, SeqMatches, NEW i \in Index, IsConnected(i), NEW ids \in Seq(ClientIds)
    PROVE  \E more \in Seq(Event) :
             /\ Received(i, ids) = packetQue \o more
             /\ \A a \in 1 .. Len(more) :
                  /\ more[a].SessionIndex = i /\ more[a].seq = SessionSeq[i]
                  /\ more[a].PacketId \in ClientIds
                  /\ Before(more[a]) = SessionSeq[i] /\ After(more[a]) = SessionSeq[i]
<1> DEFINE k == Len(ids)
           more == [n \in 1 .. Len(ids) |-> RecvPacketInfo(i, ids[n], SessionSeq[i])]
<1>1. SessionSeq[i] \in Nat \ {0}
  BY DEF TypeOK, SeqMatches
<1>2. k \in Nat /\ \A n \in 1 .. k : ids[n] \in ClientIds
  BY LenProperties, ElementOfSeq
<1>3. ASSUME NEW id \in ClientIds
      PROVE  /\ RecvPacketInfo(i, id, SessionSeq[i]) \in Event
             /\ Before(RecvPacketInfo(i, id, SessionSeq[i])) = SessionSeq[i]
             /\ After(RecvPacketInfo(i, id, SessionSeq[i])) = SessionSeq[i]
  BY <1>1 DEF Event, RecvPacketInfo, PacketIds, ClientIds, Before, After
<1>4. \A n \in 1 .. k : more[n] = RecvPacketInfo(i, ids[n], SessionSeq[i])
  OBVIOUS
<1>5. \A n \in 1 .. k : more[n] \in Event
  BY <1>2, <1>3
<1>6. more \in Seq(Event) /\ Len(more) = k
  BY <1>2, <1>5
<1>7. Received(i, ids) = packetQue \o more
  BY DEF Received
<1> HIDE DEF more, k
<1>8. \A a \in 1 .. Len(more) :
        /\ more[a].SessionIndex = i /\ more[a].seq = SessionSeq[i]
        /\ more[a].PacketId \in ClientIds
        /\ Before(more[a]) = SessionSeq[i] /\ After(more[a]) = SessionSeq[i]
  <2> SUFFICES ASSUME NEW a \in 1 .. k
               PROVE  /\ more[a].SessionIndex = i /\ more[a].seq = SessionSeq[i]
                      /\ more[a].PacketId \in ClientIds
                      /\ Before(more[a]) = SessionSeq[i] /\ After(more[a]) = SessionSeq[i]
    BY <1>6
  <2>1. more[a] = RecvPacketInfo(i, ids[a], SessionSeq[i]) /\ ids[a] \in ClientIds
    BY <1>2, <1>4
  <2>2. /\ more[a].SessionIndex = i /\ more[a].seq = SessionSeq[i]
        /\ more[a].PacketId = ids[a]
    BY <2>1 DEF RecvPacketInfo
  <2> QED BY <1>3, <2>1, <2>2
<1> QED BY <1>6, <1>7, <1>8

\* Packets of a connected session, as recv leaves them in the queue.
LEMMA ReceivedQueue ==
    ASSUME TypeOK, SeqMatches, EventsBracketed,
           ConnectsAscend(packetQue, latest, connectSeq),
           NEW i \in Index, IsConnected(i), NEW ids \in Seq(ClientIds)
    PROVE  /\ Received(i, ids) \in Seq(Event)
           /\ Bracketed(Received(i, ids), announced, SessionSeq)
           /\ ConnectsAscend(Received(i, ids), latest, connectSeq)
<1>1. /\ packetQue \in Seq(Event) /\ latest \in Nat /\ connectSeq \in Nat
      /\ announced \in [Index -> Nat] /\ SessionSeq \in [Index -> Nat]
  BY DEF TypeOK
<1>2. PICK more \in Seq(Event) :
        /\ Received(i, ids) = packetQue \o more
        /\ \A a \in 1 .. Len(more) :
             /\ more[a].SessionIndex = i /\ more[a].seq = SessionSeq[i]
             /\ more[a].PacketId \in ClientIds
             /\ Before(more[a]) = SessionSeq[i] /\ After(more[a]) = SessionSeq[i]
  BY ReceivedEvents
<1>3. Received(i, ids) \in Seq(Event)
  BY <1>1, <1>2, ConcatProperties
<1>4. ConnectsAscend(Received(i, ids), latest, connectSeq)
  <2>1. \A a \in 1 .. Len(more) : more[a].PacketId # "CONNECT"
    BY <1>2 DEF ClientIds
  <2> QED BY <1>1, <1>2, <2>1, AscendExtend
<1>5. Bracketed(Received(i, ids), announced, SessionSeq)
  <2>1. CASE more = << >>
    <3>1. Received(i, ids) = packetQue
      BY <1>1, <1>2, <2>1, ConcatEmptySeq
    <3> QED BY <3>1 DEF EventsBracketed
  <2>2. CASE more # << >>
    <3>1. /\ Len(more) \in Nat \ {0} /\ 1 \in 1 .. Len(more) /\ Len(more) \in 1 .. Len(more)
          /\ \A a \in 1 .. Len(more) - 1 : a \in 1 .. Len(more) /\ a + 1 \in 1 .. Len(more)
      BY <2>2, LenProperties, EmptySeq
    <3>2. /\ Before(more[1]) = SessionSeq[i]
          /\ \A a \in 1 .. Len(more) - 1 : After(more[a]) = Before(more[a + 1])
          /\ After(more[Len(more)]) = SessionSeq[i]
      BY <1>2, <3>1
    <3>3. Bracketed(packetQue \o more, announced,
                    [SessionSeq EXCEPT ![i] = After(more[Len(more)])])
      BY <1>1, <1>2, <2>2, <3>2, BracketedExtend DEF EventsBracketed
    <3>4. [SessionSeq EXCEPT ![i] = After(more[Len(more)])] = SessionSeq
      BY <1>1, <3>2
    <3> QED BY <1>2, <3>3, <3>4
  <2> QED BY <2>1, <2>2
<1> QED BY <1>3, <1>4, <1>5

\* The CLOSE that CloseSession appends to such a queue.
LEMMA ClosedQueue ==
    ASSUME TypeOK, SeqMatches, NEW i \in Index, IsConnected(i),
           NEW que \in Seq(Event), Bracketed(que, announced, SessionSeq),
           ConnectsAscend(que, latest, connectSeq), CloseSession(i, que)
    PROVE  /\ packetQue' \in Seq(Event)
           /\ packetQue' = Append(que, RecvPacketInfo(i, "CLOSE", SessionSeq[i]))
           /\ Bracketed(packetQue', announced, SessionSeq')
           /\ ConnectsAscend(packetQue', latest, connectSeq)
<1> DEFINE e == RecvPacketInfo(i, "CLOSE", SessionSeq[i])
<1>1. /\ latest \in Nat /\ connectSeq \in Nat
      /\ announced \in [Index -> Nat] /\ SessionSeq \in [Index -> Nat]
  BY DEF TypeOK
<1>2. SessionSeq[i] \in Nat \ {0}
  BY <1>1 DEF SeqMatches
<1>3. /\ e \in Event /\ e.SessionIndex = i /\ e.PacketId = "CLOSE"
      /\ Before(e) = SessionSeq[i] /\ After(e) = 0
  BY <1>2 DEF Event, RecvPacketInfo, PacketIds, Before, After
<1>4. packetQue' = Append(que, e) /\ SessionSeq' = [SessionSeq EXCEPT ![i] = 0]
  BY DEF CloseSession, CloseQueued
<1>5. packetQue' = Append(que, RecvPacketInfo(i, "CLOSE", SessionSeq[i]))
  BY <1>4
<1> HIDE DEF e
<1> DEFINE more == <<e>>
<1>6. /\ more \in Seq(Event) /\ more # << >> /\ Len(more) = 1 /\ more[1] = e
      /\ packetQue' = que \o more
  BY <1>3, <1>4, AppendIsConcat
<1> HIDE DEF more
<1>7. (\A a \in 1 .. Len(more) : more[a] = e) /\ \A a \in 1 .. Len(more) - 1 : FALSE
  BY <1>6
<1>8. packetQue' \in Seq(Event)
  BY <1>6, ConcatProperties
<1>9. ConnectsAscend(que \o more, latest, connectSeq)
  BY <1>1, <1>3, <1>6, <1>7, AscendExtend
<1>10. Bracketed(que \o more, announced, [SessionSeq EXCEPT ![i] = After(more[Len(more)])])
  BY <1>1, <1>3, <1>6, <1>7, BracketedExtend
<1> QED BY <1>3, <1>4, <1>5, <1>6, <1>8, <1>9, <1>10

\* The CONNECT that NewSession appends.
LEMMA ConnectedQueue ==
    ASSUME TypeOK, PoolMatches, EventsBracketed,
           ConnectsAscend(packetQue, latest, connectSeq),
           clientSessionPoolIndex # << >>, NEW fd \in Sockets, ConnectedSession(fd)
    PROVE  /\ packetQue' \in Seq(Event)
           /\ Bracketed(packetQue', announced, SessionSeq')
           /\ ConnectsAscend(packetQue', latest, connectSeq')
<1> DEFINE i == Head(clientSessionPoolIndex)
           e == RecvPacketInfo(i, "CONNECT", connectSeq + 1)
           more == <<e>>
<1>1. /\ latest \in Nat /\ connectSeq \in Nat /\ packetQue \in Seq(Event)
      /\ announced \in [Index -> Nat] /\ SessionSeq \in [Index -> Nat]
  BY DEF TypeOK
<1>2. i \in Index /\ SessionSeq[i] = 0
  <2>1. Holds(clientSessionPoolIndex, Index \ Connected, Index)
        /\ clientSessionPoolIndex \in Seq(Index)
    BY PartitionHolds DEF PoolMatches, TypeOK
  <2>2. i \in Index \ Connected
    BY <2>1, TailHolds
  <2> QED BY <2>2 DEF PoolMatches, SeqMatches, Connected
<1>3. /\ packetQue' = Append(packetQue, e) /\ connectSeq' = connectSeq + 1
      /\ SessionSeq' = [SessionSeq EXCEPT ![i] = connectSeq + 1]
  BY DEF ConnectedSession
<1> HIDE DEF i
<1>4. /\ e \in Event /\ e.SessionIndex = i /\ e.PacketId = "CONNECT"
      /\ e.seq = connectSeq + 1 /\ Before(e) = 0 /\ After(e) = connectSeq + 1
  BY <1>1, <1>2 DEF Event, RecvPacketInfo, PacketIds, Before, After
<1> HIDE DEF e
<1>5. /\ more \in Seq(Event) /\ more # << >> /\ Len(more) = 1 /\ more[1] = e
      /\ packetQue' = packetQue \o more
  BY <1>1, <1>3, <1>4, AppendIsConcat
<1> HIDE DEF more
<1>6. (\A a \in 1 .. Len(more) : more[a] = e) /\ \A a \in 1 .. Len(more) - 1 : FALSE
  BY <1>5
<1>7. Bracketed(packetQue \o more, announced,
                [SessionSeq EXCEPT ![i] = After(more[Len(more)])])
  BY <1>1, <1>2, <1>4, <1>5, <1>6, BracketedExtend DEF EventsBracketed
<1>8. ConnectsAscend(packetQue', latest, connectSeq')
  <2>1. /\ Len(packetQue) \in Nat /\ Len(packetQue') = Len(packetQue) + 1
        /\ \A p \in 1 .. Len(packetQue) : packetQue'[p] = packetQue[p]
        /\ packetQue'[Len(packetQue) + 1] = e
    BY <1>1, <1>3, <1>4, AppendProperties, LenProperties
  <2>2. \A p \in 1 .. Len(packetQue) : packetQue[p].seq \in Nat
    <3>1. \A p \in 1 .. Len(packetQue) : packetQue[p] \in Event
      BY <1>1, ElementOfSeq
    <3> QED BY <3>1 DEF Event
  <2>3. \A p \in 1 .. Len(packetQue') :
          p \in 1 .. Len(packetQue) \/ p = Len(packetQue) + 1
    BY <2>1
  <2>4. latest <= connectSeq'
    BY <1>1, <1>3 DEF ConnectsAscend
  <2>5. ASSUME NEW p \in 1 .. Len(packetQue'), packetQue'[p].PacketId = "CONNECT"
        PROVE  latest < packetQue'[p].seq /\ packetQue'[p].seq <= connectSeq'
    <3>1. CASE p \in 1 .. Len(packetQue)
      BY <1>1, <1>3, <2>1, <2>2, <2>5, <3>1 DEF ConnectsAscend
    <3>2. CASE p = Len(packetQue) + 1
      BY <1>1, <1>3, <1>4, <2>1, <3>2 DEF ConnectsAscend
    <3> QED BY <2>3, <3>1, <3>2
  <2>6. ASSUME NEW p \in 1 .. Len(packetQue'), packetQue'[p].PacketId = "CONNECT",
               NEW r \in 1 .. Len(packetQue'), packetQue'[r].PacketId = "CONNECT", r < p
        PROVE  packetQue'[r].seq < packetQue'[p].seq
    <3>1. r \in 1 .. Len(packetQue)
      BY <2>1, <2>3, <2>6
    <3>2. CASE p \in 1 .. Len(packetQue)
      BY <2>1, <2>6, <3>1, <3>2 DEF ConnectsAscend
    <3>3. CASE p = Len(packetQue) + 1
      <4>1. packetQue[r].seq <= connectSeq /\ packetQue[r].seq \in Nat
        BY <2>1, <2>2, <2>6, <3>1 DEF ConnectsAscend
      <4> QED BY <1>1, <1>4, <2>1, <3>1, <3>3, <4>1
    <3> QED BY <2>3, <3>2, <3>3
  <2> QED BY <2>4, <2>5, <2>6 DEF ConnectsAscend
<1>9. packetQue' \in Seq(Event)
  BY <1>1, <1>5, ConcatProperties
<1> QED BY <1>3, <1>4, <1>5, <1>7, <1>8, <1>9

\* What the logic finds at the front of the queue, and what taking it leaves.
LEMMA PoppedQueue ==
    ASSUME TypeOK, EventsBracketed, ConnectsAscend(packetQue, latest, connectSeq),
           packetQue # << >>
    PROVE  /\ Pkt \in Event /\ Tail(packetQue) \in Seq(Event)
           /\ announced[Pkt.SessionIndex] = Before(Pkt)
           /\ Bracketed(Tail(packetQue),
                        [announced EXCEPT ![Pkt.SessionIndex] = After(Pkt)], SessionSeq)
           /\ Pkt.PacketId # "CONNECT" => ConnectsAscend(Tail(packetQue), latest, connectSeq)
           /\ Pkt.PacketId = "CONNECT" =>
                latest < Pkt.seq /\ ConnectsAscend(Tail(packetQue), Pkt.seq, connectSeq)
<1> DEFINE rest == Tail(packetQue)
<1>1. /\ packetQue \in Seq(Event) /\ latest \in Nat /\ connectSeq \in Nat
      /\ announced \in [Index -> Nat] /\ SessionSeq \in [Index -> Nat]
  BY DEF TypeOK
<1>2. /\ Pkt = packetQue[1] /\ Pkt \in Event
      /\ rest \in Seq(Event) /\ Len(packetQue) \in Nat \ {0}
      /\ Len(rest) = Len(packetQue) - 1
      /\ \A p \in 1 .. Len(rest) : rest[p] = packetQue[p + 1]
  BY <1>1, HeadTailProperties, EmptySeq DEF Pkt
<1>3. /\ announced[Pkt.SessionIndex] = Before(Pkt)
      /\ Bracketed(rest, [announced EXCEPT ![Pkt.SessionIndex] = After(Pkt)], SessionSeq)
  BY <1>1, BracketedTail DEF EventsBracketed, Pkt
<1> HIDE DEF rest
<1>4. \A p \in 1 .. Len(rest) : p + 1 \in 1 .. Len(packetQue) /\ 1 < p + 1
  BY <1>2
<1>5. 1 \in 1 .. Len(packetQue)
  BY <1>2
<1>6. Pkt.PacketId # "CONNECT" => ConnectsAscend(rest, latest, connectSeq)
  BY <1>2, <1>4 DEF ConnectsAscend
<1>7. ASSUME Pkt.PacketId = "CONNECT"
      PROVE  latest < Pkt.seq /\ ConnectsAscend(rest, Pkt.seq, connectSeq)
  <2>1. latest < Pkt.seq /\ Pkt.seq <= connectSeq
    BY <1>2, <1>5, <1>7 DEF ConnectsAscend
  <2>2. ASSUME NEW p \in 1 .. Len(rest), rest[p].PacketId = "CONNECT"
        PROVE  Pkt.seq < rest[p].seq /\ rest[p].seq <= connectSeq
    BY <1>2, <1>4, <1>5, <1>7, <2>2 DEF ConnectsAscend
  <2>3. ASSUME NEW p \in 1 .. Len(rest), rest[p].PacketId = "CONNECT",
               NEW r \in 1 .. Len(rest), rest[r].PacketId = "CONNECT", r < p
        PROVE  rest[r].seq < rest[p].seq
    <3>1. r + 1 < p + 1
      BY <2>3
    <3> QED BY <1>2, <1>4, <2>3, <3>1 DEF ConnectsAscend
  <2> QED BY <2>1, <2>2, <2>3 DEF ConnectsAscend
<1> QED BY <1>2, <1>3, <1>6, <1>7 DEF rest

\* SendData appends numbers to a send buffer.
LEMMA SendDataType ==
    ASSUME NEW buffer \in Seq(Nat), NEW s \in Nat, NEW n \in Nat
    PROVE  SendData(buffer, s, n) \in Seq(Nat)
<1> DEFINE m == IF n <= SendMax - Len(buffer) THEN n ELSE SendMax - Len(buffer)
           k == IF m < 0 THEN 0 ELSE m
<1>1. SendMax \in Nat /\ Len(buffer) \in Nat
  BY SizesAssumption, LenProperties
<1>2. m \in Int
  BY <1>1
<1> HIDE DEF m
<1>3. k \in Nat /\ 1 .. m = 1 .. k
  BY <1>2
<1> HIDE DEF k
<1>4. [j \in 1 .. k |-> s] \in Seq(Nat)
  BY <1>3
<1>5. buffer \o [j \in 1 .. k |-> s] \in Seq(Nat)
  BY <1>4, ConcatProperties
<1> QED BY <1>3, <1>5 DEF SendData, m

LEMMA SendToAllType ==
    ASSUME SendBuffer \in [Index -> Seq(Nat)], NEW to \in [Index -> Nat], NEW who,
           SendToAll(to, who)
    PROVE  SendBuffer' \in [Index -> Seq(Nat)]
<1>1. PICK n \in [Index -> 0 .. Burst] :
        SendBuffer' = [j \in Index |-> SendData(SendBuffer[j], to[j], n[j])]
  BY DEF SendToAll
<1>2. \A j \in Index : SendBuffer[j] \in Seq(Nat) /\ to[j] \in Nat /\ n[j] \in Nat
  BY SizesAssumption
<1>3. \A j \in Index : SendData(SendBuffer[j], to[j], n[j]) \in Seq(Nat)
  BY <1>2, SendDataType
<1> QED BY <1>1, <1>3

-----------------------------------------------------------------------------
(* Every step preserves the invariant.                                     *)

LEMMA InvInit == Init => Inv
<1> SUFFICES ASSUME Init PROVE Inv
  OBVIOUS
<1>1. PoolSize \in Nat \ {0} /\ AcceptMax \in Nat
  BY SizesAssumption
<1>2. clientSessionPoolIndex \in Seq(Index)
  BY <1>1 DEF Init, Index
<1>3. packetQue = << >> /\ Len(packetQue) = 0 /\ packetQue \in Seq(Event)
  BY DEF Init
<1>4. /\ SendBuffer \in [Index -> Seq(Nat)]
      /\ packetInfo \in [SessionIndex : Index, PacketId : PacketIds \cup {"NONE"}, seq : Nat]
  BY <1>1 DEF Init, NoPacket, RecvPacketInfo, Index
<1>5. Connected = {}
  BY DEF Init, Connected, IsConnected
<1>6. TypeOK
  <2>1. PoolTypes
    BY <1>2 DEF PoolTypes, Init
  <2>2. OtherTypes
    BY <1>1, <1>3, <1>4 DEF OtherTypes, Init
  <2> QED BY <2>1, <2>2, TypesSplit
<1>7. PoolPartition
  <2>1. Len(clientSessionPoolIndex) = PoolSize
    BY <1>1 DEF Init
  <2>2. \A a \in 1 .. PoolSize : clientSessionPoolIndex[a] = a - 1
    BY DEF Init
  <2>3. \A i \in Index : i + 1 \in 1 .. PoolSize /\ clientSessionPoolIndex[i + 1] = i
    BY <1>1, <2>2 DEF Index
  <2>4. \A i \in Index : ~IsConnected(i)
    BY <1>5 DEF Connected
  <2> QED BY <1>1, <2>1, <2>2, <2>3, <2>4 DEF PoolPartition
<1>8. ReadFdsMatch /\ CountMatches /\ SeqMatches
  BY <1>5, FS_EmptySet DEF Init, ReadFdsMatch, CountMatches, SeqMatches, Connected
<1>9. QueueInv
  <2>1. EventsBracketed
    BY <1>3 DEF EventsBracketed, Bracketed, Init
  <2>2. ConnectsAscend(packetQue, latest, connectSeq)
    BY <1>3 DEF ConnectsAscend, Init
  <2> QED BY <1>3, <2>1, <2>2 DEF QueueInv, OnlyCloses
<1> QED BY <1>6, <1>7, <1>8, <1>9 DEF Inv, PoolMatches

\* Steps that change neither pool nor queue nor what the logic knows: those
\* that move the logic thread on, and the call of Stop.
Moves ==
    \/ SelectNothing \/ SelectReady \/ AcceptDone \/ PollDone \/ DrainDone \/ LoopTest
    \/ Stop \/ \E i \in Index : PollSkip(i) \/ CheckSkip(i)

LEMMA MovesInv == ASSUME Inv, Moves PROVE Inv'
<1>1. PoolTypes /\ OtherTypes /\ PoolMatches /\ QueueInv
  BY TypesSplit DEF Inv
<1>2. /\ UNCHANGED <<pool, SendBuffer, connectSeq, packetQue, announced, latest, packetInfo>>
      /\ drained' = drained \/ DrainDone
  BY DEF Moves, SelectNothing, SelectReady, AcceptDone, PollDone, DrainDone, LoopTest,
         Stop, PollSkip, CheckSkip, pool, logic, thread
<1>3. PoolTypes' /\ PoolMatches'
  BY <1>1, <1>2, SamePool DEF PoolFields, pool
<1>4. /\ pc' \in {"select", "accept", "poll", "drain", "check", "stopped"}
      /\ cursor' \in 0 .. PoolSize /\ tryCount' \in 0 .. AcceptMax
      /\ polled' \subseteq Sockets /\ m_IsRun' \in BOOLEAN
  <2>1. CASE SelectNothing \/ AcceptDone \/ PollDone \/ LoopTest \/ Stop
    BY <1>1, <2>1 DEF SelectNothing, AcceptDone, PollDone, LoopTest, Stop, OtherTypes, thread
  <2>2. CASE SelectReady
    BY <1>1, <2>2, SizesAssumption DEF SelectReady, OtherTypes, PoolTypes, ReadSet
  <2>4. CASE DrainDone
    BY <1>1, <2>4, SizesAssumption DEF DrainDone, OtherTypes
  <2>3. CASE \E i \in Index : PollSkip(i) \/ CheckSkip(i)
    <3>1. PoolSize \in Nat
      BY SizesAssumption
    <3> QED BY <1>1, <2>3, <3>1 DEF PollSkip, CheckSkip, Polling, OtherTypes, Index
  <2> QED BY <2>1, <2>2, <2>3, <2>4 DEF Moves
<1>5. OtherTypes'
  <2>1. drained' \in {"always", "again", "cut"}
    BY <1>1, <1>2 DEF OtherTypes, DrainDone, Emptied
  <2> QED BY <1>1, <1>2, <1>4, <2>1 DEF OtherTypes, pool
<1>6. EventsBracketed' /\ ConnectsAscend(packetQue, latest, connectSeq)'
  BY <1>1, <1>2 DEF QueueInv, EventsBracketed, Bracketed, First, Last, Adjacent,
                    ConnectsAscend, pool
<1>7. OnlyCloses'
  <2>1. CASE DrainDone
    BY <1>2, <2>1 DEF DrainDone, QueueEmpty, OnlyCloses
  <2>2. CASE LoopTest \/ Stop \/ \E i \in Index : CheckSkip(i)
    BY <1>1, <1>2, <2>2 DEF LoopTest, Stop, CheckSkip, QueueInv, OnlyCloses, IsConnected, thread,
                               pool, logic
  <2>3. CASE SelectNothing \/ SelectReady \/ AcceptDone \/ PollDone
             \/ \E i \in Index : PollSkip(i)
    BY <2>3 DEF SelectNothing, SelectReady, AcceptDone, PollDone, PollSkip, Polling,
                OnlyCloses
  <2> QED BY <2>1, <2>2, <2>3 DEF Moves
<1> QED BY <1>3, <1>5, <1>6, <1>7, TypesSplitNext DEF Inv, QueueInv

LEMMA NewSessionInv == ASSUME Inv, NewSession PROVE Inv'
<1>1. PoolTypes /\ OtherTypes /\ PoolMatches /\ QueueInv /\ TypeOK
  BY TypesSplit DEF Inv
<1>2. PICK fd \in Sockets \ {SocketFD[i] : i \in Connected} : ConnectedSession(fd)
  BY DEF NewSession
<1>3. clientSessionPoolIndex # << >> /\ pc = "accept" /\ tryCount < AcceptMax
      /\ tryCount' = tryCount + 1
      /\ UNCHANGED <<SendBuffer, logic, prior, pc, cursor, polled, packetInfo, m_IsRun>>
  BY DEF NewSession
<1>4. PoolTypes' /\ PoolMatches'
  BY <1>1, <1>2, <1>3, ConnectedSessionPool DEF OtherTypes
<1>5. /\ packetQue' \in Seq(Event)
      /\ Bracketed(packetQue', announced, SessionSeq')
      /\ ConnectsAscend(packetQue', latest, connectSeq')
  BY <1>1, <1>2, <1>3, ConnectedQueue DEF QueueInv
<1>6. connectSeq' \in Nat /\ tryCount' \in 0 .. AcceptMax
  <2>1. AcceptMax \in Nat /\ tryCount \in 0 .. AcceptMax /\ connectSeq \in Nat
    BY <1>1, SizesAssumption DEF OtherTypes
  <2> QED BY <1>2, <1>3, <2>1 DEF ConnectedSession
<1>7. OtherTypes'
  BY <1>1, <1>3, <1>5, <1>6 DEF OtherTypes, logic
<1>8. QueueInv'
  BY <1>3, <1>5 DEF QueueInv, EventsBracketed, OnlyCloses, logic
<1> QED BY <1>4, <1>7, <1>8, TypesSplitNext DEF Inv

\* The socket of a connection that finds the pool empty was not registered.
LEMMA NewSessionPoolEmptyInv == ASSUME Inv, NewSessionPoolEmpty PROVE Inv'
<1>1. PoolTypes /\ OtherTypes /\ PoolMatches /\ QueueInv
  BY TypesSplit DEF Inv
<1>2. PICK fd \in Sockets \ {SocketFD[i] : i \in Connected} : ReadFds' = ReadFds \ {fd}
  BY DEF NewSessionPoolEmpty
<1>3. ReadFds' = ReadFds
  BY <1>1, <1>2 DEF PoolMatches, ReadFdsMatch
<1>4. PoolTypes' /\ PoolMatches'
  BY <1>1, <1>3, SamePool DEF NewSessionPoolEmpty, PoolFields
<1>5. OtherTypes'
  BY <1>1 DEF NewSessionPoolEmpty, OtherTypes, logic
<1>6. QueueInv'
  BY <1>1 DEF NewSessionPoolEmpty, logic, QueueInv, EventsBracketed, Bracketed, First, Last,
              Adjacent, ConnectsAscend, OnlyCloses, IsConnected
<1> QED BY <1>4, <1>5, <1>6, TypesSplitNext DEF Inv

LEMMA PollServeInv == ASSUME Inv, NEW i \in Index, PollServe(i) PROVE Inv'
<1>1. PoolTypes /\ OtherTypes /\ PoolMatches /\ QueueInv /\ TypeOK
  BY TypesSplit DEF Inv
<1>2. PICK ids \in Receivable : packetQue' = Received(i, ids)
  BY DEF PollServe
<1>3. PICK n \in 0 .. Len(SendBuffer[i]) :
        SendBuffer' = [SendBuffer EXCEPT ![i] = SubSeq(@, n + 1, Len(@))]
  BY DEF PollServe
<1>4. /\ IsConnected(i) /\ pc = "poll" /\ i = cursor /\ cursor' = cursor + 1
      /\ UNCHANGED <<pool, connectSeq, logic, pc, tryCount, polled, packetInfo, m_IsRun>>
  BY DEF PollServe, Polling, Ready
<1>5. ids \in Seq(ClientIds)
  BY ReceivableSeq
<1>6. PoolTypes' /\ PoolMatches'
  BY <1>1, <1>4, SamePool DEF PoolFields, pool
<1>7. /\ packetQue' \in Seq(Event)
      /\ Bracketed(packetQue', announced, SessionSeq)
      /\ ConnectsAscend(packetQue', latest, connectSeq)
  BY <1>1, <1>2, <1>4, <1>5, ReceivedQueue DEF PoolMatches, QueueInv
<1>8. SendBuffer' \in [Index -> Seq(Nat)]
  <2> DEFINE b == SendBuffer[i]
  <2>1. b \in Seq(Nat) /\ Len(b) \in Nat /\ n \in Nat
    BY <1>1, LenProperties DEF OtherTypes
  <2>2. \A a \in n + 1 .. Len(b) : a \in 1 .. Len(b)
    BY <2>1
  <2>3. \A a \in n + 1 .. Len(b) : b[a] \in Nat
    BY <2>1, <2>2, ElementOfSeq
  <2> HIDE DEF b
  <2>4. SubSeq(b, n + 1, Len(b)) \in Seq(Nat)
    BY <2>1, <2>3, SubSeqProperties
  <2> QED BY <1>1, <1>3, <2>4 DEF b, OtherTypes
<1>9. cursor' \in 0 .. PoolSize
  BY <1>4, SizesAssumption DEF Index
<1>10. OtherTypes'
  BY <1>1, <1>4, <1>7, <1>8, <1>9 DEF OtherTypes, pool, logic
<1>11. QueueInv'
  BY <1>4, <1>7 DEF QueueInv, EventsBracketed, OnlyCloses, pool, logic
<1> QED BY <1>6, <1>10, <1>11, TypesSplitNext DEF Inv

\* A step that closes session i while the logic thread looks at it.
LEMMA CloseInv ==
    ASSUME Inv, NEW i \in Index, IsConnected(i), i = cursor, cursor' = cursor + 1,
           NEW que \in Seq(Event), Bracketed(que, announced, SessionSeq),
           ConnectsAscend(que, latest, connectSeq), CloseSession(i, que),
           pc = "poll" \/ que = packetQue,
           UNCHANGED <<connectSeq, logic, pc, tryCount, polled, packetInfo, m_IsRun>>
    PROVE  Inv'
<1>1. PoolTypes /\ OtherTypes /\ PoolMatches /\ QueueInv /\ TypeOK
  BY TypesSplit DEF Inv
<1>2. PoolTypes' /\ PoolMatches'
  BY <1>1, CloseSessionPool
<1>3. /\ packetQue' \in Seq(Event)
      /\ packetQue' = Append(que, RecvPacketInfo(i, "CLOSE", SessionSeq[i]))
      /\ Bracketed(packetQue', announced, SessionSeq')
      /\ ConnectsAscend(packetQue', latest, connectSeq)
  BY <1>1, ClosedQueue DEF PoolMatches
<1>4. SendBuffer' \in [Index -> Seq(Nat)] /\ prior' \in [Index -> Nat]
  <2>1. SendBuffer' = [SendBuffer EXCEPT ![i] = << >>]
        /\ prior' = [prior EXCEPT ![i] = SessionSeq[i]]
    BY DEF CloseSession, BufferCleared
  <2>2. << >> \in Seq(Nat) /\ SessionSeq[i] \in Nat
    BY <1>1 DEF PoolTypes
  <2> QED BY <1>1, <2>1, <2>2 DEF OtherTypes
<1>5. cursor' \in 0 .. PoolSize
  <2>1. PoolSize \in Nat
    BY SizesAssumption
  <2> QED BY <2>1 DEF Index
<1>6. OtherTypes'
  BY <1>1, <1>3, <1>4, <1>5 DEF OtherTypes, logic
<1>7. OnlyCloses'
  <2>1. CASE pc = "poll"
    BY <2>1 DEF OnlyCloses
  <2>2. CASE que = packetQue
    <3> DEFINE e == RecvPacketInfo(i, "CLOSE", SessionSeq[i])
    <3>1. e \in Event
      BY <1>1 DEF PoolTypes, RecvPacketInfo, Event, PacketIds, SeqMatches, PoolMatches
    <3>2. e.PacketId = "CLOSE" /\ e.SessionIndex = i
      BY DEF RecvPacketInfo
    <3> HIDE DEF e
    <3>3. /\ Len(packetQue) \in Nat /\ Len(packetQue') = Len(packetQue) + 1
          /\ \A p \in 1 .. Len(packetQue) : packetQue'[p] = packetQue[p]
          /\ packetQue'[Len(packetQue) + 1] = e
      BY <1>3, <2>2, <3>1, AppendProperties, LenProperties DEF e
    <3>4. \A p \in 1 .. Len(packetQue') : p \in 1 .. Len(packetQue) \/ p = Len(packetQue) + 1
      BY <3>3
    <3>5. \A j \in Index : SocketFD'[j] # NoSocket => SocketFD[j] # NoSocket /\ j # i
      BY <1>1 DEF CloseSession, PoolTypes
    <3>6. \A p \in 1 .. Len(packetQue) : packetQue[p].SessionIndex \in Index
      <4>1. packetQue \in Seq(Event)
        BY <2>2
      <4>2. \A p \in 1 .. Len(packetQue) : packetQue[p] \in Event
        BY <4>1, ElementOfSeq
      <4> QED BY <4>2 DEF Event
    <3>7. pc' = pc /\ drained' = drained
      BY DEF logic
    <3>8. OnlyCloses
      BY <1>1 DEF QueueInv
    <3> QED BY <3>2, <3>3, <3>4, <3>5, <3>6, <3>7, <3>8 DEF OnlyCloses, IsConnected
  <2> QED BY <2>1, <2>2
<1>8. QueueInv'
  BY <1>3, <1>7 DEF QueueInv, EventsBracketed, logic
<1> QED BY <1>2, <1>6, <1>8, TypesSplitNext DEF Inv

LEMMA PollErrorInv ==
    ASSUME Inv, NEW i \in Index, PollReceiveError(i) \/ PollSendError(i) PROVE Inv'
<1>1. PICK ids \in Receivable : CloseSession(i, Received(i, ids))
  BY DEF PollReceiveError, PollSendError
<1>2. /\ IsConnected(i) /\ pc = "poll" /\ i = cursor /\ cursor' = cursor + 1
      /\ UNCHANGED <<connectSeq, logic, pc, tryCount, polled, packetInfo, m_IsRun>>
  BY DEF PollReceiveError, PollSendError, Polling, Ready
<1>3. ids \in Seq(ClientIds)
  BY ReceivableSeq
<1>4. /\ Received(i, ids) \in Seq(Event)
      /\ Bracketed(Received(i, ids), announced, SessionSeq)
      /\ ConnectsAscend(Received(i, ids), latest, connectSeq)
  BY <1>2, <1>3, ReceivedQueue DEF Inv, PoolMatches, QueueInv
<1> QED BY <1>1, <1>2, <1>4, CloseInv

LEMMA ForcedCloseInv == ASSUME Inv, NEW i \in Index, ForcedClose(i) PROVE Inv'
<1>1. /\ IsConnected(i) /\ i = cursor /\ cursor' = cursor + 1 /\ CloseSession(i, packetQue)
      /\ UNCHANGED <<connectSeq, logic, pc, tryCount, polled, packetInfo, m_IsRun>>
  BY DEF ForcedClose
<1>2. /\ packetQue \in Seq(Event) /\ Bracketed(packetQue, announced, SessionSeq)
      /\ ConnectsAscend(packetQue, latest, connectSeq)
  BY DEF Inv, TypeOK, QueueInv, EventsBracketed
<1> QED BY <1>1, <1>2, CloseInv

\* A handler: the logic takes over what the packet leaves behind.
LEMMA DrainInv ==
    ASSUME Inv, NEW id \in PacketIds, GetPacketInfo(id),
           announced' = [announced EXCEPT ![Pkt.SessionIndex] = After(Pkt)],
           latest' = IF id = "CONNECT" THEN Pkt.seq ELSE latest,
           SendBuffer' \in [Index -> Seq(Nat)],
           UNCHANGED <<drained, pool, connectSeq, thread, m_IsRun>>
    PROVE  Inv'
<1>1. PoolTypes /\ OtherTypes /\ PoolMatches /\ QueueInv /\ TypeOK
  BY TypesSplit DEF Inv
<1>2. /\ packetQue # << >> /\ Pkt.PacketId = id /\ pc = "drain"
      /\ packetInfo' = Pkt /\ packetQue' = Tail(packetQue)
  BY DEF GetPacketInfo
<1>3. /\ Pkt \in Event /\ packetQue' \in Seq(Event)
      /\ Bracketed(packetQue', announced', SessionSeq)
      /\ ConnectsAscend(packetQue', latest', connectSeq)
  BY <1>1, <1>2, PoppedQueue DEF QueueInv
<1>4. PoolTypes' /\ PoolMatches'
  BY <1>1, SamePool DEF PoolFields, pool
<1>5. announced' \in [Index -> Nat] /\ latest' \in Nat
  <2>1. After(Pkt) \in Nat /\ Pkt.seq \in Nat
    BY <1>3 DEF After, Event
  <2> QED BY <1>1, <2>1 DEF OtherTypes
<1>6. packetInfo' \in [SessionIndex : Index, PacketId : PacketIds \cup {"NONE"}, seq : Nat]
  BY <1>2, <1>3 DEF Event
<1>7. OtherTypes'
  BY <1>1, <1>3, <1>5, <1>6 DEF OtherTypes, pool, thread
<1>8. QueueInv'
  BY <1>2, <1>3 DEF QueueInv, EventsBracketed, OnlyCloses, pool, thread
<1> QED BY <1>4, <1>7, <1>8, TypesSplitNext DEF Inv

LEMMA NtfSysConnctSessionInv == ASSUME Inv, NtfSysConnctSession PROVE Inv'
<1>1. Pkt.PacketId = "CONNECT" /\ GetPacketInfo("CONNECT") /\ "CONNECT" \in PacketIds
  BY DEF NtfSysConnctSession, GetPacketInfo, PacketIds
<1>2. After(Pkt) = Pkt.seq
  BY <1>1 DEF After
<1>3. SendBuffer' \in [Index -> Seq(Nat)]
  BY DEF NtfSysConnctSession, Inv, TypeOK
<1> QED BY <1>1, <1>2, <1>3, DrainInv DEF NtfSysConnctSession

LEMMA ProcessDataInv == ASSUME Inv, ProcessData PROVE Inv'
<1> DEFINE to == [announced EXCEPT ![Pkt.SessionIndex] = Pkt.seq]
<1>1. /\ Pkt.PacketId = "DATA" /\ GetPacketInfo("DATA") /\ "DATA" \in PacketIds
      /\ packetQue # << >> /\ SendToAll(to, Known \cup {Pkt.SessionIndex})
      /\ UNCHANGED <<pool, connectSeq, logic, thread, m_IsRun>>
  BY DEF ProcessData, GetPacketInfo, PacketIds, ClientIds
<1>2. Pkt \in Event /\ announced[Pkt.SessionIndex] = Before(Pkt)
  BY <1>1, PoppedQueue DEF Inv, QueueInv
<1>3. /\ Pkt.SessionIndex \in Index /\ Pkt.seq \in Nat
      /\ Before(Pkt) = Pkt.seq /\ After(Pkt) = Pkt.seq
  BY <1>1, <1>2 DEF Before, After, Event
<1>4. /\ announced \in [Index -> Nat] /\ SendBuffer \in [Index -> Seq(Nat)]
      /\ to \in [Index -> Nat]
  BY <1>3 DEF Inv, TypeOK
<1>5. announced' = [announced EXCEPT ![Pkt.SessionIndex] = After(Pkt)] /\ latest' = latest
  BY <1>1, <1>2, <1>3, <1>4 DEF logic
<1>6. SendBuffer' \in [Index -> Seq(Nat)]
  BY <1>1, <1>4, SendToAllType
<1> QED BY <1>1, <1>5, <1>6, DrainInv DEF logic

LEMMA NtfSysCloseSessionInv == ASSUME Inv, NtfSysCloseSession PROVE Inv'
<1>1. /\ Pkt.PacketId = "CLOSE" /\ GetPacketInfo("CLOSE") /\ "CLOSE" \in PacketIds
      /\ SendToAll(announced, Known)
  BY DEF NtfSysCloseSession, GetPacketInfo, PacketIds
<1>2. After(Pkt) = 0
  BY <1>1 DEF After
<1>3. SendBuffer' \in [Index -> Seq(Nat)]
  BY <1>1, SendToAllType DEF Inv, TypeOK
<1> QED BY <1>1, <1>2, <1>3, DrainInv DEF NtfSysCloseSession

\* The drain that a client's packet with the ID 0 ends: what the logic knows of
\* its session stays what it was.
LEMMA DrainCutInv == ASSUME Inv, DrainCut PROVE Inv'
<1>1. PoolTypes /\ OtherTypes /\ PoolMatches /\ QueueInv /\ TypeOK
  BY TypesSplit DEF Inv
<1>2. /\ packetQue # << >> /\ Pkt.PacketId = "ZERO" /\ packetQue' = Tail(packetQue)
      /\ pc' = "check" /\ cursor' = 0
      /\ drained' = (IF packetQue' = << >> THEN Emptied ELSE "cut")
      /\ UNCHANGED <<pool, SendBuffer, connectSeq, announced, latest, tryCount, polled,
                     packetInfo, m_IsRun>>
  BY DEF DrainCut
<1>3. /\ packetQue' \in Seq(Event) /\ ConnectsAscend(packetQue', latest, connectSeq)
      /\ Bracketed(packetQue', announced, SessionSeq)
  <2>1. Pkt \in Event /\ announced[Pkt.SessionIndex] = Before(Pkt)
    BY <1>1, <1>2, PoppedQueue DEF QueueInv
  <2>2. [announced EXCEPT ![Pkt.SessionIndex] = After(Pkt)] = announced
    BY <1>1, <1>2, <2>1 DEF OtherTypes, Before, After, Event
  <2> QED BY <1>1, <1>2, <2>2, PoppedQueue DEF QueueInv
<1>4. PoolTypes' /\ PoolMatches'
  BY <1>1, <1>2, SamePool DEF PoolFields, pool
<1>5. OtherTypes'
  <2>1. drained' \in {"always", "again", "cut"} /\ cursor' \in 0 .. PoolSize
    BY <1>2, SizesAssumption DEF Emptied
  <2> QED BY <1>1, <1>2, <1>3, <2>1 DEF OtherTypes, pool
<1>6. OnlyCloses'
  <2>1. drained' # "cut" => Len(packetQue') = 0
    BY <1>2
  <2> QED BY <2>1 DEF OnlyCloses
<1>7. QueueInv'
  BY <1>2, <1>3, <1>6 DEF QueueInv, EventsBracketed, pool
<1> QED BY <1>4, <1>5, <1>7, TypesSplitNext DEF Inv

LEMMA InvNext == Inv /\ [Next]_vars => Inv'
<1> SUFFICES ASSUME Inv, [Next]_vars PROVE Inv'
  OBVIOUS
<1>1. CASE Moves
  BY <1>1, MovesInv
<1>2. CASE NewSession
  BY <1>2, NewSessionInv
<1>3. CASE NewSessionPoolEmpty
  BY <1>3, NewSessionPoolEmptyInv
<1>4. CASE \E i \in Index : PollServe(i)
  BY <1>4, PollServeInv
<1>5. CASE \E i \in Index : PollReceiveError(i) \/ PollSendError(i)
  BY <1>5, PollErrorInv
<1>6. CASE \E i \in Index : ForcedClose(i)
  BY <1>6, ForcedCloseInv
<1>7. CASE NtfSysConnctSession \/ ProcessData \/ NtfSysCloseSession
  BY <1>7, NtfSysConnctSessionInv, ProcessDataInv, NtfSysCloseSessionInv
<1>9. CASE DrainCut
  BY <1>9, DrainCutInv
<1>8. CASE UNCHANGED vars
  BY <1>8 DEF vars, Inv, TypeOK, PoolMatches, PoolPartition, ReadFdsMatch, CountMatches,
              SeqMatches, Connected, IsConnected, QueueInv, EventsBracketed, Bracketed, First,
              Last, Adjacent, ConnectsAscend, OnlyCloses
<1> QED BY <1>1, <1>2, <1>3, <1>4, <1>5, <1>6, <1>7, <1>8, <1>9
        DEF Next, LogicThread, Accepting, PollOne, Draining, Moves, Stopped

LEMMA InvCorrect == Spec => []Inv
BY InvInit, InvNext, PTL DEF Spec

-----------------------------------------------------------------------------
(* The theorems.                                                           *)

\* Every variable keeps its type, the number of connected sessions included:
\* the size_t that CloseSession decrements never wraps below zero.
THEOREM TypeCorrect == Spec => []TypeOK
<1>1. Inv => TypeOK
  BY DEF Inv
<1> QED BY <1>1, InvCorrect, PTL

\* No session index is handed out twice and none is lost, in a pool of any
\* size and whichever of its four callers closes a session.
THEOREM PoolPartitionCorrect == Spec => []PoolPartition
<1>1. Inv => PoolPartition
  BY DEF Inv, PoolMatches
<1> QED BY <1>1, InvCorrect, PTL

\* connectedSessionCount is the number of connected sessions.
THEOREM CountMatchesCorrect == Spec => []CountMatches
<1>1. Inv => CountMatches
  BY DEF Inv, PoolMatches
<1> QED BY <1>1, InvCorrect, PTL

\* select watches exactly the sockets of the connected sessions, and no two
\* sessions share one, for any number of handles and any reuse of them.
THEOREM ReadFdsMatchCorrect == Spec => []ReadFdsMatch
<1>1. Inv => ReadFdsMatch
  BY DEF Inv, PoolMatches
<1> QED BY <1>1, InvCorrect, PTL

\* Every packet is handled while the logic holds the connection it came
\* from, however many are queued and however often an index is reused.
THEOREM EventsBracketedCorrect == Spec => []EventsBracketed
<1>1. Inv => EventsBracketed
  BY DEF Inv, QueueInv
<1> QED BY <1>1, InvCorrect, PTL

\* No client packet, with its pointer into a receive buffer, is left in the
\* queue when select and recv run again, unless the last drain was ended by a
\* client's packet with the ID 0 in front of it.
THEOREM NoDanglingDataCorrect == Spec => []NoDanglingData
<1>1. Inv => NoDanglingData
  BY DEF Inv, QueueInv, OnlyCloses, NoDanglingData
<1> QED BY <1>1, InvCorrect, PTL

\* The time and the login that StateCheck reads for an open session are
\* those of the connection it would close, for any number of sessions, when
\* the drain before it has emptied the queue.
THEOREM CheckSeesCurrentCorrect == Spec => []CheckSeesCurrent
<1>1. Inv => CheckSeesCurrent
  <2> SUFFICES ASSUME Inv, pc = "check", drained # "cut", NEW i \in Connected
               PROVE  announced[i] = SessionSeq[i]
    BY DEF CheckSeesCurrent
  <2>1. i \in Index /\ IsConnected(i)
    BY DEF Connected
  <2>2. \A p \in 1 .. Len(packetQue) : packetQue[p].SessionIndex # i
    BY <2>1 DEF Inv, QueueInv, OnlyCloses
  <2> QED BY <2>1, <2>2 DEF Inv, QueueInv, EventsBracketed, Bracketed
<1> QED BY <1>1, InvCorrect, PTL

\* Every step of the network layer is a step of SessionEvents or a stutter.
LEMMA StepSimulates ==
    ASSUME Inv, [Next]_vars
    PROVE  [Events!Next]_<<announced, latest, packetInfo>>
<1>1. TypeOK /\ QueueInv
  BY DEF Inv
<1>2. announced \in [Index -> Nat] /\ latest \in Nat
  BY <1>1 DEF TypeOK
<1>3. CASE NtfSysConnctSession \/ ProcessData \/ NtfSysCloseSession
  <2> DEFINE i == Pkt.SessionIndex
  <2>1. packetQue # << >> /\ packetInfo' = Pkt
    BY <1>3 DEF NtfSysConnctSession, ProcessData, NtfSysCloseSession, GetPacketInfo
  <2>2. /\ Pkt \in Event /\ announced[i] = Before(Pkt)
        /\ Pkt.PacketId = "CONNECT" => latest < Pkt.seq
    BY <1>1, <2>1, PoppedQueue DEF QueueInv
  <2>3. /\ i \in Index /\ Pkt.seq \in Nat /\ Pkt.seq # 0
        /\ Pkt = [SessionIndex |-> i, PacketId |-> Pkt.PacketId, seq |-> Pkt.seq]
    BY <2>2 DEF Event
  <2>4. i \in Events!Index
    BY <2>3 DEF Index, Events!Index
  <2>5. CASE NtfSysConnctSession
    <3>1. Pkt.PacketId = "CONNECT" /\ latest' = Pkt.seq
          /\ announced' = [announced EXCEPT ![i] = Pkt.seq]
      BY <2>5 DEF NtfSysConnctSession, GetPacketInfo
    <3>2. announced[i] = 0
      BY <2>2, <3>1 DEF Before
    <3>3. Events!Connect(i)
      BY <1>2, <2>1, <2>2, <2>3, <3>1, <3>2 DEF Events!Connect, Events!Packet
    <3> QED BY <2>4, <3>3 DEF Events!Next
  <2>6. CASE ProcessData
    <3>1. Pkt.PacketId = "DATA" /\ UNCHANGED <<announced, latest>>
      BY <2>6 DEF ProcessData, GetPacketInfo, logic
    <3>2. announced[i] = Pkt.seq
      BY <2>2, <3>1 DEF Before
    <3>3. Events!Data(i)
      BY <2>1, <2>3, <3>1, <3>2 DEF Events!Data, Events!Packet
    <3> QED BY <2>4, <3>3 DEF Events!Next
  <2>7. CASE NtfSysCloseSession
    <3>1. Pkt.PacketId = "CLOSE" /\ latest' = latest
          /\ announced' = [announced EXCEPT ![i] = 0]
      BY <2>7 DEF NtfSysCloseSession, GetPacketInfo
    <3>2. announced[i] = Pkt.seq
      BY <2>2, <3>1 DEF Before
    <3>3. Events!Close(i)
      BY <2>1, <2>3, <3>1, <3>2 DEF Events!Close, Events!Packet
    <3> QED BY <2>4, <3>3 DEF Events!Next
  <2> QED BY <1>3, <2>5, <2>6, <2>7
<1>4. CASE ~(NtfSysConnctSession \/ ProcessData \/ NtfSysCloseSession)
  <2>1. UNCHANGED <<announced, latest, packetInfo>>
    BY <1>4 DEF Next, LogicThread, SelectNothing, SelectReady, Accepting, AcceptDone,
                NewSession, NewSessionPoolEmpty, PollOne, PollSkip, PollServe,
                PollReceiveError, PollSendError, PollDone, Draining, DrainDone, DrainCut, ForcedClose,
                CheckSkip, LoopTest, Stop, Stopped, vars, logic
  <2> QED BY <2>1
<1> QED BY <1>3, <1>4

\* The network layer implements SessionEvents.
THEOREM Refinement == Spec => ImplementsSessionEvents
<1>1. Init => Events!Init
  BY DEF Init, Events!Init, Index, Events!Index, NoPacket, RecvPacketInfo, Events!Packet
<1>2. Inv /\ [Next]_vars => [Events!Next]_<<announced, latest, packetInfo>>
  BY StepSimulates
<1> QED BY <1>1, <1>2, InvCorrect, PTL DEF Spec, ImplementsSessionEvents, Events!Spec

-----------------------------------------------------------------------------
(* The reuse of session indices and handles: which sockets a Run may read, *)
(* how far the logic may be behind the pool, and for whom the messages in  *)
(* a send buffer were meant.                                               *)

\* que[p] announces a connection of index i.
Announces(que, p, i) == que[p].SessionIndex = i /\ que[p].PacketId = "CONNECT"
NoConnect(que, i) == \A p \in 1 .. Len(que) : ~Announces(que, p, i)

ConnectsLast(que) == \A p \in 1 .. Len(que) : que[p].PacketId = "CONNECT" => Last(que, p)

\* No event is about a connection that was not accepted yet.
Numbered(que) == \A p \in 1 .. Len(que) : que[p].seq <= connectSeq

\* A connection whose CLOSE is queued is not the one that is open.
ClosedForGood(que) ==
    \A p \in 1 .. Len(que) :
        que[p].PacketId = "CLOSE" => que[p].seq # SessionSeq[que[p].SessionIndex]

\* An open connection that the logic does not know is about to be announced.
Announcing(que) ==
    \A i \in Index : SessionSeq[i] # 0 /\ announced[i] # SessionSeq[i] => ~NoConnect(que, i)

QueueReuse(que) ==
    ConnectsLast(que) /\ Numbered(que) /\ ClosedForGood(que) /\ Announcing(que)

\* While connections are accepted, the sockets that select reported are open.
PolledWatched == pc = "accept" => polled \subseteq ReadFds

\* No socket of a connection that is still to be announced is in the sets.
ConnectsUnpolled ==
    pc \in {"accept", "poll"} =>
        \A p \in 1 .. Len(packetQue) :
            packetQue[p].PacketId = "CONNECT" =>
                SocketFD[packetQue[p].SessionIndex] \notin polled

\* The logic is at most one connection behind the pool.
KnownIsRecent == \A i \in Index : announced[i] \in {0, prior[i], SessionSeq[i]}

SeqsGiven == \A i \in Index : SessionSeq[i] <= connectSeq

Reuse ==
    /\ PolledWatched /\ ConnectsUnpolled
    /\ QueueReuse(packetQue)
    /\ SeqsGiven /\ KnownIsRecent
    /\ SendBufferOwner

\* What select reported, whatever is queued.
Polls == SeqsGiven /\ PolledWatched /\ PolledIsOld

\* A drain that empties the queue restores Reuse, one that is cut short ends
\* it until then.
Kept == drained # "cut" => Reuse

-----------------------------------------------------------------------------
(* What queues keep.                                                       *)

\* The entries of a queue that was made longer, by position and by value.
LEMMA ConcatEntries ==
    ASSUME NEW que \in Seq(Event), NEW more \in Seq(Event)
    PROVE  /\ Len(que) \in Nat /\ Len(more) \in Nat
           /\ Len(que \o more) = Len(que) + Len(more)
           /\ \A p \in 1 .. Len(que) : (que \o more)[p] = que[p]
           /\ \A a \in 1 .. Len(more) : (que \o more)[Len(que) + a] = more[a]
           /\ \A p \in 1 .. Len(que \o more) :
                p \in 1 .. Len(que) \/ \E a \in 1 .. Len(more) : p = Len(que) + a
<1> DEFINE long == que \o more
           n == Len(que)
           m == Len(more)
<1>1. n \in Nat /\ m \in Nat
  BY LenProperties
<1>2. /\ Len(long) = n + m
      /\ \A p \in 1 .. n + m : long[p] = IF p <= n THEN que[p] ELSE more[p - n]
  BY ConcatProperties
<1> HIDE DEF long, n, m
<1>3. /\ \A p \in 1 .. n : long[p] = que[p]
      /\ \A a \in 1 .. m : long[n + a] = more[a]
  BY <1>1, <1>2
<1>4. ASSUME NEW p \in 1 .. Len(long)
      PROVE  p \in 1 .. n \/ \E a \in 1 .. m : p = n + a
  <2>1. p \in 1 .. n \/ (p - n \in 1 .. m /\ p = n + (p - n))
    BY <1>1, <1>2
  <2> QED BY <2>1
<1> QED BY <1>1, <1>2, <1>3, <1>4 DEF long, n, m

\* Events of an index without a queued CONNECT may be put behind the queue,
\* if none but the last of them is a CONNECT.
LEMMA ConnectsLastExtend ==
    ASSUME NEW que \in Seq(Event), NEW more \in Seq(Event), NEW i \in Index,
           ConnectsLast(que), NoConnect(que, i),
           \A a \in 1 .. Len(more) : more[a].SessionIndex = i,
           \A a \in 1 .. Len(more) : more[a].PacketId = "CONNECT" => a = Len(more)
    PROVE  ConnectsLast(que \o more)
<1> DEFINE long == que \o more
           n == Len(que)
           m == Len(more)
<1>1. /\ n = Len(que) /\ m = Len(more) /\ n \in Nat /\ m \in Nat /\ Len(long) = n + m
      /\ \A p \in 1 .. n : long[p] = que[p]
      /\ \A a \in 1 .. m : long[n + a] = more[a]
      /\ \A p \in 1 .. Len(long) : p \in 1 .. n \/ \E a \in 1 .. m : p = n + a
  BY ConcatEntries
<1> HIDE DEF long, n, m
<1>2. ASSUME NEW p \in 1 .. Len(long), long[p].PacketId = "CONNECT",
             NEW r \in 1 .. Len(long), r > p
      PROVE  long[r].SessionIndex # long[p].SessionIndex
  <2>1. CASE p \in 1 .. n
    <3>1. long[p] = que[p] /\ que[p].SessionIndex # i
      BY <1>1, <1>2, <2>1 DEF NoConnect, Announces
    <3>2. CASE r \in 1 .. n
      <4>1. Last(que, p) /\ long[r] = que[r]
        BY <1>1, <1>2, <2>1, <3>1, <3>2 DEF ConnectsLast
      <4> QED BY <1>1, <1>2, <3>1, <3>2, <4>1 DEF Last
    <3>3. CASE \E a \in 1 .. m : r = n + a
      <4>1. PICK a \in 1 .. m : r = n + a
        BY <3>3
      <4>2. long[r] = more[a] /\ more[a].SessionIndex = i
        BY <1>1, <4>1
      <4> QED BY <3>1, <4>2
    <3> QED BY <1>1, <3>2, <3>3
  <2>2. CASE \E a \in 1 .. m : p = n + a
    <3>1. PICK a \in 1 .. m : p = n + a
      BY <2>2
    <3>2. a = m
      BY <1>1, <1>2, <3>1
    <3> QED BY <1>1, <1>2, <3>1, <3>2
  <2> QED BY <1>1, <2>1, <2>2
<1> QED BY <1>2 DEF ConnectsLast, Last, long

\* Events of an open connection that are neither CONNECT nor CLOSE.
LEMMA QueueReuseExtend ==
    ASSUME NEW que \in Seq(Event), NEW more \in Seq(Event), NEW i \in Index,
           QueueReuse(que), NoConnect(que, i),
           \A a \in 1 .. Len(more) : /\ more[a].SessionIndex = i
                                     /\ more[a].PacketId \in ClientIds
                                     /\ more[a].seq <= connectSeq
    PROVE  QueueReuse(que \o more) /\ NoConnect(que \o more, i)
<1> DEFINE long == que \o more
<1>0. \A a \in 1 .. Len(more) : more[a].PacketId \notin {"CONNECT", "CLOSE"}
  BY DEF ClientIds
<1>1. /\ Len(long) = Len(que) + Len(more) /\ Len(que) \in Nat /\ Len(more) \in Nat
      /\ \A p \in 1 .. Len(que) : long[p] = que[p]
      /\ \A a \in 1 .. Len(more) : long[Len(que) + a] = more[a]
      /\ \A p \in 1 .. Len(long) :
           p \in 1 .. Len(que) \/ \E a \in 1 .. Len(more) : p = Len(que) + a
  BY ConcatEntries
<1>2. ConnectsLast(long)
  BY <1>0, ConnectsLastExtend DEF QueueReuse
<1> HIDE DEF long
<1>3. Numbered(long)
  BY <1>1 DEF QueueReuse, Numbered
<1>4. ClosedForGood(long)
  <2>1. \A p \in 1 .. Len(long) : long[p].PacketId = "CLOSE" =>
          p \in 1 .. Len(que) /\ long[p] = que[p]
    BY <1>0, <1>1
  <2> QED BY <2>1 DEF QueueReuse, ClosedForGood
<1>5. ASSUME NEW j \in Index
      PROVE  NoConnect(long, j) <=> NoConnect(que, j)
  <2>1. \A p \in 1 .. Len(que) : p \in 1 .. Len(long)
    BY <1>1
  <2> QED BY <1>0, <1>1, <2>1 DEF NoConnect, Announces
<1>6. Announcing(long)
  BY <1>5 DEF QueueReuse, Announcing
<1> QED BY <1>2, <1>3, <1>4, <1>5, <1>6 DEF QueueReuse, long

\* The packets that recv completes on a session that was polled.
LEMMA ReceivedReuse ==
    ASSUME Inv, Reuse, NEW i \in Index, IsConnected(i), NoConnect(packetQue, i),
           NEW ids \in Seq(ClientIds)
    PROVE  /\ QueueReuse(Received(i, ids)) /\ NoConnect(Received(i, ids), i)
           /\ \A p \in 1 .. Len(Received(i, ids)) :
                Received(i, ids)[p].PacketId = "CONNECT" =>
                    p \in 1 .. Len(packetQue) /\ Received(i, ids)[p] = packetQue[p]
<1>1. /\ packetQue \in Seq(Event) /\ SessionSeq[i] <= connectSeq
      /\ TypeOK /\ SeqMatches
  BY DEF Inv, TypeOK, PoolMatches, Reuse, SeqsGiven
<1>2. PICK more \in Seq(Event) :
        /\ Received(i, ids) = packetQue \o more
        /\ \A a \in 1 .. Len(more) :
             /\ more[a].SessionIndex = i /\ more[a].seq = SessionSeq[i]
             /\ more[a].PacketId \in ClientIds
             /\ Before(more[a]) = SessionSeq[i] /\ After(more[a]) = SessionSeq[i]
  BY <1>1, ReceivedEvents
<1>3. \A a \in 1 .. Len(more) : /\ more[a].SessionIndex = i
                                /\ more[a].PacketId \in ClientIds
                                /\ more[a].seq <= connectSeq
  BY <1>1, <1>2
<1>4. QueueReuse(packetQue \o more) /\ NoConnect(packetQue \o more, i)
  BY <1>1, <1>3, QueueReuseExtend DEF Reuse
<1>5. \A p \in 1 .. Len(packetQue \o more) :
        (packetQue \o more)[p].PacketId = "CONNECT" =>
            p \in 1 .. Len(packetQue) /\ (packetQue \o more)[p] = packetQue[p]
  <2>1. \A a \in 1 .. Len(more) : more[a].PacketId # "CONNECT"
    BY <1>3 DEF ClientIds
  <2> QED BY <1>1, <2>1, ConcatEntries
<1> QED BY <1>2, <1>4, <1>5

-----------------------------------------------------------------------------
(* Every step preserves Reuse.                                             *)

LEMMA ReuseInit == Init => Reuse
<1> SUFFICES ASSUME Init PROVE Reuse
  OBVIOUS
<1>1. packetQue = << >> /\ Len(packetQue) = 0 /\ connectSeq = 0
  BY DEF Init
<1>2. QueueReuse(packetQue)
  BY <1>1 DEF Init, QueueReuse, ConnectsLast, Numbered, ClosedForGood, Announcing
<1>3. SeqsGiven /\ KnownIsRecent /\ SendBufferOwner
  BY <1>1 DEF Init, SeqsGiven, KnownIsRecent, SendBufferOwner
<1> QED BY <1>1, <1>2, <1>3 DEF Init, Reuse, PolledWatched, ConnectsUnpolled

\* Steps that leave alone what Reuse says of queue, pool and logic.
LEMMA SameReuse ==
    ASSUME Reuse,
           UNCHANGED <<SessionSeq, SendBuffer, connectSeq, packetQue, announced, prior, drained>>
    PROVE  /\ QueueReuse(packetQue)'
           /\ SeqsGiven' /\ KnownIsRecent' /\ SendBufferOwner'
BY DEF Reuse, QueueReuse, ConnectsLast, Last, Numbered, ClosedForGood, Announcing, NoConnect,
       Announces, SeqsGiven, KnownIsRecent, SendBufferOwner

LEMMA MovesReuse ==
    ASSUME Inv, Reuse, drained # "cut", Moves, ~DrainDone
    PROVE  Reuse'
<1>1. UNCHANGED <<SocketFD, SessionSeq, ReadFds, SendBuffer, connectSeq, packetQue,
                  announced, prior, drained>>
  BY DEF Moves, SelectNothing, SelectReady, AcceptDone, PollDone, DrainDone, LoopTest,
         Stop, PollSkip, CheckSkip, pool, logic
<1>2. PolledWatched' /\ ConnectsUnpolled'
  <2>1. CASE SelectReady
    <3>1. \A p \in 1 .. Len(packetQue) : packetQue[p].PacketId # "CONNECT"
      BY <2>1 DEF SelectReady, Inv, QueueInv, OnlyCloses
    <3> QED BY <1>1, <2>1, <3>1 DEF SelectReady, ReadSet, PolledWatched, ConnectsUnpolled
  <2>2. CASE AcceptDone \/ \E i \in Index : PollSkip(i)
    BY <1>1, <2>2 DEF AcceptDone, PollSkip, Polling, Reuse, PolledWatched, ConnectsUnpolled
  <2>3. CASE Stop
    BY <1>1, <2>3 DEF Stop, thread, Reuse, PolledWatched, ConnectsUnpolled
  <2>4. CASE SelectNothing \/ PollDone \/ LoopTest \/ \E i \in Index : CheckSkip(i)
    BY <2>4 DEF SelectNothing, PollDone, LoopTest, CheckSkip, PolledWatched,
                ConnectsUnpolled
  <2> QED BY <2>1, <2>2, <2>3, <2>4 DEF Moves
<1> QED BY <1>1, <1>2, SameReuse DEF Reuse

\* The free index at the front has no CONNECT in the queue, and the new
\* handle is none of those that select reported.
LEMMA NewSessionReuse == ASSUME Inv, Reuse, NewSession PROVE Reuse'
<1> DEFINE i == Head(clientSessionPoolIndex)
           e == RecvPacketInfo(i, "CONNECT", connectSeq + 1)
           n == Len(packetQue)
<1>1. PICK fd \in Sockets \ {SocketFD[j] : j \in Connected} : ConnectedSession(fd)
  BY DEF NewSession
<1>2. /\ packetQue \in Seq(Event) /\ connectSeq \in Nat
      /\ SessionSeq \in [Index -> Nat] /\ SocketFD \in [Index -> Sockets \cup {NoSocket}]
  BY DEF Inv, TypeOK
<1>3. i \in Index /\ SessionSeq[i] = 0
  <2>1. Holds(clientSessionPoolIndex, Index \ Connected, Index)
        /\ clientSessionPoolIndex \in Seq(Index) /\ clientSessionPoolIndex # << >>
    BY PartitionHolds DEF Inv, PoolMatches, TypeOK, NewSession
  <2>2. i \in Index \ Connected
    BY <2>1, TailHolds
  <2> QED BY <2>2 DEF Inv, PoolMatches, SeqMatches, Connected
<1>4. /\ packetQue' = Append(packetQue, e) /\ connectSeq' = connectSeq + 1
      /\ SessionSeq' = [SessionSeq EXCEPT ![i] = connectSeq + 1]
      /\ SocketFD' = [SocketFD EXCEPT ![i] = fd] /\ ReadFds' = ReadFds \cup {fd}
      /\ UNCHANGED <<SendBuffer, announced, prior, drained, pc, polled>>
  BY <1>1 DEF ConnectedSession, NewSession, logic
<1> HIDE DEF i
<1>5. /\ e \in Event /\ e.SessionIndex = i /\ e.PacketId = "CONNECT"
      /\ e.seq = connectSeq + 1
  BY <1>2, <1>3 DEF Event, RecvPacketInfo, PacketIds
<1> HIDE DEF e
<1>6. NoConnect(packetQue, i)
  <2> SUFFICES ASSUME NEW p \in 1 .. Len(packetQue), Announces(packetQue, p, i) PROVE FALSE
    BY DEF NoConnect
  <2>1. Last(packetQue, p) /\ packetQue[p] \in Event
    BY <1>2, ElementOfSeq DEF Reuse, QueueReuse, ConnectsLast, Announces
  <2>2. SessionSeq[i] = After(packetQue[p])
    BY <2>1 DEF Inv, QueueInv, EventsBracketed, Bracketed, Announces
  <2> QED BY <1>3, <2>1, <2>2 DEF After, Announces, Event
<1>7. /\ n \in Nat /\ Len(packetQue') = n + 1
      /\ \A p \in 1 .. n : packetQue'[p] = packetQue[p] /\ p \in 1 .. Len(packetQue')
                           /\ packetQue[p] \in Event
      /\ packetQue'[n + 1] = e /\ n + 1 \in 1 .. Len(packetQue')
      /\ \A p \in 1 .. Len(packetQue') : p \in 1 .. n \/ p = n + 1
  BY <1>2, <1>4, <1>5, AppendProperties, LenProperties, ElementOfSeq
<1>8. ConnectsLast(packetQue')
  <2> DEFINE more == <<e>>
  <2>1. /\ more \in Seq(Event) /\ Len(more) = 1 /\ more[1] = e
        /\ packetQue' = packetQue \o more
    BY <1>2, <1>4, <1>5, AppendIsConcat
  <2> HIDE DEF more
  <2>2. \A a \in 1 .. Len(more) : more[a] = e /\ a = Len(more)
    BY <2>1
  <2> QED BY <1>2, <1>3, <1>5, <1>6, <2>1, <2>2, ConnectsLastExtend DEF Reuse, QueueReuse
<1> HIDE DEF n
<1>9. fd \notin polled
  BY <1>1 DEF NewSession, Reuse, PolledWatched, Inv, PoolMatches, ReadFdsMatch
<1>10. PolledWatched' /\ ConnectsUnpolled'
  <2>1. PolledWatched'
    BY <1>4 DEF Reuse, PolledWatched
  <2>2. ASSUME NEW p \in 1 .. Len(packetQue'), packetQue'[p].PacketId = "CONNECT"
        PROVE  SocketFD'[packetQue'[p].SessionIndex] \notin polled
    <3>1. CASE p = n + 1
      BY <1>2, <1>3, <1>4, <1>5, <1>7, <1>9, <3>1
    <3>2. CASE p \in 1 .. n
      <4>1. /\ packetQue[p].PacketId = "CONNECT" /\ packetQue[p].SessionIndex \in Index
            /\ packetQue[p].SessionIndex # i /\ packetQue'[p] = packetQue[p]
        BY <1>6, <1>7, <2>2, <3>2 DEF NoConnect, Announces, n, Event
      <4>2. SocketFD[packetQue[p].SessionIndex] \notin polled
        BY <3>2, <4>1 DEF Reuse, ConnectsUnpolled, NewSession, n
      <4> QED BY <1>2, <1>4, <4>1, <4>2
    <3> QED BY <1>7, <3>1, <3>2
  <2> QED BY <1>4, <2>1, <2>2 DEF ConnectsUnpolled
<1>11. Numbered(packetQue)'
  <2>1. \A p \in 1 .. n : packetQue[p].seq <= connectSeq /\ packetQue[p].seq \in Nat
    BY <1>7 DEF Reuse, QueueReuse, Numbered, n, Event
  <2> QED BY <1>2, <1>4, <1>5, <1>7, <2>1 DEF Numbered
<1>12. ClosedForGood(packetQue)'
  <2> SUFFICES ASSUME NEW p \in 1 .. Len(packetQue'), packetQue'[p].PacketId = "CLOSE"
               PROVE  packetQue'[p].seq # SessionSeq'[packetQue'[p].SessionIndex]
    BY DEF ClosedForGood
  <2>1. p \in 1 .. n /\ packetQue'[p] = packetQue[p] /\ packetQue[p] \in Event
    BY <1>5, <1>7
  <2>2. /\ packetQue[p].seq <= connectSeq /\ packetQue[p].seq \in Nat
        /\ packetQue[p].SessionIndex \in Index
        /\ packetQue[p].seq # SessionSeq[packetQue[p].SessionIndex]
    BY <2>1 DEF Reuse, QueueReuse, Numbered, ClosedForGood, Event, n
  <2> QED BY <1>2, <1>4, <2>1, <2>2
<1>13. Announcing(packetQue)'
  <2> SUFFICES ASSUME NEW j \in Index, SessionSeq'[j] # 0, announced'[j] # SessionSeq'[j]
               PROVE  \E p \in 1 .. Len(packetQue') : Announces(packetQue', p, j)
    BY DEF Announcing, NoConnect
  <2>1. CASE j = i
    BY <1>5, <1>7, <2>1 DEF Announces
  <2>2. CASE j # i
    <3>1. SessionSeq[j] # 0 /\ announced[j] # SessionSeq[j]
      BY <1>2, <1>4, <2>2
    <3>2. PICK p \in 1 .. n : Announces(packetQue, p, j)
      BY <3>1 DEF Reuse, QueueReuse, Announcing, NoConnect, n
    <3> QED BY <1>7, <3>2 DEF Announces
  <2> QED BY <2>1, <2>2
<1>14. SeqsGiven'
  BY <1>2, <1>4 DEF Reuse, SeqsGiven
<1>15. KnownIsRecent'
  BY <1>2, <1>3, <1>4 DEF Reuse, KnownIsRecent
<1>16. SendBufferOwner'
  BY <1>2, <1>3, <1>4 DEF Reuse, SendBufferOwner
<1>17. ConnectsLast(packetQue)'
  BY <1>8 DEF ConnectsLast, Last
<1> QED BY <1>10, <1>11, <1>12, <1>13, <1>14, <1>15, <1>16, <1>17 DEF Reuse, QueueReuse

LEMMA NewSessionPoolEmptyReuse == ASSUME Inv, Reuse, NewSessionPoolEmpty PROVE Reuse'
<1>1. UNCHANGED <<SocketFD, SessionSeq, SendBuffer, connectSeq, packetQue, announced, prior,
                  drained, polled>> /\ pc = "accept" /\ pc' = "poll"
  BY DEF NewSessionPoolEmpty, logic
<1>2. PolledWatched' /\ ConnectsUnpolled'
  BY <1>1 DEF Reuse, PolledWatched, ConnectsUnpolled
<1> QED BY <1>1, <1>2, SameReuse DEF Reuse

\* A session that is polled and reported ready has no CONNECT in the queue.
LEMMA ReadyIsOld ==
    ASSUME Reuse, NEW i \in Index, Polling(i), Ready(i)
    PROVE  NoConnect(packetQue, i)
BY DEF Reuse, ConnectsUnpolled, Polling, Ready, NoConnect, Announces

LEMMA PollServeReuse == ASSUME Inv, Reuse, NEW i \in Index, PollServe(i) PROVE Reuse'
<1>1. PICK ids \in Receivable : packetQue' = Received(i, ids)
  BY DEF PollServe
<1>2. PICK n \in 0 .. Len(SendBuffer[i]) :
        SendBuffer' = [SendBuffer EXCEPT ![i] = SubSeq(@, n + 1, Len(@))]
  BY DEF PollServe
<1>3. /\ IsConnected(i) /\ pc = "poll" /\ NoConnect(packetQue, i)
      /\ ids \in Seq(ClientIds)
      /\ UNCHANGED <<SocketFD, SessionSeq, connectSeq, announced, prior, drained, pc, polled>>
  BY ReadyIsOld, ReceivableSeq DEF PollServe, Polling, Ready, pool, logic
<1>4. /\ QueueReuse(packetQue')
      /\ \A p \in 1 .. Len(packetQue') : packetQue'[p].PacketId = "CONNECT" =>
           p \in 1 .. Len(packetQue) /\ packetQue'[p] = packetQue[p]
  BY <1>1, <1>3, ReceivedReuse
<1>5. QueueReuse(packetQue)'
  BY <1>3, <1>4 DEF QueueReuse, ConnectsLast, Last, Numbered, ClosedForGood, Announcing,
                    NoConnect, Announces
<1>6. PolledWatched' /\ ConnectsUnpolled'
  BY <1>3, <1>4 DEF Reuse, PolledWatched, ConnectsUnpolled
<1>7. SendBufferOwner'
  <2> DEFINE b == SendBuffer[i]
             c == SubSeq(b, n + 1, Len(b))
  <2>1. /\ SendBuffer \in [Index -> Seq(Nat)] /\ b \in Seq(Nat) /\ Len(b) \in Nat
        /\ n \in 0 .. Len(b)
    BY LenProperties DEF Inv, TypeOK
  <2>2. /\ Len(c) = Len(b) - n
        /\ \A a \in 1 .. Len(b) - n : c[a] = b[n + a] /\ n + a \in 1 .. Len(b)
    <3> HIDE DEF b
    <3>1. n + 1 \in Int /\ \A a \in n + 1 .. Len(b) : a \in 1 .. Len(b)
      BY <2>1
    <3>2. \A a \in n + 1 .. Len(b) : b[a] \in Nat
      BY <2>1, <3>1, ElementOfSeq
    <3>3. /\ Len(c) = IF n + 1 <= Len(b) THEN Len(b) - (n + 1) + 1 ELSE 0
          /\ \A a \in 1 .. Len(b) - (n + 1) + 1 : c[a] = b[n + 1 + a - 1]
      BY <2>1, <3>1, <3>2, SubSeqProperties
    <3> HIDE DEF c
    <3>4. Len(c) = Len(b) - n
      BY <2>1, <3>3
    <3>5. \A a \in 1 .. Len(b) - n :
            a \in 1 .. Len(b) - (n + 1) + 1 /\ n + 1 + a - 1 = n + a /\ n + a \in 1 .. Len(b)
      BY <2>1
    <3> QED BY <3>3, <3>4, <3>5
  <2>3. \A j \in Index : SendBuffer'[j] = IF j = i THEN c ELSE SendBuffer[j]
    BY <1>2, <2>1
  <2> SUFFICES ASSUME drained = "always", NEW j \in Index, NEW a \in 1 .. Len(SendBuffer'[j])
               PROVE  SendBuffer'[j][a] \in {prior[j], SessionSeq[j]} \ {0}
    BY <1>3 DEF SendBufferOwner
  <2>4. \E q \in 1 .. Len(SendBuffer[j]) : SendBuffer'[j][a] = SendBuffer[j][q]
    <3> HIDE DEF c
    <3>1. CASE j = i
      BY <2>2, <2>3, <3>1
    <3>2. CASE j # i
      BY <2>3, <3>2
    <3> QED BY <3>1, <3>2
  <2> QED BY <2>4 DEF Reuse, SendBufferOwner
<1>8. SeqsGiven' /\ KnownIsRecent'
  BY <1>3 DEF Reuse, SeqsGiven, KnownIsRecent
<1> QED BY <1>5, <1>6, <1>7, <1>8 DEF Reuse

\* A close on an index whose connection the logic has heard of: after it the
\* logic is one connection behind, and the send buffer is empty.
LEMMA CloseReuse ==
    ASSUME Inv, Reuse, NEW i \in Index, IsConnected(i), pc # "accept",
           NEW que \in Seq(Event), QueueReuse(que), NoConnect(que, i),
           \A p \in 1 .. Len(que) : que[p].PacketId = "CONNECT" =>
               p \in 1 .. Len(packetQue) /\ que[p] = packetQue[p],
           CloseSession(i, que), UNCHANGED <<connectSeq, announced, drained, pc, polled>>
    PROVE  Reuse'
<1> DEFINE e == RecvPacketInfo(i, "CLOSE", SessionSeq[i])
           more == <<e>>
           n == Len(que)
<1>1. /\ SessionSeq \in [Index -> Nat] /\ SocketFD \in [Index -> Sockets \cup {NoSocket}]
      /\ SendBuffer \in [Index -> Seq(Nat)] /\ prior \in [Index -> Nat]
      /\ connectSeq \in Nat /\ SessionSeq[i] # 0
  BY DEF Inv, TypeOK, PoolMatches, SeqMatches
<1>2. /\ packetQue' = Append(que, e) /\ SessionSeq' = [SessionSeq EXCEPT ![i] = 0]
      /\ SocketFD' = [SocketFD EXCEPT ![i] = NoSocket]
      /\ SendBuffer' = [SendBuffer EXCEPT ![i] = << >>]
      /\ prior' = [prior EXCEPT ![i] = SessionSeq[i]]
  BY DEF CloseSession, CloseQueued, BufferCleared
<1>3. /\ e \in Event /\ e.SessionIndex = i /\ e.PacketId = "CLOSE" /\ e.seq = SessionSeq[i]
  BY <1>1 DEF Event, RecvPacketInfo, PacketIds
<1> HIDE DEF e
<1>4. /\ more \in Seq(Event) /\ Len(more) = 1 /\ more[1] = e
      /\ packetQue' = que \o more
  BY <1>2, <1>3, AppendIsConcat
<1>5. \A a \in 1 .. Len(more) : more[a] = e
  BY <1>4
<1> HIDE DEF more
<1>6. ConnectsLast(packetQue')
  BY <1>3, <1>4, <1>5, ConnectsLastExtend DEF QueueReuse
<1>7. /\ n \in Nat /\ Len(packetQue') = n + 1
      /\ \A p \in 1 .. n : packetQue'[p] = que[p] /\ p \in 1 .. Len(packetQue')
                           /\ que[p] \in Event
      /\ packetQue'[n + 1] = e
      /\ \A p \in 1 .. Len(packetQue') : p \in 1 .. n \/ p = n + 1
  BY <1>2, <1>3, AppendProperties, LenProperties, ElementOfSeq
<1>8. ConnectsLast(packetQue)'
  BY <1>6 DEF ConnectsLast, Last
<1>9. Numbered(packetQue)'
  <2>1. \A p \in 1 .. n : que[p].seq <= connectSeq
    BY DEF QueueReuse, Numbered
  <2>2. e.seq <= connectSeq
    BY <1>3 DEF Reuse, SeqsGiven
  <2> QED BY <1>7, <2>1, <2>2 DEF Numbered
<1>10. ClosedForGood(packetQue)'
  <2> SUFFICES ASSUME NEW p \in 1 .. Len(packetQue'), packetQue'[p].PacketId = "CLOSE"
               PROVE  packetQue'[p].seq # SessionSeq'[packetQue'[p].SessionIndex]
    BY DEF ClosedForGood
  <2>1. CASE p = n + 1
    BY <1>1, <1>2, <1>3, <1>7, <2>1
  <2>2. CASE p \in 1 .. n
    <3>1. /\ packetQue'[p] = que[p] /\ que[p].SessionIndex \in Index
          /\ que[p].seq \in Nat \ {0}
      BY <1>7, <2>2 DEF Event
    <3>2. que[p].seq # SessionSeq[que[p].SessionIndex]
      BY <2>2, <3>1 DEF QueueReuse, ClosedForGood
    <3> QED BY <1>1, <1>2, <3>1, <3>2
  <2> QED BY <1>7, <2>1, <2>2
<1>11. Announcing(packetQue)'
  <2> SUFFICES ASSUME NEW j \in Index, SessionSeq'[j] # 0, announced'[j] # SessionSeq'[j]
               PROVE  \E p \in 1 .. Len(packetQue') : Announces(packetQue', p, j)
    BY DEF Announcing, NoConnect
  <2>1. j # i /\ SessionSeq[j] # 0 /\ announced[j] # SessionSeq[j]
    BY <1>1, <1>2
  <2>2. PICK p \in 1 .. n : Announces(que, p, j)
    BY <2>1 DEF QueueReuse, Announcing, NoConnect
  <2> QED BY <1>7, <2>2 DEF Announces
<1>12. ConnectsUnpolled'
  <2> SUFFICES ASSUME NEW p \in 1 .. Len(packetQue'), packetQue'[p].PacketId = "CONNECT",
                      pc = "poll"
               PROVE  SocketFD'[packetQue'[p].SessionIndex] \notin polled
    BY DEF ConnectsUnpolled
  <2>1. p \in 1 .. n /\ packetQue'[p] = que[p]
    BY <1>3, <1>7
  <2>2. /\ p \in 1 .. Len(packetQue) /\ que[p] = packetQue[p]
        /\ que[p].PacketId = "CONNECT"
    BY <2>1
  <2>3. que[p].SessionIndex \in Index /\ que[p].SessionIndex # i
    BY <1>7, <2>1, <2>2 DEF NoConnect, Announces, Event
  <2>4. SocketFD[que[p].SessionIndex] \notin polled
    BY <2>2 DEF Reuse, ConnectsUnpolled
  <2> QED BY <1>1, <1>2, <2>1, <2>3, <2>4
<1>13. KnownIsRecent'
  <2>1. announced[i] = SessionSeq[i]
    BY <1>1 DEF QueueReuse, Announcing
  <2> QED BY <1>1, <1>2, <2>1 DEF Reuse, KnownIsRecent
<1>14. SeqsGiven'
  BY <1>1, <1>2 DEF Reuse, SeqsGiven
<1>15. SendBufferOwner'
  <2> SUFFICES ASSUME drained = "always", NEW j \in Index, NEW k \in 1 .. Len(SendBuffer'[j])
               PROVE  SendBuffer'[j][k] \in {prior'[j], SessionSeq'[j]} \ {0}
    BY DEF SendBufferOwner
  <2>1. j # i
    BY <1>1, <1>2
  <2>2. /\ SendBuffer'[j] = SendBuffer[j] /\ prior'[j] = prior[j]
        /\ SessionSeq'[j] = SessionSeq[j]
    BY <1>1, <1>2, <2>1
  <2> QED BY <2>2 DEF Reuse, SendBufferOwner
<1>16. PolledWatched'
  BY DEF PolledWatched
<1> QED BY <1>8, <1>9, <1>10, <1>11, <1>12, <1>13, <1>14, <1>15, <1>16 DEF Reuse, QueueReuse

LEMMA PollErrorReuse ==
    ASSUME Inv, Reuse, NEW i \in Index, PollReceiveError(i) \/ PollSendError(i) PROVE Reuse'
<1>1. PICK ids \in Receivable : CloseSession(i, Received(i, ids))
  BY DEF PollReceiveError, PollSendError
<1>2. /\ IsConnected(i) /\ pc = "poll" /\ NoConnect(packetQue, i)
      /\ ids \in Seq(ClientIds)
      /\ UNCHANGED <<connectSeq, announced, drained, pc, polled>>
  BY ReadyIsOld, ReceivableSeq
     DEF PollReceiveError, PollSendError, Polling, Ready, logic
<1>3. Received(i, ids) \in Seq(Event)
  BY <1>2, ReceivedQueue DEF Inv, PoolMatches, QueueInv
<1>4. /\ QueueReuse(Received(i, ids)) /\ NoConnect(Received(i, ids), i)
      /\ \A p \in 1 .. Len(Received(i, ids)) : Received(i, ids)[p].PacketId = "CONNECT" =>
           p \in 1 .. Len(packetQue) /\ Received(i, ids)[p] = packetQue[p]
  BY <1>2, ReceivedReuse
<1> QED BY <1>1, <1>2, <1>3, <1>4, CloseReuse

\* After the drain nothing is queued for an open session.
LEMMA ForcedCloseReuse ==
    ASSUME Inv, Reuse, drained # "cut", NEW i \in Index, ForcedClose(i)
    PROVE  Reuse'
<1>1. /\ IsConnected(i) /\ pc = "check" /\ CloseSession(i, packetQue)
      /\ UNCHANGED <<connectSeq, announced, drained, pc, polled>>
  BY DEF ForcedClose, logic
<1>2. NoConnect(packetQue, i) /\ packetQue \in Seq(Event)
  BY <1>1 DEF Inv, TypeOK, QueueInv, OnlyCloses, NoConnect, Announces
<1>3. QueueReuse(packetQue)
  BY DEF Reuse
<1> QED BY <1>1, <1>2, <1>3, CloseReuse

-----------------------------------------------------------------------------
(* The drain.                                                              *)

\* SendData appends what it was given.
LEMMA SendDataEntries ==
    ASSUME NEW buffer \in Seq(Nat), NEW s \in Nat, NEW n \in Nat,
           NEW k \in 1 .. Len(SendData(buffer, s, n))
    PROVE  \/ k \in 1 .. Len(buffer) /\ SendData(buffer, s, n)[k] = buffer[k]
           \/ n # 0 /\ SendData(buffer, s, n)[k] = s
<1> DEFINE m == IF n <= SendMax - Len(buffer) THEN n ELSE SendMax - Len(buffer)
           c == IF m < 0 THEN 0 ELSE m
           more == [j \in 1 .. c |-> s]
<1>1. SendMax \in Nat /\ Len(buffer) \in Nat
  BY SizesAssumption, LenProperties
<1>2. m \in Int /\ (n = 0 => m <= 0)
  BY <1>1
<1> HIDE DEF m
<1>3. c \in Nat /\ 1 .. m = 1 .. c /\ (n = 0 => c = 0)
  BY <1>2
<1> HIDE DEF c
<1>4. more \in Seq(Nat) /\ Len(more) = c /\ \A a \in 1 .. c : more[a] = s
  BY <1>3
<1>5. SendData(buffer, s, n) = buffer \o more
  BY <1>3 DEF SendData, m
<1> HIDE DEF more
<1>6. /\ Len(buffer \o more) = Len(buffer) + c
      /\ \A a \in 1 .. Len(buffer) + c :
           (buffer \o more)[a] = IF a <= Len(buffer) THEN buffer[a] ELSE more[a - Len(buffer)]
  BY <1>4, ConcatProperties
<1>7. k \in 1 .. Len(buffer) + c
  BY <1>5, <1>6
<1>8. CASE k <= Len(buffer)
  BY <1>1, <1>3, <1>5, <1>6, <1>7, <1>8
<1>9. CASE ~(k <= Len(buffer))
  <2>1. k - Len(buffer) \in 1 .. c /\ n # 0
    BY <1>1, <1>3, <1>7, <1>9
  <2> QED BY <1>4, <1>5, <1>6, <1>7, <1>9, <2>1
<1> QED BY <1>8, <1>9

\* Messages for sessions that the logic knows.
LEMMA SendToAllOwner ==
    ASSUME Inv, Reuse, SendToAll(announced, Known), UNCHANGED <<prior, SessionSeq, drained>>
    PROVE  SendBufferOwner'
<1>1. PICK n \in [Index -> 0 .. Burst] :
        /\ \A j \in Index \ Known : n[j] = 0
        /\ SendBuffer' = [j \in Index |-> SendData(SendBuffer[j], announced[j], n[j])]
  BY DEF SendToAll
<1> SUFFICES ASSUME drained = "always", NEW j \in Index, NEW k \in 1 .. Len(SendBuffer'[j])
             PROVE  SendBuffer'[j][k] \in {prior[j], SessionSeq[j]} \ {0}
  BY DEF SendBufferOwner
<1>2. /\ SendBuffer[j] \in Seq(Nat) /\ announced[j] \in Nat /\ n[j] \in Nat
      /\ SendBuffer'[j] = SendData(SendBuffer[j], announced[j], n[j])
  BY <1>1, SizesAssumption DEF Inv, TypeOK
<1>3. \/ k \in 1 .. Len(SendBuffer[j]) /\ SendBuffer'[j][k] = SendBuffer[j][k]
      \/ n[j] # 0 /\ SendBuffer'[j][k] = announced[j]
  BY <1>2, SendDataEntries
<1>4. n[j] # 0 => announced[j] \in {prior[j], SessionSeq[j]} \ {0}
  BY <1>1 DEF Known, Reuse, KnownIsRecent
<1> QED BY <1>3, <1>4 DEF Reuse, SendBufferOwner

\* A handler: the logic takes over what the packet leaves behind, which is
\* the open connection if the packet announces one.
LEMMA DrainReuse ==
    ASSUME Inv, Reuse, NEW id \in PacketIds, GetPacketInfo(id),
           announced' = [announced EXCEPT ![Pkt.SessionIndex] = After(Pkt)],
           UNCHANGED <<SocketFD, SessionSeq, connectSeq, prior, pc, polled>>,
           SendBufferOwner'
    PROVE  Reuse'
<1> DEFINE i == Pkt.SessionIndex
           n == Len(packetQue)
<1>1. /\ packetQue \in Seq(Event) /\ packetQue # << >> /\ pc = "drain"
      /\ announced \in [Index -> Nat] /\ SessionSeq \in [Index -> Nat]
  BY DEF GetPacketInfo, Inv, TypeOK
<1>2. /\ Pkt = packetQue[1] /\ Pkt \in Event /\ n \in Nat \ {0}
      /\ Len(packetQue') = n - 1
      /\ \A p \in 1 .. n - 1 : packetQue'[p] = packetQue[p + 1]
  BY <1>1, HeadTailProperties, EmptySeq DEF Pkt, GetPacketInfo
<1> HIDE DEF n
<1>3. /\ 1 \in 1 .. n
      /\ \A p \in 1 .. Len(packetQue') : p + 1 \in 1 .. n /\ packetQue'[p] = packetQue[p + 1]
      /\ \A p \in 1 .. n : p = 1 \/ (/\ p - 1 \in 1 .. Len(packetQue')
                                      /\ packetQue'[p - 1] = packetQue[p])
  BY <1>2
<1>4. i \in Index /\ Pkt.seq \in Nat \ {0} /\ announced[i] = Before(Pkt)
  BY <1>1, <1>2, PoppedQueue DEF Inv, QueueInv, Event
<1>5. ConnectsLast(packetQue)'
  <2> SUFFICES ASSUME NEW p \in 1 .. Len(packetQue'), packetQue'[p].PacketId = "CONNECT",
                      NEW r \in 1 .. Len(packetQue'), r > p
               PROVE  packetQue'[r].SessionIndex # packetQue'[p].SessionIndex
    BY DEF ConnectsLast, Last
  <2>1. p + 1 \in 1 .. n /\ r + 1 \in 1 .. n /\ r + 1 > p + 1
    BY <1>3
  <2>2. packetQue'[p] = packetQue[p + 1] /\ packetQue'[r] = packetQue[r + 1]
    BY <1>3
  <2>3. Last(packetQue, p + 1)
    BY <2>1, <2>2 DEF Reuse, QueueReuse, ConnectsLast, n
  <2> QED BY <2>1, <2>2, <2>3 DEF Last, n
<1>6. Numbered(packetQue)' /\ ClosedForGood(packetQue)'
  BY <1>3 DEF Reuse, QueueReuse, Numbered, ClosedForGood, n
<1>7. Pkt.PacketId = "CONNECT" => SessionSeq[i] = Pkt.seq
  <2> SUFFICES ASSUME Pkt.PacketId = "CONNECT" PROVE SessionSeq[i] = Pkt.seq
    OBVIOUS
  <2>1. Last(packetQue, 1)
    BY <1>2, <1>3 DEF Reuse, QueueReuse, ConnectsLast, n
  <2>2. SessionSeq[i] = After(Pkt)
    BY <1>2, <1>3, <2>1 DEF Inv, QueueInv, EventsBracketed, Bracketed, n
  <2> QED BY <2>2 DEF After
<1>8. Announcing(packetQue)'
  <2> SUFFICES ASSUME NEW j \in Index, SessionSeq[j] # 0, announced'[j] # SessionSeq[j]
               PROVE  \E p \in 1 .. Len(packetQue') : Announces(packetQue', p, j)
    BY DEF Announcing, NoConnect
  <2>1. announced[j] # SessionSeq[j] /\ ~Announces(packetQue, 1, j)
    <3>1. CASE j # i
      BY <1>1, <1>2, <1>4, <3>1 DEF Announces
    <3>2. CASE j = i
      <4>1. After(Pkt) # SessionSeq[i] /\ Pkt.PacketId # "CONNECT"
        BY <1>1, <1>4, <1>7, <3>2 DEF After
      <4>2. announced[i] = Pkt.seq
        BY <1>4, <4>1 DEF Before
      <4>3. Pkt.PacketId = "CLOSE" => Pkt.seq # SessionSeq[i]
        BY <1>2, <1>3 DEF Reuse, QueueReuse, ClosedForGood, n
      <4>4. Pkt.PacketId # "CLOSE" => Pkt.seq # SessionSeq[i]
        BY <4>1 DEF After
      <4> QED BY <1>2, <3>2, <4>1, <4>2, <4>3, <4>4 DEF Announces
    <3> QED BY <3>1, <3>2
  <2>2. PICK p \in 1 .. n : Announces(packetQue, p, j)
    BY <2>1 DEF Reuse, QueueReuse, Announcing, NoConnect, n
  <2>3. p - 1 \in 1 .. Len(packetQue') /\ packetQue'[p - 1] = packetQue[p]
    BY <1>3, <2>1, <2>2
  <2> QED BY <2>2, <2>3 DEF Announces
<1>9. KnownIsRecent'
  <2>1. After(Pkt) \in {0, announced[i], SessionSeq[i]}
    BY <1>4, <1>7 DEF After, Before
  <2> QED BY <1>1, <1>4, <2>1 DEF Reuse, KnownIsRecent
<1>10. SeqsGiven'
  BY DEF Reuse, SeqsGiven
<1>11. PolledWatched' /\ ConnectsUnpolled'
  BY <1>1 DEF PolledWatched, ConnectsUnpolled
<1> QED BY <1>5, <1>6, <1>8, <1>9, <1>10, <1>11 DEF Reuse, QueueReuse

LEMMA NtfSysConnctSessionReuse == ASSUME Inv, Reuse, NtfSysConnctSession PROVE Reuse'
<1>1. /\ GetPacketInfo("CONNECT") /\ "CONNECT" \in PacketIds /\ After(Pkt) = Pkt.seq
      /\ UNCHANGED <<SocketFD, SessionSeq, SendBuffer, connectSeq, prior, drained, pc, polled>>
  BY DEF NtfSysConnctSession, GetPacketInfo, PacketIds, After, pool, thread
<1>2. SendBufferOwner'
  BY <1>1 DEF Reuse, SendBufferOwner
<1> QED BY <1>1, <1>2, DrainReuse DEF NtfSysConnctSession

\* The packet's own connection is the one that the logic knows.
LEMMA ProcessDataReuse == ASSUME Inv, Reuse, ProcessData PROVE Reuse'
<1> DEFINE i == Pkt.SessionIndex
<1>1. /\ GetPacketInfo("DATA") /\ "DATA" \in PacketIds /\ Pkt.PacketId = "DATA"
      /\ packetQue # << >> /\ SendToAll([announced EXCEPT ![i] = Pkt.seq], Known \cup {i})
      /\ UNCHANGED <<SocketFD, SessionSeq, connectSeq, announced, prior, drained, pc, polled>>
  BY DEF ProcessData, GetPacketInfo, PacketIds, ClientIds, pool, thread, logic
<1>2. Pkt \in Event /\ announced[i] = Before(Pkt) /\ announced \in [Index -> Nat]
  BY <1>1, PoppedQueue DEF Inv, TypeOK, QueueInv
<1>3. /\ i \in Index /\ announced[i] = Pkt.seq /\ Pkt.seq # 0
      /\ After(Pkt) = Pkt.seq
  BY <1>1, <1>2 DEF Before, After, Event
<1>4. [announced EXCEPT ![i] = Pkt.seq] = announced /\ Known \cup {i} = Known
  BY <1>2, <1>3 DEF Known
<1>5. SendBufferOwner'
  BY <1>1, <1>4, SendToAllOwner
<1> QED BY <1>1, <1>3, <1>4, <1>5, DrainReuse

LEMMA NtfSysCloseSessionReuse == ASSUME Inv, Reuse, NtfSysCloseSession PROVE Reuse'
<1>1. /\ GetPacketInfo("CLOSE") /\ "CLOSE" \in PacketIds /\ After(Pkt) = 0
      /\ SendToAll(announced, Known)
      /\ UNCHANGED <<SocketFD, SessionSeq, connectSeq, prior, drained, pc, polled>>
  BY DEF NtfSysCloseSession, GetPacketInfo, PacketIds, After, pool, thread
<1>2. SendBufferOwner'
  BY <1>1, SendToAllOwner
<1> QED BY <1>1, <1>2, DrainReuse DEF NtfSysCloseSession

\* A handler leaves drained alone, and every other step but those that end
\* a drain.
LEMMA ReuseNext ==
    ASSUME Inv, Reuse, drained # "cut", [Next]_vars, ~DrainDone, ~DrainCut
    PROVE  Reuse' /\ drained' = drained
<1>0. drained' = drained
  BY DEF Next, LogicThread, SelectNothing, SelectReady, Accepting, AcceptDone, NewSession,
         NewSessionPoolEmpty, PollOne, PollSkip, PollServe, PollReceiveError, PollSendError,
         PollDone, Draining, NtfSysConnctSession, ProcessData, NtfSysCloseSession, ForcedClose,
         CheckSkip, LoopTest, Stop, Stopped, vars, logic
<1>1. CASE Moves
  BY <1>0, <1>1, MovesReuse
<1>2. CASE NewSession
  BY <1>0, <1>2, NewSessionReuse
<1>3. CASE NewSessionPoolEmpty
  BY <1>0, <1>3, NewSessionPoolEmptyReuse
<1>4. CASE \E i \in Index : PollServe(i)
  BY <1>0, <1>4, PollServeReuse
<1>5. CASE \E i \in Index : PollReceiveError(i) \/ PollSendError(i)
  BY <1>0, <1>5, PollErrorReuse
<1>6. CASE \E i \in Index : ForcedClose(i)
  BY <1>0, <1>6, ForcedCloseReuse
<1>7. CASE NtfSysConnctSession \/ ProcessData \/ NtfSysCloseSession
  BY <1>0, <1>7, NtfSysConnctSessionReuse, ProcessDataReuse,
     NtfSysCloseSessionReuse
<1>8. CASE UNCHANGED vars
  BY <1>8, SameReuse DEF vars, Reuse, PolledWatched, ConnectsUnpolled
<1> QED BY <1>0, <1>1, <1>2, <1>3, <1>4, <1>5, <1>6, <1>7, <1>8
        DEF Next, LogicThread, Accepting, PollOne, Draining, Moves, Stopped

-----------------------------------------------------------------------------
(* What select reported.                                                   *)

LEMMA PollsInit == Init => Polls
BY DEF Init, Polls, SeqsGiven, PolledWatched, PolledIsOld

\* Steps that neither accept nor close, nor call select.
LEMMA SamePolls ==
    ASSUME Polls, UNCHANGED <<SocketFD, SessionSeq, connectSeq, tryCount, polled>>,
           pc' = "accept" => pc = "accept" /\ ReadFds' = ReadFds,
           pc' = "poll" => pc \in {"accept", "poll"}
    PROVE  Polls'
BY DEF Polls, SeqsGiven, PolledWatched, PolledIsOld, Connected, IsConnected

\* The numbers given in this Run are above those of the sessions that select
\* looked at, and the new handle is none of those that it reported.
LEMMA NewSessionPolls == ASSUME Inv, Polls, NewSession PROVE Polls'
<1> DEFINE i == Head(clientSessionPoolIndex)
<1>1. PICK fd \in Sockets \ {SocketFD[j] : j \in Connected} : ConnectedSession(fd)
  BY DEF NewSession
<1>2. /\ connectSeq \in Nat /\ tryCount \in Nat
      /\ SessionSeq \in [Index -> Nat] /\ SocketFD \in [Index -> Sockets \cup {NoSocket}]
  BY SizesAssumption DEF Inv, TypeOK
<1>3. i \in Index
  <2>1. Holds(clientSessionPoolIndex, Index \ Connected, Index)
        /\ clientSessionPoolIndex \in Seq(Index) /\ clientSessionPoolIndex # << >>
    BY PartitionHolds DEF Inv, PoolMatches, TypeOK, NewSession
  <2> QED BY <2>1, TailHolds
<1>4. /\ connectSeq' = connectSeq + 1 /\ tryCount' = tryCount + 1
      /\ SessionSeq' = [SessionSeq EXCEPT ![i] = connectSeq + 1]
      /\ SocketFD' = [SocketFD EXCEPT ![i] = fd] /\ ReadFds' = ReadFds \cup {fd}
      /\ UNCHANGED <<pc, polled>> /\ pc = "accept"
  BY <1>1 DEF ConnectedSession, NewSession
<1> HIDE DEF i
<1>5. fd \notin polled
  BY <1>1, <1>4 DEF Polls, PolledWatched, Inv, PoolMatches, ReadFdsMatch
<1>6. SeqsGiven'
  BY <1>2, <1>3, <1>4 DEF Polls, SeqsGiven
<1>7. PolledWatched'
  BY <1>4 DEF Polls, PolledWatched
<1>8. ASSUME NEW j \in Index, SocketFD'[j] # NoSocket,
             SessionSeq'[j] + tryCount' > connectSeq'
      PROVE  SocketFD'[j] \notin polled
  <2>1. CASE j = i
    BY <1>2, <1>3, <1>4, <1>5, <2>1
  <2>2. CASE j # i
    <3>1. /\ SocketFD'[j] = SocketFD[j] /\ SessionSeq'[j] = SessionSeq[j]
          /\ SessionSeq[j] \in Nat
      BY <1>2, <1>4, <2>2
    <3>2. SessionSeq[j] + tryCount > connectSeq
      BY <1>2, <1>4, <1>8, <3>1
    <3> QED BY <1>4, <1>8, <3>1, <3>2 DEF Polls, PolledIsOld, Connected, IsConnected
  <2> QED BY <2>1, <2>2
<1>9. PolledIsOld'
  BY <1>4, <1>8 DEF PolledIsOld, Connected, IsConnected
<1> QED BY <1>6, <1>7, <1>9 DEF Polls

LEMMA ClosePolls ==
    ASSUME Inv, Polls, NEW i \in Index, NEW que, CloseSession(i, que), pc # "accept",
           UNCHANGED <<connectSeq, pc, tryCount, polled>>
    PROVE  Polls'
<1>1. /\ connectSeq \in Nat /\ SessionSeq \in [Index -> Nat]
      /\ SocketFD \in [Index -> Sockets \cup {NoSocket}]
  BY DEF Inv, TypeOK
<1>2. /\ SessionSeq' = [SessionSeq EXCEPT ![i] = 0]
      /\ SocketFD' = [SocketFD EXCEPT ![i] = NoSocket]
  BY DEF CloseSession
<1>3. SeqsGiven'
  BY <1>1, <1>2 DEF Polls, SeqsGiven
<1>4. PolledWatched'
  BY DEF PolledWatched
<1>5. PolledIsOld'
  BY <1>1, <1>2 DEF Polls, PolledIsOld, Connected, IsConnected
<1> QED BY <1>3, <1>4, <1>5 DEF Polls

LEMMA PollsNext == Inv /\ Polls /\ [Next]_vars => Polls'
<1> SUFFICES ASSUME Inv, Polls, [Next]_vars PROVE Polls'
  OBVIOUS
<1>1. CASE SelectReady
  <2>1. \A i \in Index : SessionSeq[i] \in Nat /\ SessionSeq[i] <= connectSeq
    BY DEF Inv, TypeOK, Polls, SeqsGiven
  <2>2. /\ UNCHANGED <<SessionSeq, SocketFD, connectSeq, ReadFds>> /\ tryCount' = 0
        /\ polled' = ReadFds /\ connectSeq \in Nat
    BY <1>1 DEF SelectReady, ReadSet, pool, Inv, TypeOK
  <2>3. \A i \in Index : ~(SessionSeq[i] + 0 > connectSeq)
    BY <2>1, <2>2
  <2> QED BY <2>1, <2>2, <2>3 DEF Polls, SeqsGiven, PolledWatched, PolledIsOld, Connected
<1>2. CASE NewSession
  BY <1>2, NewSessionPolls
<1>3. CASE \E i \in Index : PollReceiveError(i) \/ PollSendError(i) \/ ForcedClose(i)
  <2>1. PICK i \in Index : PollReceiveError(i) \/ PollSendError(i) \/ ForcedClose(i)
    BY <1>3
  <2>2. PICK que : CloseSession(i, que)
    BY <2>1 DEF PollReceiveError, PollSendError, ForcedClose
  <2>3. pc # "accept" /\ UNCHANGED <<connectSeq, pc, tryCount, polled>>
    BY <2>1 DEF PollReceiveError, PollSendError, ForcedClose, Polling
  <2> QED BY <2>2, <2>3, ClosePolls
<1>4. CASE ~(SelectReady \/ NewSession
             \/ \E i \in Index : PollReceiveError(i) \/ PollSendError(i) \/ ForcedClose(i))
  <2>1. /\ UNCHANGED <<SocketFD, SessionSeq, connectSeq, tryCount, polled>>
        /\ pc' = "accept" => pc = "accept" /\ ReadFds' = ReadFds
        /\ pc' = "poll" => pc \in {"accept", "poll"}
    BY <1>4 DEF Next, LogicThread, SelectNothing, Accepting, AcceptDone, NewSessionPoolEmpty,
                PollOne, PollSkip, PollServe, Polling, PollDone, Draining, DrainDone, DrainCut,
                NtfSysConnctSession, ProcessData, NtfSysCloseSession, GetPacketInfo,
                CheckSkip, LoopTest, Stop, Stopped, vars, pool, thread
  <2> QED BY <2>1, SamePolls
<1> QED BY <1>1, <1>2, <1>3, <1>4

LEMMA PollsCorrect == Spec => []Polls
BY PollsInit, PollsNext, InvCorrect, PTL DEF Spec

-----------------------------------------------------------------------------
(* The end of a drain.                                                     *)

\* When the queue is empty the logic knows what the pool holds, and every
\* index starts afresh.
LEMMA FreshReuse ==
    Inv /\ Polls /\ packetQue = << >> /\ pc = "check" /\ SendBufferOwner => Reuse
<1> SUFFICES ASSUME Inv, Polls, packetQue = << >>, pc = "check", SendBufferOwner PROVE Reuse
  OBVIOUS
<1>1. Len(packetQue) = 0
  OBVIOUS
<1>2. \A i \in Index : announced[i] = SessionSeq[i]
  BY <1>1 DEF Inv, QueueInv, EventsBracketed, Bracketed
<1>3. QueueReuse(packetQue)
  BY <1>1, <1>2 DEF QueueReuse, ConnectsLast, Numbered, ClosedForGood, Announcing
<1>4. PolledWatched /\ ConnectsUnpolled /\ SeqsGiven
  BY DEF PolledWatched, ConnectsUnpolled, Polls
<1> QED BY <1>2, <1>3, <1>4 DEF Reuse, KnownIsRecent

LEMMA KeptNext ==
    ASSUME Inv, Polls, Kept, [Next]_vars, Inv', Polls'
    PROVE  Kept'
<1>1. CASE DrainDone \/ DrainCut
  <2>1. /\ UNCHANGED <<SendBuffer, SessionSeq, prior>> /\ pc' = "check"
        /\ drained' # "cut" => packetQue' = << >> /\ drained' = Emptied
    BY <1>1 DEF DrainDone, DrainCut, QueueEmpty, pool
  <2>2. SUFFICES ASSUME drained' # "cut" PROVE Reuse'
    BY DEF Kept
  <2>3. SendBufferOwner'
    <3>1. drained' = "always" => drained = "always"
      BY <2>1, <2>2 DEF Emptied
    <3> QED BY <2>1, <3>1 DEF Kept, Reuse, SendBufferOwner
  <2>4. (Inv /\ Polls /\ packetQue = << >> /\ pc = "check" /\ SendBufferOwner => Reuse)'
    BY FreshReuse, PTL
  <2> QED BY <2>1, <2>2, <2>3, <2>4
<1>2. CASE ~DrainDone /\ ~DrainCut
  <2>1. CASE drained # "cut"
    BY <1>2, <2>1, ReuseNext DEF Kept
  <2>2. CASE drained = "cut"
    <3>1. drained' = drained
      BY <1>2 DEF Next, LogicThread, SelectNothing, SelectReady, Accepting, AcceptDone,
                  NewSession, NewSessionPoolEmpty, PollOne, PollSkip, PollServe,
                  PollReceiveError, PollSendError, PollDone, Draining, NtfSysConnctSession,
                  ProcessData, NtfSysCloseSession, ForcedClose, CheckSkip, LoopTest, Stop,
                  Stopped, vars, logic
    <3> QED BY <2>2, <3>1 DEF Kept
  <2> QED BY <2>1, <2>2
<1> QED BY <1>1, <1>2

LEMMA KeptCorrect == Spec => []Kept
<1>1. Init => Kept
  BY ReuseInit DEF Kept
<1>2. Inv /\ Polls /\ Kept /\ [Next]_vars /\ Inv' /\ Polls' => Kept'
  BY KeptNext
<1> QED BY <1>1, <1>2, InvCorrect, PollsCorrect, PTL DEF Spec

-----------------------------------------------------------------------------
(* The theorems.                                                           *)

\* A session accepted after select is never read or written in that Run, on
\* whatever handle, however many sessions a Run accepts and closes and
\* whatever a drain has left in the queue.
THEOREM PolledIsOldCorrect == Spec => []PolledIsOld
<1>1. Polls => PolledIsOld
  BY DEF Polls
<1> QED BY <1>1, PollsCorrect, PTL

\* Nothing is queued behind the CONNECT of an index: two connections of an
\* index never overlap in a drain, in a pool of any size, as long as the
\* drain before it has emptied the queue.
THEOREM ConnectIsLastCorrect == Spec => []ConnectIsLast
<1>1. Kept => ConnectIsLast
  BY DEF Kept, Reuse, QueueReuse, ConnectsLast, ConnectIsLast
<1> QED BY <1>1, KeptCorrect, PTL

\* A client is sent what was meant for it or for the connection just before
\* it, never for an older one, whatever the handlers send and drop, as long
\* as every drain has emptied the queue.
THEOREM SendBufferOwnerCorrect == Spec => []SendBufferOwner
<1>1. Kept => SendBufferOwner
  BY DEF Kept, Reuse, SendBufferOwner
<1> QED BY <1>1, KeptCorrect, PTL
=============================================================================
