----------------------------- MODULE TCPNetWork -----------------------------
(***************************************************************************)
(* The network layer (MDServerNetLib::TCPNetWork) under the loop that      *)
(* drives it (LogicMain::Run): one logic thread alternates between         *)
(* TCPNetWork::Run (select, accept, poll every session), draining          *)
(* packetQue through the packet processor, and StateCheck.  The clients    *)
(* and the operating system are the environment: they decide which sockets *)
(* are ready, what a recv or a send returns, and which handle an accept    *)
(* yields.  The main thread only clears m_IsRun.                           *)
(*                                                                         *)
(* The packet processor is abstracted to what the network layer sees of    *)
(* it: handling a packet writes messages into the send buffers of sessions *)
(* that the logic believes to be connected, and StateCheck may force some  *)
(* of them to close.  A message is the number of the connection the logic  *)
(* means it for; a received packet carries, as a history field, the number *)
(* of the connection it was received on.                                   *)
(***************************************************************************)
EXTENDS Naturals, Sequences, FiniteSets

CONSTANTS
    PoolSize,       \* config.MaxClientCount + config.ExtraClientCount
    Sockets,        \* the handles that accept may return
    NoSocket,       \* the SocketFD of a session that is not connected (0)
    AcceptMax,      \* FD_SETSIZE: the most connections one Run accepts
    RecvMax,        \* the most complete packets one recv yields
    SendMax,        \* the messages that fit in one send buffer
    Burst,          \* the most messages one handler sends to one session
    IsLoginCheck,   \* config.IsLoginCheck
    MaxSeq,         \* bound: connections accepted in one behaviour
    MaxQueue        \* bound: packets queued when a recv has yielded some

ASSUME SizesAssumption ==
    /\ PoolSize \in Nat \ {0}
    /\ {AcceptMax, RecvMax, SendMax, Burst, MaxSeq, MaxQueue} \subseteq Nat
    /\ IsLoginCheck \in BOOLEAN

\* FD_SETSIZE exceeds the pool and the system never runs out of handles.
ASSUME SocketsAssumption == NoSocket \notin Sockets

VARIABLES
    SocketFD, SessionSeq, SendBuffer,   \* clientSessionPool, field by field
    clientSessionPoolIndex,             \* the free indices, oldest first
    ReadFds,                            \* registered sockets (not the server's)
    connectedSessionCount, connectSeq,
    packetQue,
    announced,      \* the connection the logic has at an index, 0 for none
    latest,         \* history: the connection announced to the logic last
    prior,          \* history: the connection an index served before
    drained,        \* history: whether the drains have emptied packetQue
    pc, cursor, tryCount, polled,       \* where the logic thread is
    packetInfo,     \* the packet the logic handled last
    m_IsRun

pool    == <<SocketFD, SessionSeq, clientSessionPoolIndex, ReadFds,
             connectedSessionCount, prior>>
logic   == <<announced, latest, drained>>
thread  == <<pc, cursor, tryCount, polled>>
vars    == <<SocketFD, SessionSeq, SendBuffer, clientSessionPoolIndex, ReadFds,
             connectedSessionCount, connectSeq, packetQue, announced, latest,
             prior, drained, pc, cursor, tryCount, polled, packetInfo, m_IsRun>>

Index == 0 .. PoolSize - 1

\* What Process makes of a packet.  A client's packet keeps the ID that the
\* client gave it: one without a handler is DATA that is not answered, and
\* one with the ID 0 never gets to Process.  The models leave out clients
\* that send the IDs 2 and 3, which Process takes for its own CONNECT and
\* CLOSE, and IDs that are no index of PacketFuncArray.
ClientIds == {"DATA", "ZERO"}
PacketIds == {"CONNECT", "CLOSE"} \cup ClientIds

\* An entry of packetQue: RecvPacketInfo, with the connection as history.
RecvPacketInfo(i, id, s) == [SessionIndex |-> i, PacketId |-> id, seq |-> s]
NoPacket == RecvPacketInfo(0, "NONE", 0)

IsConnected(i) == SocketFD[i] # NoSocket
Connected == {i \in Index : IsConnected(i)}

Init ==
    /\ SocketFD = [i \in Index |-> NoSocket]
    /\ SessionSeq = [i \in Index |-> 0]
    /\ SendBuffer = [i \in Index |-> << >>]
    /\ clientSessionPoolIndex = [k \in 1 .. PoolSize |-> k - 1]
    /\ ReadFds = {}
    /\ connectedSessionCount = 0
    /\ connectSeq = 0
    /\ packetQue = << >>
    /\ announced = [i \in Index |-> 0] /\ latest = 0
    /\ prior = [i \in Index |-> 0] /\ drained = "always"
    /\ pc = "select" /\ cursor = 0 /\ tryCount = 0 /\ polled = {}
    /\ packetInfo = NoPacket
    /\ m_IsRun = TRUE

-----------------------------------------------------------------------------
(* TCPNetWork::Run: select.                                                *)

\* select returned 0 (timeout) or -1: nothing is accepted, read or written.
SelectNothing ==
    /\ pc = "select"
    /\ pc' = "drain"
    /\ UNCHANGED <<pool, SendBuffer, connectSeq, packetQue, logic, cursor,
                   tryCount, polled, packetInfo, m_IsRun>>

\* fd_set read_set = ReadFds; the fault keeps what an earlier Run put there.
StaleReadSet == polled \cup ReadFds
ReadSet == ReadFds

\* Only the sockets registered now can be reported ready in this Run.
SelectReady ==
    /\ pc = "select"
    /\ polled' = ReadSet
    /\ pc' \in {"accept", "poll"}
    /\ cursor' = 0 /\ tryCount' = 0
    /\ UNCHANGED <<pool, SendBuffer, connectSeq, packetQue, logic,
                   packetInfo, m_IsRun>>

-----------------------------------------------------------------------------
(* NewSession: one iteration of its loop per step.                         *)

\* accept would block or failed, or the loop has run FD_SETSIZE times.
AcceptDone ==
    /\ pc = "accept"
    /\ pc' = "poll"
    /\ UNCHANGED <<pool, SendBuffer, connectSeq, packetQue, logic, cursor,
                   tryCount, polled, packetInfo, m_IsRun>>

\* AllocClientSessionIndex: front and pop_front; the fault does not pop.
NotPopped == clientSessionPoolIndex
Popped == Tail(clientSessionPoolIndex)

\* ++connectedSessionCount and --connectedSessionCount; the faults forget.
NotCountedIn == connectedSessionCount
CountedIn == connectedSessionCount + 1
NotCountedOut == connectedSessionCount
CountedOut == connectedSessionCount - 1

\* AllocClientSessionIndex, FD_SET and ConnectedSession.  SendSize is not
\* reset here: Clear did that when the index was released.
ConnectedSession(fd) ==
    LET i == Head(clientSessionPoolIndex) IN
    /\ clientSessionPoolIndex' = Popped
    /\ ReadFds' = ReadFds \cup {fd}
    /\ connectSeq' = connectSeq + 1
    /\ SessionSeq' = [SessionSeq EXCEPT ![i] = connectSeq + 1]
    /\ SocketFD' = [SocketFD EXCEPT ![i] = fd]
    /\ connectedSessionCount' = CountedIn
    /\ packetQue' = Append(packetQue, RecvPacketInfo(i, "CONNECT", connectSeq + 1))

\* The operating system returns a handle that is not open.
NewSession ==
    /\ pc = "accept"
    /\ tryCount < AcceptMax
    /\ connectSeq < MaxSeq
    /\ clientSessionPoolIndex # << >>
    /\ \E fd \in Sockets \ {SocketFD[i] : i \in Connected} : ConnectedSession(fd)
    /\ tryCount' = tryCount + 1
    /\ UNCHANGED <<SendBuffer, logic, prior, pc, cursor, polled, packetInfo,
                   m_IsRun>>

\* The pool is empty: the accepted socket is closed at once and the loop left.
NewSessionPoolEmpty ==
    /\ pc = "accept"
    /\ tryCount < AcceptMax
    /\ clientSessionPoolIndex = << >>
    /\ \E fd \in Sockets \ {SocketFD[i] : i \in Connected} : ReadFds' = ReadFds \ {fd}
    /\ pc' = "poll"
    /\ UNCHANGED <<SocketFD, SessionSeq, clientSessionPoolIndex,
                   connectedSessionCount, prior, SendBuffer, connectSeq,
                   packetQue, logic, cursor, tryCount, polled, packetInfo,
                   m_IsRun>>

-----------------------------------------------------------------------------
(* RunCheckSelectClients: one session of the pool per step.                *)

Polling(i) == pc = "poll" /\ i = cursor /\ i < PoolSize
\* FD_ISSET in the sets filled by select; the fault looks at the live set.
ReadyNow(i) == IsConnected(i) /\ SocketFD[i] \in ReadFds
Ready(i)    == IsConnected(i) /\ SocketFD[i] \in polled

\* RecvBufferProcess hands complete packets with these IDs to AddPacketQue.
Received(i, ids) ==
    packetQue \o [n \in 1 .. Len(ids) |-> RecvPacketInfo(i, ids[n], SessionSeq[i])]

\* What one recv can complete, nothing included.
Receivable ==
    {<< >>} \cup UNION {[1 .. k -> ClientIds] :
                        k \in {n \in 1 .. RecvMax : Len(packetQue) + n <= MaxQueue}}

\* FD_CLR; the fault leaves the socket registered.
NotCleared(fd) == ReadFds
FdCleared(fd)  == ReadFds \ {fd}

\* SendSize = 0 in ClientSession::Clear; the fault keeps the unsent messages.
BufferKept(i)    == SendBuffer[i]
BufferCleared(i) == << >>

\* AddPacketQue of the CLOSE; the faults overtake or drop it.
CloseFirst(i, que)    == <<RecvPacketInfo(i, "CLOSE", SessionSeq[i])>> \o que
CloseUnqueued(i, que) == que
CloseQueued(i, que)   == Append(que, RecvPacketInfo(i, "CLOSE", SessionSeq[i]))

\* CloseSession of a connected session, with ReleaseSessionIndex and Clear.
CloseSession(i, que) ==
    /\ ReadFds' = FdCleared(SocketFD[i])
    /\ SocketFD' = [SocketFD EXCEPT ![i] = NoSocket]
    /\ SessionSeq' = [SessionSeq EXCEPT ![i] = 0]
    /\ SendBuffer' = [SendBuffer EXCEPT ![i] = BufferCleared(i)]
    /\ connectedSessionCount' = CountedOut
    /\ clientSessionPoolIndex' = Append(clientSessionPoolIndex, i)
    /\ packetQue' = CloseQueued(i, que)
    /\ prior' = [prior EXCEPT ![i] = SessionSeq[i]]

\* Neither readable nor writable, or not connected: nothing is done.
PollSkip(i) ==
    /\ Polling(i)
    /\ cursor' = cursor + 1
    /\ UNCHANGED <<pool, SendBuffer, connectSeq, packetQue, logic, pc,
                   tryCount, polled, packetInfo, m_IsRun>>

\* A successful recv and flush (n messages sent).
PollServe(i) ==
    /\ Polling(i) /\ Ready(i)
    /\ \E ids \in Receivable : packetQue' = Received(i, ids)
    /\ \E n \in 0 .. Len(SendBuffer[i]) :
         SendBuffer' = [SendBuffer EXCEPT ![i] = SubSeq(@, n + 1, Len(@))]
    /\ cursor' = cursor + 1
    /\ UNCHANGED <<pool, connectSeq, logic, pc, tryCount, polled,
                   packetInfo, m_IsRun>>

\* recv reports the end or an error, or the packets that were queued are
\* followed by one that is too large: the session is closed.
PollReceiveError(i) ==
    /\ Polling(i) /\ Ready(i)
    /\ \E ids \in Receivable : CloseSession(i, Received(i, ids))
    /\ cursor' = cursor + 1
    /\ UNCHANGED <<connectSeq, logic, pc, tryCount, polled, packetInfo, m_IsRun>>

\* The packets just read are queued, and then the send fails.
PollSendError(i) ==
    /\ Polling(i) /\ Ready(i)
    /\ SendBuffer[i] # << >>
    /\ \E ids \in Receivable : CloseSession(i, Received(i, ids))
    /\ cursor' = cursor + 1
    /\ UNCHANGED <<connectSeq, logic, pc, tryCount, polled, packetInfo, m_IsRun>>

PollDone ==
    /\ pc = "poll" /\ cursor = PoolSize
    /\ pc' = "drain"
    /\ UNCHANGED <<pool, SendBuffer, connectSeq, packetQue, logic, cursor,
                   tryCount, polled, packetInfo, m_IsRun>>

-----------------------------------------------------------------------------
(* The drain loop of LogicMain::Run: GetPacketInfo, then Process.          *)

\* packetQue.empty(); the fault handles at most some packets per Run.
AnyQueue == TRUE
QueueEmpty == packetQue = << >>

\* packetQue.front(); the fault takes the newest packet.
LastPkt == packetQue[Len(packetQue)]
Pkt == Head(packetQue)

GetPacketInfo(id) ==
    /\ pc = "drain" /\ packetQue # << >>
    /\ Pkt.PacketId = id
    /\ packetInfo' = Pkt
    /\ packetQue' = Tail(packetQue)

\* The loop ends on a PacketId of 0: that of an empty queue ...
Emptied == IF drained = "always" THEN "always" ELSE "again"

DrainDone ==
    /\ pc = "drain" /\ QueueEmpty
    /\ drained' = Emptied
    /\ pc' = "check" /\ cursor' = 0
    /\ UNCHANGED <<pool, SendBuffer, connectSeq, packetQue, announced, latest,
                   tryCount, polled, packetInfo, m_IsRun>>

\* ... or that of a client's packet, behind which the queue is left as it is.
DrainCut ==
    /\ pc = "drain" /\ packetQue # << >>
    /\ Pkt.PacketId = "ZERO"
    /\ packetQue' = Tail(packetQue)
    /\ drained' = IF packetQue' = << >> THEN Emptied ELSE "cut"
    /\ pc' = "check" /\ cursor' = 0
    /\ UNCHANGED <<pool, SendBuffer, connectSeq, announced, latest, tryCount,
                   polled, packetInfo, m_IsRun>>

\* SendData called n times on session i with messages for connection s: it
\* does not look at IsConnected, and drops what no longer fits.
SendData(buffer, s, n) ==
    buffer \o [k \in 1 .. (IF n <= SendMax - Len(buffer)
                           THEN n ELSE SendMax - Len(buffer)) |-> s]

\* A handler writes to sessions of users it knows, each by session index.
\* to[j] is the connection the messages for index j are meant for.
SendToAll(to, who) ==
    \E n \in [Index -> 0 .. Burst] :
        /\ \A j \in Index \ who : n[j] = 0
        /\ SendBuffer' = [j \in Index |-> SendData(SendBuffer[j], to[j], n[j])]

Known == {j \in Index : announced[j] # 0}

NtfSysConnctSession ==
    /\ GetPacketInfo("CONNECT")
    /\ announced' = [announced EXCEPT ![Pkt.SessionIndex] = Pkt.seq]
    /\ latest' = Pkt.seq
    /\ UNCHANGED <<drained, pool, SendBuffer, connectSeq, thread, m_IsRun>>

\* A client's packet: answers go to its session, notifications to others'.
ProcessData ==
    /\ GetPacketInfo("DATA")
    /\ LET i == Pkt.SessionIndex
       IN SendToAll([announced EXCEPT ![i] = Pkt.seq], Known \cup {i})
    /\ UNCHANGED <<pool, connectSeq, logic, thread, m_IsRun>>

\* Notifications, which can include one for the closed session itself (a
\* user in the lobby who has been in a room); then the session is forgotten.
NtfSysCloseSession ==
    /\ GetPacketInfo("CLOSE")
    /\ SendToAll(announced, Known)
    /\ announced' = [announced EXCEPT ![Pkt.SessionIndex] = 0]
    /\ UNCHANGED <<latest, drained, pool, connectSeq, thread, m_IsRun>>

-----------------------------------------------------------------------------
(* StateCheck: the sweep over ConnectedUserList, one session per step.     *)

\* LoginCheck's ForcedClose, which does nothing on a closed session.
ForcedClose(i) ==
    /\ pc = "check" /\ i = cursor /\ i < PoolSize
    /\ IsLoginCheck /\ announced[i] # 0
    /\ IsConnected(i)
    /\ CloseSession(i, packetQue)
    /\ cursor' = cursor + 1
    /\ UNCHANGED <<connectSeq, logic, pc, tryCount, polled, packetInfo, m_IsRun>>

CheckSkip(i) ==
    /\ pc = "check" /\ i = cursor /\ i < PoolSize
    /\ cursor' = cursor + 1
    /\ UNCHANGED <<pool, SendBuffer, connectSeq, packetQue, logic, pc,
                   tryCount, polled, packetInfo, m_IsRun>>

\* The value the loop test reads; the fault reads m_IsRun only once.
RunOnce == TRUE
RunAgain == m_IsRun

\* The test of while (m_IsRun), read after StateCheck.
LoopTest ==
    /\ pc = "check" /\ cursor = PoolSize
    /\ pc' = IF RunAgain THEN "select" ELSE "stopped"
    /\ UNCHANGED <<pool, SendBuffer, connectSeq, packetQue, logic, cursor,
                   tryCount, polled, packetInfo, m_IsRun>>

-----------------------------------------------------------------------------
\* LogicMain::Stop, called by the main thread at any time.
Stop ==
    /\ m_IsRun
    /\ m_IsRun' = FALSE
    /\ UNCHANGED <<pool, SendBuffer, connectSeq, packetQue, logic, thread,
                   packetInfo>>

\* The process waits in join for a logic thread that has ended.
Stopped == pc = "stopped" /\ ~m_IsRun /\ UNCHANGED vars

Accepting == AcceptDone \/ NewSession \/ NewSessionPoolEmpty
PollOne(i) == PollSkip(i) \/ PollServe(i) \/ PollReceiveError(i) \/ PollSendError(i)
Draining  == NtfSysConnctSession \/ ProcessData \/ NtfSysCloseSession
             \/ DrainDone \/ DrainCut

\* A step of the logic thread.
LogicThread ==
    \/ SelectNothing \/ SelectReady
    \/ Accepting
    \/ \E i \in Index : PollOne(i)
    \/ PollDone
    \/ Draining
    \/ \E i \in Index : ForcedClose(i) \/ CheckSkip(i)
    \/ LoopTest

Next == LogicThread \/ Stop \/ Stopped

\* The operating system schedules the logic thread; nobody has to call Stop.
Spec == Init /\ [][Next]_vars
FairSpec == Spec /\ WF_vars(LogicThread)

-----------------------------------------------------------------------------
(* Properties.                                                             *)

Event == [SessionIndex : Index, PacketId : PacketIds, seq : Nat \ {0}]

TypeOK ==
    /\ SocketFD \in [Index -> Sockets \cup {NoSocket}]
    /\ SessionSeq \in [Index -> Nat]
    /\ SendBuffer \in [Index -> Seq(Nat)]
    /\ clientSessionPoolIndex \in Seq(Index)
    /\ ReadFds \subseteq Sockets
    /\ connectedSessionCount \in Nat
    /\ connectSeq \in Nat
    /\ packetQue \in Seq(Event)
    /\ announced \in [Index -> Nat] /\ latest \in Nat
    /\ prior \in [Index -> Nat]
    /\ drained \in {"always", "again", "cut"}
    /\ pc \in {"select", "accept", "poll", "drain", "check", "stopped"}
    /\ cursor \in 0 .. PoolSize
    /\ tryCount \in 0 .. AcceptMax
    /\ polled \subseteq Sockets
    /\ packetInfo \in [SessionIndex : Index, PacketId : PacketIds \cup {"NONE"}, seq : Nat]
    /\ m_IsRun \in BOOLEAN

\* The deque of free indices holds every index that is not connected, once
\* each: no session is handed out twice and no index leaks, whichever of
\* recv, send, the framing check or StateCheck closed it.
PoolPartition ==
    /\ \A a, b \in 1 .. Len(clientSessionPoolIndex) :
         clientSessionPoolIndex[a] = clientSessionPoolIndex[b] => a = b
    /\ \A i \in Index :
         ~IsConnected(i) <=> \E a \in 1 .. Len(clientSessionPoolIndex) :
                                clientSessionPoolIndex[a] = i

\* connectedSessionCount, a size_t that CloseSession decrements, is the
\* number of connected sessions and so never wraps below zero.
CountMatches == connectedSessionCount = Cardinality(Connected)

\* select watches the sockets of the connected sessions and no other, and no
\* two sessions share a handle although the system reuses closed handles.
ReadFdsMatch ==
    /\ ReadFds = {SocketFD[i] : i \in Connected}
    /\ \A i, j \in Connected : SocketFD[i] = SocketFD[j] => i = j

\* A handle in the sets that select filled still means, when a session is
\* polled, the connection it meant at select: a session accepted after
\* select is never read or written in that Run, even on a reused handle.
PolledIsOld ==
    pc \in {"accept", "poll"} =>
        \A i \in Connected : SessionSeq[i] + tryCount > connectSeq => SocketFD[i] \notin polled

\* What an event takes for granted of its session and what it leaves behind:
\* the connection that is open there, 0 for none.
Before(e) == IF e.PacketId = "CONNECT" THEN 0 ELSE e.seq
After(e)  == IF e.PacketId = "CLOSE" THEN 0 ELSE e.seq

\* No event of the session of p comes before p, after p, between p and its
\* next event q.
First(que, p) == \A r \in 1 .. Len(que) : r < p => que[r].SessionIndex # que[p].SessionIndex
Last(que, p)  == \A r \in 1 .. Len(que) : r > p => que[r].SessionIndex # que[p].SessionIndex
Adjacent(que, p, q) ==
    /\ p < q /\ que[p].SessionIndex = que[q].SessionIndex
    /\ \A r \in 1 .. Len(que) : p < r /\ r < q => que[r].SessionIndex # que[p].SessionIndex

\* que leads, session by session, from the connections of before to those of
\* after, each event starting from where the one before it has ended.
Bracketed(que, before, after) ==
    /\ \A p, q \in 1 .. Len(que) : Adjacent(que, p, q) => After(que[p]) = Before(que[q])
    /\ \A p \in 1 .. Len(que) : First(que, p) => before[que[p].SessionIndex] = Before(que[p])
    /\ \A p \in 1 .. Len(que) : Last(que, p) => after[que[p].SessionIndex] = After(que[p])
    /\ \A i \in Index : (\A p \in 1 .. Len(que) : que[p].SessionIndex # i) =>
         before[i] = after[i]

\* The events still queued for an index continue what the logic knows of it
\* and end in what the pool holds: after CONNECT come only packets of that
\* connection up to its CLOSE, and a CONNECT only follows a CLOSE.  So every
\* packet is handled while the logic holds the connection it came from,
\* although pool and logic disagree about an index while events are queued.
EventsBracketed == Bracketed(packetQue, announced, SessionSeq)

\* What follows is promised while packetQue is emptied before StateCheck and
\* the next Run.  A client's packet with the ID 0 is all that ends a drain
\* before that, and the next drain that empties the queue mends it.

\* StateCheck closes the connection it means: when the sweep looks at an open
\* session, the time and the login it reads are those of this connection and
\* not of one that used the index before.
CheckSeesCurrent ==
    pc = "check" /\ drained # "cut" => \A i \in Connected : announced[i] = SessionSeq[i]

\* pData of a queued packet points into its session's receive buffer, which
\* the next recv overwrites: when a Run starts no client packet is
\* queued, unless a packet with the ID 0 ended the drain in front of it.
NoDanglingData ==
    pc = "select" /\ drained # "cut" =>
        \A p \in 1 .. Len(packetQue) : packetQue[p].PacketId = "CLOSE"

\* A CONNECT is the last queued event of its index: two connections of one
\* index never overlap in one drain, so at most one generation is stale.
ConnectIsLast ==
    drained # "cut" =>
        \A p \in 1 .. Len(packetQue) :
            packetQue[p].PacketId = "CONNECT" => Last(packetQue, p)

\* What a client can be sent: messages meant for its own connection or,
\* because SendData does not ask whether the session is connected, for the
\* connection that used the index just before, never for an older one, as
\* long as no client has sent the ID 0 in front of queued packets.
SendBufferOwner ==
    drained = "always" =>
        \A i \in Index : \A k \in 1 .. Len(SendBuffer[i]) :
            SendBuffer[i][k] \in {prior[i], SessionSeq[i]} \ {0}

\* "Notifies the users that are in the lobby" (Common/Packet.h:61): what a
\* connection is sent was meant for the user on that connection.
OnlyOwnMessages ==
    \A i \in Connected : \A k \in 1 .. Len(SendBuffer[i]) :
        SendBuffer[i][k] = SessionSeq[i]

\* The packets handed to the packet processor form, index by index, whole
\* connections in the order of their acceptance (SessionEvents).
Events == INSTANCE SessionEvents
ImplementsSessionEvents == Events!Spec

\* A session that the network layer closed is retired by the logic, unless
\* the server stops first.
ClosedIsRetired ==
    \A s \in 1 .. MaxSeq :
        (\E i \in Index : announced[i] = s /\ SessionSeq[i] # s)
            ~> ((\A i \in Index : announced[i] # s) \/ pc = "stopped")

\* Stop ends the logic thread: every inner loop of Run terminates.
StopEndsThread == ~m_IsRun ~> pc = "stopped"
=============================================================================
