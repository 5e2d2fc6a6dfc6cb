----------------------------- MODULE ChatServer -----------------------------
(***************************************************************************)
(* The whole server: LogicMain::Run drives the network layer (TCPNetWork)  *)
(* and hands what it takes from packetQue to the handlers of the packet    *)
(* processor (PacketProcessor), which answer and notify through SendData,  *)
(* and StateCheck closes sessions on the strength of what these handlers   *)
(* recorded.  The two halves know a client only by its session index, and  *)
(* each has its own idea of whose index that is at the moment.             *)
(*                                                                         *)
(* In place of the abstract handlers of TCPNetWork, which may send         *)
(* anything to anybody that is announced, stand the real ones.             *)
(***************************************************************************)
EXTENDS PacketProcessor

CONSTANTS Sockets, NoSocket, AcceptMax, RecvMax, SendMax, Burst, IsLoginCheck,
          MaxSeq, MaxQueue  \* as in TCPNetWork

\* The sizes are as in TCPNetWork.  A handler sends up to two messages to a
\* session: two notices, or a notice and the answer.
ASSUME NetworkAssumption ==
    /\ {AcceptMax, RecvMax, SendMax, Burst, MaxSeq, MaxQueue} \subseteq Nat /\ Burst >= 2
    /\ IsLoginCheck \in BOOLEAN
    /\ NoSocket \notin Sockets

VARIABLES
    SocketFD, SessionSeq, SendBuffer, clientSessionPoolIndex, ReadFds,
    connectedSessionCount, connectSeq, packetQue, announced, latest, prior,
    drained, pc, cursor, tryCount, polled, packetInfo, m_IsRun,   \* as in TCPNetWork
    loginSeq    \* history: the connection whose login made the user of a session

Net == INSTANCE TCPNetWork

netPool   == <<SocketFD, SessionSeq, clientSessionPoolIndex, ReadFds,
               connectedSessionCount, connectSeq, prior>>
netThread == <<pc, cursor, tryCount, polled, m_IsRun>>
netVars   == <<netPool, netThread, SendBuffer, packetQue, announced, latest, drained, packetInfo>>
serverVars == <<vars, netVars, loginSeq>>

\* Leaves out what no later step depends on: histories, the last answers, and
\* what a Run has used; and the send buffers, which only decide what a send
\* may take and whether one can fail (a recv can fail with the same effect).
ToPoll == {i \in Session : i >= cursor /\ Net!Ready(i)}
InRun == IF pc = "accept" THEN <<cursor, tryCount, ToPoll>>
         ELSE IF pc = "poll" THEN <<cursor, 0, ToPoll>>
         ELSE IF pc = "check" THEN <<cursor, 0, {}>>
         ELSE <<0, 0, {}>>
ServerView ==
    <<StateView, loginSeq, SocketFD, SessionSeq, clientSessionPoolIndex, ReadFds,
      connectSeq, packetQue, announced, pc, InRun, m_IsRun>>

ServerInit ==
    /\ Init
    /\ Net!Init
    /\ loginSeq = [s \in Session |-> 0]

-----------------------------------------------------------------------------
(* Handling a packet: Process.                                             *)

\* What the handler sends, in the send buffers.
SentTo(j) == Cardinality({m \in sent' : m.to = j})
Deliver ==
    SendBuffer' = [j \in Session |-> Net!SendData(SendBuffer[j], announced[j], SentTo(j))]

HandleConnect(i) ==
    /\ Net!NtfSysConnctSession /\ Net!Pkt.SessionIndex = i
    /\ NtfSysConnctSession(i)
    /\ UNCHANGED loginSeq

\* A client's packet: any that a client may send.
HandleData(i) ==
    /\ Net!GetPacketInfo("DATA") /\ Net!Pkt.SessionIndex = i
    /\ ClientPacket(i)
    /\ Deliver
    /\ loginSeq' = IF HasUser(i)' /\ ~HasUser(i)
                   THEN [loginSeq EXCEPT ![i] = Net!Pkt.seq] ELSE loginSeq
    /\ UNCHANGED <<netPool, netThread, announced, latest, drained>>

HandleClose(i) ==
    /\ Net!GetPacketInfo("CLOSE") /\ Net!Pkt.SessionIndex = i
    /\ NtfSysCloseSession(i)
    /\ Deliver
    /\ announced' = [announced EXCEPT ![i] = 0]
    /\ UNCHANGED <<netPool, netThread, latest, drained, loginSeq>>

Handle == \E i \in Session : HandleConnect(i) \/ HandleData(i) \/ HandleClose(i)

-----------------------------------------------------------------------------
(* The rest of the loop, which nobody stops here (TCPNetWork).             *)

\* StateCheck closes a session only when a user has logged in on it.
CheckClose(i) == m_IsLoginSuccess[i] /\ Net!ForcedClose(i)

Loop ==
    /\ \/ Net!SelectNothing \/ Net!SelectReady \/ Net!Accepting
       \/ \E i \in Session : Net!PollOne(i) \/ CheckClose(i) \/ Net!CheckSkip(i)
       \/ Net!PollDone \/ Net!DrainDone \/ Net!DrainCut \/ Net!LoopTest
    /\ sent' = {}
    /\ UNCHANGED <<userVars, lobbyVars, connectedVars, loginSeq>>

ServerNext == Handle \/ Loop
ServerSpec == ServerInit /\ [][ServerNext]_serverVars

\* Handles are only compared with each other.
SocketSymmetry == Permutations(Sockets)

-----------------------------------------------------------------------------
(* Properties.                                                             *)

\* The real handlers do to the network layer nothing but what TCPNetWork
\* allows its abstract ones: they write to sessions that the logic holds to
\* be connected, at most Burst messages to each; and every packet that the
\* drain takes finds the logic in a state to handle it.
ImplementsNetwork == Net!Spec

\* The user that the handlers find by a session index logged in on the
\* connection that the logic holds at this index: a client never acts as, or
\* receives for, the user of an earlier client whose index it was given.
OwnUser == \A s \in Session : HasUser(s) => announced[s] = loginSeq[s] /\ m_ConnectedTime[s]

\* A user whose connection is gone is on its way out: its CLOSE is queued.
\* So it holds its seat in a lobby or room no longer than the queue lasts.
GhostsLeave ==
    \A s \in Session : HasUser(s) /\ SessionSeq[s] # loginSeq[s] =>
        \E p \in 1 .. Len(packetQue) :
            packetQue[p] = Net!RecvPacketInfo(s, "CLOSE", loginSeq[s])
=============================================================================
