-------------------------- MODULE ChatServer_proofs --------------------------
(***************************************************************************)
(* Theorems about ChatServer, from those about its two halves.             *)
(*                                                                         *)
(* The invariant joins theirs: that of the network layer under any         *)
(* handlers (TCPNetWork_proofs), that of the packet processor under        *)
(* packets in their order (PacketProcessor_proofs), and Links, which says  *)
(* that the two agree about who is connected.  Each half keeps its own     *)
(* invariant because the other is what it expects: by EventsBracketed the  *)
(* queue hands the handlers their packets in order, and by the seats and   *)
(* lists of the packet processor a handler writes at most two messages to  *)
(* a session, and only to sessions that the logic knows.                   *)
(***************************************************************************)
EXTENDS ChatServer, PacketProcessor_proofs

Network == INSTANCE TCPNetWork_proofs

LEMMA NetworkAssumed == Network!SizesAssumption /\ Network!SocketsAssumption
BY NetworkAssumption, UserManagerAssumption DEF Network!SizesAssumption, Network!SocketsAssumption

-----------------------------------------------------------------------------
(* Net and Network are the same module: what is proved of the one holds of *)
(* the other.                                                              *)

LEMMA SameIndex == Net!Index = Session /\ Network!Index = Session
BY DEF Net!Index, Network!Index, Session

LEMMA SameVars == Net!vars = Network!vars
BY DEF Net!vars, Network!vars

LEMMA SameInit == Net!Init <=> Network!Init
BY DEF Net!Init, Network!Init, Net!Index, Network!Index, Net!NoPacket, Network!NoPacket,
       Net!RecvPacketInfo, Network!RecvPacketInfo

LEMMA SameSelect ==
    /\ Net!SelectNothing <=> Network!SelectNothing
    /\ Net!SelectReady <=> Network!SelectReady
BY DEF Net!SelectNothing, Network!SelectNothing, Net!SelectReady, Network!SelectReady,
       Net!ReadSet, Network!ReadSet, Net!pool, Network!pool, Net!logic, Network!logic

LEMMA SameAccepting == Net!Accepting <=> Network!Accepting
<1>1. Net!AcceptDone <=> Network!AcceptDone
  BY DEF Net!AcceptDone, Network!AcceptDone, Net!pool, Network!pool, Net!logic, Network!logic
<1>2. Net!Connected = Network!Connected
  BY DEF Net!Connected, Network!Connected, Net!IsConnected, Network!IsConnected,
         Net!Index, Network!Index
<1>3. ASSUME NEW fd PROVE Net!ConnectedSession(fd) <=> Network!ConnectedSession(fd)
  BY DEF Net!ConnectedSession, Network!ConnectedSession, Net!Popped, Network!Popped,
         Net!CountedIn, Network!CountedIn, Net!RecvPacketInfo, Network!RecvPacketInfo
<1>4. Net!NewSession <=> Network!NewSession
  BY <1>2, <1>3 DEF Net!NewSession, Network!NewSession, Net!logic, Network!logic
<1>5. Net!NewSessionPoolEmpty <=> Network!NewSessionPoolEmpty
  BY <1>2 DEF Net!NewSessionPoolEmpty, Network!NewSessionPoolEmpty, Net!logic, Network!logic
<1> QED BY <1>1, <1>4, <1>5 DEF Net!Accepting, Network!Accepting

LEMMA SameClose ==
    ASSUME NEW i, NEW que
    PROVE  Net!CloseSession(i, que) <=> Network!CloseSession(i, que)
BY DEF Net!CloseSession, Network!CloseSession, Net!FdCleared, Network!FdCleared,
       Net!BufferCleared, Network!BufferCleared, Net!CountedOut, Network!CountedOut,
       Net!CloseQueued, Network!CloseQueued, Net!RecvPacketInfo, Network!RecvPacketInfo

LEMMA SamePollOne == ASSUME NEW i PROVE Net!PollOne(i) <=> Network!PollOne(i)
<1>1. /\ Net!Polling(i) <=> Network!Polling(i)
      /\ Net!Ready(i) <=> Network!Ready(i)
  BY DEF Net!Polling, Network!Polling, Net!Ready, Network!Ready, Net!IsConnected,
         Network!IsConnected
<1>2. ASSUME NEW k PROVE Net!Received(i, k) = Network!Received(i, k)
  BY DEF Net!Received, Network!Received, Net!RecvPacketInfo, Network!RecvPacketInfo
<1>7. Net!Receivable = Network!Receivable
  BY DEF Net!Receivable, Network!Receivable, Net!ClientIds, Network!ClientIds
<1>3. Net!PollSkip(i) <=> Network!PollSkip(i)
  BY <1>1 DEF Net!PollSkip, Network!PollSkip, Net!pool, Network!pool, Net!logic, Network!logic
<1>4. Net!PollServe(i) <=> Network!PollServe(i)
  BY <1>1, <1>2, <1>7 DEF Net!PollServe, Network!PollServe, Net!pool, Network!pool, Net!logic,
     Network!logic
<1>5. Net!PollReceiveError(i) <=> Network!PollReceiveError(i)
  BY <1>1, <1>2, <1>7, SameClose DEF Net!PollReceiveError, Network!PollReceiveError, Net!logic,
     Network!logic
<1>6. Net!PollSendError(i) <=> Network!PollSendError(i)
  BY <1>1, <1>2, <1>7, SameClose DEF Net!PollSendError, Network!PollSendError, Net!logic,
     Network!logic
<1> QED BY <1>3, <1>4, <1>5, <1>6 DEF Net!PollOne, Network!PollOne

LEMMA SameDraining == Net!Draining <=> Network!Draining
<1>1. ASSUME NEW id PROVE Net!GetPacketInfo(id) <=> Network!GetPacketInfo(id)
  BY DEF Net!GetPacketInfo, Network!GetPacketInfo, Net!Pkt, Network!Pkt
<1>2. ASSUME NEW to, NEW who PROVE Net!SendToAll(to, who) <=> Network!SendToAll(to, who)
  BY DEF Net!SendToAll, Network!SendToAll, Net!SendData, Network!SendData, Net!Index,
         Network!Index
<1>3. Net!Known = Network!Known /\ Net!Pkt = Network!Pkt
  BY DEF Net!Known, Network!Known, Net!Pkt, Network!Pkt, Net!Index, Network!Index
<1>4. Net!NtfSysConnctSession <=> Network!NtfSysConnctSession
  BY <1>1, <1>3 DEF Net!NtfSysConnctSession, Network!NtfSysConnctSession, Net!pool,
     Network!pool, Net!thread, Network!thread
<1>5. Net!ProcessData <=> Network!ProcessData
  BY <1>1, <1>2, <1>3 DEF Net!ProcessData, Network!ProcessData, Net!pool, Network!pool,
     Net!thread, Network!thread, Net!logic, Network!logic
<1>6. Net!NtfSysCloseSession <=> Network!NtfSysCloseSession
  BY <1>1, <1>2, <1>3 DEF Net!NtfSysCloseSession, Network!NtfSysCloseSession, Net!pool,
     Network!pool, Net!thread, Network!thread
<1>7. /\ Net!DrainDone <=> Network!DrainDone
      /\ Net!DrainCut <=> Network!DrainCut
  BY DEF Net!DrainDone, Network!DrainDone, Net!DrainCut, Network!DrainCut, Net!QueueEmpty,
     Network!QueueEmpty, Net!Emptied, Network!Emptied, Net!Pkt, Network!Pkt, Net!pool,
     Network!pool
<1> QED BY <1>4, <1>5, <1>6, <1>7 DEF Net!Draining, Network!Draining

LEMMA SameChecking ==
    ASSUME NEW i
    PROVE  /\ Net!ForcedClose(i) <=> Network!ForcedClose(i)
           /\ Net!CheckSkip(i) <=> Network!CheckSkip(i)
<1>1. Net!ForcedClose(i) <=> Network!ForcedClose(i)
  BY SameClose DEF Net!ForcedClose, Network!ForcedClose, Net!IsConnected,
     Network!IsConnected, Net!logic, Network!logic
<1>2. Net!CheckSkip(i) <=> Network!CheckSkip(i)
  BY DEF Net!CheckSkip, Network!CheckSkip, Net!pool, Network!pool, Net!logic, Network!logic
<1> QED BY <1>1, <1>2

LEMMA SameNext == [Net!Next]_(Net!vars) <=> [Network!Next]_(Network!vars)
<1>1. Net!PollDone <=> Network!PollDone
  BY DEF Net!PollDone, Network!PollDone, Net!pool, Network!pool, Net!logic, Network!logic
<1>2. Net!LoopTest <=> Network!LoopTest
  BY DEF Net!LoopTest, Network!LoopTest, Net!RunAgain, Network!RunAgain, Net!pool,
         Network!pool, Net!logic, Network!logic
<1>3. Net!Stop <=> Network!Stop
  BY DEF Net!Stop, Network!Stop, Net!pool, Network!pool, Net!logic, Network!logic,
         Net!thread, Network!thread
<1>4. Net!Stopped <=> Network!Stopped
  BY DEF Net!Stopped, Network!Stopped, Net!vars, Network!vars
<1>5. Net!LogicThread <=> Network!LogicThread
  BY <1>1, <1>2, SameSelect, SameAccepting, SamePollOne, SameDraining, SameChecking,
     SameIndex DEF Net!LogicThread, Network!LogicThread
<1>6. Net!Next <=> Network!Next
  BY <1>3, <1>4, <1>5 DEF Net!Next, Network!Next
<1>7. UNCHANGED Net!vars <=> UNCHANGED Network!vars
  BY DEF Net!vars, Network!vars
<1> QED BY <1>6, <1>7

-----------------------------------------------------------------------------
(* To whom a handler sends, and how much.                                  *)

For(j, messages) == {m \in messages : m.to = j}
AtMostTwo(S) == \E m, n : S \subseteq {m, n}

LEMMA NoticeFor ==
    ASSUME NEW j, NEW s, NEW id, NEW about, NEW error
    PROVE  /\ Notice(s, id, about).to = s
           /\ For(j, {Answer(s, id, error)}) \subseteq {Answer(s, id, error)}
           /\ j # s => For(j, {Answer(s, id, error)}) = {}
BY DEF For, Notice, Answer

LEMMA LobbyNoticeFor ==
    ASSUME NEW members, NEW pool, NEW id, NEW about, NEW pass, NEW j
    PROVE  LET notices == For(j, ToLobby(members, pool, id, about, pass)) IN
           /\ notices \subseteq {Notice(j, id, about)}
           /\ notices # {} => \E v \in members : /\ v # pass
                                                 /\ pool[v].m_CurDomainState = "LOBBY"
                                                 /\ pool[v].m_SessionIndex = j
BY NoticeFor DEF For, ToLobby

LEMMA RoomNoticeFor ==
    ASSUME NEW room, NEW pool, NEW id, NEW about, NEW pass, NEW j
    PROVE  LET notices == For(j, ToRoom(room, pool, id, about, pass)) IN
           /\ notices \subseteq {Notice(j, id, about)}
           /\ notices # {} => \E v \in ToSet(room.m_UserList) :
                                v # pass /\ pool[v].m_SessionIndex = j
BY NoticeFor DEF For, ToRoom

LEMMA LeaveNoticeFor ==
    ASSUME NEW room, NEW pool, NEW about, NEW j
    PROVE  LET notices == For(j, RoomLeaveNotice(room, pool, about)) IN
           /\ notices \subseteq {Notice(j, "ROOM_LEAVE_USER_NTF", about)}
           /\ notices # {} => \E v \in ToSet(room.m_UserList) : pool[v].m_SessionIndex = j
<1>1. CASE room.m_IsUsed
  BY <1>1, RoomNoticeFor DEF RoomLeaveNotice
<1>2. CASE ~room.m_IsUsed
  BY <1>2 DEF RoomLeaveNotice, For
<1> QED BY <1>1, <1>2

LEMMA ForUnion ==
    ASSUME NEW j, NEW A, NEW B PROVE For(j, A \cup B) = For(j, A) \cup For(j, B)
BY DEF For

\* Whoever is in a lobby or a room is the user of its session.
Placement(v) ==
    m_UserObjPool[v].m_CurDomainState \in {"LOBBY", "ROOM"} =>
        /\ SessionOf(v) \in Session
        /\ HasUser(SessionOf(v)) /\ UserOf(SessionOf(v)) = v
Placements ==
    /\ \A v \in UserIndex : Placement(v)
    /\ \A l \in LobbyIndex : m_UserIndexDic[l] \subseteq UserIndex
    /\ \A l \in LobbyIndex, r \in RoomIndex : \A v \in ToSet(m_RoomList[l][r].m_UserList) :
         v \in UserIndex /\ m_UserObjPool[v].m_CurDomainState = "ROOM"

LEMMA PlacedUsers == StateInv => Placements
<1> SUFFICES ASSUME StateInv PROVE Placements
  OBVIOUS
<1>1. \A v \in UserIndex : Placement(v)
  BY Indices DEF StateInv, PlaceInv, Placed, WellPlaced, Placement, SessionOf, HasUser, UserOf
<1>2. \A l \in LobbyIndex : m_UserIndexDic[l] \subseteq UserIndex
  BY DEF StateInv, LobbyInv, LobbyTypes
<1>3. \A l \in LobbyIndex, r \in RoomIndex : ToSet(m_RoomList[l][r].m_UserList) = Inside(l, r)
  BY ListedNow DEF RoomsListed, InRoom
<1> QED BY <1>1, <1>2, <1>3 DEF Placements, Inside

LEMMA PlacedUsersNext == StateInv' => Placements'
BY PlacedUsers, PTL

\* What the handler of a packet of session s sends to each session: at most
\* two messages, and to others only if they have a user.
Modest(s) ==
    \A j \in Session : /\ AtMostTwo(For(j, sent'))
                       /\ For(j, sent') # {} => j = s \/ HasUser(j)

LEMMA LobbyMoveModest ==
    ASSUME StateInv, StateInv', NEW s \in Session, NEW l \in LobbyIndex, NEW id, NEW about,
           NEW pass, NEW answer, NEW error,
           sent' = ToLobby(m_UserIndexDic'[l], m_UserObjPool', id, about, pass)
                   \cup {Answer(s, answer, error)},
           UNCHANGED m_UserSessionDic
    PROVE  Modest(s)
<1> SUFFICES ASSUME NEW j \in Session
             PROVE  AtMostTwo(For(j, sent')) /\ (For(j, sent') # {} => j = s \/ HasUser(j))
  BY DEF Modest
<1>1. PICK N : N = ToLobby(m_UserIndexDic'[l], m_UserObjPool', id, about, pass)
  OBVIOUS
<1>2. For(j, sent') = For(j, N) \cup For(j, {Answer(s, answer, error)})
  BY <1>1, ForUnion
<1>3. /\ For(j, N) \subseteq {Notice(j, id, about)}
      /\ For(j, N) # {} => \E v \in m_UserIndexDic'[l] :
                             /\ m_UserObjPool'[v].m_CurDomainState = "LOBBY"
                             /\ m_UserObjPool'[v].m_SessionIndex = j
  BY <1>1, LobbyNoticeFor
<1>4. AtMostTwo(For(j, sent'))
  <2>1. For(j, sent') \subseteq {Notice(j, id, about), Answer(s, answer, error)}
    BY <1>2, <1>3, NoticeFor
  <2> QED BY <2>1 DEF AtMostTwo
<1>5. For(j, N) # {} => HasUser(j)
  BY <1>3, PlacedUsersNext DEF Placements, Placement, SessionOf, HasUser
<1> QED BY <1>2, <1>4, <1>5, NoticeFor

LEMMA RoomEnterModest ==
    ASSUME StateInv, StateInv', NEW s \in Session, NEW isCreate \in BOOLEAN, NEW q,
           RoomEnter(s, isCreate, q)
    PROVE  Modest(s)
<1> SUFFICES ASSUME NEW j \in Session
             PROVE  AtMostTwo(For(j, sent')) /\ (For(j, sent') # {} => j = s \/ HasUser(j))
  BY DEF Modest
<1>1. PICK u, l, room : /\ u = UserOf(s) /\ l = User(s).m_LobbyIndex
                        /\ room = IF isCreate THEN FirstUnusedRoom(l) ELSE q
  OBVIOUS
<1>2. /\ HasUser(s) /\ l \in LobbyIndex /\ room \in RoomIndex
      /\ m_UserObjPool'[u].m_CurDomainState = "ROOM"
  BY <1>1, RoomEnterFacts
<1>3. PICK L, C, R :
        /\ L = ToLobby(m_UserIndexDic[l], m_UserObjPool', "LOBBY_LEAVE_USER_NTF", u, u)
        /\ C = ToLobby(m_UserIndexDic[l], m_UserObjPool', "ROOM_CHANGED_INFO_NTF", room, None)
        /\ R = ToRoom(m_RoomList'[l][room], m_UserObjPool', "ROOM_ENTER_USER_NTF", u, u)
  OBVIOUS
<1>4. /\ sent' = L \cup C \cup R \cup {Answer(s, "ROOM_ENTER_RES", "NONE")}
      /\ UNCHANGED <<m_UserSessionDic, m_UserIndexDic>>
  BY <1>1, <1>3 DEF RoomEnter
<1>5. For(j, sent') = For(j, L) \cup For(j, C) \cup For(j, R)
                      \cup For(j, {Answer(s, "ROOM_ENTER_RES", "NONE")})
  BY <1>4 DEF For
<1>6. /\ For(j, L) \subseteq {Notice(j, "LOBBY_LEAVE_USER_NTF", u)}
      /\ For(j, C) \subseteq {Notice(j, "ROOM_CHANGED_INFO_NTF", room)}
      /\ For(j, R) \subseteq {Notice(j, "ROOM_ENTER_USER_NTF", u)}
      /\ For(j, L) # {} => \E v \in m_UserIndexDic[l] :
           v # u /\ m_UserObjPool'[v].m_CurDomainState = "LOBBY"
           /\ m_UserObjPool'[v].m_SessionIndex = j
      /\ For(j, C) # {} => \E v \in m_UserIndexDic[l] :
           m_UserObjPool'[v].m_CurDomainState = "LOBBY"
           /\ m_UserObjPool'[v].m_SessionIndex = j
      /\ For(j, R) # {} => \E v \in ToSet(m_RoomList'[l][room].m_UserList) :
           v # u /\ m_UserObjPool'[v].m_SessionIndex = j
  BY <1>3, LobbyNoticeFor, RoomNoticeFor
<1>7. Placements'
  BY PlacedUsersNext
<1>8. /\ For(j, L) # {} \/ For(j, C) # {} =>
           HasUser(j) /\ UserOf(j) # u /\ m_UserObjPool'[UserOf(j)].m_CurDomainState = "LOBBY"
      /\ For(j, R) # {} =>
           HasUser(j) /\ UserOf(j) # u /\ m_UserObjPool'[UserOf(j)].m_CurDomainState = "ROOM"
  BY <1>2, <1>4, <1>6, <1>7 DEF Placements, Placement, SessionOf, HasUser, UserOf
<1>9. CASE j = s
  <2>1. For(j, sent') \subseteq {Answer(s, "ROOM_ENTER_RES", "NONE")}
    BY <1>1, <1>5, <1>8, <1>9, NoticeFor
  <2> QED BY <1>9, <2>1 DEF AtMostTwo
<1>10. CASE j # s
  <2>1. For(j, sent') \subseteq {Notice(j, "LOBBY_LEAVE_USER_NTF", u),
                                 Notice(j, "ROOM_CHANGED_INFO_NTF", room)}
        \/ For(j, sent') \subseteq {Notice(j, "ROOM_ENTER_USER_NTF", u)}
    BY <1>5, <1>6, <1>8, <1>10, NoticeFor
  <2>2. For(j, sent') # {} => HasUser(j)
    BY <1>5, <1>8, <1>10, NoticeFor
  <2> QED BY <2>1, <2>2 DEF AtMostTwo
<1> QED BY <1>9, <1>10

LEMMA RoomLeaveModest ==
    ASSUME StateInv, StateInv', NEW s \in Session, RoomLeave(s)
    PROVE  Modest(s)
<1> SUFFICES ASSUME NEW j \in Session
             PROVE  AtMostTwo(For(j, sent')) /\ (For(j, sent') # {} => j = s \/ HasUser(j))
  BY DEF Modest
<1>1. PICK u, l, r : u = UserOf(s) /\ l = User(s).m_LobbyIndex /\ r = User(s).m_RoomIndex
  OBVIOUS
<1>2. /\ HasUser(s) /\ l \in LobbyIndex /\ r \in RoomIndex
      /\ m_UserObjPool'[u].m_CurDomainState = "LOBBY"
  <2>1. u \in UserIndex /\ m_UserObjPool[u] \in UserRecord
    BY <1>1, RoomLeaveFacts, Types DEF StateInv, Inv
  <2>2. m_UserObjPool'[u] = UserInLobby(m_UserObjPool[u], l)
    BY <1>1, RoomLeaveFacts
  <2>3. m_UserObjPool'[u].m_CurDomainState = "LOBBY"
    BY <2>1, <2>2 DEF UserInLobby, UserRecord
  <2> QED BY <1>1, <2>3, RoomLeaveFacts
<1>3. PICK R, L, C :
        /\ R = RoomLeaveNotice(m_RoomList'[l][r], m_UserObjPool', u)
        /\ L = ToLobby(m_UserIndexDic[l], m_UserObjPool', "LOBBY_ENTER_USER_NTF", u, u)
        /\ C = ToLobby(m_UserIndexDic[l], m_UserObjPool', "ROOM_CHANGED_INFO_NTF", r, None)
  OBVIOUS
<1>4. /\ sent' = R \cup L \cup C \cup {Answer(s, "ROOM_LEAVE_RES", "NONE")}
      /\ UNCHANGED <<m_UserSessionDic, m_UserIndexDic>>
  BY <1>1, <1>3 DEF RoomLeave
<1>5. For(j, sent') = For(j, R) \cup For(j, L) \cup For(j, C)
                      \cup For(j, {Answer(s, "ROOM_LEAVE_RES", "NONE")})
  BY <1>4 DEF For
<1>6. /\ For(j, R) \subseteq {Notice(j, "ROOM_LEAVE_USER_NTF", u)}
      /\ For(j, L) \subseteq {Notice(j, "LOBBY_ENTER_USER_NTF", u)}
      /\ For(j, C) \subseteq {Notice(j, "ROOM_CHANGED_INFO_NTF", r)}
      /\ For(j, R) # {} => \E v \in ToSet(m_RoomList'[l][r].m_UserList) :
           m_UserObjPool'[v].m_SessionIndex = j
      /\ For(j, L) # {} => \E v \in m_UserIndexDic[l] :
           v # u /\ m_UserObjPool'[v].m_CurDomainState = "LOBBY"
           /\ m_UserObjPool'[v].m_SessionIndex = j
      /\ For(j, C) # {} => \E v \in m_UserIndexDic[l] :
           m_UserObjPool'[v].m_CurDomainState = "LOBBY"
           /\ m_UserObjPool'[v].m_SessionIndex = j
  BY <1>3, LobbyNoticeFor, LeaveNoticeFor
<1>7. Placements'
  BY PlacedUsersNext
<1>8. /\ For(j, R) # {} =>
           HasUser(j) /\ UserOf(j) # u /\ m_UserObjPool'[UserOf(j)].m_CurDomainState = "ROOM"
      /\ For(j, L) # {} =>
           HasUser(j) /\ UserOf(j) # u /\ m_UserObjPool'[UserOf(j)].m_CurDomainState = "LOBBY"
      /\ For(j, C) # {} =>
           HasUser(j) /\ m_UserObjPool'[UserOf(j)].m_CurDomainState = "LOBBY"
  BY <1>2, <1>4, <1>6, <1>7 DEF Placements, Placement, SessionOf, HasUser, UserOf
<1>9. CASE j = s
  <2>1. For(j, sent') \subseteq {Notice(j, "ROOM_CHANGED_INFO_NTF", r),
                                 Answer(s, "ROOM_LEAVE_RES", "NONE")}
    BY <1>1, <1>5, <1>6, <1>8, <1>9, NoticeFor
  <2> QED BY <1>9, <2>1 DEF AtMostTwo
<1>10. CASE j # s
  <2>1. For(j, sent') \subseteq {Notice(j, "LOBBY_ENTER_USER_NTF", u),
                                 Notice(j, "ROOM_CHANGED_INFO_NTF", r)}
        \/ For(j, sent') \subseteq {Notice(j, "ROOM_LEAVE_USER_NTF", u)}
    BY <1>5, <1>6, <1>8, <1>10, NoticeFor
  <2>2. For(j, sent') # {} => HasUser(j)
    BY <1>5, <1>8, <1>10, NoticeFor
  <2> QED BY <2>1, <2>2 DEF AtMostTwo
<1> QED BY <1>9, <1>10

LEMMA CloseModest ==
    ASSUME StateInv, StateInv', NEW s \in Session, NtfSysCloseSession(s)
    PROVE  Modest(s)
<1> SUFFICES ASSUME NEW j \in Session
             PROVE  AtMostTwo(For(j, sent')) /\ (For(j, sent') # {} => j = s \/ HasUser(j))
  BY DEF Modest
<1>1. PICK u, l, r : u = UserOf(s) /\ l = User(s).m_LobbyIndex /\ r = User(s).m_RoomIndex
  OBVIOUS
<1>2. CASE sent' = {}
  BY <1>2 DEF For, AtMostTwo
<1>3. CASE GetUserError(s) = "NONE" /\ l \in LobbyIndex
  <2>1. HasUser(s) /\ RemoveUser(s) /\ LeaveEverything(s) /\ LeaveUser(l, u)
    BY <1>1, <1>3 DEF NtfSysCloseSession, RemoveUser, HasLobby, LeaveEverything
  <2>2. /\ u \in UserIndex
        /\ \A v \in UserIndex \ {u} : m_UserObjPool'[v] = m_UserObjPool[v]
        /\ m_UserObjPool'[u].m_CurDomainState = "NONE"
    BY <1>1, <2>1, CloseFacts
  <2>3. Placements /\ Placements'
    BY PlacedUsers, PlacedUsersNext
  <2>4. PICK R, C, L :
          /\ R = RoomLeaveNotice(m_RoomList'[l][r], m_UserObjPool, u)
          /\ C = ToLobby(m_UserIndexDic[l], m_UserObjPool, "ROOM_CHANGED_INFO_NTF", r, None)
          /\ L = ToLobby(m_UserIndexDic'[l], m_UserObjPool, "LOBBY_LEAVE_USER_NTF", u, u)
    OBVIOUS
  <2>5. /\ NamedRoom(s) <=> r \in RoomIndex
        /\ sent' = IF NamedRoom(s) THEN R \cup C ELSE L
    BY <1>1, <2>1, <2>4 DEF LeaveEverything, NamedRoom, HasRoom
  <2>6. /\ For(j, C) \subseteq {Notice(j, "ROOM_CHANGED_INFO_NTF", r)}
        /\ For(j, C) # {} => HasUser(j)
    <3>1. /\ For(j, C) \subseteq {Notice(j, "ROOM_CHANGED_INFO_NTF", r)}
          /\ For(j, C) # {} => \E v \in m_UserIndexDic[l] :
               m_UserObjPool[v].m_CurDomainState = "LOBBY" /\ m_UserObjPool[v].m_SessionIndex = j
      BY <2>4, LobbyNoticeFor
    <3> QED BY <1>3, <2>3, <3>1 DEF Placements, Placement, SessionOf
  <2>7. /\ For(j, L) \subseteq {Notice(j, "LOBBY_LEAVE_USER_NTF", u)}
        /\ For(j, L) # {} => HasUser(j)
    <3>1. /\ For(j, L) \subseteq {Notice(j, "LOBBY_LEAVE_USER_NTF", u)}
          /\ For(j, L) # {} => \E v \in m_UserIndexDic'[l] :
               m_UserObjPool[v].m_CurDomainState = "LOBBY" /\ m_UserObjPool[v].m_SessionIndex = j
      BY <2>4, LobbyNoticeFor
    <3>2. m_UserIndexDic'[l] \subseteq UserIndex
      BY <1>3, <2>3 DEF Placements
    <3> QED BY <2>3, <3>1, <3>2 DEF Placements, Placement, SessionOf
  <2>8. /\ For(j, R) \subseteq {Notice(j, "ROOM_LEAVE_USER_NTF", u)}
        /\ r \in RoomIndex /\ For(j, R) # {} => HasUser(j)
    <3>1. /\ For(j, R) \subseteq {Notice(j, "ROOM_LEAVE_USER_NTF", u)}
          /\ For(j, R) # {} => \E v \in ToSet(m_RoomList'[l][r].m_UserList) :
               m_UserObjPool[v].m_SessionIndex = j
      BY <2>4, LeaveNoticeFor
    <3>2. r \in RoomIndex => \A v \in ToSet(m_RoomList'[l][r].m_UserList) :
            v \in UserIndex /\ m_UserObjPool'[v].m_CurDomainState = "ROOM"
      BY <1>3, <2>3 DEF Placements
    <3>3. r \in RoomIndex => \A v \in ToSet(m_RoomList'[l][r].m_UserList) :
            v \in UserIndex /\ m_UserObjPool[v].m_CurDomainState = "ROOM"
      BY <2>2, <3>2
    <3> QED BY <2>3, <3>1, <3>3 DEF Placements, Placement, SessionOf
  <2>9. For(j, R \cup C) = For(j, R) \cup For(j, C)
    BY ForUnion
  <2> QED BY <2>5, <2>6, <2>7, <2>8, <2>9 DEF AtMostTwo
<1> QED BY <1>1, <1>2, <1>3 DEF NtfSysCloseSession, HasLobby

LEMMA ChatModest ==
    ASSUME StateInv, NEW s \in Session, LobbyChat(s) \/ RoomChat(s)
    PROVE  Modest(s)
<1> SUFFICES ASSUME NEW j \in Session
             PROVE  AtMostTwo(For(j, sent')) /\ (For(j, sent') # {} => j = s \/ HasUser(j))
  BY DEF Modest
<1>1. Placements
  BY PlacedUsers
<1>2. PICK u, l, r : u = UserOf(s) /\ l = User(s).m_LobbyIndex /\ r = User(s).m_RoomIndex
  OBVIOUS
<1>3. PICK pass : pass = User(s).m_SessionIndex
  OBVIOUS
<1>4. CASE LobbyChat(s)
  <2>1. l \in LobbyIndex
    BY <1>2, <1>4, LobbyFound DEF LobbyChat, LobbyChatError
  <2>2. PICK N : N = ToLobby(m_UserIndexDic[l], m_UserObjPool, "LOBBY_CHAT_NTF", u, pass)
    OBVIOUS
  <2>3. For(j, sent') = For(j, N) \cup For(j, {Answer(s, "LOBBY_CHAT_RES", "NONE")})
    BY <1>2, <1>3, <1>4, <2>2, ForUnion DEF LobbyChat
  <2>4. /\ For(j, N) \subseteq {Notice(j, "LOBBY_CHAT_NTF", u)}
        /\ For(j, N) # {} => \E v \in m_UserIndexDic[l] :
             m_UserObjPool[v].m_CurDomainState = "LOBBY" /\ m_UserObjPool[v].m_SessionIndex = j
    BY <2>2, LobbyNoticeFor
  <2>5. For(j, N) # {} => HasUser(j)
    BY <1>1, <2>1, <2>4 DEF Placements, Placement, SessionOf
  <2>6. For(j, sent') \subseteq {Notice(j, "LOBBY_CHAT_NTF", u), Answer(s, "LOBBY_CHAT_RES", "NONE")}
    BY <2>3, <2>4, NoticeFor
  <2>7. AtMostTwo(For(j, sent'))
    BY <2>6 DEF AtMostTwo
  <2> QED BY <2>3, <2>5, <2>7, NoticeFor
<1>5. CASE RoomChat(s)
  <2>1. l \in LobbyIndex /\ r \in RoomIndex
    <3>1. RoomMemberError(s, "ROOM_CHAT_INVALID_DOMAIN", "ROOM_CHAT_INVALID_LOBBY_INDEX") = "NONE"
      BY <1>5 DEF RoomChat, RoomChatError
    <3>2. LobbyError(s, "ROOM", "ROOM_CHAT_INVALID_DOMAIN",
                     "ROOM_CHAT_INVALID_LOBBY_INDEX") = "NONE" /\ r \in RoomIndex
      BY <1>2, <3>1 DEF RoomMemberError, HasRoom
    <3> QED BY <1>2, <3>2, LobbyFound
  <2>2. PICK N : N = ToRoom(m_RoomList[l][r], m_UserObjPool, "ROOM_CHAT_NTF", u, pass)
    OBVIOUS
  <2>3. For(j, sent') = For(j, N) \cup For(j, {Answer(s, "ROOM_CHAT_RES", "NONE")})
    BY <1>2, <1>3, <1>5, <2>2, ForUnion DEF RoomChat
  <2>4. /\ For(j, N) \subseteq {Notice(j, "ROOM_CHAT_NTF", u)}
        /\ For(j, N) # {} => \E v \in ToSet(m_RoomList[l][r].m_UserList) :
             m_UserObjPool[v].m_SessionIndex = j
    BY <2>2, RoomNoticeFor
  <2>5. For(j, N) # {} => HasUser(j)
    BY <1>1, <2>1, <2>4 DEF Placements, Placement, SessionOf
  <2>6. For(j, sent') \subseteq {Notice(j, "ROOM_CHAT_NTF", u), Answer(s, "ROOM_CHAT_RES", "NONE")}
    BY <2>3, <2>4, NoticeFor
  <2>7. AtMostTwo(For(j, sent'))
    BY <2>6 DEF AtMostTwo
  <2> QED BY <2>3, <2>5, <2>7, NoticeFor
<1> QED BY <1>4, <1>5

LEMMA AnswerModest ==
    ASSUME NEW s \in Session, NEW id, NEW error, sent' \subseteq {Answer(s, id, error)}
    PROVE  Modest(s)
<1> SUFFICES ASSUME NEW j \in Session
             PROVE  AtMostTwo(For(j, sent')) /\ (For(j, sent') # {} => j = s)
  BY DEF Modest
<1>1. For(j, sent') \subseteq For(j, {Answer(s, id, error)})
  BY DEF For
<1>2. For(j, sent') \subseteq {Answer(s, id, error)} /\ (j # s => For(j, sent') = {})
  BY <1>1, NoticeFor
<1>3. AtMostTwo(For(j, sent'))
  BY <1>2 DEF AtMostTwo
<1> QED BY <1>2, <1>3

LEMMA HandlerModest ==
    ASSUME StateInv, StateInv', NEW s \in Session, ClientPacket(s) \/ NtfSysCloseSession(s)
    PROVE  Modest(s)
<1>1. CASE NtfSysCloseSession(s)
  BY <1>1, CloseModest
<1>2. CASE \E o \in Offsets, id \in IDs : Login(s, <<s, o>>, id) \/ LoginRefused(s, <<s, o>>, id)
  BY <1>2, AnswerModest DEF Login, LoginRefused
<1>3. CASE DevEcho(s) \/ RoomGameStart(s) \/ LobbyList(s)
  BY <1>3, AnswerModest DEF DevEcho, RoomGameStart, LobbyList
<1>4. CASE LobbyChat(s) \/ RoomChat(s)
  BY <1>4, ChatModest
<1>5. CASE \E l \in AnyLobby : LobbyEnter(s, l)
  <2>1. PICK l \in AnyLobby : LobbyEnter(s, l)
    BY <1>5
  <2>2. l \in LobbyIndex
    BY <2>1, LobbyEnterFacts
  <2> QED BY <2>1, <2>2, LobbyMoveModest DEF LobbyEnter
<1>6. CASE LobbyLeave(s)
  <2>1. PICK l : l = User(s).m_LobbyIndex
    OBVIOUS
  <2>2. l \in LobbyIndex
    BY <1>6, <2>1, LobbyLeaveFacts
  <2> QED BY <1>6, <2>1, <2>2, LobbyMoveModest DEF LobbyLeave
<1>7. CASE \E start \in AnyStart : LobbyRoomList(s, start) \/ LobbyUserList(s, start)
  BY <1>7, AnswerModest DEF LobbyRoomList, LobbyUserList, SendList
<1>8. CASE \E isCreate \in BOOLEAN, r \in AnyRoom : RoomEnter(s, isCreate, r)
  BY <1>8, RoomEnterModest
<1>9. CASE RoomLeave(s)
  BY <1>9, RoomLeaveModest
<1>10. CASE Refused(s)
  BY <1>10, AnswerModest DEF Refused, Refuse
<1> QED BY <1>1, <1>2, <1>3, <1>4, <1>5, <1>6, <1>7, <1>8, <1>9, <1>10 DEF ClientPacket
-----------------------------------------------------------------------------
(* What a handler sends fits what TCPNetWork allows a handler to send.     *)

LEMMA AtMostTwoCounted ==
    ASSUME NEW S, AtMostTwo(S)
    PROVE  /\ Cardinality(S) \in 0 .. 2
           /\ S = {} => Cardinality(S) = 0
<1>1. PICK m, n : S \subseteq {m, n}
  BY DEF AtMostTwo
<1>2. /\ IsFiniteSet({m}) /\ Cardinality({m}) = 1
      /\ IsFiniteSet({m} \cup {n})
      /\ Cardinality({m} \cup {n}) \in {1, 2}
  <2>1. IsFiniteSet({m}) /\ Cardinality({m}) = 1
    BY FS_Singleton
  <2>2. /\ IsFiniteSet({m} \cup {n})
        /\ n \in {m} => Cardinality({m} \cup {n}) = Cardinality({m})
        /\ n \notin {m} => Cardinality({m} \cup {n}) = Cardinality({m}) + 1
    BY <2>1, FS_AddElement
  <2> QED BY <2>1, <2>2
<1>3. S \subseteq {m} \cup {n}
  BY <1>1
<1>4. IsFiniteSet(S) /\ Cardinality(S) <= Cardinality({m} \cup {n})
  BY <1>2, <1>3, FS_Subset
<1>5. Cardinality(S) \in Nat /\ (S = {} => Cardinality(S) = 0)
  BY <1>4, FS_CardinalityType, FS_EmptySet
<1> QED BY <1>2, <1>4, <1>5

LEMMA ModestSends ==
    ASSUME NEW s \in Session, Modest(s)
    PROVE  \A j \in Session : /\ SentTo(j) \in 0 .. Burst
                              /\ j # s /\ ~HasUser(j) => SentTo(j) = 0
<1> SUFFICES ASSUME NEW j \in Session
             PROVE  SentTo(j) \in 0 .. Burst /\ (j # s /\ ~HasUser(j) => SentTo(j) = 0)
  OBVIOUS
<1>1. SentTo(j) = Cardinality(For(j, sent'))
  BY DEF SentTo, For
<1>2. AtMostTwo(For(j, sent')) /\ (For(j, sent') # {} => j = s \/ HasUser(j))
  BY DEF Modest
<1>3. SentTo(j) \in 0 .. 2 /\ (For(j, sent') = {} => SentTo(j) = 0)
  BY <1>1, <1>2, AtMostTwoCounted
<1>4. Burst \in Nat /\ Burst >= 2
  BY NetworkAssumption
<1> QED BY <1>2, <1>3, <1>4

LEMMA DeliverSends ==
    ASSUME NEW s \in Session, Modest(s), Deliver, NEW to, NEW who, to = announced,
           \A j \in Session : j = s \/ HasUser(j) => j \in who
    PROVE  Net!SendToAll(to, who)
<1>1. PICK n : n = [j \in Session |-> SentTo(j)]
  OBVIOUS
<1>2. \A j \in Session : n[j] = SentTo(j)
  BY <1>1
<1>3. n \in [Net!Index -> 0 .. Burst]
  BY <1>1, ModestSends, SameIndex
<1>4. \A j \in Net!Index \ who : n[j] = 0
  BY <1>2, ModestSends, SameIndex
<1>5. SendBuffer' = [j \in Net!Index |-> Net!SendData(SendBuffer[j], to[j], n[j])]
  BY <1>2, SameIndex DEF Deliver
<1> QED BY <1>3, <1>4, <1>5 DEF Net!SendToAll

-----------------------------------------------------------------------------
(* The invariant.                                                          *)

\* The logic's own record of a connection agrees with its number, and the
\* user of a session with the connection that it logged in on.
Links ==
    /\ loginSeq \in [Session -> Nat]
    /\ \A s \in Session : m_ConnectedTime[s] <=> announced[s] # 0
    /\ \A s \in Session : HasUser(s) => announced[s] = loginSeq[s]

ServerInv == Network!Inv /\ StateInv /\ Links

\* A queued packet is taken when the logic is ready for it.
LEMMA HeadFits ==
    ASSUME Network!Inv, packetQue # << >>
    PROVE  LET e == Head(packetQue) IN
           /\ e.SessionIndex \in Session /\ e.PacketId \in {"CONNECT", "DATA", "CLOSE", "ZERO"}
           /\ e.seq \in Nat \ {0}
           /\ announced[e.SessionIndex] = IF e.PacketId = "CONNECT" THEN 0 ELSE e.seq
<1>1. packetQue \in Seq(Network!Event) /\ Network!EventsBracketed
  BY DEF Network!Inv, Network!TypeOK, Network!QueueInv
<1>2. /\ 1 \in 1 .. Len(packetQue) /\ packetQue[1] = Head(packetQue)
      /\ packetQue[1] \in Network!Event
  BY <1>1
<1>3. Network!First(packetQue, 1)
  BY DEF Network!First
<1>4. announced[packetQue[1].SessionIndex] = Network!Before(packetQue[1])
  BY <1>1, <1>2, <1>3 DEF Network!EventsBracketed, Network!Bracketed
<1>5. /\ packetQue[1].SessionIndex \in Session /\ packetQue[1].seq \in Nat \ {0}
      /\ packetQue[1].PacketId \in {"CONNECT", "DATA", "CLOSE", "ZERO"}
  BY <1>2, SameIndex DEF Network!Event, Network!PacketIds, Network!ClientIds
<1> QED BY <1>2, <1>4, <1>5 DEF Network!Before
LEMMA ServerTypes ==
    ASSUME ServerInv
    PROVE  /\ announced \in [Session -> Nat]
           /\ loginSeq \in [Session -> Nat]
           /\ m_ConnectedTime \in [Session -> BOOLEAN]
           /\ m_IsLoginSuccess \in [Session -> BOOLEAN]
           /\ \A s \in Session : m_IsLoginSuccess[s] <=> HasUser(s)
           /\ \A s \in Session : HasUser(s) => m_ConnectedTime[s]
           /\ \A s \in Session : HasUser(s) => announced[s] # 0
<1>1. announced \in [Session -> Nat]
  BY SameIndex DEF ServerInv, Network!Inv, Network!TypeOK
<1>2. StateInv /\ Links
  BY DEF ServerInv
<1> QED BY <1>1, <1>2 DEF StateInv, ConnectedTypes, LoginAgrees, Links

\* LoginAgrees in the next state.
LEMMA LoginNext ==
    ASSUME StateInv' PROVE \A s \in Session : (m_IsLoginSuccess[s])' <=> HasUser(s)'
BY DEF StateInv, LoginAgrees

\* A handler of a client's packet concerns the login of its own session only,
\* and takes no login back.
LEMMA ClientPacketLogin ==
    ASSUME NEW i \in Session, ClientPacket(i), StateInv
    PROVE  /\ UNCHANGED m_ConnectedTime
           /\ \A j \in Session : m_IsLoginSuccess[j] => m_IsLoginSuccess'[j]
           /\ \A j \in Session \ {i} : m_IsLoginSuccess'[j] = m_IsLoginSuccess[j]
<1>1. m_IsLoginSuccess \in [Session -> BOOLEAN]
  BY DEF StateInv, ConnectedTypes
<1>2. CASE \E o \in Offsets, id \in IDs : Login(i, <<i, o>>, id)
  BY <1>1, <1>2 DEF Login
<1>3. CASE \/ \E l \in AnyLobby : LobbyEnter(i, l)
           \/ \E isCreate \in BOOLEAN, r \in AnyRoom : RoomEnter(i, isCreate, r)
           \/ LobbyLeave(i) \/ RoomLeave(i)
  BY <1>3 DEF LobbyEnter, RoomEnter, LobbyLeave, RoomLeave, connectedVars
<1>4. CASE Answers(i)
  BY <1>4, AnswersChangeNothing DEF connectedVars
<1> QED BY <1>2, <1>3, <1>4 DEF ClientPacket, Answers

LEMMA HandledInv ==
    ASSUME StateInv, NEW i \in Session, Process(i) PROVE StateInv'
BY StateInvNext DEF Next

LEMMA HandleConnectStep ==
    ASSUME ServerInv, NEW i \in Session, HandleConnect(i)
    PROVE  Net!Next /\ StateInv' /\ Links'
<1>1. Net!Next
  BY DEF HandleConnect, Net!Next, Net!LogicThread, Net!Draining
<1>2. /\ NtfSysConnctSession(i) /\ UNCHANGED loginSeq
      /\ packetQue # << >> /\ Head(packetQue).SessionIndex = i
      /\ announced' = [announced EXCEPT ![i] = Head(packetQue).seq]
  BY DEF HandleConnect, Net!NtfSysConnctSession, Net!GetPacketInfo, Net!Pkt
<1>3. StateInv'
  BY <1>2, HandledInv DEF ServerInv, Process
<1>4. Head(packetQue).seq # 0
  BY <1>2, HeadFits DEF ServerInv
<1>5. /\ ~m_ConnectedTime[i]
      /\ m_ConnectedTime' = [m_ConnectedTime EXCEPT ![i] = TRUE]
      /\ UNCHANGED m_UserSessionDic
  BY <1>2 DEF NtfSysConnctSession, userVars
<1>6. \A s \in Session : HasUser(s)' <=> HasUser(s)
  BY <1>5 DEF HasUser
<1>7. Links
  BY DEF ServerInv
<1>8. \A s \in Session : (m_ConnectedTime[s])' <=> (announced[s])' # 0
  BY <1>2, <1>4, <1>5, <1>7, ServerTypes DEF Links
<1>9. \A s \in Session : HasUser(s) => s # i
  BY <1>5, ServerTypes
<1>10. \A s \in Session : HasUser(s)' => announced'[s] = loginSeq'[s]
  BY <1>2, <1>6, <1>7, <1>9, ServerTypes DEF Links
<1> QED BY <1>1, <1>2, <1>3, <1>7, <1>8, <1>10 DEF Links

LEMMA HandleDataStep ==
    ASSUME ServerInv, NEW i \in Session, HandleData(i)
    PROVE  Net!Next /\ StateInv' /\ Links'
<1>1. /\ Net!GetPacketInfo("DATA") /\ ClientPacket(i) /\ Deliver
      /\ packetQue # << >> /\ Head(packetQue).SessionIndex = i
      /\ Head(packetQue).PacketId = "DATA"
      /\ loginSeq' = IF HasUser(i)' /\ ~HasUser(i)
                     THEN [loginSeq EXCEPT ![i] = Head(packetQue).seq] ELSE loginSeq
      /\ UNCHANGED <<netPool, netThread, announced, latest, drained>>
  BY DEF HandleData, Net!GetPacketInfo, Net!Pkt
<1>2. StateInv /\ Links /\ StateInv'
  BY <1>1, HandledInv DEF ServerInv, Process
<1>3. announced[i] = Head(packetQue).seq /\ announced[i] # 0
  BY <1>1, HeadFits DEF ServerInv
<1>4. Modest(i)
  BY <1>1, <1>2, HandlerModest
<1>5. Net!Next
  <2>1. [announced EXCEPT ![i] = Net!Pkt.seq] = announced
    BY <1>1, <1>3, ServerTypes DEF Net!Pkt
  <2>2. \A j \in Session : j = i \/ HasUser(j) => j \in Net!Known \cup {i}
    BY ServerTypes, SameIndex DEF Net!Known
  <2>3. Net!SendToAll([announced EXCEPT ![i] = Net!Pkt.seq], Net!Known \cup {i})
    BY <1>1, <1>4, <2>1, <2>2, DeliverSends
  <2>4. Net!Pkt.SessionIndex = i
    BY <1>1 DEF Net!Pkt
  <2>5. UNCHANGED <<Net!pool, connectSeq, Net!logic, Net!thread, m_IsRun>>
    BY <1>1 DEF netPool, netThread, Net!pool, Net!logic, Net!thread
  <2>6. Net!ProcessData
    BY <1>1, <2>3, <2>4, <2>5 DEF Net!ProcessData
  <2> QED BY <2>6 DEF Net!Next, Net!LogicThread, Net!Draining
<1>6. /\ UNCHANGED m_ConnectedTime
      /\ \A j \in Session : HasUser(j) => HasUser(j)'
      /\ \A j \in Session \ {i} : HasUser(j)' <=> HasUser(j)
  BY <1>1, <1>2, ClientPacketLogin, LoginNext, ServerTypes
<1>7. loginSeq' \in [Session -> Nat]
  BY <1>1, <1>3, ServerTypes
<1>8. \A s \in Session : (m_ConnectedTime[s])' <=> (announced[s])' # 0
  BY <1>1, <1>2, <1>6 DEF Links
<1>9. ASSUME NEW s \in Session, HasUser(s)' PROVE announced'[s] = loginSeq'[s]
  <2>1. CASE HasUser(s)
    <3>1. announced[s] = loginSeq[s] /\ announced' = announced
      BY <1>1, <1>2, <2>1 DEF Links
    <3>2. loginSeq'[s] = loginSeq[s]
      BY <1>1, <2>1, ServerTypes
    <3> QED BY <3>1, <3>2
  <2>2. CASE ~HasUser(s)
    <3>1. s = i
      BY <1>6, <1>9, <2>2
    <3>2. loginSeq'[s] = Head(packetQue).seq
      BY <1>1, <1>9, <2>2, <3>1, ServerTypes
    <3> QED BY <1>1, <1>3, <3>1, <3>2
  <2> QED BY <2>1, <2>2
<1> QED BY <1>2, <1>5, <1>7, <1>8, <1>9 DEF Links

LEMMA HandleCloseStep ==
    ASSUME ServerInv, NEW i \in Session, HandleClose(i)
    PROVE  Net!Next /\ StateInv' /\ Links'
<1>1. /\ Net!GetPacketInfo("CLOSE") /\ NtfSysCloseSession(i) /\ Deliver
      /\ announced' = [announced EXCEPT ![i] = 0]
      /\ UNCHANGED <<netPool, netThread, latest, drained, loginSeq>>
  BY DEF HandleClose
<1>2. StateInv /\ Links /\ StateInv'
  BY <1>1, HandledInv DEF ServerInv, Process
<1>3. Modest(i)
  BY <1>1, <1>2, HandlerModest
<1>4. /\ m_ConnectedTime[i]
      /\ m_ConnectedTime' = [m_ConnectedTime EXCEPT ![i] = FALSE]
      /\ m_IsLoginSuccess' = [m_IsLoginSuccess EXCEPT ![i] = FALSE]
  BY <1>1 DEF NtfSysCloseSession
<1>5. Net!Next
  <2>1. announced[i] # 0
    BY <1>2, <1>4 DEF Links
  <2>2. \A j \in Session : j = i \/ HasUser(j) => j \in Net!Known
    BY <2>1, ServerTypes, SameIndex DEF Net!Known
  <2>3. Net!SendToAll(announced, Net!Known)
    BY <1>1, <1>3, <2>2, DeliverSends
  <2>4. Net!Pkt.SessionIndex = i
    BY DEF HandleClose
  <2>5. UNCHANGED <<Net!pool, connectSeq, Net!thread, m_IsRun>>
    BY <1>1 DEF netPool, netThread, Net!pool, Net!thread
  <2>6. Net!NtfSysCloseSession
    BY <1>1, <2>3, <2>4, <2>5 DEF Net!NtfSysCloseSession
  <2> QED BY <2>6 DEF Net!Next, Net!LogicThread, Net!Draining
<1>6. \A s \in Session : HasUser(s)' => s # i /\ HasUser(s)
  BY <1>2, <1>4, LoginNext, ServerTypes
<1>7. \A s \in Session : (m_ConnectedTime[s])' <=> (announced[s])' # 0
  BY <1>1, <1>2, <1>4, ServerTypes DEF Links
<1>8. \A s \in Session : HasUser(s)' => announced'[s] = loginSeq'[s]
  BY <1>1, <1>2, <1>6, ServerTypes DEF Links
<1> QED BY <1>1, <1>2, <1>5, <1>7, <1>8 DEF Links
\* The rest of the loop lets the logic's records be.
LEMMA LoopStep ==
    ASSUME ServerInv, Loop
    PROVE  Net!Next /\ StateInv' /\ Links'
<1>1. /\ UNCHANGED <<userVars, lobbyVars, connectedVars, loginSeq>>
      /\ \/ Net!SelectNothing \/ Net!SelectReady \/ Net!Accepting
         \/ \E i \in Session : Net!PollOne(i) \/ CheckClose(i) \/ Net!CheckSkip(i)
         \/ Net!PollDone \/ Net!DrainDone \/ Net!DrainCut \/ Net!LoopTest
  BY DEF Loop
<1>2. Net!Next
  BY <1>1, SameIndex DEF CheckClose, Net!Next, Net!LogicThread, Net!Draining
<1>3. UNCHANGED announced
  <2>1. CASE \/ Net!SelectNothing \/ Net!SelectReady \/ Net!PollDone
             \/ Net!DrainDone \/ Net!DrainCut \/ Net!LoopTest
    BY <2>1 DEF Net!SelectNothing, Net!SelectReady, Net!PollDone, Net!DrainDone,
                Net!DrainCut, Net!LoopTest, Net!logic
  <2>2. CASE Net!Accepting
    BY <2>2 DEF Net!Accepting, Net!AcceptDone, Net!NewSession, Net!NewSessionPoolEmpty, Net!logic
  <2>3. CASE \E i \in Session : Net!PollOne(i)
    BY <2>3 DEF Net!PollOne, Net!PollSkip, Net!PollServe, Net!PollReceiveError,
                Net!PollSendError, Net!logic
  <2>4. CASE \E i \in Session : CheckClose(i) \/ Net!CheckSkip(i)
    BY <2>4 DEF CheckClose, Net!ForcedClose, Net!CheckSkip, Net!logic
  <2> QED BY <1>1, <2>1, <2>2, <2>3, <2>4
<1>4. StateInv'
  BY <1>1, NobodyMovesInv DEF userVars, ServerInv
<1>5. Links'
  BY <1>1, <1>3 DEF ServerInv, Links, HasUser, userVars, connectedVars
<1> QED BY <1>2, <1>4, <1>5

LEMMA ServerStep ==
    ServerInv /\ [ServerNext]_serverVars => [Net!Next]_(Net!vars) /\ ServerInv'
<1> SUFFICES ASSUME ServerInv, [ServerNext]_serverVars
             PROVE  [Net!Next]_(Net!vars) /\ ServerInv'
  OBVIOUS
<1>1. [Net!Next]_(Net!vars) /\ StateInv' /\ Links'
  <2>1. CASE ServerNext
    BY <2>1, HandleConnectStep, HandleDataStep, HandleCloseStep, LoopStep DEF ServerNext, Handle
  <2>2. CASE UNCHANGED serverVars
    <3>1. UNCHANGED Net!vars
      BY <2>2 DEF serverVars, netVars, netPool, netThread, Net!vars
    <3>2. /\ UNCHANGED <<m_UserObjPool, m_UserObjPoolIndex, m_UserSessionDic, m_UserIDDic,
                         lobbyVars, connectedVars>>
          /\ UNCHANGED <<announced, loginSeq>>
      BY <2>2 DEF serverVars, netVars, vars, userVars
    <3>3. StateInv'
      BY <3>2, NobodyMovesInv DEF ServerInv
    <3>4. Links'
      BY <3>2 DEF ServerInv, Links, HasUser, connectedVars
    <3> QED BY <3>1, <3>3, <3>4
  <2> QED BY <2>1, <2>2
<1>2. Network!Inv'
  BY <1>1, SameNext, NetworkAssumed, Network!InvNext DEF ServerInv
<1> QED BY <1>1, <1>2 DEF ServerInv

LEMMA ServerInvInit == ServerInit => ServerInv
<1> SUFFICES ASSUME ServerInit PROVE ServerInv
  OBVIOUS
<1>1. Network!Inv
  BY SameInit, NetworkAssumed, Network!InvInit DEF ServerInit
<1>2. StateInv
  BY StateInvInit DEF ServerInit
<1>3. Links
  <2>1. /\ loginSeq = [s \in Session |-> 0]
        /\ announced = [s \in Session |-> 0]
        /\ m_ConnectedTime = [s \in Session |-> FALSE]
    BY SameIndex DEF ServerInit, Init, Net!Init
  <2>2. \A s \in Session : ~HasUser(s)
    BY <1>2, <2>1 DEF StateInv, LoginAgrees
  <2> QED BY <2>1, <2>2 DEF Links
<1> QED BY <1>1, <1>2, <1>3 DEF ServerInv

LEMMA ServerInvCorrect == ServerSpec => []ServerInv
BY ServerInvInit, ServerStep, PTL DEF ServerSpec

-----------------------------------------------------------------------------
(* The theorems.                                                           *)

\* The real handlers are handlers that TCPNetWork allows: whatever holds of
\* the network layer under any handlers holds of the whole server.
THEOREM NetworkRefined == ServerSpec => ImplementsNetwork
<1>1. ServerInit => Net!Init
  BY DEF ServerInit
<1>2. ServerInv /\ [ServerNext]_serverVars => [Net!Next]_(Net!vars)
  BY ServerStep
<1> QED BY <1>1, <1>2, ServerInvCorrect, PTL DEF ServerSpec, ImplementsNetwork, Net!Spec

\* A session index never leads the handlers to the user of an earlier client,
\* for any number of sessions and however often indices are given again.
THEOREM OwnUserCorrect == ServerSpec => []OwnUser
<1>1. ServerInv => OwnUser
  BY ServerTypes DEF ServerInv, Links, OwnUser
<1> QED BY <1>1, ServerInvCorrect, PTL
\* The same of the packet processor: the packets that the network layer
\* queues come in an order that it is made for, so whatever holds of its
\* tables when every session's packets lie between its CONNECT and its CLOSE
\* holds of the whole server.
THEOREM TablesAgree ==
    ServerSpec => [](LoginAgrees /\ MembershipAgrees /\ RoomsAgree /\ UserPoolPartition)
<1>1. ServerInv => LoginAgrees /\ MembershipAgrees /\ RoomsAgree /\ UserPoolPartition
  <2>1. StateInv => UserPoolPartition
    BY DEF StateInv, Inv
  <2> QED BY <2>1, StateInvMembershipAgrees, StateInvRoomsAgree DEF ServerInv, StateInv
<1> QED BY <1>1, ServerInvCorrect, PTL

\* No packet is stuck at the head of packetQue because the logic is not in
\* the state in which its handler works: a CONNECT finds the session unknown,
\* a client's packet and a CLOSE find it known, under the number of the
\* connection that they came from.
HandlersReady ==
    packetQue # << >> =>
        LET e == Head(packetQue) IN
        /\ m_ConnectedTime[e.SessionIndex] <=> e.PacketId # "CONNECT"
        /\ e.PacketId # "CONNECT" => announced[e.SessionIndex] = e.seq

THEOREM HandlersReadyCorrect == ServerSpec => []HandlersReady
<1>1. ServerInv => HandlersReady
  <2> SUFFICES ASSUME ServerInv, packetQue # << >>
               PROVE  LET e == Head(packetQue) IN
                      /\ m_ConnectedTime[e.SessionIndex] <=> e.PacketId # "CONNECT"
                      /\ e.PacketId # "CONNECT" => announced[e.SessionIndex] = e.seq
    BY DEF HandlersReady
  <2> DEFINE e == Head(packetQue)
  <2>1. /\ e.SessionIndex \in Session /\ e.seq # 0
        /\ announced[e.SessionIndex] = IF e.PacketId = "CONNECT" THEN 0 ELSE e.seq
    BY HeadFits DEF ServerInv
  <2>2. m_ConnectedTime[e.SessionIndex] <=> announced[e.SessionIndex] # 0
    BY <2>1 DEF ServerInv, Links
  <2> QED BY <2>1, <2>2
<1> QED BY <1>1, ServerInvCorrect, PTL

-----------------------------------------------------------------------------
(* A connection that is gone.                                              *)

LEMMA LeastIndex ==
    ASSUME NEW S \in SUBSET Nat, S # {} PROVE \E k \in S : \A j \in S : k <= j
BY LowestLeast

LEMMA GreatestIndex ==
    ASSUME NEW n \in Nat, NEW S \in SUBSET (1 .. n), S # {}
    PROVE  \E k \in S : \A j \in S : j <= k
<1>1. PICK T : T = {n - j : j \in S}
  OBVIOUS
<1>2. T \subseteq Nat /\ T # {}
  <2>1. \A j \in S : j \in 1 .. n
    OBVIOUS
  <2>2. \A j \in S : n - j \in Nat
    BY <2>1
  <2> QED BY <1>1, <2>2
<1>3. PICK t \in T : \A x \in T : t <= x
  BY <1>2, LeastIndex
<1>4. PICK k \in S : t = n - k
  BY <1>1
<1>5. ASSUME NEW j \in S PROVE j <= k
  <2>1. n - j \in T
    BY <1>1
  <2>2. n - k <= n - j /\ j \in Nat /\ k \in Nat
    BY <1>3, <1>4, <2>1
  <2> QED BY <2>2
<1> QED BY <1>4, <1>5

\* When the pool has given up a connection that the logic still holds, the
\* events of its index start with packets of it and one of them closes it.
LEMMA CloseIsQueued ==
    ASSUME Network!Inv, NEW s \in Session, announced[s] # 0, SessionSeq[s] # announced[s]
    PROVE  \E p \in 1 .. Len(packetQue) :
             packetQue[p] = Net!RecvPacketInfo(s, "CLOSE", announced[s])
<1> DEFINE que == packetQue
           Of(p) == que[p].SessionIndex = s
           Ends(p) == Of(p) /\ Network!After(que[p]) # announced[s]
<1>1. que \in Seq(Network!Event) /\ Network!Bracketed(que, announced, SessionSeq)
  BY DEF Network!Inv, Network!TypeOK, Network!QueueInv, Network!EventsBracketed
<1>2. Len(que) \in Nat /\ \A p \in 1 .. Len(que) : que[p] \in Network!Event
  BY <1>1
<1>3. /\ \A p, q \in 1 .. Len(que) : Network!Adjacent(que, p, q) =>
           Network!After(que[p]) = Network!Before(que[q])
      /\ \A p \in 1 .. Len(que) : Network!First(que, p) /\ Of(p) =>
           announced[s] = Network!Before(que[p])
      /\ \A p \in 1 .. Len(que) : Network!Last(que, p) /\ Of(p) =>
           SessionSeq[s] = Network!After(que[p])
      /\ (\A p \in 1 .. Len(que) : ~Of(p)) => announced[s] = SessionSeq[s]
  BY <1>1, SameIndex DEF Network!Bracketed
<1>4. \E p \in 1 .. Len(que) : Ends(p)
  <2>1. PICK A : A = {p \in 1 .. Len(que) : Of(p)}
    OBVIOUS
  <2>2. A # {} /\ A \in SUBSET (1 .. Len(que))
    BY <1>3, <2>1
  <2>3. PICK p \in A : \A q \in A : q <= p
    BY <1>2, <2>2, GreatestIndex
  <2>4. Network!Last(que, p)
    BY <1>2, <2>1, <2>3 DEF Network!Last
  <2> QED BY <1>3, <2>1, <2>3, <2>4
<1>5. PICK p \in 1 .. Len(que) : Ends(p) /\ \A q \in 1 .. Len(que) : Ends(q) => p <= q
  <2>1. PICK A : A = {p \in 1 .. Len(que) : Ends(p)}
    OBVIOUS
  <2>2. A # {} /\ A \in SUBSET Nat
    BY <1>2, <1>4, <2>1
  <2>3. PICK p \in A : \A q \in A : p <= q
    BY <2>2, LeastIndex
  <2> QED BY <2>1, <2>3
<1>6. Network!Before(que[p]) = announced[s]
  <2>1. CASE Network!First(que, p)
    BY <1>3, <1>5, <2>1
  <2>2. CASE ~Network!First(que, p)
    <3>1. PICK A : A = {r \in 1 .. Len(que) : r < p /\ Of(r)}
      OBVIOUS
    <3>2. A # {} /\ A \in SUBSET (1 .. Len(que))
      BY <1>5, <2>2, <3>1 DEF Network!First
    <3>3. PICK q \in A : \A r \in A : r <= q
      BY <1>2, <3>2, GreatestIndex
    <3>4. q \in 1 .. Len(que) /\ q < p /\ Of(q)
      BY <3>1, <3>3
    <3>5. \A r \in 1 .. Len(que) : q < r /\ r < p => ~Of(r)
      BY <1>2, <3>1, <3>3, <3>4
    <3>6. Network!Adjacent(que, q, p)
      BY <1>5, <3>4, <3>5 DEF Network!Adjacent
    <3>7. ~Ends(q)
      BY <1>2, <1>5, <3>4
    <3> QED BY <1>3, <1>5, <3>4, <3>6, <3>7
  <2> QED BY <2>1, <2>2
<1>7. que[p] = [SessionIndex |-> s, PacketId |-> "CLOSE", seq |-> announced[s]]
  <2>1. que[p].PacketId # "CONNECT" /\ que[p].seq = announced[s]
    BY <1>6 DEF Network!Before
  <2>2. que[p].PacketId = "CLOSE"
    BY <1>5, <2>1 DEF Network!After
  <2>3. que[p] \in [SessionIndex : Network!Index, PacketId : Network!PacketIds, seq : Nat \ {0}]
    BY <1>2 DEF Network!Event
  <2> QED BY <1>5, <2>1, <2>2, <2>3
<1> QED BY <1>7 DEF Net!RecvPacketInfo

\* A user whose client is cut off never stays: while its connection is gone
\* and it is still there, the CLOSE that removes it is in the queue.
THEOREM GhostsLeaveCorrect == ServerSpec => []GhostsLeave
<1>1. ServerInv => GhostsLeave
  <2> SUFFICES ASSUME ServerInv, NEW s \in Session, HasUser(s), SessionSeq[s] # loginSeq[s]
               PROVE  \E p \in 1 .. Len(packetQue) :
                        packetQue[p] = Net!RecvPacketInfo(s, "CLOSE", loginSeq[s])
    BY DEF GhostsLeave
  <2>1. announced[s] = loginSeq[s] /\ announced[s] # 0
    BY ServerTypes DEF ServerInv, Links
  <2> QED BY <2>1, CloseIsQueued DEF ServerInv
<1> QED BY <1>1, ServerInvCorrect, PTL

=============================================================================
