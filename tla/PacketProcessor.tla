--------------------------- MODULE PacketProcessor ---------------------------
(***************************************************************************)
(* MDLogicLib::PacketProcessor: the handlers of the packets that           *)
(* LogicMain::Run takes from the network, over the user manager, the       *)
(* lobbies and their rooms.  Handlers run one at a time on the logic       *)
(* thread, so each is one action.  The packets of a session come between   *)
(* its CONNECT and its CLOSE (SessionEvents, which TCPNetWork implements). *)
(*                                                                         *)
(* sent holds what the last handler passed to SendData.                    *)
(***************************************************************************)
EXTENDS Lobby

VARIABLES
    m_ConnectedTime,    \* ConnectedUserList: is it not 0?
    m_IsLoginSuccess,
    sent

connectedVars == <<m_ConnectedTime, m_IsLoginSuccess>>
vars == <<userVars, lobbyVars, connectedVars, sent>>

\* What a handler depends on: not what was sent and answered before it.
StateView == <<m_UserObjPool, m_UserObjPoolIndex, m_UserSessionDic, m_UserIDDic,
               lobbyVars, connectedVars>>

Init ==
    /\ UserManagerInit
    /\ LobbyInit
    /\ m_ConnectedTime = [s \in Session |-> FALSE]
    /\ m_IsLoginSuccess = [s \in Session |-> FALSE]
    /\ sent = {}

User(s) == m_UserObjPool[UserOf(s)]

\* A packet of a client arrives on a session the logic knows.
Packet(s) == m_ConnectedTime[s]

\* A handler that ends at CHECK_ERR: an answer with the error, nothing else.
Refuse(s, id, error) ==
    /\ Packet(s)
    /\ error # "NONE"
    /\ sent' = {Answer(s, id, error)}
    /\ UNCHANGED <<userVars, lobbyVars, connectedVars>>

\* GetUser, then the test of the user's domain, then GetLobby.
DomainError(s, domain, error) ==
    IF GetUserError(s) # "NONE" THEN GetUserError(s)
    ELSE IF User(s).m_CurDomainState # domain THEN error
    ELSE "NONE"
LobbyError(s, domain, error, lobbyError) ==
    IF DomainError(s, domain, error) # "NONE" THEN DomainError(s, domain, error)
    ELSE IF ~HasLobby(User(s).m_LobbyIndex) THEN lobbyError
    ELSE "NONE"

-----------------------------------------------------------------------------
(* Connecting and logging in.                                              *)

NtfSysConnctSession(s) ==
    /\ ~m_ConnectedTime[s]
    /\ m_ConnectedTime' = [m_ConnectedTime EXCEPT ![s] = TRUE]
    /\ sent' = {}
    /\ UNCHANGED <<userVars, lobbyVars, m_IsLoginSuccess>>

Login(s, a, id) ==
    /\ Packet(s)
    /\ AddUser(s, a, id)
    /\ m_IsLoginSuccess' = [m_IsLoginSuccess EXCEPT ![s] = TRUE]
    /\ sent' = {Answer(s, "LOGIN_IN_RES", "NONE")}
    /\ UNCHANGED <<lobbyVars, m_ConnectedTime>>

\* The client is told the error; its session stays open.
LoginRefused(s, a, id) ==
    /\ Packet(s)
    /\ AddUserRefused(s, a, id)
    /\ sent' = {Answer(s, "LOGIN_IN_RES", AddUserError(a))}
    /\ UNCHANGED <<lobbyVars, connectedVars>>

DevEcho(s) ==
    /\ Packet(s)
    /\ sent' = {Answer(s, "DEV_ECHO_RES", "NONE")}
    /\ UNCHANGED <<userVars, lobbyVars, connectedVars>>

\* RoomMasterGameStart and RoomGameStart do nothing yet.
RoomGameStart(s) ==
    /\ Packet(s)
    /\ sent' = {}
    /\ UNCHANGED <<userVars, lobbyVars, connectedVars>>

-----------------------------------------------------------------------------
(* The lobby.                                                              *)

LobbyListError(s) == DomainError(s, "LOGIN", "LOBBY_LIST_INVALID_DOMAIN")

LobbyList(s) ==
    /\ Packet(s) /\ LobbyListError(s) = "NONE"
    /\ sent' = {Answer(s, "LOBBY_LIST_RES", "NONE")}
    /\ UNCHANGED <<userVars, lobbyVars, connectedVars>>

LobbyEnterError(s, l) ==
    LET error == DomainError(s, "LOGIN", "LOBBY_ENTER_INVALID_DOMAIN") IN
    IF error # "NONE" THEN error
    ELSE IF ~HasLobby(l) THEN "LOBBY_ENTER_INVALID_LOBBY_INDEX"
    ELSE EnterUserError(l, UserOf(s))

LobbyEnter(s, l) ==
    LET u == UserOf(s) IN
    /\ Packet(s) /\ LobbyEnterError(s, l) = "NONE"
    /\ EnterUser(l, u)
    /\ m_UserObjPool' = [m_UserObjPool EXCEPT ![u] = UserInLobby(@, l)]
    /\ sent' = ToLobby(m_UserIndexDic'[l], m_UserObjPool', "LOBBY_ENTER_USER_NTF", u, u)
               \cup {Answer(s, "LOBBY_ENTER_RES", "NONE")}
    /\ UNCHANGED <<m_UserObjPoolIndex, m_UserSessionDic, m_UserIDDic, addRet,
                   m_RoomList, connectedVars>>

\* SendRoomList and SendUserList send nothing for a start they reject, which
\* is one from size() - 1 on (and none when the list is empty: size_t).
ListStart(start, size) == start >= 0 /\ (size = 0 \/ start < size - 1)

LobbyRoomListError(s) ==
    LobbyError(s, "LOBBY", "LOBBY_ROOM_LIST_INVALID_DOMAIN",
               "LOBBY_ROOM_LIST_INVALID_LOBBY_INDEX")
LobbyUserListError(s) ==
    LobbyError(s, "LOBBY", "LOBBY_USER_LIST_INVALID_DOMAIN",
               "LOBBY_USER_LIST_INVALID_LOBBY_INDEX")

SendList(s, id, start, size) ==
    /\ sent' = IF ListStart(start, size) THEN {Answer(s, id, "NONE")} ELSE {}
    /\ UNCHANGED <<userVars, lobbyVars, connectedVars>>

LobbyRoomList(s, start) ==
    /\ Packet(s) /\ LobbyRoomListError(s) = "NONE"
    /\ SendList(s, "LOBBY_ENTER_ROOM_LIST_RES", start, MaxRoomCountByLobby)

LobbyUserList(s, start) ==
    /\ Packet(s) /\ LobbyUserListError(s) = "NONE"
    /\ SendList(s, "LOBBY_ENTER_USER_LIST_RES", start, MaxLobbyUserCount)

LobbyChatError(s) ==
    LobbyError(s, "LOBBY", "LOBBY_CHAT_INVALID_DOMAIN", "LOBBY_CHAT_INVALID_LOBBY_INDEX")

\* NotifyChat passes the session index where SendToAllUser takes the index
\* of the user to leave out.
LobbyChat(s) ==
    LET u == UserOf(s)  l == User(s).m_LobbyIndex IN
    /\ Packet(s) /\ LobbyChatError(s) = "NONE"
    /\ sent' = ToLobby(m_UserIndexDic[l], m_UserObjPool, "LOBBY_CHAT_NTF", u,
                       User(s).m_SessionIndex)
               \cup {Answer(s, "LOBBY_CHAT_RES", "NONE")}
    /\ UNCHANGED <<userVars, lobbyVars, connectedVars>>

\* LeaveUser empties the user's slot before it finds that the user is not in
\* the dictionary; such a user has no slot (MembershipAgrees).
LobbyLeaveError(s) ==
    LET error == LobbyError(s, "LOBBY", "LOBBY_LEAVE_INVALID_DOMAIN",
                            "LOBBY_LEAVE_INVALID_LOBBY_INDEX") IN
    IF error # "NONE" THEN error
    ELSE LeaveUserError(User(s).m_LobbyIndex, UserOf(s))

LobbyLeave(s) ==
    LET u == UserOf(s)  l == User(s).m_LobbyIndex IN
    /\ Packet(s) /\ LobbyLeaveError(s) = "NONE"
    /\ LeaveUser(l, u)
    /\ m_UserObjPool' = [m_UserObjPool EXCEPT ![u] = UserInLogin(@)]
    /\ sent' = ToLobby(m_UserIndexDic'[l], m_UserObjPool', "LOBBY_LEAVE_USER_NTF", u, u)
               \cup {Answer(s, "LOBBY_LEAVE_RES", "NONE")}
    /\ UNCHANGED <<m_UserObjPoolIndex, m_UserSessionDic, m_UserIDDic, addRet,
                   m_RoomList, connectedVars>>

-----------------------------------------------------------------------------
(* Rooms.                                                                  *)

\* The room to enter after a CreateRoom that is asked for (room -> room').
Target(l, isCreate, r) ==
    IF isCreate THEN CreatedRoom(m_RoomList[l][r]) ELSE m_RoomList[l][r]

RoomEnterError(s, isCreate, r) ==
    LET l == User(s).m_LobbyIndex
        error == LobbyError(s, "LOBBY", "ROOM_ENTER_INVALID_DOMAIN",
                            "ROOM_ENTER_INVALID_LOBBY_INDEX") IN
    IF error # "NONE" THEN error
    ELSE IF isCreate /\ UnusedRooms(l) = {} THEN "ROOM_ENTER_EMPTY_ROOM"
    ELSE IF isCreate THEN CreateRoomError(m_RoomList[l][FirstUnusedRoom(l)])
    ELSE IF ~HasRoom(r) THEN "ROOM_ENTER_INVALID_ROOM_INDEX"
    ELSE EnterRoomError(m_RoomList[l][r])

\* With isCreate the requested index r is ignored for the first unused room,
\* which, just created and empty, is never full.
RoomEnter(s, isCreate, r) ==
    LET u == UserOf(s)
        l == User(s).m_LobbyIndex
        room == IF isCreate THEN FirstUnusedRoom(l) ELSE r IN
    /\ Packet(s) /\ RoomEnterError(s, isCreate, r) = "NONE"
    /\ m_RoomList' = [m_RoomList EXCEPT
           ![l][room] = EnteredRoom(Target(l, isCreate, room), u)]
    /\ m_UserObjPool' = [m_UserObjPool EXCEPT ![u] = UserInRoom(@, l, room)]
    /\ sent' =
         ToLobby(m_UserIndexDic[l], m_UserObjPool', "LOBBY_LEAVE_USER_NTF", u, u)
         \cup ToLobby(m_UserIndexDic[l], m_UserObjPool', "ROOM_CHANGED_INFO_NTF", room, None)
         \cup ToRoom(m_RoomList'[l][room], m_UserObjPool', "ROOM_ENTER_USER_NTF", u, u)
         \cup {Answer(s, "ROOM_ENTER_RES", "NONE")}
    /\ UNCHANGED <<m_UserObjPoolIndex, m_UserSessionDic, m_UserIDDic, addRet,
                   m_UserList, m_UserIndexDic, connectedVars>>

RoomMemberError(s, domainError, lobbyError) ==
    LET error == LobbyError(s, "ROOM", domainError, lobbyError) IN
    IF error # "NONE" THEN error
    ELSE IF ~HasRoom(User(s).m_RoomIndex) THEN "ROOM_ENTER_INVALID_ROOM_INDEX"
    ELSE "NONE"

RoomLeaveError(s) ==
    LET error == RoomMemberError(s, "ROOM_LEAVE_INVALID_DOMAIN",
                                 "ROOM_ENTER_INVALID_LOBBY_INDEX") IN
    IF error # "NONE" THEN error
    ELSE LeaveRoomError(m_RoomList[User(s).m_LobbyIndex][User(s).m_RoomIndex], UserOf(s))

\* The user goes back to the lobby, of which it is still a member.
RoomLeave(s) ==
    LET u == UserOf(s)  l == User(s).m_LobbyIndex  r == User(s).m_RoomIndex IN
    /\ Packet(s) /\ RoomLeaveError(s) = "NONE"
    /\ m_RoomList' = [m_RoomList EXCEPT ![l][r] = LeftRoom(@, u)]
    /\ m_UserObjPool' = [m_UserObjPool EXCEPT ![u] = UserInLobby(@, l)]
    /\ sent' =
         RoomLeaveNotice(m_RoomList'[l][r], m_UserObjPool', u)
         \cup ToLobby(m_UserIndexDic[l], m_UserObjPool', "LOBBY_ENTER_USER_NTF", u, u)
         \cup ToLobby(m_UserIndexDic[l], m_UserObjPool', "ROOM_CHANGED_INFO_NTF", r, None)
         \cup {Answer(s, "ROOM_LEAVE_RES", "NONE")}
    /\ UNCHANGED <<m_UserObjPoolIndex, m_UserSessionDic, m_UserIDDic, addRet,
                   m_UserList, m_UserIndexDic, connectedVars>>

RoomChatError(s) ==
    RoomMemberError(s, "ROOM_CHAT_INVALID_DOMAIN", "ROOM_CHAT_INVALID_LOBBY_INDEX")

RoomChat(s) ==
    LET u == UserOf(s)  l == User(s).m_LobbyIndex  r == User(s).m_RoomIndex IN
    /\ Packet(s) /\ RoomChatError(s) = "NONE"
    /\ sent' = ToRoom(m_RoomList[l][r], m_UserObjPool, "ROOM_CHAT_NTF", u,
                      User(s).m_SessionIndex)
               \cup {Answer(s, "ROOM_CHAT_RES", "NONE")}
    /\ UNCHANGED <<userVars, lobbyVars, connectedVars>>

-----------------------------------------------------------------------------
(* Closing.                                                                *)

\* The room that the user object names, which may be one it left before.
\* The fault does not look for a room.
NoRoomNamed(s) == FALSE
NamedRoom(s) == HasRoom(User(s).m_RoomIndex)

\* The user leaves its room (if it is a member), then its lobby.  Messages
\* are sent from the states between these calls: about the room before the
\* user leaves the lobby, about the lobby afterwards and only if the user
\* object names no room.
LeaveEverything(s) ==
    LET u == UserOf(s)  l == User(s).m_LobbyIndex  r == User(s).m_RoomIndex
        leaves == NamedRoom(s) /\ LeaveRoomError(m_RoomList[l][r], u) = "NONE" IN
    /\ m_RoomList' = IF leaves THEN [m_RoomList EXCEPT ![l][r] = LeftRoom(@, u)]
                     ELSE m_RoomList
    /\ LeaveUser(l, u)
    /\ sent' =
         IF NamedRoom(s)
         THEN RoomLeaveNotice(m_RoomList'[l][r], m_UserObjPool, u)
              \cup ToLobby(m_UserIndexDic[l], m_UserObjPool, "ROOM_CHANGED_INFO_NTF", r, None)
         ELSE ToLobby(m_UserIndexDic'[l], m_UserObjPool, "LOBBY_LEAVE_USER_NTF", u, u)

\* The fault forgets a logged-in user that is in no lobby.
NtfSysCloseSessionLobbyOnly(s) ==
    /\ m_ConnectedTime[s]
    /\ IF GetUserError(s) = "NONE" /\ HasLobby(User(s).m_LobbyIndex)
       THEN RemoveUser(s) /\ LeaveEverything(s)
       ELSE sent' = {} /\ UNCHANGED <<userVars, lobbyVars>>
    /\ m_ConnectedTime' = [m_ConnectedTime EXCEPT ![s] = FALSE]
    /\ m_IsLoginSuccess' = [m_IsLoginSuccess EXCEPT ![s] = FALSE]

NtfSysCloseSession(s) ==
    /\ m_ConnectedTime[s]
    /\ IF GetUserError(s) = "NONE"
       THEN /\ RemoveUser(s)
            /\ IF HasLobby(User(s).m_LobbyIndex) THEN LeaveEverything(s)
               ELSE sent' = {} /\ UNCHANGED lobbyVars
       ELSE sent' = {} /\ UNCHANGED <<userVars, lobbyVars>>
    /\ m_ConnectedTime' = [m_ConnectedTime EXCEPT ![s] = FALSE]
    /\ m_IsLoginSuccess' = [m_IsLoginSuccess EXCEPT ![s] = FALSE]

-----------------------------------------------------------------------------
\* Requests that clients make, within and just outside the valid indices.
AnyLobby == -1 .. MaxLobbyCount
AnyRoom  == -1 .. MaxRoomCountByLobby
AnyStart == {-1, 0, MaxRoomCountByLobby - 1, MaxLobbyUserCount - 1}

Refused(s) ==
    \/ Refuse(s, "LOBBY_LIST_RES", LobbyListError(s))
    \/ \E l \in AnyLobby : Refuse(s, "LOBBY_ENTER_RES", LobbyEnterError(s, l))
    \/ Refuse(s, "LOBBY_ENTER_ROOM_LIST_RES", LobbyRoomListError(s))
    \/ Refuse(s, "LOBBY_ENTER_USER_LIST_RES", LobbyUserListError(s))
    \/ Refuse(s, "LOBBY_CHAT_RES", LobbyChatError(s))
    \/ Refuse(s, "LOBBY_LEAVE_RES", LobbyLeaveError(s))
    \/ \E isCreate \in BOOLEAN, r \in AnyRoom :
         Refuse(s, "ROOM_ENTER_RES", RoomEnterError(s, isCreate, r))
    \/ Refuse(s, "ROOM_LEAVE_RES", RoomLeaveError(s))
    \/ Refuse(s, "ROOM_CHAT_RES", RoomChatError(s))

\* The handlers of the packets of clients, and Process with those of the
\* network layer's own packets.
ClientPacket(s) ==
    \/ \E o \in Offsets, id \in IDs : Login(s, <<s, o>>, id) \/ LoginRefused(s, <<s, o>>, id)
    \/ DevEcho(s) \/ RoomGameStart(s)
    \/ LobbyList(s) \/ LobbyChat(s) \/ LobbyLeave(s) \/ RoomLeave(s) \/ RoomChat(s)
    \/ \E l \in AnyLobby : LobbyEnter(s, l)
    \/ \E start \in AnyStart : LobbyRoomList(s, start) \/ LobbyUserList(s, start)
    \/ \E isCreate \in BOOLEAN, r \in AnyRoom : RoomEnter(s, isCreate, r)
    \/ Refused(s)

Process(s) == NtfSysConnctSession(s) \/ NtfSysCloseSession(s) \/ ClientPacket(s)

Next == \E s \in Session : Process(s)
Spec == Init /\ [][Next]_vars

-----------------------------------------------------------------------------
(* Properties.                                                             *)

TypeOK ==
    /\ UserTypeOK
    /\ \A u \in UserIndex : /\ m_UserObjPool[u].m_LobbyIndex \in LobbyIndex \cup {None}
                            /\ m_UserObjPool[u].m_RoomIndex \in RoomIndex \cup {None}
    /\ m_UserList \in [LobbyIndex -> [Slot -> UserIndex \cup {None}]]
    /\ m_UserIndexDic \in [LobbyIndex -> SUBSET UserIndex]
    /\ \A l \in LobbyIndex, r \in RoomIndex :
         /\ m_RoomList[l][r].m_IsUsed \in BOOLEAN
         /\ m_RoomList[l][r].m_UserList \in Seq(UserIndex)
    /\ m_ConnectedTime \in [Session -> BOOLEAN]
    /\ m_IsLoginSuccess \in [Session -> BOOLEAN]

\* The three records of a login agree: a session is flagged as logged in
\* exactly while the user manager finds a user for it, and then it is open.
LoginAgrees ==
    \A s \in Session :
        /\ m_IsLoginSuccess[s] <=> HasUser(s)
        /\ HasUser(s) => m_ConnectedTime[s]

\* A user's own idea of its lobby, the lobby's dictionary and the lobby's
\* slots agree: the members of a lobby are exactly the users that are in it
\* or in one of its rooms, each in one slot; so a released user is a member
\* of nothing and nobody is in two lobbies.
MembershipAgrees ==
    \A l \in LobbyIndex :
        /\ m_UserIndexDic[l] =
             {u \in UserIndex : /\ m_UserObjPool[u].m_CurDomainState \in {"LOBBY", "ROOM"}
                                /\ m_UserObjPool[u].m_LobbyIndex = l}
        /\ {m_UserList[l][k] : k \in Slot} \ {None} = m_UserIndexDic[l]
        /\ \A j, k \in Slot : m_UserList[l][j] = m_UserList[l][k] =>
             j = k \/ m_UserList[l][k] = None

\* The same for rooms: a room lists, once each, the users that are in it; it
\* is in use exactly while somebody is.
RoomsAgree ==
    \A l \in LobbyIndex, r \in RoomIndex :
        LET room == m_RoomList[l][r] IN
        /\ ToSet(room.m_UserList) =
             {u \in UserIndex : /\ m_UserObjPool[u].m_CurDomainState = "ROOM"
                                /\ m_UserObjPool[u].m_LobbyIndex = l
                                /\ m_UserObjPool[u].m_RoomIndex = r}
        /\ Cardinality(ToSet(room.m_UserList)) = Len(room.m_UserList)
        /\ room.m_IsUsed <=> room.m_UserList # << >>

\* The errors that stand for an inconsistency of the server itself never
\* reach a client, whatever sequence of requests it sends.
InconsistencyErrors ==
    {"USER_MGR_NOT_CONFIRM_USER", "LOBBY_ENTER_USER_DUPLICATION",
     "LOBBY_ENTER_EMPTY_USER_LIST", "LOBBY_LEAVE_USER_NVALID_UNIQUEINDEX",
     "LOBBY_ROOM_LIST_INVALID_LOBBY_INDEX", "LOBBY_USER_LIST_INVALID_LOBBY_INDEX",
     "LOBBY_CHAT_INVALID_LOBBY_INDEX", "LOBBY_LEAVE_INVALID_LOBBY_INDEX",
     "ROOM_ENTER_INVALID_LOBBY_INDEX", "ROOM_CHAT_INVALID_LOBBY_INDEX",
     "ROOM_ENTER_CREATE_FAIL", "ROOM_LEAVE_NOT_MEMBER"}
NoInconsistencyReported ==
    [][\A m \in sent' : m.error \notin InconsistencyErrors]_vars

\* Every session has one place and moves between places as the protocol
\* allows, within the capacities (Presence).  In particular a user who comes
\* back from a room still has its seat in the lobby.
Place == [s \in Session |->
    IF ~HasUser(s) THEN <<"nowhere">>
    ELSE CASE User(s).m_CurDomainState = "LOBBY" -> <<"lobby", User(s).m_LobbyIndex>>
           [] User(s).m_CurDomainState = "ROOM" ->
                <<"room", User(s).m_LobbyIndex, User(s).m_RoomIndex>>
           [] OTHER -> <<"login">>]
Places == INSTANCE Presence WITH place <- Place
ImplementsPresence == Places!Spec

\* Who sees the lobby, and who is in a room.
InLobby(l) == {u \in UserIndex : /\ m_UserObjPool[u].m_CurDomainState = "LOBBY"
                                 /\ m_UserObjPool[u].m_LobbyIndex = l}
InRoom(l, r) == ToSet(m_RoomList[l][r].m_UserList)
SessionOf(u) == m_UserObjPool[u].m_SessionIndex

Told(who, id, about) == \A v \in who : Notice(SessionOf(v)', id, about) \in sent'

\* Whoever comes into sight in a lobby, by entering it or by leaving a room,
\* is announced to all the others in sight, by the same handler; whoever
\* goes out of sight likewise, except a closing user whose object names a
\* room.
Goes(l, u) == u \in InLobby(l) /\ u \notin InLobby(l)'
LobbyTold ==
    \A l \in LobbyIndex, u \in UserIndex :
        /\ u \notin InLobby(l) /\ u \in InLobby(l)' =>
             Told(InLobby(l)' \ {u}, "LOBBY_ENTER_USER_NTF", u)
        /\ Goes(l, u) /\ ~(u \notin Confirmed' /\ m_UserObjPool[u].m_RoomIndex # None) =>
             Told(InLobby(l)' \ {u}, "LOBBY_LEAVE_USER_NTF", u)
LobbyIsTold == [][LobbyTold]_vars

\* A change of a room's members is announced to its other members and, with
\* the new user count, to everybody in sight in the lobby, also when the
\* user is cut off.
RoomTold ==
    \A l \in LobbyIndex, r \in RoomIndex, u \in UserIndex :
        /\ u \notin InRoom(l, r) /\ u \in InRoom(l, r)' =>
             /\ Told(InRoom(l, r)' \ {u}, "ROOM_ENTER_USER_NTF", u)
             /\ Told(InLobby(l)', "ROOM_CHANGED_INFO_NTF", r)
        /\ u \in InRoom(l, r) /\ u \notin InRoom(l, r)' =>
             /\ Told(InRoom(l, r)', "ROOM_LEAVE_USER_NTF", u)
             /\ Told(InLobby(l)', "ROOM_CHANGED_INFO_NTF", r)
RoomIsTold == [][RoomTold]_vars

\* "If it was in the lobby, the people of the lobby are told" (comment of
\* NtfSysCloseSession, PacketProcssor.cpp:113 and 115).
CloseTold ==
    \A l \in LobbyIndex, u \in UserIndex :
        Goes(l, u) /\ u \notin Confirmed' =>
            Told(InLobby(l)', "LOBBY_LEAVE_USER_NTF", u)
LobbyToldOfClose == [][CloseTold]_vars

\* "Sends to all but the user who sent" (comment of SendToAllUser,
\* Lobby.cpp:235): a chat message goes to everybody else in the lobby and
\* not to its sender.
ChatSkipsSender ==
    [][\A m \in sent' : m.id = "LOBBY_CHAT_NTF" => m.to # SessionOf(m.about)]_vars
=============================================================================
