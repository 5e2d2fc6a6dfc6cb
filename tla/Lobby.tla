-------------------------------- MODULE Lobby --------------------------------
(***************************************************************************)
(* MDLogicLib::Lobby, LobbyManager and their rooms.  Each lobby keeps a    *)
(* table of user slots, a dictionary of its users by user index and a list *)
(* of rooms; User pointers are user indices.  A user in a room stays in    *)
(* the dictionary and in the slot of the lobby.  Lobby::m_UserIDDic is     *)
(* written and never read, and is left out.                                *)
(*                                                                         *)
(* A message is a record: the session it is sent to, its packet ID, the    *)
(* error code of an answer and the user or room a notification is about.   *)
(***************************************************************************)
EXTENDS UserManager, Room

CONSTANTS
    MaxLobbyCount, MaxLobbyUserCount, MaxRoomCountByLobby   \* config.*

ASSUME LobbyAssumption ==
    {MaxLobbyCount, MaxLobbyUserCount, MaxRoomCountByLobby} \subseteq Nat

VARIABLES
    m_UserList,         \* lobby -> slot -> user index, or None
    m_UserIndexDic,     \* lobby -> set of user indices
    m_RoomList          \* lobby -> room index -> room

lobbyVars == <<m_UserList, m_UserIndexDic, m_RoomList>>

LobbyIndex == 0 .. MaxLobbyCount - 1
Slot       == 0 .. MaxLobbyUserCount - 1
RoomIndex  == 0 .. MaxRoomCountByLobby - 1

LobbyInit ==
    /\ m_UserList = [l \in LobbyIndex |-> [k \in Slot |-> None]]
    /\ m_UserIndexDic = [l \in LobbyIndex |-> {}]
    /\ m_RoomList = [l \in LobbyIndex |-> [r \in RoomIndex |-> ClearedRoom]]

\* GetLobby and GetRoom return nullptr outside the list.
HasLobby(l) == l \in LobbyIndex
HasRoom(r)  == r \in RoomIndex

-----------------------------------------------------------------------------
(* Entering and leaving a lobby.                                           *)

\* User::EnterLobby, User::LeaveLobby and User::EnterRoom.  LeaveLobby
\* keeps m_LobbyIndex, and neither of the first two resets m_RoomIndex.  The
\* fault swaps the two indices, both short, in the call of EnterRoom.
UserInLobby(user, l) == [user EXCEPT !.m_LobbyIndex = l, !.m_CurDomainState = "LOBBY"]
UserInLogin(user)    == [user EXCEPT !.m_CurDomainState = "LOGIN"]
UserInRoomSwapped(user, l, r) ==
    [user EXCEPT !.m_LobbyIndex = r, !.m_RoomIndex = l, !.m_CurDomainState = "ROOM"]
UserInRoom(user, l, r) ==
    [user EXCEPT !.m_LobbyIndex = l, !.m_RoomIndex = r, !.m_CurDomainState = "ROOM"]

Lowest(S) == CHOOSE k \in S : \A j \in S : k <= j
EmptySlots(l) == {k \in Slot : m_UserList[l][k] = None}

LobbyFull(l) == Cardinality(m_UserIndexDic[l]) >= MaxLobbyUserCount

EnterUserError(l, u) ==
    IF LobbyFull(l) THEN "LOBBY_ENTER_MAX_USER_COUNT"
    ELSE IF u \in m_UserIndexDic[l] THEN "LOBBY_ENTER_USER_DUPLICATION"
    ELSE IF EmptySlots(l) = {} THEN "LOBBY_ENTER_EMPTY_USER_LIST"
    ELSE "NONE"

\* AddUser takes the first empty slot.
EnterUser(l, u) ==
    /\ m_UserList' = [m_UserList EXCEPT ![l][Lowest(EmptySlots(l))] = u]
    /\ m_UserIndexDic' = [m_UserIndexDic EXCEPT ![l] = @ \cup {u}]

\* RemoveUser empties the first slot of the user; the fault is not to call it.
SlotKept(l, u) == m_UserList[l]
SlotEmptied(l, u) ==
    LET slots == {k \in Slot : m_UserList[l][k] = u}
    IN [k \in Slot |-> IF slots # {} /\ k = Lowest(slots) THEN None ELSE m_UserList[l][k]]

LeaveUserError(l, u) ==
    IF u \notin m_UserIndexDic[l] THEN "LOBBY_LEAVE_USER_NVALID_UNIQUEINDEX" ELSE "NONE"

LeaveUser(l, u) ==
    /\ m_UserList' = [m_UserList EXCEPT ![l] = SlotEmptied(l, u)]
    /\ m_UserIndexDic' = [m_UserIndexDic EXCEPT ![l] = @ \ {u}]

\* CreateRoom returns the first room that is not in use.
UnusedRooms(l) == {r \in RoomIndex : ~m_RoomList[l][r].m_IsUsed}
FirstUnusedRoom(l) == Lowest(UnusedRooms(l))

-----------------------------------------------------------------------------
(* Messages.                                                               *)

Answer(s, id, error) == [to |-> s, id |-> id, error |-> error, about |-> None]
Notice(s, id, about) == [to |-> s, id |-> id, error |-> "NONE", about |-> about]

\* Lobby::SendToAllUser: the users of the lobby that are not in a room,
\* without the one whose user index is pass.  The state of the lobby and of
\* the users is that of the moment of the call.  The fault compares pass with
\* session indices.
ToLobbyBySession(members, pool, id, about, pass) ==
    {Notice(pool[u].m_SessionIndex, id, about) :
        u \in {v \in members : pool[v].m_SessionIndex # pass
                               /\ pool[v].m_CurDomainState = "LOBBY"}}
ToLobby(members, pool, id, about, pass) ==
    {Notice(pool[u].m_SessionIndex, id, about) :
        u \in {v \in members : v # pass /\ pool[v].m_CurDomainState = "LOBBY"}}

\* Room::SendToAllUser: the users of the room without the one of index pass.
\* The fault compares pass with session indices here too.
ToRoomBySession(room, pool, id, about, pass) ==
    {Notice(pool[u].m_SessionIndex, id, about) :
        u \in {v \in ToSet(room.m_UserList) : pool[v].m_SessionIndex # pass}}
ToRoom(room, pool, id, about, pass) ==
    {Notice(pool[u].m_SessionIndex, id, about) : u \in ToSet(room.m_UserList) \ {pass}}

\* Room::NotifyLeaveUserInfo does nothing for a room that is not in use.
RoomLeaveNotice(room, pool, about) ==
    IF room.m_IsUsed THEN ToRoom(room, pool, "ROOM_LEAVE_USER_NTF", about, None) ELSE {}
=============================================================================
