----------------------------- MODULE LobbyLists -----------------------------
(***************************************************************************)
(* Lobby::SendRoomList and Lobby::SendUserList as a client uses them: it   *)
(* is shown a lobby page by page while the lobby goes on changing, and     *)
(* keeps what it has been shown up to date by the notifications that the   *)
(* other handlers send.  One client, Me, is followed: at each time it      *)
(* comes into sight in the lobby it reads the list of the rooms or the     *)
(* list of the users.                                                      *)
(*                                                                         *)
(* Of the handlers of PacketProcessor, those are here that change a lobby. *)
(* The sessions connect in the order of their indices, each once (Arrive). *)
(***************************************************************************)
EXTENDS PacketProcessor

CONSTANTS
    Me,         \* the session that is followed
    RoomGoers,  \* bound: the sessions that enter rooms
    RoomPage,   \* MAX_NTF_LOBBY_ROOM_LIST_COUNT
    UserPage    \* MAX_SEND_LOBBY_USER_LIST_COUNT

ASSUME ListsAssumption ==
    /\ Me \in Session /\ RoomGoers \subseteq Session
    /\ {RoomPage, UserPage} \subseteq Nat \ {0}
    /\ 0 \in Offsets

VARIABLES
    list,       \* the list that Me reads, "none" while out of sight
    next,       \* where its next request starts; the list's size at the end
    rooms,      \* the user count that Me shows for each room
    users       \* the users that Me shows

clientVars == <<list, next, rooms, users>>
listVars == <<vars, clientVars>>
ListView == <<StateView, clientVars>>

InSight(s) == HasUser(s) /\ User(s).m_CurDomainState = "LOBBY"
MyLobby == User(Me).m_LobbyIndex
UserCount(l, r) == Len(m_RoomList[l][r].m_UserList)

OutOfSight == /\ list' = "none" /\ next' = 0 /\ users' = {}
              /\ rooms' = [r \in RoomIndex |-> 0]

-----------------------------------------------------------------------------
(* A page of a list.                                                       *)

Highest(S) == CHOOSE k \in S : \A j \in S : j <= k

\* What the loops do not skip.  The fault ends at an empty slot.
UsedFrom(l, start) == {r \in RoomIndex : r >= start /\ m_RoomList[l][r].m_IsUsed}
Shown(l, k) == /\ m_UserList[l][k] # None
               /\ m_UserObjPool[m_UserList[l][k]].m_CurDomainState = "LOBBY"
ShownUpToGap(l, start) == {k \in Slot : k >= start /\ \A j \in start .. k : Shown(l, j)}
ShownFrom(l, start) == {k \in Slot : k >= start /\ Shown(l, k)}

\* The first n of them; the loop breaks behind the n-th.
Page(S, n) == {k \in S : Cardinality({j \in S : j < k}) < n}
LastChecked(page, n, size) == IF Cardinality(page) = n THEN Highest(page) ELSE size - 1

\* The fault is off by one.
EndTooEarly(page, n, size) == page = {} \/ LastChecked(page, n, size) + 2 >= size
IsEnd(page, n, size) == page = {} \/ LastChecked(page, n, size) + 1 = size

\* The client goes on behind the last number it received, up to IsEnd.
NextStart(page, n, size) == IF IsEnd(page, n, size) THEN size ELSE Highest(page) + 1

\* A request that the server does not answer leaves the client as it is.
AskRooms ==
    LET page == Page(UsedFrom(MyLobby, next), RoomPage)
        after == NextStart(page, RoomPage, MaxRoomCountByLobby) IN
    /\ list = "rooms" /\ next < MaxRoomCountByLobby
    /\ LobbyRoomList(Me, next) /\ sent' # {}
    /\ rooms' = [r \in RoomIndex |-> IF r \in page THEN UserCount(MyLobby, r)
                                     ELSE IF next <= r /\ r < after THEN 0 ELSE rooms[r]]
    /\ next' = after
    /\ UNCHANGED <<list, users>>

AskUsers ==
    LET page == Page(ShownFrom(MyLobby, next), UserPage) IN
    /\ list = "users" /\ next < MaxLobbyUserCount
    /\ LobbyUserList(Me, next) /\ sent' # {}
    /\ users' = users \cup {m_UserList[MyLobby][k] : k \in page}
    /\ next' = NextStart(page, UserPage, MaxLobbyUserCount)
    /\ UNCHANGED <<list, rooms>>

-----------------------------------------------------------------------------
(* The notifications.                                                      *)

About(id) == {m.about : m \in {n \in sent' : n.to = Me /\ n.id = id}}

\* Me takes its list from the start when it comes into sight.  It keeps the
\* counts of the rooms it has been shown and the users of the list it reads.
Observe ==
    IF ~InSight(Me)' THEN OutOfSight
    ELSE IF ~InSight(Me)
    THEN list' \in {"rooms", "users"} /\ UNCHANGED <<next, rooms, users>>
    ELSE /\ rooms' = IF list = "rooms"
                     THEN [r \in RoomIndex |-> IF r \in About("ROOM_CHANGED_INFO_NTF") /\ r < next
                                               THEN UserCount(MyLobby, r)' ELSE rooms[r]]
                     ELSE rooms
         /\ users' = IF list = "users"
                     THEN (users \cup About("LOBBY_ENTER_USER_NTF"))
                             \ About("LOBBY_LEAVE_USER_NTF")
                     ELSE users
         /\ UNCHANGED <<list, next>>

Arrive(s) ==
    /\ \A t \in Session : <<t, 0>> \in m_UserIDDic <=> t < s
    /\ NtfSysConnctSession(s) \/ \E id \in IDs : Login(s, <<s, 0>>, id)

ChangesLobby(s) ==
    \/ \E l \in LobbyIndex : LobbyEnter(s, l)
    \/ LobbyLeave(s)
    \/ s \in RoomGoers /\ \E isCreate \in BOOLEAN, r \in RoomIndex : RoomEnter(s, isCreate, r)
    \/ RoomLeave(s)
    \/ NtfSysCloseSession(s)

ListsInit ==
    /\ Init
    /\ list = "none" /\ next = 0 /\ users = {} /\ rooms = [r \in RoomIndex |-> 0]

ListsNext ==
    \/ \E s \in Session : (Arrive(s) \/ ChangesLobby(s)) /\ Observe
    \/ AskRooms \/ AskUsers

ListsSpec == ListsInit /\ [][ListsNext]_listVars

-----------------------------------------------------------------------------
(* Properties.                                                             *)

\* Whatever happens between two pages, the client shows of every room it has
\* been told about, in use or not, the number of users that are in it: what
\* changes before a page is in the page, what changes behind it is notified.
RoomsSeen ==
    list = "rooms" => \A r \in RoomIndex : r < next => rooms[r] = UserCount(MyLobby, r)

\* Likewise nobody in sight in the lobby is missed by a client that has read
\* the list past the user's slot, also who comes back from a room into a
\* slot already listed or takes an emptied one.  (It may show a user who is
\* gone: LobbyToldOfClose.)
UsersSeen ==
    list = "users" => \A k \in Slot : k < next /\ Shown(MyLobby, k) =>
                          m_UserList[MyLobby][k] \in users
=============================================================================
