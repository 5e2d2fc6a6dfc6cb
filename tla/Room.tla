-------------------------------- MODULE Room --------------------------------
(***************************************************************************)
(* MDLogicLib::Room as values: a room is a record, an operation maps it to *)
(* the record after the call, and an operation that can fail has an        *)
(* operator for its error code.  The title is left out.                    *)
(***************************************************************************)
EXTENDS Naturals, Sequences, SequencesExt

CONSTANT MaxRoomUserCount   \* config.MaxRoomUserCount

ASSUME RoomAssumption == MaxRoomUserCount \in Nat \ {0}

\* Construction and Clear leave the same room.
ClearedRoom == [m_IsUsed |-> FALSE, m_UserList |-> << >>]

CreateRoomError(room) ==
    IF room.m_IsUsed THEN "ROOM_ENTER_CREATE_FAIL" ELSE "NONE"
CreatedRoom(room) == [room EXCEPT !.m_IsUsed = TRUE]

\* The fault lets one user more in.
LateFull(room) == Len(room.m_UserList) > MaxRoomUserCount
Full(room) == Len(room.m_UserList) = MaxRoomUserCount

EnterRoomError(room) ==
    IF ~room.m_IsUsed THEN "ROOM_ENTER_NOT_CREATED"
    ELSE IF Full(room) THEN "ROOM_ENTER_MEMBER_FULL"
    ELSE "NONE"
EnteredRoom(room, u) == [room EXCEPT !.m_UserList = Append(@, u)]

LeaveRoomError(room, u) ==
    IF ~room.m_IsUsed THEN "ROOM_ENTER_NOT_CREATED"
    ELSE IF u \notin ToSet(room.m_UserList) THEN "ROOM_LEAVE_NOT_MEMBER"
    ELSE "NONE"

\* The fault keeps an empty room in use.
LeftRoomInUse(room, u) == [room EXCEPT !.m_UserList = RemoveFirst(@, u)]
LeftRoom(room, u) ==
    LET rest == RemoveFirst(room.m_UserList, u)
    IN IF rest = << >> THEN ClearedRoom ELSE [room EXCEPT !.m_UserList = rest]
=============================================================================
