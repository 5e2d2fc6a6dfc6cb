SPECIFICATION ListsSpec
VIEW ListView
CHECK_DEADLOCK FALSE
CONSTANTS
    PoolSize = 4
    MaxUserCount = 4
    Offsets = {0}
    IDs = {"kim"}
    MaxLobbyCount = 1
    MaxLobbyUserCount = 3
    MaxRoomCountByLobby = 3
    MaxRoomUserCount = 2
    Me = 1
    RoomGoers = {0, 2, 3}
    RoomPage = 1
    UserPage = 1
INVARIANTS
    RoomsSeen UsersSeen
PROPERTY
    ImplementsPresence
