SPECIFICATION Spec
VIEW StateView
CONSTANTS
    PoolSize = 2
    MaxUserCount = 2
    Offsets = {0, 1}
    IDs = {"kim"}
    MaxLobbyCount = 2
    MaxLobbyUserCount = 2
    MaxRoomCountByLobby = 1
    MaxRoomUserCount = 2
PROPERTY
    LobbyToldOfClose
