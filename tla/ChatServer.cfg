SPECIFICATION ServerSpec
VIEW ServerView
SYMMETRY SocketSymmetry
CONSTANTS
    PoolSize = 2
    MaxUserCount = 2
    Offsets = {0, 1}
    IDs = {"kim"}
    MaxLobbyCount = 1
    MaxLobbyUserCount = 2
    MaxRoomCountByLobby = 1
    MaxRoomUserCount = 2
    Sockets = {s1, s2}
    NoSocket = NoSocket
    AcceptMax = 1
    RecvMax = 1
    SendMax = 2
    Burst = 2
    IsLoginCheck = TRUE
    MaxSeq = 3
    MaxQueue = 2
INVARIANTS
    OwnUser GhostsLeave
PROPERTY
    ImplementsNetwork
