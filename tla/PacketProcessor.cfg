SPECIFICATION Spec
VIEW StateView
CONSTANTS
    PoolSize = 2
    MaxUserCount = 2
    Offsets = {0, 1}
    IDs = {"kim", "lee"}
    MaxLobbyCount = 2
    MaxLobbyUserCount = 2
    MaxRoomCountByLobby = 1
    MaxRoomUserCount = 2
INVARIANTS
    TypeOK UserPoolPartition SessionDicSound
    LoginAgrees MembershipAgrees RoomsAgree
PROPERTIES
    ImplementsUserDirectory NoInconsistencyReported LobbyIsTold RoomIsTold
