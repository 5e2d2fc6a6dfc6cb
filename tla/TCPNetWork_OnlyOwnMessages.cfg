SPECIFICATION Spec
CONSTANTS
    PoolSize = 2
    Sockets = {s1, s2, s3}
    NoSocket = NoSocket
    AcceptMax = 2
    RecvMax = 2
    SendMax = 2
    Burst = 1
    IsLoginCheck = TRUE
    MaxSeq = 3
    MaxQueue = 2
INVARIANT
    OnlyOwnMessages
