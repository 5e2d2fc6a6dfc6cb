SPECIFICATION UserManagerSpec
CONSTANTS
    PoolSize = 3
    MaxUserCount = 2
    Offsets = {0, 1}
    IDs = {"kim", "lee"}
INVARIANT DuplicateIdRefused
