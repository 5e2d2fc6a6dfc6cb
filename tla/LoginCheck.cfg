SPECIFICATION FairSpec
CONSTANTS
    MaxSessionCount = 4
    SweepSize = 2
    WaitLimit = 2
INVARIANTS TypeOK LoginFresh
PROPERTY OverdueIsClosed
