SPECIFICATION FairSpec
CONSTANTS
    MaxSessionCount = 4
    SweepSize = 2
    WaitLimit = 2
INVARIANT LoggedInStays
