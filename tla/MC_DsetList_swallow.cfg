CONSTANTS
    s1 = s1
    s2 = s2
    NoSet = NoSet
    Sets <- MCSets
    Members <- MCMembers
    MaxCmds = 2
    MaxPrintFail = 1
    FailWindow = 3
    OutLen = 3
    OutGrow = 2
    ChunkCap = 2

SPECIFICATION Spec
CHECK_DEADLOCK FALSE
INVARIANT SuccessMeansListing
