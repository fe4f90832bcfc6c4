SPECIFICATION FairSpec
CONSTANTS
    None = None
    Messages <- MCMessages
    Calls <- MCCalls
    Worlds <- MCWorlds
    PageLimit = 1
    PageBudget = 2
    MaxTime = 2
    MaxFaults = 1
INVARIANT NothingIsSkipped
INVARIANT AckedIsKept
PROPERTY EverythingArrives
CHECK_DEADLOCK FALSE
