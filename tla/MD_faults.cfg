CONSTANTS
    m1 = m1
    m2 = m2
    Msgs = {m1, m2}
    Dms = {m1}
    MaxHistory = 2
    MaxPackets = 2
    MaxAsks = 2
    MaxRetried = 1
    MaxCrashes = 1
    SaveMayFail = TRUE
    HandlerMayRaise = TRUE
SPECIFICATION FairSpec
INVARIANTS PendingHasJob NoDoubleSend StatusIsEarned
PROPERTIES EveryMessageResolves
CHECK_DEADLOCK FALSE
