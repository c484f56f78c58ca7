SPECIFICATION FairSpec
CONSTANTS
    c1 = c1
    c2 = c2
    s1 = s1
    p1 = p1
    p2 = p2
    Claimers = {c1, c2}
    Sessions = {s1}
    Restarters = {}
    Releasers = {}
    Reconnecters = {}
    Senders = {}
    Procs = {p1, p2}
    KillCanFail = FALSE
    NoThread = NoThread
    NoProc = NoProc
INVARIANTS
    ExclusiveWork PauseHasOwner ListenerReachable
PROPERTIES
    ArbiterSpec
    ListenerComesBack
