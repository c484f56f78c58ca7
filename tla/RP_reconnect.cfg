SPECIFICATION FairSpec
CONSTANTS
    c1 = c1
    l1 = l1
    n1 = n1
    p1 = p1
    p2 = p2
    s1 = s1
    Claimers = {c1}
    Sessions = {s1}
    Restarters = {}
    Releasers = {l1}
    Reconnecters = {n1}
    Senders = {c1}
    Procs = {p1, p2}
    KillCanFail = FALSE
    NoThread = NoThread
    NoProc = NoProc
PROPERTIES
    ReconnectCompletes
