SPECIFICATION Spec
CONSTANTS
    c1 = c1
    l1 = l1
    p1 = p1
    p2 = p2
    Claimers = {c1}
    Sessions = {}
    Restarters = {}
    Releasers = {l1}
    Reconnecters = {}
    Senders = {}
    Procs = {p1, p2}
    KillCanFail = FALSE
    NoThread = NoThread
    NoProc = NoProc
INVARIANTS
    ReleasedPortIsFree
