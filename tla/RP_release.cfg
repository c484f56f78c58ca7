SPECIFICATION Spec
SYMMETRY ProcSymmetry
CONSTANTS
    c1 = c1
    s1 = s1
    l1 = l1
    n1 = n1
    r1 = r1
    p1 = p1
    p2 = p2
    Claimers = {c1}
    Sessions = {s1}
    Restarters = {r1}
    Releasers = {l1}
    Reconnecters = {n1}
    Senders = {}
    Procs = {p1, p2}
    KillCanFail = TRUE
    NoThread = NoThread
    NoProc = NoProc
INVARIANTS
    TypeOK SessionsRespectRelease
