SPECIFICATION StationSpec
CONSTANTS
    Parts = {"reports"}
    Daily = {daily, broken}
    Interval = {interval}
    Once = {once}
    Malformed = {broken}
    Editors = {editor}
    Minute = 3
    MinGap = 2
    Every = 2
    DueMinute = 1
    MaxRules = 2
    MaxClock = 4
    MaxRestarts = 1
    TimerIds = {t1}
    Pages = {p1, p2}
    MaxTime = 4
    MaxQueue = 2
    Fields = {f1, f2}
    Threshold = 1
    MaxAge = 3
    Radios = {r1, r2}
    ProfileRequests = {q1}
    MaxConfirmed = 2
    Cooldown = 2
    MinInterval = 2
    Nodes = {n1, n2}
    Callers = {c1, c2}
    Peers = {n1}
    PacketIds = {k1, k2}
    Texts = {t1}
    Channel = ch
    HistorySize = 2
    MaxUnread = 1
    MaxSeen = 1
    KeptIds = 1
    Quantities = {f1, f2}
    Remotes = {n1}
    Local = n0
    Debounce = 1
    Spacing = 2
    MaxRecords = 3
    MaxReports = 3
    LastSecond = 5
    Msgs = {m1, m2}
    Dms = {m1}
    MaxHistory = 1
    MaxPackets = 2
    MaxAsks = 2
    MaxRetried = 1
    MaxCrashes = 1
    SaveMayFail = TRUE
    HandlerMayRaise = TRUE
    Watchers = {v1, v2}
    MaxGeneration = 4
    Feeds = {v1, v2}
    MaxStreams = 3
    MaxPictures = 1
    Screens = {g1}
    Models = {m1, m2}
    FirstModel = m1
    HoldTime = 1
    MaxTries = 1
    MaxDrivers = 2
    MaxStrays = 1
INVARIANT
    SkippedIsStale
CHECK_DEADLOCK FALSE
