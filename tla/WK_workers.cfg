SPECIFICATION WorkersSpec
CONSTANTS
    Parts = {"commands", "snapshots", "keys", "providers", "connectivity", "health", "usb", "display"}
    Requests = {q1, q2}
    IdempotencyKeys = {k1}
    Hashes = {h1, h2}
    QueueSize = 1
    Attachments = {a1, a2}
    MaxVersion = 3
    Addresses = {n1, n2}
    Keys = {b1, b2}
    ReplyInterval = 1
    MaxPerWindow = 1
    Providers = {p1, p2}
    Relays = {r1}
    Ceiling = 3
    InfoInterval = 4
    Delays = {1, 2}
    ResultTimeout = 2
    AttemptWindow = 4
    MaxRecoveries = 1
    PausedLimit = 2
    Quiet = 1
    Watchers = {v1, v2}
    MaxGeneration = 3
    Screens = {g1}
    Models = {m1, m2}
    FirstModel = m1
    HoldTime = 2
    MaxTries = 1
    MaxDrivers = 1
    MaxStrays = 1
INVARIANTS
    WorkersTypeOK
    AttachmentsAreKept
PROPERTIES
    TrustIsKept
    RestartsAreRationed
    WorkEnds
CHECK_DEADLOCK FALSE
