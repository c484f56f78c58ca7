SPECIFICATION FairSpec
CONSTANTS
    a1 = a1
    a2 = a2
    Attachments = {a1}
    Commented = {}
    Offline = {}
    MaxTransfers = 2
    Parts = 2
    MaxPerTick = 1
    SenderCrashes = 1
    ReceiverCrashes = 1
    MaxCrashes = 1
INVARIANTS
    TypeOK
    NoForeignObject
    CancelledIsWithdrawn
    AvailableIsGenuine
    DownloadedAckIsTrue
PROPERTIES
    HandoverSpec
    SettledIsFinal
    DraftSettlesUnlessStranded
    DownloadsEnd
    OutboxDrains
CHECK_DEADLOCK FALSE
