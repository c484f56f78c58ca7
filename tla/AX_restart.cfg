SPECIFICATION FairSpec
CONSTANTS
    a1 = a1
    a2 = a2
    Attachments = {a1}
    Commented = {}
    Offline = {}
    MaxTransfers = 1
    Parts = 1
    MaxPerTick = 1
    SenderCrashes = 1
    ReceiverCrashes = 0
    MaxCrashes = 1
PROPERTY
    EveryDraftSettles
CHECK_DEADLOCK FALSE
