SPECIFICATION FairFifoSpec
CONSTANTS
    CounterMod = 8
    Refs = {"a"}
    AppIds = {1}
    MaxConfRev = 2
    Datas <- MCDatas
    SubscriberLists <- MCSubscriberLists
    TimeAllowedToLive = 1
    MaxFrames = 3
    MaxStNum = 2
    MaxBoots = 1
    MaxInFlight = 2
INVARIANTS
    TypeOK
    ValidIsNewer
    FreshAccepted
    ValidSnapshot
    OwnershipExact
PROPERTIES
    SilenceDetected
CHECK_DEADLOCK FALSE
