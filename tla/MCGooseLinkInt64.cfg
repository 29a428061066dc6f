SPECIFICATION FifoSpec
CONSTANTS
    CounterMod = 8
    Refs = {"a"}
    AppIds = {1}
    MaxConfRev = 1
    Datas <- MCDatas64
    SubscriberLists <- MCOneSubscriber
    TimeAllowedToLive = 1
    MaxFrames = 3
    MaxStNum = 3
    MaxBoots = 0
    MaxInFlight = 2
INVARIANT
    FreshAccepted
CHECK_DEADLOCK FALSE
