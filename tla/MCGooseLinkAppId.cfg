SPECIFICATION FifoSpec
CONSTANTS
    CounterMod = 8
    Refs = {"a"}
    AppIds = {1, 2}
    MaxConfRev = 1
    Datas <- MCDatas
    SubscriberLists <- MCAppIdSubscriber
    TimeAllowedToLive = 1
    MaxFrames = 3
    MaxStNum = 3
    MaxBoots = 0
    MaxInFlight = 2
INVARIANT
    AppIdRespected
CHECK_DEADLOCK FALSE
