SPECIFICATION FairStreamSpec
CONSTANTS
    CounterMod = 5
    CountMod = 9
    UnitsPerMs = 2
    Attrs <- MCAttrs
    Delays = {1, 3}
    TimeAllowedToLive = 3
    AppIds = {1000, 7}
    RxAttrs <- MCRxAttrs
PROPERTIES
    HealthyStaysValid
    StNumCountsMessages
    ListenerInStep
    AllDelivered
CHECK_DEADLOCK FALSE
