SPECIFICATION StreamSpec
CONSTANTS
    CounterMod = 5
    CountMod = 9
    UnitsPerMs = 2
    Attrs <- MCStableAttrs
    Delays = {1, 3}
    TimeAllowedToLive = 3
    AppIds = {1000}
    RxAttrs <- MCRxAttrs
PROPERTY
    UnchangedKeepsState
CHECK_DEADLOCK FALSE
