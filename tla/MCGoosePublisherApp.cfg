SPECIFICATION FairSpec
CONSTANTS
    CounterMod = 7
    CountMod = 25
    UnitsPerMs = 4
    Attrs <- MCAttrs
INVARIANTS
    TypeOK
    StoppedIsQuiet
    OneSendChain
PROPERTIES
    SendSpacing
    BurstComplete
    FreshState
    AllSent
    PhasesAlternate
CHECK_DEADLOCK FALSE
