SPECIFICATION FairSpec
CONSTANTS
    NsPerSec = 25
    UsPerSec = 5
    NsPerUs = 5
    SecsMod = 6
    FracMod = 8
    SmpCntLimit = 4
    CountMod = 7
    Delays = {0, 7}
    SvAppId = 1
    Attrs <- MCAttrs
INVARIANTS
    TypeOK
    OneMeasure
    MessageCoherent
    SampleAge
PROPERTIES
    SamplesAccounted
    TimestampsIncrease
    AllReceived
CHECK_DEADLOCK FALSE
