SPECIFICATION BothSpec
CONSTANTS
    MaxDepth = 50
    MaxPayloadSize = 350
    ConvertFloat <- MCConvertFloat
    Messages <- MCMessages
    GoCBRef <- MCGoCBRef
    MaxConfRev = 2
    Names <- MCNames
    ElementValues <- MCElementValues
    Counts = {258}
    Wraps = {2}
    RefrTimes <- MCRefrTimes
    Garbage = {255}
    BufferSize = 240
    MaxAsdus = 2
    MaxCalls = 5
INVARIANTS
    SizesExact
    LayoutExact
PROPERTIES
    HeaderInverts
    LearnInverts
    UpdateInverts
    UpdateRefines
    ListenerReadsAsSet
CHECK_DEADLOCK FALSE
VIEW Ahead
