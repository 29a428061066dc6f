SPECIFICATION Spec
CONSTANTS
    CounterMod = 7
    CountMod = 400
    UnitsPerMs = 4
    Attrs <- MCLongestBurst
INVARIANT
    BurstLength
CHECK_DEADLOCK FALSE
