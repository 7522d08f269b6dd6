\* Narrow ticks of 3 bits against a 4-bit wide clock; 3.5 ticks a second.
CONSTANTS
    NarrowBits = 3
    WideMod = 16
    Mul = 2
    KFreq = 7
    USec = 10
    Refs <- MCRefs
    MaxNow = 10
    MaxAge = 4
    MaxSets = 2
    MaxSamples = 1
SPECIFICATION Spec
INVARIANT TypeOK ExtendRecoversPast StableAcrossOneUpdate
CHECK_DEADLOCK FALSE
