\* The bounds of MCMeasBatch.cfg, with the first SET_TIME of an experiment:
\* the gateway's clock is 7 s ahead, beyond the range of micros_since_base.
CONSTANTS
    NarrowBits = 3
    WideMod = 16
    Mul = 2
    KFreq = 7
    USec = 10
    m1 = m1
    m2 = m2
    a1 = a1
    MeasPackets <- MCMeasPackets
    AckPackets <- MCAckPackets
    DataMax = 41
    MeasureSize = 12
    OffMod = 64
    Drifts <- MCDriftsEpoch
    EvQSize = 2
    MaxNow = 8
    MaxPps = 4
    MaxCmds = 1
    NULL = NULL
SPECIFICATION Spec
SYMMETRY MCSymmetry
INVARIANT RecordsDecode
CHECK_DEADLOCK FALSE
