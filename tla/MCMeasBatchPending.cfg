\* The bounds of MCMeasBatch.cfg, checking that batched measures are
\* eventually sent (no symmetry: it is unsound for liveness).
CONSTANTS
    NarrowBits = 3
    WideMod = 16
    Mul = 2
    KFreq = 7
    USec = 10
    m1 = m1
    m2 = m2
    a1 = a1
    MeasPackets <- MCMeasPackets
    AckPackets <- MCAckPackets
    DataMax = 41
    MeasureSize = 12
    OffMod = 64
    Drifts <- MCDriftsSmall
    EvQSize = 2
    MaxNow = 8
    MaxPps = 4
    MaxCmds = 1
    NULL = NULL
SPECIFICATION Spec
PROPERTY RecordEventuallySent
CHECK_DEADLOCK FALSE
