\* Two measure packets of three records each (5 + 3 * 12 = 41 bytes), four
\* pps interrupts, one gateway command (SET_TIME correcting the
\* clock by 100 ms either way, or CONFIG_GPIO), a clock of 8 ticks
\* (about 2.3 s: a third record passes the two-second staleness bound).
CONSTANTS
    NarrowBits = 3
    WideMod = 16
    Mul = 2
    KFreq = 7
    USec = 10
    m1 = m1
    m2 = m2
    a1 = a1
    MeasPackets <- MCMeasPackets
    AckPackets <- MCAckPackets
    DataMax = 41
    MeasureSize = 12
    OffMod = 64
    Drifts <- MCDriftsSmall
    EvQSize = 2
    MaxNow = 8
    MaxPps = 4
    MaxCmds = 1
    NULL = NULL
SPECIFICATION Spec
SYMMETRY MCSymmetry
INVARIANT TypeOK MeasuresAccounted SamplesInOrder AckFollowsOldMeasures
\* The clock and the interrupt and command counts are bounded: the system
\* stops when they are used up and the queues are drained.
CHECK_DEADLOCK FALSE
