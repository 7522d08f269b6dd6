\* Two measures packets, one ack packet (a second config finds the pool
\* empty while the first ack waits for TX), two gateway commands sent one
\* at a time, four conversions, one event of another producer, a clock of
\* 4 ticks.  Measures of 8 bytes fill a 37-byte packet after four, of 16
\* bytes after two.
CONSTANTS
    NarrowBits = 3
    WideMod = 16
    Mul = 2
    KFreq = 7
    USec = 10
    OffMod = 64
    DataMax = 37
    NULL = NULL
    m1 = m1
    m2 = m2
    a1 = a1
    MeasPackets <- MCMeasPackets
    AckPackets <- MCAckPackets
    Cmds <- MCCmds
    EvQSize = 2
    MaxRx = 1
    MaxNow = 4
    MaxCmds = 2
    MaxConv = 4
    MaxOther = 1
SPECIFICATION Spec
SYMMETRY MCSymmetry
INVARIANT TypeOK SampleStampedByOwnIrq FramesMatchAck
\* The commands, conversions and clock are bounded: the system stops when
\* they are used up.
CHECK_DEADLOCK FALSE
