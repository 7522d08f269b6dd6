\* The bounds of MCConsumption.cfg: the gateway waits for each reply, and
\* one event of another producer shares the queue of two.
CONSTANTS
    NarrowBits = 3
    WideMod = 16
    Mul = 2
    KFreq = 7
    USec = 10
    OffMod = 64
    DataMax = 37
    NULL = NULL
    m1 = m1
    m2 = m2
    a1 = a1
    MeasPackets <- MCMeasPackets
    AckPackets <- MCAckPackets
    Cmds <- MCCmds
    EvQSize = 2
    MaxRx = 1
    MaxNow = 4
    MaxCmds = 2
    MaxConv = 4
    MaxOther = 1
SPECIFICATION Spec
INVARIANT AcksAccounted
\* The commands, conversions and clock are bounded: the system stops when
\* they are used up.
CHECK_DEADLOCK FALSE
