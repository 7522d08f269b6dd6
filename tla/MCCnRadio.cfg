\* Three channels, two radio packets, queue of 2, three commands.
CONSTANTS
    m1 = m1  m2 = m2  NULL = NULL
    MinCh = 1
    MaxCh = 3
    Cmds <- MCCmds
    MeasPackets <- MCMeasPackets
    RssiMeasureSize = 5
    TicksPerMs = 2
    USec = 1
    OffMod = 64
    DataMax = 20
    EvQSize = 2
    MaxRx = 1
    MaxCmds = 3
    MaxFires = 4
    MaxRxDone = 3
    MaxNow = 3
SYMMETRY MCSymmetry
SPECIFICATION Spec
INVARIANT TypeOK
INVARIANT AtMostOnePollPending
INVARIANT SniffedFromFilledBuffer
INVARIANT RssiPacketsFit
PROPERTY ChannelSwitchCyclic
CHECK_DEADLOCK FALSE
