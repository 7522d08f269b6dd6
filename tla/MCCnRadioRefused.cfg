\* A refused command (NACK) while an accepted one waits in the queue.
CONSTANTS
    m1 = m1  m2 = m2  NULL = NULL
    MinCh = 1
    MaxCh = 3
    Cmds <- MCCmds
    MeasPackets <- MCMeasPackets
    RssiMeasureSize = 5
    TicksPerMs = 2
    USec = 1
    OffMod = 64
    DataMax = 20
    EvQSize = 2
    MaxRx = 1
    MaxCmds = 2
    MaxFires = 4
    MaxRxDone = 3
    MaxNow = 3
SPECIFICATION Spec
INVARIANT InstalledConfigWasAcked
CHECK_DEADLOCK FALSE
