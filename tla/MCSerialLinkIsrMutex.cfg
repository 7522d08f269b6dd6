\* check_uart allocating while the TX task holds the RX pool mutex.
CONSTANTS
    r1 = r1  r2 = r2  m1 = m1  T1 = T1  T2 = T2
    NULL = NULL  NoType = NoType
    RxPackets <- MCRxPackets
    MeasPackets <- MCMeasPackets
    Table <- MCTable
    CmdTypes = {T1}
    Lens = {1}
    MaxCmds = 3
    MaxMeas = 2
    EvQSize = 2
SPECIFICATION Spec
INVARIANT NoIsrMutexConflict
CHECK_DEADLOCK FALSE
