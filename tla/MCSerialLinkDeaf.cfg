\* After a lost RX buffer the receiver is never re-armed.
CONSTANTS
    r1 = r1  r2 = r2  m1 = m1  T1 = T1  T2 = T2
    NULL = NULL  NoType = NoType
    RxPackets <- MCRxPackets
    MeasPackets <- MCMeasPackets
    Table <- MCTable
    CmdTypes = {T1}
    Lens = {1}
    MaxCmds = 3
    MaxMeas = 2
    EvQSize = 2
SPECIFICATION Spec
PROPERTY ReceiverRearmed
CHECK_DEADLOCK FALSE
