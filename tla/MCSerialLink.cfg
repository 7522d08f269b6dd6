\* Frame-level serial link; the gateway sends well-formed frames and frames
\* with LEN = 0 (type byte missing).
CONSTANTS
    r1 = r1  r2 = r2  m1 = m1  T1 = T1  T2 = T2
    NULL = NULL  NoType = NoType
    RxPackets <- MCRxPackets
    MeasPackets <- MCMeasPackets
    Table <- MCTable
    CmdTypes = {T1}
    Lens = {0, 1}
    MaxCmds = 3
    MaxMeas = 2
    EvQSize = 2
SPECIFICATION Spec
INVARIANT TypeOK NoPacketAliased ReplyOrder InFlightBufferHeld
PROPERTY RepliesPreemptTelemetry ReplyEventually
CHECK_DEADLOCK FALSE
