\* A TX status that arrives after send_one_packet's timeout.
CONSTANTS
    MaxRecv = 2
    CmdQSize = 2
    TxQSize = 2
    EvQSize = 2
    Channels <- MCChannels
    SendArgs <- MCSendArgs
    Xmits = {1, 2}
    Sizes = {20}
    MaxCmds = 3
    MaxFrames = 2
SPECIFICATION Spec
INVARIANT TypeOK
INVARIANT TxResultIsOwn
CHECK_DEADLOCK FALSE
