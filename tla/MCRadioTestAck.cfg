\* Two "send" lines, the second typed while the first is sending.
CONSTANTS
    MaxRecv = 2
    CmdQSize = 2
    TxQSize = 2
    EvQSize = 2
    Channels <- MCChannels
    SendArgs <- MCSendArgs
    Xmits = {1, 2}
    Sizes = {20}
    MaxCmds = 3
    MaxFrames = 2
SPECIFICATION Spec
INVARIANT TypeOK
INVARIANT AckConsistent
CHECK_DEADLOCK FALSE
