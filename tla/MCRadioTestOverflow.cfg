\* MAX_RECV_PACKET scaled to 1: "send 1 0 20 2 0" is the firmware's
\* "send 1 0 20 1049 0".
CONSTANTS
    MaxRecv = 1
    CmdQSize = 2
    TxQSize = 2
    EvQSize = 2
    Channels <- MCChannels
    SendArgs <- MCSendArgs
    Xmits = {1, 2}
    Sizes = {20}
    MaxCmds = 3
    MaxFrames = 2
SPECIFICATION Spec
INVARIANT SendTableInBounds
\* The bounds stop the model; the firmware then waits for input.
CHECK_DEADLOCK FALSE
