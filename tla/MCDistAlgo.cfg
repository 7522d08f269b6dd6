\* Two nodes, three slots, queue of 2, one unhandled frame per node.
CONSTANTS
    Node = {1, 2}
    Ids = {1, 2, 3, 4}
    MaxNb = 3
    Loads <- MCLoads
    Vals = {1, 2}
    RssiVals <- MCRssiVals
    MinRssi <- MCMinRssi
    SendRetry = 2
    EvQSize = 2
    InboxMax = 1
    MaxCmds = 3
    MaxWakeup = 2
SPECIFICATION Spec
INVARIANT TypeOK
INVARIANT GossipIsMaxOfDraws
PROPERTY ClockStaysStopped
CHECK_DEADLOCK FALSE
