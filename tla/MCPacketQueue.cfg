\* One allocator task per pool, as in the control-node firmware.
CONSTANTS
    p1 = p1  p2 = p2  p3 = p3  a1 = a1  a2 = a2  tx = tx
    NULL = NULL
    Packets <- MCPackets
    Allocators <- MCOneAllocator
    Consumer = tx
    Prios = {0, 1}
    MaxStamp = 4
SPECIFICATION Spec
INVARIANT TypeOK
INVARIANT PoolAccounting
PROPERTY AppendedEventuallyTaken
PROPERTY AbstractSpec
