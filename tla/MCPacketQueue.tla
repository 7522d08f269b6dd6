---------------------------- MODULE MCPacketQueue ----------------------------
(* PacketQueue instantiated for TLC: three packets, the TX task as the     *)
(* consumer, telemetry (0) and reply (1) priorities.                       *)
EXTENDS PacketQueue

CONSTANTS p1, p2, p3, a1, a2, tx

MCPackets == {p1, p2, p3}
MCOneAllocator == {a1}
MCTwoAllocators == {a1, a2}
=============================================================================
