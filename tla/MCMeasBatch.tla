------------------------------ MODULE MCMeasBatch ------------------------------
(* Instance of MeasBatch for TLC: two measure packets, one ack packet.    *)
EXTENDS MeasBatch, TLC

CONSTANTS m1, m2, a1

MCMeasPackets == {m1, m2}
MCAckPackets == {a1}

(* A gateway whose clock is 100 ms (one usec unit) behind or ahead.      *)
MCDriftsSmall == {-1, 1}

(* The first SET_TIME of an experiment: the node's clock counts from     *)
(* boot, the gateway's from 1970; scaled, a jump of 7 s against the 6.4 s *)
(* range of micros_since_base (OffMod 64 units of 100 ms).               *)
MCDriftsEpoch == {70}

(* The two measure packets are interchangeable.                          *)
MCSymmetry == Permutations(MCMeasPackets)
=============================================================================
