---------------------------- MODULE MCConsumption ----------------------------
EXTENDS Consumption, TLC

CONSTANTS m1, m2, a1

MCMeasPackets == {m1, m2}
MCAckPackets == {a1}

(* START with one or three measures, STOP, START with no measure (refused) *)
(* and a frame of the wrong length.                                       *)
MCCmds == { [len3 |-> TRUE, enable |-> TRUE, srcOk |-> TRUE, nmeas |-> 1],
            [len3 |-> TRUE, enable |-> TRUE, srcOk |-> TRUE, nmeas |-> 3],
            [len3 |-> TRUE, enable |-> FALSE, srcOk |-> TRUE, nmeas |-> 1],
            [len3 |-> TRUE, enable |-> TRUE, srcOk |-> TRUE, nmeas |-> 0],
            [len3 |-> FALSE, enable |-> TRUE, srcOk |-> TRUE, nmeas |-> 1] }

MCSymmetry == Permutations(MCMeasPackets)
=============================================================================
