------------------------------ MODULE MCCnRadio ------------------------------
(* CnRadio for TLC: channels 1..3 (0 lies below PHY_2400_MIN_CHANNEL as   *)
(* 0..10 do), two radio packets, and a gateway that sends a command only  *)
(* after the reply to the last one.                                       *)
EXTENDS CnRadio, TLC

CONSTANTS m1, m2

MCMeasPackets == {m1, m2}

Cmd(kd, ok, S, ms, n) == [kind |-> kd, lenOk |-> ok, chans |-> S, ms |-> ms,
                          nops |-> n]

(* An accepted scan of all three channels, one measure each; polling     *)
(* commands refused for an out-of-range map or a zero period; an accepted *)
(* and a refused (two channels) sniffer; STOP.                            *)
MCCmds == {Cmd("poll", TRUE, {1, 2, 3}, 1, 1), Cmd("poll", TRUE, {4}, 1, 1),
           Cmd("poll", TRUE, {2}, 0, 0), Cmd("sniff", TRUE, {2}, 0, 0),
           Cmd("sniff", TRUE, {1, 2}, 0, 0), Cmd("off", TRUE, {}, 0, 0),
           Cmd("poll", FALSE, {1}, 1, 0)}

MCSymmetry == Permutations(MCMeasPackets)
=============================================================================
