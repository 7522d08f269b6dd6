----------------------------- MODULE MCRadioTest -----------------------------
(* Small instances of RadioTest for TLC.                                    *)
EXTENDS RadioTest

\* "send 1 <power> 20 <num> 0", with a valid power (code 0) or an unknown
\* one, and num_packets up to one past the scaled MAX_RECV_PACKET.
MCSendArgs ==
    [xmit : {1}, power : {0}, size : {20}, num : {1, 2}]

\* "channel 15" and "channel 267", whose low byte is 11
MCChannels == {15, 267}
=============================================================================
