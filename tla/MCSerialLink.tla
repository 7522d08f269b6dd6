---------------------------- MODULE MCSerialLink ----------------------------
(* Instantiation of SerialLink for TLC: the RX pool of two buffers        *)
(* (IOTLAB_SERIAL_NUM_RX_PKTS), one telemetry buffer, one registered      *)
(* handler type.                                                          *)
EXTENDS SerialLink

CONSTANTS r1, r2, m1, T1, T2

MCRxPackets == {r1, r2}
MCMeasPackets == {m1}
(* iotlab_serial_register_handler called once, for T1.                    *)
MCTable == RegisterHandler(<<>>, [type |-> T1, id |-> 1])
=============================================================================
