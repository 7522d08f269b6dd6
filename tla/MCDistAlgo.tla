----------------------------- MODULE MCDistAlgo -----------------------------
(* DistAlgo for TLC: nodes 1..3 and one id (4) of a node outside the     *)
(* model, a table of three slots, two values, an RSSI on each side of     *)
(* MIN_RSSI, and two tries per send.                                      *)
EXTENDS DistAlgo

\* MIN_RSSI of config.h, and one frame heard below it and one at it.
MCMinRssi == -70
MCRssiVals == {-71, -70}

\* "neighbours" argument lists: a full table with the outside node, and
\* a single neighbour.
MCLoads == {<<2, 3, 4>>, <<4>>}
=============================================================================
