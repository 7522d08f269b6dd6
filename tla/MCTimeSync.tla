------------------------------ MODULE MCTimeSync ------------------------------
(* Instantiation of TimeSync: unix_time_ref values whose microseconds can *)
(* add up with a converted fraction to exactly one second.                 *)
EXTENDS TimeSync

MCRefs == {[sec |-> 1, usec |-> 0], [sec |-> 1, usec |-> 3]}
=============================================================================
