-------------------------- MODULE PrioQueueAbstract --------------------------
(***************************************************************************)
(* What the TX FIFO of iotlab_packet.c promises its users: a set of       *)
(* pending entries, each with a priority and an arrival stamp; a get      *)
(* removes an entry of the highest priority, the earliest among those.    *)
(***************************************************************************)
EXTENDS Naturals

CONSTANTS Packets, Prios, Stamps

VARIABLE entries   \* set of [pkt, prio, stamp]

Entry == [pkt : Packets, prio : Prios, stamp : Stamps]

Best(e) ==
    \A f \in entries : \/ e.prio > f.prio
                       \/ e.prio = f.prio /\ e.stamp <= f.stamp

Init == entries = {}

Put(e) == /\ e.pkt \notin {f.pkt : f \in entries}
          /\ entries' = entries \cup {e}

Get == \E e \in entries : Best(e) /\ entries' = entries \ {e}

Next == \/ \E e \in Entry : Put(e)
        \/ Get

Spec == Init /\ [][Next]_entries
=============================================================================
