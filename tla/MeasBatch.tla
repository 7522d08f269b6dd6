------------------------------- MODULE MeasBatch -------------------------------
(***************************************************************************)
(* Batching of timestamped measures into telemetry packets (cn_meas_pkt.c) *)
(* by the pps event producer (cn_event.c), composed with the SET_TIME      *)
(* command (cn_control.c: set_time, do_set_time) that flushes the batch   *)
(* and installs a new time config (iotlab_time.c, module TimeSync).  The  *)
(* pps interrupt stamps a narrow tick and posts it to the event queue; the *)
(* event task converts it with the config current at that moment, which  *)
(* is the older one when the tick precedes the latest set_time.  Packet    *)
(* bytes are kept (header 5, record MeasureSize, capacity DataMax); the   *)
(* uint32 offset of a record lives modulo OffMod.  Telemetry and ack      *)
(* packets have priority 0, so the TX FIFO is first-come first-served.    *)
(***************************************************************************)
EXTENDS Integers, Sequences, FiniteSets, SequencesExt, PacketLists, MeasPkt

CONSTANTS NarrowBits, WideMod, Mul, KFreq,  \* as in TimeSync
          MeasPackets,  \* meas_pkts of cn_event (CN_EVENT_NUM_PKTS)
          AckPackets,   \* acks_pkts of cn_control (CN_CONTROL_NUM_ACKS)
          MeasureSize,  \* measure_size = 3 * sizeof(uint32_t)
          Drifts,       \* gateway clock minus node clock, in usec units
          EvQSize,      \* event queue capacity
          MaxNow, MaxPps, MaxCmds

Prio == [x \in MeasPackets \cup AckPackets |-> 0]

VARIABLES now, config,  \* wide clock and time_config (as in TimeSync)
          evQ,          \* EVENT_QUEUE_APPLI
          ppsOn,        \* pps gpio interrupt enabled
          aux,          \* set_time_aux
          p,            \* the static current packet of cn_event
          content,      \* per packet: t_ref_s and its records
          pool, acks,   \* free meas and ack packets
          tx,           \* the serial TX FIFO
          pps, cmds,    \* interrupts and commands so far (bounds)
          recorded,     \* ids of measures written into a packet
          delivered,    \* ids of measures handed to the UART
          cut           \* history: per ack, the measures recorded when
                        \* its do_set_time ran

vars == <<now, config, evQ, ppsOn, aux, p, content, pool, acks, tx, pps,
          cmds, recorded, delivered, cut>>

(* iotlab_time.c operators (Extend, TimeConvert, Config0) on this module's *)
(* clock and config.                                                      *)
TS == INSTANCE TimeSync WITH Refs <- {}, MaxAge <- 0, MaxSets <- 0,
                             MaxSamples <- 0, sets <- 0, samples <- {}

Init == /\ now = 0 /\ config = <<TS!Config0, TS!Config0>>
        /\ evQ = <<>> /\ ppsOn = TRUE
        /\ aux = [t0 |-> 0, ref |-> [sec |-> 0, usec |-> 0]]
        /\ p = NULL
        /\ content = [m \in MeasPackets |-> [tref |-> 0, recs |-> <<>>]]
        /\ pool = MeasPackets /\ acks = AckPackets /\ tx = <<>>
        /\ pps = 0 /\ cmds = 0 /\ recorded = {} /\ delivered = {}
        /\ cut = [a \in AckPackets |-> {}]

(* Plausible bug: event_post without the capacity test.                  *)
PostNoBound(q, e) == Append(q, e)

(* event_post: appended unless the queue is full.                         *)
Post(q, e) == IF Len(q) < EvQSize THEN Append(q, e) ELSE q

(* The clock advances; no queued timestamp gets half a narrow period old  *)
(* (events are handled within milliseconds, the period is 2^32 ticks).   *)
Advance ==
    /\ now < MaxNow
    /\ \A i \in 1..Len(evQ) : "at" \in DOMAIN evQ[i] =>
          now + 1 - evQ[i].at < TS!Half
    /\ now' = now + 1
    /\ UNCHANGED <<config, evQ, ppsOn, aux, p, content, pool, acks, tx, pps,
                   cmds, recorded, delivered, cut>>

(* pps_handler_irq: timestamp = soft_timer_time(); event_post.             *)
PpsIrq ==
    /\ ppsOn /\ pps < MaxPps
    /\ pps' = pps + 1
    /\ evQ' = Post(evQ, [k |-> "pps", tick |-> now % TS!NarrowMod, at |-> now,
                         id |-> pps'])
    /\ UNCHANGED <<now, config, ppsOn, aux, p, content, pool, acks, tx, cmds,
                   recorded, delivered, cut>>

(* A SET_TIME or CONFIG_GPIO frame reaches the event task's queue; the    *)
(* SET_TIME frame carries its SYNC-byte tick and the gateway's time of it. *)
Shift(t, d) == LET u == t.sec * USec + t.usec + d
               IN  [sec |-> u \div USec, usec |-> u % USec]

GatewayCmd ==
    /\ cmds < MaxCmds
    /\ cmds' = cmds + 1
    /\ \/ \E d \in Drifts :
            evQ' = Post(evQ, [k |-> "set_time", t0 |-> now % TS!NarrowMod,
                              at |-> now,
                              ref |-> Shift(TS!TimeConvert(config, now), d)])
       \/ \E on \in BOOLEAN : evQ' = Post(evQ, [k |-> "config_gpio", on |-> on])
    /\ UNCHANGED <<now, config, ppsOn, aux, p, content, pool, acks, tx, pps,
                   recorded, delivered, cut>>

(* pps_handler -> event_handler: extend_relative, lazy_alloc (drop the    *)
(* measure on an empty pool), add_measure, and flush_current_event when   *)
(* it says so.                                                            *)
EvPps ==
    LET e    == Head(evQ)
        tick == TS!Extend(e.tick, now)
        ts   == TS!TimeConvert(config, tick)
    IN
    /\ evQ # <<>> /\ e.k = "pps"
    /\ evQ' = Tail(evQ)
    /\ IF p = NULL /\ pool = {}
       THEN UNCHANGED <<p, content, pool, tx, recorded>>
       ELSE \E m \in IF p = NULL THEN pool ELSE {p} :
            LET pkt   == IF p = NULL THEN LazyAlloc(ts) ELSE content[m]
                usecs == UsSince(pkt.tref, ts)
                c2    == [content EXCEPT ![m] = AddMeasure(pkt,
                             [id |-> e.id, tick |-> tick, ts |-> ts,
                              off |-> usecs, size |-> MeasureSize])]
                out   == Flush(m, c2, tx, pool \ {m}, Prio)
            IN /\ content' = c2 /\ recorded' = recorded \cup {e.id}
               /\ IF ShouldSend(LengthIn(c2, m), usecs, MeasureSize)
                  THEN p' = FlushedSlot(m) /\ tx' = out.tx /\ pool' = out.pool
                  ELSE p' = m /\ pool' = pool \ {m} /\ UNCHANGED tx
    /\ UNCHANGED <<now, config, ppsOn, aux, acks, pps, cmds, delivered, cut>>

(* set_time handler: save t0 and the unix time in set_time_aux, then      *)
(* allocate the ack (return on failure) and post do_set_time with it      *)
(* (free the ack when the post fails).                                    *)
EvSetTime ==
    LET e == Head(evQ) IN
    /\ evQ # <<>> /\ e.k = "set_time"
    /\ aux' = [t0 |-> e.t0, ref |-> e.ref]
    /\ IF acks = {}
       THEN evQ' = Tail(evQ) /\ UNCHANGED acks
       ELSE \E a \in acks :
            IF Len(Tail(evQ)) < EvQSize
            THEN /\ evQ' = Append(Tail(evQ), [k |-> "do_set_time", ack |-> a])
                 /\ acks' = acks \ {a}
            ELSE /\ evQ' = Tail(evQ) /\ UNCHANGED acks
    /\ UNCHANGED <<now, config, ppsOn, p, content, pool, tx, pps, cmds,
                   recorded, delivered, cut>>

(* Plausible bug: do_set_time sends the ack before flushing the packet.  *)
EvDoSetTimeAckFirst ==
    LET e   == Head(evQ)
        acked == PrioInsert(tx, e.ack, Prio)
        out == IF p = NULL THEN [tx |-> acked, pool |-> pool]
               ELSE Flush(p, content, acked, pool, Prio)
    IN
    /\ evQ # <<>> /\ e.k = "do_set_time"
    /\ evQ' = Tail(evQ)
    /\ p' = FlushedSlot(p) /\ pool' = out.pool
    /\ tx' = out.tx
    /\ config' = << [time0 |-> TS!Extend(aux.t0, now), ref |-> aux.ref,
                     lastSet |-> now], config[1] >>
    /\ cut' = [cut EXCEPT ![e.ack] = recorded]
    /\ UNCHANGED <<now, ppsOn, aux, content, acks, pps, cmds, recorded,
                   delivered>>

(* do_set_time: flush the current measures packet, send the ack frame     *)
(* (length 1: never rejected), then iotlab_time_set_time(aux.t0, aux.ref) *)
(* keyed on the current wide time.                                        *)
EvDoSetTime ==
    LET e   == Head(evQ)
        out == IF p = NULL THEN [tx |-> tx, pool |-> pool]
               ELSE Flush(p, content, tx, pool, Prio)
    IN
    /\ evQ # <<>> /\ e.k = "do_set_time"
    /\ evQ' = Tail(evQ)
    /\ p' = FlushedSlot(p) /\ pool' = out.pool
    /\ tx' = PrioInsert(out.tx, e.ack, Prio)
    /\ config' = << [time0 |-> TS!Extend(aux.t0, now), ref |-> aux.ref,
                     lastSet |-> now], config[1] >>
    /\ cut' = [cut EXCEPT ![e.ack] = recorded]
    /\ UNCHANGED <<now, ppsOn, aux, content, acks, pps, cmds, recorded,
                   delivered>>

(* config_gpio_event: STOP disables the pps interrupt, START enables it.  *)
EvConfigGpio ==
    LET e == Head(evQ) IN
    /\ evQ # <<>> /\ e.k = "config_gpio"
    /\ evQ' = Tail(evQ)
    /\ ppsOn' = e.on
    /\ UNCHANGED <<now, config, aux, p, content, pool, acks, tx, pps, cmds,
                   recorded, delivered, cut>>

(* The serial TX task sends the head frame and frees it to its pool.      *)
TxSend ==
    LET m == Head(tx) IN
    /\ tx # <<>>
    /\ tx' = Tail(tx)
    /\ IF m \in MeasPackets
       THEN /\ pool' = pool \cup {m} /\ UNCHANGED acks
            /\ delivered' = delivered \cup {r.id : r \in ToSet(content[m].recs)}
       ELSE /\ acks' = acks \cup {m} /\ UNCHANGED <<pool, delivered>>
    /\ UNCHANGED <<now, config, evQ, ppsOn, aux, p, content, pps, cmds,
                   recorded, cut>>

EventStep == EvPps \/ EvSetTime \/ EvDoSetTime \/ EvConfigGpio

Next == \/ Advance \/ PpsIrq \/ GatewayCmd
        \/ EventStep \/ TxSend

(* The event task runs whenever its queue is not empty; the TX task       *)
(* whenever its FIFO is not empty (it never waits on the UART here).      *)
Spec == Init /\ [][Next]_vars /\ WF_vars(EventStep) /\ WF_vars(TxSend)
-----------------------------------------------------------------------------
Ids == 1..MaxPps
Rec == [id : Ids, tick : 0..MaxNow, ts : [sec : Nat, usec : 0..USec],
        off : 0..(OffMod - 1), size : {MeasureSize}]
Event == [k : {"pps"}, tick : 0..(TS!NarrowMod - 1), at : 0..MaxNow, id : Ids]
    \cup [k : {"config_gpio"}, on : BOOLEAN]
    \cup [k : {"do_set_time"}, ack : AckPackets]

TypeOK ==
    /\ now \in 0..MaxNow /\ pps \in 0..MaxPps /\ cmds \in 0..MaxCmds
    /\ Len(evQ) <= EvQSize
    /\ \A i \in 1..Len(evQ) : evQ[i].k = "set_time" \/ evQ[i] \in Event
    /\ p \in MeasPackets \cup {NULL} /\ ppsOn \in BOOLEAN
    /\ pool \subseteq MeasPackets /\ acks \subseteq AckPackets
    /\ tx \in Seq(MeasPackets \cup AckPackets)
    /\ \A m \in MeasPackets : content[m].recs \in Seq(Rec)
    /\ recorded \subseteq Ids /\ delivered \subseteq recorded
    /\ cut \in [AckPackets -> SUBSET Ids]

(* Telemetry packets in the TX FIFO, then the current packet.             *)
Pending == SelectSeq(tx, LAMBDA x : x \in MeasPackets)
               \o (IF p = NULL THEN <<>> ELSE <<p>>)
HeldIds == UNION {{r.id : r \in ToSet(content[m].recs)} : m \in ToSet(Pending)}

(* Every measure the event task wrote into a packet is, at every moment,  *)
(* either in a packet not yet sent (the current one or one queued for TX) *)
(* or delivered, and no packet is both free and in use: the flush policy  *)
(* of _pkt_should_send never lets a packet outgrow the payload (which     *)
(* send_frame would reject and the flush would free), and the slot that   *)
(* cn_meas_pkt_flush clears is never reused while the TX task owns it.    *)
MeasuresAccounted ==
    /\ recorded = HeldIds \cup delivered
    /\ \A m \in ToSet(Pending) : m \notin pool
    /\ Len(Pending) = Cardinality(ToSet(Pending))

(* Measures reach the UART in the order their interrupts fired: packets   *)
(* of equal priority leave the TX FIFO first-come first-served, and the   *)
(* current packet is flushed (by event_handler or do_set_time) before a   *)
(* later one is started.                                                  *)
SamplesInOrder ==
    LET ids == FlattenSeq([i \in 1..Len(Pending) |->
                   [j \in 1..Len(content[Pending[i]].recs) |->
                       content[Pending[i]].recs[j].id]])
    IN  \A i, j \in 1..Len(ids) : i < j => ids[i] < ids[j]

(* Every record decodes to the time it was stamped with: t_ref_s plus its *)
(* micros_since_base is the record's converted timestamp (spec:           *)
(* MeasurementPacket, micros_since_base = timestamp - base_seconds).       *)
(* _us_since_packet_ref computes it in uint32 against the t_ref_s of the  *)
(* packet's first record, which may have been converted with another     *)
(* time config.                                                           *)
RecordsDecode ==
    \A m \in ToSet(Pending) : \A r \in ToSet(content[m].recs) :
        r.off = r.ts.usec + (r.ts.sec - content[m].tref) * Sec

(* do_set_time flushes the current packet before it queues the SET_TIME  *)
(* ack, and the FIFO keeps that order: once the ack is queued, no         *)
(* measure recorded before its do_set_time (in the old time base) waits   *)
(* behind it, in the TX FIFO or in the current packet, so the gateway can *)
(* switch time base at the ack.                                           *)
AckFollowsOldMeasures ==
    LET q == tx \o (IF p = NULL THEN <<>> ELSE <<p>>)
    IN \A i, j \in 1..Len(q) :
          i < j /\ q[i] \in AckPackets /\ q[j] \in MeasPackets =>
             \A r \in ToSet(content[q[j]].recs) : r.id \notin cut[q[i]]

(* Every measure written into a packet is eventually handed to the UART  *)
(* (spec, staleness bound: the maximum age a batched packet may reach     *)
(* before it must be flushed even if not full).  The code flushes only   *)
(* from event_handler, on the next measure, and from do_set_time.         *)
RecordEventuallySent == \A i \in Ids : i \in recorded ~> i \in delivered
=============================================================================
