------------------------------ MODULE Consumption ------------------------------
(***************************************************************************)
(* Consumption measures of the control node: cn_consumption.c (the        *)
(* CONFIG_CONSUMPTION handler, the deferred do_config and the measure      *)
(* handler) over the INA226 sample hand-off of fiteco_lib_gwt.c (the       *)
(* alert ISR stamps gwt.isr_timestamp and posts process_current_sample).   *)
(*                                                                         *)
(* Three contexts: the gateway (commands), the INA226 with its alert ISR,  *)
(* and the event task running EVENT_QUEUE_APPLI in FIFO order.  The ISR    *)
(* preempts the task anywhere, so process_current_sample is three steps:   *)
(* read isr_timestamp, ina226_read, call the handler.  The INA226 driver   *)
(* is not in the repository: as the comment of process_current_sample      *)
(* says, a finished conversion raises the alert, which stays latched (no   *)
(* further interrupt) until ina226_read; a read restarts the conversion.   *)
(* Time conversion uses iotlab_time with its initial config.  Measures     *)
(* carry their ISR tick as a ghost (irq) to compare with the stamp used.   *)
(***************************************************************************)
EXTENDS Integers, Sequences, FiniteSets, SequencesExt, PacketLists, MeasPkt

CONSTANTS NarrowBits, WideMod, Mul, KFreq,  \* as in TimeSync
          MeasPackets,  \* meas_pkts of cn_consumption (CN_CONSO_NUM_PKTS)
          AckPackets,   \* acks_pkts of cn_consumption (CN_CONSO_NUM_ACKS)
          Cmds,         \* CONFIG_CONSUMPTION frames the gateway may send
          EvQSize,      \* event queue capacity
          MaxRx,        \* command frames queued at once (1: the gateway
                        \* sends a command after the reply to the last one)
          MaxNow, MaxCmds, MaxConv, MaxOther

(* A command: its length is 3, START or STOP, a valid power source, and   *)
(* how many of p, v, c it asks for.                                       *)
CmdType == [len3 : BOOLEAN, enable : BOOLEAN, srcOk : BOOLEAN, nmeas : 0..3]

VARIABLES now,      \* wide soft_timer clock
          evQ,      \* EVENT_QUEUE_APPLI
          ina,      \* INA226: "off", "conv" (converting), "alert" (latched)
          isrTs,    \* gwt.isr_timestamp
          handler,  \* gwt.handler is set
          task,     \* the event being handled: a frame (rx), or
                    \* process_current_sample at its stamp or its read
          conf,     \* the static conf of config_consumption_measures
          cur,      \* cur_config (enable, measure_size)
          p,        \* cur_config.pkt
          content,  \* per measures packet: t_ref_s and its records
          pool, acks, tx,
          ackSize,  \* per ack frame: the measure size its pw_conf announces
          stream,   \* frames handed to the UART, in order
          cmds, convs, others

vars == <<now, evQ, ina, isrTs, handler, task, conf, cur, p, content, pool,
          acks, tx, ackSize, stream, cmds, convs, others>>

TS == INSTANCE TimeSync WITH Refs <- {}, MaxAge <- 0, MaxSets <- 0, config <- 0,
                             MaxSamples <- 0, sets <- 0, samples <- {}

Prio == [x \in MeasPackets \cup AckPackets |-> 0]   \* MEASURES_PRIORITY
TimeConfig == <<TS!Config0, TS!Config0>>
AckLength == 2                 \* alloc_pw_ack_frame: type and pw_config
MeasureSizeOf(c) == 4 + 4 * c.nmeas   \* usecs count + a float per measure
Idle == [pc |-> "idle"]

(* Boot state after cn_consumption_start: pools full, monitor stopped,    *)
(* cur_config and the static conf zeroed.                                 *)
Init == /\ now = 0 /\ evQ = <<>> /\ ina = "off" /\ isrTs = 0
        /\ handler = FALSE /\ task = Idle
        /\ conf = [enable |-> FALSE, msize |-> 0, pkt |-> NULL]
        /\ cur = [enable |-> FALSE, msize |-> 0] /\ p = NULL
        /\ content = [m \in MeasPackets |-> [tref |-> 0, recs |-> <<>>]]
        /\ pool = MeasPackets /\ acks = AckPackets /\ tx = <<>>
        /\ ackSize = [a \in AckPackets |-> 0] /\ stream = <<>>
        /\ cmds = 0 /\ convs = 0 /\ others = 0

(* Plausible bug: event_post without the capacity test.                  *)
PostNoBound(q, e) == Append(q, e)

(* event_post and event_post_from_isr: appended unless the queue is full. *)
Post(q, e) == IF Len(q) < EvQSize THEN Append(q, e) ELSE q

(* Command frames queued or being handled (the reply goes out after the   *)
(* handler returns).                                                      *)
RxQueued == Len(SelectSeq(evQ, LAMBDA e : e.k = "rx"))
            + IF task.pc = "rx" THEN 1 ELSE 0

(* The clock advances; no stamp waiting in the queue or the task gets     *)
(* half a narrow period old (2^31 ticks against milliseconds).            *)
Advance ==
    /\ now < MaxNow
    /\ \A i \in 1..Len(evQ) : evQ[i].k = "ps" => now + 1 - evQ[i].irq < TS!Half
    /\ task.pc \in {"stamped", "read"} => now + 1 - task.irq < TS!Half
    /\ now' = now + 1
    /\ UNCHANGED <<evQ, ina, isrTs, handler, task, conf, cur, p, content,
                   pool, acks, tx, ackSize, stream, cmds, convs, others>>

(* A conversion ends and raises the alert; current_sample_ready_isr       *)
(* stamps gwt.isr_timestamp and posts process_current_sample.             *)
SampleReadyIsr ==
    /\ ina = "conv" /\ convs < MaxConv
    /\ convs' = convs + 1 /\ ina' = "alert"
    /\ isrTs' = now % TS!NarrowMod
    /\ evQ' = Post(evQ, [k |-> "ps", irq |-> now])
    /\ UNCHANGED <<now, handler, task, conf, cur, p, content, pool, acks, tx,
                   ackSize, stream, cmds, others>>

(* The serial layer posts a CONFIG_CONSUMPTION frame to the event queue.  *)
GatewayCmd ==
    /\ cmds < MaxCmds /\ RxQueued < MaxRx
    /\ cmds' = cmds + 1
    /\ \E c \in Cmds : evQ' = Post(evQ, [k |-> "rx", cmd |-> c])
    /\ UNCHANGED <<now, ina, isrTs, handler, task, conf, cur, p, content, pool,
                   acks, tx, ackSize, stream, convs, others>>

(* Events of the other producers of EVENT_QUEUE_APPLI (pps, set_time, ... *)
(* frames) take queue room; running them leaves this state alone.         *)
OtherPost ==
    /\ others < MaxOther
    /\ others' = others + 1 /\ evQ' = Post(evQ, [k |-> "other"])
    /\ UNCHANGED <<now, ina, isrTs, handler, task, conf, cur, p, content, pool,
                   acks, tx, ackSize, stream, cmds, convs>>

EvOther ==
    /\ task.pc = "idle" /\ evQ # <<>> /\ Head(evQ).k = "other"
    /\ evQ' = Tail(evQ)
    /\ UNCHANGED <<now, ina, isrTs, handler, task, conf, cur, p, content, pool,
                   acks, tx, ackSize, stream, cmds, convs, others>>
(* The event task takes the next event only between two of them.          *)
Ready(k) == task.pc = "idle" /\ evQ # <<>> /\ Head(evQ).k = k

(* parse_consumption_config writes enable and measure_size into the       *)
(* static conf before it checks anything.                                 *)
Parsed(c) == [conf EXCEPT !.enable = c.enable, !.msize = MeasureSizeOf(c)]
Invalid(c) == ~c.srcOk \/ c.nmeas = 0

(* The event loop takes a CONFIG_CONSUMPTION frame off the queue: its    *)
(* slot is free from here, and interrupts may post before the handler     *)
(* reaches its own event_post.                                            *)
RxTake ==
    /\ Ready("rx")
    /\ evQ' = Tail(evQ) /\ task' = [pc |-> "rx", cmd |-> Head(evQ).cmd]
    /\ UNCHANGED <<now, ina, isrTs, handler, conf, cur, p, content, pool,
                   acks, tx, ackSize, stream, cmds, convs, others>>

(* config_consumption_measures: a frame whose length is not 3 is refused. *)
CfgBadLength ==
    /\ task.pc = "rx" /\ ~task.cmd.len3
    /\ task' = Idle
    /\ UNCHANGED <<now, evQ, ina, isrTs, handler, conf, cur, p, content, pool,
                   acks, tx, ackSize, stream, cmds, convs, others>>

(* parse fails on START with no measure or a bad source: conf is left     *)
(* with the new enable and measure_size.                                  *)
CfgInvalid ==
    LET c == task.cmd IN
    /\ task.pc = "rx" /\ c.len3 /\ c.enable /\ Invalid(c)
    /\ task' = Idle /\ conf' = Parsed(c)
    /\ UNCHANGED <<now, evQ, ina, isrTs, handler, cur, p, content, pool,
                   acks, tx, ackSize, stream, cmds, convs, others>>

(* parse fails when alloc_pw_ack_frame finds acks_queue empty: conf.pkt   *)
(* is NULL.                                                               *)
CfgNoAck ==
    LET c == task.cmd IN
    /\ task.pc = "rx" /\ c.len3 /\ ~(c.enable /\ Invalid(c)) /\ acks = {}
    /\ task' = Idle /\ conf' = [Parsed(c) EXCEPT !.pkt = NULL]
    /\ UNCHANGED <<now, evQ, ina, isrTs, handler, cur, p, content, pool,
                   acks, tx, ackSize, stream, cmds, convs, others>>

(* fiteco_lib_gwt_current_monitor_select: store the handler; OFF disables *)
(* the INA226, a source enables the alert and its initial ina226_read     *)
(* starts a conversion (a latched alert is cleared).                      *)
MonitorSelect(on) == [handler |-> TRUE, ina |-> IF on THEN "conv" ELSE "off"]

(* The config is accepted: the ack frame (type, pw_config) goes into      *)
(* conf.pkt, current_monitor_select(OFF) stores the handler and disables  *)
(* the INA226, and do_config is posted with &conf (a failed post returns  *)
(* 1 and keeps conf.pkt).                                                 *)
CfgAccept ==
    LET c == task.cmd IN
    /\ task.pc = "rx" /\ c.len3 /\ ~(c.enable /\ Invalid(c))
    /\ \E a \in acks :
         /\ acks' = acks \ {a}
         /\ ackSize' = [ackSize EXCEPT ![a] = MeasureSizeOf(c)]
         /\ conf' = [Parsed(c) EXCEPT !.pkt = a]
    /\ handler' = MonitorSelect(FALSE).handler /\ ina' = MonitorSelect(FALSE).ina
    /\ task' = Idle
    /\ evQ' = Post(evQ, [k |-> "do"])
    /\ UNCHANGED <<now, isrTs, cur, p, content, pool, tx, stream, cmds,
                   convs, others>>

(* flush_current_consumption_measures: cn_meas_pkt_flush of cur_config.pkt *)
(* with TX FIFO q and free list fl.                                       *)
FlushCurrent(pp, c, q, fl) ==
    IF pp = NULL THEN [tx |-> q, pool |-> fl] ELSE Flush(pp, c, q, fl, Prio)

(* Plausible bug: the ack frame is queued before the old measures.        *)
SendBeforeFlush(pp, c, q, fl, a) == FlushCurrent(pp, c, PrioInsert(q, a, Prio), fl)

(* do_config's sends: flush the current measures, then send the ack (a    *)
(* 2-byte frame, never refused by iotlab_serial_send_frame).              *)
SendAfterFlush(pp, c, q, fl, a) ==
    LET f == FlushCurrent(pp, c, q, fl) IN
    [tx |-> PrioInsert(f.tx, a, Prio), pool |-> f.pool]

(* do_config_consumption_measures: the sends, cur_config = conf with a    *)
(* NULL packet, and on enable ina226_configure and current_monitor_select *)
(* of the source (alert enabled, initial ina226_read starts a conversion). *)
DoConfig ==
    LET out == SendAfterFlush(p, content, tx, pool, conf.pkt) IN
    /\ Ready("do")
    /\ evQ' = Tail(evQ)
    /\ tx' = out.tx /\ pool' = out.pool /\ p' = NULL
    /\ cur' = [enable |-> conf.enable, msize |-> conf.msize]
    /\ IF conf.enable
       THEN handler' = MonitorSelect(TRUE).handler /\ ina' = MonitorSelect(TRUE).ina
       ELSE UNCHANGED <<handler, ina>>
    /\ UNCHANGED <<now, isrTs, task, conf, content, acks, ackSize, stream,
                   cmds, convs, others>>
(* process_current_sample, first statement: timestamp = gwt.isr_timestamp *)
(* (the ghost irq is the tick of the interrupt that posted this event).   *)
PsStamp ==
    /\ Ready("ps")
    /\ evQ' = Tail(evQ)
    /\ task' = [pc |-> "stamped", ts |-> isrTs, irq |-> Head(evQ).irq]
    /\ UNCHANGED <<now, ina, isrTs, handler, conf, cur, p, content, pool,
                   acks, tx, ackSize, stream, cmds, convs, others>>

(* ina226_read clears a latched alert and the next conversion starts.     *)
InaRead(s) == IF s = "alert" THEN "conv" ELSE s

PsRead ==
    /\ task.pc = "stamped"
    /\ ina' = InaRead(ina) /\ task' = [task EXCEPT !.pc = "read"]
    /\ UNCHANGED <<now, evQ, isrTs, handler, conf, cur, p, content, pool,
                   acks, tx, ackSize, stream, cmds, convs, others>>

(* Plausible bug: gwt.isr_timestamp is read when the handler is called,   *)
(* after ina226_read.                                                     *)
StampAtCall(t, s) == s

(* The measure_time_ticks handed to the handler: the value read first.    *)
Stamp(t, s) == t.ts

(* The handler call: consumption_measure_handler when gwt.handler is set: *)
(* extend_relative, lazy_alloc (drop the measure on an empty pool),       *)
(* add_measure with cur_config.measure_size, flush when it says so.       *)
PsHandle ==
    LET tick == TS!Extend(Stamp(task, isrTs), now)
        ts   == TS!TimeConvert(TimeConfig, tick)
    IN
    /\ task.pc = "read"
    /\ task' = Idle
    /\ IF ~handler \/ (p = NULL /\ pool = {})
       THEN UNCHANGED <<p, content, pool, tx>>
       ELSE \E m \in IF p = NULL THEN pool ELSE {p} :
            LET pkt   == IF p = NULL THEN LazyAlloc(ts) ELSE content[m]
                usecs == UsSince(pkt.tref, ts)
                c2    == [content EXCEPT ![m] = AddMeasure(pkt,
                             [tick |-> tick, irq |-> task.irq,
                              off |-> usecs, size |-> cur.msize])]
                out   == Flush(m, c2, tx, pool \ {m}, Prio)
            IN /\ content' = c2
               /\ IF ShouldSend(LengthIn(c2, m), usecs, cur.msize)
                  THEN p' = FlushedSlot(m) /\ tx' = out.tx /\ pool' = out.pool
                  ELSE p' = m /\ pool' = pool \ {m} /\ UNCHANGED tx
    /\ UNCHANGED <<now, evQ, ina, isrTs, handler, conf, cur, acks, ackSize,
                   stream, cmds, convs, others>>

(* What the gateway gets of a frame: the measure sizes it holds.          *)
FrameOf(m) == IF m \in MeasPackets
              THEN [k |-> "meas", sizes |-> {r.size : r \in ToSet(content[m].recs)}]
              ELSE [k |-> "ack", sizes |-> {ackSize[m]}]

(* The serial TX task sends the head frame and frees it to its pool.      *)
TxSend ==
    LET m == Head(tx) IN
    /\ tx # <<>>
    /\ tx' = Tail(tx) /\ stream' = Append(stream, FrameOf(m))
    /\ IF m \in MeasPackets THEN pool' = pool \cup {m} /\ UNCHANGED acks
       ELSE acks' = acks \cup {m} /\ UNCHANGED pool
    /\ UNCHANGED <<now, evQ, ina, isrTs, handler, task, conf, cur, p, content,
                   ackSize, cmds, convs, others>>

EventStep == \/ EvOther \/ RxTake \/ CfgBadLength \/ CfgInvalid \/ CfgNoAck
             \/ CfgAccept \/ DoConfig \/ PsStamp \/ PsRead \/ PsHandle

Next == \/ Advance \/ SampleReadyIsr \/ GatewayCmd \/ OtherPost
        \/ EventStep \/ TxSend

(* The event task runs whenever it has work; so does the TX task.         *)
Spec == Init /\ [][Next]_vars /\ WF_vars(EventStep) /\ WF_vars(TxSend)

-----------------------------------------------------------------------------
Rec == [tick : 0..MaxNow, irq : 0..MaxNow, off : 0..(OffMod - 1),
        size : {4, 8, 12, 16}]
Frame == [k : {"meas", "ack"}, sizes : SUBSET {0, 4, 8, 12, 16}]

(* Every variable has its type; a NULL never reaches the TX FIFO.          *)
TypeOK ==
    /\ now \in 0..MaxNow /\ ina \in {"off", "conv", "alert"}
    /\ isrTs \in 0..(TS!NarrowMod - 1) /\ handler \in BOOLEAN
    /\ task \in {Idle} \cup [pc : {"rx"}, cmd : Cmds]
                \cup [pc : {"stamped", "read"}, ts : 0..(TS!NarrowMod - 1),
                       irq : 0..MaxNow]
    /\ conf \in [enable : BOOLEAN, msize : {0, 4, 8, 12, 16},
                 pkt : AckPackets \cup {NULL}]
    /\ cur \in [enable : BOOLEAN, msize : {0, 4, 8, 12, 16}]
    /\ p \in MeasPackets \cup {NULL}
    /\ content \in [MeasPackets -> [tref : Nat, recs : Seq(Rec)]]
    /\ pool \subseteq MeasPackets /\ acks \subseteq AckPackets
    /\ tx \in Seq(MeasPackets \cup AckPackets)
    /\ stream \in Seq(Frame)
    /\ Len(evQ) <= EvQSize
    /\ evQ \in Seq([k : {"other", "do"}] \cup [k : {"rx"}, cmd : Cmds]
                   \cup [k : {"ps"}, irq : 0..MaxNow])

(* process_current_sample reads gwt.isr_timestamp before ina226_read      *)
(* because the read may let the next alert overwrite it: every measure    *)
(* carries the tick of the interrupt that posted its event.               *)
SampleStampedByOwnIrq ==
    \A m \in MeasPackets : \A i \in 1..Len(content[m].recs) :
        content[m].recs[i].tick = content[m].recs[i].irq

(* The gateway decodes a consumption frame with the measure size of the   *)
(* last config ack it got: do_config flushes the measures of the old      *)
(* config before it sends the ack of the new one, so every measures frame *)
(* follows an ack and holds records of that ack's size only.              *)
FramesMatchAck ==
    \A i \in 1..Len(stream) : stream[i].k = "meas" =>
        \E j \in 1..(i - 1) :
            /\ stream[j].k = "ack" /\ stream[i].sizes = stream[j].sizes
            /\ \A l \in (j + 1)..(i - 1) : stream[l].k = "meas"

(* No ack buffer is lost or used twice (the spec: faults never leak a     *)
(* buffer): each is free, queued once for TX, or held in conf.pkt for a   *)
(* do_config still in the event queue.                                    *)
AcksAccounted ==
    \A a \in AckPackets :
        LET held == IF conf.pkt = a /\ \E i \in 1..Len(evQ) : evQ[i].k = "do"
                    THEN 1 ELSE 0
        IN (IF a \in acks THEN 1 ELSE 0)
           + Len(SelectSeq(tx, LAMBDA x : x = a)) + held = 1
=============================================================================
