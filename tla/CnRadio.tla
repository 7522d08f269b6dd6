-------------------------------- MODULE CnRadio --------------------------------
(***************************************************************************)
(* Radio measures of the control node: cn_radio.c.  The CONFIG_RADIO_STOP, *)
(* CONFIG_RADIO_MEAS and CONFIG_RADIO_SNIFFER handlers, the two deferred   *)
(* steps update_config and _set_new_config, RSSI polling on the soft timer *)
(* (poll_time, manage_channel_switch, set_next_channel) and the sniffer    *)
(* (sniff_rx, sniff_handle_rx, sniff_handle_rx_appli_queue).  Injection    *)
(* and jamming are compiled out (#if 0).                                   *)
(*                                                                         *)
(* Contexts: the gateway (command frames), the soft-timer and PHY          *)
(* interrupts, the event task running EVENT_QUEUE_APPLI in FIFO order, and *)
(* the serial TX task.  The PHY, soft_timer and event libraries are not in *)
(* the repository: a timer expiry and a PHY RX completion post their       *)
(* handler like any event_post from an ISR (lost when the queue is full).  *)
(* Channels are the 2.4 GHz channels scaled to MinCh..MaxCh; a channel map *)
(* is the set of its bits.  Time is whole seconds of the extended clock.   *)
(***************************************************************************)
EXTENDS Integers, Sequences, FiniteSets, SequencesExt, PacketLists, MeasPkt

CONSTANTS MinCh, MaxCh,   \* PHY_2400_MIN_CHANNEL, PHY_2400_MAX_CHANNEL
          Cmds,           \* radio command frames the gateway may send
          MeasPackets,    \* radio.meas_pkts (CN_RADIO_NUM_PKTS)
          RssiMeasureSize,\* RSSI_MEASURE_SIZE
          TicksPerMs,     \* soft_timer_ms_to_ticks factor
          EvQSize,        \* event queue capacity
          MaxRx,          \* command frames queued or in hand at once
          MaxCmds, MaxFires, MaxRxDone, MaxNow

Modes == {"off", "poll", "sniff"}        \* RADIO_OFF, _POLLING, _SNIFFER
Channels == MinCh..MaxCh                 \* PHY_MAP_CHANNEL_2400_ALL
Bufs == {0, 1}                           \* radio.sniff.pkt_buf[2]
NoRx == -1                               \* the PHY is idle
RssiSize == 4 + 1 + 1                    \* usecs, channel and ed bytes
Prio == [m \in MeasPackets |-> 0]        \* MEASURES_PRIORITY
Null == [used |-> -1, filled |-> -1]     \* a packet holding no ZEP frame

(* A frame: which handler, a length that matches, the raw channel map,    *)
(* the period (or time per channel) in ms and the measures per channel.   *)
CmdType == [kind : Modes, lenOk : BOOLEAN, chans : SUBSET (0..MaxCh + 1),
            ms : 0..1, nops : 0..2]

(* struct radio_config; default_config and the two static configs.        *)
Config == [mode : Modes, chans : SUBSET Channels, nops : 0..2, period : Nat]
DefaultConfig == [mode |-> "off", chans |-> {}, nops |-> 0, period |-> 0]

VARIABLES evQ,      \* EVENT_QUEUE_APPLI
          task,     \* the command frame being handled, if any
          config,   \* radio.config
          stat,     \* the static config of radio_polling / radio_sniffer
          armed,    \* radio.timer is running
          chan,     \* radio.current_channel
          opNum,    \* radio.current_op_num_on_channel
          rssiPkt,  \* radio.rssi.serial_pkt
          content,  \* per packet: t_ref_s and the RSSI records
          zep,      \* per packet: the sniff buffer used and the one filled
          pool, tx, \* radio.measures_queue and the serial TX FIFO
          pktIndex, \* radio.sniff.pkt_index
          phy,      \* the buffer the PHY receives into, or NoRx (idle)
          hung,     \* the event task is stuck in set_next_channel
          acked,    \* configs a handler posted and returned 0 for
          now, cmds, fires, rxDones

vars == <<evQ, task, config, stat, armed, chan, opNum, rssiPkt, content, zep,
          pool, tx, pktIndex, phy, hung, acked, now, cmds, fires, rxDones>>

Idle == [pc |-> "idle"]
Empty == [tref |-> 0, recs |-> <<>>]

(* The static config a pointer of an update/_set event designates.        *)
CfgAt(ptr) == IF ptr = "default" THEN DefaultConfig ELSE stat[ptr]

(* Plausible bug: event_post without the capacity test.                  *)
PostNoBound(q, e) == Append(q, e)

(* event_post: appended unless the queue is full.                         *)
Posted(q) == Len(q) < EvQSize
Post(q, e) == IF Posted(q) THEN Append(q, e) ELSE q

(* State after cn_radio_start: radio_init, then update_config of          *)
(* default_config (radio.config = default, proper_stop with nothing to    *)
(* stop or flush, _set_new_config posted).                                *)
Init == /\ evQ = <<[k |-> "set", ptr |-> "default"]>>
        /\ task = Idle /\ config = DefaultConfig
        /\ stat = [poll |-> [DefaultConfig EXCEPT !.mode = "poll"],
                   sniff |-> [DefaultConfig EXCEPT !.mode = "sniff"]]
        /\ armed = FALSE /\ chan = 0 /\ opNum = 0 /\ rssiPkt = NULL
        /\ content = [m \in MeasPackets |-> Empty]
        /\ zep = [m \in MeasPackets |-> Null]
        /\ pool = MeasPackets /\ tx = <<>> /\ pktIndex = 0 /\ phy = NoRx
        /\ hung = FALSE /\ acked = {} /\ now = 0
        /\ cmds = 0 /\ fires = 0 /\ rxDones = 0

(* The event task takes the next event only between two of them, and not *)
(* once it is stuck.                                                      *)
Ready(k) == ~hung /\ task.pc = "idle" /\ evQ # <<>> /\ Head(evQ).k = k

RxQueued == Len(SelectSeq(evQ, LAMBDA e : e.k = "rx"))
            + IF task.pc = "rx" THEN 1 ELSE 0
-----------------------------------------------------------------------------
(* Plausible bug: the wrap test of set_next_channel is >= instead of >.   *)
RECURSIVE NextChannelWrapGe(_, _, _)
NextChannelWrapGe(c, S, n) ==
    LET c1 == IF c + 1 >= MaxCh THEN MinCh ELSE c + 1 IN
    IF n = 0 THEN -1 ELSE IF c1 \in S THEN c1 ELSE NextChannelWrapGe(c1, S, n - 1)

(* set_next_channel: do { current_channel++, wrapping past MAX to MIN }   *)
(* while its bit is clear in channels.  Within MaxCh + 1 turns the loop  *)
(* has visited every channel of the map; past that it never ends: -1.    *)
RECURSIVE NextChannel(_, _, _)
NextChannel(c, S, n) ==
    LET c1 == IF c + 1 > MaxCh THEN MinCh ELSE c + 1 IN
    IF n = 0 THEN -1 ELSE IF c1 \in S THEN c1 ELSE NextChannel(c1, S, n - 1)

SetNextChannel(c, S) == NextChannel(c, S, MaxCh + 1)

(* The cyclic successor of c in a channel map: the next channel above c, *)
(* else the lowest one.                                                   *)
CyclicSucc(c, S) ==
    LET above == {x \in S : x > c} IN
    IF above # {} THEN CHOOSE x \in above : \A y \in above : x <= y
    ELSE CHOOSE x \in S : \A y \in S : x <= y

(* The gateway's serial frame is posted to the event queue.               *)
GatewayCmd ==
    /\ cmds < MaxCmds /\ RxQueued < MaxRx
    /\ cmds' = cmds + 1
    /\ \E c \in Cmds : evQ' = Post(evQ, [k |-> "rx", cmd |-> c])
    /\ UNCHANGED <<task, config, stat, armed, chan, opNum, rssiPkt, content,
                   zep, pool, tx, pktIndex, phy, hung, acked, now, fires,
                   rxDones>>

(* packet_received takes the frame; interrupts may post before the        *)
(* handler reaches its own event_post.                                    *)
RxTake ==
    /\ Ready("rx")
    /\ evQ' = Tail(evQ) /\ task' = [pc |-> "rx", cmd |-> Head(evQ).cmd]
    /\ UNCHANGED <<config, stat, armed, chan, opNum, rssiPkt, content, zep,
                   pool, tx, pktIndex, phy, hung, acked, now, cmds, fires,
                   rxDones>>

(* A handler that posts update_config with ptr returns 0 if the post     *)
(* succeeds (the ACK reply), else 1.                                      *)
PostUpdate(ptr, cfg) ==
    /\ evQ' = Post(evQ, [k |-> "update", ptr |-> ptr])
    /\ acked' = IF Posted(evQ) THEN acked \cup {cfg} ELSE acked

(* radio_off: post update_config(&default_config).                        *)
RadioOff ==
    /\ task.pc = "rx" /\ task.cmd.kind = "off"
    /\ task' = Idle /\ PostUpdate("default", DefaultConfig)
    /\ UNCHANGED <<config, stat, armed, chan, opNum, rssiPkt, content, zep,
                   pool, tx, pktIndex, phy, hung, now, cmds, fires, rxDones>>

(* A command of the wrong length is refused before anything is written.   *)
BadLength ==
    /\ task.pc = "rx" /\ task.cmd.kind # "off" /\ ~task.cmd.lenOk
    /\ task' = Idle
    /\ UNCHANGED <<evQ, config, stat, armed, chan, opNum, rssiPkt, content,
                   zep, pool, tx, pktIndex, phy, hung, acked, now, cmds, fires,
                   rxDones>>

(* radio_polling: channels, measure_period and num_operations_per_channel *)
(* are copied into the static config, channels masked, and only then      *)
(* checked; an accepted period is converted to ticks in place, and        *)
(* update_config(&config) is posted.                                      *)
RadioPolling ==
    LET c  == task.cmd
        w  == [mode |-> "poll", chans |-> c.chans \cap Channels,
               nops |-> c.nops, period |-> c.ms]
        ok == w.chans # {} /\ c.ms # 0
        a  == [w EXCEPT !.period = c.ms * TicksPerMs]
    IN
    /\ task.pc = "rx" /\ c.kind = "poll" /\ c.lenOk
    /\ task' = Idle
    /\ IF ok THEN stat' = [stat EXCEPT !.poll = a] /\ PostUpdate("poll", a)
       ELSE stat' = [stat EXCEPT !.poll = w] /\ UNCHANGED <<evQ, acked>>
    /\ UNCHANGED <<config, armed, chan, opNum, rssiPkt, content, zep, pool,
                   tx, pktIndex, phy, hung, now, cmds, fires, rxDones>>

(* radio_sniffer: the masked channels are copied into the static config,  *)
(* then a map of zero or several channels, or a time per channel, is      *)
(* refused; else update_config(&config) is posted.                        *)
RadioSniffer ==
    LET c  == task.cmd
        w  == [stat.sniff EXCEPT !.chans = c.chans \cap Channels]
        ok == Cardinality(w.chans) = 1 /\ c.ms = 0
    IN
    /\ task.pc = "rx" /\ c.kind = "sniff" /\ c.lenOk
    /\ task' = Idle /\ stat' = [stat EXCEPT !.sniff = w]
    /\ IF ok THEN PostUpdate("sniff", w) ELSE UNCHANGED <<evQ, acked>>
    /\ UNCHANGED <<config, armed, chan, opNum, rssiPkt, content, zep, pool,
                   tx, pktIndex, phy, hung, now, cmds, fires, rxDones>>
(* flush_current_rssi_measures: cn_meas_pkt_flush of radio.rssi.serial_pkt *)
(* into the TX FIFO q with free list fl.                                   *)
FlushRssi(pp, c, q, fl) ==
    IF pp = NULL THEN [tx |-> q, pool |-> fl] ELSE Flush(pp, c, q, fl, Prio)

(* Plausible bug: proper_stop leaves the soft timer running.              *)
StopTimerNoop(a) == a

(* proper_stop, first statement: soft_timer_stop(&radio.timer).           *)
StopTimer(a) == FALSE

(* Plausible bug: update_config keeps radio.config until _set_new_config. *)
ResetConfigKeep(c) == c

(* update_config, first statement: radio.config = default_config.        *)
ResetConfig(c) == DefaultConfig

(* update_config: radio.config = default_config, proper_stop (timer       *)
(* stopped, PHY idle, channel and operation count zeroed, pending RSSI    *)
(* measures flushed), then _set_new_config(config) is posted (a failed    *)
(* post leaves the radio off).                                            *)
UpdateConfig ==
    LET out == FlushRssi(rssiPkt, content, tx, pool) IN
    /\ Ready("update")
    /\ config' = ResetConfig(config)
    /\ armed' = StopTimer(armed) /\ phy' = NoRx /\ chan' = 0 /\ opNum' = 0
    /\ tx' = out.tx /\ pool' = out.pool /\ rssiPkt' = FlushedSlot(rssiPkt)
    /\ evQ' = Post(Tail(evQ), [k |-> "set", ptr |-> Head(evQ).ptr])
    /\ UNCHANGED <<task, stat, content, zep, pktIndex, hung, acked, now, cmds,
                   fires, rxDones>>

(* _set_new_config: radio.config = *config; POLLING selects the first     *)
(* channel and starts the timer, SNIFFER selects it, resets pkt_index and *)
(* calls sniff_rx on buffer 0.  set_next_channel first sets the PHY idle; *)
(* on an empty map it never returns.                                      *)
SetNewConfig ==
    LET cfg == CfgAt(Head(evQ).ptr)
        nc  == SetNextChannel(chan, cfg.chans)
    IN
    /\ Ready("set")
    /\ evQ' = Tail(evQ) /\ config' = cfg
    /\ \/ /\ cfg.mode = "off"
          /\ UNCHANGED <<armed, chan, phy, pktIndex, hung>>
       \/ /\ cfg.mode # "off" /\ nc = -1
          /\ hung' = TRUE /\ phy' = NoRx
          /\ UNCHANGED <<armed, chan, pktIndex>>
       \/ /\ cfg.mode = "poll" /\ nc # -1
          /\ chan' = nc /\ armed' = TRUE /\ phy' = NoRx
          /\ UNCHANGED <<pktIndex, hung>>
       \/ /\ cfg.mode = "sniff" /\ nc # -1
          /\ chan' = nc /\ pktIndex' = 0 /\ phy' = 0
          /\ UNCHANGED <<armed, hung>>
    /\ UNCHANGED <<task, stat, opNum, rssiPkt, content, zep, pool, tx, acked,
                   now, cmds, fires, rxDones>>

(* The soft timer expires and posts poll_time.                            *)
TimerFire ==
    /\ armed /\ fires < MaxFires
    /\ armed' = FALSE /\ fires' = fires + 1
    /\ evQ' = Post(evQ, [k |-> "poll"])
    /\ UNCHANGED <<task, config, stat, chan, opNum, rssiPkt, content, zep,
                   pool, tx, pktIndex, phy, hung, acked, now, cmds, rxDones>>

(* The extended clock advances a second.                                  *)
Advance ==
    /\ now < MaxNow /\ now' = now + 1
    /\ UNCHANGED <<evQ, task, config, stat, armed, chan, opNum, rssiPkt,
                   content, zep, pool, tx, pktIndex, phy, hung, acked, cmds,
                   fires, rxDones>>
(* manage_channel_switch after a measure on channel c with count op: with *)
(* a non-zero num_operations_per_channel, count it and move to the next  *)
(* channel when the count reaches it.                                     *)
ChannelSwitch(cfg, c, op) ==
    IF cfg.nops = 0 THEN [chan |-> c, op |-> op]
    ELSE IF cfg.nops = op + 1
         THEN [chan |-> SetNextChannel(c, cfg.chans), op |-> 0]
         ELSE [chan |-> c, op |-> op + 1]

(* poll_time: nothing unless POLLING; else restart the timer, read the ED *)
(* on the current channel, lazy_alloc the RSSI packet (the measure is     *)
(* dropped on an empty pool), add the record (usecs, channel, ed: 6       *)
(* bytes) and flush when _pkt_should_send says so with RSSI_MEASURE_SIZE; *)
(* then manage_channel_switch.                                            *)
PollTime ==
    LET ts  == [sec |-> now, usec |-> 0]
        sw  == ChannelSwitch(config, chan, opNum)
    IN
    /\ Ready("poll")
    /\ evQ' = Tail(evQ)
    /\ IF config.mode # "poll"
       THEN UNCHANGED <<armed, chan, opNum, rssiPkt, content, zep, pool, tx>>
       ELSE /\ armed' = TRUE /\ chan' = sw.chan /\ opNum' = sw.op
            /\ IF rssiPkt = NULL /\ pool = {}
               THEN UNCHANGED <<rssiPkt, content, zep, pool, tx>>
               ELSE \E m \in IF rssiPkt = NULL THEN pool ELSE {rssiPkt} :
                    LET pkt   == IF rssiPkt = NULL THEN LazyAlloc(ts) ELSE content[m]
                        usecs == UsSince(pkt.tref, ts)
                        c2    == [content EXCEPT ![m] = AddMeasure(pkt,
                                     [ch |-> chan, off |-> usecs, size |-> RssiSize])]
                        out   == Flush(m, c2, tx, pool \ {m}, Prio)
                    IN /\ content' = c2 /\ zep' = [zep EXCEPT ![m] = Null]
                       /\ IF ShouldSend(LengthIn(c2, m), usecs, RssiMeasureSize)
                          THEN /\ rssiPkt' = FlushedSlot(m)
                               /\ tx' = out.tx /\ pool' = out.pool
                          ELSE rssiPkt' = m /\ pool' = pool \ {m} /\ UNCHANGED tx
    /\ hung' = (sw.chan = -1 /\ config.mode = "poll")
    /\ UNCHANGED <<task, config, stat, pktIndex, phy, acked, now, cmds, fires,
                   rxDones>>

(* The PHY ends a reception into buffer b (successfully or not) and        *)
(* sniff_handle_rx posts sniff_handle_rx_appli_queue with the status; the *)
(* ghost filled is b.                                                     *)
PhyRxDone ==
    /\ phy # NoRx /\ rxDones < MaxRxDone
    /\ rxDones' = rxDones + 1 /\ phy' = NoRx
    /\ \E st \in {"ok", "err"} :
          evQ' = Post(evQ, [k |-> "sniff", st |-> st, filled |-> phy])
    /\ UNCHANGED <<task, config, stat, armed, chan, opNum, rssiPkt, content,
                   zep, pool, tx, pktIndex, hung, acked, now, cmds, fires>>

(* phy_rx_now on buffer b.  The PHY driver is not in the repository: on a *)
(* PHY already receiving, it may refuse (sniff_rx ignores the error) or   *)
(* restart on b.                                                          *)
RxNow(ph, b) == IF ph = NoRx THEN {b} ELSE {ph, b}

(* sniff_handle_rx_appli_queue: nothing unless SNIFFER; else take buffer  *)
(* pkt_index, switch pkt_index and sniff_rx on the other buffer; on       *)
(* PHY_SUCCESS allocate a packet (none: drop), write the ZEP frame of the *)
(* taken buffer and send it (a ZEP frame fits, send_frame accepts it).    *)
SniffHandle ==
    LET e == Head(evQ) IN
    /\ Ready("sniff")
    /\ evQ' = Tail(evQ)
    /\ IF config.mode # "sniff"
       THEN UNCHANGED <<pktIndex, phy, content, zep, pool, tx>>
       ELSE /\ pktIndex' = 1 - pktIndex
            /\ phy' \in RxNow(phy, 1 - pktIndex)
            /\ IF e.st = "err" \/ pool = {}
               THEN UNCHANGED <<content, zep, pool, tx>>
               ELSE \E m \in pool :
                    /\ pool' = pool \ {m} /\ tx' = PrioInsert(tx, m, Prio)
                    /\ content' = [content EXCEPT ![m] = Empty]
                    /\ zep' = [zep EXCEPT ![m] = [used |-> pktIndex,
                                                  filled |-> e.filled]]
    /\ UNCHANGED <<task, config, stat, armed, chan, opNum, rssiPkt, hung, acked,
                   now, cmds, fires, rxDones>>

(* The serial TX task sends the head frame and frees it to its pool.      *)
TxSend ==
    /\ tx # <<>>
    /\ tx' = Tail(tx) /\ pool' = pool \cup {Head(tx)}
    /\ UNCHANGED <<evQ, task, config, stat, armed, chan, opNum, rssiPkt,
                   content, zep, pktIndex, phy, hung, acked, now, cmds, fires,
                   rxDones>>

EventStep == \/ RxTake \/ RadioOff \/ BadLength \/ RadioPolling \/ RadioSniffer
             \/ UpdateConfig \/ SetNewConfig \/ PollTime \/ SniffHandle

Next == \/ GatewayCmd \/ TimerFire \/ PhyRxDone \/ Advance
        \/ EventStep \/ TxSend

(* The event task runs whenever it has work; so does the TX task.         *)
Spec == Init /\ [][Next]_vars /\ WF_vars(EventStep) /\ WF_vars(TxSend)
-----------------------------------------------------------------------------
Rec == [ch : Channels, off : 0..(OffMod - 1), size : {RssiSize}]
Ptr == {"default", "poll", "sniff"}

(* Every variable has its type; the event queue stays within capacity.    *)
TypeOK ==
    /\ Len(evQ) <= EvQSize
    /\ evQ \in Seq([k : {"rx"}, cmd : Cmds] \cup [k : {"update", "set"}, ptr : Ptr]
                   \cup [k : {"poll"}] \cup [k : {"sniff"}, st : {"ok", "err"},
                                               filled : Bufs])
    /\ task \in {Idle} \cup [pc : {"rx"}, cmd : Cmds]
    /\ config \in Config /\ stat \in [{"poll", "sniff"} -> Config]
    /\ armed \in BOOLEAN /\ chan \in 0..MaxCh /\ opNum \in 0..2
    /\ rssiPkt \in MeasPackets \cup {NULL}
    /\ content \in [MeasPackets -> [tref : 0..MaxNow, recs : Seq(Rec)]]
    /\ zep \in [MeasPackets -> {Null} \cup [used : Bufs, filled : Bufs]]
    /\ pool \subseteq MeasPackets /\ tx \in Seq(MeasPackets)
    /\ pktIndex \in Bufs /\ phy \in {NoRx} \cup Bufs
    /\ hung \in BOOLEAN /\ acked \subseteq Config

(* schedule_polling_timer's comment: the timer is one-shot and restarted  *)
(* only from poll_time, "so there are only one waiting at the same time": *)
(* a running timer and the poll_time events queued number at most one,    *)
(* across reconfigurations (proper_stop stops the timer, and update_config *)
(* sets the radio off so a stale poll_time does not restart it).          *)
AtMostOnePollPending ==
    (IF armed THEN 1 ELSE 0) + Len(SelectSeq(evQ, LAMBDA e : e.k = "poll")) <= 1

(* set_next_channel visits the channels of the map in cyclic order: a     *)
(* step that moves radio.current_channel to another channel moves it to   *)
(* the next channel of the installed map.                                 *)
ChannelSwitchCyclic ==
    [][chan' \notin {0, chan} => chan' = CyclicSucc(chan, config'.chans)]_vars

(* The double buffer of the sniffer: every ZEP frame handed to the TX     *)
(* FIFO was written from the buffer the PHY filled for that reception,    *)
(* even when a reception completes across a reconfiguration.              *)
SniffedFromFilledBuffer ==
    \A i \in 1..Len(tx) : zep[tx[i]] # Null => zep[tx[i]].used = zep[tx[i]].filled

(* poll_time asks _pkt_should_send with RSSI_MEASURE_SIZE (5) but adds   *)
(* 6-byte records: no RSSI packet grows past IOTLAB_SERIAL_DATA_MAX_SIZE, *)
(* where iotlab_serial_send_frame would refuse it and its measures be     *)
(* lost.                                                                  *)
RssiPacketsFit == \A m \in MeasPackets : LengthIn(content, m) <= DataMax

(* The spec: a refused command costs only a NACK reply.  The radio never  *)
(* runs a config that no handler acknowledged: radio.config is the        *)
(* default or a config some handler posted and returned 0 for.            *)
InstalledConfigWasAcked == config \in {DefaultConfig} \cup acked
=============================================================================
