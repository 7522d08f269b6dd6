------------------------------ MODULE RadioTest ------------------------------
(***************************************************************************)
(* The radio characterisation firmware appli/iotlab/radio_test/main.c.    *)
(*                                                                         *)
(* Four contexts share the static conf, recv_logger and send_table:       *)
(*  - the UART interrupt (char_handler_irq) queues each command line on    *)
(*    cmd_queue (depth 2, xQueueSendFromISR's result ignored);             *)
(*  - parse_command_task writes conf from the command's arguments and      *)
(*    posts configure_radio or send_packets to EVENT_QUEUE_APPLI; clear    *)
(*    and lock act on recv_logger directly;                                *)
(*  - the event task runs one handler at a time.  send_packets is a loop   *)
(*    that blocks twice per packet, on radio_tx_queue (1 s timeout) and in *)
(*    soft_timer_delay_ms, and re-reads conf at every iteration;           *)
(*  - the PHY's callbacks: radio_tx_done sends the TX status on            *)
(*    radio_tx_queue (depth 8, not waiting when full), and                 *)
(*    packet_received_net_handler posts packet_received, which reads the   *)
(*    single static rx_pkt.                                                *)
(* A command is one step of parse_command_task and a handler step is one   *)
(* step of the event task between two blocking points.                     *)
(*                                                                         *)
(* Data abstraction: a command line is a record of its parsed arguments;  *)
(* a received frame is its PHY status and the first check of               *)
(* recv_logger_add it fails ("short", "magic", "crc32", "size") or         *)
(* "good", with its xmit_id and length; the CRC32 itself, timestamps, RSSI,*)
(* LQI, energy and the printed output are left out, and so are the error   *)
(* counters (nb_error, nb_magic_error, nb_crc32_error, nb_locked_error,    *)
(* nb_change), which only the "show" output reads.                         *)
(***************************************************************************)
EXTENDS Integers, Sequences

CONSTANTS
    MaxRecv,     \* MAX_RECV_PACKET
    CmdQSize,    \* depth of cmd_queue
    TxQSize,     \* depth of radio_tx_queue
    EvQSize,     \* capacity of EVENT_QUEUE_APPLI
    Channels,    \* arguments of "channel"
    SendArgs,    \* parsed arguments of "send": xmit, power, size, num
    Xmits,       \* xmit_id of the frames other nodes send
    Sizes,       \* lengths of received frames
    MaxCmds,     \* bound: command lines typed in a behaviour
    MaxFrames    \* bound: frames received in a behaviour

XMIT_ID_NONE == 0
\* parse_power's result for an unknown power string
POWER_INVALID == 255
\* enum mode_t
MODE_TX == "tx"
MODE_RX == "rx"

\* The arguments a line that is not "send" leaves unused.
NoArgs == [xmit |-> XMIT_ID_NONE, power |-> 0, size |-> 0, num |-> 0]

\* A command line: its verb and what sscanf parses from it.
Commands ==
    {[op |-> "channel", n |-> c, args |-> NoArgs] : c \in Channels}
    \cup {[op |-> "send", n |-> 0, args |-> a] : a \in SendArgs}
    \cup {[op |-> o, n |-> 0, args |-> NoArgs] : o \in {"clear", "lock", "other"}}

\* PHY statuses of packet_received: PHY_SUCCESS, PHY_RX_CRC_ERROR,
\* PHY_RX_LENGTH_ERROR and any other error.
Statuses == {"ok", "crc", "len", "err"}
Frames ==
    [status : {"ok"}, fmt : {"short", "magic", "crc32", "size", "good"},
     xmit : Xmits, size : Sizes]
    \cup [status : Statuses \ {"ok"}, fmt : {"short"},
          xmit : {XMIT_ID_NONE}, size : Sizes]

\* recv_info_t: seq_num is the packet id or SEQ_NUM_OFFSET_ERROR + type;
\* xmit records which transmission a logged packet came from.
NoEntry == [kind |-> "none", xmit |-> XMIT_ID_NONE]
Entry == [kind : {"pkt", "M", "3", "C", "L"}, xmit : Xmits \cup {XMIT_ID_NONE}]

VARIABLES
    cmdQ,       \* cmd_queue
    conf,       \* the static conf
    evQ,        \* EVENT_QUEUE_APPLI: configure_radio, send_packets, packet_received
    ev,         \* the event task inside send_packets: pc, i, failure_count
    phy,        \* the PHY: idle, receiving into rx_pkt, or transmitting tx_pkt
    rxPkt,      \* rx_pkt, with the number of the reception that filled it
    txQ,        \* radio_tx_queue, each status with the packet it is about
    logger,     \* recv_logger: xmit_id, packet_size, nb_packet, locked
    recv,       \* recv_logger.recv
    sendTable,  \* send_table[0 .. MaxRecv - 1], and the word after it
    txNum,      \* the packet number of the frame in tx_pkt
    ack,        \* the last "send ACK failure_count:num_pkts" printed
    nCmds,      \* lines typed so far
    nFrames,    \* receptions so far
    oob,        \* send_one_packet wrote past send_table
    staleTx,    \* a packet took the TX status of another packet
    staleRx     \* packet_received read another reception than its own

vars == <<cmdQ, conf, evQ, ev, phy, rxPkt, txQ, logger, recv, sendTable,
          txNum, ack, nCmds, nFrames, oob, staleTx, staleRx>>

NoAck == [fail |-> 0, num |-> 0, none |-> TRUE]

\* The static conf, zeroed at start: radio_mode 0 is MODE_TX.
ConfZero == [channel |-> 0, xmit_id |-> XMIT_ID_NONE, pkt_size |-> 0,
             num_pkts |-> 0, tx_power |-> 0, radio_mode |-> MODE_TX]

\* recv_logger.recv[MAX_RECV_PACKET], zeroed at start.
RecvZero == [j \in 0 .. MaxRecv - 1 |-> NoEntry]

\* send_table[MAX_RECV_PACKET] (success of each send_info_t), zeroed at
\* start, and the word after it.
SendTableZero == [j \in 0 .. MaxRecv |-> FALSE]

\* recv_logger_init
LoggerInit == [xmit_id |-> XMIT_ID_NONE, packet_size |-> 0,
               nb_packet |-> 0, locked |-> FALSE]

\* event_post: the event is dropped when the queue is full.
Post(q, e) == IF Len(q) < EvQSize THEN Append(q, e) ELSE q

\* radio_listen: re-arm the reception in MODE_RX, else leave the PHY as is.
Listen(mode, p) == IF mode = MODE_RX THEN "rx" ELSE p

\* recv_logger_add_error: the entry of an error of type k, unless the
\* logger is locked or full.  Returns the new logger and recv.
AddError(lg, rc, k) ==
    IF lg.locked \/ lg.nb_packet >= MaxRecv
    THEN [lg |-> lg, rc |-> rc]
    ELSE [lg |-> [lg EXCEPT !.nb_packet = @ + 1],
          rc |-> [rc EXCEPT ![lg.nb_packet] = [kind |-> k, xmit |-> XMIT_ID_NONE]]]

\* The logger after the xmit_id check of recv_logger_add: a frame of
\* another transmission restarts the table.
Adopt(lg, f) ==
    IF lg.xmit_id = XMIT_ID_NONE \/ lg.xmit_id # f.xmit
    THEN [lg EXCEPT !.xmit_id = f.xmit, !.packet_size = f.size,
                    !.nb_packet = IF lg.xmit_id = XMIT_ID_NONE THEN @ ELSE 0]
    ELSE lg

\* The entry of a packet of transmission f.xmit, unless the table is full.
AddPacket(lg, rc, f) ==
    IF lg.nb_packet >= MaxRecv
    THEN [lg |-> lg, rc |-> rc]
    ELSE [lg |-> [lg EXCEPT !.nb_packet = @ + 1],
          rc |-> [rc EXCEPT ![lg.nb_packet] = [kind |-> "pkt", xmit |-> f.xmit]]]

\* recv_logger_add on the frame f.
RecvLoggerAdd(lg, rc, f) ==
    CASE lg.locked                   -> [lg |-> lg, rc |-> rc]
      [] f.fmt \in {"short", "size"} -> [lg |-> lg, rc |-> rc]
      [] f.fmt = "magic"             -> AddError(lg, rc, "M")
      [] f.fmt = "crc32"             -> AddError(lg, rc, "3")
      [] OTHER                       -> AddPacket(Adopt(lg, f), rc, f)

\* recv_logger_add zeroes the CRC field of rx_pkt in place once the magic
\* number matched, so a second read of the same buffer fails the CRC check.
CrcZeroed(lg, f) ==
    IF ~lg.locked /\ f.fmt \in {"size", "good"} THEN [f EXCEPT !.fmt = "crc32"]
    ELSE f

-----------------------------------------------------------------------------
(* The UART interrupt and the command task.                                *)

\* char_handler_irq, at the '\n' of a line: the line is dropped when
\* cmd_queue is full.
CharHandlerIrq(c) ==
    /\ nCmds < MaxCmds
    /\ cmdQ' = IF Len(cmdQ) < CmdQSize THEN Append(cmdQ, c) ELSE cmdQ
    /\ nCmds' = nCmds + 1
    /\ UNCHANGED <<conf, evQ, ev, phy, rxPkt, txQ, logger, recv, sendTable,
                   txNum, ack, nFrames, oob, staleTx, staleRx>>

\* "channel <n>": sscanf's %u stores an unsigned int through &conf.channel,
\* a uint8_t followed by two padding bytes and the low byte of xmit_id.
\* Whether the scanf of the platform writes one byte or four is not in the
\* repository: clobber chooses.
ConfigChannel(c, clobber) ==
    LET n == c.n
        xmit == IF clobber THEN conf.xmit_id - (conf.xmit_id % 256)
                                + ((n \div 16777216) % 256)
                ELSE conf.xmit_id
        channel == n % 256
        valid == 11 <= channel /\ channel <= 26
    IN /\ conf' = [conf EXCEPT !.channel = channel, !.xmit_id = xmit]
       /\ evQ' = Post(evQ, [h |-> "configure_radio", ret |-> IF valid THEN 0 ELSE 1,
                                  status |-> "ok", seq |-> 0])
       /\ UNCHANGED <<logger, recv>>

\* "send <xmit_id> <tx_power> <pkt size> <num_packets> <delay_ms>"
ConfigSend(c) ==
    LET a == c.args
        valid == a.power # POWER_INVALID /\ a.xmit # XMIT_ID_NONE
    IN /\ conf' = [conf EXCEPT !.xmit_id = a.xmit, !.tx_power = a.power,
                               !.pkt_size = a.size, !.num_pkts = a.num]
       /\ evQ' = Post(evQ, [h |-> "send_packets", ret |-> IF valid THEN 0 ELSE 1,
                                  status |-> "ok", seq |-> 0])
       /\ UNCHANGED <<logger, recv>>

\* parse_command_task, one command line.  "clear" and "lock" write
\* recv_logger from this task; show, uid, get_tx_power_list and invalid
\* lines only print.
ParseCommandTask ==
    /\ cmdQ # << >>
    /\ LET c == Head(cmdQ) IN
       \/ c.op = "channel" /\ \E clobber \in BOOLEAN : ConfigChannel(c, clobber)
       \/ c.op = "send" /\ ConfigSend(c)
       \/ c.op = "clear" /\ logger' = LoggerInit /\ UNCHANGED <<conf, evQ, recv>>
       \/ c.op = "lock" /\ logger' = [logger EXCEPT !.locked = TRUE]
          /\ UNCHANGED <<conf, evQ, recv>>
       \/ c.op = "other" /\ UNCHANGED <<conf, evQ, logger, recv>>
    /\ cmdQ' = Tail(cmdQ)
    /\ UNCHANGED <<ev, phy, rxPkt, txQ, sendTable, txNum, ack, nCmds, nFrames,
                   oob, staleTx, staleRx>>

-----------------------------------------------------------------------------
(* The event task.                                                         *)

EvUnchanged == UNCHANGED <<cmdQ, txNum, nCmds, nFrames, oob, staleTx, staleRx>>

\* configure_radio: on ret = 0, MODE_RX, phy_idle, phy_set_channel and
\* radio_listen.
ConfigureRadio(e) ==
    /\ IF e.ret = 0
       THEN /\ conf' = [conf EXCEPT !.radio_mode = MODE_RX]
            /\ phy' = "rx"
       ELSE UNCHANGED <<conf, phy>>
    /\ UNCHANGED <<ev, rxPkt, logger, recv, sendTable, ack>>

\* send_packets, up to its loop: recv_logger_init even for a NACK, then
\* MODE_TX, phy_idle and phy_set_power.
SendPackets(e) ==
    /\ logger' = LoggerInit
    /\ IF e.ret = 0
       THEN /\ conf' = [conf EXCEPT !.radio_mode = MODE_TX]
            /\ phy' = "idle"
            /\ ev' = [pc |-> "loop", i |-> 0, fail |-> 0]
       ELSE UNCHANGED <<conf, phy, ev>>
    /\ UNCHANGED <<rxPkt, recv, sendTable, ack>>

\* packet_received: log the frame in rx_pkt by its status, then
\* radio_listen.  The event carries the status only; rx_pkt holds whatever
\* the PHY last received.
PacketReceived(e) ==
    LET r == CASE e.status = "ok"  -> RecvLoggerAdd(logger, recv, rxPkt)
               [] e.status = "crc" -> AddError(logger, recv, "C")
               [] e.status = "len" -> AddError(logger, recv, "L")
               [] OTHER         -> [lg |-> logger, rc |-> recv]
    IN /\ logger' = r.lg
       /\ recv' = r.rc
       /\ rxPkt' = IF e.status = "ok" THEN CrcZeroed(logger, rxPkt) ELSE rxPkt
       /\ phy' = Listen(conf.radio_mode, phy)
       /\ staleRx' = (staleRx \/ rxPkt.seq # e.seq)
       /\ UNCHANGED <<conf, ev, sendTable, ack, cmdQ, txNum, nCmds, nFrames,
                      oob, staleTx>>

\* The event task takes the next handler when it is not inside send_packets.
EventTask ==
    /\ ev.pc = "idle"
    /\ evQ # << >>
    /\ evQ' = Tail(evQ)
    /\ LET e == Head(evQ) IN
       \/ e.h = "configure_radio" /\ ConfigureRadio(e) /\ EvUnchanged
       \/ e.h = "send_packets" /\ SendPackets(e) /\ EvUnchanged
       \/ e.h = "packet_received" /\ PacketReceived(e)
    /\ UNCHANGED txQ

\* send_one_packet with num > MAX_RECV_PACKET returns 0 at once: counted
\* as a success.
SendOnePacketSkipped ==
    /\ ev.pc = "loop"
    /\ ev.i < conf.num_pkts
    /\ ev.i > MaxRecv
    /\ ev' = [ev EXCEPT !.pc = "delay"]
    /\ UNCHANGED <<cmdQ, conf, evQ, phy, rxPkt, txQ, logger, recv, sendTable,
                   txNum, ack, nCmds, nFrames, oob, staleTx, staleRx>>

\* send_one_packet: build tx_pkt from the current conf, write
\* send_table[num].energy, phy_idle and phy_tx_now, then block on
\* radio_tx_queue.  The guard num > MAX_RECV_PACKET lets num =
\* MAX_RECV_PACKET through.
SendOnePacket ==
    /\ ev.pc = "loop"
    /\ ev.i < conf.num_pkts
    /\ ev.i <= MaxRecv
    /\ oob' = (oob \/ ev.i >= MaxRecv)
    /\ phy' = "tx"
    /\ txNum' = ev.i
    /\ ev' = [ev EXCEPT !.pc = "tx"]
    /\ UNCHANGED <<cmdQ, conf, evQ, rxPkt, txQ, logger, recv, sendTable,
                   ack, nCmds, nFrames, staleTx, staleRx>>

\* The end of send_one_packet, woken by a status in radio_tx_queue (ret =
\* success) or by the timeout (ret = 0); soft_timer_delay_ms follows.
SendResult(ok, num) ==
    /\ sendTable' = [sendTable EXCEPT ![ev.i] = ok]
    /\ ev' = [ev EXCEPT !.pc = "delay", !.fail = IF ok THEN @ ELSE @ + 1]
    /\ staleTx' = (staleTx \/ num # ev.i)

TxQueueReceive ==
    /\ ev.pc = "tx"
    /\ txQ # << >>
    /\ SendResult(Head(txQ).ok, Head(txQ).num)
    /\ txQ' = Tail(txQ)
    /\ UNCHANGED <<cmdQ, conf, evQ, phy, rxPkt, logger, recv, txNum, ack,
                   nCmds, nFrames, oob, staleRx>>

TxQueueTimeout ==
    /\ ev.pc = "tx"
    /\ txQ = << >>
    /\ SendResult(FALSE, ev.i)
    /\ UNCHANGED <<cmdQ, conf, evQ, phy, rxPkt, txQ, logger, recv, txNum, ack,
                   nCmds, nFrames, oob, staleRx>>

\* soft_timer_delay_ms(conf.delay) returns; the loop goes on with i + 1.
Delay ==
    /\ ev.pc = "delay"
    /\ ev' = [ev EXCEPT !.pc = "loop", !.i = @ + 1]
    /\ UNCHANGED <<cmdQ, conf, evQ, phy, rxPkt, txQ, logger, recv, sendTable,
                   txNum, ack, nCmds, nFrames, oob, staleTx, staleRx>>

\* The loop test fails against the current conf.num_pkts: MODE_RX,
\* radio_listen, and the ACK with failure_count and conf.num_pkts.
SendPacketsDone ==
    /\ ev.pc = "loop"
    /\ ev.i >= conf.num_pkts
    /\ conf' = [conf EXCEPT !.radio_mode = MODE_RX]
    /\ phy' = "rx"
    /\ ack' = [fail |-> ev.fail, num |-> conf.num_pkts, none |-> FALSE]
    /\ ev' = [pc |-> "idle", i |-> 0, fail |-> 0]
    /\ UNCHANGED <<cmdQ, evQ, rxPkt, txQ, logger, recv, sendTable, txNum,
                   nCmds, nFrames, oob, staleTx, staleRx>>

-----------------------------------------------------------------------------
(* The PHY.                                                                *)

\* The transmission ends: radio_tx_done does xQueueSend(radio_tx_queue,
\* &success, 0), which fails when the queue is full.  A transmission the
\* task has stopped waiting for may still end.
RadioTxDone ==
    /\ phy = "tx"
    /\ phy' = "idle"
    /\ \E ok \in BOOLEAN :
         txQ' = IF Len(txQ) < TxQSize THEN Append(txQ, [ok |-> ok, num |-> txNum])
                ELSE txQ
    /\ UNCHANGED <<cmdQ, conf, evQ, ev, rxPkt, logger, recv, sendTable, txNum,
                   ack, nCmds, nFrames, oob, staleTx, staleRx>>

\* A reception ends into rx_pkt and packet_received_net_handler posts
\* packet_received with its status; the PHY stays idle until radio_listen.
PacketReceivedNetHandler(f) ==
    /\ phy = "rx"
    /\ nFrames < MaxFrames
    /\ phy' = "idle"
    /\ nFrames' = nFrames + 1
    /\ rxPkt' = [status |-> f.status, fmt |-> f.fmt, xmit |-> f.xmit,
                 size |-> f.size, seq |-> nFrames + 1]
    /\ evQ' = Post(evQ, [h |-> "packet_received", ret |-> 0, status |-> f.status,
                         seq |-> nFrames + 1])
    /\ UNCHANGED <<cmdQ, conf, ev, txQ, logger, recv, sendTable, txNum, ack,
                   nCmds, oob, staleTx, staleRx>>

-----------------------------------------------------------------------------

\* main: static storage is zero (conf.radio_mode = MODE_TX), and
\* recv_logger_init.
Init ==
    /\ cmdQ = << >>
    /\ conf = ConfZero
    /\ evQ = << >>
    /\ ev = [pc |-> "idle", i |-> 0, fail |-> 0]
    /\ phy = "idle"
    /\ rxPkt = [status |-> "ok", fmt |-> "short", xmit |-> XMIT_ID_NONE,
                size |-> 0, seq |-> 0]
    /\ txQ = << >>
    /\ logger = LoggerInit
    /\ recv = RecvZero
    /\ sendTable = SendTableZero
    /\ txNum = 0
    /\ ack = NoAck
    /\ nCmds = 0
    /\ nFrames = 0
    /\ oob = FALSE
    /\ staleTx = FALSE
    /\ staleRx = FALSE

Next ==
    \/ \E c \in Commands : CharHandlerIrq(c)
    \/ ParseCommandTask
    \/ EventTask
    \/ SendOnePacketSkipped
    \/ SendOnePacket
    \/ TxQueueReceive
    \/ TxQueueTimeout
    \/ Delay
    \/ SendPacketsDone
    \/ RadioTxDone
    \/ \E f \in Frames : PacketReceivedNetHandler(f)

Spec == Init /\ [][Next]_vars

-----------------------------------------------------------------------------
(* Properties.                                                             *)

\* Types of the model's variables.
TypeOK ==
    /\ cmdQ \in Seq(Commands)
    /\ evQ \in Seq([h : {"configure_radio", "send_packets", "packet_received"},
                    ret : {0, 1}, status : Statuses, seq : 0 .. MaxFrames])
    /\ ev \in [pc : {"idle", "loop", "tx", "delay"}, i : Nat, fail : Nat]
    /\ phy \in {"idle", "rx", "tx"}
    /\ conf.radio_mode \in {MODE_TX, MODE_RX}
    /\ txQ \in Seq([ok : BOOLEAN, num : Nat])
    /\ logger.nb_packet \in 0 .. MaxRecv
    /\ recv \in [0 .. MaxRecv - 1 -> Entry \cup {NoEntry}]
    /\ sendTable \in [0 .. MaxRecv -> BOOLEAN]

\* send_one_packet writes send_table[num] only inside the table: its guard
\* "if (num > MAX_RECV_PACKET) return 0;" is there to keep "send" with a
\* large num_packets from writing past the MAX_RECV_PACKET entries.
SendTableInBounds == ~oob

\* The ACK of send_packets reports no more failures than packets: the loop
\* and the ACK read conf.num_pkts, which the command task may rewrite while
\* the event task is blocked inside the loop.
AckConsistent == ack.none \/ ack.fail <= ack.num

\* Each send_table entry holds the status of its own packet: a status that
\* radio_tx_done queues after send_one_packet's 1 s timeout stays in
\* radio_tx_queue and is taken by the next packet.
TxResultIsOwn == ~staleTx

\* packet_received logs the reception that posted it: rx_pkt is one static
\* buffer, re-armed by configure_radio or send_packets while an earlier
\* packet_received is still queued.
RxEventReadsOwnFrame == ~staleRx
=============================================================================
