------------------------------ MODULE SerialLink ------------------------------
(***************************************************************************)
(* Frame-level model of iotlab_serial.c on top of iotlab_packet.c.        *)
(* Contexts: the gateway and the UART RX ISR (char_rx, one action per     *)
(* completed frame), the UART TX-done ISR, the low-priority software IRQ  *)
(* (check_uart), the idle hook, the application event task                *)
(* (packet_received and a telemetry producer) and the TX task             *)
(* (iotlab_serial_tx_task).  The TX task's free of a packet is split at   *)
(* the pool mutex so that check_uart can interleave with it.              *)
(***************************************************************************)
EXTENDS Integers, Sequences, FiniteSets, SequencesExt, PacketLists

CONSTANTS RxPackets,    \* ser.rx.packets (IOTLAB_SERIAL_NUM_RX_PKTS)
          MeasPackets,  \* a telemetry pool (e.g. meas_pkts of cn_event.c)
          MaxCmds,      \* commands the gateway sends (ids 1..MaxCmds)
          CmdTypes,     \* type bytes the gateway sends
          Lens,         \* LEN bytes the gateway sends: 0 (no type) or 1+
          Table,        \* registered handlers, newest first: [type, id]
          MaxMeas,      \* telemetry samples taken
          EvQSize,      \* capacity of EVENT_QUEUE_APPLI
          NoType,       \* raw_data[2] of a buffer never written
          NULL

Packets == RxPackets \cup MeasPackets
ReplyPrio == 128   \* IOTLAB_SERIAL_ANSWER_PRIORITY
MeasPrio == 0      \* MEASURES_PRIORITY

(* packet->storage, set by iotlab_packet_init_queue                       *)
Storage(p) == IF p \in RxPackets THEN "rx" ELSE "meas"

VARIABLES
    free, cnt,        \* per pool: free list and count
    fifo, newPacket,  \* ser.tx.fifo and its new_packet semaphore
    prio,             \* packet->priority
    rxPkt, readyPkt,  \* ser.rx.rx_pkt, ser.rx.ready_pkt
    rawType, frameId, \* raw_data[2] of a buffer; id of the frame it holds
    lowIrq,           \* pending bit of the low-priority IRQ line
    txIrq, txEnd,     \* ser.tx.irq_triggered, ser.tx.tx_end_event
    uart,             \* packet whose async transfer is in progress, or NULL
    txPc, txPkt,      \* TX task
    evQ, evPc, evPkt, \* event task: queue, position, local rx_pkt
    measPkt,          \* the telemetry packet being filled, or NULL
    sentLog, sampled, \* frames the gateway sent [type, len]; samples taken
    started,          \* history: ids of replies in UART start order
    answered,         \* history: ids whose reply transfer completed
    hung              \* the low-priority IRQ blocked on a task's mutex

vars == <<free, cnt, fifo, newPacket, prio, rxPkt, readyPkt, rawType,
          frameId, lowIrq, txIrq, txEnd, uart, txPc, txPkt, evQ, evPc,
          evPkt, measPkt, sentLog, sampled, started, answered, hung>>

(* The TX task holds pool q's mutex between LIST_PUT and the give.        *)
TxHoldsMutex(q) == txPc \in {"free_inc", "free_give"} /\ Storage(txPkt) = q

(* The TX task has the highest task priority (configMAX_PRIORITIES - 1): *)
(* the event task (APPLI_PRIO) runs only while it is blocked.             *)
TxBlocked == \/ txPc = "wait" /\ newPacket = 0
             \/ txPc = "wait_end" /\ txEnd = 0

(* Plausible bug: the event is queued whatever the queue's fill level.   *)
PostNoBound(q, e) == Append(q, e)

(* event_post_from_isr / event_post: dropped when the queue is full.       *)
Post(q, e) == IF Len(q) < EvQSize THEN Append(q, e) ELSE q

-----------------------------------------------------------------------------
(* iotlab_serial_start and the init_queue calls: RX pool of 2, telemetry  *)
(* pool, empty FIFO, new_packet created as a mutex (available), and the   *)
(* first allocate_rx_packet.                                              *)
Init ==
    LET rx0 == SetToSeq(RxPackets) IN
    /\ free = [q \in {"rx", "meas"} |->
                  IF q = "rx" THEN Tail(rx0) ELSE SetToSeq(MeasPackets)]
    /\ cnt = [q \in {"rx", "meas"} |->
                  IF q = "rx" THEN Len(rx0) - 1 ELSE Cardinality(MeasPackets)]
    /\ fifo = <<>> /\ newPacket = 1
    /\ prio = [p \in Packets |-> 0]
    /\ rxPkt = Head(rx0) /\ readyPkt = NULL
    /\ rawType = [p \in Packets |-> NoType] /\ frameId = [p \in Packets |-> 0]
    /\ lowIrq = FALSE /\ txIrq = FALSE /\ txEnd = 0 /\ uart = NULL
    /\ txPc = "get" /\ txPkt = NULL
    /\ evQ = <<>> /\ evPc = "idle" /\ evPkt = NULL /\ measPkt = NULL
    /\ sentLog = <<>> /\ sampled = 0
    /\ started = <<>> /\ answered = {}
    /\ hung = FALSE

(* The gateway sends frame [id, type, len].  char_rx drops it while       *)
(* rx_pkt is NULL; otherwise the last byte completes it: the type byte is *)
(* stored only when LEN >= 1, then ready_pkt = rx_pkt, rx_pkt = NULL and   *)
(* the low-priority IRQ is triggered.                                     *)
RxFrame(type, len) ==
    /\ Len(sentLog) < MaxCmds
    /\ sentLog' = Append(sentLog, [type |-> type, len |-> len])
    /\ IF rxPkt = NULL
       THEN UNCHANGED <<rxPkt, readyPkt, rawType, frameId, lowIrq>>
       ELSE /\ rawType' = IF len = 0 THEN rawType
                          ELSE [rawType EXCEPT ![rxPkt] = type]
            /\ frameId' = [frameId EXCEPT ![rxPkt] = Len(sentLog')]
            /\ readyPkt' = rxPkt
            /\ rxPkt' = NULL
            /\ lowIrq' = TRUE
    /\ UNCHANGED <<free, cnt, fifo, newPacket, prio, txIrq, txEnd, uart,
                   txPc, txPkt, evQ, evPc, evPkt, measPkt, sampled, started,
                   answered, hung>>

(* Plausible bug: check_uart gives tx_end_event without irq_triggered.    *)
TxEndGiveAlways(irq) == TRUE

(* check_uart gives tx_end_event only when tx_done_isr has run.           *)
TxEndGive(irq) == irq

(* check_uart: allocate_rx_packet (iotlab_packet_alloc returns NULL when  *)
(* count is 0; otherwise it takes the pool mutex from interrupt context,  *)
(* which cannot wait for a task that holds it), post packet_received if a *)
(* frame is ready, and give tx_end_event if a transfer ended.             *)
CheckUart ==
    /\ ~hung
    /\ lowIrq
    /\ lowIrq' = FALSE
    /\ IF rxPkt = NULL /\ cnt["rx"] # 0 /\ TxHoldsMutex("rx")
       THEN /\ hung' = TRUE
            /\ UNCHANGED <<free, cnt, rxPkt, evQ, txIrq, txEnd>>
       ELSE /\ IF rxPkt = NULL /\ cnt["rx"] # 0
               THEN /\ rxPkt' = Head(free["rx"])
                    /\ free' = [free EXCEPT !["rx"] = ListGet(@)]
                    /\ cnt' = [cnt EXCEPT !["rx"] = @ - 1]
               ELSE UNCHANGED <<rxPkt, free, cnt>>
            /\ evQ' = IF readyPkt # NULL THEN Post(evQ, "PR") ELSE evQ
            /\ txIrq' = FALSE
            /\ txEnd' = IF TxEndGive(txIrq) THEN 1 ELSE txEnd
            /\ UNCHANGED hung
    /\ UNCHANGED <<fifo, newPacket, prio, readyPkt, rawType, frameId, uart,
                   txPc, txPkt, evPc, evPkt, measPkt, sentLog, sampled, started,
                   answered>>

(* idle_hook_uart: with every task blocked, re-trigger the IRQ while a    *)
(* frame waits in ready_pkt.                                              *)
IdleHook ==
    /\ ~hung
    /\ evQ = <<>> /\ evPc = "idle" /\ TxBlocked
    /\ readyPkt # NULL /\ ~lowIrq
    /\ lowIrq' = TRUE
    /\ UNCHANGED <<free, cnt, fifo, newPacket, prio, rxPkt, readyPkt,
                   rawType, frameId, txIrq, txEnd, uart, txPc, txPkt, evQ,
                   evPc, evPkt, measPkt, sentLog, sampled, started, answered,
                   hung>>

(* A sample ISR (e.g. pps_handler_irq) posts a telemetry event; the post  *)
(* fails silently when the event queue is full.                           *)
Sample ==
    /\ sampled < MaxMeas
    /\ sampled' = sampled + 1
    /\ evQ' = Post(evQ, "MEAS")
    /\ UNCHANGED <<free, cnt, fifo, newPacket, prio, rxPkt, readyPkt,
                   rawType, frameId, lowIrq, txIrq, txEnd, uart, txPc,
                   txPkt, evPc, evPkt, measPkt, sentLog, started, answered,
                   hung>>

(* Plausible bug: packet_received forgets ser.rx.ready_pkt = NULL.        *)
ClearedReadyKept(r) == r

(* packet_received clears ser.rx.ready_pkt after reading it.              *)
ClearedReady(r) == NULL

(* packet_received, from the event queue: return if ready_pkt is NULL,    *)
(* else read it into the local rx_pkt.                                    *)
PrStart ==
    /\ ~hung
    /\ evPc = "idle" /\ evQ # <<>> /\ Head(evQ) = "PR" /\ TxBlocked
    /\ evQ' = Tail(evQ)
    /\ IF readyPkt = NULL
       THEN UNCHANGED <<evPc, evPkt>>
       ELSE evPkt' = readyPkt /\ evPc' = "pr_clear"
    /\ UNCHANGED <<free, cnt, fifo, newPacket, prio, rxPkt, readyPkt,
                   rawType, frameId, lowIrq, txIrq, txEnd, uart, txPc,
                   txPkt, measPkt, sentLog, sampled, started,
                   answered, hung>>

(* ser.rx.ready_pkt = NULL: a separate store, so char_rx may have put a   *)
(* new frame there since the read.                                        *)
PrClear ==
    /\ ~hung
    /\ evPc = "pr_clear" /\ TxBlocked
    /\ readyPkt' = ClearedReady(readyPkt)
    /\ evPc' = "pr_dispatch"
    /\ UNCHANGED <<free, cnt, fifo, newPacket, prio, rxPkt, rawType, frameId,
                   lowIrq, txIrq, txEnd, uart, txPc, txPkt, evQ, evPkt,
                   measPkt, sentLog, sampled, started, answered,
                   hung>>

(* cmd_type = raw_data[2]; iotlab_serial_call_handler runs the newest     *)
(* handler of that type (or none: result 1); iotlab_serial_send_result    *)
(* turns the RX packet into the ACK/NACK with priority 0x80 and           *)
(* iotlab_serial_send_frame appends it to the TX FIFO.                    *)
PrDispatch ==
    LET type == rawType[evPkt] IN
    /\ ~hung
    /\ evPc = "pr_dispatch" /\ TxBlocked
    /\ prio' = [prio EXCEPT ![evPkt] = ReplyPrio]
    /\ fifo' = PrioInsert(fifo, evPkt, prio')
    /\ newPacket' = IF GiveOnFirst(fifo) THEN 1 ELSE newPacket
    /\ evPkt' = NULL
    /\ evPc' = "idle"
    /\ UNCHANGED <<free, cnt, rxPkt, readyPkt, rawType, frameId, lowIrq,
                   txIrq, txEnd, uart, txPc, txPkt, evQ, measPkt, sentLog,
                   sampled, started, answered, hung>>

(* A telemetry handler (event_handler of cn_event.c): cn_meas_pkt_lazy_   *)
(* alloc keeps the current packet or allocates one (dropping the measure  *)
(* when the pool is empty); cn_meas_pkt_add_measure decides whether to    *)
(* send; cn_meas_pkt_flush sends it with priority 0 (MEASURES_PRIORITY,   *)
(* never changed for this pool).                                          *)
MeasEvent(send) ==
    LET pkt == IF measPkt # NULL THEN measPkt
               ELSE IF cnt["meas"] = 0 THEN NULL ELSE Head(free["meas"])
    IN
    /\ ~hung
    /\ evPc = "idle" /\ evQ # <<>> /\ Head(evQ) = "MEAS" /\ TxBlocked
    /\ evQ' = Tail(evQ)
    /\ IF pkt = NULL
       THEN UNCHANGED <<free, cnt, measPkt, fifo, newPacket>>
       ELSE /\ IF measPkt = NULL
               THEN /\ free' = [free EXCEPT !["meas"] = ListGet(@)]
                    /\ cnt' = [cnt EXCEPT !["meas"] = @ - 1]
               ELSE UNCHANGED <<free, cnt>>
            /\ IF send
               THEN /\ fifo' = PrioInsert(fifo, pkt, prio)
                    /\ newPacket' = IF GiveOnFirst(fifo) THEN 1 ELSE newPacket
                    /\ measPkt' = NULL
               ELSE /\ measPkt' = pkt
                    /\ UNCHANGED <<fifo, newPacket>>
    /\ UNCHANGED <<prio, rxPkt, readyPkt, rawType, frameId, lowIrq, txIrq,
                   txEnd, uart, txPc, txPkt, evPc, evPkt, sentLog, sampled,
                   started, answered, hung>>

(* iotlab_packet_fifo_get: take the head, or block on new_packet.         *)
TxGet ==
    /\ ~hung
    /\ txPc = "get"
    /\ IF fifo # <<>>
       THEN /\ txPkt' = Head(fifo)
            /\ fifo' = Tail(fifo)
            /\ txPc' = "send"
       ELSE /\ txPc' = "wait"
            /\ UNCHANGED <<txPkt, fifo>>
    /\ UNCHANGED <<free, cnt, newPacket, prio, rxPkt, readyPkt, rawType,
                   frameId, lowIrq, txIrq, txEnd, uart, evQ, evPc, evPkt,
                   measPkt, sentLog, sampled, started, answered,
                   hung>>

TxWake ==
    /\ ~hung
    /\ txPc = "wait" /\ newPacket = 1
    /\ newPacket' = 0
    /\ txPc' = "get"
    /\ UNCHANGED <<free, cnt, fifo, prio, rxPkt, readyPkt, rawType, frameId,
                   lowIrq, txIrq, txEnd, uart, txPkt, evQ, evPc, evPkt,
                   measPkt, sentLog, sampled, started, answered,
                   hung>>

(* send_packet: uart_transfer_async of raw_data, then block on            *)
(* tx_end_event.                                                          *)
TxSend ==
    /\ ~hung
    /\ txPc = "send"
    /\ uart' = txPkt
    /\ started' = IF txPkt \in RxPackets THEN Append(started, frameId[txPkt])
                  ELSE started
    /\ txPc' = "wait_end"
    /\ UNCHANGED <<free, cnt, fifo, newPacket, prio, rxPkt, readyPkt,
                   rawType, frameId, lowIrq, txIrq, txEnd, txPkt, evQ, evPc,
                   evPkt, measPkt, sentLog, sampled, answered,
                   hung>>

(* The transfer ends: tx_done_isr sets irq_triggered and triggers the     *)
(* low-priority IRQ.                                                      *)
UartDone ==
    /\ uart # NULL
    /\ uart' = NULL
    /\ txIrq' = TRUE
    /\ lowIrq' = TRUE
    /\ answered' = IF uart \in RxPackets THEN answered \cup {frameId[uart]}
                   ELSE answered
    /\ UNCHANGED <<free, cnt, fifo, newPacket, prio, rxPkt, readyPkt,
                   rawType, frameId, txEnd, txPc, txPkt, evQ, evPc, evPkt,
                   measPkt, sentLog, sampled, started, hung>>

TxEndTake ==
    /\ ~hung
    /\ txPc = "wait_end" /\ txEnd = 1
    /\ txEnd' = 0
    /\ txPc' = "free_put"
    /\ UNCHANGED <<free, cnt, fifo, newPacket, prio, rxPkt, readyPkt,
                   rawType, frameId, lowIrq, txIrq, uart, txPkt, evQ, evPc,
                   evPkt, measPkt, sentLog, sampled, started,
                   answered, hung>>

(* iotlab_packet_free: reset, take packet->storage's mutex, LIST_PUT ...  *)
FreePut ==
    /\ ~hung
    /\ txPc = "free_put"
    /\ free' = [free EXCEPT ![Storage(txPkt)] = ListPut(@, txPkt)]
    /\ txPc' = "free_inc"
    /\ UNCHANGED <<cnt, fifo, newPacket, prio, rxPkt, readyPkt, rawType,
                   frameId, lowIrq, txIrq, txEnd, uart, txPkt, evQ, evPc,
                   evPkt, measPkt, sentLog, sampled, started,
                   answered, hung>>

(* ... count++ ...                                                        *)
FreeInc ==
    /\ ~hung
    /\ txPc = "free_inc"
    /\ cnt' = [cnt EXCEPT ![Storage(txPkt)] = @ + 1]
    /\ txPc' = "free_give"
    /\ UNCHANGED <<free, fifo, newPacket, prio, rxPkt, readyPkt, rawType,
                   frameId, lowIrq, txIrq, txEnd, uart, txPkt, evQ, evPc,
                   evPkt, measPkt, sentLog, sampled, started,
                   answered, hung>>

(* ... and give the mutex; the task loops to iotlab_packet_fifo_get.      *)
FreeGive ==
    /\ ~hung
    /\ txPc = "free_give"
    /\ txPkt' = NULL
    /\ txPc' = "get"
    /\ UNCHANGED <<free, cnt, fifo, newPacket, prio, rxPkt, readyPkt,
                   rawType, frameId, lowIrq, txIrq, txEnd, uart, evQ, evPc,
                   evPkt, measPkt, sentLog, sampled, started,
                   answered, hung>>

TxStep == TxGet \/ TxWake \/ TxSend \/ TxEndTake \/ FreePut \/ FreeInc
          \/ FreeGive
EventStep == PrStart \/ PrClear \/ PrDispatch \/ \E s \in BOOLEAN : MeasEvent(s)
Environment == \/ \E t \in CmdTypes, l \in Lens : RxFrame(t, l)
               \/ Sample

(* A hung check_uart stops everything at or below its priority (the      *)
(* tasks, the idle hook); the high-priority UART and sample ISRs go on.   *)
Next == \/ Environment \/ CheckUart \/ IdleHook \/ UartDone
        \/ TxStep \/ EventStep

(* ISRs run once pending, the TX task whenever ready, the event task      *)
(* whenever the TX task is blocked, the idle hook when all are blocked.   *)
Fairness == /\ WF_vars(CheckUart) /\ WF_vars(UartDone)
            /\ WF_vars(TxStep) /\ WF_vars(EventStep) /\ WF_vars(IdleHook)

Spec == Init /\ [][Next]_vars /\ Fairness
-----------------------------------------------------------------------------
Count(s, p) == Cardinality({i \in 1..Len(s) : s[i] = p})
B2N(b) == IF b THEN 1 ELSE 0

(* The number of places that hold packet p: a free list, the TX FIFO,    *)
(* rx_pkt, ready_pkt, packet_received's local (the same reference as     *)
(* ready_pkt between its read and its clear counts once), the telemetry  *)
(* packet being filled, the TX task (until LIST_PUT).                    *)
Copies(p) ==
      Count(free["rx"], p) + Count(free["meas"], p) + Count(fifo, p)
    + B2N(rxPkt = p) + B2N(measPkt = p)
    + B2N(readyPkt = p /\ ~(evPc = "pr_clear" /\ evPkt = p))
    + B2N(evPc \in {"pr_clear", "pr_dispatch"} /\ evPkt = p)
    + B2N(txPc \in {"send", "wait_end", "free_put"} /\ txPkt = p)

Frame == [type : CmdTypes, len : Lens]

TypeOK ==
    /\ free \in [{"rx", "meas"} -> Seq(Packets)]
    /\ \A q \in {"rx", "meas"} : cnt[q] \in 0..Cardinality(Packets)
    /\ fifo \in Seq(Packets) /\ newPacket \in {0, 1} /\ txEnd \in {0, 1}
    /\ prio \in [Packets -> {MeasPrio, ReplyPrio}]
    /\ {rxPkt, readyPkt, uart, txPkt, evPkt, measPkt} \subseteq Packets \cup {NULL}
    /\ rawType \in [Packets -> CmdTypes \cup {NoType}]
    /\ frameId \in [Packets -> 0..MaxCmds]
    /\ lowIrq \in BOOLEAN /\ txIrq \in BOOLEAN /\ hung \in BOOLEAN
    /\ txPc \in {"get", "wait", "send", "wait_end", "free_put", "free_inc",
                 "free_give"}
    /\ evPc \in {"idle", "pr_clear", "pr_dispatch"}
    /\ evQ \in Seq({"PR", "MEAS"}) /\ Len(evQ) <= EvQSize
    /\ sentLog \in Seq(Frame) /\ Len(sentLog) <= MaxCmds
    /\ sampled \in 0..MaxMeas
    /\ started \in Seq(1..MaxCmds) /\ answered \subseteq 1..MaxCmds

(* No packet is in two places at once: the RX ISR, packet_received, the   *)
(* telemetry producer and the TX task never share a buffer.  Broken if     *)
(* packet_received left ready_pkt set, so a later check_uart or idle hook *)
(* dispatched the same buffer again while it is queued or on the wire.    *)
NoPacketAliased == \A p \in Packets : Copies(p) <= 1

(* Replies leave the UART in the order their commands arrived: the        *)
(* 0x80-priority ACK/NACKs stay first-come first-served among themselves  *)
(* in iotlab_packet_fifo_prio_append, across the ISR, event and TX tasks.  *)
ReplyOrder ==
    \A i, j \in 1..Len(started) : i < j => started[i] < started[j]

(* The TX task never takes a telemetry packet while an ACK/NACK waits in   *)
(* the FIFO: replies are put ahead of queued measures (spec: replies      *)
(* preempt pending telemetry, not the frame already on the wire).         *)
RepliesPreemptTelemetry ==
    [][ (txPc = "get" /\ txPc' = "send" /\ txPkt' \in MeasPackets)
          => \A i \in 1..Len(fifo) : fifo[i] \notin RxPackets ]_vars

(* The buffer the UART is transmitting is still owned by the TX task,     *)
(* blocked in send_packet: it is not freed, reallocated or refilled       *)
(* before tx_done_isr and check_uart release tx_end_event.                 *)
InFlightBufferHeld ==
    uart # NULL => txPc = "wait_end" /\ txPkt = uart

(* A check_uart that allocates never meets the RX pool mutex held by the  *)
(* TX task freeing an RX packet (xSemaphoreTake from interrupt context).  *)
NoIsrMutexConflict == ~hung

(* As long as check_uart does not hang, every ACK/NACK queued for the TX  *)
(* task is eventually transmitted completely: no wake-up of new_packet or  *)
(* tx_end_event is lost.                                                  *)
ReplyEventually ==
    ([]~hung) => \A id \in 1..MaxCmds :
        (\E p \in RxPackets : Contains(fifo, p) /\ frameId[p] = id)
            ~> id \in answered

(* As long as check_uart does not hang, the receiver is re-armed after    *)
(* every frame: rx_pkt is eventually non-NULL again.                      *)
ReceiverRearmed == ([]~hung) => [](rxPkt = NULL => <>(rxPkt # NULL))
=============================================================================
