# TLA+ models of the IoT-LAB control-node core (openlab)

This directory holds TLA+ models of the control-node (CN) firmware core in
`src/openlab-master/appli/iotlab/lib` and
`src/openlab-master/appli/iotlab/control_node/control_node`, the TLC
configurations that check them, and `PROJECT.json`. That file lists the
components, the runs, the mutants, the source map, the findings and the
hazards.

## 1. Inventory

### 1.1 Components, their state and operations

| Component | Source | State | Operations |
|---|---|---|---|
| Packet pool and queues | `lib/iotlab_packet.c` | per queue: intrusive singly linked list `head`, `count`, a `mutex`, a `new_packet` semaphore (created as a mutex, so it starts *available*); per packet: `priority`, `storage` (owning pool), `free` callback, `timestamp` | `init_queue`, `alloc` (count check **outside** the mutex, then LIST_GET under it), `free` (reset, LIST_PUT on `storage`, count++), `fifo_prio_append` (scan for the first entry of strictly lower priority, insert before it, give `new_packet` on 0→1), `fifo_get` (blocking loop on `new_packet`), `append_data` |
| Serial receive | `lib/iotlab_serial.c` `char_rx` | `rx_pkt`, `ready_pkt` (volatile pointers), static `rx_index`, `last_start_time` | one call per byte in the high-priority UART ISR: drop bytes when there is no buffer, a 100 ms stale-frame guard, SYNC/LEN/bytes, and on completion the hand-off `ready_pkt = rx_pkt; rx_pkt = NULL` plus a software IRQ trigger |
| Serial low-priority IRQ and idle hook | `check_uart`, `allocate_rx_packet`, `idle_hook_uart` | NVIC pending bit; `tx.irq_triggered` | re-arm `rx_pkt` from the RX pool (2 packets), post `packet_received` to the application event queue, give `tx_end_event`; the idle hook re-triggers the IRQ while `ready_pkt` is set |
| Serial dispatch | `packet_received`, `register/get/call_handler`, `send_result` | head-inserted handler list | take `ready_pkt` (a read, then a clear), look up the newest handler for the type byte, strip the header, call it, then rewrite the same buffer as a 1-byte ACK/NACK with priority 0x80 and enqueue it |
| Serial transmit | `send_frame`, `init_tx_packet`, `iotlab_serial_tx_task`, `send_packet`, `tx_done_isr` | TX FIFO (a priority queue), `tx_end_event` (counting semaphore, max 1, initially 0) | `send_frame` rejects oversize frames and missing header room, writes SYNC/LEN/TYPE and appends to the FIFO. The TX task loops: `fifo_get`, start the async UART transfer, block on `tx_end_event`, `free` the packet |
| Time synchronisation | `lib/iotlab_time.c` | `time_config[2]` = {time0, unix_time_ref, kfrequency, last_set_time}, newest first | `get_extended_time` (32→64-bit tick extension), `iotlab_time_set_time` (shift history, install new config), `select_config` (chosen by `last_set_time`), `_iotlab_time_convert` (fixed-point tick→s/µs with carry), `iotlab_time_extend_relative` |
| Measurement batcher | `control_node/cn_meas_pkt.c` | a packet slot per producer; in the packet, count byte, base seconds, records | `lazy_alloc`, `add_measure` (count++, µs since base, fields, should-send), `flush` (send or free, then clear the slot) |
| CN command modules (clients of the core) | `cn_control.c`, `cn_consumption.c`, `cn_event.c`, `cn_radio.c`, `cn_alim.c`, `cn_i2c.c`, `cn_autotest.c`, `cn_logger.c`, `main.c` | ack pools, `set_time_aux`, static `conf`, current measurement packets | register handlers; `set_time` → event `do_set_time` (flush all batches, send ACK frame, `iotlab_time_set_time`); consumption/event/RSSI producers that batch samples |
| Current-monitor driver | `lib/fiteco/fiteco_lib_gwt.c` | `gwt.isr_timestamp` (one volatile slot), handler | a sample ISR stores the tick and posts `process_current_sample`, which reads the slot later |
| Distributed algorithm (education) | `appli/education/distributed_algorithm` | per node: `neighbours[]`, `num_neighbours`, the static `send_cfg` of `send()`, `my_values`, `neighbours_values[]`, the poisson timer (`active`, soft timer) and `num_wakeup` | shell commands (discover, acknowledge, load, reset, send/compute values, clock start/stop), `do_send` with retries, `mac_csma_data_received`, the poisson timer handler |
| Shell | `lib/shell/shell.c` | the static `command_buffer` (and its `index`) | `char_handler_irq` (UART interrupt: store the line, post `parse_command` with a pointer to the buffer), `parse_command` → `shell_handle_line` (`shell_parse_line` tokenises the buffer in place, `shell_call_handler`/`shell_find_cmd` dispatch) |
| Radio characterisation firmware | `appli/iotlab/radio_test/main.c` | static `conf` (channel, `xmit_id`, `pkt_size`, `num_pkts`, `tx_power`, `radio_mode`), `cmd_queue` (2 lines), `radio_tx_queue` (8 statuses), `recv_logger` (`xmit_id`, `packet_size`, `nb_packet`, `locked`, `recv[]`), `send_table[]`, the static `rx_pkt` and `tx_pkt` | `char_handler_irq`; `parse_command_task` (channel, send, clear, lock, and print-only commands); the event handlers `configure_radio`, `send_packets` (loop of `send_one_packet` with a 1 s TX wait and a delay), `packet_received`; the PHY callbacks `radio_tx_done`, `packet_received_net_handler` |
| Other applications | `appli/education/*` (the others), `appli/examples/*`, `open_node_m3_autotest`, `radio_energy_measurement`, `iotlab_examples`, `iotlab_tests`, `sensbio`, `platform/*` | — | Not part of the CN core. See PROJECT.json |

### 1.2 Execution contexts and how the components interact

* **UART RX ISR** (`char_rx`, priority 0x10, above the FreeRTOS limit). It
  writes `rx_pkt`'s bytes, `rx_pkt` and `ready_pkt`, and pends the
  low-priority IRQ.
* **UART TX-done ISR** (`tx_done_isr`). It sets `irq_triggered` and pends
  the low-priority IRQ.
* **Low-priority IRQ** (`check_uart`, NVIC priority 0xFE). It allocates from
  the RX pool, calling `iotlab_packet_alloc`, which takes a FreeRTOS mutex
  from interrupt context. It then posts to the event queue and gives
  `tx_end_event`.
* **Application event task** (`EVENT_QUEUE_APPLI`, a FIFO). It runs
  `packet_received` and the handlers, `do_set_time`, and every measurement
  producer (`process_current_sample`, `pps_handler`, the radio handlers).
  These producers call the batcher, the time conversion and `send_frame`.
* **TX task** (highest task priority). It runs `fifo_get → send_packet →
  free`. This frees RX-pool packets back into the pool that `check_uart`
  allocates from.
* **Idle hook**. It re-pends the low-priority IRQ while a frame is waiting.

The ISR and the task share three things: the RX pool (ISR alloc against
task free), `ready_pkt` (ISR write against a task read then clear), and
`tx_end_event`. The event task and the TX task share the TX FIFO and every
packet pool.

### 1.3 What is hard

* **Interleaving.** The ISR completes frames while `packet_received` is
  between reading and clearing `ready_pkt`. It can also complete a second
  frame before the first has been collected, which overwrites `ready_pkt`.
  The ISR can also allocate from the RX pool while the TX task holds that
  pool's mutex inside `free`.
* **Ordering.** Replies must keep command order, so the priority FIFO must
  be stable among equal priorities. Replies must also overtake queued
  telemetry.
* **Resource bounds.** The RX pool has 2 packets and each measurement pool
  has 8. `rx_pkt == NULL` makes the receiver deaf until the next
  `check_uart`.
* **Lost wake-ups.** `new_packet` is only given on the 0→1 transition of the
  count. `tx_end_event` is only given when `check_uart` runs.
* **Numeric edges.** These are the 32-bit extension at the half-range, the
  `>` against `>=` µs carry, the `<=` config selection boundary, the
  `last_start_time == 0` sentinel, and `LEN = 0` frames with `length -= 3`.
* **Stale state.** Ticks are sampled in ISRs and converted later, possibly
  after one or more `set_time` calls, against a history that keeps only one
  previous config.

### 1.4 What makes each component correct

* **Pools.** `count` equals the list length. Every packet is in exactly one
  place (a pool, a holder, the FIFO, the UART). `alloc` never dereferences
  an empty list.
* **Priority FIFO.** It behaves as an abstract priority queue: `get` returns
  a highest-priority entry, and the earliest among equals. Every appended
  packet is eventually taken.
* **Serial.** No RX buffer is lost or aliased. Every received command is
  eventually answered. Replies leave in command order and overtake
  telemetry. At most one UART transfer is in flight. Handlers see only the
  bytes of the frame received. No ISR takes a mutex a task holds.
* **Time.** Extension is exact for samples less than half the 32-bit range
  in the past. Converted times are normalised (`0 <= usec < 10^6`).
  Conversion of a sample does not change across a `set_time` that happens
  after the sample.
* **Batcher.** A packet never exceeds the serial payload. Every record
  decodes (base seconds + µs) to the time it was stamped with. Batches are
  flushed before they grow stale.

## 2. Plan

Modules, in the order they are built (most important behaviour first). Items
1-7, 9 and 10 are built; 8 is the next step.

1. `PacketLists` holds pure operators: LIST_PUT/LIST_GET, the priority
   insertion of `fifo_prio_append`, and the handler table. The insertion's stable
   order is checked through `PacketQueue`'s refinement of
   `PrioQueueAbstract`.
2. `PacketQueue` models one pool and the blocking priority FIFO with
   allocator tasks and the consumer task. The locked regions are atomic; the
   unlocked count check in `alloc` is a separate step. It is shown to refine
   `PrioQueueAbstract` through `INSTANCE ... WITH`. `MCPacketQueue` checks it
   with one allocator per pool, as in the firmware (`MCTwoAllocators` is
   there to explore the unlocked check with two).
3. `SerialLink` is the frame-level composition: gateway, RX ISR, `check_uart`,
   idle hook, event task (`packet_received`, handlers, telemetry producer),
   TX task, UART, RX pool, telemetry pool and TX FIFO. The TX task's `free`
   is split at the mutex so the ISR can interleave with it.
4. `TimeSync` models the tick source, `set_time`, `select_config` and the
   conversion, with scaled widths and frequency. It checks extension against
   its reference and the stability of conversion across
   one update.
5. `MeasBatch` models the batcher of `cn_meas_pkt.c` driven by the pps
   producer of `cn_event.c`, composed with `set_time`/`do_set_time` of
   `cn_control.c` and the `TimeSync` operators: samples stamped in an ISR,
   converted in the event task, batched with uint32 offsets, flushed by
   size, age or SET_TIME. It checks that no measure is lost, that measures
   leave in order, and that every record decodes to its timestamp.
6. `Consumption` models the consumption producer: the static `conf` shared
   by `config_consumption_measures` and the deferred `do_config`, and the
   single `isr_timestamp` slot of `fiteco_lib_gwt` between the INA226
   interrupt and `process_current_sample`. The batcher of `cn_meas_pkt.c`
   moved into `MeasPkt`, which `MeasBatch` and `Consumption` both extend.
7. `CnRadio` models the radio producer of `cn_radio.c`: the three command
   handlers and their static configs, the two deferred steps
   `update_config` and `_set_new_config`, RSSI polling on a one-shot soft
   timer with channel switching, and the sniffer's double buffer.
8. (next) `SerialRx` models `char_rx` byte by byte: SYNC/LEN/body, the
   stale-frame timeout with the `last_start_time == 0` sentinel, and drops
   while unarmed. It will refine SerialLink's frame-level reception.
9. `DistAlgo` models the education application `distributed_algorithm`:
   nodes that build a neighbour table over a lossy broadcast, send through
   one static `send_cfg` with retries, gossip or compute a value from their
   neighbours, and run a Poisson clock.  It composes `lib/shell`: each
   command is a line the UART interrupt writes into the one shared
   `command_buffer`, run later by a `parse_command` event queued among
   the `do_send` and clock events.
10. `RadioTest` models the radio characterisation firmware `radio_test`:
   a command task that writes the shared `conf` while the event task is
   blocked inside the `send_packets` loop, the TX wait with its timeout
   against late TX statuses, and the single `rx_pkt` buffer read by queued
   `packet_received` events.

The abstract specifications worth stating are `PrioQueueAbstract` (for the
FIFO), the frame-level receiver (for `SerialRx`), and the single-slot
hand-off cell (for `ready_pkt`).

## 3. Modules and how they correspond to the code

**`PacketLists`** is pure. `ListPut`/`ListGet` are the two list macros; the free
list is LIFO. `PrioInsertIndex` is the scan loop of `fifo_prio_append`: stop
before the first entry of strictly lower priority. `GiveOnFirst` is the
`count++ == 0` test. `RegisterHandler`/`GetHandler` are the head-inserted handler
list and its first-match lookup.

**`PacketQueue`** models one pool and one FIFO.
* **State.** `pool` and `count` are the pool's list and count. `fifo` and
  `newPacket` are the FIFO and its semaphore. `prio` is `packet->priority`.
  `pc` and `held` are each task's position and the packet in its hands.
  `stamp` and `clock` are auxiliary variables for the refinement mapping.
* **Allocation.** `AllocCheck` is the unlocked `count == 0` return.
  `AllocLocked` is the locked LIST_GET; on an empty list the task faults.
* **The other operations.** `PrioAppend`, `Free`, `FifoGet` and `FifoWake`
  are the other operations. Every region under `queue->mutex` is one step.
* **Refinement.** `Abstract` instantiates `PrioQueueAbstract` with the FIFO
  seen as a set of (packet, priority, stamp) entries. `PrioQueueAbstract` has
  one variable, the set of pending entries: `Put` adds one, `Get` removes a
  highest-priority, earliest entry.

**`SerialLink`** models the frame level of `iotlab_serial.c` together with
the pools, the FIFO and one telemetry producer.

| Code | Model |
|---|---|
| `iotlab_serial_start` + first `allocate_rx_packet` | `Init` |
| `char_rx` (completion of a whole frame; drop while `rx_pkt == NULL`) | `RxFrame(type, len)` |
| `check_uart` + `allocate_rx_packet` + `iotlab_packet_alloc` | `CheckUart` |
| `idle_hook_uart` | `IdleHook` |
| `pps_handler_irq` | `Sample` |
| `packet_received`: read / clear / call_handler + send_result + send_frame | `PrStart` / `PrClear` / `PrDispatch` |
| `event_handler` of `cn_event.c` (`lazy_alloc`, `add_measure`, `flush`) | `MeasEvent(send)` |
| `iotlab_packet_fifo_get` in the TX task | `TxGet`, `TxWake` |
| `send_packet` (start transfer; take `tx_end_event`) | `TxSend`, `TxEndTake` |
| `tx_done_isr` | `UartDone` |
| `iotlab_packet_free` in the TX task: LIST_PUT / `count++` / give | `FreePut` / `FreeInc` / `FreeGive` |

* **Free split at the mutex.** The TX task's `free` is split so that
  `check_uart` can run while the task holds the RX pool mutex.
* **The hang.** `xSemaphoreTake` from interrupt context on a held mutex is
  undefined in FreeRTOS; the model takes its worst outcome, `hung`. From then
  on only the high-priority ISRs (`RxFrame`, `UartDone`, `Sample`) still run.
* **Histories.** `sentLog`, `started` and `answered` are histories used
  only by the properties (`sentLog` also bounds the gateway).

**`TimeSync`** models `iotlab_time.c` with scaled constants.
* `Extend` is `get_extended_time`.
* `SelectConfig`, `TicksConversion`, `Convert` and `TimeConvert` are the
  conversion chain.
* `SetTime` is `iotlab_time_set_time`; its t0 is the timestamp of a frame
  received `age` ticks ago.
* `ExtendRelative` is `iotlab_time_extend_relative`; it remembers each result
  so that later conversions can be compared with it.
* `Advance` is the hardware clock.

**`MeasBatch`** models the pps telemetry path and SET_TIME. It takes
`Extend`, `TimeConvert` and `Config0` from `TimeSync` through `INSTANCE`.

| Code | Model |
|---|---|
| `cn_event_start`, `cn_control_start` (pools), after a CONFIG_GPIO START | `Init` |
| `pps_handler_irq` (`soft_timer_time`, `event_post`) | `PpsIrq` |
| `pps_handler` + `event_handler` | `EvPps` |
| `cn_meas_pkt_lazy_alloc`, `cn_meas_pkt_add_measure` | `LazyAlloc`, `AddMeasure` |
| `_us_since_packet_ref`, `_pkt_should_send` | `UsSince`, `ShouldSend` |
| `cn_meas_pkt_flush` (+ `send_frame`'s length check) | `Flush`, `FlushedSlot` |
| `set_time` (handler: `set_time_aux`, ack alloc, post) | `EvSetTime` |
| `do_set_time` (flush, ACK frame, `iotlab_time_set_time`) | `EvDoSetTime` |
| `config_gpio_event` | `EvConfigGpio` |
| TX task: get, send, free | `TxSend` |

* **Records.** A packet's content is its `t_ref_s` and a sequence of records.
  Each record keeps the stored offset (`off`, modulo `OffMod` for uint32),
  and also the measure's id, tick and converted timestamp for the
  properties. Lengths are counted in bytes: a 5-byte header and
  `MeasureSize`-byte records against `DataMax`.
* **Gateway.** `GatewayCmd` puts a SET_TIME or CONFIG_GPIO command in the
  event queue; `SerialLink` models how frames get there. A SET_TIME carries
  the node's current time shifted by a drift in `Drifts`.
* **Start state.** `cn_event_start` leaves the pps interrupt disabled until
  a CONFIG_GPIO START; `Init` starts with it enabled (`ppsOn`), as after
  that START, so that measures happen from the first step.
* **The ack cut.** The ghost `cut` records, per ack packet, the measures
  recorded when its `do_set_time` ran; `AckFollowsOldMeasures` checks that
  none of them is queued behind the ack.
* **Histories.** `recorded` and `delivered` are history sets of measure ids.

**`MeasPkt`** is pure: the operators of `cn_meas_pkt.c` (`LazyAlloc`,
`AddMeasure`, `UsSince`, `ShouldSend`, `Flush`, `FlushedSlot`) over a packet
seen as its `t_ref_s` and records that carry their byte size. `ShouldSend`
takes the caller's `measure_size`, `Flush` the caller's priorities.

**`Consumption`** models `cn_consumption.c` over the INA226 hand-off of
`fiteco_lib_gwt.c`, the event queue and the TX FIFO.

| Code | Model |
|---|---|
| `cn_consumption_start` (pools, `current_monitor_stop`) | `Init` |
| `current_sample_ready_isr` (a conversion ends) | `SampleReadyIsr` |
| `packet_received` taking the frame and calling the handler | `RxTake` |
| `config_consumption_measures`: length check | `CfgBadLength` |
| `parse_consumption_config`: START refused / no ack packet | `CfgInvalid` / `CfgNoAck` |
| `config_consumption_measures`: accepted, select(OFF), `event_post` | `CfgAccept` |
| `fiteco_lib_gwt_current_monitor_select` | `MonitorSelect` |
| `do_config_consumption_measures` (flush, ack, `cur_config`, select) | `DoConfig`, `SendAfterFlush`, `FlushCurrent` |
| `process_current_sample`: read `isr_timestamp` / `ina226_read` / handler | `PsStamp` / `PsRead` / `PsHandle` |
| `consumption_measure_handler` | `PsHandle` |
| TX task: get, send, free | `TxSend` |

* **The INA226.** Its driver is not in the repository. The model follows
  the comment of `process_current_sample`: a finished conversion raises the
  alert (`ina` = "alert") and the ISR; the alert stays latched until
  `ina226_read`, which starts the next conversion. `MonitorSelect(OFF)`
  disables it; a source enables it, and the initial read starts a
  conversion.
* **Three steps.** `process_current_sample` is split where the ISR can take
  over: after it reads `isr_timestamp`, and after `ina226_read`. A record
  keeps the tick it was stamped with (`tick`) and, as a ghost, the tick of
  the interrupt that posted its event (`irq`).
* **The dequeue.** `RxTake` frees the frame's queue slot before the handler
  runs, so interrupts and other producers (`OtherPost`, the pps and serial
  events sharing `EVENT_QUEUE_APPLI`) can fill the queue before the
  handler's own `event_post`.
* **The gateway.** `Cmds` holds START with 1 or 3 measures, STOP, START with
  no measure, and a frame of the wrong length. `MaxRx` bounds the command
  frames queued or in hand. With 1, the gateway sends a command after the
  reply to the previous one. `stream` is what the gateway receives: ack
  frames with the measure size that their `pw_conf` announces, and
  consumption frames with the sizes of their records.
* **Left out.** The INA226 period and averaging, and the power source
  choice, only configure the chip. The float values are not modelled.

**`CnRadio`** models `cn_radio.c` (injection and jamming are compiled out
with `#if 0`), the event queue, the PHY and soft-timer interrupts, the
radio packet pool and the TX FIFO. It extends `MeasPkt` for the RSSI
packets.

| Code | Model |
|---|---|
| `radio_init`, `cn_radio_start` (update_config of the default) | `Init` |
| `radio_off` | `RadioOff` |
| `radio_polling` / `radio_sniffer`: wrong length | `BadLength` |
| `radio_polling` (copy, mask, checks, ms to ticks, post) | `RadioPolling`, `PostUpdate` |
| `radio_sniffer` (copy, mask, one channel, no time per channel, post) | `RadioSniffer`, `PostUpdate` |
| `update_config` with `proper_stop` | `UpdateConfig`, `ResetConfig`, `StopTimer`, `FlushRssi` |
| `_set_new_config` | `SetNewConfig`, `CfgAt` |
| `set_next_channel` | `NextChannel` (RECURSIVE), `SetNextChannel` |
| `manage_channel_switch` | `ChannelSwitch` |
| soft-timer expiry posting `poll_time` / `poll_time` | `TimerFire` / `PollTime` |
| `sniff_handle_rx` (PHY done, post) / `sniff_rx` | `PhyRxDone` / `RxNow` |
| `sniff_handle_rx_appli_queue` with `zep_to_packet` | `SniffHandle` |

* **Static configs.** `stat` holds the static `config` of `radio_polling`
  and of `radio_sniffer`. An `update` or `set` event carries which config
  it points to, and `CfgAt` reads it when the event runs, as the C pointer
  does. A handler writes `stat` before its checks, as the code does.
* **Channels.** The 2.4 GHz channels 11..26 are scaled to `MinCh..MaxCh`,
  and a channel map is the set of its bits; masking with
  `PHY_MAP_CHANNEL_2400_ALL` is intersection with `Channels`.
  `NextChannel` is the do-while loop. After `MaxCh + 1` turns it has seen
  every channel, so -1 there means the loop never ends, and the event task
  is `hung`. `CyclicSucc` is the declarative reference that
  `ChannelSwitchCyclic` compares against.
* **Drivers.** The soft timer is one-shot: `armed`, cleared when it
  expires and posts `poll_time`. `phy` is the buffer the PHY receives into,
  or `NoRx`. `phy_rx_now` on a PHY that is already receiving may keep the
  old reception or restart it (`RxNow`), because the driver is not in the
  repository. A ZEP frame is abstracted to the buffer it was written from
  (`used`) and, as a ghost, the buffer the PHY filled (`filled`).
* **Left out.** The ED value, the RSSI timestamps below the second, and
  the ACK/NACK replies, which use serial RX buffers and not the radio pool.
  `acked` records the configs the handlers answered with ACK.

**`DistAlgo`** models `appli/education/distributed_algorithm` on each of
the nodes `Node`. Every node has one event loop. A command arrives through
`lib/shell`: `CharHandlerIrq` writes a whole line (a record of the first
word and its arguments, from `Lines`) into `buf`, the node's
`command_buffer`, and posts `"parse_command"`; `ParseCommand` runs, at the
head of the queue, the command of whatever `buf` holds then, and leaves
`buf` cut to its first word (`FirstWord`), as the in-place tokenising of
`shell_parse_line` does. The handling of one received frame is a single
step between events. The ghost `clobbered` records a line overwritten
while its `parse_command` was queued.

| Code | Model |
|---|---|
| `main` (`network_init`, `init_values(0, NULL)`) | `Init` |
| `char_handler_irq` (lib/shell) | `CharHandlerIrq` |
| `parse_command`, `shell_call_handler` with `shell_find_cmd`, `shell_parse_line` | `ParseCommand`, `ShellCallHandler`, `FirstWord` |
| `commands[]` of `main.c` | `Lines`, `CmdNames` |
| `init_values` (`reset`), `network_reset` | `InitValues`, `NetworkReset`, `ValuesReset` |
| `network_neighbours_discover` / `_acknowledge` / `_load` | `NeighboursDiscover` / `NeighboursAcknowledge` / `NeighboursLoad` |
| `send`, `do_send` | `Send`, `DoSend` |
| `send_values`, `computing_send_values` | `SendValues`, `ComputingSendValues` |
| `compute_all_values`, `compute_value_from_neighbours` | `ComputeAllValues`, `ComputeValue` |
| `clock_convergence_start` / `_stop`, `poisson_timer_start` / `_stop` | `ClockStart` / `ClockStop`, `PoissonTimerStart` / `PoissonTimerStop` |
| soft-timer expiry / `poisson_timer_handler`, `clock_convergence_handler` | `TimerExpire` / `PoissonTimerHandler`, `ClockConvergenceHandler` |
| `mac_csma_data_received`, `network_neighbour_id`, `network_neighbours_add`, the loop of `network_neighbours_validate` | `MacCsmaDataReceived`, `NeighbourId`, `AddedTable`/`AddedCount`, `Listed` |
| `computing_handle_values`, `compute_value_from_gossip` | `ComputingHandleValues`, `ComputeValueFromGossip` |

* **The radio.** `mac_csma` is not in the repository. A `do_send` either
  fails (`ret == 0`: try again while `++try < max_try`) or broadcasts the
  frame to any subset of the other nodes, each with an RSSI from
  `RssiVals`, into an inbox of `InboxMax` frames (a full inbox loses the
  frame, like the radio).
* **`send_cfg`.** There is one per node, as the static in `send()`: a send
  overwrites it even while a `do_send` for the previous packet is queued
  or retrying. The ghosts `pending` and `lost` record whether it holds an
  unsent packet and whether one was overwritten.
* **Values.** A value is a member of `Vals`; `own` is the value the node
  drew at its last values reset and `drawn` every value drawn so far.
* **Left out.** `tx_power` reconfigures only `mac_csma`. The clock times
  are left out: `clock_convergence_update_time` is a stub, so a received
  PKT_CLOCK changes nothing. `compute_number`, the printing commands and
  `poisson-delay` only print.

**`RadioTest`** models `appli/iotlab/radio_test/main.c`. A command line
and a handler step between two blocking points are single steps; the
event task runs one handler at a time.

| Code | Model |
|---|---|
| `main` (zeroed statics, `MODE_TX`, `recv_logger_init`) | `Init` |
| `char_handler_irq` at a newline, `xQueueSendFromISR` | `CharHandlerIrq` |
| `parse_command_task`: `channel`, `send`, `clear`, `lock`, the others | `ParseCommandTask`, `ConfigChannel`, `ConfigSend` |
| `configure_radio`, `radio_listen` | `ConfigureRadio`, `Listen` |
| `send_packets` up to the loop / the loop's delay / after the loop | `SendPackets` / `Delay` / `SendPacketsDone` |
| `send_one_packet`: `num > MAX_RECV_PACKET`, build and `phy_tx_now`, the wait on `radio_tx_queue` and its timeout | `SendOnePacketSkipped`, `SendOnePacket`, `TxQueueReceive` / `TxQueueTimeout` (`SendResult`) |
| `radio_tx_done`, `packet_received_net_handler` | `RadioTxDone`, `PacketReceivedNetHandler` |
| `packet_received`, `recv_logger_add`, `recv_logger_add_error`, `recv_logger_init` | `PacketReceived`, `RecvLoggerAdd` (`Adopt`, `AddPacket`, `CrcZeroed`), `AddError`, `LoggerInit` |

* **Commands.** A line is its verb and the arguments `sscanf` parses.
  `channel`'s `%u` stores an `unsigned int` through the `uint8_t`
  `conf.channel`; with the struct's layout the fourth byte lands on the
  low byte of `xmit_id`. Whether the platform's `scanf` (not in the
  repository) writes one byte or four is a nondeterministic choice.
  `channel 267` is accepted as channel 11.
* **Frames.** A received frame is its PHY status and the first check of
  `recv_logger_add` it fails, with its `xmit_id` and length.
  `recv_logger_add` zeroes the CRC field of `rx_pkt` in place, so a second
  read of the same buffer fails the CRC check (`CrcZeroed`).
* **PHY.** It is idle, receiving into `rx_pkt` or transmitting `tx_pkt`;
  `phy_idle` aborts what it does. A transmission may end after the task
  stopped waiting for it; the driver is not in the repository, so the 1 s
  timeout may fire at any time while nothing is queued.
* **Ghosts.** `txNum` and the `num` of a queued status name the packet a
  status is about. `seq` numbers the receptions. `ack` is the last
  printed ACK. `oob`, `staleTx` and `staleRx` record a write past
  `send_table`, a status taken by another packet, and a stale `rx_pkt`.
* **Left out.** The error counters and `nb_change`, read only by `show`;
  CRC32, timestamps, RSSI, LQI, energy and delays; the byte buffer of
  `char_handler_irq`. The event loop itself is in the event library,
  outside the repository (`EventTask`).

## 4. Runs

| Run | Result | What it shows |
|---|---|---|
| `packet_queue` | pass | With one allocator per pool: `PoolAccounting` (count = list length, every packet in exactly one place), `AppendedEventuallyTaken` (no lost `new_packet` wake-up), and `AbstractSpec` (the FIFO refines the abstract priority queue). |
| `serial_link` | pass | The gateway also sends LEN = 0 frames. No buffer aliased across the ISR, the event task and the TX task. Replies start in command order. A telemetry packet is never dequeued while a reply waits. The buffer on the wire stays owned by the blocked TX task. If `check_uart` never hangs, every queued reply is sent completely. |
| `serial_deaf` | violation | A second frame completed before `packet_received` collects the first overwrites `ready_pkt` and loses an RX buffer. With one buffer lost, the receiver is never re-armed, and every later command is dropped. With the overwrite removed (frames dropped while `ready_pkt` is set), the same property holds. |
| `time_sync` | pass | Extension recovers every tick up to half a narrow period old across the wrap. A tick converted after the latest `set_time` keeps its value across one more `set_time`, including a `set_time` at the same tick (the `==` branch of `select_config`). |
| `meas_batch` | pass | With pps interrupts racing a SET_TIME that corrects the clock by 100 ms either way: every batched measure is in an unsent packet or delivered and no packet is both free and in use (`MeasuresAccounted`); measures reach the UART in interrupt order (`SamplesInOrder`); once the SET_TIME ack is queued, no measure recorded before its `do_set_time` waits behind it (`AckFollowsOldMeasures`). `RecordsDecode` is not checked here: within these bounds no offset can wrap, so only the `meas_offset_wrap` run can tell it apart. |
| `meas_offset_wrap` | violation | At the first SET_TIME (a jump beyond the uint32 range of the offset), a pps taken between `set_time` and `do_set_time` starts a packet in the old time base and the next record's offset wraps. |
| `consumption` | pass | With INA226 interrupts racing the config handlers and the three steps of `process_current_sample`, and the gateway sending one command at a time: every measure carries the tick of its own interrupt (`SampleStampedByOwnIrq`), and every consumption frame follows an ack and holds records of that ack's measure size (`FramesMatchAck`). |
| `consumption_ack_leak` | violation | The handler takes the config frame off the queue; an INA226 interrupt and another producer then fill the queue of 2. `event_post(do_config)` fails, and the ack packet in the static `conf` is never freed (`AcksAccounted`). |
| `cn_radio` | pass | Across reconfigurations by up to three commands, accepted and refused: a running timer and queued `poll_time` events number at most one (`AtMostOnePollPending`); every ZEP frame was written from the buffer the PHY filled (`SniffedFromFilledBuffer`); no RSSI packet outgrows the payload (`RssiPacketsFit`); every channel switch goes to the next channel of the map (`ChannelSwitchCyclic`). |
| `dist_algo` | pass | Two nodes, lossy broadcasts, retries, the shared `send_cfg`, and command lines typed into the shell's one buffer and run from the event queue among `do_send` and clock events: the fmax gossip keeps every value one that was drawn and never below the node's own draw (`GossipIsMaxOfDraws`); a handler queued before `clock-convergence-stop` neither wakes the algorithm nor restarts the timer (`ClockStaysStopped`). |
| `radio_send_overflow` | violation | With `MAX_RECV_PACKET` scaled to 1, `send 1 0 20 2 0` (the firmware's `send ... 1049 ...`) makes `send_one_packet` pass its guard with `num = MAX_RECV_PACKET` and write `send_table[MAX_RECV_PACKET]`, one entry past the table (`SendTableInBounds`). |
| `cn_radio_refused` | violation | An accepted sniffer command's `update_config` runs. Then a refused two-channel sniffer command (NACK) overwrites the static config before `_set_new_config` reads it, and the radio sniffs a config nobody acknowledged (`InstalledConfigWasAcked`). With a polling command, the refused empty map hangs `set_next_channel`. |

Each property of a passing run has a mutant in `PROJECT.json`: a plausible
bug in the mapped code that TLC then finds. The mutants are:
* `>=` and plain tail append in the insertion loop;
* a never-given `new_packet`;
* a dropped count guard;
* a forgotten `ready_pkt = NULL`;
* `tx_end_event` given without `irq_triggered`;
* an unbounded event post;
* a non-strict top-bit test in the extension;
* `<` in `select_config`;
* `_pkt_should_send` without the packet-full test;
* `_us_since_packet_ref` without `tv_usec`;
* `isr_timestamp` read at the handler call instead of before `ina226_read`;
* `do_config` queuing the ack before it flushes the old measures.
* `proper_stop` leaving the soft timer running;
* `update_config` keeping `radio.config` until `_set_new_config`;
* `>=` in the wrap test of `set_next_channel`;
* `compute_value_from_neighbours` starting from 0 instead of `my_value`;
* `poisson_timer_handler` without its `active` test.

The radio's `TypeOK` and `RssiPacketsFit` are broken by the same unbounded
post and missing packet-full test as above.

## 5. Bounds and why they are enough

* **PacketQueue:** 3 packets, 1 or 2 allocators, priorities {0,1}, 4
  appends. The pool empties and refills, the FIFO holds packets of both
  priorities in several orders, and the consumer blocks and is woken.
* **SerialLink:** the real RX pool size (2), 1 telemetry buffer, 3 commands,
  2 samples and an event queue of 2.
  * Three commands are the least that fill both RX buffers while a reply is
    in flight, and that make a frame arrive while `rx_pkt` is NULL.
  * The telemetry buffer gives replies something to overtake and keeps the
    TX task busy while two replies queue up.
  * The event queue of 2 fills up, so posts are dropped.
* **TimeSync:** a 3-bit narrow tick against a clock running to 10. The clock
  crosses the narrow wrap (8) and the half-range (4). There are 2 `set_time`
  calls with ages up to 4, and 2 references, one of which makes the
  microseconds sum to exactly one second (`Mul = 2`, `KFreq = 7`,
  `USec = 10`).

* **MeasBatch:** 2 measure packets of 3 records (`DataMax` 41 = 5 + 3 x 12),
  1 ack packet, 4 pps interrupts, 1 gateway command, an event queue of 2
  and a clock of 8 ticks (about 2.3 s at 3.5 ticks a second). Four
  measures overfill a packet, the clock passes the two-second staleness
  bound, and the pps interrupt can fall between `set_time` and
  `do_set_time`. The clock is not allowed to make a queued timestamp half a
  narrow period old: real events are handled within milliseconds of a
  2^32-tick period. `OffMod` = 64 units of 100 ms plays the 71 minutes of
  the uint32 offset; the epoch jump of `meas_offset_wrap` is 7 s.

* **Consumption:** 2 measure packets, 1 ack packet, 2 commands sent one at
  a time, 4 conversions, 1 event of another producer, an event queue of 2,
  a clock of 4 ticks, and `DataMax` 37. A measure is 8 or 16 bytes, so a
  packet holds four or two: the packet-full flush happens. The second
  command can find the single ack packet still waiting for TX (the
  `CfgNoAck` path). The queue of 2 fills when the INA226 and another
  producer both post while a command is being handled.

* **CnRadio:** channels 1..3 (0 plays the unused channels below 11), two
  radio packets, an event queue of 2, up to three commands sent one at a
  time, 4 timer expiries, 3 PHY receptions and 3 s of clock. The commands
  are an accepted scan of all three channels (one measure each, so the wrap
  at `MaxCh` happens), polling refused for an out-of-range map and for a
  zero period, an accepted and a refused (two-channel) sniffer, STOP, and
  a frame of the wrong length. Three commands fill the queue, so the lost
  posts happen. `DataMax` 20 is 2 modulo 6, like the 254-byte cap, and a
  packet is flushed after two 6-byte records. With `DataMax` 22 (4 modulo
  6), a packet with 5 bytes free takes a third record and outgrows the
  payload; TLC then finds `RssiPacketsFit` violated (see the hazards).

* **DistAlgo:** two nodes and two ids of nodes outside the model, three
  table slots, two values, an RSSI just below and one at `MIN_RSSI`, two
  tries per send, an event queue of 2, one unhandled frame per node, three
  command lines and two wake-ups per clock. The loads are a full table
  with an outside node and a single outside node: loading them in turn and
  hearing a GRAPH exposes the stale slot. Three lines fill the queue, so
  a post of `do_send` or of `parse_command` is dropped, a send can
  overwrite a pending one, and a line can overwrite a queued one. The run
  has about 2.9 million states (55 s); three nodes are out of reach.

* **RadioTest:** `MAX_RECV_PACKET` scaled to 1 (the overflow run) or 2;
  `send` lines with 1 or 2 packets, `channel 15` and `channel 267`, `clear`,
  `lock` and a print-only line; three lines in all, two receptions from
  two other transmissions, queues of 2. Two lines fill `cmd_queue` and the
  event queue, a second `send` can be typed during the first, and two
  receptions exercise the xmit change and the stale `rx_pkt`.

The gateway, the sample source and the clock are bounded. The model
therefore ends in states where every task is blocked waiting for input,
which are the resting states of the firmware. For that reason `serial_link`,
`time_sync`, `meas_batch`, `consumption`, `cn_radio` and `dist_algo` run with
`CHECK_DEADLOCK FALSE`.

## 6. Fairness

All fairness is weak.
* **`check_uart` and `tx_done_isr`:** a pending interrupt is served.
* **The TX task:** it has the highest task priority and runs whenever it is
  ready.
* **The event task:** it runs whenever the TX task is blocked. `TxBlocked`
  is a guard of every event-task step, which mirrors fixed-priority
  preemptive scheduling on one core.
* **The idle hook:** it runs when everything is blocked.

In `MeasBatch`, `Consumption` and `CnRadio` the event task and the TX task are weakly
fair: each runs whenever its queue is not empty.

`RadioTest` has no liveness property and no fairness.

`DistAlgo` has no liveness property and no fairness: the radio may lose
every frame, so nothing is bound to happen.

The gateway and the sample source have no fairness: they may stop at any
time. The liveness properties are conditioned on `[]~hung`, because after
the hang the code's behaviour is undefined.

## 7. Findings

See `PROJECT.json` ("findings") for the exact lines.
1. **`ready_pkt` overwrite.** `char_rx` overwrites `ready_pkt` and loses an
   RX buffer (shown on the way to the next finding).
2. **Deaf receiver.** One lost buffer is enough for the receiver to stay deaf
   for good, because reception is only re-armed by a `check_uart` that runs
   before the TX task frees the reply buffer.
3. **`send_table` overflow in `radio_test`.** `send_one_packet` guards
   with `num > MAX_RECV_PACKET` where `>=` is needed: the 1049th packet
   of a `send` writes one entry past `send_table`, and later packets are
   skipped and counted as sent.
4. **Offset wrap across SET_TIME.** A measure converted in the old time
   base can become `t_ref_s` of a packet whose next record is in the new
   base; `(tv_sec - t_ref_s) * 1000000` then wraps in uint32.
5. **Ack leak on a full queue.** `config_consumption_measures` returns 1
   when `event_post(do_config)` fails and never frees the ack frame it
   allocated. The spec says no fault may leak a buffer. There are only two
   ack packets, so two such failures refuse every later config.

6. **A refused radio command is installed.** `radio_polling` and
   `radio_sniffer` copy the frame into their static config before checking
   it, and `_set_new_config` reads that static through a pointer two
   events after the ACK. A NACKed command handled in between is what gets
   installed: a sniffer on two channels, or a polling config with an empty
   channel map on which `set_next_channel` loops for ever. The gateway need
   not misbehave: it sends the second command after the first one's ACK.

Observed while modelling, kept as hazards without a run (the cfg named
reproduces it):
* `check_uart` takes a FreeRTOS mutex from interrupt context that the TX
  task may hold; the spec says interrupt context never enters
  mutex-protected structures (`NoIsrMutexConflict`,
  `MCSerialLinkIsrMutex.cfg`);
* `radio_test`'s send loop re-reads `conf`, which a `send` or `channel`
  line typed during the loop rewrites: the ACK reports more failures than
  packets (`AckConsistent`, `MCRadioTestAck.cfg`);
* a TX status that `radio_tx_done` queues after the 1 s timeout is taken
  by the next packet as its own (`TxResultIsOwn`, `MCRadioTestTxLate.cfg`);
* a `packet_received` queued while reception is re-armed reads the next
  frame from the one static `rx_pkt`, and the next event then logs a CRC
  error for it (`RxEventReadsOwnFrame`, `MCRadioTestRxStale.cfg`);
* `char_handler_irq` writes the terminator of a 256-byte line at
  `command_buffer[256]`, one past the buffer;
* no flush without a next measure: batched measures wait for the next
  measure or a SET_TIME, STOP does not flush them, where the spec asks for
  a staleness bound (`RecordEventuallySent`, `MCMeasBatchPending.cfg`);
* `send()` of `distributed_algorithm` keeps one static `send_cfg`: two
  shell commands before `do_send` runs, or a clock wake-up during a values
  send, overwrite a packet that is then never sent nor reported failed,
  and the next one goes out twice (`SendNotLost`, `MCDistAlgoLost.cfg`);
* `char_handler_irq` of `lib/shell` posts `parse_command` with a pointer
  to its one `command_buffer`: a line ending while the previous line's
  event is still queued replaces it, and both events run the newer line.
  The first run cuts the buffer to its first word, so the second runs
  another command (`reset network` becomes a full `reset`, `send_values
  compute` a plain send) (`ShellLineNotClobbered`, `MCDistAlgoShell.cfg`);
* `shell_call_handler` returns 0 for an unknown command, against its
  comment ("no error if command was help or no command provided"); for an
  empty line, or one with too many words, it calls `strcmp` with
  `argv[0] == NULL`; and `error &= strcmp(...)` keeps only the low bit of
  the result. None of it changes modelled state;
* `network_neighbours_load` blanks only the slot after the loaded ones and
  adds to `num_neighbours`: an older entry past the blank becomes visible
  with the next added neighbour, listed twice;
* the time history has depth 1 (`NUM_SAVED_CONFIG`), so a tick converted
  before two `set_time` calls converts differently after them; the spec's
  stability holds across one `set_time` only (`StableAcrossOneUpdate`);
* the RSSI flush test uses `RSSI_MEASURE_SIZE` = 5 for 6-byte records: a
  payload maximum of 4 modulo 6 loses the measures of a full packet (not at
  the 254-byte cap);
* a failed `event_post` of `_set_new_config` (a TODO in the code), of the
  sniffer's RX event or of the soft timer's `poll_time` leaves the radio
  off, deaf or no longer polling until the next command;
* `alloc`'s count test is outside the lock; two allocators on one pool
  would race for the last packet. No pool has two allocators in the
  firmware (check_uart for the serial RX pool, the event task for the
  others), so this is not a hazard of the code as built;
* the microsecond carry uses `>` where the spec says "reach", leaving
  `tv_usec = 1000000` (the same instant);
* the staleness test is `usecs > 2 s` where the spec's test says `>= 2 s`;
* LEN = 0 frames are dispatched with a stale type byte instead of being
  discarded (`serial_link` checks that such frames alias nothing and are
  answered);
* with two commands in flight (`MaxRx` = 2), both consumption properties
  fail. The second command's parse overwrites the static `conf` that the
  first `do_config` will read. If that parse finds no ack packet, it sets
  `conf.pkt` to NULL, and `do_config` then passes NULL to
  `iotlab_serial_send_frame`.

## 8. Not modelled (yet)

* **The byte-level receiver:** the SYNC/LEN states, the 100 ms stale-frame
  guard with its `last_start_time == 0` sentinel, and buffer overrun beyond
  `PACKET_MAX_SIZE`, which is not defined in the repository.
* **The control modules:** the power switch of
  `fiteco_lib_gwt` (GPIO writes). Of `cn_control`,
  `set_node_id` and the LED handlers only write a variable or a GPIO.
* **I/O and other applications:** the I/O-only modules (power, I2C, logger,
  autotest) and the demo, test and other education applications. Of
  `distributed_algorithm`, `tx_power` (a `mac_csma` setting) and the clock
  times (a stub update). Of `lib/shell`, the characters of a line one by
  one (the buffer `index`, the `COMMAND_LEN` terminator one past the
  buffer), the `argv` array, `shell_init`, the help printers and the
  prompt. Of `radio_test`, the byte buffer of
  `char_handler_irq`, and `recv_logger_show`, `send_table_show` and the
  error counters, which only print. See the
  components in `PROJECT.json`.
* **The event library:** it is not in the repository. Its queue is modelled
  as a bounded FIFO that drops posts when full, which is what
  `event_post_from_isr` returning an error implies.
