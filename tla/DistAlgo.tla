------------------------------ MODULE DistAlgo ------------------------------
(***************************************************************************)
(* The education application appli/education/distributed_algorithm: nodes *)
(* that build a neighbour table over the radio (radio_network.c), gossip   *)
(* or compute a value from their neighbours (computing.c, main.c), and     *)
(* broadcast a clock on a Poisson timer (clock_convergence.c,              *)
(* poisson_clock.c).                                                       *)
(*                                                                         *)
(* Each node runs one event loop (EVENT_QUEUE_APPLI, FIFO, a post is      *)
(* dropped when the queue is full).  Its events are do_send, re-posted on  *)
(* every failed try, the poisson timer handler, posted by the soft timer   *)
(* when it expires, and parse_command, posted by the UART interrupt of     *)
(* lib/shell (char_handler_irq) at the end of a line, with a pointer to    *)
(* its one static command_buffer.  parse_command tokenises that buffer in  *)
(* place and runs the command of the table of main.c.  The handling of a   *)
(* received frame (mac_csma_data_received) runs as one step between two    *)
(* events.                                                                 *)
(* mac_csma is outside the repository: a send either fails (ret = 0) or    *)
(* broadcasts the frame, and every other node may or may not receive it,   *)
(* with an RSSI from RssiVals.                                             *)
(*                                                                         *)
(* Data abstraction: addresses are node ids, 0 being the empty table slot; *)
(* a value (one double, NUM_VALUES = 1) is a member of Vals; the clock     *)
(* times are left out, since clock_convergence_update_time is a stub and   *)
(* the receiver of a CLOCK packet changes no state; compute_number and the *)
(* printed outputs are left out.  A command line is a record of its first  *)
(* word and its arguments; the interrupt writes a whole line in one step.  *)
(***************************************************************************)
EXTENDS Integers, Sequences, FiniteSets

CONSTANTS
    Node,         \* the node ids (iotlab_uid) of the modelled nodes
    Ids,          \* every id a neighbour table may hold: Node and others
    MaxNb,        \* MAX_NUM_NEIGHBOURS
    Loads,        \* argument lists of the "neighbours" command
    Vals,         \* the values init_value may draw
    RssiVals,     \* RSSI of a received frame
    MinRssi,      \* MIN_RSSI
    SendRetry,    \* RADIO_NETWORK_SEND_RETRY
    EvQSize,      \* capacity of EVENT_QUEUE_APPLI
    InboxMax,     \* frames received and not yet handled, per node
    MaxCmds,      \* bound: command lines typed in a behaviour
    MaxWakeup     \* bound: num_wakeup

ASSUME Node \subseteq Ids /\ 0 \notin Ids
ASSUME \A l \in Loads : l \in Seq(Ids) /\ 1 <= Len(l) /\ Len(l) <= MaxNb

\* enum packet_type (radio_network.h)
PKT_GRAPH == 0
PKT_NEIGH == 1
PKT_VALUES == 2
PKT_CLOCK == 3

\* INT8_MAX, the RSSI network_neighbours_validate adds a neighbour with
INT8_MAX == 127

VARIABLES
    nbrs,      \* neighbours[], per node
    numNb,     \* num_neighbours
    sendCfg,   \* the static send_cfg of send(): try, max_try, pkt
    evQ,       \* EVENT_QUEUE_APPLI
    inbox,     \* frames received by the radio, in order
    active,    \* cfg.timer.active
    timer,     \* the soft timer of cfg.timer is running
    numWakeup, \* cfg.num_wakeup
    myVal,     \* my_values.v[0]
    nVals,     \* neighbours_values[]
    buf,       \* command_buffer of lib/shell
    cmds,      \* command lines typed so far
    own,       \* history: the value init_value last drew for the node
    drawn,     \* history: every value init_value has drawn
    pending,   \* history: send_cfg holds a packet not yet sent or given up
    lost,      \* history: a send overwrote a pending packet
    clobbered  \* history: a line overwrote one whose parse_command was queued

vars == <<nbrs, numNb, sendCfg, evQ, inbox, active, timer, numWakeup,
          myVal, nVals, buf, cmds, own, drawn, pending, lost, clobbered>>

Slots == 1..MaxNb
EmptyTable == [i \in Slots |-> 0]
NoValue == [valid |-> FALSE, num |-> 0, val |-> 0]
EmptyVals == [i \in Slots |-> NoValue]

\* A packet: only the fields its type carries are read by the receiver.
Pkt(t, tbl, sc, num, val) ==
    [type |-> t, tbl |-> tbl, sc |-> sc, num |-> num, val |-> val]
ZeroPkt == Pkt(PKT_GRAPH, EmptyTable, 0, 0, 0)

\* compute_value_from_gossip: fmax.
ComputeValueFromGossip(mine, neigh) == IF mine >= neigh THEN mine ELSE neigh
SetMax(S) == CHOOSE x \in S : \A y \in S : x >= y

\* Mutant: a post that ignores the queue's capacity.
PostNoBound(q, e) == Append(q, e)

\* event_post: the event is dropped when the queue is full.
Post(q, e) == IF Len(q) < EvQSize THEN Append(q, e) ELSE q

\* The first slot holding 0 or src, the slot both network_neighbour_id and
\* network_neighbours_add stop at; 0 when the table is full without src.
FirstSlot(tbl, src) ==
    LET S == {i \in Slots : tbl[i] \in {0, src}}
    IN IF S = {} THEN 0 ELSE CHOOSE i \in S : \A j \in S : i <= j

\* network_neighbour_id: the index of src, or -1.
NeighbourId(tbl, src) ==
    LET i == FirstSlot(tbl, src)
    IN IF i # 0 /\ tbl[i] = src THEN i ELSE -1

\* network_neighbours_add: the table after adding src heard with rssi.
AddedTable(tbl, src, rssi) ==
    LET i == FirstSlot(tbl, src)
    IN IF rssi < MinRssi \/ i = 0 \/ tbl[i] = src THEN tbl
       ELSE [tbl EXCEPT ![i] = src]

AddedCount(tbl, src, rssi, num) ==
    IF AddedTable(tbl, src, rssi) = tbl THEN num ELSE num + 1

\* The loop of network_neighbours_validate: my_id occurs in the packet's
\* table before its first 0.
Listed(me, tbl) ==
    \E i \in Slots : tbl[i] = me /\ \A j \in 1..(i - 1) : tbl[j] # 0

-----------------------------------------------------------------------------
(* send(): fill the static send_cfg and post do_send on queue q.  The      *)
(* packet already in send_cfg is overwritten whether or not it was sent.   *)
Send(n, q, pkt, maxTry) ==
    /\ sendCfg' = [sendCfg EXCEPT ![n] = [try |-> 0, maxTry |-> maxTry, pkt |-> pkt]]
    /\ evQ' = [evQ EXCEPT ![n] = Post(q, "do_send")]
    /\ pending' = [pending EXCEPT ![n] = TRUE]
    /\ lost' = [lost EXCEPT ![n] = @ \/ pending[n]]

\* The command lines of the table commands[] of main.c, one record per line:
\* the first word and the arguments each handler tells apart.  A
\* "neighbours" line carries this node's uid and a list of Loads.
\* tx_power, graph-print, print-values, print-final-value and poisson-delay
\* change no modelled state; "help" stands for them and for an unknown word.
CmdNames == {"reset", "graph-create", "graph-validate", "neighbours",
             "send_values", "compute_values", "clock-convergence-start",
             "clock-convergence-stop"}
Line(c, a, l) == [cmd |-> c, arg |-> a, load |-> l]
Lines ==
    {Line("reset", a, <<>>) : a \in {"", "network", "values"}}
    \cup {Line(c, "", <<>>) : c \in {"graph-create", "graph-validate",
                                     "compute_values", "clock-convergence-stop",
                                     "help"}}
    \cup {Line("neighbours", "", l) : l \in Loads}
    \cup {Line("send_values", a, <<>>) : a \in {"", "compute"}}
    \cup {Line("clock-convergence-start", "lambda", <<>>)}

\* shell_parse_line writes '\0' over every blank of command_buffer, so the
\* buffer then holds only its first word.
FirstWord(ln) == Line(ln.cmd, "", <<>>)

\* The event is queued on node n.
Queued(n, e) == \E i \in 1..Len(evQ[n]) : evQ[n][i] = e

NetUnchanged == UNCHANGED <<nbrs, numNb>>
ValUnchanged == UNCHANGED <<myVal, nVals, own, drawn>>
ClockUnchanged == UNCHANGED <<active, timer, numWakeup>>
SendUnchanged == UNCHANGED <<sendCfg, evQ, pending, lost>>

\* The handler's event is taken off the queue and nothing is sent.
Pop(n, q) ==
    /\ evQ' = [evQ EXCEPT ![n] = q]
    /\ UNCHANGED <<sendCfg, pending, lost>>

\* network_reset: the table is blanked.
NetworkReset(n) ==
    /\ nbrs' = [nbrs EXCEPT ![n] = EmptyTable]
    /\ numNb' = [numNb EXCEPT ![n] = 0]

\* The "values" part of init_values: a fresh random value.
ValuesReset(n) ==
    \E v \in Vals :
        /\ nVals' = [nVals EXCEPT ![n] = EmptyVals]
        /\ myVal' = [myVal EXCEPT ![n] = v]
        /\ own' = [own EXCEPT ![n] = v]
        /\ drawn' = drawn \cup {v}

\* "reset [|network|values]" (init_values).
InitValues(n, q, a) ==
    /\ \/ a = "" /\ NetworkReset(n) /\ ValuesReset(n)
       \/ a = "network" /\ NetworkReset(n) /\ ValUnchanged
       \/ a = "values" /\ ValuesReset(n) /\ NetUnchanged
    /\ Pop(n, q) /\ UNCHANGED <<inbox>> /\ ClockUnchanged

\* "graph-create" (network_neighbours_discover): broadcast PKT_GRAPH.
NeighboursDiscover(n, q) ==
    /\ Send(n, q, ZeroPkt, SendRetry)
    /\ UNCHANGED <<inbox>> /\ NetUnchanged /\ ValUnchanged /\ ClockUnchanged

\* "graph-validate" (network_neighbours_acknowledge): broadcast a copy of
\* the table.
NeighboursAcknowledge(n, q) ==
    /\ Send(n, q, Pkt(PKT_NEIGH, nbrs[n], 0, 0, 0), SendRetry)
    /\ UNCHANGED <<inbox>> /\ NetUnchanged /\ ValUnchanged /\ ClockUnchanged

\* "neighbours <uid> <id>..." for this node (network_neighbours_load): the
\* first Len(l) slots are written and the next one blanked, later slots
\* keep what they held, and num_neighbours is incremented from its current
\* value.  Without arguments (argc <= 2) it returns without a change; the
\* other uid and too-many cases do the same and are left out.
NeighboursLoad(n, q, l) ==
    /\ \/ /\ l # <<>>
          /\ nbrs' = [nbrs EXCEPT ![n] =
                        [i \in Slots |-> IF i <= Len(l) THEN l[i]
                                         ELSE IF i = Len(l) + 1 THEN 0
                                         ELSE nbrs[n][i]]]
          /\ numNb' = [numNb EXCEPT ![n] = @ + Len(l)]
       \/ l = <<>> /\ NetUnchanged
    /\ Pop(n, q) /\ UNCHANGED <<inbox>> /\ ValUnchanged /\ ClockUnchanged

\* computing_send_values: broadcast num_neighbours and the value.
ComputingSendValues(n, q, sc) ==
    Send(n, q, Pkt(PKT_VALUES, EmptyTable, sc, numNb[n], myVal[n]), SendRetry)

\* "send_values [|compute]".
SendValues(n, q, a) ==
    /\ ComputingSendValues(n, q, IF a = "compute" THEN 1 ELSE 0)
    /\ UNCHANGED <<inbox>> /\ NetUnchanged /\ ValUnchanged /\ ClockUnchanged

\* Mutant: the loop starts from 0 instead of my_value.
ComputeValueFromZero(mine, vals) ==
    SetMax({0} \cup {vals[i].val : i \in {j \in Slots : vals[j].valid}})

\* compute_value_from_neighbours: fmax over the valid received values.
ComputeValue(mine, vals) ==
    SetMax({mine} \cup {vals[i].val : i \in {j \in Slots : vals[j].valid}})

\* "compute_values" (compute_all_values): num_neighbours becomes the number
\* of valid received values, the value is computed from them, and they are
\* cleared.
ComputeAllValues(n, q) ==
    /\ numNb' = [numNb EXCEPT ![n] =
                   Cardinality({i \in Slots : nVals[n][i].valid})]
    /\ myVal' = [myVal EXCEPT ![n] = ComputeValue(myVal[n], nVals[n])]
    /\ nVals' = [nVals EXCEPT ![n] = EmptyVals]
    /\ Pop(n, q) /\ UNCHANGED <<nbrs, inbox, own, drawn>> /\ ClockUnchanged

\* poisson_timer_start: active, and the soft timer (re)started by
\* poisson_timer_schedule.
PoissonTimerStart(n) ==
    /\ active' = [active EXCEPT ![n] = TRUE]
    /\ timer' = [timer EXCEPT ![n] = TRUE]

\* poisson_timer_stop: inactive, and the soft timer stopped.
PoissonTimerStop(n) ==
    /\ active' = [active EXCEPT ![n] = FALSE]
    /\ timer' = [timer EXCEPT ![n] = FALSE]

\* "clock-convergence-start <lambda>" (clock_convergence_start): num_wakeup
\* reset and the poisson timer started; without lambda (argc != 2) it
\* returns 1 and changes nothing.
ClockStart(n, q, a) ==
    /\ \/ a = "lambda" /\ numWakeup' = [numWakeup EXCEPT ![n] = 0]
          /\ PoissonTimerStart(n)
       \/ a = "" /\ ClockUnchanged
    /\ Pop(n, q) /\ UNCHANGED <<inbox>> /\ NetUnchanged /\ ValUnchanged

\* "clock-convergence-stop" (poisson_timer_stop).  A handler already posted
\* by the timer stays in the queue.
ClockStop(n, q) ==
    /\ PoissonTimerStop(n)
    /\ Pop(n, q) /\ UNCHANGED <<inbox, numWakeup>> /\ NetUnchanged
    /\ ValUnchanged

\* shell_call_handler with shell_find_cmd: the handler of the first word
\* runs; a word not in the table, "help" included, only prints the help.
ShellCallHandler(n, q, ln) ==
    \/ ln.cmd = "reset" /\ InitValues(n, q, ln.arg)
    \/ ln.cmd = "graph-create" /\ NeighboursDiscover(n, q)
    \/ ln.cmd = "graph-validate" /\ NeighboursAcknowledge(n, q)
    \/ ln.cmd = "neighbours" /\ NeighboursLoad(n, q, ln.load)
    \/ ln.cmd = "send_values" /\ SendValues(n, q, ln.arg)
    \/ ln.cmd = "compute_values" /\ ComputeAllValues(n, q)
    \/ ln.cmd = "clock-convergence-start" /\ ClockStart(n, q, ln.arg)
    \/ ln.cmd = "clock-convergence-stop" /\ ClockStop(n, q)
    \/ /\ ln.cmd \notin CmdNames
       /\ Pop(n, q) /\ UNCHANGED <<inbox>> /\ NetUnchanged /\ ValUnchanged
       /\ ClockUnchanged

\* parse_command at the head of the queue: shell_handle_line of whatever
\* command_buffer holds now, which shell_parse_line leaves cut to its first
\* word.
ParseCommand(n) ==
    /\ evQ[n] # <<>> /\ Head(evQ[n]) = "parse_command"
    /\ ShellCallHandler(n, Tail(evQ[n]), buf[n])
    /\ buf' = [buf EXCEPT ![n] = FirstWord(@)]
    /\ UNCHANGED <<cmds, clobbered>>

\* char_handler_irq at the '\n' of a line: the line is in command_buffer
\* and parse_command is posted from the interrupt (dropped when the queue
\* is full) with a pointer to that same buffer.
CharHandlerIrq(n) ==
    \E ln \in Lines :
        /\ cmds < MaxCmds
        /\ cmds' = cmds + 1
        /\ buf' = [buf EXCEPT ![n] = ln]
        /\ clobbered' = [clobbered EXCEPT ![n] = @ \/ Queued(n, "parse_command")]
        /\ evQ' = [evQ EXCEPT ![n] = Post(@, "parse_command")]
        /\ UNCHANGED <<nbrs, numNb, sendCfg, inbox, active, timer, numWakeup,
                       myVal, nVals, own, drawn, pending, lost>>

-----------------------------------------------------------------------------
(* do_send, at the head of the queue: mac_csma_data_send of send_cfg.  On  *)
(* success the broadcast reaches any subset of the other nodes; on failure *)
(* try is incremented and do_send re-posted while try < max_try.           *)
DoSend(n) ==
    LET q == Tail(evQ[n])
        c == sendCfg[n]
    IN /\ evQ[n] # <<>> /\ Head(evQ[n]) = "do_send"
       /\ \/ \E R \in SUBSET (Node \ {n}) : \E r \in [R -> RssiVals] :
                /\ inbox' = [m \in Node |->
                               IF m \in R /\ Len(inbox[m]) < InboxMax
                               THEN Append(inbox[m],
                                           [src |-> n, pkt |-> c.pkt, rssi |-> r[m]])
                               ELSE inbox[m]]
                /\ evQ' = [evQ EXCEPT ![n] = q]
                /\ pending' = [pending EXCEPT ![n] = FALSE]
                /\ UNCHANGED sendCfg
          \/ /\ sendCfg' = [sendCfg EXCEPT ![n].try = @ + 1]
             /\ IF c.try + 1 < c.maxTry
                THEN evQ' = [evQ EXCEPT ![n] = Post(q, "do_send")]
                     /\ UNCHANGED pending
                ELSE evQ' = [evQ EXCEPT ![n] = q]
                     /\ pending' = [pending EXCEPT ![n] = FALSE]
             /\ UNCHANGED inbox
       /\ UNCHANGED <<lost, buf, cmds, clobbered>> /\ NetUnchanged /\ ValUnchanged
       /\ ClockUnchanged

\* The soft timer of cfg.timer expires and posts poisson_timer_handler.
TimerExpire(n) ==
    /\ timer[n]
    /\ numWakeup[n] < MaxWakeup
    /\ timer' = [timer EXCEPT ![n] = FALSE]
    /\ evQ' = [evQ EXCEPT ![n] = Post(evQ[n], "clock")]
    /\ UNCHANGED <<inbox, active, numWakeup, sendCfg, pending, lost>>
    /\ UNCHANGED <<buf, cmds, clobbered>>
    /\ NetUnchanged /\ ValUnchanged

\* clock_convergence_handler: ++num_wakeup and network_send_no_retry of a
\* PKT_CLOCK (its virtual time is not modelled).
ClockConvergenceHandler(n, q) ==
    /\ numWakeup' = [numWakeup EXCEPT ![n] = @ + 1]
    /\ Send(n, q, Pkt(PKT_CLOCK, EmptyTable, 0, 0, 0), 1)

\* Mutant: poisson_timer_handler without the `active` test.
PoissonTimerHandlerNoActive(n) ==
    LET q == Tail(evQ[n])
    IN /\ evQ[n] # <<>> /\ Head(evQ[n]) = "clock"
       /\ ClockConvergenceHandler(n, q)
       /\ timer' = [timer EXCEPT ![n] = TRUE]
       /\ UNCHANGED <<inbox, active, buf, cmds, clobbered>> /\ NetUnchanged /\ ValUnchanged

\* poisson_timer_handler: returns if the timer is no longer active, else
\* clock_convergence_handler (++num_wakeup, network_send_no_retry of a
\* PKT_CLOCK) and poisson_timer_schedule.
PoissonTimerHandler(n) ==
    LET q == Tail(evQ[n])
    IN /\ evQ[n] # <<>> /\ Head(evQ[n]) = "clock"
       /\ \/ /\ ~active[n]
             /\ evQ' = [evQ EXCEPT ![n] = q]
             /\ UNCHANGED <<timer, numWakeup, sendCfg, pending, lost>>
          \/ /\ active[n]
             /\ ClockConvergenceHandler(n, q)
             /\ timer' = [timer EXCEPT ![n] = TRUE]
       /\ UNCHANGED <<inbox, active, buf, cmds, clobbered>> /\ NetUnchanged /\ ValUnchanged

\* computing_handle_values: store the packet at the neighbour's index and,
\* in gossip mode, compute_all_values_from_gossip.
ComputingHandleValues(n, idx, pkt) ==
    /\ nVals' = [nVals EXCEPT ![n][idx] =
                   [valid |-> TRUE, num |-> pkt.num, val |-> pkt.val]]
    /\ myVal' = [myVal EXCEPT ![n] =
                   IF pkt.sc = 1 THEN ComputeValueFromGossip(@, pkt.val) ELSE @]

\* mac_csma_data_received for the oldest received frame: PKT_GRAPH and
\* PKT_NEIGH update the table; other packets are dropped unless their
\* source is in the table, then PKT_VALUES is stored at its index
\* (computing_handle_values, with compute_all_values_from_gossip when
\* should_compute) and PKT_CLOCK only prints.
MacCsmaDataReceived(n) ==
    LET f == Head(inbox[n])
        tbl == nbrs[n]
        idx == NeighbourId(tbl, f.src)
        Add(rssi) ==
            /\ nbrs' = [nbrs EXCEPT ![n] = AddedTable(tbl, f.src, rssi)]
            /\ numNb' = [numNb EXCEPT ![n] = AddedCount(tbl, f.src, rssi, @)]
            /\ ValUnchanged
    IN /\ inbox[n] # <<>>
       /\ inbox' = [inbox EXCEPT ![n] = Tail(@)]
       /\ \/ f.pkt.type = PKT_GRAPH /\ Add(f.rssi)
          \/ f.pkt.type = PKT_NEIGH /\ Listed(n, f.pkt.tbl) /\ Add(INT8_MAX)
          \/ /\ f.pkt.type = PKT_NEIGH /\ ~Listed(n, f.pkt.tbl)
             /\ NetUnchanged /\ ValUnchanged
          \/ /\ f.pkt.type \in {PKT_VALUES, PKT_CLOCK} /\ idx = -1
             /\ NetUnchanged /\ ValUnchanged
          \/ /\ f.pkt.type = PKT_VALUES /\ idx # -1
             /\ ComputingHandleValues(n, idx, f.pkt)
             /\ UNCHANGED <<own, drawn>> /\ NetUnchanged
          \/ /\ f.pkt.type = PKT_CLOCK /\ idx # -1
             /\ NetUnchanged /\ ValUnchanged
       /\ UNCHANGED <<buf, cmds, clobbered>> /\ ClockUnchanged /\ SendUnchanged

-----------------------------------------------------------------------------
\* main: network_init, init_values(0, NULL) and a stopped clock.
Init ==
    /\ nbrs = [n \in Node |-> EmptyTable]
    /\ numNb = [n \in Node |-> 0]
    /\ sendCfg = [n \in Node |-> [try |-> 0, maxTry |-> 0, pkt |-> ZeroPkt]]
    /\ evQ = [n \in Node |-> <<>>]
    /\ inbox = [n \in Node |-> <<>>]
    /\ active = [n \in Node |-> FALSE]
    /\ timer = [n \in Node |-> FALSE]
    /\ numWakeup = [n \in Node |-> 0]
    /\ myVal \in [Node -> Vals]
    /\ nVals = [n \in Node |-> EmptyVals]
    /\ buf = [n \in Node |-> Line("", "", <<>>)]
    /\ cmds = 0
    /\ own = myVal
    /\ drawn = {myVal[n] : n \in Node}
    /\ pending = [n \in Node |-> FALSE]
    /\ lost = [n \in Node |-> FALSE]
    /\ clobbered = [n \in Node |-> FALSE]

Next ==
    \E n \in Node :
        \/ CharHandlerIrq(n) \/ ParseCommand(n)
        \/ DoSend(n) \/ TimerExpire(n) \/ PoissonTimerHandler(n)
        \/ MacCsmaDataReceived(n)

Spec == Init /\ [][Next]_vars

-----------------------------------------------------------------------------
PktType == [type : {PKT_GRAPH, PKT_NEIGH, PKT_VALUES, PKT_CLOCK},
            tbl : [Slots -> Ids \cup {0}], sc : {0, 1}, num : Nat, val : Int]

TypeOK ==
    /\ nbrs \in [Node -> [Slots -> Ids \cup {0}]]
    /\ numNb \in [Node -> Nat]
    /\ sendCfg \in [Node -> [try : Nat, maxTry : {0, 1, SendRetry}, pkt : PktType]]
    /\ \A n \in Node : evQ[n] \in Seq({"do_send", "clock", "parse_command"}) /\ Len(evQ[n]) <= EvQSize
    /\ \A n \in Node : inbox[n] \in Seq([src : Node, pkt : PktType,
                                          rssi : RssiVals \cup {INT8_MAX}])
                       /\ Len(inbox[n]) <= InboxMax
    /\ active \in [Node -> BOOLEAN] /\ timer \in [Node -> BOOLEAN]
    /\ numWakeup \in [Node -> Nat]
    /\ myVal \in [Node -> Vals]
    /\ nVals \in [Node -> [Slots -> [valid : BOOLEAN, num : Nat, val : Int]]]
    /\ own \in [Node -> Vals] /\ drawn \subseteq Vals
    /\ pending \in [Node -> BOOLEAN] /\ lost \in [Node -> BOOLEAN]
    /\ buf \in [Node -> Lines \cup {FirstWord(ln) : ln \in Lines}
                         \cup {Line("", "", <<>>)}]
    /\ clobbered \in [Node -> BOOLEAN]

\* Gossip by fmax (compute_value_from_gossip, compute_value_from_neighbours,
\* computing_handle_values): a node's value is never below the value it
\* drew at its last "reset values", and it and every value stored from a
\* neighbour is one that some node drew, whatever the losses, retries and
\* overwritten sends of the radio.
GossipIsMaxOfDraws ==
    \A n \in Node :
        /\ myVal[n] >= own[n]
        /\ myVal[n] \in drawn
        /\ \A i \in Slots : nVals[n][i].valid => nVals[n][i].val \in drawn

\* poisson_timer_stop (the `active` comment of poisson_clock.c): once the
\* clock is stopped, a handler already queued neither wakes the algorithm
\* (num_wakeup, a PKT_CLOCK send) nor restarts the soft timer, until the
\* next clock-convergence-start.
ClockStaysStopped ==
    [][\A n \in Node :
         ~active[n] /\ ~active'[n] =>
            /\ ~timer'[n]
            /\ numWakeup'[n] = numWakeup[n]]_vars

\* send() hands every packet to do_send: a send never overwrites a packet of
\* the static send_cfg that has been neither transmitted nor given up.
SendNotLost == \A n \in Node : ~lost[n]

\* lib/shell hands parse_command a pointer to its one command_buffer: a line
\* is never overwritten by the next one before its parse_command has run.
ShellLineNotClobbered == \A n \in Node : ~clobbered[n]

=============================================================================
