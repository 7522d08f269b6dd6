----------------------------- MODULE PacketQueue -----------------------------
(***************************************************************************)
(* iotlab_packet.c: one packet pool (free list) and one priority FIFO,    *)
(* used by allocator tasks (which allocate, then either append the packet *)
(* to the FIFO or free it) and by one consumer task (the serial TX task:  *)
(* iotlab_packet_fifo_get, then free).  Every region the code runs under  *)
(* queue->mutex is one atomic action; the emptiness test of              *)
(* iotlab_packet_alloc, which the code runs before taking the mutex, is a *)
(* step of its own.                                                       *)
(***************************************************************************)
EXTENDS Integers, Sequences, FiniteSets, SequencesExt, PacketLists

CONSTANTS Packets,     \* the static packet array given to init_queue
          Allocators,  \* tasks that allocate from the pool
          Consumer,    \* the task blocked in iotlab_packet_fifo_get
          Prios,       \* priorities an allocator may give a packet
          MaxStamp,    \* bound on appends (names arrival stamps 1..MaxStamp)
          NULL

ASSUME Consumer \notin Allocators /\ NULL \notin Packets /\ 0 \in Prios

Tasks == Allocators \cup {Consumer}

VARIABLES pool,       \* free list of the pool, head first
          count,      \* pool->count
          fifo,       \* the FIFO's list, head first
          newPacket,  \* fifo->new_packet: 1 when it can be taken
          prio,       \* packet->priority
          pc,         \* where each task is
          held,       \* the packet a task holds, or NULL
          stamp,      \* auxiliary: arrival stamp of the packet's last append
          clock       \* auxiliary: number of appends so far

vars == <<pool, count, fifo, newPacket, prio, pc, held, stamp, clock>>

Holders(p) == {t \in Tasks : held[t] = p}

-----------------------------------------------------------------------------
(* iotlab_packet_init_queue(queue, packets, n): every packet freed into   *)
(* the pool; new_packet created with xSemaphoreCreateMutex, hence         *)
(* initially available.  The FIFO is initialised with no packets.         *)
Init == /\ pool = SetToSeq(Packets)
        /\ count = Cardinality(Packets)
        /\ fifo = <<>>
        /\ newPacket = 1
        /\ prio = [p \in Packets |-> 0]
        /\ pc = [t \in Tasks |-> IF t = Consumer THEN "get" ELSE "idle"]
        /\ held = [t \in Tasks |-> NULL]
        /\ stamp = [p \in Packets |-> 0]
        /\ clock = 0

(* Plausible bug: the count == 0 early return is dropped.                *)
AllocCheckNoGuard(t) ==
    /\ pc[t] = "idle"
    /\ pc' = [pc EXCEPT ![t] = "alloc"]
    /\ UNCHANGED <<pool, count, fifo, newPacket, prio, held, stamp, clock>>

(* iotlab_packet_alloc, lines before the mutex: return NULL when          *)
(* count == 0 (no state change), else go on to the locked region.         *)
AllocCheck(t) ==
    /\ pc[t] = "idle"
    /\ count # 0
    /\ pc' = [pc EXCEPT ![t] = "alloc"]
    /\ UNCHANGED <<pool, count, fifo, newPacket, prio, held, stamp, clock>>

(* iotlab_packet_alloc, under the mutex: LIST_GET and --count.  On an     *)
(* empty list LIST_GET dereferences NULL: the task is left faulted.       *)
AllocLocked(t) ==
    /\ pc[t] = "alloc"
    /\ count' = count - 1
    /\ IF pool = <<>>
       THEN /\ pc' = [pc EXCEPT ![t] = "fault"]
            /\ UNCHANGED <<pool, held>>
       ELSE /\ held' = [held EXCEPT ![t] = Head(pool)]
            /\ pool' = ListGet(pool)
            /\ pc' = [pc EXCEPT ![t] = "own"]
    /\ UNCHANGED <<fifo, newPacket, prio, stamp, clock>>

(* Allocator sets packet->priority and appends it to the FIFO.            *)
PrioAppend(t, pr) ==
    LET p == held[t] IN
    /\ pc[t] = "own"
    /\ clock < MaxStamp
    /\ prio' = [prio EXCEPT ![p] = pr]
    /\ fifo' = PrioInsert(fifo, p, prio')
    /\ newPacket' = IF GiveOnFirst(fifo) THEN 1 ELSE newPacket
    /\ clock' = clock + 1
    /\ stamp' = [stamp EXCEPT ![p] = clock']
    /\ held' = [held EXCEPT ![t] = NULL]
    /\ pc' = [pc EXCEPT ![t] = "idle"]
    /\ UNCHANGED <<pool, count>>

(* iotlab_packet_free: LIST_PUT on packet->storage and count++.           *)
Free(t, next) ==
    /\ pc[t] = "own"
    /\ pool' = ListPut(pool, held[t])
    /\ count' = count + 1
    /\ held' = [held EXCEPT ![t] = NULL]
    /\ pc' = [pc EXCEPT ![t] = next]
    /\ UNCHANGED <<fifo, newPacket, prio, stamp, clock>>

(* iotlab_packet_fifo_get: with the mutex held, take the head if count    *)
(* is not 0; otherwise give the mutex back and block on new_packet.       *)
FifoGet ==
    /\ pc[Consumer] = "get"
    /\ IF fifo # <<>>
       THEN /\ held' = [held EXCEPT ![Consumer] = Head(fifo)]
            /\ fifo' = Tail(fifo)
            /\ pc' = [pc EXCEPT ![Consumer] = "own"]
       ELSE /\ pc' = [pc EXCEPT ![Consumer] = "wait"]
            /\ UNCHANGED <<fifo, held>>
    /\ UNCHANGED <<pool, count, newPacket, prio, stamp, clock>>

(* xSemaphoreTake(new_packet) returns; the loop re-takes the mutex and    *)
(* tests count again.                                                     *)
FifoWake ==
    /\ pc[Consumer] = "wait"
    /\ newPacket = 1
    /\ newPacket' = 0
    /\ pc' = [pc EXCEPT ![Consumer] = "get"]
    /\ UNCHANGED <<pool, count, fifo, prio, held, stamp, clock>>

AllocatorStep(t) ==
    \/ AllocCheck(t)
    \/ AllocLocked(t)
    \/ \E pr \in Prios : PrioAppend(t, pr)
    \/ Free(t, "idle")

ConsumerStep == FifoGet \/ FifoWake \/ Free(Consumer, "get")

Next == (\E t \in Allocators : AllocatorStep(t)) \/ ConsumerStep

(* The TX task runs whenever it is ready (it has the highest priority).   *)
Spec == Init /\ [][Next]_vars /\ WF_vars(ConsumerStep)

-----------------------------------------------------------------------------
TypeOK ==
    /\ pool \in Seq(Packets) /\ fifo \in Seq(Packets)
    /\ count \in 0..Cardinality(Packets) /\ newPacket \in {0, 1}
    /\ prio \in [Packets -> Prios]
    /\ pc \in [Tasks -> {"idle", "alloc", "own", "fault", "get", "wait"}]
    /\ held \in [Tasks -> Packets \cup {NULL}]
    /\ stamp \in [Packets -> 0..MaxStamp] /\ clock \in 0..MaxStamp

(* The pool's count mirrors its list, and every packet is in exactly one  *)
(* place: the pool, the FIFO or one task's hands.  Broken if the          *)
(* unlocked count test of iotlab_packet_alloc lets two allocators race    *)
(* for the last packet, or if a free or a get loses track of a packet.    *)
PoolAccounting ==
    /\ count = Len(pool)
    /\ \A p \in Packets :
          Cardinality({i \in 1..Len(pool) : pool[i] = p})
        + Cardinality({i \in 1..Len(fifo) : fifo[i] = p})
        + Cardinality(Holders(p)) = 1

(* Every packet appended to the FIFO is eventually taken by the consumer: *)
(* the new_packet hand-off loses no wake-up.                              *)
AppendedEventuallyTaken ==
    \A p \in Packets : Contains(fifo, p) ~> ~Contains(fifo, p)

(* The FIFO implements the abstract priority queue: each get removes a    *)
(* highest-priority entry, the earliest appended among equals.            *)
Abstract == INSTANCE PrioQueueAbstract
               WITH entries <- {[pkt |-> fifo[i], prio |-> prio[fifo[i]],
                                 stamp |-> stamp[fifo[i]]] : i \in 1..Len(fifo)},
                    Stamps <- 0..MaxStamp
AbstractSpec == Abstract!Spec
=============================================================================
