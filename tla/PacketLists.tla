----------------------------- MODULE PacketLists -----------------------------
(***************************************************************************)
(* Pure operators over the intrusive packet lists of iotlab_packet.c and  *)
(* the handler list of iotlab_serial.c.  A list is a sequence of packet   *)
(* handles, head first; a packet's priority is given by a function pr.    *)
(***************************************************************************)
EXTENDS Naturals, Sequences, SequencesExt

(* LIST_PUT(&queue->head, p): p becomes the first element.                *)
ListPut(list, p) == <<p>> \o list

(* LIST_GET(&queue->head, p): the first element is unlinked.              *)
ListGet(list) == Tail(list)

(* Plausible bug: the scan also stops at an entry of equal priority.      *)
PrioInsertIndexGe(list, p, pr) ==
    LET i == SelectInSeq(list, LAMBDA q : pr[p] >= pr[q])
    IN  IF i = 0 THEN Len(list) + 1 ELSE i

(* Plausible bug: the scan never stops (plain FIFO append).               *)
PrioInsertIndexTail(list, p, pr) == Len(list) + 1

(* The loop of iotlab_packet_fifo_prio_append: walk from the head and     *)
(* stop before the first entry whose priority is strictly lower than p's; *)
(* if none, p goes last.                                                  *)
PrioInsertIndex(list, p, pr) ==
    LET i == SelectInSeq(list, LAMBDA q : pr[p] > pr[q])
    IN  IF i = 0 THEN Len(list) + 1 ELSE i

PrioInsert(list, p, pr) == InsertAt(list, PrioInsertIndex(list, p, pr), p)

(* Plausible bug: new_packet not given on the 0 -> 1 transition.          *)
GiveOnFirstNever(f) == FALSE

(* iotlab_packet_fifo_prio_append: new_packet is given when count was 0.  *)
GiveOnFirst(f) == f = <<>>

(* iotlab_serial_register_handler inserts at the head of the list.        *)
RegisterHandler(table, h) == <<h>> \o table

(* iotlab_serial_get_handler: the first (newest) entry for the type, or   *)
(* none (0) when no entry matches.  Entries are records [type, id].       *)
GetHandler(table, type) == SelectInSeq(table, LAMBDA h : h.type = type)
=============================================================================
