-------------------------------- MODULE MeasPkt --------------------------------
(***************************************************************************)
(* cn_meas_pkt.c: a measures packet as its t_ref_s and its records, each   *)
(* record with its byte size and its uint32 offset from t_ref_s.  Shared  *)
(* by the producers of cn_event.c (MeasBatch) and cn_consumption.c        *)
(* (Consumption).  Times are [sec, usec] with USec playing 10^6.          *)
(***************************************************************************)
EXTENDS Integers, Sequences, SequencesExt, PacketLists

CONSTANTS USec,     \* 1000000
          OffMod,   \* 2^32: width of micros_since_base
          DataMax,  \* IOTLAB_SERIAL_DATA_MAX_SIZE
          NULL

Header == 5            \* count byte + uint32 t_ref_s
Sec == USec            \* SEC of cn_meas_pkt.c

(* Plausible bug: the microseconds of the timestamp are left out.         *)
UsSinceNoUsec(tref, ts) == ((ts.sec - tref) * Sec) % OffMod

(* _us_since_packet_ref: tv_usec + (tv_sec - t_ref_s) * SEC, in uint32.   *)
UsSince(tref, ts) == (ts.usec + (ts.sec - tref) * Sec) % OffMod

(* Plausible bug: the packet-full test is left out.                      *)
ShouldSendNoFull(len, usecs, msize) == usecs > 2 * Sec

(* _pkt_should_send: less free space than one more measure, or more than  *)
(* two seconds since t_ref_s.                                             *)
ShouldSend(len, usecs, msize) == \/ DataMax - len < msize
                                 \/ usecs > 2 * Sec

(* Plausible bug: cn_meas_pkt_flush leaves the slot pointing at the sent  *)
(* packet.                                                                *)
FlushedSlotKept(m) == m

(* cn_meas_pkt_flush: *packet_p = NULL after the send.                    *)
FlushedSlot(m) == NULL

(* Packet length: the header, then for each record its offset and fields *)
(* (iotlab_packet_append_data adds each size, unchecked).                 *)
LengthIn(c, m) == Header + FoldSeq(LAMBDA r, acc : acc + r.size, 0, c[m].recs)

(* cn_meas_pkt_flush of packet m with contents c, TX FIFO q, free list fl *)
(* and priorities pr: send_frame, or free when it rejects the packet      *)
(* (length over the payload maximum).  The caller clears the slot.        *)
Flush(m, c, q, fl, pr) ==
    IF LengthIn(c, m) > DataMax THEN [tx |-> q, pool |-> fl \cup {m}]
    ELSE [tx |-> PrioInsert(q, m, pr), pool |-> fl]

(* cn_meas_pkt_lazy_alloc for a fresh packet: count 0, length 1, then    *)
(* t_ref_s = timestamp->tv_sec.                                           *)
LazyAlloc(ts) == [tref |-> ts.sec, recs |-> <<>>]

(* cn_meas_pkt_add_measure: count++, the uint32 offset, then the fields;  *)
(* the caller asks _pkt_should_send.                                      *)
AddMeasure(pkt, rec) == [pkt EXCEPT !.recs = Append(@, rec)]
=============================================================================
