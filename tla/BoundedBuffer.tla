---------------------------- MODULE BoundedBuffer ----------------------------
(***************************************************************************)
(* A bounded sequence that makes room for a new element by forgetting its  *)
(* oldest: the overflow policy that raw_packet_queue.h line 70 and         *)
(* waveform_ring_buffer.h line 69 document for both buffers of the         *)
(* capture pipeline.                                                       *)
(***************************************************************************)
EXTENDS Naturals, Sequences

Insert(s, x, capacity) == IF Len(s) < capacity THEN Append(s, x)
                                               ELSE Append(Tail(s), x)
=============================================================================
