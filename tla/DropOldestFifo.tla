--------------------------- MODULE DropOldestFifo ---------------------------
(***************************************************************************)
(* What RawPacketQueue promises its callers (capture/inc/raw_packet_queue.h *)
(* lines 49-89), with no slots, indices or condition variable: a bounded    *)
(* FIFO that never makes a producer wait, forgets its oldest packet when    *)
(* full and counts what it forgot, drains after it was closed, and answers  *)
(* "no packet" only when it is closed and empty.                            *)
(***************************************************************************)
EXTENDS BoundedBuffer

CONSTANTS Capacity, Acceptable, Consumer, Nothing

VARIABLES fifo, dropped, open, answer
vars == <<fifo, dropped, open, answer>>

Init == /\ fifo = << >>
        /\ dropped = 0
        /\ open = TRUE
        /\ answer = [c \in Consumer |-> Nothing]

Put(p) == /\ open
          /\ Capacity > 0
          /\ fifo' = Insert(fifo, p, Capacity)
          /\ dropped' = IF Len(fifo) < Capacity THEN dropped ELSE dropped + 1
          /\ UNCHANGED <<open, answer>>

Take(c) == /\ fifo # << >>
           /\ answer' = [answer EXCEPT ![c] = Head(fifo)]
           /\ fifo' = Tail(fifo)
           /\ UNCHANGED <<dropped, open>>

Drained(c) == /\ fifo = << >>
              /\ ~open
              /\ answer' = [answer EXCEPT ![c] = Nothing]
              /\ UNCHANGED <<fifo, dropped, open>>

Shut == open' = FALSE /\ UNCHANGED <<fifo, dropped, answer>>

Reopen == fifo' = << >> /\ dropped' = 0 /\ open' = TRUE /\ UNCHANGED answer

Next == \/ \E p \in Acceptable : Put(p)
        \/ \E c \in Consumer : Take(c) \/ Drained(c)
        \/ Shut
        \/ Reopen

Spec == Init /\ [][Next]_vars
=============================================================================
