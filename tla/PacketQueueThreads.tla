------------------------- MODULE PacketQueueThreads -------------------------
(***************************************************************************)
(* Threads calling one RawPacketQueue (capture/src/raw_packet_queue.cpp).  *)
(* Each call holds the mutex throughout, so it is one step, except waitPop,*)
(* which sleeps on the condition variable packetAvailable: it blocks in    *)
(* one step and looks at the queue again in a later one, after a           *)
(* notification or after a spurious wakeup.  push, close and reset may be  *)
(* called by any thread that is not asleep, in any order.                  *)
(***************************************************************************)
EXTENDS RawPacketQueue, FiniteSets

CONSTANTS
    Consumer,     \* threads that call waitPop
    MaxDropped    \* bound on droppedPacketCount, a size_t in the code

ASSUME ThreadsAssumption == IsFiniteSet(Consumer) /\ MaxDropped \in Nat

VARIABLES
    queue,        \* the RawPacketQueue
    consumer,     \* where each consumer is: outside, waiting or notified
    answer        \* what its last waitPop returned, BlankPacket for false

vars == <<queue, consumer, answer>>

Waiting  == {c \in Consumer : consumer[c] = "waiting"}
Notified == {c \in Consumer : consumer[c] = "notified"}

TypeOK == /\ queue \in Queue
          /\ consumer \in [Consumer -> {"outside", "waiting", "notified"}]
          /\ answer \in [Consumer -> Packet \cup {BlankPacket}]

Init == /\ queue = NewQueue
        /\ consumer = [c \in Consumer |-> "outside"]
        /\ answer = [c \in Consumer |-> BlankPacket]

-----------------------------------------------------------------------------
\* notify_one wakes any one sleeping thread, and nobody when none sleeps.
NotifyOne == IF Waiting = {} THEN UNCHANGED consumer
             ELSE \E c \in Waiting :
                    consumer' = [consumer EXCEPT ![c] = "notified"]

\* MUTANT of NotifyAll: close() wakes one thread only.
NotifyAllAsOne == NotifyOne

NotifyAll == consumer' = [c \in Consumer |->
                            IF consumer[c] = "waiting" THEN "notified"
                            ELSE consumer[c]]

\* MUTANT of PushCall: notify only when the queue was empty.
PushCallOnEmpty(p) ==
    /\ queue.droppedPacketCount < MaxDropped \/ ~IsFull(queue)
    /\ queue' = Push(queue, p)
    /\ IF Accepts(queue, p) /\ queue.packetCount = 0
       THEN NotifyOne ELSE UNCHANGED consumer
    /\ UNCHANGED answer

PushCall(p) ==
    /\ queue.droppedPacketCount < MaxDropped \/ ~IsFull(queue)
    /\ queue' = Push(queue, p)
    /\ IF Accepts(queue, p) THEN NotifyOne ELSE UNCHANGED consumer
    /\ UNCHANGED answer

\* The wait in waitPop: return when the predicate holds, else go to sleep.
Return(c) ==
    /\ CanReturn(queue)
    /\ queue' = Pop(queue)
    /\ answer' = [answer EXCEPT ![c] = IF queue.packetCount > 0
                                       THEN Oldest(queue)
                                       ELSE BlankPacket]
    /\ consumer' = [consumer EXCEPT ![c] = "outside"]

Sleep(c) ==
    /\ ~CanReturn(queue)
    /\ consumer' = [consumer EXCEPT ![c] = "waiting"]
    /\ UNCHANGED <<queue, answer>>

WaitPopCall(c) == consumer[c] = "outside" /\ (Return(c) \/ Sleep(c))

WakeUp(c) == consumer[c] = "notified" /\ (Return(c) \/ Sleep(c))

SpuriousWakeUp(c) ==
    /\ consumer[c] = "waiting"
    /\ consumer' = [consumer EXCEPT ![c] = "notified"]
    /\ UNCHANGED <<queue, answer>>

CloseCall == queue' = Close(queue) /\ NotifyAll /\ UNCHANGED answer

ResetCall == queue' = Reset(queue) /\ UNCHANGED <<consumer, answer>>

Next == \/ \E p \in Packet : PushCall(p)
        \/ \E c \in Consumer : WaitPopCall(c) \/ WakeUp(c) \/ SpuriousWakeUp(c)
        \/ CloseCall
        \/ ResetCall

Spec == Init /\ [][Next]_vars

\* A notified thread runs: the scheduler and the mutex are fair to it.
FairSpec == Spec /\ \A c \in Consumer : WF_vars(WakeUp(c))

-----------------------------------------------------------------------------
\* The queue's circular bookkeeping holds together under any interleaving:
\* raw_packet_queue.cpp lines 63-73 and 92-95 move two indices and a count
\* separately and never recompute one from the others.
IndicesOK == IndicesAgree(queue)

\* No lost wakeup: a consumer sleeps only while the queue is open, and every
\* packet in the queue has a consumer already on its way to it.  push calls
\* notify_one once per packet, while waitPop may be overtaken by a consumer
\* that never slept (raw_packet_queue.cpp lines 75, 88-90 and 109).
NoLostWakeup ==
    Waiting # {} => /\ ~queue.closed
                    /\ queue.packetCount <= Cardinality(Notified)

\* The indices, the slots and the condition variable implement the bounded
\* drop-oldest FIFO the header documents.
Fifo == INSTANCE DropOldestFifo
            WITH fifo <- Contents(queue), dropped <- queue.droppedPacketCount,
                 open <- ~queue.closed, Nothing <- BlankPacket
ImplementsFifo == Fifo!Spec

\* close() releases its consumers: a consumer asleep when the queue is closed
\* leaves waitPop unless the queue is reopened first
\* (raw_packet_queue.h line 79, "wakes every waiting consumer").
CloseReleases ==
    \A c \in Consumer : (queue.closed /\ consumer[c] # "outside")
                            ~> (consumer[c] = "outside" \/ ~queue.closed)
=============================================================================
