--------------------------- MODULE RawPacketQueue ---------------------------
(***************************************************************************)
(* The bounded packet buffer of capture/src/raw_packet_queue.cpp as a      *)
(* value.  Every operator is the effect of one member function between the *)
(* lock and the unlock of its mutex; who calls it, and who sleeps on       *)
(* packetAvailable, is the business of the modules that use it.            *)
(***************************************************************************)
EXTENDS Naturals, Sequences

CONSTANTS
    Capacity,       \* packets.size(): fixed when the queue is constructed
    Packet,         \* what a caller of push may offer
    Acceptable,     \* non-null data of 1..kRawUsbPacketMaxSize bytes
    BlankPacket     \* the value-initialised content of a slot never written

ASSUME QueueAssumption ==
    /\ Capacity \in Nat
    /\ Acceptable \subseteq Packet
    /\ BlankPacket \notin Packet

Slot == 0 .. Capacity - 1

Queue == [slots              : [Slot -> Packet \cup {BlankPacket}],
          readIndex          : Nat,
          writeIndex         : Nat,
          packetCount        : 0 .. Capacity,
          droppedPacketCount : Nat,
          closed             : BOOLEAN]

NewQueue == [slots              |-> [i \in Slot |-> BlankPacket],
             readIndex          |-> 0,
             writeIndex         |-> 0,
             packetCount        |-> 0,
             droppedPacketCount |-> 0,
             closed             |-> FALSE]

Advance(index) == (index + 1) % Capacity

IsFull(q) == q.packetCount = Capacity

\* The guard of push; a queue of no capacity accepts nothing.
Accepts(q, p) == ~q.closed /\ Capacity > 0 /\ p \in Acceptable

\* MUTANT of Push: the read index of a full queue left behind.
PushKeepsReadIndex(q, p) ==
    IF ~Accepts(q, p) THEN q
    ELSE [q EXCEPT
            !.packetCount        = IF IsFull(q) THEN @ ELSE @ + 1,
            !.droppedPacketCount = IF IsFull(q) THEN @ + 1 ELSE @,
            !.slots[q.writeIndex] = p,
            !.writeIndex         = Advance(@)]

\* push: a full queue gives up its oldest packet before the insertion.
Push(q, p) ==
    IF ~Accepts(q, p) THEN q
    ELSE [q EXCEPT
            !.readIndex          = IF IsFull(q) THEN Advance(@) ELSE @,
            !.packetCount        = IF IsFull(q) THEN @ ELSE @ + 1,
            !.droppedPacketCount = IF IsFull(q) THEN @ + 1 ELSE @,
            !.slots[q.writeIndex] = p,
            !.writeIndex         = Advance(@)]

\* The predicate waitPop waits for.
CanReturn(q) == q.packetCount > 0 \/ q.closed

Oldest(q) == q.slots[q.readIndex]

\* waitPop once the predicate holds; a closed and empty queue is left alone.
Pop(q) ==
    IF q.packetCount = 0 THEN q
    ELSE [q EXCEPT !.readIndex = Advance(@), !.packetCount = @ - 1]

Close(q) == [q EXCEPT !.closed = TRUE]

\* reset: the slots keep their old content, only the bookkeeping starts over.
Reset(q) == [slots              |-> q.slots,
             readIndex          |-> 0,
             writeIndex         |-> 0,
             packetCount        |-> 0,
             droppedPacketCount |-> 0,
             closed             |-> FALSE]

-----------------------------------------------------------------------------
\* The retained packets, oldest first: what the indices stand for.
Contents(q) ==
    [i \in 1 .. q.packetCount |-> q.slots[(q.readIndex + i - 1) % Capacity]]

\* The indices of a reachable queue: both in range, and the write index
\* packetCount slots ahead of the read index.
IndicesAgree(q) ==
    \/ /\ Capacity = 0
       /\ q.readIndex = 0 /\ q.writeIndex = 0
    \/ /\ q.readIndex \in Slot
       /\ q.writeIndex = (q.readIndex + q.packetCount) % Capacity
=============================================================================
