------------------------ MODULE RawPacketQueueProofs ------------------------
(***************************************************************************)
(* What PacketQueueThreads guarantees for every capacity, every set of     *)
(* packets and every finite set of consumers.                              *)
(***************************************************************************)
EXTENDS PacketQueueThreads, CircularIndex, FiniteSetTheorems, SequenceTheorems,
        TLAPS

-----------------------------------------------------------------------------
\* The operations of the queue keep its type and its bookkeeping.

LEMMA NewQueueOK == NewQueue \in Queue /\ IndicesAgree(NewQueue)
<1> USE QueueAssumption
<1>1. NewQueue \in Queue
  BY DEF NewQueue, Queue, Slot
<1>2. ASSUME Capacity # 0
      PROVE  /\ NewQueue.readIndex \in Slot
             /\ NewQueue.writeIndex
                  = (NewQueue.readIndex + NewQueue.packetCount) % Capacity
  BY <1>2, ModSmall DEF NewQueue, Slot
<1> QED BY <1>1, <1>2 DEF IndicesAgree, NewQueue

LEMMA ResetOK ==
    ASSUME NEW q \in Queue
    PROVE  Reset(q) \in Queue /\ IndicesAgree(Reset(q))
<1> USE QueueAssumption
<1>1. Reset(q) \in Queue
  BY DEF Reset, Queue
<1>2. ASSUME Capacity # 0
      PROVE  /\ Reset(q).readIndex \in Slot
             /\ Reset(q).writeIndex
                  = (Reset(q).readIndex + Reset(q).packetCount) % Capacity
  BY <1>2, ModSmall DEF Reset, Slot
<1> QED BY <1>1, <1>2 DEF IndicesAgree, Reset

LEMMA CloseOK ==
    ASSUME NEW q \in Queue, IndicesAgree(q)
    PROVE  Close(q) \in Queue /\ IndicesAgree(Close(q))
BY DEF Close, Queue, IndicesAgree

LEMMA PopOK ==
    ASSUME NEW q \in Queue, IndicesAgree(q)
    PROVE  Pop(q) \in Queue /\ IndicesAgree(Pop(q))
<1> USE QueueAssumption
<1>1. CASE q.packetCount = 0
  BY <1>1 DEF Pop
<1>2. CASE q.packetCount # 0
  <2>1. Capacity # 0 /\ q.readIndex \in 0 .. Capacity - 1
    BY <1>2 DEF Queue, IndicesAgree, Slot
  <2>2. /\ Pop(q).readIndex = (q.readIndex + 1) % Capacity
        /\ Pop(q).writeIndex = q.writeIndex
        /\ Pop(q).packetCount = q.packetCount - 1
    BY <1>2 DEF Pop, Queue, Advance
  <2>3. Pop(q).readIndex \in Slot
    BY <2>1, <2>2, AdvanceStep DEF Slot
  <2>4. Pop(q) \in Queue
    <3>1. Pop(q) = [slots |-> q.slots, readIndex |-> Advance(q.readIndex),
                    writeIndex |-> q.writeIndex,
                    packetCount |-> q.packetCount - 1,
                    droppedPacketCount |-> q.droppedPacketCount,
                    closed |-> q.closed]
      BY <1>2 DEF Pop, Queue
    <3>2. Advance(q.readIndex) \in Nat
      BY <2>2, <2>3 DEF Slot, Advance
    <3>3. q.packetCount - 1 \in 0 .. Capacity
      BY <1>2 DEF Queue
    <3> QED BY <3>1, <3>2, <3>3 DEF Queue
  <2>5. /\ (q.readIndex + q.packetCount) % Capacity
            = IF q.readIndex + q.packetCount < Capacity
              THEN q.readIndex + q.packetCount
              ELSE q.readIndex + q.packetCount - Capacity
    BY <2>1, Offset DEF Queue
  <2>6. q.writeIndex = (q.readIndex + q.packetCount) % Capacity
    BY <2>1 DEF IndicesAgree
  <2>7. Pop(q).writeIndex
          = (Pop(q).readIndex + Pop(q).packetCount) % Capacity
    <3> DEFINE r == Pop(q).readIndex
               k == Pop(q).packetCount
    <3>1. r = IF q.readIndex + 1 = Capacity THEN 0 ELSE q.readIndex + 1
      BY <2>1, <2>2, AdvanceStep
    <3>2. k \in 0 .. Capacity /\ r \in 0 .. Capacity - 1
      BY <2>3, <2>4 DEF Queue, Slot
    <3>3. (r + k) % Capacity = IF r + k < Capacity THEN r + k
                                                   ELSE r + k - Capacity
      <4> HIDE DEF r, k
      <4> QED BY <2>1, <3>2, Offset
    <3> QED BY <1>2, <2>1, <2>2, <2>5, <2>6, <3>1, <3>3 DEF Queue
  <2> QED BY <2>3, <2>4, <2>7 DEF IndicesAgree
<1> QED BY <1>1, <1>2

LEMMA PushOK ==
    ASSUME NEW q \in Queue, IndicesAgree(q), NEW p \in Packet
    PROVE  Push(q, p) \in Queue /\ IndicesAgree(Push(q, p))
<1> USE QueueAssumption
<1>1. CASE ~Accepts(q, p)
  BY <1>1 DEF Push
<1>2. CASE Accepts(q, p)
  <2> DEFINE r == IF IsFull(q) THEN Advance(q.readIndex) ELSE q.readIndex
             k == IF IsFull(q) THEN q.packetCount ELSE q.packetCount + 1
             d == IF IsFull(q) THEN q.droppedPacketCount + 1
                               ELSE q.droppedPacketCount
             w == Advance(q.writeIndex)
  <2>1. /\ Capacity \in Nat \ {0}
        /\ q.readIndex \in 0 .. Capacity - 1
        /\ q.packetCount \in 0 .. Capacity
        /\ q.writeIndex = (q.readIndex + q.packetCount) % Capacity
    BY <1>2 DEF Accepts, Queue, IndicesAgree, Slot
  <2>2. /\ q.writeIndex = IF q.readIndex + q.packetCount < Capacity
                          THEN q.readIndex + q.packetCount
                          ELSE q.readIndex + q.packetCount - Capacity
        /\ q.writeIndex \in 0 .. Capacity - 1
    BY <2>1, Offset
  <2>3. Push(q, p) = [slots |-> [q.slots EXCEPT ![q.writeIndex] = p],
                      readIndex |-> r, writeIndex |-> w, packetCount |-> k,
                      droppedPacketCount |-> d, closed |-> q.closed]
    BY <1>2 DEF Push, Queue
  <2>4. w = IF q.writeIndex + 1 = Capacity THEN 0 ELSE q.writeIndex + 1
    BY <2>1, <2>2, AdvanceStep DEF Advance
  <2>5. r = IF q.packetCount = Capacity
            THEN IF q.readIndex + 1 = Capacity THEN 0 ELSE q.readIndex + 1
            ELSE q.readIndex
    BY <2>1, AdvanceStep DEF Advance, IsFull
  <2>6. k = IF q.packetCount = Capacity THEN Capacity ELSE q.packetCount + 1
    BY DEF IsFull
  <2>7. [q.slots EXCEPT ![q.writeIndex] = p]
            \in [Slot -> Packet \cup {BlankPacket}]
    BY DEF Queue
  <2>8. d \in Nat /\ q.closed \in BOOLEAN
    BY DEF Queue
  <2> HIDE DEF r, k, d, w
  <2>9. /\ r \in 0 .. Capacity - 1
        /\ w \in 0 .. Capacity - 1
        /\ k \in 0 .. Capacity
    <3>1. r \in 0 .. Capacity - 1
      BY <2>1, <2>5
    <3>2. w \in 0 .. Capacity - 1
      BY <2>1, <2>2, <2>4
    <3>3. k \in 0 .. Capacity
      BY <2>1, <2>6
    <3> QED BY <3>1, <3>2, <3>3
  <2>10. w = (r + k) % Capacity
    <3>1. (r + k) % Capacity = IF r + k < Capacity THEN r + k
                                                   ELSE r + k - Capacity
      BY <2>1, <2>9, Offset
    <3>2. CASE q.packetCount = Capacity
      BY <2>1, <2>2, <2>4, <2>5, <2>6, <3>1, <3>2
    <3>3. CASE q.packetCount # Capacity
      BY <2>1, <2>2, <2>4, <2>5, <2>6, <3>1, <3>3
    <3> QED BY <3>2, <3>3
  <2>11. Push(q, p) \in Queue
    BY <2>3, <2>7, <2>8, <2>9 DEF Queue
  <2> QED BY <2>3, <2>9, <2>10, <2>11 DEF IndicesAgree, Slot
<1> QED BY <1>1, <1>2

-----------------------------------------------------------------------------
\* What the operations do to the retained packets.

LEMMA ContentsSeq ==
    ASSUME NEW q \in Queue, IndicesAgree(q)
    PROVE  /\ Contents(q) \in Seq(Packet \cup {BlankPacket})
           /\ Len(Contents(q)) = q.packetCount
           /\ DOMAIN Contents(q) = 1 .. q.packetCount
           /\ \A i \in 1 .. q.packetCount :
                Contents(q)[i] = q.slots[(q.readIndex + i - 1) % Capacity]
<1> USE QueueAssumption
<1>1. q.packetCount \in 0 .. Capacity
  BY DEF Queue
<1>2. ASSUME NEW i \in 1 .. q.packetCount
      PROVE  q.slots[(q.readIndex + i - 1) % Capacity]
                \in Packet \cup {BlankPacket}
  <2>1. Capacity \in Nat \ {0} /\ q.readIndex \in 0 .. Capacity - 1
    BY <1>1 DEF IndicesAgree, Slot
  <2>2. i - 1 \in 0 .. Capacity
    BY <1>1
  <2>3. (q.readIndex + (i - 1)) % Capacity \in 0 .. Capacity - 1
    BY <2>1, <2>2, Offset
  <2>4. q.readIndex + (i - 1) = q.readIndex + i - 1
    BY <2>1
  <2> QED BY <2>3, <2>4 DEF Queue, Slot
<1>3. Contents(q) \in [1 .. q.packetCount -> Packet \cup {BlankPacket}]
  BY <1>2 DEF Contents
<1>4. /\ Contents(q) \in Seq(Packet \cup {BlankPacket})
      /\ Len(Contents(q)) = q.packetCount
  BY <1>1, <1>3, SeqDef
<1> QED BY <1>4 DEF Contents

LEMMA PopContents ==
    ASSUME NEW q \in Queue, IndicesAgree(q), q.packetCount > 0
    PROVE  /\ Contents(q) # << >>
           /\ Oldest(q) = Head(Contents(q))
           /\ Contents(Pop(q)) = Tail(Contents(q))
<1> USE QueueAssumption
<1>1. /\ Capacity \in Nat \ {0}
      /\ q.readIndex \in 0 .. Capacity - 1
      /\ q.packetCount \in 1 .. Capacity
  BY DEF Queue, IndicesAgree, Slot
<1>2. /\ Pop(q) \in Queue /\ IndicesAgree(Pop(q))
      /\ Pop(q).slots = q.slots
      /\ Pop(q).readIndex = (q.readIndex + 1) % Capacity
      /\ Pop(q).packetCount = q.packetCount - 1
  <2>1. Pop(q) \in Queue /\ IndicesAgree(Pop(q))
    BY PopOK
  <2>2. q.packetCount # 0
    BY <1>1
  <2> QED BY <2>1, <2>2 DEF Pop, Queue, Advance
<1> DEFINE s == Contents(q)
           t == Contents(Pop(q))
<1>3. /\ s \in Seq(Packet \cup {BlankPacket}) /\ Len(s) = q.packetCount
      /\ \A i \in 1 .. q.packetCount :
            s[i] = q.slots[(q.readIndex + i - 1) % Capacity]
  BY ContentsSeq
<1>4. /\ t \in Seq(Packet \cup {BlankPacket}) /\ Len(t) = q.packetCount - 1
      /\ \A i \in 1 .. q.packetCount - 1 :
            t[i] = q.slots[(Pop(q).readIndex + i - 1) % Capacity]
  BY <1>2, ContentsSeq
<1>5. ASSUME NEW i \in 1 .. q.packetCount - 1
      PROVE  t[i] = s[i + 1]
  <2>1. Pop(q).readIndex
          = IF q.readIndex + 1 = Capacity THEN 0 ELSE q.readIndex + 1
    BY <1>1, <1>2, AdvanceStep
  <2> DEFINE r == Pop(q).readIndex
  <2>2. r \in 0 .. Capacity - 1
    BY <1>1, <2>1
  <2> HIDE DEF r
  <2>3. (r + (i - 1)) % Capacity
          = IF r + (i - 1) < Capacity THEN r + (i - 1)
                                      ELSE r + (i - 1) - Capacity
    BY <1>1, <2>2, Offset, i - 1 \in 0 .. Capacity
  <2>4. (q.readIndex + i) % Capacity
          = IF q.readIndex + i < Capacity THEN q.readIndex + i
                                          ELSE q.readIndex + i - Capacity
    BY <1>1, Offset, i \in 0 .. Capacity
  <2>5. (r + (i - 1)) % Capacity = (q.readIndex + i) % Capacity
    BY <1>1, <2>1, <2>3, <2>4 DEF r
  <2>6. r + i - 1 = r + (i - 1) /\ q.readIndex + (i + 1) - 1 = q.readIndex + i
    BY <1>1, <2>2
  <2>7. t[i] = q.slots[(r + i - 1) % Capacity]
    BY <1>4 DEF r
  <2>8. s[i + 1] = q.slots[(q.readIndex + (i + 1) - 1) % Capacity]
    BY <1>1, <1>3, i + 1 \in 1 .. q.packetCount
  <2> QED BY <2>5, <2>6, <2>7, <2>8
<1>6. Oldest(q) = s[1]
  <2>1. q.readIndex + 1 - 1 = q.readIndex
    BY <1>1
  <2>2. q.readIndex % Capacity = q.readIndex
    BY <1>1, ModSmall
  <2>3. s[1] = q.slots[(q.readIndex + 1 - 1) % Capacity]
    BY <1>1, <1>3
  <2> HIDE DEF s
  <2> QED BY <2>1, <2>2, <2>3 DEF Oldest
<1> HIDE DEF s, t
<1>7. s # << >> /\ Head(s) = s[1]
  BY <1>1, <1>3
<1>8. t = Tail(s)
  BY <1>1, <1>3, <1>4, <1>5
<1> QED BY <1>6, <1>7, <1>8 DEF s, t

LEMMA PushContents ==
    ASSUME NEW q \in Queue, IndicesAgree(q), NEW p \in Packet, Accepts(q, p)
    PROVE  Contents(Push(q, p)) =
             IF q.packetCount < Capacity THEN Append(Contents(q), p)
                                         ELSE Append(Tail(Contents(q)), p)
<1> USE QueueAssumption
<1> DEFINE v == Push(q, p)
           s == Contents(q)
           t == Contents(v)
<1>1. /\ Capacity \in Nat \ {0}
      /\ q.readIndex \in 0 .. Capacity - 1
      /\ q.packetCount \in 0 .. Capacity
      /\ q.writeIndex = IF q.readIndex + q.packetCount < Capacity
                        THEN q.readIndex + q.packetCount
                        ELSE q.readIndex + q.packetCount - Capacity
      /\ q.writeIndex \in 0 .. Capacity - 1
  <2>1. /\ Capacity \in Nat \ {0}
        /\ q.readIndex \in 0 .. Capacity - 1
        /\ q.packetCount \in 0 .. Capacity
        /\ q.writeIndex = (q.readIndex + q.packetCount) % Capacity
    BY DEF Accepts, Queue, IndicesAgree, Slot
  <2> QED BY <2>1, Offset
<1>2. /\ v \in Queue /\ IndicesAgree(v)
      /\ v.slots = [q.slots EXCEPT ![q.writeIndex] = p]
      /\ v.readIndex = IF q.packetCount = Capacity
                       THEN (q.readIndex + 1) % Capacity ELSE q.readIndex
      /\ v.packetCount = IF q.packetCount = Capacity THEN Capacity
                                                     ELSE q.packetCount + 1
  <2>1. v \in Queue /\ IndicesAgree(v)
    BY PushOK
  <2>2. v = [slots |-> [q.slots EXCEPT ![q.writeIndex] = p],
             readIndex |-> IF IsFull(q) THEN Advance(q.readIndex)
                                        ELSE q.readIndex,
             writeIndex |-> Advance(q.writeIndex),
             packetCount |-> IF IsFull(q) THEN q.packetCount
                                          ELSE q.packetCount + 1,
             droppedPacketCount |-> IF IsFull(q)
                                    THEN q.droppedPacketCount + 1
                                    ELSE q.droppedPacketCount,
             closed |-> q.closed]
    BY DEF Push, Queue
  <2> HIDE DEF v
  <2> QED BY <2>1, <2>2 DEF IsFull, Advance
<1>3. v.readIndex = IF q.packetCount = Capacity
                    THEN IF q.readIndex + 1 = Capacity THEN 0
                                                       ELSE q.readIndex + 1
                    ELSE q.readIndex
  BY <1>1, <1>2, AdvanceStep
<1>4. /\ s \in Seq(Packet \cup {BlankPacket}) /\ Len(s) = q.packetCount
      /\ \A i \in 1 .. q.packetCount :
            s[i] = q.slots[(q.readIndex + i - 1) % Capacity]
  BY ContentsSeq
<1> HIDE DEF v
<1>5. /\ t \in Seq(Packet \cup {BlankPacket}) /\ Len(t) = v.packetCount
      /\ \A i \in 1 .. v.packetCount :
            t[i] = v.slots[(v.readIndex + i - 1) % Capacity]
  BY <1>2, ContentsSeq
<1> HIDE DEF s, t
<1> DEFINE At(i) == IF q.readIndex + i < Capacity THEN q.readIndex + i
                                                  ELSE q.readIndex + i - Capacity
<1>6. \A i \in 1 .. q.packetCount : s[i] = q.slots[At(i - 1)]
  <2> SUFFICES ASSUME NEW i \in 1 .. q.packetCount
               PROVE  s[i] = q.slots[At(i - 1)]
    OBVIOUS
  <2>1. (q.readIndex + (i - 1)) % Capacity = At(i - 1)
    BY <1>1, Offset, i - 1 \in 0 .. Capacity
  <2>2. q.readIndex + i - 1 = q.readIndex + (i - 1)
    BY <1>1
  <2> HIDE DEF At
  <2> QED BY <1>4, <2>1, <2>2
<1>7. DOMAIN q.slots = 0 .. Capacity - 1
  BY DEF Queue, Slot
<1>8. CASE q.packetCount < Capacity
  <2>1. v.readIndex = q.readIndex /\ v.packetCount = q.packetCount + 1
    BY <1>1, <1>2, <1>3, <1>8
  <2>2. \A i \in 1 .. q.packetCount + 1 : t[i] = v.slots[At(i - 1)]
    <3> SUFFICES ASSUME NEW i \in 1 .. q.packetCount + 1
                 PROVE  t[i] = v.slots[At(i - 1)]
      OBVIOUS
    <3>1. (q.readIndex + (i - 1)) % Capacity = At(i - 1)
      BY <1>1, <1>8, Offset, i - 1 \in 0 .. Capacity
    <3>2. q.readIndex + i - 1 = q.readIndex + (i - 1)
      BY <1>1
    <3> HIDE DEF At
    <3> QED BY <1>5, <2>1, <3>1, <3>2
  <2>3. t[q.packetCount + 1] = p
    <3>1. At((q.packetCount + 1) - 1) = q.writeIndex
      BY <1>1
    <3>2. v.slots[q.writeIndex] = p
      BY <1>1, <1>2, <1>7
    <3> HIDE DEF At
    <3> QED BY <1>1, <2>2, <3>1, <3>2
  <2>4. ASSUME NEW i \in 1 .. q.packetCount
        PROVE  t[i] = s[i]
    <3>1. At(i - 1) # q.writeIndex /\ At(i - 1) \in 0 .. Capacity - 1
      BY <1>1, <1>8
    <3>2. i \in 1 .. q.packetCount + 1
      BY <1>1
    <3> HIDE DEF At
    <3> QED BY <1>2, <1>6, <1>7, <2>2, <3>1, <3>2
  <2>5. t = Append(s, p)
    BY <1>1, <1>4, <1>5, <2>1, <2>3, <2>4
  <2> QED BY <1>8, <2>5 DEF s, t, v
<1>9. CASE q.packetCount = Capacity
  <2>1. v.packetCount = Capacity
    BY <1>2, <1>9
  <2>2. \A i \in 1 .. Capacity : t[i] = v.slots[At(i)]
    <3> SUFFICES ASSUME NEW i \in 1 .. Capacity
                 PROVE  t[i] = v.slots[At(i)]
      OBVIOUS
    <3>1. v.readIndex \in 0 .. Capacity - 1
      BY <1>1, <1>3
    <3>2. (v.readIndex + (i - 1)) % Capacity
            = IF v.readIndex + (i - 1) < Capacity
              THEN v.readIndex + (i - 1)
              ELSE v.readIndex + (i - 1) - Capacity
      BY <1>1, <3>1, Offset, i - 1 \in 0 .. Capacity
    <3>3. (v.readIndex + (i - 1)) % Capacity = At(i)
      BY <1>1, <1>3, <1>9, <3>2
    <3>4. v.readIndex + i - 1 = v.readIndex + (i - 1)
      BY <3>1
    <3> HIDE DEF At
    <3> QED BY <1>5, <2>1, <3>3, <3>4
  <2>3. t[Capacity] = p
    <3>1. At(Capacity) = q.writeIndex
      BY <1>1, <1>9
    <3>2. v.slots[q.writeIndex] = p
      BY <1>1, <1>2, <1>7
    <3> HIDE DEF At
    <3> QED BY <1>1, <2>2, <3>1, <3>2
  <2>4. ASSUME NEW i \in 1 .. Capacity - 1
        PROVE  t[i] = s[i + 1]
    <3>1. At(i) # q.writeIndex /\ At(i) \in 0 .. Capacity - 1
      BY <1>1, <1>9
    <3>2. s[i + 1] = q.slots[At((i + 1) - 1)]
      BY <1>1, <1>6, <1>9, i + 1 \in 1 .. q.packetCount
    <3>3. (i + 1) - 1 = i /\ i \in 1 .. Capacity
      BY <1>1
    <3> HIDE DEF At
    <3> QED BY <1>2, <1>7, <2>2, <3>1, <3>2, <3>3
  <2>5. s # << >> /\ Len(Tail(s)) = Capacity - 1
        /\ Tail(s) \in Seq(Packet \cup {BlankPacket})
        /\ \A i \in 1 .. Capacity - 1 : Tail(s)[i] = s[i + 1]
    <3>1. Len(s) = Capacity /\ Capacity # 0
      BY <1>1, <1>4, <1>9
    <3>2. s # << >>
      BY <3>1
    <3> QED BY <1>4, <3>1, <3>2, HeadTailProperties
  <2>6. t = Append(Tail(s), p)
    BY <1>1, <1>5, <2>1, <2>3, <2>4, <2>5
  <2> QED BY <1>1, <1>9, <2>6 DEF s, t, v
<1> QED BY <1>1, <1>8, <1>9

-----------------------------------------------------------------------------
\* The invariant: types, and the bookkeeping that every Push and Pop needs
\* to stay inside the slots.

Inv == TypeOK /\ IndicesOK

LEMMA InitInv == Init => Inv
<1> SUFFICES ASSUME Init PROVE Inv
  OBVIOUS
<1>1. queue \in Queue /\ IndicesAgree(queue)
  BY NewQueueOK DEF Init
<1> QED BY <1>1 DEF Init, Inv, TypeOK, IndicesOK

LEMMA NextInv == Inv /\ [Next]_vars => Inv'
<1> SUFFICES ASSUME Inv, [Next]_vars
             PROVE  Inv'
  OBVIOUS
<1> USE QueueAssumption
<1>1. queue \in Queue /\ IndicesAgree(queue) /\ TypeOK
  BY DEF Inv, TypeOK, IndicesOK
<1>2. ASSUME NEW p \in Packet, PushCall(p)
      PROVE  Inv'
  <2>1. queue' \in Queue /\ IndicesAgree(queue')
    BY <1>1, <1>2, PushOK DEF PushCall
  <2>2. consumer' \in [Consumer -> {"outside", "waiting", "notified"}]
    BY <1>1, <1>2 DEF PushCall, NotifyOne, TypeOK
  <2> QED BY <1>1, <1>2, <2>1, <2>2 DEF PushCall, Inv, TypeOK, IndicesOK
<1>3. ASSUME NEW c \in Consumer, Return(c)
      PROVE  Inv'
  <2>1. queue' \in Queue /\ IndicesAgree(queue')
    BY <1>1, <1>3, PopOK DEF Return
  <2>2. queue.packetCount > 0 => Oldest(queue) \in Packet \cup {BlankPacket}
    BY <1>1 DEF Oldest, Queue, IndicesAgree, Slot
  <2>3. answer' \in [Consumer -> Packet \cup {BlankPacket}]
    BY <1>1, <1>3, <2>2 DEF Return, TypeOK
  <2>4. consumer' \in [Consumer -> {"outside", "waiting", "notified"}]
    BY <1>1, <1>3 DEF Return, TypeOK
  <2> QED BY <2>1, <2>3, <2>4 DEF Inv, TypeOK, IndicesOK
<1>4. ASSUME NEW c \in Consumer, Sleep(c) \/ SpuriousWakeUp(c)
      PROVE  Inv'
  BY <1>1, <1>4 DEF Sleep, SpuriousWakeUp, Inv, TypeOK, IndicesOK
<1>5. CASE CloseCall
  <2>1. queue' \in Queue /\ IndicesAgree(queue')
    BY <1>1, <1>5, CloseOK DEF CloseCall
  <2>2. consumer' \in [Consumer -> {"outside", "waiting", "notified"}]
    BY <1>1, <1>5 DEF CloseCall, NotifyAll, TypeOK
  <2> QED BY <1>1, <1>5, <2>1, <2>2 DEF CloseCall, Inv, TypeOK, IndicesOK
<1>6. CASE ResetCall
  BY <1>1, <1>6, ResetOK DEF ResetCall, Inv, TypeOK, IndicesOK
<1>7. CASE UNCHANGED vars
  BY <1>1, <1>7 DEF vars, Inv, TypeOK, IndicesOK
<1> QED BY <1>2, <1>3, <1>4, <1>5, <1>6, <1>7 DEF Next, WaitPopCall, WakeUp

\* Every reachable queue is well typed: in particular packetCount never
\* exceeds the capacity and every slot index stays inside the vector.
THEOREM TypeCorrect == Spec => []TypeOK
<1>1. Inv => TypeOK
  BY DEF Inv
<1> QED BY InitInv, NextInv, <1>1, PTL DEF Spec

\* The write index always stands packetCount slots past the read index
\* (raw_packet_queue.cpp lines 63-73 and 92-95).
THEOREM IndicesCorrect == Spec => []IndicesOK
<1>1. Inv => IndicesOK
  BY DEF Inv
<1> QED BY InitInv, NextInv, <1>1, PTL DEF Spec

-----------------------------------------------------------------------------
\* No lost wakeup.

LEMMA NotifiedFinite ==
    /\ IsFiniteSet(Notified)
    /\ Cardinality(Notified) \in Nat
<1>1. IsFiniteSet(Notified)
  BY ThreadsAssumption, FS_Subset DEF Notified
<1> QED BY <1>1, FS_CardinalityType

LEMMA NextNoLostWakeup == Inv /\ NoLostWakeup /\ [Next]_vars => NoLostWakeup'
<1> SUFFICES ASSUME Inv, NoLostWakeup, [Next]_vars, Waiting' # {}
             PROVE  ~queue'.closed /\ queue'.packetCount <= Cardinality(Notified')
  BY DEF NoLostWakeup
<1> USE QueueAssumption
<1> DEFINE n == Cardinality(Notified)
           m == Cardinality(Notified')
           Goal == ~queue'.closed /\ queue'.packetCount <= m
<1>1. /\ queue \in Queue
      /\ consumer \in [Consumer -> {"outside", "waiting", "notified"}]
      /\ queue.packetCount \in Nat
  BY DEF Inv, TypeOK, Queue
<1>2. IsFiniteSet(Notified) /\ n \in Nat
  BY NotifiedFinite
<1>3. ASSUME NEW c \in Consumer, c \notin Notified,
             Notified' = Notified \cup {c}
      PROVE  m = n + 1
  BY <1>2, <1>3, FS_AddElement
<1>4. ASSUME NEW c \in Consumer, c \in Notified, Notified' = Notified \ {c}
      PROVE  m = n - 1
  BY <1>2, <1>4, FS_RemoveElement
<1>5. ASSUME Waiting # {}
      PROVE  ~queue.closed /\ queue.packetCount <= n
  BY <1>5 DEF NoLostWakeup
<1> HIDE DEF n, m
<1>6. ASSUME NEW p \in Packet, PushCall(p)
      PROVE  Goal
  <2>1. CASE ~Accepts(queue, p)
    <3>1. queue' = queue /\ consumer' = consumer
      BY <1>6, <2>1 DEF PushCall, Push
    <3>2. Waiting' = Waiting /\ Notified' = Notified
      BY <3>1 DEF Waiting, Notified
    <3> QED BY <1>5, <3>1, <3>2 DEF n, m
  <2>2. CASE Accepts(queue, p)
    <3>1. Waiting # {}
      BY <1>6, <2>2 DEF PushCall, NotifyOne, Waiting
    <3>2. PICK c \in Waiting : consumer' = [consumer EXCEPT ![c] = "notified"]
      BY <1>6, <2>2, <3>1 DEF PushCall, NotifyOne
    <3>3. c \in Consumer /\ c \notin Notified
      BY DEF Waiting, Notified
    <3>4. Notified' = Notified \cup {c}
      BY <1>1, <3>2, <3>3 DEF Notified
    <3>5. m = n + 1
      BY <1>3, <3>3, <3>4
    <3>6. /\ queue'.packetCount \in {queue.packetCount, queue.packetCount + 1}
          /\ queue'.closed = queue.closed
      BY <1>1, <1>6, <2>2 DEF PushCall, Push, Queue
    <3> QED BY <1>1, <1>2, <1>5, <3>1, <3>5, <3>6
  <2> QED BY <2>1, <2>2
<1>7. ASSUME NEW c \in Consumer, consumer[c] # "waiting", Return(c)
      PROVE  Goal
  <2>1. Waiting' = Waiting
    BY <1>1, <1>7 DEF Return, Waiting
  <2>2. ~queue.closed /\ queue.packetCount <= n
    BY <1>5, <2>1
  <2>3. queue.packetCount > 0
    BY <1>1, <1>7, <2>2 DEF Return, CanReturn
  <2>4. queue'.packetCount = queue.packetCount - 1 /\ ~queue'.closed
    BY <1>1, <1>7, <2>2, <2>3 DEF Return, Pop, Queue
  <2>5. CASE consumer[c] = "outside"
    <3>1. Notified' = Notified
      BY <1>1, <1>7, <2>5 DEF Return, Notified
    <3> QED BY <1>1, <1>2, <2>2, <2>4, <3>1 DEF n, m
  <2>6. CASE consumer[c] = "notified"
    <3>1. Notified' = Notified \ {c} /\ c \in Notified
      BY <1>1, <1>7, <2>6 DEF Return, Notified
    <3> QED BY <1>1, <1>2, <1>4, <2>2, <2>4, <3>1
  <2> QED BY <1>1, <1>7, <2>5, <2>6
<1>8. ASSUME NEW c \in Consumer, Sleep(c)
      PROVE  Goal
  <2>1. ~queue'.closed /\ queue'.packetCount = 0
    BY <1>1, <1>8 DEF Sleep, CanReturn
  <2>2. m \in Nat
    <3>1. IsFiniteSet(Notified')
      BY ThreadsAssumption, FS_Subset DEF Notified
    <3> QED BY <3>1, FS_CardinalityType DEF m
  <2> QED BY <2>1, <2>2
<1>9. ASSUME NEW c \in Consumer, SpuriousWakeUp(c)
      PROVE  Goal
  <2>1. c \in Waiting /\ c \notin Notified /\ Notified' = Notified \cup {c}
    BY <1>1, <1>9 DEF SpuriousWakeUp, Waiting, Notified
  <2>2. queue' = queue
    BY <1>9 DEF SpuriousWakeUp
  <2> QED BY <1>1, <1>2, <1>3, <1>5, <2>1, <2>2
<1>10. ASSUME CloseCall PROVE Goal
  <2>1. \A c \in Consumer : consumer'[c] # "waiting"
    BY <1>10 DEF CloseCall, NotifyAll
  <2>2. Waiting' = {}
    BY <2>1 DEF Waiting
  <2> QED BY <2>2
<1>11. ASSUME ResetCall PROVE Goal
  <2>1. queue'.packetCount = 0 /\ ~queue'.closed /\ Notified' = Notified
    BY <1>11 DEF ResetCall, Reset, Notified
  <2> QED BY <1>2, <2>1 DEF n, m
<1>12. ASSUME UNCHANGED vars PROVE Goal
  <2>1. queue' = queue /\ Waiting' = Waiting /\ Notified' = Notified
    BY <1>12 DEF vars, Waiting, Notified
  <2> QED BY <1>5, <2>1 DEF n, m
<1>13. ASSUME NEW c \in Consumer, WaitPopCall(c) \/ WakeUp(c)
       PROVE  Goal
  <2>1. Sleep(c) \/ (consumer[c] # "waiting" /\ Return(c))
    BY <1>13 DEF WaitPopCall, WakeUp
  <2> QED BY <1>7, <1>8, <2>1
<1>14. Goal
  <2> HIDE DEF Goal
  <2> QED BY <1>6, <1>9, <1>10, <1>11, <1>12, <1>13 DEF Next
<1> QED BY <1>14 DEF m

\* A consumer sleeps only on an open queue whose packets are all on their
\* way to consumers already woken, for any number of producers and consumers
\* (raw_packet_queue.cpp lines 75, 88-90 and 109).
THEOREM NoLostWakeupHolds == Spec => []NoLostWakeup
<1>1. Init => NoLostWakeup
  BY DEF Init, NoLostWakeup, Waiting
<1> QED BY InitInv, NextInv, NextNoLostWakeup, <1>1, PTL DEF Spec

-----------------------------------------------------------------------------
\* The refinement of the drop-oldest FIFO.

LEMMA EmptyContents ==
    ASSUME NEW q \in Queue, q.packetCount = 0
    PROVE  Contents(q) = << >>
BY DEF Contents

LEMMA NonEmptyContents ==
    ASSUME NEW q \in Queue, IndicesAgree(q), q.packetCount > 0
    PROVE  Contents(q) # << >>
BY PopContents

LEMMA InitFifo == Init => Fifo!Init
<1> SUFFICES ASSUME Init PROVE Fifo!Init
  OBVIOUS
<1>1. Contents(queue) = << >>
  BY NewQueueOK, EmptyContents DEF Init, NewQueue
<1>2. queue.droppedPacketCount = 0 /\ ~queue.closed
  BY DEF Init, NewQueue
<1> QED BY <1>1, <1>2 DEF Init, Fifo!Init

LEMMA StepFifo == Inv /\ [Next]_vars => [Fifo!Next]_Fifo!vars
<1> SUFFICES ASSUME Inv, [Next]_vars
             PROVE  Fifo!Next \/ UNCHANGED Fifo!vars
  OBVIOUS
<1> USE QueueAssumption
<1>1. queue \in Queue /\ IndicesAgree(queue)
  BY DEF Inv, TypeOK, IndicesOK
<1>2. ASSUME NEW p \in Packet, PushCall(p)
      PROVE  Fifo!Next \/ UNCHANGED Fifo!vars
  <2>1. CASE ~Accepts(queue, p)
    BY <1>2, <2>1 DEF PushCall, Push, Fifo!vars
  <2>2. CASE Accepts(queue, p)
    <3>1. Len(Contents(queue)) = queue.packetCount
      BY <1>1, ContentsSeq
    <3>2. Contents(queue') = IF queue.packetCount < Capacity
                             THEN Append(Contents(queue), p)
                             ELSE Append(Tail(Contents(queue)), p)
      BY <1>1, <1>2, <2>2, PushContents DEF PushCall
    <3>3. /\ queue'.droppedPacketCount = IF queue.packetCount = Capacity
                                         THEN queue.droppedPacketCount + 1
                                         ELSE queue.droppedPacketCount
          /\ queue'.closed = queue.closed
      BY <1>1, <1>2, <2>2 DEF PushCall, Push, Queue, IsFull
    <3>4. /\ queue.packetCount \in 0 .. Capacity
          /\ ~queue.closed /\ Capacity > 0 /\ p \in Acceptable
      BY <1>1, <2>2 DEF Queue, Accepts
    <3>5. answer' = answer
      BY <1>2 DEF PushCall
    <3>6. Fifo!Put(p)
      <4> USE DEF Fifo!Put, Fifo!Insert
      <4>1. CASE queue.packetCount < Capacity
        BY <3>1, <3>2, <3>3, <3>4, <3>5, <4>1
      <4>2. CASE queue.packetCount = Capacity
        BY <3>1, <3>2, <3>3, <3>4, <3>5, <4>2
      <4> QED BY <3>4, <4>1, <4>2
    <3> QED BY <3>4, <3>6 DEF Fifo!Next
  <2> QED BY <2>1, <2>2
<1>3. ASSUME NEW c \in Consumer, Return(c)
      PROVE  Fifo!Next
  <2>1. CASE queue.packetCount > 0
    <3>1. /\ Contents(queue) # << >>
          /\ Oldest(queue) = Head(Contents(queue))
          /\ Contents(queue') = Tail(Contents(queue))
      BY <1>1, <1>3, <2>1, PopContents DEF Return
    <3>2. /\ queue'.droppedPacketCount = queue.droppedPacketCount
          /\ queue'.closed = queue.closed
      BY <1>1, <1>3, <2>1 DEF Return, Pop, Queue
    <3>3. answer' = [answer EXCEPT ![c] = Head(Contents(queue))]
      BY <1>3, <2>1, <3>1 DEF Return
    <3>4. Fifo!Take(c)
      BY <3>1, <3>2, <3>3 DEF Fifo!Take
    <3> QED BY <3>4 DEF Fifo!Next
  <2>2. CASE queue.packetCount = 0
    <3>1. Contents(queue) = << >> /\ queue.closed
      BY <1>1, <1>3, <2>2, EmptyContents DEF Return, CanReturn
    <3>2. queue' = queue /\ answer' = [answer EXCEPT ![c] = BlankPacket]
      BY <1>3, <2>2 DEF Return, Pop
    <3>3. Fifo!Drained(c)
      BY <3>1, <3>2 DEF Fifo!Drained
    <3> QED BY <3>3 DEF Fifo!Next
  <2> QED BY <1>1, <2>1, <2>2 DEF Queue
<1>4. ASSUME NEW c \in Consumer, Sleep(c) \/ SpuriousWakeUp(c)
      PROVE  UNCHANGED Fifo!vars
  BY <1>4 DEF Sleep, SpuriousWakeUp, Fifo!vars
<1>5. CASE CloseCall
  <2>1. /\ Contents(queue') = Contents(queue)
        /\ queue'.droppedPacketCount = queue.droppedPacketCount
        /\ queue'.closed
    BY <1>1, <1>5 DEF CloseCall, Close, Contents, Queue
  <2>2. Fifo!Shut
    BY <1>5, <2>1 DEF CloseCall, Fifo!Shut
  <2> QED BY <2>2 DEF Fifo!Next
<1>6. CASE ResetCall
  <2>1. /\ queue'.droppedPacketCount = 0 /\ ~queue'.closed
        /\ queue' \in Queue /\ queue'.packetCount = 0
    BY <1>1, <1>6, ResetOK DEF ResetCall, Reset
  <2>2. Contents(queue') = << >>
    BY <2>1, EmptyContents
  <2>3. Fifo!Reopen
    BY <1>6, <2>1, <2>2 DEF ResetCall, Fifo!Reopen
  <2> QED BY <2>3 DEF Fifo!Next
<1>7. CASE UNCHANGED vars
  BY <1>7 DEF vars, Fifo!vars
<1> QED BY <1>2, <1>3, <1>4, <1>5, <1>6, <1>7 DEF Next, WaitPopCall, WakeUp

\* The circular buffer with its condition variable implements the bounded
\* drop-oldest FIFO of raw_packet_queue.h lines 49-89, for every capacity.
THEOREM QueueImplementsFifo == Spec => ImplementsFifo
BY InitInv, NextInv, InitFifo, StepFifo, PTL DEF Spec, ImplementsFifo, Fifo!Spec
=============================================================================
