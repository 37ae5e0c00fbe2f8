------------------------- MODULE WaveformRingProofs -------------------------
(***************************************************************************)
(* What WaveformRingThreads guarantees for every capacity and every set of *)
(* frames.                                                                 *)
(***************************************************************************)
EXTENDS WaveformRingThreads, CircularIndex, SequenceTheorems, TLAPS

-----------------------------------------------------------------------------
\* The operations of the ring keep its type and its bookkeeping.

LEMMA NewRingOK == NewRing \in Ring /\ IndicesAgree(NewRing)
<1> USE RingAssumption
<1>1. NewRing \in Ring
  BY DEF NewRing, Ring, Slot
<1>2. ASSUME Capacity # 0
      PROVE  /\ NewRing.readIndex \in Slot
             /\ NewRing.writeIndex
                  = (NewRing.readIndex + NewRing.frameCount) % Capacity
  BY <1>2, ModSmall DEF NewRing, Slot
<1> QED BY <1>1, <1>2 DEF IndicesAgree, NewRing

LEMMA ResetOK ==
    ASSUME NEW b \in Ring
    PROVE  Reset(b) \in Ring /\ IndicesAgree(Reset(b))
<1> USE RingAssumption
<1>1. Reset(b) \in Ring
  BY DEF Reset, Ring
<1>2. ASSUME Capacity # 0
      PROVE  /\ Reset(b).readIndex \in Slot
             /\ Reset(b).writeIndex
                  = (Reset(b).readIndex + Reset(b).frameCount) % Capacity
  BY <1>2, ModSmall DEF Reset, Slot
<1> QED BY <1>1, <1>2 DEF IndicesAgree, Reset

LEMMA PopLatestOK ==
    ASSUME NEW b \in Ring, IndicesAgree(b)
    PROVE  /\ PopLatest(b) \in Ring /\ IndicesAgree(PopLatest(b))
           /\ PopLatest(b).frameCount = 0
           /\ PopLatest(b).droppedFrameCount = b.droppedFrameCount
<1> USE RingAssumption
<1>1. CASE b.frameCount = 0
  BY <1>1 DEF PopLatest
<1>2. CASE b.frameCount # 0
  <2>1. /\ Capacity \in Nat \ {0}
        /\ b.readIndex \in 0 .. Capacity - 1
        /\ b.frameCount \in 0 .. Capacity
        /\ b.writeIndex = (b.readIndex + b.frameCount) % Capacity
    BY <1>2 DEF Ring, IndicesAgree, Slot
  <2>2. b.writeIndex \in 0 .. Capacity - 1
    BY <2>1, Offset
  <2>3. PopLatest(b) = [frames |-> b.frames, readIndex |-> b.writeIndex,
                        writeIndex |-> b.writeIndex, frameCount |-> 0,
                        droppedFrameCount |-> b.droppedFrameCount]
    BY <1>2 DEF PopLatest, Ring
  <2>4. PopLatest(b) \in Ring
    BY <2>2, <2>3 DEF Ring
  <2>5. b.writeIndex = (b.writeIndex + 0) % Capacity
    BY <2>1, <2>2, ModSmall
  <2> QED BY <2>2, <2>3, <2>4, <2>5 DEF IndicesAgree, Slot
<1> QED BY <1>1, <1>2

LEMMA PushOK ==
    ASSUME NEW b \in Ring, IndicesAgree(b), NEW f \in Frame
    PROVE  Push(b, f) \in Ring /\ IndicesAgree(Push(b, f))
<1> USE RingAssumption
<1>1. CASE Capacity = 0
  BY <1>1 DEF Push
<1>2. CASE Capacity # 0
  <2> DEFINE r == IF IsFull(b) THEN Advance(b.readIndex) ELSE b.readIndex
             k == IF IsFull(b) THEN b.frameCount ELSE b.frameCount + 1
             d == IF IsFull(b) THEN b.droppedFrameCount + 1
                               ELSE b.droppedFrameCount
             w == Advance(b.writeIndex)
  <2>1. /\ Capacity \in Nat \ {0}
        /\ b.readIndex \in 0 .. Capacity - 1
        /\ b.frameCount \in 0 .. Capacity
        /\ b.writeIndex = (b.readIndex + b.frameCount) % Capacity
    BY <1>2 DEF Ring, IndicesAgree, Slot
  <2>2. /\ b.writeIndex = IF b.readIndex + b.frameCount < Capacity
                          THEN b.readIndex + b.frameCount
                          ELSE b.readIndex + b.frameCount - Capacity
        /\ b.writeIndex \in 0 .. Capacity - 1
    BY <2>1, Offset
  <2>3. Push(b, f) = [frames |-> [b.frames EXCEPT ![b.writeIndex] = f],
                      readIndex |-> r, writeIndex |-> w, frameCount |-> k,
                      droppedFrameCount |-> d]
    BY <1>2 DEF Push, Ring
  <2>4. w = IF b.writeIndex + 1 = Capacity THEN 0 ELSE b.writeIndex + 1
    BY <2>1, <2>2, AdvanceStep DEF Advance
  <2>5. r = IF b.frameCount = Capacity
            THEN IF b.readIndex + 1 = Capacity THEN 0 ELSE b.readIndex + 1
            ELSE b.readIndex
    BY <2>1, AdvanceStep DEF Advance, IsFull
  <2>6. k = IF b.frameCount = Capacity THEN Capacity ELSE b.frameCount + 1
    BY DEF IsFull
  <2>7. [b.frames EXCEPT ![b.writeIndex] = f]
            \in [Slot -> Frame \cup {BlankFrame}]
    BY DEF Ring
  <2>8. d \in Nat
    BY DEF Ring
  <2> HIDE DEF r, k, d, w
  <2>9. /\ r \in 0 .. Capacity - 1
        /\ w \in 0 .. Capacity - 1
        /\ k \in 0 .. Capacity
    <3>1. r \in 0 .. Capacity - 1
      BY <2>1, <2>5
    <3>2. w \in 0 .. Capacity - 1
      <4>1. b.writeIndex \in 0 .. Capacity - 1 /\ Capacity \in Nat
        BY <2>1, <2>2
      <4> QED BY <4>1, <2>4
    <3>3. k \in 0 .. Capacity
      BY <2>1, <2>6
    <3> QED BY <3>1, <3>2, <3>3
  <2>10. w = (r + k) % Capacity
    <3>1. (r + k) % Capacity = IF r + k < Capacity THEN r + k
                                                   ELSE r + k - Capacity
      BY <2>1, <2>9, Offset
    <3>2. CASE b.frameCount = Capacity
      BY <2>1, <2>2, <2>4, <2>5, <2>6, <3>1, <3>2
    <3>3. CASE b.frameCount # Capacity
      BY <2>1, <2>2, <2>4, <2>5, <2>6, <3>1, <3>3
    <3> QED BY <3>2, <3>3
  <2>11. Push(b, f) \in Ring
    BY <2>3, <2>7, <2>8, <2>9 DEF Ring
  <2> QED BY <2>3, <2>9, <2>10, <2>11 DEF IndicesAgree, Slot
<1> QED BY <1>1, <1>2

-----------------------------------------------------------------------------
\* What the operations do to the retained frames.

LEMMA ContentsSeq ==
    ASSUME NEW b \in Ring, IndicesAgree(b)
    PROVE  /\ Contents(b) \in Seq(Frame \cup {BlankFrame})
           /\ Len(Contents(b)) = b.frameCount
           /\ DOMAIN Contents(b) = 1 .. b.frameCount
           /\ \A i \in 1 .. b.frameCount :
                Contents(b)[i] = b.frames[(b.readIndex + i - 1) % Capacity]
<1> USE RingAssumption
<1>1. b.frameCount \in 0 .. Capacity
  BY DEF Ring
<1>2. ASSUME NEW i \in 1 .. b.frameCount
      PROVE  b.frames[(b.readIndex + i - 1) % Capacity]
                \in Frame \cup {BlankFrame}
  <2>1. Capacity \in Nat \ {0} /\ b.readIndex \in 0 .. Capacity - 1
    BY <1>1 DEF IndicesAgree, Slot
  <2>2. i - 1 \in 0 .. Capacity
    BY <1>1
  <2>3. (b.readIndex + (i - 1)) % Capacity \in 0 .. Capacity - 1
    BY <2>1, <2>2, Offset
  <2>4. b.readIndex + (i - 1) = b.readIndex + i - 1
    BY <2>1
  <2> QED BY <2>3, <2>4 DEF Ring, Slot
<1>3. Contents(b) \in [1 .. b.frameCount -> Frame \cup {BlankFrame}]
  BY <1>2 DEF Contents
<1>4. /\ Contents(b) \in Seq(Frame \cup {BlankFrame})
      /\ Len(Contents(b)) = b.frameCount
  BY <1>1, <1>3, SeqDef
<1> QED BY <1>4 DEF Contents

LEMMA LatestContents ==
    ASSUME NEW b \in Ring, IndicesAgree(b), b.frameCount > 0
    PROVE  /\ Contents(b) # << >>
           /\ Latest(b) = Contents(b)[Len(Contents(b))]
           /\ Latest(b) \in Frame \cup {BlankFrame}
<1>1. /\ Contents(b) \in Seq(Frame \cup {BlankFrame})
      /\ Len(Contents(b)) = b.frameCount
      /\ \A i \in 1 .. b.frameCount :
            Contents(b)[i] = b.frames[(b.readIndex + i - 1) % Capacity]
  BY ContentsSeq
<1>2. b.frameCount \in 1 .. b.frameCount
  BY RingAssumption DEF Ring
<1>3. Latest(b) = Contents(b)[b.frameCount]
  BY <1>1, <1>2 DEF Latest
<1>4. Contents(b) # << >> /\ Contents(b)[b.frameCount] \in Frame \cup {BlankFrame}
  BY <1>1, <1>2
<1> QED BY <1>1, <1>3, <1>4

LEMMA PushContents ==
    ASSUME NEW b \in Ring, IndicesAgree(b), NEW f \in Frame, Capacity # 0
    PROVE  Contents(Push(b, f)) =
             IF b.frameCount < Capacity THEN Append(Contents(b), f)
                                         ELSE Append(Tail(Contents(b)), f)
<1> USE RingAssumption
<1> DEFINE v == Push(b, f)
           s == Contents(b)
           t == Contents(v)
<1>1. /\ Capacity \in Nat \ {0}
      /\ b.readIndex \in 0 .. Capacity - 1
      /\ b.frameCount \in 0 .. Capacity
      /\ b.writeIndex = IF b.readIndex + b.frameCount < Capacity
                        THEN b.readIndex + b.frameCount
                        ELSE b.readIndex + b.frameCount - Capacity
      /\ b.writeIndex \in 0 .. Capacity - 1
  <2>1. /\ Capacity \in Nat \ {0}
        /\ b.readIndex \in 0 .. Capacity - 1
        /\ b.frameCount \in 0 .. Capacity
        /\ b.writeIndex = (b.readIndex + b.frameCount) % Capacity
    BY DEF Ring, IndicesAgree, Slot
  <2> QED BY <2>1, Offset
<1>2. /\ v \in Ring /\ IndicesAgree(v)
      /\ v.frames = [b.frames EXCEPT ![b.writeIndex] = f]
      /\ v.readIndex = IF b.frameCount = Capacity
                       THEN (b.readIndex + 1) % Capacity ELSE b.readIndex
      /\ v.frameCount = IF b.frameCount = Capacity THEN Capacity
                                                     ELSE b.frameCount + 1
  <2>1. v \in Ring /\ IndicesAgree(v)
    BY PushOK
  <2>2. v = [frames |-> [b.frames EXCEPT ![b.writeIndex] = f],
             readIndex |-> IF IsFull(b) THEN Advance(b.readIndex)
                                        ELSE b.readIndex,
             writeIndex |-> Advance(b.writeIndex),
             frameCount |-> IF IsFull(b) THEN b.frameCount
                                          ELSE b.frameCount + 1,
             droppedFrameCount |-> IF IsFull(b)
                                    THEN b.droppedFrameCount + 1
                                    ELSE b.droppedFrameCount]
    BY DEF Push, Ring
  <2> HIDE DEF v
  <2> QED BY <2>1, <2>2 DEF IsFull, Advance
<1>3. v.readIndex = IF b.frameCount = Capacity
                    THEN IF b.readIndex + 1 = Capacity THEN 0
                                                       ELSE b.readIndex + 1
                    ELSE b.readIndex
  BY <1>1, <1>2, AdvanceStep
<1>4. /\ s \in Seq(Frame \cup {BlankFrame}) /\ Len(s) = b.frameCount
      /\ \A i \in 1 .. b.frameCount :
            s[i] = b.frames[(b.readIndex + i - 1) % Capacity]
  BY ContentsSeq
<1> HIDE DEF v
<1>5. /\ t \in Seq(Frame \cup {BlankFrame}) /\ Len(t) = v.frameCount
      /\ \A i \in 1 .. v.frameCount :
            t[i] = v.frames[(v.readIndex + i - 1) % Capacity]
  BY <1>2, ContentsSeq
<1> HIDE DEF s, t
<1> DEFINE At(i) == IF b.readIndex + i < Capacity THEN b.readIndex + i
                                                  ELSE b.readIndex + i - Capacity
<1>6. \A i \in 1 .. b.frameCount : s[i] = b.frames[At(i - 1)]
  <2> SUFFICES ASSUME NEW i \in 1 .. b.frameCount
               PROVE  s[i] = b.frames[At(i - 1)]
    OBVIOUS
  <2>1. (b.readIndex + (i - 1)) % Capacity = At(i - 1)
    BY <1>1, Offset, i - 1 \in 0 .. Capacity
  <2>2. b.readIndex + i - 1 = b.readIndex + (i - 1)
    BY <1>1
  <2> HIDE DEF At
  <2> QED BY <1>4, <2>1, <2>2
<1>7. DOMAIN b.frames = 0 .. Capacity - 1
  BY DEF Ring, Slot
<1>8. CASE b.frameCount < Capacity
  <2>1. v.readIndex = b.readIndex /\ v.frameCount = b.frameCount + 1
    BY <1>1, <1>2, <1>3, <1>8
  <2>2. \A i \in 1 .. b.frameCount + 1 : t[i] = v.frames[At(i - 1)]
    <3> SUFFICES ASSUME NEW i \in 1 .. b.frameCount + 1
                 PROVE  t[i] = v.frames[At(i - 1)]
      OBVIOUS
    <3>1. (b.readIndex + (i - 1)) % Capacity = At(i - 1)
      BY <1>1, <1>8, Offset, i - 1 \in 0 .. Capacity
    <3>2. b.readIndex + i - 1 = b.readIndex + (i - 1)
      BY <1>1
    <3> HIDE DEF At
    <3> QED BY <1>5, <2>1, <3>1, <3>2
  <2>3. t[b.frameCount + 1] = f
    <3>1. At((b.frameCount + 1) - 1) = b.writeIndex
      BY <1>1
    <3>2. v.frames[b.writeIndex] = f
      BY <1>1, <1>2, <1>7
    <3> HIDE DEF At
    <3> QED BY <1>1, <2>2, <3>1, <3>2
  <2>4. ASSUME NEW i \in 1 .. b.frameCount
        PROVE  t[i] = s[i]
    <3>1. At(i - 1) # b.writeIndex /\ At(i - 1) \in 0 .. Capacity - 1
      BY <1>1, <1>8
    <3>2. i \in 1 .. b.frameCount + 1
      BY <1>1
    <3> HIDE DEF At
    <3> QED BY <1>2, <1>6, <1>7, <2>2, <3>1, <3>2
  <2>5. t = Append(s, f)
    BY <1>1, <1>4, <1>5, <2>1, <2>3, <2>4
  <2> QED BY <1>8, <2>5 DEF s, t, v
<1>9. CASE b.frameCount = Capacity
  <2>1. v.frameCount = Capacity
    BY <1>2, <1>9
  <2>2. \A i \in 1 .. Capacity : t[i] = v.frames[At(i)]
    <3> SUFFICES ASSUME NEW i \in 1 .. Capacity
                 PROVE  t[i] = v.frames[At(i)]
      OBVIOUS
    <3>1. v.readIndex \in 0 .. Capacity - 1
      BY <1>1, <1>3
    <3>2. (v.readIndex + (i - 1)) % Capacity
            = IF v.readIndex + (i - 1) < Capacity
              THEN v.readIndex + (i - 1)
              ELSE v.readIndex + (i - 1) - Capacity
      BY <1>1, <3>1, Offset, i - 1 \in 0 .. Capacity
    <3>3. (v.readIndex + (i - 1)) % Capacity = At(i)
      BY <1>1, <1>3, <1>9, <3>2
    <3>4. v.readIndex + i - 1 = v.readIndex + (i - 1)
      BY <3>1
    <3> HIDE DEF At
    <3> QED BY <1>5, <2>1, <3>3, <3>4
  <2>3. t[Capacity] = f
    <3>1. At(Capacity) = b.writeIndex
      BY <1>1, <1>9
    <3>2. v.frames[b.writeIndex] = f
      BY <1>1, <1>2, <1>7
    <3> HIDE DEF At
    <3> QED BY <1>1, <2>2, <3>1, <3>2
  <2>4. ASSUME NEW i \in 1 .. Capacity - 1
        PROVE  t[i] = s[i + 1]
    <3>1. At(i) # b.writeIndex /\ At(i) \in 0 .. Capacity - 1
      BY <1>1, <1>9
    <3>2. s[i + 1] = b.frames[At((i + 1) - 1)]
      BY <1>1, <1>6, <1>9, i + 1 \in 1 .. b.frameCount
    <3>3. (i + 1) - 1 = i /\ i \in 1 .. Capacity
      BY <1>1
    <3> HIDE DEF At
    <3> QED BY <1>2, <1>7, <2>2, <3>1, <3>2, <3>3
  <2>5. s # << >> /\ Len(Tail(s)) = Capacity - 1
        /\ Tail(s) \in Seq(Frame \cup {BlankFrame})
        /\ \A i \in 1 .. Capacity - 1 : Tail(s)[i] = s[i + 1]
    <3>1. Len(s) = Capacity /\ Capacity # 0
      BY <1>1, <1>4, <1>9
    <3>2. s # << >>
      BY <3>1
    <3> QED BY <1>4, <3>1, <3>2, HeadTailProperties
  <2>6. t = Append(Tail(s), f)
    BY <1>1, <1>5, <2>1, <2>3, <2>4, <2>5
  <2> QED BY <1>1, <1>9, <2>6 DEF s, t, v
<1> QED BY <1>1, <1>8, <1>9

-----------------------------------------------------------------------------
\* The invariant: types, and the bookkeeping that every Push and Pop needs
\* to stay inside the frames.

Inv == TypeOK /\ IndicesOK

LEMMA InitInv == Init => Inv
BY NewRingOK DEF Init, Inv, TypeOK, IndicesOK

LEMMA NextInv == Inv /\ [Next]_vars => Inv'
<1> SUFFICES ASSUME Inv, [Next]_vars
             PROVE  Inv'
  OBVIOUS
<1>1. ring \in Ring /\ IndicesAgree(ring) /\ TypeOK
  BY DEF Inv, TypeOK, IndicesOK
<1>2. ASSUME NEW f \in Frame, PushCall(f)
      PROVE  Inv'
  BY <1>1, <1>2, PushOK DEF PushCall, Inv, TypeOK, IndicesOK
<1>3. CASE PopLatestCall
  <2>1. taken' \in Frame \cup {BlankFrame}
    BY <1>1, <1>3, LatestContents DEF PopLatestCall, HasFrame, TypeOK
  <2> QED BY <1>1, <1>3, <2>1, PopLatestOK
          DEF PopLatestCall, Inv, TypeOK, IndicesOK
<1>4. CASE ResetCall
  BY <1>1, <1>4, ResetOK DEF ResetCall, Inv, TypeOK, IndicesOK
<1>5. CASE UNCHANGED vars
  BY <1>1, <1>5 DEF vars, Inv, TypeOK, IndicesOK
<1> QED BY <1>2, <1>3, <1>4, <1>5 DEF Next

\* Every reachable ring is well typed: frameCount never exceeds the capacity
\* and every slot index stays inside the vector (waveform_ring_buffer.cpp
\* lines 45-87).
THEOREM TypeCorrect == Spec => []TypeOK
<1>1. Inv => TypeOK
  BY DEF Inv
<1> QED BY InitInv, NextInv, <1>1, PTL DEF Spec

\* The write index always stands frameCount slots past the read index
\* (waveform_ring_buffer.cpp lines 52-63 and 77-84).
THEOREM IndicesCorrect == Spec => []IndicesOK
<1>1. Inv => IndicesOK
  BY DEF Inv
<1> QED BY InitInv, NextInv, <1>1, PTL DEF Spec

-----------------------------------------------------------------------------
\* The refinement of the latest-frame buffer.

LEMMA EmptyContents ==
    ASSUME NEW b \in Ring, b.frameCount = 0
    PROVE  Contents(b) = << >>
BY DEF Contents

LEMMA InitBuffer == Init => Buffer!Init
<1> SUFFICES ASSUME Init PROVE Buffer!Init
  OBVIOUS
<1>1. Contents(ring) = << >>
  BY NewRingOK, EmptyContents DEF Init, NewRing
<1> QED BY <1>1 DEF Init, NewRing, Buffer!Init

LEMMA StepBuffer == Inv /\ [Next]_vars => [Buffer!Next]_Buffer!vars
<1> SUFFICES ASSUME Inv, [Next]_vars
             PROVE  Buffer!Next \/ UNCHANGED Buffer!vars
  OBVIOUS
<1> USE RingAssumption
<1>1. ring \in Ring /\ IndicesAgree(ring)
  BY DEF Inv, TypeOK, IndicesOK
<1>2. ASSUME NEW f \in Frame, PushCall(f)
      PROVE  Buffer!Next \/ UNCHANGED Buffer!vars
  <2>1. CASE Capacity = 0
    BY <1>2, <2>1 DEF PushCall, Push, Buffer!vars
  <2>2. CASE Capacity # 0
    <3>1. Len(Contents(ring)) = ring.frameCount
      BY <1>1, ContentsSeq
    <3>2. Contents(ring') = IF ring.frameCount < Capacity
                            THEN Append(Contents(ring), f)
                            ELSE Append(Tail(Contents(ring)), f)
      BY <1>1, <1>2, <2>2, PushContents DEF PushCall
    <3>3. ring'.droppedFrameCount = IF ring.frameCount = Capacity
                                    THEN ring.droppedFrameCount + 1
                                    ELSE ring.droppedFrameCount
      BY <1>1, <1>2, <2>2 DEF PushCall, Push, Ring, IsFull
    <3>4. ring.frameCount \in 0 .. Capacity /\ Capacity > 0
      BY <1>1, <2>2 DEF Ring
    <3>5. taken' = taken
      BY <1>2 DEF PushCall
    <3>6. Buffer!Put(f)
      <4> USE DEF Buffer!Put, Buffer!Insert
      <4>1. CASE ring.frameCount < Capacity
        BY <3>1, <3>2, <3>3, <3>4, <3>5, <4>1
      <4>2. CASE ring.frameCount = Capacity
        BY <3>1, <3>2, <3>3, <3>4, <3>5, <4>2
      <4> QED BY <3>4, <4>1, <4>2
    <3> QED BY <3>6 DEF Buffer!Next
  <2> QED BY <2>1, <2>2
<1>3. CASE PopLatestCall
  <2>1. CASE HasFrame(ring)
    <3>1. /\ Contents(ring) # << >>
          /\ taken' = Contents(ring)[Len(Contents(ring))]
      BY <1>1, <1>3, <2>1, LatestContents DEF PopLatestCall, HasFrame
    <3>2. /\ Contents(ring') = << >>
          /\ ring'.droppedFrameCount = ring.droppedFrameCount
      BY <1>1, <1>3, PopLatestOK, EmptyContents DEF PopLatestCall
    <3>3. Buffer!TakeLatest
      BY <3>1, <3>2 DEF Buffer!TakeLatest
    <3> QED BY <3>3 DEF Buffer!Next
  <2>2. CASE ~HasFrame(ring)
    <3>1. ring' = ring /\ taken' = taken
      BY <1>1, <1>3, <2>2 DEF PopLatestCall, PopLatest, HasFrame, Ring
    <3> QED BY <3>1 DEF Buffer!vars
  <2> QED BY <2>1, <2>2
<1>4. CASE ResetCall
  <2>1. /\ ring'.droppedFrameCount = 0
        /\ ring' \in Ring /\ ring'.frameCount = 0
    BY <1>1, <1>4, ResetOK DEF ResetCall, Reset
  <2>2. Contents(ring') = << >>
    BY <2>1, EmptyContents
  <2>3. Buffer!Clear
    BY <1>4, <2>1, <2>2 DEF ResetCall, Buffer!Clear
  <2> QED BY <2>3 DEF Buffer!Next
<1>5. CASE UNCHANGED vars
  BY <1>5 DEF vars, Buffer!vars
<1> QED BY <1>2, <1>3, <1>4, <1>5 DEF Next

\* The circular buffer implements the latest-frame buffer of the class
\* documentation (waveform_ring_buffer.h), for every capacity and frame set.
THEOREM RingImplementsLatest == Spec => ImplementsLatest
BY InitInv, NextInv, InitBuffer, StepBuffer, PTL
   DEF Spec, ImplementsLatest, Buffer!Spec
=============================================================================
