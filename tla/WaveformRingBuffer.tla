------------------------- MODULE WaveformRingBuffer -------------------------
(***************************************************************************)
(* The decoded-frame buffer of capture/src/waveform_ring_buffer.cpp as a   *)
(* value.  Every operator is the effect of one member function between the *)
(* lock and the unlock of its mutex; no caller ever waits for a frame.     *)
(***************************************************************************)
EXTENDS Naturals, Sequences

CONSTANTS
    Capacity,     \* frames.size(): fixed when the buffer is constructed
    Frame,        \* decoded frames with their trigger point
    BlankFrame    \* the value-initialised content of a slot never written

ASSUME RingAssumption == Capacity \in Nat /\ BlankFrame \notin Frame

Slot == 0 .. Capacity - 1

Ring == [frames            : [Slot -> Frame \cup {BlankFrame}],
         readIndex         : Nat,
         writeIndex        : Nat,
         frameCount        : 0 .. Capacity,
         droppedFrameCount : Nat]

NewRing == [frames            |-> [i \in Slot |-> BlankFrame],
            readIndex         |-> 0,
            writeIndex        |-> 0,
            frameCount        |-> 0,
            droppedFrameCount |-> 0]

Advance(index) == (index + 1) % Capacity

IsFull(b) == b.frameCount = Capacity

\* MUTANT of Push: the read index of a full ring left behind.
PushKeepsReadIndex(b, f) ==
    IF Capacity = 0 THEN b
    ELSE [b EXCEPT
            !.frameCount        = IF IsFull(b) THEN @ ELSE @ + 1,
            !.droppedFrameCount = IF IsFull(b) THEN @ + 1 ELSE @,
            !.frames[b.writeIndex] = f,
            !.writeIndex        = Advance(@)]

\* push: a full buffer gives up its oldest frame before the insertion.
Push(b, f) ==
    IF Capacity = 0 THEN b
    ELSE [b EXCEPT
            !.readIndex         = IF IsFull(b) THEN Advance(@) ELSE @,
            !.frameCount        = IF IsFull(b) THEN @ ELSE @ + 1,
            !.droppedFrameCount = IF IsFull(b) THEN @ + 1 ELSE @,
            !.frames[b.writeIndex] = f,
            !.writeIndex        = Advance(@)]

HasFrame(b) == b.frameCount > 0

\* The frame popLatest copies out: the last one written.
Latest(b) == b.frames[(b.readIndex + b.frameCount - 1) % Capacity]

\* popLatest throws every older frame away with the one it returns.
PopLatest(b) ==
    IF b.frameCount = 0 THEN b
    ELSE [b EXCEPT !.readIndex = b.writeIndex, !.frameCount = 0]

\* reset: the slots keep their old content, only the bookkeeping starts over.
Reset(b) == [frames            |-> b.frames,
             readIndex         |-> 0,
             writeIndex        |-> 0,
             frameCount        |-> 0,
             droppedFrameCount |-> 0]

-----------------------------------------------------------------------------
\* The buffered frames, oldest first: what the indices stand for.
Contents(b) ==
    [i \in 1 .. b.frameCount |-> b.frames[(b.readIndex + i - 1) % Capacity]]

IndicesAgree(b) ==
    \/ Capacity = 0 /\ b.readIndex = 0 /\ b.writeIndex = 0
    \/ /\ b.readIndex \in Slot
       /\ b.writeIndex = (b.readIndex + b.frameCount) % Capacity
=============================================================================
