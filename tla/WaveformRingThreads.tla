------------------------- MODULE WaveformRingThreads -------------------------
(***************************************************************************)
(* Threads calling one WaveformRingBuffer                                  *)
(* (capture/src/waveform_ring_buffer.cpp): the processing thread pushes,   *)
(* the user interface takes the latest frame, a new run resets.  Each call *)
(* holds the mutex throughout and never waits for a frame, so it is one    *)
(* step.                                                                   *)
(***************************************************************************)
EXTENDS WaveformRingBuffer

CONSTANT MaxDropped    \* bound on droppedFrameCount, a size_t in the code

ASSUME RingThreadsAssumption == MaxDropped \in Nat

VARIABLES
    ring,     \* the WaveformRingBuffer
    taken     \* the frame the last popLatest copied out, BlankFrame before
vars == <<ring, taken>>

TypeOK == ring \in Ring /\ taken \in Frame \cup {BlankFrame}

Init == ring = NewRing /\ taken = BlankFrame

PushCall(f) ==
    /\ ring.droppedFrameCount < MaxDropped \/ ~IsFull(ring)
    /\ ring' = Push(ring, f)
    /\ UNCHANGED taken

PopLatestCall ==
    /\ ring' = PopLatest(ring)
    /\ taken' = IF HasFrame(ring) THEN Latest(ring) ELSE taken

ResetCall == ring' = Reset(ring) /\ UNCHANGED taken

Next == (\E f \in Frame : PushCall(f)) \/ PopLatestCall \/ ResetCall

Spec == Init /\ [][Next]_vars

-----------------------------------------------------------------------------
\* The write index always stands frameCount slots past the read index, the
\* last frame written included, although popLatest moves the read index over
\* all of them at once (waveform_ring_buffer.cpp lines 52-63 and 77-84).
IndicesOK == IndicesAgree(ring)

\* The indices and slots implement the buffer of the class documentation: a
\* reader is never handed an overwritten, older or never written slot.
Buffer == INSTANCE LatestFrameBuffer
            WITH frames <- Contents(ring), dropped <- ring.droppedFrameCount,
                 Nothing <- BlankFrame
ImplementsLatest == Buffer!Spec
=============================================================================
