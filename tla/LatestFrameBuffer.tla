-------------------------- MODULE LatestFrameBuffer --------------------------
(***************************************************************************)
(* What WaveformRingBuffer promises (capture/inc/waveform_ring_buffer.h,   *)
(* the class documentation): a bounded buffer that never refuses a frame,  *)
(* forgets its oldest when full and counts it, and hands out the newest    *)
(* frame only, forgetting the older ones.                                  *)
(***************************************************************************)
EXTENDS BoundedBuffer

CONSTANTS Capacity, Frame, Nothing

VARIABLES frames, dropped, taken
vars == <<frames, dropped, taken>>

Init == frames = << >> /\ dropped = 0 /\ taken = Nothing

Put(f) == /\ Capacity > 0
          /\ frames' = Insert(frames, f, Capacity)
          /\ dropped' = IF Len(frames) < Capacity THEN dropped ELSE dropped + 1
          /\ UNCHANGED taken

TakeLatest == /\ frames # << >>
              /\ taken' = frames[Len(frames)]
              /\ frames' = << >>
              /\ UNCHANGED dropped

Clear == frames' = << >> /\ dropped' = 0 /\ UNCHANGED taken

Next == (\E f \in Frame : Put(f)) \/ TakeLatest \/ Clear

Spec == Init /\ [][Next]_vars
=============================================================================
