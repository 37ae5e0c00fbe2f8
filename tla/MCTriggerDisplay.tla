-------------------------- MODULE MCTriggerDisplay --------------------------
(***************************************************************************)
(* Short records for TriggerDisplay: early, late and several edges, an     *)
(* edge on the last sample, a channel without one, and windows with 2, 1   *)
(* and 0 samples in reserve.                                               *)
(***************************************************************************)
EXTENDS TriggerDisplay, Sequences, TLC

Wave(samples) == [i \in 0 .. Len(samples) - 1 |-> samples[i + 1]]

MCFrame(one, two) ==
    [count |-> Len(one), samples |-> 0 :> Wave(one) @@ 1 :> Wave(two)]

MCFrames ==
    {MCFrame(<<9, 200, 130, 9, 9, 9, 9, 9, 200, 9>>,
             <<200, 9, 9, 9, 9, 9, 200, 9, 9, 9>>),
     MCFrame(<<9, 9, 9, 128, 9, 200>>, <<9, 9, 9, 9, 9, 9>>),
     MCFrame(<<200, 130>>, <<9, 128>>)}

MCNoFrame == [count |-> 0, samples |-> <<>>]
=============================================================================
