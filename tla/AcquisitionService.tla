------------------------- MODULE AcquisitionService -------------------------
(***************************************************************************)
(* What the acquisition loop promises the user interface                   *)
(* (capture/inc/acquisition_loop.h lines 98-137): runs that do not overlap,*)
(* a status that, once it names a terminal fault, keeps naming it until    *)
(* the threads are gone, and frames that belong to the current run and     *)
(* never go back in time.                                                  *)
(***************************************************************************)
EXTENDS Naturals

VARIABLES
    live,     \* a thread of the run exists and has not been joined
    state,    \* the published EAcquisitionState
    run,      \* how many runs were started
    shown     \* run and capture number of the last frame handed out
vars == <<live, state, run, shown>>

Terminal == {"eDeviceLost", "eFailed"}

Init == /\ live = FALSE
        /\ state = "eStopped"
        /\ run = 0
        /\ shown = [run |-> 0, capture |-> 0]

Start == /\ ~live
         /\ live' = TRUE
         /\ state' = "eRunning"
         /\ run' = run + 1
         /\ UNCHANGED shown

Report == /\ live
          /\ state \notin Terminal
          /\ state' \in {"eRunning", "eRecovering"} \cup Terminal
          /\ UNCHANGED <<live, run, shown>>

Deliver == /\ run > 0
           /\ shown'.run = run
           /\ shown.run = run => shown'.capture >= shown.capture
           /\ UNCHANGED <<live, state, run>>

Join == live /\ live' = FALSE /\ UNCHANGED <<state, run, shown>>

MarkStopped == ~live /\ state' = "eStopped" /\ UNCHANGED <<live, run, shown>>

Next == Start \/ Report \/ Deliver \/ Join \/ MarkStopped

Spec == Init /\ [][Next]_vars
=============================================================================
