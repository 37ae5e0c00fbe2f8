--------------------------- MODULE TriggerDisplay ---------------------------
(***************************************************************************)
(* What the frame loop of app/main.cpp does with the frames of a run: the  *)
(* software edge search of core/src/waveform_trigger.cpp, the frame held   *)
(* in Normal and Single mode, and the window of the record that is slid    *)
(* under the T marker.  A pass of the loop begins with the newest frame,   *)
(* searches it one sample a step, and decides what is held and drawn; the  *)
(* controls of the panel are handled after the drawing, and any number of  *)
(* them may change before the next pass.                                   *)
(*                                                                         *)
(* A position k stands for the slider's k / PositionSteps, so that the     *)
(* rounding of the code is exact integer division here.                    *)
(***************************************************************************)
EXTENDS Integers

CONSTANTS
    Frames,         \* what getLatestWaveform may deliver: count samples
                    \* of both channels
    Levels,         \* settings of the Level slider
    Sources,        \* settings of the Source combo
    PositionSteps,  \* the slider has two decimals: 100
    Positions,      \* settings of the Position slider
    NoFrame         \* latestWaveform and heldWaveform before the first frame

SignalChannel ==
    [CH1 |-> 0, CH2 |-> 1, ALT |-> 0, EXT |-> -1, EXT10 |-> -1]

ASSUME DisplayAssumption ==
    /\ \A f \in Frames :
          /\ f.count \in Nat \ {0}
          /\ f.samples \in [{0, 1} -> [0 .. f.count - 1 -> Nat]]
    /\ NoFrame.count = 0 /\ NoFrame \notin Frames
    /\ Levels \subseteq 0 .. 255 /\ 128 \in Levels
    /\ "CH1" \in Sources /\ Sources \subseteq DOMAIN SignalChannel
    /\ PositionSteps \in Nat \ {0}
    /\ Positions \subseteq 0 .. PositionSteps
    /\ PositionSteps \div 2 \in Positions

VARIABLES
    pc,                         \* "search", "drawn" or "controls"
    latest,                     \* latestWaveform
    index, triggerFound, triggerIndex, \* the search of this pass
    held, heldIndex, heldValid, \* heldWaveform, heldTriggerIndex, heldValid
    armed,                      \* singleArmed
    mode, source, slope, level, position,
    heldAt      \* history: the position at which the held frame was captured

search == <<index, triggerFound, triggerIndex>>
holding == <<held, heldIndex, heldValid, armed, heldAt>>
controls == <<mode, source, slope, level, position>>
vars == <<pc, latest, search, holding, controls>>

-----------------------------------------------------------------------------
(* The window.                                                             *)

\* Four fifths of the record, rounded, and at least two samples.
computeDisplayWindow(count) ==
    IF count <= 2 THEN count
    ELSE LET rounded == (8 * count + 5) \div 10
         IN  IF rounded < 2 THEN 2 ELSE rounded

\* The samples left of the marker, times PositionSteps.
PreTrigger(count, pos) == pos * (computeDisplayWindow(count) - 1)

\* MUTANT of ArmedFrom: the search starts at the beginning of the record.
ArmedFromStart(count, pos) == 0

ArmedFrom(count, pos) == PreTrigger(count, pos) \div PositionSteps

\* MUTANT of WindowStart: the last window is one sample too late.
WindowStartPastRecord(count, at, pos) ==
    LET pre == PreTrigger(count, pos)
        rounded == (2 * (at * PositionSteps - pre) + PositionSteps)
                       \div (2 * PositionSteps)
        last == count - computeDisplayWindow(count) + 1
    IN  IF computeDisplayWindow(count) <= 1 \/ at * PositionSteps <= pre
        THEN 0
        ELSE IF rounded > last THEN last ELSE rounded

WindowStart(count, at, pos) ==
    LET pre == PreTrigger(count, pos)
        rounded == (2 * (at * PositionSteps - pre) + PositionSteps)
                       \div (2 * PositionSteps)
        last == count - computeDisplayWindow(count)
    IN  IF computeDisplayWindow(count) <= 1 \/ at * PositionSteps <= pre
        THEN 0
        ELSE IF rounded > last THEN last ELSE rounded

-----------------------------------------------------------------------------
(* One pass of the loop.                                                   *)

\* The pass has a frame and the trigger source a signal to search in it.
HasSignal(f) == f.count # 0 /\ SignalChannel[source] >= 0

Samples(f) == f.samples[SignalChannel[source]]

Start(f) == LET from == ArmedFrom(f.count, position)
            IN  IF HasSignal(f) /\ from > 1 THEN from ELSE 1

BeginPass(f) ==
    /\ pc # "search" /\ pc' = "search"
    /\ latest' = f
    /\ triggerFound' = FALSE /\ triggerIndex' = 0
    /\ index' = Start(f)
    /\ UNCHANGED <<holding, controls>>

PassWithNewFrame == \E f \in Frames : BeginPass(f)
PassWithoutFrame == BeginPass(latest)

Matches(samples, i, trigSlope, trigLevel) ==
    IF trigSlope = "Rising"
    THEN samples[i - 1] < trigLevel /\ samples[i] >= trigLevel
    ELSE samples[i - 1] > trigLevel /\ samples[i] <= trigLevel

Searching == HasSignal(latest) /\ index < latest.count /\ ~triggerFound

\* MUTANT of SearchStep: the search runs on after a match.
SearchRunsOn ==
    /\ pc = "search" /\ HasSignal(latest) /\ index < latest.count
    /\ IF Matches(Samples(latest), index, slope, level)
       THEN triggerFound' = TRUE /\ triggerIndex' = index
       ELSE UNCHANGED <<triggerFound, triggerIndex>>
    /\ index' = index + 1
    /\ UNCHANGED <<pc, latest, holding, controls>>

\* One iteration of the loop of findEdgeTrigger.
SearchStep ==
    /\ pc = "search" /\ Searching
    /\ IF Matches(Samples(latest), index, slope, level)
       THEN triggerFound' = TRUE /\ triggerIndex' = index
       ELSE UNCHANGED <<triggerFound, triggerIndex>>
    /\ index' = index + 1
    /\ UNCHANGED <<pc, latest, holding, controls>>

Captures == triggerFound /\ (mode = "Normal" \/ (mode = "Single" /\ armed))

Drawn == /\ pc = "search" /\ ~Searching /\ pc' = "drawn"
         /\ UNCHANGED <<latest, search, controls>>

\* MUTANTS of Hold: Auto leaves Single disarmed, every edge is captured in
\* Single mode, the record of the first capture stays with a new index, a
\* pass without an edge blanks Normal.
HoldAutoKeepsDisarmed ==
    /\ Drawn
    /\ IF Captures
       THEN held' = latest /\ heldIndex' = triggerIndex /\ heldAt' = position
       ELSE UNCHANGED <<held, heldIndex, heldAt>>
    /\ heldValid' = (mode # "Auto" /\ (Captures \/ heldValid))
    /\ armed' = (mode = "Normal" \/ (armed /\ ~Captures))

HoldIgnoresArmed ==
    LET capture == triggerFound /\ mode # "Auto"
    IN  /\ Drawn
        /\ IF capture
           THEN /\ held' = latest /\ heldIndex' = triggerIndex
                /\ heldAt' = position
           ELSE UNCHANGED <<held, heldIndex, heldAt>>
        /\ heldValid' = (mode # "Auto" /\ (capture \/ heldValid))
        /\ armed' = (mode # "Single" \/ (armed /\ ~capture))

HoldKeepsRecord ==
    /\ Drawn
    /\ IF Captures
       THEN /\ held' = (IF heldValid THEN held ELSE latest)
            /\ heldIndex' = triggerIndex /\ heldAt' = position
       ELSE UNCHANGED <<held, heldIndex, heldAt>>
    /\ heldValid' = (mode # "Auto" /\ (Captures \/ heldValid))
    /\ armed' = (mode # "Single" \/ (armed /\ ~Captures))

HoldBlanksNormal ==
    /\ Drawn
    /\ IF Captures
       THEN held' = latest /\ heldIndex' = triggerIndex /\ heldAt' = position
       ELSE UNCHANGED <<held, heldIndex, heldAt>>
    /\ heldValid' = (Captures \/ (mode = "Single" /\ heldValid))
    /\ armed' = (mode # "Single" \/ (armed /\ ~Captures))

\* The search is over: what is held, before the pass draws.
Hold ==
    /\ Drawn
    /\ IF Captures
       THEN held' = latest /\ heldIndex' = triggerIndex /\ heldAt' = position
       ELSE UNCHANGED <<held, heldIndex, heldAt>>
    /\ heldValid' = (mode # "Auto" /\ (Captures \/ heldValid))
    /\ armed' = (mode # "Single" \/ (armed /\ ~Captures))

\* What the pass has on the screen: the held frame or the live one, traced
\* in Auto mode and when a frame is held, from WindowStart on.
Holding == mode # "Auto" /\ heldValid
ShownFrame == IF Holding THEN held ELSE latest
ShownFound == Holding \/ triggerFound
ShownIndex == IF Holding THEN heldIndex ELSE triggerIndex
ShownStart == IF ShownFound
              THEN WindowStart(ShownFrame.count, ShownIndex, position) ELSE 0
ShownLength == computeDisplayWindow(ShownFrame.count)

-----------------------------------------------------------------------------
(* The controls of the panel.                                              *)

Panel == /\ pc # "search" /\ pc' = "controls"
         /\ UNCHANGED <<latest, search>>

SetSource == /\ Panel /\ source' \in Sources
             /\ UNCHANGED <<holding, mode, slope, level, position>>

SetSlope == /\ Panel /\ slope' \in {"Rising", "Falling"}
            /\ UNCHANGED <<holding, mode, source, level, position>>

SetLevel == /\ Panel /\ level' \in Levels
            /\ UNCHANGED <<holding, mode, source, slope, position>>

SetPosition == /\ Panel /\ position' \in Positions
               /\ UNCHANGED <<holding, mode, source, slope, level>>

SetMode == /\ Panel /\ mode' \in {"Auto", "Normal", "Single"}
           /\ UNCHANGED <<holding, source, slope, level, position>>

Rearm == /\ Panel /\ mode = "Single"
         /\ armed' = TRUE /\ heldValid' = FALSE
         /\ UNCHANGED <<held, heldIndex, heldAt, controls>>

Init == /\ pc = "controls" /\ latest = NoFrame /\ held = NoFrame
        /\ index = 1 /\ triggerFound = FALSE /\ triggerIndex = 0
        /\ heldIndex = 0 /\ heldValid = FALSE /\ armed = TRUE
        /\ mode = "Auto" /\ source = "CH1" /\ slope = "Rising"
        /\ level = 128 /\ position = PositionSteps \div 2
        /\ heldAt = position

Next == \/ PassWithNewFrame \/ PassWithoutFrame \/ SearchStep \/ Hold
        \/ SetSource \/ SetSlope \/ SetLevel \/ SetPosition \/ SetMode
        \/ Rearm

Spec == Init /\ [][Next]_vars

-----------------------------------------------------------------------------
(* Properties.                                                             *)

TypeOK ==
    /\ pc \in {"search", "drawn", "controls"}
    /\ latest \in Frames \cup {NoFrame} /\ held \in Frames \cup {NoFrame}
    /\ index \in Nat \ {0} /\ triggerFound \in BOOLEAN /\ triggerIndex \in Nat
    /\ IF held = NoFrame THEN heldIndex = 0 /\ ~heldValid
       ELSE heldIndex \in 0 .. held.count - 1
    /\ heldValid \in BOOLEAN /\ armed \in BOOLEAN
    /\ mode \in {"Auto", "Normal", "Single"}
    /\ source \in Sources /\ slope \in {"Rising", "Falling"}
    /\ level \in Levels /\ position \in Positions /\ heldAt \in Positions

\* The window of main.cpp:667-690 lies in the record, otherwise
\* drawChannelWaveform (main.cpp:1431) draws nothing at all, and it contains
\* the sample that triggered: also for a held frame whose Position has been
\* moved since, and for an edge at either end of the record.
TriggerVisible ==
    pc = "drawn" =>
        /\ ShownStart + ShownLength <= ShownFrame.count
        /\ ShownFound =>
              ShownIndex \in ShownStart .. ShownStart + ShownLength - 1

\* The edge is under the T marker to within one sample (main.cpp:576-580
\* arms the search behind the pre-trigger samples for that).  Two things
\* move it off: the end of the record, where the edge is right of the marker,
\* and a Position changed after the shown frame was captured.
Aligned ==
    LET drift == ShownIndex * PositionSteps
                   - (ShownStart * PositionSteps
                        + PreTrigger(ShownFrame.count, position))
    IN  pc = "drawn" /\ ShownFound =>
            \/ -PositionSteps < drift /\ drift < PositionSteps
            \/ drift > 0 /\ ShownStart + ShownLength = ShownFrame.count
            \/ Holding /\ heldAt # position

\* Single cannot end up disarmed with nothing on the screen, from where only
\* the Rearm button would lead: modes may be changed between any two passes
\* (main.cpp:602-625, 941-946).
NeverBlank == armed \/ heldValid

\* What "edge" means, without a search: the earliest sample of the signal, of
\* those that have their pre-trigger samples in front of them, that crosses
\* the level in the direction of the slope.  A set, empty when there is none.
FirstEdge(f) ==
    LET edges == {i \in 1 .. f.count - 1 :
                     /\ i >= ArmedFrom(f.count, position)
                     /\ Matches(Samples(f), i, slope, level)}
    IN  IF HasSignal(f) THEN {i \in edges : \A j \in edges : i <= j} ELSE {}

\* The search has found that edge when the pass draws, and has found nothing
\* when there is none (waveform_trigger.cpp:39-58, main.cpp:565-591): from
\* the first sample it looks at to the last one, on either channel.
FindsFirstEdge ==
    pc = "drawn" =>
        (IF triggerFound THEN {triggerIndex} ELSE {}) = FirstEdge(latest)

\* "Captures one triggered frame, then holds it" (main.cpp:127): once it is
\* disarmed, Single keeps its frame on the screen until Rearm or a change of
\* mode, whatever arrives and whatever else is changed on the panel.
SingleHolds ==
    [][mode = "Single" /\ ~armed /\ mode' = "Single" /\ ~Rearm
         => Holding' /\ UNCHANGED <<held, heldIndex>>]_vars

\* Normal takes the frame of every pass that has an edge, at that edge, and
\* between two edges keeps the last one it took (main.cpp:597-625).
TakesEdgeOrKeeps ==
    IF pc' = "drawn" /\ FirstEdge(latest) # {}
    THEN held' = latest /\ heldIndex' \in FirstEdge(latest) /\ heldValid'
    ELSE UNCHANGED <<held, heldIndex, heldValid>>

NormalHolds == [][mode = "Normal" => TakesEdgeOrKeeps]_vars
=============================================================================
