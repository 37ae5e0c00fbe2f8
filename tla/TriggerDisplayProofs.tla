------------------------ MODULE TriggerDisplayProofs ------------------------
(***************************************************************************)
(* Proofs about TriggerDisplay for records of every length, every Position *)
(* and every resolution of the slider.                                     *)
(***************************************************************************)
EXTENDS TriggerDisplay, TLAPS

-----------------------------------------------------------------------------
(* The window.                                                             *)

LEMMA Quotient ==
    ASSUME NEW a \in Nat, NEW d \in Nat \ {0}
    PROVE  /\ a \div d \in Nat
           /\ d * (a \div d) <= a
           /\ a < d * (a \div d) + d
BY SMTT(30)

\* Multiplication by the steps of the slider keeps the order of samples.
LEMMA TimesMonotone ==
    ASSUME NEW d \in Nat, NEW a \in Int, NEW b \in Int, a <= b
    PROVE  a * d <= b * d
<1>1. d * (b - a) >= 0
  <2>1. b - a \in Nat
    OBVIOUS
  <2> DEFINE c == b - a
  <2>2. c \in Nat
    BY <2>1
  <2>3. d * c \in Nat
    BY <2>2
  <2> QED BY <2>3
<1>2. d * (b - a) = b * d - a * d
  OBVIOUS
<1>3. a * d \in Int /\ b * d \in Int
  OBVIOUS
<1> QED BY <1>1, <1>2, <1>3

LEMMA WindowLength ==
    ASSUME NEW count \in Nat
    PROVE  /\ computeDisplayWindow(count) \in 0 .. count
           /\ count # 0 => computeDisplayWindow(count) # 0
BY DEF computeDisplayWindow

\* The rounded start is at most half a sample from where the marker wants it.
LEMMA RoundedStart ==
    ASSUME NEW want \in Nat, NEW P \in Nat \ {0}
    PROVE  LET rounded == (2 * want + P) \div (2 * P)
           IN  /\ rounded \in Nat
               /\ 2 * (rounded * P) <= 2 * want + P
               /\ 2 * want < 2 * (rounded * P) + P
<1> DEFINE a == 2 * want + P
           d == 2 * P
           rounded == a \div d
<1>1. a \in Nat /\ d \in Nat \ {0}
  OBVIOUS
<1>2. /\ rounded \in Nat
      /\ d * rounded <= a
      /\ a < d * rounded + d
  <2> HIDE DEF a, d
  <2> QED BY <1>1, Quotient
<1>3. d * rounded = 2 * (rounded * P)
  <2>1. rounded \in Nat
    BY <1>2
  <2> HIDE DEF rounded
  <2> QED BY <2>1
<1>4. rounded * P \in Nat
  <2>1. rounded \in Nat
    BY <1>2
  <2> HIDE DEF rounded
  <2> QED BY <2>1
<1>5. /\ 2 * (rounded * P) <= 2 * want + P
      /\ 2 * want < 2 * (rounded * P) + P
  <2> DEFINE rp == rounded * P
  <2>1. rp \in Nat /\ 2 * rp <= a /\ a < 2 * rp + d
    BY <1>2, <1>3, <1>4
  <2> HIDE DEF rp, rounded
  <2>2. 2 * rp <= 2 * want + P /\ 2 * want < 2 * rp + P
    BY <2>1
  <2> QED BY <2>2 DEF rp
<1> QED BY <1>2, <1>5

\* Everything the display properties need of WindowStart.
Placed(count, at, pos, start) ==
    LET drift == at * PositionSteps
                   - (start * PositionSteps + PreTrigger(count, pos))
    IN  /\ start \in Nat
        /\ start + computeDisplayWindow(count) <= count
        /\ at \in start .. start + computeDisplayWindow(count) - 1
        /\ ArmedFrom(count, pos) <= at =>
              \/ -PositionSteps < drift /\ drift < PositionSteps
              \/ drift > 0 /\ start + computeDisplayWindow(count) = count

LEMMA WindowPlaced ==
    ASSUME NEW count \in Nat \ {0}, NEW at \in 0 .. count - 1,
           NEW pos \in 0 .. PositionSteps
    PROVE  Placed(count, at, pos, WindowStart(count, at, pos))
<1> DEFINE P == PositionSteps
           W == computeDisplayWindow(count)
           pre == PreTrigger(count, pos)
           ip == at * P
           last == count - W
           rounded == (2 * (ip - pre) + P) \div (2 * P)
           start == WindowStart(count, at, pos)
<1>1. P \in Nat \ {0} /\ pos \in Nat /\ pos <= P /\ at \in Nat /\ at < count
  BY DisplayAssumption
<1>2. W \in Nat /\ 1 <= W /\ W <= count
  BY WindowLength
<1>3. ip \in Nat
  <2> HIDE DEF P
  <2> QED BY <1>1
<1>4. pre \in Nat /\ pre <= (W - 1) * P
  <2>1. pre = pos * (W - 1)
    BY DEF PreTrigger
  <2>2. pos * (W - 1) <= P * (W - 1)
    <3>1. W - 1 \in Nat
      BY <1>2
    <3> DEFINE d == W - 1
    <3> HIDE DEF P, W, d
    <3>2. pos * d <= P * d
      BY <1>1, <3>1, TimesMonotone DEF d
    <3> QED BY <3>2 DEF d
  <2> HIDE DEF P, W, pre
  <2>3. pos * (W - 1) \in Nat
    BY <1>1, <1>2
  <2>4. P * (W - 1) = (W - 1) * P
    BY <1>1, <1>2
  <2> QED BY <2>1, <2>2, <2>3, <2>4
<1>5. (W - 1) * P = W * P - P /\ W * P \in Nat
  <2> HIDE DEF P, W
  <2> QED BY <1>1, <1>2
<1>6. \A s \in Nat : s * P \in Nat
  <2> HIDE DEF P
  <2> QED BY <1>1
<1>7. \A s, t \in Nat : s < t => s * P + P <= t * P
  <2> HIDE DEF P
  <2> TAKE s, t \in Nat
  <2> HAVE s < t
  <2>1. (s + 1) * P <= t * P
    BY <1>1, TimesMonotone
  <2>2. (s + 1) * P = s * P + P
    BY <1>1
  <2> QED BY <2>1, <2>2
<1>8. ASSUME NEW s \in Nat, s * P <= ip, ip < s * P + W * P
      PROVE  at \in s .. s + W - 1
  <2> DEFINE sp == s * P
             wp == W * P
  <2>1. ~(at < s)
    <3> SUFFICES ASSUME at < s
                 PROVE  FALSE
      OBVIOUS
    <3>1. ip + P <= sp
      BY <1>1, <1>7
    <3>2. sp \in Nat /\ sp <= ip
      BY <1>6, <1>8
    <3> HIDE DEF sp, ip, P
    <3> QED BY <3>1, <3>2, <1>1, <1>3
  <2>2. ~(s + W <= at)
    <3> SUFFICES ASSUME s + W <= at
                 PROVE  FALSE
      OBVIOUS
    <3>1. (s + W) * P <= ip
      <4> HIDE DEF P, W
      <4> QED BY <1>1, <1>2, TimesMonotone
    <3>2. (s + W) * P = sp + wp
      <4> HIDE DEF P, W
      <4> QED BY <1>1, <1>2
    <3>3. ip < sp + wp
      BY <1>8
    <3> HIDE DEF sp, wp, ip, P, W
    <3> QED BY <3>1, <3>2, <3>3, <1>3, <1>5, <1>6 DEF sp, wp
  <2> HIDE DEF W, P
  <2> QED BY <2>1, <2>2, <1>1, <1>2
<1> HIDE DEF P
<1>9. CASE W <= 1 \/ ip <= pre
  <2>1. start = 0
    BY <1>9 DEF WindowStart, P
  <2>2. 0 * P = 0
    BY <1>1
  <2>3. ip <= pre
    <3> SUFFICES ASSUME W <= 1
                 PROVE  ip <= pre
      BY <1>9
    <3>1. count = 1
      BY DEF computeDisplayWindow
    <3>2. at = 0
      BY <3>1
    <3> QED BY <3>2, <2>2, <1>4
  <2>4. at \in 0 .. 0 + W - 1
    <3> DEFINE wp == W * P
    <3>1. ip < 0 * P + wp
      <4> HIDE DEF W, ip, pre
      <4> HIDE DEF wp
      <4>1. pre <= wp - P /\ wp \in Nat
        BY <1>4, <1>5 DEF wp
      <4> QED BY <4>1, <2>2, <2>3, <1>1, <1>3, <1>4
    <3>2. 0 * P <= ip
      BY <2>2, <1>3
    <3> HIDE DEF W, ip, pre
    <3> QED BY <3>1, <3>2, <1>8
  <2>5. ArmedFrom(count, pos) <= at => -P < ip - pre
    <3> SUFFICES ASSUME ArmedFrom(count, pos) <= at
                 PROVE  -P < ip - pre
      OBVIOUS
    <3> DEFINE q == pre \div P
               qp == P * q
    <3>1. q <= at
      BY DEF ArmedFrom, P
    <3> HIDE DEF pre
    <3>2. q \in Nat /\ pre < qp + P
      BY <1>1, <1>4, Quotient
    <3> HIDE DEF q
    <3>3. q * P <= ip /\ q * P = qp /\ q * P \in Nat
      BY <1>1, <3>1, <3>2, TimesMonotone
    <3> HIDE DEF qp, ip
    <3> QED BY <3>2, <3>3, <1>1, <1>3, <1>4
  <2>6. ip - (0 * P + pre) = ip - pre /\ ip - pre < P
    <3> HIDE DEF ip, pre
    <3> QED BY <2>2, <2>3, <1>1, <1>3, <1>4
  <2>7. 0 + W <= count
    BY <1>2
  <2> HIDE DEF W, start
  <2>8. Placed(count, at, pos, 0)
    BY <2>4, <2>5, <2>6, <2>7 DEF Placed, P, W
  <2> QED BY <2>1, <2>8 DEF start
<1>10. CASE ~(W <= 1 \/ ip <= pre)
  <2>1. start = IF rounded > last THEN last ELSE rounded
    BY <1>10 DEF WindowStart, P
  <2> HIDE DEF start, W, pre, ip
  <2>2. ip - pre \in Nat /\ pre < ip
    BY <1>3, <1>4, <1>10
  <2>3. /\ rounded \in Nat
        /\ 2 * (rounded * P) <= 2 * (ip - pre) + P
        /\ 2 * (ip - pre) < 2 * (rounded * P) + P
    BY <1>1, <2>2, RoundedStart
  <2> HIDE DEF rounded
  <2>4. last \in Nat /\ last + W = count
    BY <1>2
  <2> DEFINE rp == rounded * P
             lp == last * P
             wp == W * P
  <2>5. rp \in Nat /\ lp \in Nat /\ wp \in Nat /\ pre <= wp - P
    BY <2>3, <2>4, <1>4, <1>5, <1>6
  <2>6. 2 * rp <= 2 * (ip - pre) + P /\ 2 * (ip - pre) < 2 * rp + P
    BY <2>3
  <2>7. rounded <= at
    <3> SUFFICES ASSUME at < rounded
                 PROVE  FALSE
      BY <2>3, <1>1
    <3>1. ip + P <= rp
      BY <1>1, <1>7, <2>3 DEF ip
    <3> HIDE DEF rp
    <3> QED BY <3>1, <2>5, <2>6, <1>1, <1>3, <1>4
  <2>8. rp <= ip
    BY <2>3, <2>7, <1>1, TimesMonotone DEF ip
  <2>9. CASE rounded <= last
    <3>1. start = rounded
      BY <2>1, <2>3, <2>4, <2>9
    <3>2. ip < rp + wp
      <4> HIDE DEF rp, wp
      <4> QED BY <2>5, <2>6, <1>1, <1>3, <1>4
    <3>3. at \in rounded .. rounded + W - 1
      BY <1>8, <2>3, <2>8, <3>2
    <3>4. /\ -P < ip - (rp + pre) /\ ip - (rp + pre) < P
      <4> HIDE DEF rp, wp
      <4> QED BY <2>5, <2>6, <1>1, <1>3, <1>4
    <3>5. rounded + W <= count
      BY <2>3, <2>4, <2>9, <1>2
    <3>6. Placed(count, at, pos, rounded)
      BY <2>3, <3>3, <3>4, <3>5 DEF Placed, P, W, ip, pre
    <3> QED BY <3>1, <3>6 DEF start
  <2>10. CASE ~(rounded <= last)
    <3>1. start = last
      BY <2>1, <2>3, <2>4, <2>10
    <3>2. lp + P <= rp
      BY <2>3, <2>4, <2>10, <1>7
    <3>3. at \in last .. last + W - 1
      BY <2>3, <2>4, <2>7, <2>10, <1>1, <1>2
    <3>4. ip - (lp + pre) > 0
      <4> HIDE DEF rp, lp
      <4> QED BY <2>5, <2>6, <3>2, <1>1, <1>3, <1>4
    <3> HIDE DEF last
    <3>5. Placed(count, at, pos, last)
      BY <2>4, <3>3, <3>4, <1>2 DEF Placed, P, W, ip, pre
    <3> QED BY <3>1, <3>5 DEF start
  <2> QED BY <2>9, <2>10
<1> QED BY <1>9, <1>10

LEMMA SliderRange ==
    /\ PositionSteps \in Nat \ {0}
    /\ \A pos \in Positions : pos \in Nat /\ pos \in 0 .. PositionSteps
<1>1. PositionSteps \in Nat \ {0} /\ Positions \subseteq 0 .. PositionSteps
  BY DisplayAssumption, Zenon
<1> QED BY <1>1

-----------------------------------------------------------------------------
(* The invariant.                                                          *)

\* A captured edge has the pre-trigger samples of the position it was
\* captured at: with TypeOK this is what Aligned needs of a held frame.
HeldArmed == heldValid => ArmedFrom(held.count, heldAt) <= heldIndex

\* What one iteration of the search adds to what is known: there is no edge
\* between the start and where the search has come to, or only the one found.
SearchOK ==
    pc \in {"search", "drawn"} =>
        /\ ~HasSignal(latest) => ~triggerFound
        /\ HasSignal(latest) =>
              /\ Start(latest) <= index
              /\ \A i \in Start(latest) .. index - 1 :
                    Matches(Samples(latest), i, slope, level) =>
                        triggerFound /\ i = triggerIndex
              /\ triggerFound =>
                    /\ triggerIndex \in Start(latest) .. index - 1
                    /\ triggerIndex < latest.count
                    /\ Matches(Samples(latest), triggerIndex, slope, level)

\* What is drawn is the outcome of a search that has come to its end.
SearchOver == pc = "drawn" => ~Searching

Inv == TypeOK /\ NeverBlank /\ HeldArmed /\ SearchOK /\ SearchOver

LEMMA SomeFrame ==
    ASSUME NEW f \in Frames \cup {NoFrame}
    PROVE  f.count \in Nat /\ (f.count # 0 <=> f \in Frames)
BY DisplayAssumption

\* The loop starts where the search is armed, and never before sample 1.
LEMMA StartArmed ==
    ASSUME TypeOK, NEW f \in Frames \cup {NoFrame}
    PROVE  /\ Start(f) \in Nat \ {0}
           /\ HasSignal(f) => \A i \in Nat \ {0} :
                 Start(f) <= i <=> ArmedFrom(f.count, position) <= i
<1>1. CASE HasSignal(f)
  <2> DEFINE from == ArmedFrom(f.count, position)
  <2>1. f.count \in Nat \ {0}
    BY <1>1, SomeFrame DEF HasSignal
  <2>2. from \in Nat
    <3>1. computeDisplayWindow(f.count) - 1 \in Nat
      BY <2>1, WindowLength
    <3>2. position \in Nat /\ PositionSteps \in Nat \ {0}
      BY SliderRange DEF TypeOK
    <3>3. PreTrigger(f.count, position) \in Nat
      <4> DEFINE w == computeDisplayWindow(f.count) - 1
      <4>1. w \in Nat
        BY <3>1
      <4> HIDE DEF w
      <4>2. position * w \in Nat
        BY <3>2, <4>1
      <4> QED BY <4>2 DEF PreTrigger, w
    <3> QED BY <3>2, <3>3, Quotient DEF ArmedFrom
  <2> HIDE DEF from
  <2>3. Start(f) = IF from > 1 THEN from ELSE 1
    BY <1>1 DEF Start, from
  <2>4. /\ Start(f) \in Nat \ {0}
        /\ \A i \in Nat \ {0} : Start(f) <= i <=> from <= i
    BY <2>2, <2>3
  <2> QED BY <2>4 DEF from
<1>2. CASE ~HasSignal(f)
  BY <1>2 DEF Start
<1> QED BY <1>1, <1>2

\* The edge a pass has found, by the time it decides what to hold.
LEMMA TriggerFound ==
    ASSUME Inv, pc \in {"search", "drawn"}, triggerFound
    PROVE  /\ latest \in Frames
           /\ triggerIndex \in 1 .. latest.count - 1
           /\ ArmedFrom(latest.count, position) <= triggerIndex
<1>1. TypeOK /\ latest \in Frames \cup {NoFrame} /\ index \in Nat
  BY DEF Inv, TypeOK
<1>2. HasSignal(latest)
  BY DEF Inv, SearchOK
<1>3. latest \in Frames /\ latest.count \in Nat
  BY <1>1, <1>2, SomeFrame DEF HasSignal
<1>4. /\ triggerIndex \in Start(latest) .. index - 1
      /\ triggerIndex < latest.count
  BY <1>2 DEF Inv, SearchOK
<1>5. Start(latest) \in Nat \ {0}
  BY <1>1, StartArmed
<1>6. triggerIndex \in Nat \ {0} /\ Start(latest) <= triggerIndex
  BY <1>1, <1>4, <1>5
<1>7. ArmedFrom(latest.count, position) <= triggerIndex
  BY <1>1, <1>2, <1>6, StartArmed
<1> QED BY <1>3, <1>4, <1>6, <1>7

LEMMA InitInv == Init => Inv
<1> SUFFICES ASSUME Init
             PROVE  Inv
  OBVIOUS
<1>1. TypeOK
  <2>1. index \in Nat \ {0} /\ triggerIndex \in Nat
    BY DEF Init
  <2> QED BY <2>1, DisplayAssumption, Zenon DEF Init, TypeOK
<1> QED BY <1>1 DEF Init, Inv, NeverBlank, HeldArmed, SearchOK, SearchOver

LEMMA BeginPassInv ==
    ASSUME Inv, NEW f \in Frames \cup {NoFrame}, BeginPass(f)
    PROVE  Inv'
<1>1. Start(f) \in Nat \ {0}
  BY StartArmed DEF Inv
<1>2. TypeOK'
  BY <1>1 DEF Inv, TypeOK, BeginPass, holding, controls
<1>3. (NeverBlank /\ HeldArmed)'
  BY DEF Inv, BeginPass, holding, NeverBlank, HeldArmed
<1>4. Start(latest)' = Start(f)
  BY DEF BeginPass, controls, Start, HasSignal, ArmedFrom, PreTrigger
<1>5. index' = Start(f) /\ ~triggerFound' /\ pc' = "search"
  BY DEF BeginPass
<1>6. \A i \in Start(f) .. index' - 1 : FALSE
  BY <1>1, <1>5
<1>7. SearchOK'
  BY <1>1, <1>4, <1>5, <1>6 DEF SearchOK
<1>8. SearchOver'
  BY <1>5 DEF SearchOver
<1> QED BY <1>2, <1>3, <1>7, <1>8 DEF Inv

LEMMA SearchStepInv == Inv /\ SearchStep => Inv'
<1> SUFFICES ASSUME Inv, SearchStep
             PROVE  Inv'
  OBVIOUS
<1>1. index \in Nat \ {0} /\ triggerIndex \in Nat /\ TypeOK
  BY DEF Inv, TypeOK
<1>2. TypeOK'
  <2>1. /\ index' \in Nat \ {0} /\ triggerIndex' \in Nat
        /\ triggerFound' \in BOOLEAN
    <3>1. triggerFound \in BOOLEAN
      BY <1>1 DEF TypeOK
    <3>2. index' = index + 1
      BY DEF SearchStep
    <3>3. CASE Matches(Samples(latest), index, slope, level)
      BY <1>1, <3>2, <3>3 DEF SearchStep
    <3>4. CASE ~Matches(Samples(latest), index, slope, level)
      BY <1>1, <3>1, <3>2, <3>4 DEF SearchStep
    <3> QED BY <3>3, <3>4
  <2>2. UNCHANGED <<pc, latest, holding, controls>>
    BY DEF SearchStep
  <2> QED BY <1>1, <2>1, <2>2 DEF TypeOK, holding, controls
<1>3. (NeverBlank /\ HeldArmed)'
  BY DEF Inv, SearchStep, holding, NeverBlank, HeldArmed
<1>4. pc' = "search" /\ index' = index + 1 /\ pc = "search"
  BY DEF SearchStep
<1>5. HasSignal(latest) /\ index < latest.count /\ ~triggerFound
  BY DEF SearchStep, Searching
<1>6. UNCHANGED <<latest, source, slope, level, position>>
  BY DEF SearchStep, controls
<1>7. /\ HasSignal(latest)' /\ Start(latest)' = Start(latest)
      /\ Samples(latest)' = Samples(latest)
  BY <1>5, <1>6 DEF HasSignal, Start, Samples, ArmedFrom, PreTrigger
<1>8. Start(latest) \in Nat /\ Start(latest) <= index
  BY <1>1, <1>4, <1>5, StartArmed DEF Inv, SearchOK, TypeOK
<1>9. \A i \in Start(latest) .. index - 1 :
         ~Matches(Samples(latest), i, slope, level)
  BY <1>4, <1>5 DEF Inv, SearchOK
<1>10. \A i \in Start(latest) .. index' - 1 :
          i = index \/ i \in Start(latest) .. index - 1
  BY <1>1, <1>4, <1>8
<1>11. \A i : Matches(Samples(latest), i, slope, level)'
                = Matches(Samples(latest), i, slope, level)
  BY <1>6, <1>7 DEF Matches
<1> DEFINE hit == Matches(Samples(latest), index, slope, level)
<1>12. /\ hit => triggerFound' /\ triggerIndex' = index
       /\ ~hit => ~triggerFound'
  BY <1>5 DEF SearchStep
<1> HIDE DEF hit
<1>13. Start(latest) <= index' /\ index \in Start(latest) .. index' - 1
  BY <1>1, <1>4, <1>8
<1>14. \A i \in Start(latest) .. index' - 1 :
          Matches(Samples(latest), i, slope, level) =>
              triggerFound' /\ i = triggerIndex'
  <2> TAKE i \in Start(latest) .. index' - 1
  <2> HAVE Matches(Samples(latest), i, slope, level)
  <2>1. i = index
    BY <1>9, <1>10
  <2> QED BY <2>1, <1>12 DEF hit
<1>15. triggerFound' =>
          /\ triggerIndex' \in Start(latest) .. index' - 1
          /\ triggerIndex' < latest.count
          /\ Matches(Samples(latest), triggerIndex', slope, level)
  BY <1>5, <1>12, <1>13 DEF hit
<1>16. SearchOK'
  BY <1>6, <1>7, <1>11, <1>13, <1>14, <1>15 DEF SearchOK, Matches
<1>17. SearchOver'
  BY <1>4 DEF SearchOver
<1> QED BY <1>2, <1>3, <1>16, <1>17 DEF Inv

LEMMA HoldInv == Inv /\ Hold => Inv'
<1> SUFFICES ASSUME Inv, Hold
             PROVE  Inv'
  OBVIOUS
<1>1. pc = "search" /\ ~Searching /\ pc' = "drawn"
  BY DEF Hold, Drawn
<1>2. UNCHANGED <<latest, search, controls>>
  BY DEF Hold, Drawn
<1>3. Captures => /\ latest \in Frames
                  /\ triggerIndex \in 1 .. latest.count - 1
                  /\ ArmedFrom(latest.count, position) <= triggerIndex
  BY <1>1, TriggerFound DEF Captures
<1>4. TypeOK'
  <2>1. CASE Captures
    <3>1. latest.count \in Nat /\ latest # NoFrame
      BY <2>1, <1>3, DisplayAssumption
    <3>2. /\ held' = latest /\ heldIndex' = triggerIndex
          /\ heldAt' = position
      BY <2>1 DEF Hold
    <3> QED BY <1>1, <1>2, <1>3, <2>1, <3>1, <3>2
            DEF Inv, TypeOK, Hold, search, controls
  <2>2. CASE ~Captures
    BY <1>1, <1>2, <2>2 DEF Inv, TypeOK, Hold, search, controls
  <2> QED BY <2>1, <2>2
<1>5. NeverBlank'
  <2>1. Captures => mode # "Auto"
    BY DEF Captures
  <2> QED BY <2>1 DEF Inv, NeverBlank, Hold
<1>6. HeldArmed'
  <2>1. CASE Captures
    BY <1>3, <2>1 DEF Hold, HeldArmed, ArmedFrom, PreTrigger
  <2>2. CASE ~Captures
    BY <2>2 DEF Inv, Hold, HeldArmed, ArmedFrom, PreTrigger
  <2> QED BY <2>1, <2>2
<1>7. (SearchOK /\ SearchOver)'
  <2>1. UNCHANGED <<latest, index, triggerFound, triggerIndex, source, slope,
                    level, position>>
    BY <1>2 DEF search, controls
  <2>2. SearchOK'
    BY <1>1, <2>1 DEF Inv, SearchOK, HasSignal, Start, Samples, Matches,
                      ArmedFrom, PreTrigger
  <2>3. SearchOver'
    BY <1>1, <2>1 DEF SearchOver, Searching, HasSignal
  <2> QED BY <2>2, <2>3
<1> QED BY <1>4, <1>5, <1>6, <1>7 DEF Inv

LEMMA NextInv == Inv /\ [Next]_vars => Inv'
<1> SUFFICES ASSUME Inv, [Next]_vars
             PROVE  Inv'
  OBVIOUS
<1>1. CASE PassWithNewFrame
  BY <1>1, BeginPassInv DEF PassWithNewFrame
<1>2. CASE PassWithoutFrame
  BY <1>2, BeginPassInv DEF PassWithoutFrame, Inv, TypeOK
<1>3. CASE SearchStep
  BY <1>3, SearchStepInv
<1>4. CASE Hold
  BY <1>4, HoldInv
<1>5. CASE SetSource \/ SetSlope \/ SetLevel \/ SetPosition \/ SetMode
  BY <1>5 DEF SetSource, SetSlope, SetLevel, SetPosition, SetMode, Panel,
              search, holding, Inv, TypeOK, NeverBlank, HeldArmed, SearchOK,
              SearchOver
<1>6. CASE Rearm
  BY <1>6 DEF Rearm, Panel, search, controls, Inv, TypeOK, NeverBlank,
              HeldArmed, SearchOK, SearchOver
<1>7. CASE UNCHANGED vars
  <2>1. UNCHANGED <<pc, latest, index, triggerFound, triggerIndex, source,
                    slope, level, position>>
    BY <1>7 DEF vars, search, controls
  <2>2. (TypeOK /\ NeverBlank /\ HeldArmed)'
    BY <1>7 DEF vars, search, holding, controls, Inv, TypeOK, NeverBlank,
                HeldArmed
  <2>3. (SearchOK /\ SearchOver)'
    BY <2>1 DEF Inv, SearchOK, SearchOver, Searching, HasSignal, Start,
                Samples, Matches, ArmedFrom, PreTrigger
  <2> QED BY <2>2, <2>3 DEF Inv
<1> QED BY <1>1, <1>2, <1>3, <1>4, <1>5, <1>6, <1>7 DEF Next

LEMMA SpecInv == Spec => []Inv
BY InitInv, NextInv, PTL DEF Spec

-----------------------------------------------------------------------------
(* The theorems.                                                           *)

\* The types, and a held index inside the held record, which the readout of
\* main.cpp:966 and the window of main.cpp:672 take for granted.
THEOREM TypeCorrect == Spec => []TypeOK
BY SpecInv, PTL DEF Inv

\* Single is never disarmed with nothing to show (main.cpp:602-625).
THEOREM NeverBlankHolds == Spec => []NeverBlank
BY SpecInv, PTL DEF Inv

\* The index on the screen is one of the shown record, and armed unless the
\* frame is held from another position.
LEMMA ShownInRecord ==
    ASSUME Inv, pc = "drawn", ShownFound
    PROVE  /\ ShownFrame \in Frames
           /\ ShownIndex \in 0 .. ShownFrame.count - 1
           /\ \/ ArmedFrom(ShownFrame.count, position) <= ShownIndex
              \/ Holding /\ heldAt # position
<1>1. CASE Holding
  BY <1>1 DEF Holding, ShownFrame, ShownIndex, Inv, TypeOK, HeldArmed
<1>2. CASE ~Holding
  <2>1. triggerFound /\ ShownIndex = triggerIndex /\ ShownFrame = latest
    BY <1>2 DEF ShownFound, ShownIndex, ShownFrame
  <2>2. /\ latest \in Frames /\ ShownIndex \in 1 .. latest.count - 1
        /\ ArmedFrom(latest.count, position) <= ShownIndex
    BY <2>1, TriggerFound
  <2> QED BY <2>1, <2>2
<1> QED BY <1>1, <1>2

LEMMA ShownPlaced ==
    ASSUME Inv, pc = "drawn", ShownFound
    PROVE  Placed(ShownFrame.count, ShownIndex, position, ShownStart)
<1>1. ShownFrame \in Frames /\ ShownIndex \in 0 .. ShownFrame.count - 1
  BY ShownInRecord
<1>2. ShownFrame.count \in Nat \ {0} /\ position \in 0 .. PositionSteps
  BY <1>1, DisplayAssumption, SliderRange DEF Inv, TypeOK
<1>3. Placed(ShownFrame.count, ShownIndex, position,
             WindowStart(ShownFrame.count, ShownIndex, position))
  BY <1>1, <1>2, WindowPlaced
<1> QED BY <1>3 DEF ShownStart

\* The window lies in the record and contains the sample that triggered, for
\* every record length and position (main.cpp:667-690).
THEOREM TriggerVisibleHolds == Spec => []TriggerVisible
<1>1. Inv => TriggerVisible
  <2> SUFFICES ASSUME Inv, pc = "drawn"
               PROVE  TriggerVisible
    BY DEF TriggerVisible
  <2>1. CASE ShownFound
    BY <2>1, ShownPlaced DEF TriggerVisible, Placed, ShownLength
  <2>2. CASE ~ShownFound
    <3>1. ShownFrame \in Frames \cup {NoFrame}
      BY DEF ShownFrame, Inv, TypeOK
    <3>2. ShownFrame.count \in Nat
      BY <3>1, DisplayAssumption
    <3>3. ShownLength \in 0 .. ShownFrame.count
      BY <3>2, WindowLength DEF ShownLength
    <3> QED BY <2>2, <3>2, <3>3 DEF TriggerVisible, ShownStart
  <2> QED BY <2>1, <2>2
<1> QED BY <1>1, SpecInv, PTL

\* The edge is within a sample of the marker, except at the end of the record
\* and for a frame held from another position.
THEOREM AlignedHolds == Spec => []Aligned
<1>1. Inv => Aligned
  <2> SUFFICES ASSUME Inv, pc = "drawn", ShownFound
               PROVE  Aligned
    BY DEF Aligned
  <2>1. Placed(ShownFrame.count, ShownIndex, position, ShownStart)
    BY ShownPlaced
  <2>2. \/ ArmedFrom(ShownFrame.count, position) <= ShownIndex
        \/ Holding /\ heldAt # position
    BY ShownInRecord
  <2> QED BY <2>1, <2>2 DEF Placed, Aligned, ShownLength
<1> QED BY <1>1, SpecInv, PTL

\* At the end of the search, the index it left is the first edge, and it left
\* none only where there is none.
LEMMA SearchEnd ==
    ASSUME Inv, pc \in {"search", "drawn"}, ~Searching
    PROVE  (IF triggerFound THEN {triggerIndex} ELSE {}) = FirstEdge(latest)
<1>1. TypeOK /\ latest \in Frames \cup {NoFrame} /\ index \in Nat \ {0}
  BY DEF Inv, TypeOK
<1>2. CASE ~HasSignal(latest)
  BY <1>2 DEF Inv, SearchOK, FirstEdge
<1>3. CASE HasSignal(latest)
  <2> DEFINE start == Start(latest)
             hit(i) == Matches(Samples(latest), i, slope, level)
             edges == {i \in 1 .. latest.count - 1 :
                          i >= ArmedFrom(latest.count, position) /\ hit(i)}
  <2>1. latest.count \in Nat /\ start \in Nat \ {0}
    BY <1>1, StartArmed, SomeFrame
  <2>2. \A i \in Nat \ {0} :
           start <= i <=> ArmedFrom(latest.count, position) <= i
    BY <1>1, <1>3, StartArmed
  <2>3. FirstEdge(latest) = {i \in edges : \A j \in edges : i <= j}
    BY <1>3 DEF FirstEdge
  <2>4. /\ start <= index
        /\ \A i \in start .. index - 1 :
              hit(i) => triggerFound /\ i = triggerIndex
        /\ triggerFound => /\ triggerIndex \in start .. index - 1
                           /\ triggerIndex < latest.count
                           /\ hit(triggerIndex)
    BY <1>3 DEF Inv, SearchOK
  <2>5. triggerFound \/ index >= latest.count
    BY <1>1, <1>3, <2>1 DEF Searching
  <2> HIDE DEF hit, start
  <2>6. \A i : i \in edges <=>
           i \in 1 .. latest.count - 1 /\ start <= i /\ hit(i)
    BY <2>1, <2>2
  <2> HIDE DEF edges
  <2>7. CASE triggerFound
    <3>1. triggerIndex \in edges
      BY <1>1, <2>1, <2>4, <2>6, <2>7
    <3>2. \A j \in edges : triggerIndex <= j
      <4> TAKE j \in edges
      <4>1. j \in Nat /\ start <= j /\ hit(j)
        BY <2>1, <2>6
      <4>2. triggerIndex \in Nat /\ triggerIndex <= index - 1
        BY <1>1, <2>1, <2>4, <2>7
      <4>3. CASE j <= index - 1
        <5>1. j \in start .. index - 1
          BY <1>1, <2>1, <4>1, <4>3
        <5>2. j = triggerIndex
          BY <2>4, <4>1, <5>1
        <5> QED BY <4>2, <5>2
      <4>4. CASE ~(j <= index - 1)
        BY <1>1, <4>1, <4>2, <4>4
      <4> QED BY <4>3, <4>4
    <3>3. \A i \in edges : (\A j \in edges : i <= j) => i = triggerIndex
      <4> TAKE i \in edges
      <4> HAVE \A j \in edges : i <= j
      <4>1. i <= triggerIndex /\ triggerIndex <= i
        BY <3>1, <3>2
      <4>2. i \in Nat /\ triggerIndex \in Nat
        BY <2>1, <2>6, <3>1
      <4> QED BY <4>1, <4>2
    <3> QED BY <2>3, <2>7, <3>1, <3>2, <3>3
  <2>8. CASE ~triggerFound
    <3>1. \A i : i \notin edges
      BY <1>1, <2>1, <2>4, <2>5, <2>6, <2>8
    <3> QED BY <2>3, <2>8, <3>1
  <2> QED BY <2>7, <2>8
<1> QED BY <1>2, <1>3

\* The loop of findEdgeTrigger returns the first edge of every record, at
\* every level, slope and arming point, and nothing where there is none.
THEOREM FindsFirstEdgeHolds == Spec => []FindsFirstEdge
<1>1. Inv => FindsFirstEdge
  BY SearchEnd DEF FindsFirstEdge, Inv, SearchOver
<1> QED BY <1>1, SpecInv, PTL

\* A frame captured in Single mode stays on the screen until Rearm or a
\* change of mode, whatever the worker delivers.
THEOREM SingleHoldsHolds == Spec => SingleHolds
<1>1. Inv /\ [Next]_vars =>
        [mode = "Single" /\ ~armed /\ mode' = "Single" /\ ~Rearm
           => Holding' /\ UNCHANGED <<held, heldIndex>>]_vars
  <2> SUFFICES ASSUME Inv, Next, mode = "Single", ~armed,
                      mode' = "Single", ~Rearm
               PROVE  heldValid' /\ UNCHANGED <<held, heldIndex>>
    BY DEF Holding
  <2>1. heldValid
    BY DEF Inv, NeverBlank
  <2>2. CASE Hold
    BY <2>1, <2>2 DEF Hold, Captures
  <2>3. CASE ~Hold
    BY <2>1, <2>3 DEF Next, PassWithNewFrame, PassWithoutFrame, BeginPass,
                      SearchStep, SetSource, SetSlope, SetLevel, SetPosition,
                      SetMode, holding
  <2> QED BY <2>2, <2>3
<1> QED BY <1>1, SpecInv, PTL DEF Spec, SingleHolds

\* Normal follows the passes that have an edge and outlasts those without.
THEOREM NormalHoldsHolds == Spec => NormalHolds
<1>1. Inv /\ [Next]_vars => [mode = "Normal" => TakesEdgeOrKeeps]_vars
  <2> SUFFICES ASSUME Inv, Next, mode = "Normal"
               PROVE  IF pc' = "drawn" /\ FirstEdge(latest) # {}
                      THEN /\ held' = latest
                           /\ heldIndex' \in FirstEdge(latest)
                           /\ heldValid'
                      ELSE UNCHANGED <<held, heldIndex, heldValid>>
    BY DEF TakesEdgeOrKeeps
  <2>1. CASE Hold
    <3>1. pc = "search" /\ ~Searching /\ pc' = "drawn"
      BY <2>1 DEF Hold, Drawn
    <3>2. (IF triggerFound THEN {triggerIndex} ELSE {}) = FirstEdge(latest)
      BY <3>1, SearchEnd
    <3>3. Captures <=> triggerFound
      BY DEF Captures
    <3>4. heldValid \in BOOLEAN
      BY DEF Inv, TypeOK
    <3>5. CASE triggerFound
      BY <2>1, <3>1, <3>2, <3>3, <3>5 DEF Hold
    <3>6. CASE ~triggerFound
      BY <2>1, <3>1, <3>2, <3>3, <3>4, <3>6 DEF Hold
    <3> QED BY <3>5, <3>6
  <2>2. CASE ~Hold
    <3>1. pc' # "drawn"
      BY <2>2 DEF Next, PassWithNewFrame, PassWithoutFrame, BeginPass,
                  SearchStep, SetSource, SetSlope, SetLevel, SetPosition,
                  SetMode, Rearm, Panel
    <3>2. UNCHANGED <<held, heldIndex, heldValid>>
      BY <2>2 DEF Next, PassWithNewFrame, PassWithoutFrame, BeginPass,
                  SearchStep, SetSource, SetSlope, SetLevel, SetPosition,
                  SetMode, Rearm, holding
    <3> QED BY <3>1, <3>2
  <2> QED BY <2>1, <2>2
<1> QED BY <1>1, SpecInv, PTL DEF Spec, NormalHolds
=============================================================================
