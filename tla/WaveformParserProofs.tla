------------------------ MODULE WaveformParserProofs ------------------------
(***************************************************************************)
(* The arithmetic of the decoder never wraps, for words and                *)
(* trigger points of every size.  The invariant carries two products that  *)
(* NoWrap leaves out: how far the first loop has come, and the width of    *)
(* what the bisection has left.  The samples of a capture are its bytes,   *)
(* for every format.                                                       *)
(***************************************************************************)
EXTENDS WaveformParser, TLAPS

TypeOK ==
    /\ pc \in {"parse", "scale", "search", "rejected", "returned",
              "samples", "parsed"}
    /\ pc = "parse" => packet \in Packets
    /\ triggerPoint \in Nat /\ 4 * triggerPoint <= MaxWord
    /\ upperBound \in Nat /\ lowerBound \in Nat /\ offset \in Nat
    /\ highestPowerOfTwo \in Nat \ {0}
    /\ direction \in BOOLEAN

\* While upperBound is positive the power still fits under the trigger point.
Scaling ==
    pc \in {"parse", "scale"} =>
        /\ upperBound * highestPowerOfTwo <= triggerPoint
        /\ upperBound <= triggerPoint
        /\ lowerBound = 0 /\ offset = 0
        /\ highestPowerOfTwo <= 2 * triggerPoint \/ highestPowerOfTwo = 1
        /\ pc = "parse" => highestPowerOfTwo = 1

Searching ==
    pc = "search" =>
        /\ lowerBound <= upperBound
        /\ upperBound < highestPowerOfTwo
        /\ highestPowerOfTwo <= 2 * triggerPoint \/ highestPowerOfTwo = 1
        /\ offset + (upperBound - lowerBound + 1) <= highestPowerOfTwo

Inv == TypeOK /\ Scaling /\ Searching

LEMMA WordSmall ==
    ASSUME NEW n \in 0 .. MaxWord
    PROVE  Word(n) = n
BY DecoderAssumption DEF Word

LEMMA InitInv == Init => Inv
BY DecoderAssumption DEF Init, Inv, TypeOK, Scaling, Searching

LEMMA ParseInv ==
    ASSUME Inv, Parse
    PROVE  Inv'
<1>1. Point(packet) \in Nat /\ 4 * Point(packet) <= MaxWord
  BY DecoderAssumption DEF Parse, Inv, TypeOK
<1> DEFINE point == Point(packet)
<1>2. point \in 0 .. MaxWord
  BY <1>1, DecoderAssumption
<1>3. triggerPoint' = point /\ upperBound' = point
  BY <1>2, WordSmall DEF Parse
<1>4. highestPowerOfTwo = 1 /\ lowerBound = 0 /\ offset = 0
  BY DEF Inv, Scaling, Parse
<1> HIDE DEF point
<1> QED BY <1>1, <1>2, <1>3, <1>4 DEF Parse, Inv, TypeOK, Scaling, Searching,
       point

LEMMA ScaleInv ==
    ASSUME Inv, Scale
    PROVE  Inv'
<1> DEFINE u == upperBound
           h == highestPowerOfTwo
           q == u \div 2
<1>1. u \in Nat \ {0} /\ h \in Nat \ {0} /\ u * h <= triggerPoint
  BY DEF Inv, TypeOK, Scaling, Scale, Scales
<1>2. q \in Nat /\ 2 * q <= u
  <2> HIDE DEF u
  <2> QED BY <1>1
<1>3. h <= u * h
  <2> HIDE DEF u, h
  <2>1. (u - 1) \in Nat
    BY <1>1
  <2>2. (u - 1) * h \in Nat
    BY <1>1, <2>1
  <2>3. (u - 1) * h = u * h - h
    BY <1>1
  <2>4. u * h \in Nat
    BY <1>1
  <2> QED BY <1>1, <2>2, <2>3, <2>4
<1>4. q * (2 * h) <= u * h
  <2> HIDE DEF u, h, q
  <2>1. u - 2 * q \in Nat
    BY <1>1, <1>2
  <2>2. (u - 2 * q) * h \in Nat
    BY <1>1, <2>1
  <2>3. (u - 2 * q) * h = u * h - q * (2 * h)
    BY <1>1, <1>2
  <2>4. u * h \in Nat /\ q * (2 * h) \in Nat
    BY <1>1, <1>2
  <2> QED BY <2>2, <2>3, <2>4
<1>5. triggerPoint \in Nat /\ u * h \in Nat /\ 4 * triggerPoint <= MaxWord
  <2> HIDE DEF u, h
  <2> QED BY <1>1 DEF Inv, TypeOK
<1>6. 2 * h <= 2 * triggerPoint /\ 2 * h \in 0 .. MaxWord
  <2> DEFINE uh == u * h
  <2>1. uh \in Nat /\ h <= uh /\ uh <= triggerPoint
    BY <1>1, <1>3, <1>5
  <2> HIDE DEF uh, u, h
  <2> QED BY <2>1, <1>1, <1>5, DecoderAssumption
<1>7. highestPowerOfTwo' = 2 * h /\ upperBound' = q
  BY <1>6, WordSmall DEF Scale
<1>8. q * (2 * h) <= triggerPoint
  <2> DEFINE uh == u * h
             qh == q * (2 * h)
  <2>1. uh \in Nat /\ qh <= uh /\ uh <= triggerPoint
    BY <1>1, <1>4, <1>5
  <2>2. qh \in Nat
    <3> HIDE DEF q, h
    <3> QED BY <1>1, <1>2
  <2> HIDE DEF uh, qh, u, h, q
  <2>3. qh <= triggerPoint
    BY <2>1, <2>2, <1>5
  <2> QED BY <2>3 DEF qh
<1>9. Scaling'
  <2>1. UNCHANGED <<triggerPoint, lowerBound, offset, pc>> /\ pc = "scale"
    BY DEF Scale
  <2>2. q <= triggerPoint
    BY <1>1, <1>2, <1>5 DEF Inv, Scaling, Scale
  <2>3. lowerBound = 0 /\ offset = 0
    BY <2>1 DEF Inv, Scaling
  <2> HIDE DEF q, h
  <2> QED BY <1>6, <1>7, <1>8, <2>1, <2>2, <2>3 DEF Scaling
<1>10. TypeOK' /\ Searching'
  <2> HIDE DEF q, h
  <2> QED BY <1>1, <1>2, <1>7 DEF Inv, TypeOK, Searching, Scale
<1> QED BY <1>9, <1>10 DEF Inv

LEMMA StartSearchInv ==
    ASSUME Inv, StartSearch
    PROVE  Inv'
<1> DEFINE h == highestPowerOfTwo
<1>1. h \in Nat \ {0} /\ h - 1 \in 0 .. MaxWord
  BY DecoderAssumption DEF Inv, TypeOK, Scaling, StartSearch
<1>2. Word(h - 1) = h - 1
  BY <1>1, WordSmall
<1>3. lowerBound = 0 /\ offset = 0 /\ pc = "scale"
  BY DEF Inv, Scaling, StartSearch
<1> QED BY <1>1, <1>2, <1>3 DEF StartSearch, Inv, TypeOK, Scaling, Searching

\* The sums of one step of the bisection, and what is left after it.
LEMMA Halves ==
    ASSUME Inv, pc = "search", upperBound > lowerBound
    PROVE  LET w == upperBound - lowerBound + 1
           IN  /\ Word(Word(upperBound + lowerBound) - 1) \div 2
                     = lowerBound + (w \div 2) - 1
               /\ Word(Word(lowerBound + upperBound) + 1) \div 2
                     = lowerBound + (w \div 2)
               /\ midpoint = w \div 2 + offset
               /\ w \in Nat /\ 2 <= w /\ w \div 2 \in 1 .. w - 1
               /\ upperBound + lowerBound + 1 <= MaxWord
               /\ offset + w <= highestPowerOfTwo
<1> DEFINE u == upperBound
           l == lowerBound
           w == u - l + 1
<1>1. /\ u \in Nat /\ l \in Nat /\ l < u /\ offset \in Nat
      /\ highestPowerOfTwo \in Nat /\ u < highestPowerOfTwo
      /\ 2 * highestPowerOfTwo <= MaxWord /\ MaxWord \in Nat
      /\ offset + w <= highestPowerOfTwo
  BY DecoderAssumption DEF Inv, TypeOK, Searching
<1> HIDE DEF u, l
<1>2. /\ u + l \in 0 .. MaxWord /\ u + l - 1 \in 0 .. MaxWord
      /\ l + u + 1 \in 0 .. MaxWord
      /\ u - l \in 0 .. MaxWord /\ w \in 0 .. MaxWord
      /\ w \in Nat /\ 2 <= w
  BY <1>1
<1>3. w \div 2 \in 1 .. w - 1 /\ (w \div 2) + offset \in 0 .. MaxWord
  <2>1. w \div 2 \in 1 .. w - 1
    <3> HIDE DEF w
    <3> QED BY <1>2
  <2> QED BY <2>1, <1>1, <1>2
<1>4. /\ (u + l - 1) \div 2 = l + (w \div 2) - 1
      /\ (l + u + 1) \div 2 = l + (w \div 2)
  BY <1>1
<1>5. Word(u + l) = u + l /\ Word(l + u) = l + u
  BY <1>1, <1>2, WordSmall
<1>6. Word(Word(u + l) - 1) = u + l - 1 /\ Word(Word(l + u) + 1) = l + u + 1
  <2> DEFINE below == u + l - 1
             above == l + u + 1
  <2>1. below \in 0 .. MaxWord /\ above \in 0 .. MaxWord
    BY <1>2
  <2>2. Word(u + l) - 1 = below /\ Word(l + u) + 1 = above
    BY <1>1, <1>5
  <2> HIDE DEF below, above
  <2>3. Word(below) = below /\ Word(above) = above
    BY <2>1, WordSmall
  <2>4. /\ Word(Word(u + l) - 1) = below
        /\ Word(Word(l + u) + 1) = above
    BY <2>2, <2>3
  <2> QED BY <2>4 DEF below, above
<1>7. midpoint = w \div 2 + offset
  <2>1. Word(u - l) = u - l /\ Word(w) = w
    BY <1>2, WordSmall
  <2>2. Word((w \div 2) + offset) = (w \div 2) + offset
    <3> DEFINE m == (w \div 2) + offset
    <3>1. m \in 0 .. MaxWord
      BY <1>3
    <3> HIDE DEF m
    <3>2. Word(m) = m
      BY <3>1, WordSmall
    <3> QED BY <3>2 DEF m
  <2> QED BY <2>1, <2>2 DEF midpoint, u, l
<1> QED BY <1>1, <1>2, <1>3, <1>4, <1>6, <1>7 DEF u, l

LEMMA TakeInv ==
    ASSUME Inv, TakeLower \/ TakeUpper
    PROVE  Inv'
<1> DEFINE w == upperBound - lowerBound + 1
           half == w \div 2
<1>1. pc = "search" /\ upperBound > lowerBound
  BY DEF TakeLower, TakeUpper
<1>2. /\ Word(Word(upperBound + lowerBound) - 1) \div 2 = lowerBound + half - 1
      /\ Word(Word(lowerBound + upperBound) + 1) \div 2 = lowerBound + half
      /\ midpoint = half + offset
      /\ 2 <= w /\ half \in 1 .. w - 1
      /\ offset + w <= highestPowerOfTwo
  BY <1>1, Halves
<1>3. 2 * half <= w
  BY <1>1 DEF Inv, TypeOK
<1> HIDE DEF half
<1>6. /\ pc' = "search" /\ triggerPoint' = triggerPoint
      /\ highestPowerOfTwo' = highestPowerOfTwo
      /\ direction' \in BOOLEAN
  BY DEF TakeLower, TakeUpper
<1>7. /\ triggerPoint \in Nat
      /\ 4 * triggerPoint <= MaxWord /\ highestPowerOfTwo \in Nat \ {0}
      /\ upperBound \in Nat /\ lowerBound \in Nat /\ offset \in Nat
      /\ upperBound < highestPowerOfTwo
      /\ highestPowerOfTwo <= 2 * triggerPoint \/ highestPowerOfTwo = 1
  BY <1>1 DEF Inv, TypeOK, Searching
<1>8. ASSUME upperBound' \in Nat, lowerBound' \in Nat, offset' \in Nat,
             lowerBound' <= upperBound', upperBound' <= upperBound,
             offset' + (upperBound' - lowerBound' + 1) <= offset + w
      PROVE  Inv'
  <2>1. /\ upperBound' < highestPowerOfTwo
        /\ offset' + (upperBound' - lowerBound' + 1) <= highestPowerOfTwo
    <3>1. offset + w <= highestPowerOfTwo
      BY <1>2
    <3>2. offset + w \in Int /\ offset' + (upperBound' - lowerBound' + 1) \in Int
      BY <1>7, <1>8
    <3> DEFINE a == offset + w
               b == offset' + (upperBound' - lowerBound' + 1)
    <3>3. a \in Int /\ b \in Int /\ b <= a /\ a <= highestPowerOfTwo
      BY <3>1, <3>2, <1>8
    <3> HIDE DEF a, b
    <3>4. b <= highestPowerOfTwo
      BY <3>3, <1>7
    <3>5. upperBound' < highestPowerOfTwo
      <4>1. upperBound \in Nat /\ highestPowerOfTwo \in Nat
            /\ upperBound < highestPowerOfTwo
        BY <1>7
      <4>2. upperBound' \in Nat /\ upperBound' <= upperBound
        BY <1>8
      <4> QED BY <4>1, <4>2
    <3>6. offset' + (upperBound' - lowerBound' + 1) <= highestPowerOfTwo
      BY <3>4 DEF b
    <3> QED BY <3>5, <3>6
  <2>2. TypeOK'
    BY <1>6, <1>7, <1>8 DEF TypeOK
  <2>3. Scaling' /\ Searching'
    BY <1>6, <1>7, <1>8, <2>1 DEF Scaling, Searching
  <2> QED BY <2>2, <2>3 DEF Inv
<1>4. CASE TakeLower
  <2>1. /\ upperBound' = lowerBound + half - 1
        /\ lowerBound' = lowerBound
        /\ offset' = offset \/ offset' = half + offset
    BY <1>2, <1>4 DEF TakeLower
  <2> QED BY <2>1, <1>1, <1>2, <1>3, <1>7, <1>8
<1>5. CASE TakeUpper
  <2>1. /\ lowerBound' = lowerBound + half
        /\ upperBound' = upperBound
        /\ offset' = offset \/ offset' = half + offset
    BY <1>2, <1>5 DEF TakeUpper
  <2> QED BY <2>1, <1>1, <1>2, <1>3, <1>7, <1>8
<1> QED BY <1>4, <1>5

LEMMA NextInv == Inv /\ [Next]_vars => Inv'
<1> SUFFICES ASSUME Inv, [Next]_vars
             PROVE  Inv'
  OBVIOUS
<1>1. CASE Reject
  BY <1>1 DEF Reject, words, Inv, TypeOK, Scaling, Searching
<1>2. CASE Return
  BY <1>2 DEF Return, words, Inv, TypeOK, Scaling, Searching
<1>3. CASE Ended \/ UNCHANGED vars
  BY <1>3 DEF Ended, vars, words, Inv, TypeOK, Scaling, Searching
<1>4. CASE ParseSamples \/ RejectSamples
  <2>1. pc' \in {"parsed", "rejected"} /\ UNCHANGED words
    BY <1>4 DEF ParseSamples, RejectSamples
  <2> QED BY <2>1 DEF words, Inv, TypeOK, Scaling, Searching
<1> QED BY <1>1, <1>2, <1>3, <1>4, ParseInv, ScaleInv, StartSearchInv, TakeInv
        DEF Next

\* No word of the decoder wraps, for every word size that leaves two bits
\* above the trigger points (waveform_parser.cpp:113-151).
THEOREM NoWrapHolds == Spec => []NoWrap
<1>1. Inv => NoWrap
  BY DecoderAssumption DEF Inv, TypeOK, Scaling, Searching, NoWrap
<1>2. Spec => []Inv
  BY InitInv, NextInv, PTL DEF Spec
<1> QED BY <1>1, <1>2, PTL

-----------------------------------------------------------------------------
(* The samples: what is overwritten is all there was to overwrite.         *)

SamplesInv ==
    /\ pc # "parsed" => samples = [channelOne |-> Before,
                                  channelTwo |-> Before,
                                  sampleCount |-> "before"]
    /\ pc \in {"samples", "parsed"} => packet \in Captures /\ format \in Formats
    /\ SamplesAreTheCapture

\* Byte k of a capture of two channels is the byte k % 2 of pair k \div 2.
LEMMA PlaceOfByte ==
    ASSUME NEW k \in Nat, NEW n \in Nat, NEW c \in {1, 2}, k < n * c
    PROVE  /\ k \div c \in 0 .. n - 1
           /\ c = 1 => k \div c = k /\ k % c = 0
           /\ c = 2 => k = 2 * (k \div c) + (k % c) /\ k % c \in {0, 1}
<1>1. CASE c = 1
  BY <1>1
<1>2. CASE c = 2
  BY <1>2
<1> QED BY <1>1, <1>2

LEMMA ParseSamplesInv ==
    ASSUME SamplesInv, ParseSamples
    PROVE  SamplesAreTheCapture'
<1> DEFINE n == format.sampleCount
           c == format.channelCount
           one == IF format.channelOneSecond THEN 1 ELSE 0
           put(first, step) ==
               [i \in 0 .. MaxSampleCount - 1 |->
                   IF i < n THEN packet[step * i + first + 1] ELSE Before[i]]
<1>1. /\ packet \in Seq(Nat) /\ n \in Nat /\ c \in {1, 2}
      /\ format.channelOneSecond \in BOOLEAN
      /\ MaxSampleCount \in Nat /\ n <= MaxSampleCount
      /\ Len(packet) = n * c
      /\ packet' = packet /\ format' = format /\ pc' = "parsed"
  BY CaptureAssumption DEF SamplesInv, ParseSamples, Fits
<1>2. samples.channelOne = Before /\ samples.channelTwo = Before
  BY DEF SamplesInv, ParseSamples
<1>3. /\ c = 1 => samples' = [samples EXCEPT !.channelOne = put(0, 1),
                                            !.sampleCount = n]
      /\ c = 2 => samples' = [channelOne |-> put(one, 2),
                             channelTwo |-> put(1 - one, 2),
                             sampleCount |-> n]
  BY <1>1, <1>2 DEF ParseSamples, Before
<1>4. /\ samples'.sampleCount = n
      /\ c = 1 => samples'.channelOne = put(0, 1)
      /\ c = 2 => /\ samples'.channelOne = put(one, 2)
                 /\ samples'.channelTwo = put(1 - one, 2)
  BY <1>1, <1>3 DEF SamplesInv, ParseSamples
<1>5. ASSUME NEW first \in Nat, NEW step \in Nat, NEW i \in 0 .. n - 1
      PROVE  put(first, step)[i] = packet[step * i + first + 1]
  BY <1>1, <1>5
<1>6. ASSUME NEW k \in 0 .. Len(packet) - 1
      PROVE  packet[k + 1] =
                IF c = 1 \/ (k % c = 1) = format.channelOneSecond
                THEN samples'.channelOne[k \div c]
                ELSE samples'.channelTwo[k \div c]
  <2> DEFINE i == k \div c
             r == k % c
  <2>a. one \in {0, 1}
    OBVIOUS
  <2>0. one = 1 <=> format.channelOneSecond
    OBVIOUS
  <2> HIDE DEF n, c, put, one
  <2>1. k \in Nat /\ k < n * c
    BY <1>1, <1>6
  <2>2. /\ i \in 0 .. n - 1
        /\ c = 1 => i = k
        /\ c = 2 => k = 2 * i + r /\ r \in {0, 1}
    BY <2>1, <1>1, PlaceOfByte
  <2> HIDE DEF i, r
  <2>b. i \in Int
    BY <2>2, <1>1
  <2>3. CASE c = 1
    <3>1. put(0, 1)[i] = packet[1 * i + 0 + 1]
      BY <2>2, <1>5
    <3>2. 1 * i + 0 + 1 = k + 1
      BY <2>2, <2>3, <2>b
    <3>3. samples'.channelOne[i] = packet[k + 1]
      BY <3>1, <3>2, <2>3, <1>4
    <3> QED BY <3>3, <2>3 DEF i
  <2>4. CASE c = 2
    <3>0. one \in Nat /\ 1 - one \in Nat
      BY <2>a
    <3>1. samples'.channelOne[i] = packet[2 * i + one + 1]
      <4>1. put(one, 2)[i] = packet[2 * i + one + 1]
        BY <2>2, <3>0, <1>5
      <4> QED BY <4>1, <2>4, <1>4
    <3>2. samples'.channelTwo[i] = packet[2 * i + (1 - one) + 1]
      <4> DEFINE other == 1 - one
      <4>1. other \in Nat
        BY <3>0
      <4> HIDE DEF other
      <4>2. put(other, 2)[i] = packet[2 * i + other + 1]
        BY <2>2, <4>1, <1>5
      <4> QED BY <4>2, <2>4, <1>4 DEF other
    <3>3. k = 2 * i + r /\ r \in {0, 1}
      BY <2>2, <2>4
    <3>4. CASE (r = 1) = format.channelOneSecond
      <4>1. one = r
        BY <3>4, <3>3, <2>a, <2>0, <1>1
      <4>2. samples'.channelOne[i] = packet[k + 1]
        BY <4>1, <3>1, <3>3
      <4> QED BY <4>2, <3>4 DEF i, r
    <3>5. CASE (r = 1) # format.channelOneSecond
      <4>1. 1 - one = r
        BY <3>5, <3>3, <2>a, <2>0, <1>1
      <4>2. samples'.channelTwo[i] = packet[k + 1]
        BY <4>1, <3>2, <3>3
      <4> QED BY <4>2, <3>5, <2>4 DEF i, r
    <3> QED BY <3>4, <3>5
  <2> QED BY <2>3, <2>4, <1>1
<1> QED BY <1>1, <1>4, <1>6 DEF SamplesAreTheCapture

LEMMA SamplesInvNext == SamplesInv /\ [Next]_vars => SamplesInv'
<1> SUFFICES ASSUME SamplesInv, [Next]_vars
             PROVE  SamplesInv'
  OBVIOUS
<1>1. CASE ParseSamples
  <2>1. SamplesAreTheCapture'
    BY <1>1, ParseSamplesInv
  <2> QED BY <1>1, <2>1 DEF ParseSamples, SamplesInv
<1>2. ASSUME UNCHANGED sampling,
             pc # "parsed", pc' # "parsed",
             pc' = "samples" => pc = "samples" /\ packet' = packet
      PROVE  SamplesInv'
  BY <1>2 DEF SamplesInv, sampling, SamplesAreTheCapture
<1>3. CASE Reject \/ Parse \/ Scale \/ StartSearch \/ TakeLower \/ TakeUpper
           \/ Return \/ RejectSamples
  BY <1>2, <1>3 DEF Reject, Parse, Scale, StartSearch, TakeLower, TakeUpper,
     Return, RejectSamples
<1>4. CASE Ended \/ UNCHANGED vars
  BY <1>4 DEF Ended, vars, sampling, SamplesInv, SamplesAreTheCapture
<1> QED BY <1>1, <1>3, <1>4 DEF Next

\* The channels of an accepted capture are its bytes, each once, for every
\* length and format, and a rejected one changes no sample
\* (waveform_parser.cpp:65-108).
THEOREM SamplesAreTheCaptureHolds == Spec => []SamplesAreTheCapture
<1>1. Init => SamplesInv
  BY DEF Init, SamplesInv, SamplesAreTheCapture
<1>2. Spec => []SamplesInv
  BY <1>1, SamplesInvNext, PTL DEF Spec
<1>3. SamplesInv => SamplesAreTheCapture
  BY DEF SamplesInv
<1> QED BY <1>2, <1>3, PTL
-----------------------------------------------------------------------------
(***************************************************************************)
(* The decoder.  The width of what is left is a power of two, and divides  *)
(* both bounds: lowerBound is the width times a number a, the first        *)
(* trigger point left the width times b, and b is the Gray code of a.  The *)
(* direction is that of the half a lies in.                                *)
(***************************************************************************)
Powers == {2 ^ i : i \in 0 .. 31}

Gray(code, n) ==
    \A i \in 0 .. 30 : Bit(code, i) = (Bit(n, i) + Bit(n, i + 1)) % 2

Width == upperBound - lowerBound + 1

Bisecting ==
    /\ Width \in Powers
    /\ offset <= triggerPoint /\ triggerPoint < offset + Width
    /\ \E a, b \in Nat : /\ lowerBound = Width * a /\ offset = Width * b
                         /\ direction <=> a % 2 = 0
                         /\ Gray(b, a)

Decoding ==
    /\ pc \in {"scale", "search", "returned"} => triggerPoint = Point(packet)
    /\ pc \in {"parse", "scale"} => direction /\ highestPowerOfTwo \in Powers
    /\ pc = "scale" => triggerPoint < (upperBound + 1) * highestPowerOfTwo
    /\ pc = "search" => Bisecting
    /\ Decoded

LEMMA QuotientIs ==
    ASSUME NEW d \in Nat \ {0}, NEW q \in Nat, NEW r \in 0 .. d - 1,
           NEW n \in Nat, n = d * q + r
    PROVE  n \div d = q
<1> DEFINE k == n \div d
           m == n % d
<1>1. k \in Nat /\ m \in 0 .. d - 1 /\ n = d * k + m
  OBVIOUS
<1> HIDE DEF k, m
<1>2. d * (k - q) = r - m
  BY <1>1
<1>3. CASE k - q >= 1
  <2>1. d * (k - q) >= d
    BY <1>3, <1>1
  <2> QED BY <2>1, <1>2, <1>1
<1>4. CASE k - q <= -1
  <2>1. d * (k - q) <= -d
    <3>1. d * (q - k) >= d
      BY <1>4, <1>1
    <3>2. d * (q - k) = -(d * (k - q))
      BY <1>1
    <3>3. d * (q - k) \in Int /\ d * (k - q) \in Int
      BY <1>1
    <3> QED BY <3>1, <3>2, <3>3
  <2> QED BY <2>1, <1>2, <1>1
<1>5. CASE k - q = 0
  BY <1>5, <1>1 DEF k
<1> QED BY <1>1, <1>3, <1>4, <1>5

\* The bits above the lowest of 2 * x + c are those of x.
LEMMA HalfQuotient ==
    ASSUME NEW x \in Nat, NEW c \in {0, 1}, NEW y \in Nat \ {0}
    PROVE  (2 * x + c) \div (2 * y) = x \div y
<1> DEFINE q == x \div y
           r == x % y
<1>1. q \in Nat /\ r \in 0 .. y - 1 /\ x = y * q + r
  OBVIOUS
<1> HIDE DEF q, r
<1>2. 2 * x + c = (2 * y) * q + (2 * r + c)
  BY <1>1
<1>3. 2 * r + c \in 0 .. 2 * y - 1 /\ 2 * y \in Nat \ {0}
  BY <1>1
<1> DEFINE d == 2 * y
           s == 2 * r + c
           n == 2 * x + c
<1>4. d \in Nat \ {0} /\ s \in 0 .. d - 1 /\ n \in Nat /\ n = d * q + s
  BY <1>2, <1>3
<1> HIDE DEF d, s, n
<1>5. n \div d = q
  BY <1>1, <1>4, QuotientIs
<1> QED BY <1>5 DEF n, d, q

\* The provers know a power of two only when its exponent is a number.
LEMMA NextPower ==
    ASSUME NEW i \in 0 .. 30
    PROVE  2 ^ i \in Nat \ {0} /\ 2 ^ (i + 1) = 2 * 2 ^ i
<1>0. CASE i = 0  BY <1>0
<1>1. CASE i = 1  BY <1>1
<1>2. CASE i = 2  BY <1>2
<1>3. CASE i = 3  BY <1>3
<1>4. CASE i = 4  BY <1>4
<1>5. CASE i = 5  BY <1>5
<1>6. CASE i = 6  BY <1>6
<1>7. CASE i = 7  BY <1>7
<1>8. CASE i = 8  BY <1>8
<1>9. CASE i = 9  BY <1>9
<1>10. CASE i = 10  BY <1>10
<1>11. CASE i = 11  BY <1>11
<1>12. CASE i = 12  BY <1>12
<1>13. CASE i = 13  BY <1>13
<1>14. CASE i = 14  BY <1>14
<1>15. CASE i = 15  BY <1>15
<1>16. CASE i = 16  BY <1>16
<1>17. CASE i = 17  BY <1>17
<1>18. CASE i = 18  BY <1>18
<1>19. CASE i = 19  BY <1>19
<1>20. CASE i = 20  BY <1>20
<1>21. CASE i = 21  BY <1>21
<1>22. CASE i = 22  BY <1>22
<1>23. CASE i = 23  BY <1>23
<1>24. CASE i = 24  BY <1>24
<1>25. CASE i = 25  BY <1>25
<1>26. CASE i = 26  BY <1>26
<1>27. CASE i = 27  BY <1>27
<1>28. CASE i = 28  BY <1>28
<1>29. CASE i = 29  BY <1>29
<1>30. CASE i = 30  BY <1>30
<1> QED BY <1>0, <1>1, <1>2, <1>3, <1>4, <1>5, <1>6, <1>7, <1>8, <1>9,
        <1>10, <1>11, <1>12, <1>13, <1>14, <1>15, <1>16, <1>17, <1>18, <1>19,
        <1>20, <1>21, <1>22, <1>23, <1>24, <1>25, <1>26, <1>27, <1>28, <1>29,
        <1>30

LEMMA PowerTypes ==
    /\ 1 \in Powers
    /\ \A h \in Powers : h \in Nat \ {0}
<1>1. 2 ^ 0 = 1 /\ 2 ^ 31 \in Nat \ {0}
  OBVIOUS
<1>2. 1 \in Powers
  BY <1>1 DEF Powers
<1>3. ASSUME NEW i \in 0 .. 31
      PROVE  2 ^ i \in Nat \ {0}
  <2>1. CASE i = 31
    BY <2>1, <1>1
  <2>2. CASE i # 31
    <3>1. i \in 0 .. 30
      BY <2>2
    <3> QED BY <3>1, NextPower, Zenon
  <2> QED BY <2>1, <2>2
<1> QED BY <1>2, <1>3 DEF Powers

LEMMA DoublePower ==
    ASSUME NEW h \in Powers, 2 * h <= MaxWord
    PROVE  2 * h \in Powers
<1>1. PICK i \in 0 .. 31 : h = 2 ^ i
  BY DEF Powers
<1>2. CASE i = 31
  <2>1. h = 2147483648
    BY <1>1, <1>2
  <2>2. MaxWord \in Nat /\ MaxWord \div 65536 < 65536
    BY DecoderAssumption
  <2>3. MaxWord < 4294967296
    BY <2>2
  <2> QED BY <2>1, <2>2, <2>3
<1>3. CASE i # 31
  <2>1. i \in 0 .. 30 /\ i + 1 \in 0 .. 31
    BY <1>3
  <2>2. 2 ^ (i + 1) = 2 * 2 ^ i
    BY <2>1, NextPower, Zenon
  <2> QED BY <1>1, <2>1, <2>2, Zenon DEF Powers
<1> QED BY <1>2, <1>3

LEMMA HalfPower ==
    ASSUME NEW w \in Powers, 2 <= w
    PROVE  w \div 2 \in Powers /\ w = 2 * (w \div 2)
<1>1. PICK i \in 0 .. 31 : w = 2 ^ i
  BY DEF Powers
<1>2. i # 0
  <2>1. w # 1 /\ 2 ^ 0 = 1
    BY PowerTypes
  <2> QED BY <1>1, <2>1, Zenon
<1> DEFINE j == i - 1
           v == 2 ^ j
<1>3. j \in 0 .. 30 /\ j \in 0 .. 31 /\ j + 1 = i
  BY <1>2
<1> HIDE DEF j
<1>4. v \in Nat \ {0} /\ 2 ^ (j + 1) = 2 * v
  BY <1>3, NextPower, Zenon
<1>5. v \in Powers
  BY <1>3, Zenon DEF Powers
<1>6. w = 2 * v
  BY <1>1, <1>3, <1>4, Zenon
<1> HIDE DEF v
<1>7. w \div 2 = v
  BY <1>4, <1>6
<1> QED BY <1>5, <1>6, <1>7

LEMMA BitType ==
    ASSUME NEW x \in Nat, NEW i \in 0 .. 31
    PROVE  Bit(x, i) \in {0, 1}
<1>1. 2 ^ i \in Nat \ {0}
  BY PowerTypes DEF Powers
<1> DEFINE y == 2 ^ i
           q == x \div y
<1> HIDE DEF y
<1>2. q \in Nat
  BY <1>1 DEF y
<1> HIDE DEF q
<1>3. q % 2 \in {0, 1}
  BY <1>2
<1> QED BY <1>3 DEF Bit, q, y

LEMMA LowestBit ==
    ASSUME NEW x \in Nat, NEW c \in {0, 1}
    PROVE  Bit(2 * x + c, 0) = c /\ Bit(x, 0) = x % 2
<1>1. 2 ^ 0 = 1
  OBVIOUS
<1>2. (2 * x + c) \div 1 = 2 * x + c /\ x \div 1 = x
  OBVIOUS
<1>3. (2 * x + c) % 2 = c
  OBVIOUS
<1> QED BY <1>1, <1>2, <1>3 DEF Bit

LEMMA HigherBit ==
    ASSUME NEW x \in Nat, NEW c \in {0, 1}, NEW i \in 0 .. 30
    PROVE  Bit(2 * x + c, i + 1) = Bit(x, i)
<1>1. 2 ^ i \in Nat \ {0} /\ 2 ^ (i + 1) = 2 * 2 ^ i
  BY NextPower
<1> DEFINE y == 2 ^ i
<1>2. (2 * x + c) \div (2 * y) = x \div y
  BY <1>1, HalfQuotient
<1> QED BY <1>1, <1>2 DEF Bit

\* A number and its code both get one bit more.
LEMMA GrayGrows ==
    ASSUME NEW a \in Nat, NEW b \in Nat, NEW c \in {0, 1}, NEW d \in {0, 1},
           Gray(b, a), d = (c + (a % 2)) % 2
    PROVE  Gray(2 * b + d, 2 * a + c)
<1> SUFFICES ASSUME NEW i \in 0 .. 30
             PROVE  Bit(2 * b + d, i)
                      = (Bit(2 * a + c, i) + Bit(2 * a + c, i + 1)) % 2
  BY DEF Gray
<1>1. CASE i = 0
  <2>1. Bit(2 * b + d, 0) = d /\ Bit(2 * a + c, 0) = c
    BY LowestBit
  <2>2. Bit(2 * a + c, 0 + 1) = Bit(a, 0)
    BY HigherBit, 0 \in 0 .. 30, Zenon
  <2>3. Bit(a, 0) = a % 2
    BY LowestBit
  <2> QED BY <1>1, <2>1, <2>2, <2>3
<1>2. CASE i # 0
  <2> DEFINE j == i - 1
  <2>1. j \in 0 .. 30 /\ j + 1 \in 0 .. 30 /\ i = j + 1
    BY <1>2
  <2> HIDE DEF j
  <2>2. /\ Bit(2 * b + d, j + 1) = Bit(b, j)
        /\ Bit(2 * a + c, j + 1) = Bit(a, j)
        /\ Bit(2 * a + c, (j + 1) + 1) = Bit(a, j + 1)
    BY <2>1, HigherBit
  <2>3. Bit(b, j) = (Bit(a, j) + Bit(a, j + 1)) % 2
    BY <2>1 DEF Gray
  <2> QED BY <2>1, <2>2, <2>3
<1> QED BY <1>1, <1>2

LEMMA GrayStarts == Gray(0, 0)
<1> SUFFICES ASSUME NEW i \in 0 .. 30
             PROVE  Bit(0, i) = (Bit(0, i) + Bit(0, i + 1)) % 2
  BY DEF Gray
<1>1. ASSUME NEW y \in Nat \ {0}
      PROVE  0 \div y = 0
  OBVIOUS
<1>2. i \in 0 .. 31 /\ i + 1 \in 0 .. 31
  OBVIOUS
<1>3. 2 ^ i \in Nat \ {0} /\ 2 ^ (i + 1) \in Nat \ {0}
  BY <1>2, PowerTypes, Zenon DEF Powers
<1>4. 0 \div (2 ^ i) = 0 /\ 0 \div (2 ^ (i + 1)) = 0
  BY <1>1, <1>3, Zenon
<1>5. 0 % 2 = 0 /\ (0 + 0) % 2 = 0
  OBVIOUS
<1> QED BY <1>4, <1>5, Zenon DEF Bit

LEMMA ParseDecodes ==
    ASSUME Inv, Decoding, Parse
    PROVE  Decoding'
<1>1. Point(packet) \in Nat /\ 4 * Point(packet) <= MaxWord
  BY DecoderAssumption DEF Parse, Inv, TypeOK
<1> DEFINE point == Point(packet)
<1>2. point \in 0 .. MaxWord
  BY <1>1, DecoderAssumption
<1>3. triggerPoint' = point /\ upperBound' = point
  BY <1>2, WordSmall DEF Parse
<1>4. /\ highestPowerOfTwo = 1 /\ direction
      /\ UNCHANGED <<packet, direction, highestPowerOfTwo>> /\ pc' = "scale"
  BY DEF Inv, Scaling, Parse, Decoding
<1>5. Point(packet)' = point
  BY <1>4 DEF Point
<1> HIDE DEF point
<1>6. point < (point + 1) * 1
  BY <1>2
<1> QED BY <1>3, <1>4, <1>5, <1>6, PowerTypes DEF Decoding, Decoded

LEMMA ScaleDecodes ==
    ASSUME Inv, Decoding, Scale
    PROVE  Decoding'
<1> DEFINE u == upperBound
           h == highestPowerOfTwo
           q == u \div 2
<1>1. /\ u \in Nat /\ h \in Nat \ {0} /\ h \in Powers
      /\ triggerPoint \in Nat /\ triggerPoint < (u + 1) * h
      /\ pc = "scale" /\ direction /\ h <= MaxWord \div 2
  BY DEF Inv, TypeOK, Scale, Scales, Decoding
<1>2. 2 * h \in 0 .. MaxWord
  BY <1>1, DecoderAssumption
<1>3. highestPowerOfTwo' = 2 * h /\ upperBound' = q
  BY <1>2, WordSmall DEF Scale
<1>4. 2 * h \in Powers
  BY <1>1, <1>2, DoublePower
<1>5. triggerPoint < (q + 1) * (2 * h)
  <2>1. q \in Nat /\ u + 1 <= 2 * q + 2
    BY <1>1
  <2> HIDE DEF u, h, q
  <2> DEFINE s == 2 * q + 2 - (u + 1)
  <2>2. s \in Nat
    BY <1>1, <2>1
  <2> HIDE DEF s
  <2>3. s * h \in Nat
    BY <1>1, <2>2
  <2>4. (q + 1) * (2 * h) = (u + 1) * h + s * h
    BY <1>1, <2>1 DEF s
  <2>5. (u + 1) * h \in Nat
    BY <1>1
  <2> QED BY <1>1, <2>3, <2>4, <2>5
<1>6. UNCHANGED <<pc, packet, triggerPoint, direction>>
  BY DEF Scale
<1>7. Point(packet)' = Point(packet)
  BY <1>6 DEF Point
<1> HIDE DEF q, h, u
<1> QED BY <1>1, <1>3, <1>4, <1>5, <1>6, <1>7 DEF Decoding, Decoded

LEMMA StartSearchDecodes ==
    ASSUME Inv, Decoding, StartSearch
    PROVE  Decoding'
<1> DEFINE h == highestPowerOfTwo
<1>1. /\ h \in Nat \ {0} /\ h \in Powers /\ pc = "scale" /\ direction
      /\ triggerPoint \in Nat /\ triggerPoint < (upperBound + 1) * h
      /\ lowerBound = 0 /\ offset = 0 /\ upperBound \in Nat
      /\ h <= MaxWord \div 2 /\ h - 1 \in 0 .. MaxWord
  BY DecoderAssumption DEF Inv, TypeOK, Scaling, StartSearch, Decoding
<1>2. upperBound = 0
  BY <1>1 DEF StartSearch, Scales
<1>3. upperBound' = h - 1 /\ pc' = "search"
  BY <1>1, <1>2, WordSmall DEF StartSearch
<1>4. UNCHANGED <<packet, triggerPoint, direction, lowerBound, offset>>
  BY DEF StartSearch
<1>5. triggerPoint < h
  BY <1>1, <1>2
<1> HIDE DEF h
<1>6. Width' = h
  BY <1>1, <1>3, <1>4 DEF Width
<1>7. 0 = h * 0 /\ 0 % 2 = 0
  BY <1>1
<1>8. \E a, b \in Nat : /\ 0 = h * a /\ 0 = h * b
                        /\ direction <=> a % 2 = 0
                        /\ Gray(b, a)
  BY <1>1, <1>7, GrayStarts
<1>9. Bisecting'
  BY <1>1, <1>4, <1>5, <1>6, <1>8 DEF Bisecting
<1>10. Point(packet)' = Point(packet)
  BY <1>4 DEF Point
<1> QED BY <1>1, <1>3, <1>4, <1>9, <1>10 DEF Decoding, Decoded

\* One step of the bisection adds a bit to the number and one to its code.
LEMMA TakeDecodes ==
    ASSUME Inv, Decoding, TakeLower \/ TakeUpper
    PROVE  Decoding'
<1> DEFINE v == Width \div 2
<1>1. pc = "search" /\ upperBound > lowerBound /\ Bisecting
  BY DEF TakeLower, TakeUpper, Decoding
<1>2. /\ Word(Word(upperBound + lowerBound) - 1) \div 2 = lowerBound + v - 1
      /\ Word(Word(lowerBound + upperBound) + 1) \div 2 = lowerBound + v
      /\ midpoint = v + offset
      /\ 2 <= Width
  BY <1>1, Halves DEF Width
<1>3. v \in Powers /\ Width = 2 * v
  BY <1>1, <1>2, HalfPower DEF Bisecting
<1> HIDE DEF v
<1>4. v \in Nat \ {0}
  BY <1>3, PowerTypes
<1>5. /\ upperBound \in Nat /\ lowerBound \in Nat /\ offset \in Nat
      /\ triggerPoint \in Nat /\ direction \in BOOLEAN
  BY DEF Inv, TypeOK
<1>6. upperBound = lowerBound + 2 * v - 1
  BY <1>3, <1>4, <1>5 DEF Width
<1>7. PICK a \in Nat, b \in Nat :
         /\ lowerBound = Width * a /\ offset = Width * b
         /\ direction <=> a % 2 = 0
         /\ Gray(b, a)
  BY <1>1 DEF Bisecting
<1>8. /\ lowerBound = v * (2 * a) /\ offset = v * (2 * b)
      /\ lowerBound + v = v * (2 * a + 1)
      /\ offset + v = v * (2 * b + 1)
  BY <1>3, <1>4, <1>7
<1>9. offset <= triggerPoint /\ triggerPoint < offset + 2 * v
  BY <1>1, <1>3 DEF Bisecting
<1>10. a % 2 \in {0, 1}
  BY <1>7
<1>11. ASSUME NEW c \in {0, 1}, NEW d \in {0, 1}, d = (c + (a % 2)) % 2,
              lowerBound' = lowerBound + c * v, Width' = v,
              offset' = offset + d * v,
              offset' <= triggerPoint, triggerPoint < offset' + v,
              direction' <=> c = 0
       PROVE  Bisecting'
  <2>1. Gray(2 * b + d, 2 * a + c)
    BY <1>7, <1>11, GrayGrows
  <2>2. lowerBound' = v * (2 * a + c) /\ offset' = v * (2 * b + d)
    BY <1>4, <1>5, <1>7, <1>8, <1>11
  <2>3. (2 * a + c) % 2 = c
    BY <1>7, <1>11
  <2>4. 2 * a + c \in Nat /\ 2 * b + d \in Nat
    BY <1>7, <1>11
  <2>5. triggerPoint' = triggerPoint
    BY DEF TakeLower, TakeUpper
  <2>6. \E m, n \in Nat : /\ lowerBound' = v * m /\ offset' = v * n
                          /\ direction' <=> m % 2 = 0
                          /\ Gray(n, m)
    BY <1>11, <2>1, <2>2, <2>3, <2>4
  <2> QED BY <1>3, <1>11, <2>5, <2>6 DEF Bisecting
<1>12. ASSUME TakeLower PROVE Bisecting'
  <2>1. /\ upperBound' = lowerBound + v - 1 /\ lowerBound' = lowerBound
        /\ direction' = TRUE /\ (midpoint > triggerPoint) = direction
        /\ offset' = (IF direction THEN offset ELSE midpoint)
    BY <1>2, <1>12 DEF TakeLower
  <2>2. Width' = v
    BY <1>4, <1>5, <2>1 DEF Width
  <2>5. lowerBound' = lowerBound + 0 * v /\ (direction' <=> 0 = 0)
    BY <1>4, <1>5, <2>1
  <2>3. CASE direction
    <3>1. v + offset > triggerPoint /\ offset' = offset
      BY <1>2, <2>1, <2>3
    <3>2. 0 = (0 + (a % 2)) % 2
      BY <1>7, <1>10, <2>3
    <3>3. /\ offset' = offset + 0 * v
          /\ offset' <= triggerPoint /\ triggerPoint < offset' + v
      BY <1>4, <1>5, <1>9, <3>1
    <3> QED BY <1>11, <2>2, <2>5, <3>2, <3>3
  <2>4. CASE ~direction
    <3>1. ~(v + offset > triggerPoint) /\ offset' = v + offset
      BY <1>2, <1>5, <2>1, <2>4
    <3>2. 1 = (0 + (a % 2)) % 2
      BY <1>7, <1>10, <2>4
    <3>3. /\ offset' = offset + 1 * v
          /\ offset' <= triggerPoint /\ triggerPoint < offset' + v
      BY <1>4, <1>5, <1>9, <3>1
    <3> QED BY <1>11, <2>2, <2>5, <3>2, <3>3
  <2> QED BY <2>3, <2>4
<1>13. ASSUME TakeUpper PROVE Bisecting'
  <2>1. /\ lowerBound' = lowerBound + v /\ upperBound' = upperBound
        /\ direction' = FALSE /\ (midpoint > triggerPoint) # direction
        /\ offset' = (IF direction THEN midpoint ELSE offset)
    BY <1>2, <1>13 DEF TakeUpper
  <2>2. Width' = v
    BY <1>4, <1>5, <1>6, <2>1 DEF Width
  <2>3. CASE direction
    <3>1. ~(v + offset > triggerPoint) /\ offset' = v + offset
      BY <1>2, <1>5, <2>1, <2>3
    <3>2. 1 = (1 + (a % 2)) % 2
      BY <1>7, <1>10, <2>3
    <3> QED BY <1>4, <1>5, <1>9, <1>11, <2>1, <2>2, <3>1, <3>2
  <2>4. CASE ~direction
    <3>1. v + offset > triggerPoint /\ offset' = offset
      BY <1>2, <1>5, <2>1, <2>4
    <3>2. 0 = (1 + (a % 2)) % 2
      BY <1>7, <1>10, <2>4
    <3> QED BY <1>4, <1>5, <1>9, <1>11, <2>1, <2>2, <3>1, <3>2
  <2> QED BY <2>3, <2>4
<1>14. Bisecting'
  BY <1>12, <1>13
<1>15. /\ pc' = "search" /\ UNCHANGED <<packet, triggerPoint>>
       /\ Point(packet)' = Point(packet)
  BY <1>1 DEF TakeLower, TakeUpper, Point
<1> QED BY <1>1, <1>14, <1>15 DEF Decoding, Decoded

LEMMA ReturnDecodes ==
    ASSUME Inv, Decoding, Return
    PROVE  Decoding'
<1>1. /\ pc = "search" /\ pc' = "returned" /\ Bisecting
      /\ triggerPoint = Point(packet)
      /\ UNCHANGED <<packet, triggerPoint, lowerBound>>
  BY DEF Return, Decoding, words
<1>2. /\ upperBound \in Nat /\ lowerBound \in Nat /\ offset \in Nat
      /\ triggerPoint \in Nat /\ upperBound = lowerBound
  BY <1>1 DEF Inv, TypeOK, Searching, Return
<1>3. Width = 1
  BY <1>2 DEF Width
<1>4. Gray(triggerPoint, lowerBound)
  <2>1. PICK a \in Nat, b \in Nat : /\ lowerBound = 1 * a /\ offset = 1 * b
                                    /\ Gray(b, a)
    BY <1>1, <1>3 DEF Bisecting
  <2>2. lowerBound = a /\ triggerPoint = b
    BY <1>1, <1>2, <1>3, <2>1 DEF Bisecting
  <2> QED BY <2>1, <2>2
<1>5. lowerBound <= 2 * triggerPoint
  BY <1>1, <1>2 DEF Inv, TypeOK, Searching
<1>6. Point(packet)' = Point(packet)
  BY <1>1 DEF Point
<1>7. IsGrayCode(Point(packet), lowerBound)
  BY <1>1, <1>4 DEF IsGrayCode, Gray
<1>8. Decoded'
  <2>1. IsGrayCode(Point(packet), lowerBound)'
          <=> IsGrayCode(Point(packet), lowerBound)
    BY <1>1, <1>6 DEF IsGrayCode
  <2> QED BY <1>1, <1>5, <1>6, <1>7, <2>1 DEF Decoded
<1> QED BY <1>1, <1>6, <1>8 DEF Decoding

LEMMA DecodingNext == Inv /\ Decoding /\ [Next]_vars => Decoding'
<1> SUFFICES ASSUME Inv, Decoding, [Next]_vars
             PROVE  Decoding'
  OBVIOUS
<1>1. CASE Reject \/ ParseSamples \/ RejectSamples
  BY <1>1 DEF Reject, ParseSamples, RejectSamples, Decoding, Decoded
<1>2. CASE Ended \/ UNCHANGED vars
  BY <1>2 DEF Ended, vars, words, Decoding, Decoded, Bisecting, Width, Point,
     IsGrayCode
<1> QED BY <1>1, <1>2, ParseDecodes, ScaleDecodes, StartSearchDecodes,
        TakeDecodes, ReturnDecodes DEF Next

LEMMA DecodingHolds == Spec => [](Inv /\ Decoding)
<1>1. Init => Decoding
  BY PowerTypes DEF Init, Decoding, Decoded
<1> QED BY <1>1, InitInv, NextInv, DecodingNext, PTL DEF Spec

\* What parseCaptureStateResponse returns is the number whose Gray code the
\* packet carries, for every packet (waveform_parser.cpp:41-60, 113-151).
THEOREM DecodedHolds == Spec => []Decoded
<1>1. Decoding => Decoded
  BY DEF Decoding
<1> QED BY <1>1, DecodingHolds, PTL
\* The bisection ends, after one iteration for each bit of the trigger point,
\* whatever the packet and the size of the words (waveform_parser.cpp:122-148).
THEOREM BisectionAlwaysHalves == Spec => BisectionHalves
<1> DEFINE HalfLeft == pc = "search" /\ pc' = "search" =>
                        2 * (upperBound' - lowerBound' + 1)
                           = upperBound - lowerBound + 1
<1>1. ASSUME Inv, Decoding, Next, pc = "search", pc' = "search"
      PROVE  2 * (upperBound' - lowerBound' + 1)
                = upperBound - lowerBound + 1
  <2> DEFINE v == Width \div 2
  <2>1. TakeLower \/ TakeUpper
    BY <1>1 DEF Next, Reject, Parse, Scale, StartSearch, Return,
                ParseSamples, RejectSamples, Ended
  <2>2. upperBound > lowerBound /\ Bisecting
    BY <1>1, <2>1 DEF TakeLower, TakeUpper, Decoding
  <2>3. /\ Word(Word(upperBound + lowerBound) - 1) \div 2
              = lowerBound + v - 1
        /\ Word(Word(lowerBound + upperBound) + 1) \div 2 = lowerBound + v
        /\ 2 <= Width
    BY <1>1, <2>2, Halves DEF Width
  <2>4. Width = 2 * v /\ v \in Nat
    BY <2>2, <2>3, HalfPower, PowerTypes DEF Bisecting
  <2>5. \/ upperBound' = lowerBound + v - 1 /\ lowerBound' = lowerBound
        \/ lowerBound' = lowerBound + v /\ upperBound' = upperBound
    BY <2>1, <2>3 DEF TakeLower, TakeUpper
  <2>6. upperBound \in Nat /\ lowerBound \in Nat
    BY <1>1 DEF Inv, TypeOK
  <2> HIDE DEF v
  <2> QED BY <2>4, <2>5, <2>6 DEF Width
<1>2. Inv /\ Decoding /\ [Next]_vars => [HalfLeft]_vars
  BY <1>1
<1>3. Spec => [](Inv /\ Decoding)
  BY DecodingHolds
<1> QED BY <1>2, <1>3, PTL DEF Spec, BisectionHalves
=============================================================================
