--------------------------- MODULE WaveformParser ---------------------------
(***************************************************************************)
(* The two functions of capture/src/waveform_parser.cpp; a behaviour is    *)
(* one call of either.  parseCaptureStateResponse decodes the trigger      *)
(* point of a capture-state packet, which the instrument sends as a Gray   *)
(* code, with the loops of normalizeTriggerPoint: a bisection over         *)
(* unsigned words, one action per iteration.                               *)
(* parseInterleavedWaveformSamples separates the channels of a capture.    *)
(***************************************************************************)
EXTENDS Integers, Sequences

CONSTANTS
    MaxWord,    \* UINT32_MAX
    ByteValues, \* 256
    Packets,    \* the first bytes the poll may have read, shorter ones too
    Captures,   \* raw captures, of every length
    Formats,    \* sampleCount, channelCount and channelOneSecond
    MaxSampleCount  \* kWaveformMaxSampleCount

Point(packet) == packet[2] * ByteValues * ByteValues
                     + packet[4] * ByteValues + packet[3]

\* A word has 32 bits at most, and room for two more than a trigger point,
\* which has 24.
ASSUME DecoderAssumption ==
    /\ MaxWord \in Nat /\ MaxWord > 2
    /\ MaxWord \div 65536 < 65536
    /\ Packets \subseteq Seq(Nat)
    /\ \A packet \in Packets :
          Len(packet) >= 4 => Point(packet) \in Nat
                              /\ 4 * Point(packet) <= MaxWord

ASSUME CaptureAssumption ==
    /\ Captures \subseteq Seq(Nat)
    /\ Formats \subseteq [sampleCount : Nat, channelCount : Nat,
                          channelOneSecond : BOOLEAN]
    /\ MaxSampleCount \in Nat

VARIABLES pc, packet, triggerPoint, upperBound, lowerBound, offset,
          highestPowerOfTwo, direction,
          format, samples   \* of a call of parseInterleavedWaveformSamples

words == <<triggerPoint, upperBound, lowerBound, offset, highestPowerOfTwo,
           direction>>
sampling == <<format, samples>>
vars == <<pc, packet, words, sampling>>

\* Unsigned arithmetic.
Word(n) == n % (MaxWord + 1)

\* The contents of samples when a call begins: those of an earlier capture.
Before == [i \in 0 .. MaxSampleCount - 1 |-> "before"]

Init == /\ \/ pc = "parse" /\ packet \in Packets
           \/ pc = "samples" /\ packet \in Captures
        /\ format \in (IF pc = "samples" THEN Formats ELSE {"none"})
        /\ samples = [channelOne |-> Before, channelTwo |-> Before,
                      sampleCount |-> "before"]
        /\ triggerPoint = 0 /\ upperBound = 0 /\ lowerBound = 0 /\ offset = 0
        /\ highestPowerOfTwo = 1 /\ direction = TRUE

Reject == /\ pc = "parse" /\ Len(packet) < 4
          /\ pc' = "rejected"
          /\ UNCHANGED <<packet, words, sampling>>

\* MUTANT of Parse: the two low bytes in the order of the packet.
ParseInOrder == /\ pc = "parse" /\ Len(packet) >= 4
                /\ triggerPoint' = Word(packet[2] * ByteValues * ByteValues
                                     + packet[3] * ByteValues + packet[4])
                /\ upperBound' = triggerPoint'
                /\ pc' = "scale"
                /\ UNCHANGED <<packet, lowerBound, offset, highestPowerOfTwo,
                               direction, sampling>>

Parse == /\ pc = "parse" /\ Len(packet) >= 4
         /\ triggerPoint' = Word(Point(packet))
         /\ upperBound' = triggerPoint'
         /\ pc' = "scale"
         /\ UNCHANGED <<packet, lowerBound, offset, highestPowerOfTwo,
                        direction, sampling>>

\* The first loop: the least power of two above the trigger point.
Scales == upperBound > 0 /\ highestPowerOfTwo <= MaxWord \div 2

Scale == /\ pc = "scale" /\ Scales
         /\ upperBound' = upperBound \div 2
         /\ highestPowerOfTwo' = Word(2 * highestPowerOfTwo)
         /\ UNCHANGED <<pc, packet, triggerPoint, lowerBound, offset,
                        direction, sampling>>

\* MUTANT of StartSearch: the power of two itself as the upper bound.
StartSearchTooHigh ==
    /\ pc = "scale" /\ ~Scales
    /\ IF upperBound > 0 THEN pc' = "returned" /\ UNCHANGED upperBound
       ELSE pc' = "search" /\ upperBound' = highestPowerOfTwo
    /\ UNCHANGED <<packet, triggerPoint, lowerBound, offset,
                   highestPowerOfTwo, direction, sampling>>

StartSearch ==
    /\ pc = "scale" /\ ~Scales
    /\ IF upperBound > 0 THEN pc' = "returned" /\ UNCHANGED upperBound
       ELSE pc' = "search" /\ upperBound' = Word(highestPowerOfTwo - 1)
    /\ UNCHANGED <<packet, triggerPoint, lowerBound, offset,
                   highestPowerOfTwo, direction, sampling>>

\* The bisection.  The direction is that of the step before: a Gray code
\* runs backwards in every other half.
midpoint == Word(Word(Word(upperBound - lowerBound) + 1) \div 2 + offset)

TakeLower ==
    /\ pc = "search" /\ upperBound > lowerBound
    /\ (midpoint > triggerPoint) = direction
    /\ offset' = (IF direction THEN offset ELSE midpoint)
    /\ upperBound' = Word(Word(upperBound + lowerBound) - 1) \div 2
    /\ direction' = TRUE
    /\ UNCHANGED <<pc, packet, triggerPoint, lowerBound,
                   highestPowerOfTwo, sampling>>

\* MUTANT of TakeUpper: the lower half rounded down.
TakeUpperRoundsDown ==
    /\ pc = "search" /\ upperBound > lowerBound
    /\ (midpoint > triggerPoint) # direction
    /\ offset' = (IF direction THEN midpoint ELSE offset)
    /\ lowerBound' = Word(lowerBound + upperBound) \div 2
    /\ direction' = FALSE
    /\ UNCHANGED <<pc, packet, triggerPoint, upperBound,
                   highestPowerOfTwo, sampling>>

TakeUpper ==
    /\ pc = "search" /\ upperBound > lowerBound
    /\ (midpoint > triggerPoint) # direction
    /\ offset' = (IF direction THEN midpoint ELSE offset)
    /\ lowerBound' = Word(Word(lowerBound + upperBound) + 1) \div 2
    /\ direction' = FALSE
    /\ UNCHANGED <<pc, packet, triggerPoint, upperBound,
                   highestPowerOfTwo, sampling>>

Return == /\ pc = "search" /\ upperBound <= lowerBound
          /\ pc' = "returned"
          /\ UNCHANGED <<packet, words, sampling>>

-----------------------------------------------------------------------------
(* The samples of a capture: data[i] of the code is packet[i + 1].         *)

Fits == /\ format.sampleCount <= MaxSampleCount
        /\ format.channelCount \in {1, 2}
        /\ Len(packet) = format.sampleCount * format.channelCount

\* MUTANT of ParseSamples: the second channel is not told from the first.
ParseSamplesInOrder ==
    /\ pc = "samples" /\ Fits
    /\ LET n == format.sampleCount
           put(channel, first, step) ==
               [i \in DOMAIN channel |->
                   IF i < n THEN packet[step * i + first + 1] ELSE channel[i]]
       IN  samples' =
             IF format.channelCount = 1
             THEN [samples EXCEPT !.channelOne = put(@, 0, 1),
                                  !.sampleCount = n]
             ELSE [channelOne |-> put(samples.channelOne, 0, 2),
                   channelTwo |-> put(samples.channelTwo, 1, 2),
                   sampleCount |-> n]
    /\ pc' = "parsed"
    /\ UNCHANGED <<packet, words, format>>

ParseSamples ==
    /\ pc = "samples" /\ Fits
    /\ LET n == format.sampleCount
           one == IF format.channelOneSecond THEN 1 ELSE 0
           put(channel, first, step) ==
               [i \in DOMAIN channel |->
                   IF i < n THEN packet[step * i + first + 1] ELSE channel[i]]
       IN  samples' =
             IF format.channelCount = 1
             THEN [samples EXCEPT !.channelOne = put(@, 0, 1),
                                  !.sampleCount = n]
             ELSE [channelOne |-> put(samples.channelOne, one, 2),
                   channelTwo |-> put(samples.channelTwo, 1 - one, 2),
                   sampleCount |-> n]
    /\ pc' = "parsed"
    /\ UNCHANGED <<packet, words, format>>

RejectSamples == /\ pc = "samples" /\ ~Fits
                 /\ pc' = "rejected"
                 /\ UNCHANGED <<packet, words, sampling>>

\* The function has returned.
Ended == pc \in {"parsed", "rejected", "returned"} /\ UNCHANGED vars

Next == \/ Reject \/ Parse \/ Scale \/ StartSearch
        \/ TakeLower \/ TakeUpper \/ Return
        \/ ParseSamples \/ RejectSamples \/ Ended

Spec == Init /\ [][Next]_vars

\* The call runs on by itself.
FairSpec == Spec /\ WF_vars(Next)

-----------------------------------------------------------------------------
(* Properties.                                                             *)

\* The words of waveform_parser.cpp:114-118 are what they would be as
\* integers: no sum, difference or shift of lines 123-144 leaves the range of
\* an unsigned word, and the candidates that are left always lie between 0
\* and twice the trigger point.
NoWrap ==
    /\ pc = "scale" => /\ highestPowerOfTwo <= MaxWord \div 2
                       /\ upperBound <= triggerPoint
    /\ pc = "search" =>
          /\ lowerBound <= upperBound
          /\ upperBound < highestPowerOfTwo
          /\ highestPowerOfTwo <= 2 * triggerPoint \/ highestPowerOfTwo = 1
          /\ offset + (upperBound - lowerBound + 1) <= highestPowerOfTwo
          /\ upperBound + lowerBound + 1 <= MaxWord

Bit(n, i) == (n \div 2 ^ i) % 2

\* n, as a Gray code, is the bits code.
IsGrayCode(code, n) ==
    \A i \in 0 .. 30 : 2 ^ i <= 2 * code + 2 =>
        Bit(code, i) = (Bit(n, i) + Bit(n, i + 1)) % 2

\* What is returned is the position whose Gray code the packet carries, the
\* bytes 1, 3 and 2 of it, high to low.
Decoded ==
    pc = "returned" => /\ IsGrayCode(Point(packet), lowerBound)
                       /\ lowerBound <= 2 * Point(packet)

\* Every iteration of the bisection leaves half of the candidates exactly: it
\* makes as many as there were doublings of highestPowerOfTwo, one for each bit
\* of the trigger point (waveform_parser.cpp:122-148).
BisectionHalves ==
    [][pc = "search" /\ pc' = "search" =>
          2 * (upperBound' - lowerBound' + 1)
             = upperBound - lowerBound + 1]_vars

\* Both loops end (waveform_parser.cpp:122 and 131).
CallReturns == pc = "parse" ~> pc \in {"rejected", "returned"}

\* Every byte of an accepted capture is at the place of one sample, so that
\* the capture can be put together again from the two channels: pairs are
\* channel 2 then channel 1 when channelOneSecond is set.  A capture of
\* another length leaves the samples of the last one alone, as the reuse of
\* waveform in acquisition_loop.cpp:485-500 requires.
SamplesAreTheCapture ==
    /\ pc = "parsed" =>
          /\ samples.sampleCount * format.channelCount = Len(packet)
          /\ \A k \in 0 .. Len(packet) - 1 :
                LET i == k \div format.channelCount
                    second == k % format.channelCount = 1
                IN  packet[k + 1] =
                      IF format.channelCount = 1
                           \/ second = format.channelOneSecond
                      THEN samples.channelOne[i] ELSE samples.channelTwo[i]
    /\ pc = "rejected" => samples.sampleCount = "before"
                          /\ samples.channelOne = Before
                          /\ samples.channelTwo = Before
=============================================================================
