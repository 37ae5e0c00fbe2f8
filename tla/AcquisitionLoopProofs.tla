------------------------ MODULE AcquisitionLoopProofs ------------------------
(***************************************************************************)
(* What AcquisitionLoop guarantees for every buffer capacity, capture      *)
(* size, failure limit and bound.                                          *)
(***************************************************************************)
EXTENDS AcquisitionLoop, SequenceTheorems, WellFoundedInduction, TLAPS

USE TransactionsAssumption, AcquisitionAssumption

-----------------------------------------------------------------------------
\* The transfer sequences.

LEMMA ConcatSeq ==
    ASSUME NEW S, NEW s \in Seq(S), NEW t \in Seq(S)
    PROVE  s \o t \in Seq(S) /\ Len(s \o t) = Len(s) + Len(t)
OBVIOUS

LEMMA CommandSeq ==
    ASSUME NEW S, NEW op \in S, "eBeginCmd" \in S, "eSpeedBeforeCmd" \in S
    PROVE  ExecuteCommand(op) \in Seq(S)
BY DEF ExecuteCommand

LEMMA CommandsSeq ==
    ASSUME NEW S, NEW n \in Nat, NEW op \in S,
           "eBeginCmd" \in S, "eSpeedBeforeCmd" \in S
    PROVE  ExecuteCommands(n, op) \in Seq(S)
<1>1. ExecuteCommands(n, op) \in [1 .. 3 * n -> S]
  BY DEF ExecuteCommands
<1>2. 3 * n \in Nat
  OBVIOUS
<1> QED BY <1>1, <1>2, SeqDef

LEMMA RepeatSeq ==
    ASSUME NEW S, NEW n \in Nat, NEW op \in S
    PROVE  Repeat(n, op) \in Seq(S) /\ Len(Repeat(n, op)) = n
<1>1. Repeat(n, op) \in [1 .. n -> S]
  BY DEF Repeat
<1> QED BY <1>1, SeqDef

\* Polling and reading never start a capture.
Harmless == Operations \ {"eCaptureStartCmd"}

LEMMA HarmlessTransfers ==
    /\ ConfigureCapture \in Seq(Harmless)
    /\ ExecutePollingTransaction \in Seq(Harmless)
    /\ ReadCaptureData \in Seq(Harmless)
    /\ Len(ReadCaptureData) = 4 + DataPackets
<1> DEFINE S == Harmless
<1>1. \A op \in S : ExecuteCommand(op) \in Seq(S)
  BY CommandSeq DEF Harmless, Operations
<1>2. ConfigureTimebase \in Seq(S)
  <2>1. "eSetTriggerNSampleRateCmd" \in S
    BY DEF Harmless, Operations
  <2>2. ExecuteCommands(ConfigCommands, "eSetTriggerNSampleRateCmd") \in Seq(S)
    BY <2>1, CommandsSeq DEF Harmless, Operations
  <2>3. <<"eSetTriggerNSampleRateCmd">> \in Seq(S)
    BY <2>1
  <2> HIDE DEF S
  <2> QED BY <1>1, <2>1, <2>2, <2>3, ConcatSeq DEF ConfigureTimebase
<1>3. ConfigureCapture \in Seq(S)
  <2>1. <<"eSetRelaysCmd", "eGetChannelLevelCmd", "eSetOffsetCmd">> \in Seq(S)
    BY DEF Harmless, Operations
  <2>2. "eSetFilterCmd" \in S /\ "eSetVoltageNCouplingCmd" \in S
    BY DEF Harmless, Operations
  <2> HIDE DEF S
  <2> QED BY <1>1, <1>2, <2>1, <2>2, ConcatSeq DEF ConfigureCapture
<1>4. ExecutePollingTransaction \in Seq(S)
  <2>1. <<"eSpeedBeforeResponse", "eCaptureStateResponse">> \in Seq(S)
    BY DEF Harmless, Operations
  <2>2. "eTriggerEnabledCmd" \in S /\ "eCaptureStateCmd" \in S
    BY DEF Harmless, Operations
  <2> HIDE DEF S
  <2> QED BY <1>1, <2>1, <2>2, ConcatSeq DEF ExecutePollingTransaction
<1>5. ReadCaptureData \in Seq(S) /\ Len(ReadCaptureData) = 4 + DataPackets
  <2> DEFINE c == ExecuteCommand("eChannelDataCmd")
             r == Repeat(DataPackets, "eChannelDataResponse")
             o == <<"eSpeedBeforeResponse">>
  <2>1. c \in Seq(S) /\ Len(c) = 3
    BY <1>1 DEF Harmless, Operations, ExecuteCommand
  <2>2. r \in Seq(S) /\ Len(r) = DataPackets
    BY RepeatSeq DEF Harmless, Operations
  <2>3. o \in Seq(S) /\ Len(o) = 1
    BY DEF Harmless, Operations
  <2>4. ReadCaptureData = c \o o \o r
    BY DEF ReadCaptureData
  <2> HIDE DEF S, c, r, o
  <2>5. c \o o \in Seq(S) /\ Len(c \o o) = Len(c) + Len(o)
    BY <2>1, <2>3, ConcatSeq
  <2>6. c \o o \o r \in Seq(S) /\ Len(c \o o \o r) = 4 + DataPackets
    BY <2>1, <2>2, <2>3, <2>5, ConcatSeq
  <2> QED BY <2>4, <2>6
<1> QED BY <1>3, <1>4, <1>5

LEMMA RestartType == RestartCapture \in Seq(Operations)
<1>1. \A op \in Operations : ExecuteCommand(op) \in Seq(Operations)
  BY CommandSeq DEF Operations
<1>2. {"eCaptureStartCmd", "eTriggerEnabledCmd", "eForceTriggerCmd"}
        \subseteq Operations
  BY DEF Operations
<1> QED BY <1>1, <1>2, ConcatSeq DEF RestartCapture

\* Every function names one of the declared operations for each transfer.
LEMMA TransfersType ==
    ASSUME NEW fn \in Functions
    PROVE  /\ Transfers[fn] \in Seq(Operations)
           /\ \A n \in 1 .. Len(Transfers[fn]) :
                Transfers[fn][n] \in Operations
<1>1. Harmless \subseteq Operations
  BY DEF Harmless
<1>2. Transfers[fn] \in Seq(Harmless) \/ Transfers[fn] \in Seq(Operations)
  BY HarmlessTransfers, RestartType DEF Transfers, Functions
<1>3. \A s \in Seq(Harmless) : s \in Seq(Operations)
  BY <1>1
<1>4. Transfers[fn] \in Seq(Operations)
  BY <1>2, <1>3
<1> QED BY <1>4

LEMMA OnlyRestartsStart ==
    ASSUME NEW fn \in {"configure", "poll", "read"},
           NEW n \in 1 .. Len(Transfers[fn])
    PROVE  Transfers[fn][n] # "eCaptureStartCmd"
<1>1. Transfers[fn] \in Seq(Harmless)
  BY HarmlessTransfers DEF Transfers
<1>2. Transfers[fn][n] \in Harmless
  BY <1>1
<1> QED BY <1>2 DEF Harmless

-----------------------------------------------------------------------------
\* One transfer and its attempts.

\* A set of natural numbers that is not empty has a least one.
LEMMA LeastNumber ==
    ASSUME NEW T, T \subseteq Nat, T # {}
    PROVE  \E x \in T : \A y \in T : x <= y
<1>1. PICK x \in T : \A y \in T : <<y, x>> \notin OpToRel(<, Nat)
  BY NatLessThanWellFounded, WFMin
<1>2. OpToRel(<, Nat) = {ss \in Nat \X Nat : ss[1] < ss[2]}
  BY DEF OpToRel
<1>3. \A y \in T : ~(y < x)
  BY <1>1, <1>2
<1>4. \A y \in T : x <= y
  BY <1>3
<1> QED BY <1>4

\* There is always a last attempt: the first that does not time out, or the
\* last one allowed.
LEMMA LastAttemptMade ==
    ASSUME NEW attempts \in Nat \ {0}, NEW calls
    PROVE  /\ LastAttempt(attempts, calls) \in 1 .. attempts
           /\ \A i \in 1 .. LastAttempt(attempts, calls) - 1 :
                TimesOut(calls[i])
           /\ LastAttempt(attempts, calls) < attempts =>
                ~TimesOut(calls[LastAttempt(attempts, calls)])
<1> DEFINE IsLast(n) == /\ \A i \in 1 .. n - 1 : TimesOut(calls[i])
                        /\ n < attempts => ~TimesOut(calls[n])
<1>1. \E n \in 1 .. attempts : IsLast(n)
  <2> DEFINE T == {i \in 1 .. attempts : ~TimesOut(calls[i])}
  <2>1. CASE T = {}
    <3>1. IsLast(attempts) /\ attempts \in 1 .. attempts
      BY <2>1
    <3> QED BY <3>1
  <2>2. CASE T # {}
    <3>1. T \subseteq Nat
      OBVIOUS
    <3>2. PICK n \in T : \A i \in T : n <= i
      <4> HIDE DEF T
      <4> QED BY <2>2, <3>1, LeastNumber
    <3>3. IsLast(n) /\ n \in 1 .. attempts
      BY <3>2
    <3> QED BY <3>3
  <2> QED BY <2>1, <2>2
<1>2. LastAttempt(attempts, calls) = CHOOSE n \in 1 .. attempts : IsLast(n)
  BY DEF LastAttempt
<1>3. /\ LastAttempt(attempts, calls) \in 1 .. attempts
      /\ IsLast(LastAttempt(attempts, calls))
  BY <1>1, <1>2
<1> QED BY <1>3

\* What a transfer reports, for every number of attempts and everything the
\* attempts may return.  It is a timeout exactly when every attempt timed out;
\* anything else is what the one attempt after the timeouts returned: the
\* device was lost when that attempt found none, and a success moved as many
\* bytes as were asked for (usb_device.cpp, bulkWrite to controlRead).
THEOREM TransferIsClassified ==
    ASSUME NEW attempts \in Nat \ {0}, NEW length \in Nat,
           NEW minimumLength \in Nat, NEW calls \in Calls(attempts, length)
    PROVE  LET reported == PerformTransfer(attempts, calls, minimumLength)
               After(call) == \E n \in 1 .. attempts :
                                 /\ \A i \in 1 .. n - 1 : TimesOut(calls[i])
                                 /\ calls[n] = call
           IN  /\ reported = "eTimeout" <=>
                     \A i \in 1 .. attempts : TimesOut(calls[i])
               /\ reported = "eNoDevice" <=>
                     \E call : /\ After(call)
                               /\ call.code = "LIBUSB_ERROR_NO_DEVICE"
               /\ reported = "eSuccess" <=>
                     \E call : /\ After(call)
                               /\ call.code = "LIBUSB_SUCCESS"
                               /\ call.transferredBytes >= minimumLength
<1> DEFINE reported == PerformTransfer(attempts, calls, minimumLength)
           After(call) == \E n \in 1 .. attempts :
                             /\ \A i \in 1 .. n - 1 : TimesOut(calls[i])
                             /\ calls[n] = call
           last == LastAttempt(attempts, calls)
<1>1. /\ last \in 1 .. attempts
      /\ \A i \in 1 .. last - 1 : TimesOut(calls[i])
      /\ last < attempts => ~TimesOut(calls[last])
  BY LastAttemptMade
<1> HIDE DEF last
<1>2. \A i \in 1 .. attempts :
        calls[i].code \in Codes /\ calls[i].transferredBytes \in Nat
  BY DEF Calls
<1>3. reported = MakeTransferResult(ClassifyTransferResult(calls[last].code),
                                  calls[last].transferredBytes, minimumLength)
  BY DEF PerformTransfer, last
<1>4. /\ reported = "eTimeout" <=> TimesOut(calls[last])
      /\ reported = "eNoDevice" <=>
           calls[last].code = "LIBUSB_ERROR_NO_DEVICE"
      /\ reported = "eSuccess" <=>
           /\ calls[last].code = "LIBUSB_SUCCESS"
           /\ calls[last].transferredBytes >= minimumLength
  <2> HIDE DEF reported
  <2>1. calls[last].code \in Codes /\ calls[last].transferredBytes \in Nat
    BY <1>1, <1>2
  <2> QED BY <1>3, <2>1 DEF MakeTransferResult, ClassifyTransferResult, Codes,
                            TimesOut
<1> HIDE DEF reported
<1>5. After(calls[last])
  BY <1>1
<1>6. ASSUME NEW call, After(call), ~TimesOut(call)
      PROVE  call = calls[last]
  <2>1. PICK n \in 1 .. attempts : /\ \A i \in 1 .. n - 1 : TimesOut(calls[i])
                                   /\ calls[n] = call
    BY <1>6
  <2>2. ~(last < n)
    <3>1. last < n => last \in 1 .. n - 1 /\ last < attempts
      BY <1>1, <2>1
    <3> QED BY <1>1, <2>1, <3>1
  <2>3. ~(n < last)
    <3>1. n < last => n \in 1 .. last - 1
      BY <1>1, <2>1
    <3> QED BY <1>1, <1>6, <2>1, <3>1
  <2>4. n = last
    BY <1>1, <2>1, <2>2, <2>3
  <2> QED BY <2>1, <2>4
<1>7. reported = "eTimeout" <=> \A i \in 1 .. attempts : TimesOut(calls[i])
  <2>1. TimesOut(calls[last]) => last = attempts
    BY <1>1
  <2>2. TimesOut(calls[last]) => \A i \in 1 .. attempts : TimesOut(calls[i])
    <3> SUFFICES ASSUME TimesOut(calls[last]), NEW i \in 1 .. attempts
                 PROVE  TimesOut(calls[i])
      OBVIOUS
    <3>1. i = last \/ i \in 1 .. last - 1
      BY <1>1, <2>1
    <3> QED BY <1>1, <3>1
  <2> QED BY <1>1, <1>4, <2>2
<1>8. \A call : /\ call.code = "LIBUSB_ERROR_NO_DEVICE" => ~TimesOut(call)
                /\ call.code = "LIBUSB_SUCCESS" => ~TimesOut(call)
  BY DEF TimesOut
<1>9. reported = "eNoDevice" <=>
        \E call : After(call) /\ call.code = "LIBUSB_ERROR_NO_DEVICE"
  BY <1>4, <1>5, <1>6, <1>8
<1>10. reported = "eSuccess" <=>
         \E call : /\ After(call)
                   /\ call.code = "LIBUSB_SUCCESS"
                   /\ call.transferredBytes >= minimumLength
  BY <1>4, <1>5, <1>6, <1>8
<1> QED BY <1>7, <1>9, <1>10 DEF reported

-----------------------------------------------------------------------------
\* Insertion into a bounded buffer.

LEMMA InsertType ==
    ASSUME NEW S, NEW s \in Seq(S), NEW x \in S, NEW c \in Nat \ {0},
           Len(s) <= c
    PROVE  /\ Insert(s, x, c) \in Seq(S)
           /\ Len(Insert(s, x, c)) <= c
           /\ \A i \in 1 .. Len(Insert(s, x, c)) :
                \/ Insert(s, x, c)[i] = x
                \/ \E j \in 1 .. Len(s) : Insert(s, x, c)[i] = s[j]
<1>1. CASE Len(s) < c
  BY <1>1 DEF Insert
<1>2. CASE Len(s) = c
  <2>1. s # << >>
    BY <1>2
  <2>2. /\ Tail(s) \in Seq(S) /\ Len(Tail(s)) = Len(s) - 1
        /\ \A i \in 1 .. Len(s) - 1 : Tail(s)[i] = s[i + 1]
    BY <2>1
  <2>3. Insert(s, x, c) = Append(Tail(s), x)
    BY <1>2 DEF Insert
  <2> QED BY <1>2, <2>1, <2>2, <2>3
<1> QED BY <1>1, <1>2

LEMMA PushType ==
    ASSUME NEW q \in Queue, Len(q.packets) <= QueueCapacity, NEW f \in Frame
    PROVE  /\ Push(q, f) \in Queue
           /\ Len(Push(q, f).packets) <= QueueCapacity
           /\ \A i \in 1 .. Len(Push(q, f).packets) :
                \/ Push(q, f).packets[i] = f
                \/ \E j \in 1 .. Len(q.packets) :
                     Push(q, f).packets[i] = q.packets[j]
<1>1. CASE q.closed
  BY <1>1 DEF Push
<1>2. CASE ~q.closed
  <2> DEFINE s == Insert(q.packets, f, QueueCapacity)
             d == Push(q, f).dropped
  <2>1. /\ s \in Seq(Frame) /\ Len(s) <= QueueCapacity
        /\ \A i \in 1 .. Len(s) :
             s[i] = f \/ \E j \in 1 .. Len(q.packets) : s[i] = q.packets[j]
    <3>1. q.packets \in Seq(Frame)
      BY DEF Queue
    <3>2. QueueCapacity \in Nat \ {0}
      OBVIOUS
    <3> QED BY ONLY <3>1, <3>2, InsertType, f \in Frame,
                    Len(q.packets) <= QueueCapacity
  <2>2. d \in Nat
    BY <1>2 DEF Push, Queue
  <2>3. Push(q, f) = [packets |-> s, dropped |-> d, closed |-> FALSE]
    BY <1>2 DEF Push
  <2> HIDE DEF s, d
  <2>4. Push(q, f) \in Queue /\ Push(q, f).packets = s
    BY <2>1, <2>2, <2>3 DEF Queue
  <2> QED BY <2>1, <2>4
<1> QED BY <1>1, <1>2

LEMMA PopType ==
    ASSUME NEW q \in Queue, Len(q.packets) <= QueueCapacity,
           q.packets # << >>
    PROVE  /\ Pop(q) \in Queue
           /\ Len(Pop(q).packets) <= QueueCapacity
           /\ Head(q.packets) = q.packets[1] /\ Head(q.packets) \in Frame
           /\ \A i \in 1 .. Len(Pop(q).packets) :
                \E j \in 1 .. Len(q.packets) : Pop(q).packets[i] = q.packets[j]
<1> DEFINE t == Tail(q.packets)
<1>1. q.packets \in Seq(Frame)
  BY DEF Queue
<1>2. /\ t \in Seq(Frame) /\ Len(t) = Len(q.packets) - 1
      /\ \A i \in 1 .. Len(t) : t[i] = q.packets[i + 1]
      /\ Head(q.packets) = q.packets[1] /\ Head(q.packets) \in Frame
  BY <1>1
<1>3. Pop(q) = [packets |-> t, dropped |-> q.dropped, closed |-> q.closed]
  BY DEF Pop
<1>4. q.dropped \in Nat /\ q.closed \in BOOLEAN
  BY DEF Queue
<1> HIDE DEF t
<1>5. Pop(q) \in Queue /\ Pop(q).packets = t
  BY <1>2, <1>3, <1>4 DEF Queue
<1>6. \A i \in 1 .. Len(t) : i + 1 \in 1 .. Len(q.packets)
  BY <1>1, <1>2
<1> QED BY <1>1, <1>2, <1>5, <1>6

-----------------------------------------------------------------------------
\* The inductive invariant.

\* Which threads can exist at each point of the user interface's calls, and
\* that a run is counted before its threads exist.
ThreadsOK ==
    /\ NoThreadOutsideRun
    /\ uiPc = "create" => /\ workerPc = "none"
                          /\ processingPc # "none"
                          /\ ~acquisitionRunning
                          /\ status.state = "eRunning"
    /\ uiPc \in {"stopJoinProcessing", "stopFinish", "faultClose",
                 "faultJoinProcessing"} => workerPc = "none"
    /\ uiPc = "stopFinish" => processingPc = "none"
    /\ workerPc # "none" \/ uiPc = "create" => run # 0
    /\ processingPc = "parse" => packet \in Frame

\* What of a failure has been stored at each of the worker's stores.
ReportOK ==
    /\ workerPc = "storeOperation" => /\ failedOperation \in Operations
                                      /\ transferResult \in TransferFailure
    /\ workerPc = "storeTransfer" => /\ status.failedOperation \in Operations
                                     /\ transferResult \in TransferFailure
    /\ workerPc = "storeFault" => /\ status.failedOperation \in Operations
                                  /\ transferResult \in TransferFailure
                                  /\ status.lastTransferStatus = transferResult
    /\ status.state \in Terminal => workerPc \in {"none", "close", "done"}
    /\ workerPc \notin {"storeFault", "close"}
         => consecutiveFailures < MaxConsecutiveFailures
    /\ FaultReported

Whole(f) == \A n \in 1 .. DataPackets : f.data[n] = f.capture

WholeAll(s) == \A i \in 1 .. Len(s) : Whole(s[i])

\* The instrument's capture does not change between a poll that reports it
\* complete and the end of its reading, and what is read is whole.
CapturesOK ==
    /\ workerPc \in {"polled", "read", "push"}
         => captureState.capture = deviceCapture
    /\ workerPc = "push"
         => \A n \in 1 .. DataPackets : captureData[n] = deviceCapture
    /\ WholeAll(rawPacketQueue.packets)
    /\ WholeAll(waveformRingBuffer)
    /\ processingPc = "parse" => Whole(packet)
    /\ Whole(latestWaveform)

LEMMA InitTypeOK == Init => TypeOK
<1> SUFFICES ASSUME Init PROVE TypeOK
  OBVIOUS
<1>1. status \in Status
  BY DEF Init, Status, AcquisitionState, TransferStatus
<1>2. rawPacketQueue \in Queue /\ rawPacketQueue.packets = << >>
  BY DEF Init, EmptyQueue, Queue
<1>3. SharedOK
  <2>1. stopRequested \in BOOLEAN /\ waveformRingBuffer = << >>
    BY DEF Init
  <2>2. << >> \in Seq(Frame) /\ Len(<< >>) = 0
    OBVIOUS
  <2> QED BY <1>1, <1>2, <2>1, <2>2 DEF SharedOK
<1>4. LocalsOK
  <2>1. captureState \in [report : CaptureReport, capture : Nat]
    BY DEF Init, CaptureReport
  <2>2. captureData \in [1 .. DataPackets -> Nat]
    BY DEF Init
  <2>3. captureConfigured \in BOOLEAN /\ captureStartRequired \in BOOLEAN
    BY DEF Init
  <2>4. /\ transferResult = "eSuccess" /\ failedOperation = "eNone"
        /\ consecutiveFailures = 0 /\ emptyCaptureCount = 0
    BY DEF Init
  <2> QED BY <2>1, <2>2, <2>3, <2>4 DEF LocalsOK, TransferStatus
<1>5. ProcessingOK /\ workerPc \in WorkerPlace
  BY DEF Init, ProcessingOK, WorkerPlace
<1>6. UiOK
  <2>1. acquisitionRunning \in BOOLEAN
    BY DEF Init
  <2>2. uiPc = "idle" /\ latestWaveform = NoFrame /\ run = 0
    BY DEF Init
  <2> QED BY <2>1, <2>2 DEF UiOK
<1>7. DeviceOK
  <2>1. deviceCapture = 0 /\ faults = 0
    BY DEF Init
  <2> QED BY <2>1 DEF DeviceOK
<1> QED BY <1>3, <1>4, <1>5, <1>6, <1>7 DEF TypeOK

LEMMA OtherInit == Init => ThreadsOK /\ ReportOK /\ ConsumerAwake /\ CapturesOK
<1> SUFFICES ASSUME Init
             PROVE  ThreadsOK /\ ReportOK /\ ConsumerAwake /\ CapturesOK
  OBVIOUS
<1>1. ThreadsOK /\ ReportOK /\ ConsumerAwake
  BY DEF Init, ThreadsOK, NoThreadOutsideRun, ReportOK, FaultReported,
         Terminal, ConsumerAwake
<1>2. Whole(latestWaveform)
  BY DEF Init, Whole, NoFrame
<1>3. rawPacketQueue.packets = << >>
  BY DEF Init, EmptyQueue
<1> QED BY <1>1, <1>2, <1>3 DEF Init, CapturesOK, WholeAll

-----------------------------------------------------------------------------
\* Type correctness.

LEMMA StatusUpdate ==
    ASSUME NEW s \in Status
    PROVE  /\ \A x \in Nat : [s EXCEPT !.droppedPacketCount = x] \in Status
           /\ \A x \in CaptureReport :
                [s EXCEPT !.lastCaptureState = x] \in Status
           /\ \A x \in AcquisitionState : [s EXCEPT !.state = x] \in Status
           /\ \A x \in {"eNone"} \cup Operations :
                [s EXCEPT !.failedOperation = x] \in Status
           /\ \A x \in TransferStatus :
                [s EXCEPT !.lastTransferStatus = x] \in Status
BY DEF Status

LEMMA ReachedType ==
    ASSUME DeviceOK, LocalsOK, NEW fn, NEW n, Reached(fn, n)
    PROVE  /\ deviceCapture' \in 0 .. MaxCaptures
           /\ captureData' \in [1 .. DataPackets -> Nat]
BY DEF DeviceOK, LocalsOK, Reached

LEMMA SucceedsType ==
    ASSUME TypeOK, NEW fn, Succeeds(fn)
    PROVE  /\ DeviceOK'
           /\ captureData' \in [1 .. DataPackets -> Nat]
           /\ transferResult' \in TransferStatus
           /\ failedOperation' \in {"eNone"} \cup Operations
           /\ SharedOK' /\ ProcessingOK' /\ UiOK'
           /\ UNCHANGED <<consecutiveFailures, emptyCaptureCount>>
<1>1. /\ deviceCapture' \in 0 .. MaxCaptures
      /\ captureData' \in [1 .. DataPackets -> Nat]
  BY ReachedType DEF Succeeds, TypeOK
<1>2. UNCHANGED <<shared, consecutiveFailures, emptyCaptureCount, processing,
                 ui, faults>>
  BY DEF Succeeds
<1>3. SharedOK' /\ ProcessingOK' /\ UiOK'
  BY <1>2 DEF TypeOK, shared, processing, ui, SharedOK, ProcessingOK, UiOK
<1>4. DeviceOK'
  BY <1>1, <1>2 DEF TypeOK, DeviceOK
<1>5. /\ transferResult' \in TransferStatus
      /\ failedOperation' \in {"eNone"} \cup Operations
  BY DEF Succeeds, TransferStatus, Operations
<1> QED BY <1>1, <1>2, <1>3, <1>4, <1>5

\* The parts of TypeOK a step leaves alone.
LEMMA Unchanged ==
    ASSUME TypeOK
    PROVE  /\ UNCHANGED shared => SharedOK'
           /\ UNCHANGED locals => LocalsOK'
           /\ UNCHANGED processing => ProcessingOK'
           /\ UNCHANGED ui => UiOK'
           /\ UNCHANGED device => DeviceOK'
BY DEF TypeOK, SharedOK, LocalsOK, ProcessingOK, UiOK, DeviceOK, shared,
       locals, processing, ui, device

\* notify_one and notify_all keep the processing thread's place a place.
LEMMA NotifyType ==
    ASSUME TypeOK, Notify \/ UNCHANGED processingPc, UNCHANGED packet
    PROVE  ProcessingOK'
BY DEF TypeOK, ProcessingOK, Notify

LEMMA WorkerType ==
    ASSUME TypeOK, ThreadsOK, ReportOK, Worker
    PROVE  TypeOK'
<1>1. CASE LoopTest
  <2>1. SharedOK' /\ ProcessingOK' /\ UiOK' /\ DeviceOK'
    BY <1>1, Unchanged DEF LoopTest
  <2>2. workerPc' \in WorkerPlace
    BY <1>1 DEF LoopTest, WorkerGoto, Call, WorkerPlace, Functions
  <2>3. LocalsOK'
    BY <1>1 DEF LoopTest, Call, TypeOK, LocalsOK, Operations
  <2> QED BY <2>1, <2>2, <2>3 DEF TypeOK
<1>2. CASE FunctionFails
  <2>1. /\ deviceCapture' \in 0 .. MaxCaptures
        /\ captureData' \in [1 .. DataPackets -> Nat]
    BY <1>2, ReachedType DEF FunctionFails, TypeOK
  <2>2. SharedOK' /\ ProcessingOK' /\ UiOK'
    BY <1>2, Unchanged DEF FunctionFails
  <2>3. failedOperation' \in Operations
    BY <1>2, TransfersType DEF FunctionFails
  <2>4. workerPc' \in WorkerPlace
    BY <1>2 DEF FunctionFails, WorkerGoto, WorkerPlace
  <2>5. LocalsOK'
    BY <1>2, <2>1, <2>3
       DEF FunctionFails, TypeOK, LocalsOK, TransferStatus
  <2>6. DeviceOK'
    BY <1>2, <2>1 DEF FunctionFails, TypeOK, DeviceOK
  <2> QED BY <2>2, <2>4, <2>5, <2>6 DEF TypeOK
<1>3. CASE Configured \/ Started \/ Restarted \/ ReadDone
  <2>1. PICK fn : Succeeds(fn)
    BY <1>3 DEF Configured, Started, Restarted, ReadDone
  <2>2. workerPc' \in WorkerPlace
    BY <1>3 DEF Configured, Started, Restarted, ReadDone, WorkerGoto,
                WorkerPlace
  <2>3. /\ captureConfigured' \in BOOLEAN
        /\ captureStartRequired' \in BOOLEAN
        /\ captureState' = captureState
    BY <1>3 DEF Configured, Started, Restarted, ReadDone, TypeOK, LocalsOK
  <2>4. LocalsOK'
    BY <2>1, <2>3, SucceedsType DEF TypeOK, LocalsOK
  <2> QED BY <2>1, <2>2, <2>4, SucceedsType DEF TypeOK
<1>4. CASE Polled
  <2>1. Succeeds("poll")
    BY <1>4 DEF Polled
  <2>2. captureState' \in [report : CaptureReport, capture : Nat]
    <3>1. deviceCapture \in Nat
      BY DEF TypeOK, DeviceOK
    <3> QED BY <1>4, <3>1 DEF Polled, Reportable
  <2>3. LocalsOK'
    BY <1>4, <2>1, <2>2, SucceedsType DEF Polled, TypeOK, LocalsOK
  <2>4. workerPc' \in WorkerPlace
    BY <1>4 DEF Polled, WorkerGoto, WorkerPlace
  <2> QED BY <2>1, <2>3, <2>4, SucceedsType DEF TypeOK
<1>5. CASE ActOnReport
  <2>1. status' \in Status
    BY <1>5, StatusUpdate DEF ActOnReport, TypeOK, SharedOK, LocalsOK
  <2>2. SharedOK'
    BY <1>5, <2>1 DEF ActOnReport, TypeOK, SharedOK
  <2>3. workerPc' \in WorkerPlace
    BY <1>5 DEF ActOnReport, WorkerGoto, Call, WorkerPlace, Functions
  <2>4. emptyCaptureCount' \in 0 .. ForceRestartThreshold - 1
    BY <1>5 DEF ActOnReport, TypeOK, LocalsOK
  <2>5. failedOperation' \in {"eNone"} \cup Operations
    BY <1>5 DEF ActOnReport, Call, TypeOK, LocalsOK, Operations
  <2>6. LocalsOK'
    BY <1>5, <2>4, <2>5 DEF ActOnReport, TypeOK, LocalsOK
  <2>7. ProcessingOK' /\ UiOK' /\ DeviceOK'
    BY <1>5, Unchanged DEF ActOnReport
  <2> QED BY <2>2, <2>3, <2>6, <2>7 DEF TypeOK
<1>6. CASE QueueCapture
  <2>1. Captured \in Frame
    BY <1>6 DEF QueueCapture, Captured, Frame, ThreadsOK, TypeOK, LocalsOK,
                UiOK
  <2>2. rawPacketQueue' \in Queue /\ Len(rawPacketQueue'.packets) <= QueueCapacity
    BY <1>6, <2>1, PushType DEF QueueCapture, TypeOK, SharedOK
  <2>3. SharedOK'
    BY <1>6, <2>2 DEF QueueCapture, TypeOK, SharedOK
  <2>4. ProcessingOK'
    BY <1>6, NotifyType DEF QueueCapture
  <2>5. LocalsOK'
    BY <1>6 DEF QueueCapture, Call, TypeOK, LocalsOK, Operations
  <2>6. workerPc' \in WorkerPlace
    BY <1>6 DEF QueueCapture, Call, WorkerGoto, WorkerPlace, Functions
  <2>7. UiOK' /\ DeviceOK'
    BY <1>6, Unchanged DEF QueueCapture
  <2> QED BY <2>3, <2>4, <2>5, <2>6, <2>7 DEF TypeOK
<1>7. CASE \/ StoreDropped \/ StoreRunning \/ StoreNone \/ StoreSuccess
           \/ StoreOperation \/ StoreTransfer \/ StoreFault
  <2>1. status' \in Status
    <3>1. rawPacketQueue.dropped \in Nat /\ status \in Status
      BY DEF TypeOK, SharedOK, Queue
    <3>2. /\ transferResult \in TransferStatus
          /\ failedOperation \in {"eNone"} \cup Operations
      BY DEF TypeOK, LocalsOK
    <3> QED BY <1>7, <3>1, <3>2, StatusUpdate
            DEF StoreDropped, StoreRunning, StoreNone, StoreSuccess,
                StoreOperation, StoreTransfer, StoreFault, Store,
                AcquisitionState, Terminal, TransferStatus
  <2>2. workerPc' \in WorkerPlace
    BY <1>7 DEF StoreDropped, StoreRunning, StoreNone, StoreSuccess,
                StoreOperation, StoreTransfer, StoreFault, Store, WorkerGoto,
                WorkerPlace
  <2>3. consecutiveFailures' \in 0 .. MaxConsecutiveFailures
    <3>1. consecutiveFailures \in 0 .. MaxConsecutiveFailures
      BY DEF TypeOK, LocalsOK
    <3>2. workerPc = "storeTransfer"
            => consecutiveFailures < MaxConsecutiveFailures
      BY DEF ReportOK
    <3> QED BY <1>7, <3>1, <3>2 DEF Store, StoreDropped, StoreRunning, StoreNone, StoreSuccess,
                StoreOperation, StoreTransfer, StoreFault, TypeOK, LocalsOK
  <2>4. UNCHANGED <<stopRequested, rawPacketQueue, waveformRingBuffer,
                   transferResult, failedOperation, captureConfigured,
                   captureStartRequired, emptyCaptureCount, captureState,
                   captureData, processing, ui, device>>
    BY <1>7 DEF StoreDropped, StoreRunning, StoreNone, StoreSuccess,
                StoreOperation, StoreTransfer, StoreFault, Store
  <2>5. SharedOK'
    BY <2>1, <2>4 DEF TypeOK, SharedOK
  <2>6. LocalsOK'
    BY <2>3, <2>4 DEF TypeOK, LocalsOK
  <2>7. ProcessingOK' /\ UiOK' /\ DeviceOK'
    BY <2>4, Unchanged
  <2> QED BY <2>2, <2>5, <2>6, <2>7 DEF TypeOK
<1>8. CASE SleepEnds
  BY <1>8, Unchanged DEF SleepEnds, WorkerGoto, TypeOK, WorkerPlace
<1>9. CASE CloseAtExit
  <2>1. SharedOK'
    BY <1>9 DEF CloseAtExit, Close, TypeOK, SharedOK, Queue
  <2>2. ProcessingOK'
    BY <1>9, NotifyType DEF CloseAtExit
  <2>3. LocalsOK'
    <3>1. /\ captureState' \in [report : CaptureReport, capture : Nat]
          /\ captureData' \in [1 .. DataPackets -> Nat]
      BY <1>9 DEF CloseAtExit, FreshLocals, CaptureReport
    <3>2. captureConfigured' \in BOOLEAN /\ captureStartRequired' \in BOOLEAN
      BY <1>9 DEF CloseAtExit, FreshLocals
    <3>3. /\ transferResult' = "eSuccess" /\ failedOperation' = "eNone"
          /\ consecutiveFailures' = 0 /\ emptyCaptureCount' = 0
      BY <1>9 DEF CloseAtExit, FreshLocals
    <3> QED BY <3>1, <3>2, <3>3 DEF LocalsOK, TransferStatus
  <2>4. UiOK' /\ DeviceOK'
    BY <1>9, Unchanged DEF CloseAtExit
  <2>5. workerPc' \in WorkerPlace
    BY <1>9 DEF CloseAtExit, WorkerGoto, WorkerPlace
  <2> QED BY <2>1, <2>2, <2>3, <2>4, <2>5 DEF TypeOK
<1> QED BY <1>1, <1>2, <1>3, <1>4, <1>5, <1>6, <1>7, <1>8, <1>9 DEF Worker

LEMMA ProcessingType ==
    ASSUME TypeOK, ThreadsOK, WaitPop \/ SpuriousWakeUp \/ ParseAndStore
    PROVE  TypeOK'
<1>1. CASE WaitPop
  <2>1. CASE processingPc' = "parse"
    <3>1. /\ rawPacketQueue.packets # << >>
          /\ packet' = Head(rawPacketQueue.packets)
          /\ rawPacketQueue' = Pop(rawPacketQueue)
      BY <1>1, <2>1 DEF WaitPop
    <3>2. /\ rawPacketQueue \in Queue
          /\ Len(rawPacketQueue.packets) <= QueueCapacity
      BY DEF TypeOK, SharedOK
    <3>3. /\ Head(rawPacketQueue.packets) \in Frame
          /\ rawPacketQueue' \in Queue
          /\ Len(rawPacketQueue'.packets) <= QueueCapacity
      BY <3>1, <3>2, PopType
    <3>4. SharedOK'
      BY <1>1, <3>1, <3>3 DEF WaitPop, TypeOK, SharedOK
    <3>5. ProcessingOK'
      BY <2>1, <3>1, <3>3 DEF ProcessingOK
    <3> QED BY <1>1, <3>4, <3>5, Unchanged DEF WaitPop, TypeOK, worker
  <2>2. CASE processingPc' # "parse"
    BY <1>1, <2>2, Unchanged
       DEF WaitPop, TypeOK, ProcessingOK, shared, worker
  <2> QED BY <2>1, <2>2
<1>2. CASE SpuriousWakeUp
  BY <1>2, Unchanged DEF SpuriousWakeUp, TypeOK, ProcessingOK, worker
<1>3. CASE ParseAndStore
  <2>1. packet \in Frame
    BY <1>3 DEF ParseAndStore, ThreadsOK
  <2>2. /\ waveformRingBuffer' \in Seq(Frame)
        /\ Len(waveformRingBuffer') <= RingCapacity
    BY <1>3, <2>1, InsertType DEF ParseAndStore, TypeOK, SharedOK
  <2>3. SharedOK'
    BY <1>3, <2>2 DEF ParseAndStore, TypeOK, SharedOK
  <2>4. ProcessingOK'
    BY <1>3 DEF ParseAndStore, ProcessingOK
  <2> QED BY <1>3, <2>3, <2>4, Unchanged DEF ParseAndStore, TypeOK, worker
<1> QED BY <1>1, <1>2, <1>3

LEMMA UserInterfaceType ==
    ASSUME TypeOK, UserInterface
    PROVE  TypeOK'
<1>1. CASE Start
  <2>1. status' \in Status
    BY <1>1 DEF Start, Status, AcquisitionState, TransferStatus
  <2>2. rawPacketQueue' \in Queue /\ rawPacketQueue'.packets = << >>
    BY <1>1 DEF Start, EmptyQueue, Queue
  <2>3. SharedOK'
    <3>1. stopRequested' \in BOOLEAN /\ waveformRingBuffer' = << >>
      BY <1>1 DEF Start
    <3>2. << >> \in Seq(Frame) /\ Len(<< >>) = 0
      OBVIOUS
    <3> QED BY <2>1, <2>2, <3>1, <3>2 DEF SharedOK
  <2>4. ProcessingOK'
    BY <1>1 DEF Start, ProcessingOK
  <2>5. UiOK'
    BY <1>1 DEF Start, UiGoto, TypeOK, UiOK
  <2> QED BY <1>1, <2>3, <2>4, <2>5, Unchanged DEF Start, TypeOK, worker
<1>2. CASE CreateWorker
  <2>1. UiOK' /\ workerPc' \in WorkerPlace
    BY <1>2 DEF CreateWorker, UiGoto, WorkerGoto, TypeOK, UiOK, WorkerPlace
  <2> QED BY <1>2, <2>1, Unchanged DEF CreateWorker, TypeOK
<1>3. CASE GetLatestWaveform
  <2>1. waveformRingBuffer[Len(waveformRingBuffer)] \in Frame
    BY <1>3 DEF GetLatestWaveform, TypeOK, SharedOK
  <2>2. SharedOK'
    BY <1>3 DEF GetLatestWaveform, TypeOK, SharedOK
  <2>3. UiOK'
    BY <1>3, <2>1 DEF GetLatestWaveform, TypeOK, UiOK
  <2> QED BY <1>3, <2>2, <2>3, Unchanged
          DEF GetLatestWaveform, TypeOK, worker
<1>4. CASE StopRequest \/ FaultFound
  <2>1. SharedOK' /\ UiOK'
    BY <1>4 DEF StopRequest, FaultFound, UiGoto, TypeOK, SharedOK, UiOK, shared
  <2> QED BY <1>4, <2>1, Unchanged
          DEF StopRequest, FaultFound, TypeOK, worker
<1>5. CASE CloseQueue
  <2>1. SharedOK'
    BY <1>5 DEF CloseQueue, Close, TypeOK, SharedOK, Queue
  <2>2. ProcessingOK'
    BY <1>5, NotifyType DEF CloseQueue
  <2>3. UiOK'
    BY <1>5 DEF CloseQueue, UiGoto, TypeOK, UiOK
  <2> QED BY <1>5, <2>1, <2>2, <2>3, Unchanged DEF CloseQueue, TypeOK, worker
<1>6. CASE JoinWorker
  <2>1. UiOK' /\ workerPc' \in WorkerPlace
    BY <1>6 DEF JoinWorker, UiGoto, WorkerGoto, TypeOK, UiOK, WorkerPlace
  <2> QED BY <1>6, <2>1, Unchanged DEF JoinWorker, TypeOK
<1>7. CASE JoinProcessing
  <2>1. UiOK' /\ ProcessingOK'
    BY <1>7 DEF JoinProcessing, UiGoto, TypeOK, UiOK, ProcessingOK
  <2> QED BY <1>7, <2>1, Unchanged DEF JoinProcessing, TypeOK, worker
<1>8. CASE StopFinish
  <2>1. status' \in Status
    BY <1>8, StatusUpdate DEF StopFinish, TypeOK, SharedOK, AcquisitionState
  <2>2. SharedOK'
    BY <1>8, <2>1 DEF StopFinish, TypeOK, SharedOK
  <2>3. UiOK'
    BY <1>8 DEF StopFinish, UiGoto, TypeOK, UiOK
  <2> QED BY <1>8, <2>2, <2>3, Unchanged DEF StopFinish, TypeOK, worker
<1> QED BY <1>1, <1>2, <1>3, <1>4, <1>5, <1>6, <1>7, <1>8 DEF UserInterface

LEMMA StepType == TypeOK /\ ThreadsOK /\ ReportOK /\ [Next]_vars => TypeOK'
<1> SUFFICES ASSUME TypeOK, ThreadsOK, ReportOK, [Next]_vars
             PROVE  TypeOK'
  OBVIOUS
<1>1. CASE UNCHANGED vars
  BY <1>1, Unchanged DEF vars, worker, TypeOK
<1> QED BY <1>1, WorkerType, ProcessingType, UserInterfaceType DEF Next

-----------------------------------------------------------------------------
\* The threads and the calls of the user interface.

\* A step of the worker leaves the user interface alone and neither creates
\* nor removes the worker.
LEMMA WorkerAlone ==
    ASSUME Worker
    PROVE  /\ workerPc # "none" /\ workerPc' # "none"
           /\ UNCHANGED <<ui, stopRequested, waveformRingBuffer, packet>>
           /\ processingPc' = processingPc
                \/ (processingPc = "waiting" /\ processingPc' = "notified")
<1> USE DEF processing, shared, locals, ui
<1>1. CASE LoopTest
  BY <1>1 DEF LoopTest, WorkerGoto, Call
<1>2. CASE FunctionFails
  BY <1>2 DEF FunctionFails, WorkerGoto, Functions
<1>3. CASE Configured \/ Started \/ Restarted \/ ReadDone \/ Polled
  BY <1>3 DEF Configured, Started, Restarted, ReadDone, Polled, Succeeds,
              WorkerGoto
<1>4. CASE ActOnReport \/ QueueCapture
  BY <1>4 DEF ActOnReport, QueueCapture, WorkerGoto, Call, Notify
<1>5. CASE \/ StoreDropped \/ StoreRunning \/ StoreNone \/ StoreSuccess
           \/ StoreOperation \/ StoreTransfer \/ StoreFault
  BY <1>5 DEF StoreDropped, StoreRunning, StoreNone, StoreSuccess,
              StoreOperation, StoreTransfer, StoreFault, Store, WorkerGoto
<1>6. CASE SleepEnds \/ CloseAtExit
  BY <1>6 DEF SleepEnds, CloseAtExit, WorkerGoto, Notify
<1> QED BY <1>1, <1>2, <1>3, <1>4, <1>5, <1>6 DEF Worker

LEMMA StepThreads == TypeOK /\ ThreadsOK /\ [Next]_vars => ThreadsOK'
<1> SUFFICES ASSUME TypeOK, ThreadsOK, [Next]_vars
             PROVE  ThreadsOK'
  OBVIOUS
<1>1. CASE Worker
  <2>1. /\ workerPc # "none" /\ workerPc' # "none"
        /\ UNCHANGED <<uiPc, acquisitionRunning, run, packet>>
        /\ \/ processingPc' = processingPc
           \/ (processingPc = "waiting" /\ processingPc' = "notified")
    BY <1>1, WorkerAlone DEF ui
  <2> QED BY <2>1 DEF ThreadsOK, NoThreadOutsideRun
<1>2. CASE WaitPop \/ SpuriousWakeUp \/ ParseAndStore
  <2>1. /\ processingPc # "none" /\ processingPc' # "none"
        /\ UNCHANGED <<workerPc, uiPc, acquisitionRunning, run, status>>
    BY <1>2 DEF WaitPop, SpuriousWakeUp, ParseAndStore, worker, ui, shared
  <2>2. processingPc' = "parse" => packet' \in Frame
    <3>1. rawPacketQueue \in Queue /\ Len(rawPacketQueue.packets) <= QueueCapacity
      BY DEF TypeOK, SharedOK
    <3> QED BY <1>2, <3>1, PopType DEF WaitPop, SpuriousWakeUp, ParseAndStore
  <2> QED BY <2>1, <2>2 DEF ThreadsOK, NoThreadOutsideRun
<1>3. CASE Start
  BY <1>3 DEF Start, UiGoto, worker, ThreadsOK, NoThreadOutsideRun, TypeOK,
              UiOK
<1>4. CASE CreateWorker
  BY <1>4 DEF CreateWorker, UiGoto, WorkerGoto, processing, ThreadsOK,
              NoThreadOutsideRun
<1>5. CASE GetLatestWaveform
  BY <1>5 DEF GetLatestWaveform, worker, processing, ThreadsOK,
              NoThreadOutsideRun
<1>6. CASE StopRequest \/ FaultFound
  BY <1>6 DEF StopRequest, FaultFound, UiGoto, worker, processing, shared,
              ThreadsOK, NoThreadOutsideRun
<1>7. CASE CloseQueue
  BY <1>7 DEF CloseQueue, UiGoto, Notify, worker, ThreadsOK,
              NoThreadOutsideRun
<1>8. CASE JoinWorker
  BY <1>8 DEF JoinWorker, UiGoto, WorkerGoto, processing, ThreadsOK,
              NoThreadOutsideRun
<1>9. CASE JoinProcessing
  BY <1>9 DEF JoinProcessing, UiGoto, worker, ThreadsOK, NoThreadOutsideRun
<1>10. CASE StopFinish
  BY <1>10 DEF StopFinish, UiGoto, worker, processing, ThreadsOK,
               NoThreadOutsideRun
<1>11. CASE UNCHANGED vars
  BY <1>11 DEF vars, shared, worker, processing, ui, ThreadsOK,
               NoThreadOutsideRun
<1> QED BY <1>1, <1>2, <1>3, <1>4, <1>5, <1>6, <1>7, <1>8, <1>9, <1>10, <1>11
        DEF Next, UserInterface

-----------------------------------------------------------------------------
\* The report of a failure.

LEMMA OperationNames == "eNone" \notin Operations
BY DEF Operations

LEMMA StepReport ==
    TypeOK /\ ThreadsOK /\ ReportOK /\ [Next]_vars => ReportOK'
<1> SUFFICES ASSUME TypeOK, ThreadsOK, ReportOK, [Next]_vars
             PROVE  ReportOK'
  OBVIOUS
<1> USE DEF Terminal
<1>1. CASE LoopTest
  BY <1>1 DEF LoopTest, WorkerGoto, Call, shared, ReportOK, FaultReported
<1>2. CASE FunctionFails
  <2>1. failedOperation' \in Operations
    BY <1>2, TransfersType DEF FunctionFails
  <2>2. /\ transferResult' \in TransferFailure
        /\ workerPc' = "storeOperation"
        /\ UNCHANGED <<status, consecutiveFailures>>
        /\ workerPc \in Functions
    BY <1>2 DEF FunctionFails, WorkerGoto, shared
  <2> QED BY <2>1, <2>2 DEF ReportOK, FaultReported, Functions
<1>3. CASE Configured \/ Started \/ Restarted \/ ReadDone \/ Polled
  <2>1. /\ workerPc \in Functions
        /\ workerPc' \in {"storeDropped", "push", "polled"}
        /\ UNCHANGED <<status, consecutiveFailures>>
    BY <1>3 DEF Configured, Started, Restarted, ReadDone, Polled, Succeeds,
                WorkerGoto, shared, Functions
  <2> QED BY <2>1 DEF ReportOK, FaultReported, Functions
<1>4. CASE ActOnReport \/ QueueCapture
  <2>1. /\ workerPc \in {"polled", "push"}
        /\ workerPc' \in {"read", "restart", "storeDropped"}
        /\ consecutiveFailures' = consecutiveFailures
    BY <1>4 DEF ActOnReport, QueueCapture, WorkerGoto, Call
  <2>2. status'.state = status.state
    BY <1>4 DEF ActOnReport, QueueCapture, TypeOK, SharedOK, Status
  <2> QED BY <2>1, <2>2 DEF ReportOK, FaultReported
<1>5. CASE StoreDropped \/ StoreRunning \/ StoreNone \/ StoreSuccess
  <2>1. /\ workerPc \in {"storeDropped", "storeRunning", "storeNone",
                         "storeSuccess"}
        /\ workerPc' \in {"storeRunning", "storeNone", "storeSuccess", "sleep"}
        /\ consecutiveFailures' \in {0, consecutiveFailures}
    BY <1>5 DEF StoreDropped, StoreRunning, StoreNone, StoreSuccess, Store,
                WorkerGoto
  <2>2. status'.state \in {"eRunning", status.state}
    BY <1>5 DEF StoreDropped, StoreRunning, StoreNone, StoreSuccess, Store,
                TypeOK, SharedOK, Status
  <2>3. consecutiveFailures' < MaxConsecutiveFailures
    BY <2>1 DEF ReportOK, TypeOK, LocalsOK
  <2>4. status'.state \notin Terminal
    BY <2>1, <2>2 DEF ReportOK
  <2> QED BY <2>1, <2>3, <2>4 DEF ReportOK, FaultReported
<1>6. CASE StoreOperation
  <2>1. /\ status'.failedOperation = failedOperation
        /\ status'.state = status.state
    BY <1>6 DEF StoreOperation, Store, TypeOK, SharedOK, Status
  <2> QED BY <1>6, <2>1
          DEF StoreOperation, Store, WorkerGoto, ReportOK, FaultReported
<1>7. CASE StoreTransfer
  <2>1. /\ status'.lastTransferStatus = transferResult
        /\ status'.failedOperation = status.failedOperation
        /\ status'.state = status.state
    BY <1>7 DEF StoreTransfer, Store, TypeOK, SharedOK, Status
  <2> QED BY <1>7, <2>1
          DEF StoreTransfer, Store, WorkerGoto, ReportOK, FaultReported
<1>8. CASE StoreFault
  <2>1. /\ status'.lastTransferStatus = status.lastTransferStatus
        /\ status'.failedOperation = status.failedOperation
        /\ status'.state = CASE workerPc' = "sleep" -> "eRecovering"
                             [] transferResult = "eNoDevice" -> "eDeviceLost"
                             [] OTHER -> "eFailed"
    BY <1>8 DEF StoreFault, Store, WorkerGoto, TypeOK, SharedOK, Status
  <2>2. /\ workerPc = "storeFault"
        /\ workerPc' \in {"sleep", "close"}
        /\ workerPc' = "sleep"
             => /\ transferResult # "eNoDevice"
                /\ consecutiveFailures < MaxConsecutiveFailures
        /\ consecutiveFailures' = consecutiveFailures
    BY <1>8 DEF StoreFault, Store, WorkerGoto
  <2>3. /\ status.failedOperation \in Operations
        /\ transferResult \in TransferFailure
        /\ status.lastTransferStatus = transferResult
    BY <2>2 DEF ReportOK
  <2> QED BY <2>1, <2>2, <2>3, OperationNames DEF ReportOK, FaultReported
<1>9. CASE SleepEnds
  BY <1>9 DEF SleepEnds, WorkerGoto, shared, locals, ReportOK, FaultReported
<1>10. CASE CloseAtExit
  BY <1>10 DEF CloseAtExit, WorkerGoto, FreshLocals, ReportOK, FaultReported
<1>11. CASE WaitPop \/ SpuriousWakeUp \/ ParseAndStore
  BY <1>11 DEF WaitPop, SpuriousWakeUp, ParseAndStore, shared, worker, locals,
               ReportOK, FaultReported
<1>12. CASE Start
  <2>1. status'.state = "eRunning"
    BY <1>12 DEF Start
  <2>2. UNCHANGED <<workerPc, locals>> /\ workerPc = "none"
    BY <1>12 DEF Start, worker, ThreadsOK, NoThreadOutsideRun
  <2> QED BY <2>1, <2>2 DEF locals, ReportOK, FaultReported
<1>13. CASE CreateWorker
  BY <1>13 DEF CreateWorker, WorkerGoto, shared, locals, ThreadsOK, ReportOK,
               FaultReported
<1>14. CASE GetLatestWaveform \/ StopRequest \/ FaultFound \/ CloseQueue
            \/ JoinProcessing
  BY <1>14 DEF GetLatestWaveform, StopRequest, FaultFound, CloseQueue,
               JoinProcessing, worker, shared, locals, ReportOK, FaultReported
<1>15. CASE JoinWorker
  BY <1>15 DEF JoinWorker, WorkerGoto, shared, locals, ReportOK, FaultReported
<1>16. CASE StopFinish
  <2>1. status'.state = "eStopped"
    BY <1>16 DEF StopFinish, TypeOK, SharedOK, Status
  <2>2. UNCHANGED <<workerPc, locals>> /\ workerPc = "none"
    BY <1>16 DEF StopFinish, worker, ThreadsOK
  <2> QED BY <2>1, <2>2 DEF locals, ReportOK, FaultReported
<1>17. CASE UNCHANGED vars
  BY <1>17 DEF vars, shared, worker, locals, ReportOK, FaultReported
<1> QED BY <1>1, <1>2, <1>3, <1>4, <1>5, <1>6, <1>7, <1>8, <1>9, <1>10,
           <1>11, <1>12, <1>13, <1>14, <1>15, <1>16, <1>17
        DEF Next, Worker, UserInterface

-----------------------------------------------------------------------------
\* The consumer is awake whenever the queue can answer it.

LEMMA StepAwake ==
    ConsumerAwake /\ [Next]_vars => ConsumerAwake'
<1> SUFFICES ASSUME ConsumerAwake, [Next]_vars, processingPc' = "waiting"
             PROVE  ~CanReturn(rawPacketQueue)'
  BY DEF ConsumerAwake
<1>1. CASE UNCHANGED <<rawPacketQueue, processingPc>>
  BY <1>1 DEF ConsumerAwake, CanReturn
<1>2. ASSUME Notify PROVE FALSE
  BY <1>2 DEF Notify
<1>3. CASE QueueCapture
  BY <1>2, <1>3, <1>1 DEF QueueCapture, Push
<1>4. CASE CloseAtExit \/ CloseQueue
  BY <1>2, <1>4 DEF CloseAtExit, CloseQueue
<1>5. CASE WaitPop
  BY <1>5 DEF WaitPop, CanReturn
<1>6. CASE SpuriousWakeUp \/ ParseAndStore \/ Start \/ JoinProcessing
  BY <1>6 DEF SpuriousWakeUp, ParseAndStore, Start, JoinProcessing
<1>7. CASE \/ LoopTest \/ FunctionFails \/ Configured \/ Started \/ Polled
           \/ ActOnReport \/ ReadDone \/ Restarted
  BY <1>1, <1>7 DEF LoopTest, FunctionFails, Configured, Started, Polled,
                    ActOnReport, ReadDone, Restarted, Succeeds, shared,
                    processing
<1>8. CASE \/ StoreDropped \/ StoreRunning \/ StoreNone \/ StoreSuccess
           \/ StoreOperation \/ StoreTransfer \/ StoreFault \/ SleepEnds
  BY <1>1, <1>8 DEF StoreDropped, StoreRunning, StoreNone, StoreSuccess,
                    StoreOperation, StoreTransfer, StoreFault, Store,
                    SleepEnds, shared, processing
<1>9. CASE \/ CreateWorker \/ GetLatestWaveform \/ StopRequest \/ FaultFound
           \/ JoinWorker \/ StopFinish
  BY <1>1, <1>9 DEF CreateWorker, GetLatestWaveform, StopRequest, FaultFound,
                    JoinWorker, StopFinish, shared, processing
<1>10. CASE UNCHANGED vars
  BY <1>1, <1>10 DEF vars, shared, processing
<1> QED BY <1>3, <1>4, <1>5, <1>6, <1>7, <1>8, <1>9, <1>10
        DEF Next, Worker, UserInterface

-----------------------------------------------------------------------------
\* Every frame is whole.

\* Configuring, polling and reading leave the instrument's capture alone, and
\* reading all of it fills all of captureData.
LEMMA ReachedCapture ==
    ASSUME TypeOK, NEW fn \in {"configure", "poll", "read"},
           NEW n \in Nat, n <= Len(Transfers[fn]), Reached(fn, n)
    PROVE  /\ deviceCapture' = deviceCapture
           /\ fn = "read" /\ n = Len(Transfers[fn])
                => \A p \in 1 .. DataPackets : captureData'[p] = deviceCapture
<1>1. \A i \in 1 .. n : Transfers[fn][i] # "eCaptureStartCmd"
  <2> SUFFICES ASSUME NEW i \in 1 .. n
               PROVE  Transfers[fn][i] # "eCaptureStartCmd"
    OBVIOUS
  <2>1. Len(Transfers[fn]) \in Nat
    BY TransfersType DEF Functions
  <2>2. i \in 1 .. Len(Transfers[fn])
    BY <2>1
  <2> QED BY <2>2, OnlyRestartsStart
<1>2. deviceCapture' = deviceCapture
  BY <1>1 DEF Reached
<1>3. ASSUME fn = "read", n = Len(Transfers[fn]), NEW p \in 1 .. DataPackets
      PROVE  captureData'[p] = deviceCapture
  <2>1. Len(ReadCaptureData) = 4 + DataPackets /\ n = Len(ReadCaptureData)
    BY <1>3, HarmlessTransfers DEF Transfers
  <2>2. n >= Len(ReadCaptureData) - DataPackets + p
    BY <1>3, <2>1
  <2>3. captureData' = [q \in 1 .. DataPackets |->
           IF fn = "read" /\ n >= Len(ReadCaptureData) - DataPackets + q
           THEN deviceCapture ELSE captureData[q]]
    BY DEF Reached
  <2> QED BY <1>3, <2>2, <2>3
<1> QED BY <1>2, <1>3

LEMMA StepCaptures ==
    TypeOK /\ ThreadsOK /\ CapturesOK /\ [Next]_vars => CapturesOK'
<1> SUFFICES ASSUME TypeOK, ThreadsOK, CapturesOK, [Next]_vars
             PROVE  CapturesOK'
  OBVIOUS
<1> DEFINE Frames == <<rawPacketQueue, waveformRingBuffer, packet,
                       latestWaveform>>
           FramesOK == /\ WholeAll(rawPacketQueue.packets)
                       /\ WholeAll(waveformRingBuffer)
                       /\ processingPc = "parse" => Whole(packet)
                       /\ Whole(latestWaveform)
           ReadingOK == /\ workerPc \in {"polled", "read", "push"}
                              => captureState.capture = deviceCapture
                        /\ workerPc = "push"
                              => \A n \in 1 .. DataPackets :
                                   captureData[n] = deviceCapture
<1>1. FramesOK /\ ReadingOK
  BY DEF CapturesOK
<1>2. ASSUME FramesOK', ReadingOK' PROVE CapturesOK'
  BY <1>2 DEF CapturesOK
<1>3. ASSUME UNCHANGED Frames,
             processingPc' = processingPc \/ processingPc' # "parse"
      PROVE  FramesOK'
  BY <1>1, <1>3 DEF WholeAll, Whole
<1>4. ASSUME UNCHANGED <<captureState, captureData, deviceCapture>>,
             workerPc' = workerPc
      PROVE  ReadingOK'
  BY <1>1, <1>4
<1>5. ASSUME workerPc' \notin {"polled", "read", "push"} PROVE ReadingOK'
  BY <1>5
<1>6. /\ rawPacketQueue \in Queue
      /\ Len(rawPacketQueue.packets) <= QueueCapacity
      /\ waveformRingBuffer \in Seq(Frame)
      /\ Len(waveformRingBuffer) <= RingCapacity
  BY DEF TypeOK, SharedOK
<1> HIDE DEF FramesOK, ReadingOK
<1>7. CASE LoopTest
  <2>1. UNCHANGED <<Frames, processingPc>>
    BY <1>7 DEF LoopTest, shared, processing, ui
  <2>2. workerPc' \notin {"polled", "read", "push"}
    BY <1>7 DEF LoopTest, WorkerGoto, Call
  <2> QED BY <1>2, <1>3, <1>5, <2>1, <2>2
<1>8. CASE FunctionFails
  <2>1. UNCHANGED <<Frames, processingPc>>
    BY <1>8 DEF FunctionFails, shared, processing, ui
  <2>2. workerPc' \notin {"polled", "read", "push"}
    BY <1>8 DEF FunctionFails, WorkerGoto
  <2> QED BY <1>2, <1>3, <1>5, <2>1, <2>2
<1>9. CASE Configured \/ Started \/ Restarted
  <2>1. UNCHANGED <<Frames, processingPc>>
    BY <1>9 DEF Configured, Started, Restarted, Succeeds, shared, processing,
                ui
  <2>2. workerPc' \notin {"polled", "read", "push"}
    BY <1>9 DEF Configured, Started, Restarted, WorkerGoto
  <2> QED BY <1>2, <1>3, <1>5, <2>1, <2>2
<1>10. CASE Polled
  <2>1. UNCHANGED <<Frames, processingPc>>
    BY <1>10 DEF Polled, Succeeds, shared, processing, ui
  <2>2. Len(Transfers["poll"]) \in Nat
    BY TransfersType DEF Functions
  <2>3. deviceCapture' = deviceCapture
    BY <1>10, <2>2, ReachedCapture DEF Polled, Succeeds
  <2>4. captureState'.capture = deviceCapture /\ workerPc' = "polled"
    BY <1>10 DEF Polled, WorkerGoto
  <2>5. ReadingOK'
    BY <2>3, <2>4 DEF ReadingOK
  <2> QED BY <1>2, <1>3, <2>1, <2>5
<1>11. CASE ActOnReport
  <2>1. UNCHANGED <<Frames, processingPc, captureState, deviceCapture>>
    BY <1>11 DEF ActOnReport, processing, ui, device
  <2>2. workerPc = "polled" /\ workerPc' # "push"
    BY <1>11 DEF ActOnReport, WorkerGoto, Call
  <2>3. ReadingOK'
    BY <1>1, <2>1, <2>2 DEF ReadingOK
  <2> QED BY <1>2, <1>3, <2>1, <2>3
<1>12. CASE ReadDone
  <2>1. UNCHANGED <<Frames, processingPc>>
    BY <1>12 DEF ReadDone, Succeeds, shared, processing, ui
  <2>2. Len(Transfers["read"]) \in Nat
    BY TransfersType DEF Functions
  <2>3. /\ deviceCapture' = deviceCapture
        /\ \A n \in 1 .. DataPackets : captureData'[n] = deviceCapture
    BY <1>12, <2>2, ReachedCapture DEF ReadDone, Succeeds
  <2>4. workerPc = "read" /\ captureState' = captureState
    BY <1>12 DEF ReadDone, Succeeds
  <2>5. ReadingOK'
    BY <1>1, <2>3, <2>4 DEF ReadingOK
  <2> QED BY <1>2, <1>3, <2>1, <2>5
<1>13. CASE QueueCapture
  <2>1. workerPc = "push" /\ workerPc' = "restart"
    BY <1>13 DEF QueueCapture, Call, WorkerGoto
  <2>2. Captured \in Frame /\ Whole(Captured)
    <3>1. Captured \in Frame
      BY <2>1 DEF Captured, Frame, ThreadsOK, TypeOK, LocalsOK, UiOK
    <3>2. \A n \in 1 .. DataPackets : captureData[n] = captureState.capture
      BY <1>1, <2>1 DEF ReadingOK
    <3> QED BY <3>1, <3>2 DEF Captured, Whole
  <2>3. rawPacketQueue' = Push(rawPacketQueue, Captured)
    BY <1>13 DEF QueueCapture
  <2>4. WholeAll(rawPacketQueue'.packets)
    <3>1. WholeAll(rawPacketQueue.packets)
      BY <1>1 DEF FramesOK
    <3> QED BY <1>6, <2>2, <2>3, <3>1, PushType DEF WholeAll
  <2>5. /\ UNCHANGED <<waveformRingBuffer, packet, latestWaveform>>
        /\ processingPc' = "parse" => processingPc = "parse"
    BY <1>13 DEF QueueCapture, Notify, ui
  <2>6. FramesOK'
    BY <1>1, <2>4, <2>5 DEF FramesOK, WholeAll, Whole
  <2> QED BY <1>2, <1>5, <2>1, <2>6
<1>14. CASE \/ StoreDropped \/ StoreRunning \/ StoreNone \/ StoreSuccess
            \/ StoreOperation \/ StoreTransfer \/ StoreFault \/ SleepEnds
  <2>1. UNCHANGED <<Frames, processingPc>>
    BY <1>14 DEF StoreDropped, StoreRunning, StoreNone, StoreSuccess,
                 StoreOperation, StoreTransfer, StoreFault, Store, SleepEnds,
                 shared, processing, ui
  <2>2. workerPc' \notin {"polled", "read", "push"}
    BY <1>14 DEF StoreDropped, StoreRunning, StoreNone, StoreSuccess,
                 StoreOperation, StoreTransfer, StoreFault, Store, SleepEnds,
                 WorkerGoto
  <2> QED BY <1>2, <1>3, <1>5, <2>1, <2>2
<1>15. CASE CloseAtExit \/ CloseQueue
  <2>1. /\ rawPacketQueue'.packets = rawPacketQueue.packets
        /\ UNCHANGED <<waveformRingBuffer, packet, latestWaveform>>
        /\ processingPc' = "parse" => processingPc = "parse"
    BY <1>15 DEF CloseAtExit, CloseQueue, Close, Notify, ui
  <2>2. FramesOK'
    BY <1>1, <2>1 DEF FramesOK, WholeAll, Whole
  <2>3. ReadingOK'
    <3>1. CASE CloseAtExit
      BY <1>5, <3>1 DEF CloseAtExit, WorkerGoto
    <3>2. CASE CloseQueue
      BY <1>4, <3>2 DEF CloseQueue, worker, locals, device
    <3> QED BY <1>15, <3>1, <3>2
  <2> QED BY <1>2, <2>2, <2>3
<1>16. CASE WaitPop
  <2>1. ReadingOK'
    BY <1>4, <1>16 DEF WaitPop, worker, locals, device
  <2>2. CASE processingPc' = "parse"
    <3>1. /\ rawPacketQueue.packets # << >>
          /\ packet' = Head(rawPacketQueue.packets)
          /\ rawPacketQueue' = Pop(rawPacketQueue)
          /\ UNCHANGED <<waveformRingBuffer, latestWaveform>>
      BY <1>16, <2>2 DEF WaitPop, ui
    <3>2. WholeAll(rawPacketQueue.packets)
      BY <1>1 DEF FramesOK
    <3>3. 1 \in 1 .. Len(rawPacketQueue.packets)
      BY <1>6, <3>1 DEF Queue
    <3>4. Whole(packet')
      BY <1>6, <3>1, <3>2, <3>3, PopType DEF WholeAll
    <3>5. WholeAll(rawPacketQueue'.packets)
      BY <1>6, <3>1, <3>2, PopType DEF WholeAll
    <3>6. FramesOK'
      BY <1>1, <3>1, <3>4, <3>5 DEF FramesOK, WholeAll, Whole
    <3> QED BY <1>2, <2>1, <3>6
  <2>3. CASE processingPc' # "parse"
    <3>1. UNCHANGED Frames
      BY <1>16, <2>3 DEF WaitPop, ui
    <3> QED BY <1>2, <1>3, <2>1, <2>3, <3>1
  <2> QED BY <2>2, <2>3
<1>17. CASE SpuriousWakeUp
  <2>1. UNCHANGED Frames /\ processingPc' # "parse"
    BY <1>17 DEF SpuriousWakeUp, shared, ui
  <2>2. ReadingOK'
    BY <1>4, <1>17 DEF SpuriousWakeUp, worker, locals, device
  <2> QED BY <1>2, <1>3, <2>1, <2>2
<1>18. CASE ParseAndStore
  <2>1. packet \in Frame /\ Whole(packet)
    BY <1>1, <1>18 DEF ParseAndStore, ThreadsOK, FramesOK
  <2>2. /\ waveformRingBuffer' = Insert(waveformRingBuffer, packet, RingCapacity)
        /\ UNCHANGED <<rawPacketQueue, latestWaveform>>
        /\ processingPc' = "outside"
    BY <1>18 DEF ParseAndStore, ui
  <2>3. WholeAll(waveformRingBuffer')
    <3>1. WholeAll(waveformRingBuffer)
      BY <1>1 DEF FramesOK
    <3> DEFINE t == Insert(waveformRingBuffer, packet, RingCapacity)
    <3>2. \A i \in 1 .. Len(t) :
            \/ t[i] = packet
            \/ \E j \in 1 .. Len(waveformRingBuffer) :
                 t[i] = waveformRingBuffer[j]
      BY <1>6, <2>1, InsertType
    <3> HIDE DEF t
    <3>3. WholeAll(t)
      BY <2>1, <3>1, <3>2 DEF WholeAll
    <3> QED BY <2>2, <3>3 DEF t
  <2>4. FramesOK'
    BY <1>1, <2>2, <2>3 DEF FramesOK, WholeAll, Whole
  <2>5. ReadingOK'
    BY <1>4, <1>18 DEF ParseAndStore, worker, locals, device
  <2> QED BY <1>2, <2>4, <2>5
<1>19. CASE Start
  <2>1. /\ rawPacketQueue'.packets = << >> /\ waveformRingBuffer' = << >>
        /\ processingPc' = "outside" /\ latestWaveform' = latestWaveform
    BY <1>19 DEF Start, EmptyQueue
  <2>2. FramesOK'
    BY <1>1, <2>1 DEF FramesOK, WholeAll, Whole
  <2>3. ReadingOK'
    BY <1>4, <1>19 DEF Start, worker, locals, device
  <2> QED BY <1>2, <2>2, <2>3
<1>20. CASE CreateWorker
  <2>1. UNCHANGED <<Frames, processingPc>>
    BY <1>20 DEF CreateWorker, shared, processing
  <2>2. workerPc' = "loop"
    BY <1>20 DEF CreateWorker, WorkerGoto
  <2> QED BY <1>2, <1>3, <1>5, <2>1, <2>2
<1>21. CASE GetLatestWaveform
  <2>1. /\ waveformRingBuffer # << >>
        /\ latestWaveform' = waveformRingBuffer[Len(waveformRingBuffer)]
        /\ waveformRingBuffer' = << >>
        /\ UNCHANGED <<rawPacketQueue, packet, processingPc>>
    BY <1>21 DEF GetLatestWaveform, processing
  <2>2. Len(waveformRingBuffer) \in 1 .. Len(waveformRingBuffer)
    BY <1>6, <2>1
  <2>3. Whole(latestWaveform')
    BY <1>1, <2>1, <2>2 DEF FramesOK, WholeAll
  <2>4. FramesOK'
    BY <1>1, <2>1, <2>3 DEF FramesOK, WholeAll, Whole
  <2>5. ReadingOK'
    BY <1>4, <1>21 DEF GetLatestWaveform, worker, locals, device
  <2> QED BY <1>2, <2>4, <2>5
<1>22. CASE StopRequest \/ FaultFound \/ JoinProcessing \/ StopFinish
  <2>1. /\ UNCHANGED Frames
        /\ processingPc' = processingPc \/ processingPc' # "parse"
    BY <1>22 DEF StopRequest, FaultFound, JoinProcessing, StopFinish, shared,
                 processing
  <2>2. ReadingOK'
    BY <1>4, <1>22 DEF StopRequest, FaultFound, JoinProcessing, StopFinish,
                       worker, locals, device
  <2> QED BY <1>2, <1>3, <2>1, <2>2
<1>23. CASE JoinWorker
  <2>1. UNCHANGED <<Frames, processingPc>> /\ workerPc' = "none"
    BY <1>23 DEF JoinWorker, WorkerGoto, shared, processing
  <2> QED BY <1>2, <1>3, <1>5, <2>1
<1>24. CASE UNCHANGED vars
  <2>1. UNCHANGED <<Frames, processingPc>>
    BY <1>24 DEF vars, shared, processing, ui
  <2>2. ReadingOK'
    BY <1>4, <1>24 DEF vars, worker, locals, device
  <2> QED BY <1>2, <1>3, <2>1, <2>2
<1> QED BY <1>7, <1>8, <1>9, <1>10, <1>11, <1>12, <1>13, <1>14, <1>15, <1>16,
           <1>17, <1>18, <1>19, <1>20, <1>21, <1>22, <1>23, <1>24
        DEF Next, Worker, UserInterface

-----------------------------------------------------------------------------
\* The frames are in order.

Elements(s) == {s[i] : i \in 1 .. Len(s)}

Ordered(s) == \A i, j \in 1 .. Len(s) : i < j => NotBefore(s[j], s[i])

Precedes(S, T) == \A f \in S, g \in T : NotBefore(g, f)

\* The frames of each stage of the pipeline.
Shown == {latestWaveform}
Decoded == Elements(waveformRingBuffer)
Taken == IF processingPc = "parse" THEN {packet} ELSE {}
Queued == Elements(rawPacketQueue.packets)

Recent(f) == f.run \in 0 .. run /\ f.capture \in 0 .. deviceCapture

\* Each buffer is in order and each stage is ahead of those after it; no frame
\* is newer than the instrument's capture, so that the next one is the newest,
\* and only the frame on the screen may be of an earlier run.
OrderOK ==
    /\ Ordered(waveformRingBuffer)
    /\ Ordered(rawPacketQueue.packets)
    /\ Precedes(Shown, Decoded \cup Taken \cup Queued)
    /\ Precedes(Decoded, Taken \cup Queued)
    /\ Precedes(Taken, Queued)
    /\ \A f \in Shown \cup Decoded \cup Taken \cup Queued : Recent(f)
    /\ \A f \in Decoded \cup Taken \cup Queued : f.run = run

LEMMA InsertOrder ==
    ASSUME NEW S, NEW s \in Seq(S), NEW x \in S, NEW c \in Nat \ {0},
           Len(s) <= c, Ordered(s), Precedes(Elements(s), {x})
    PROVE  /\ Elements(Insert(s, x, c)) \subseteq Elements(s) \cup {x}
           /\ Ordered(Insert(s, x, c))
<1>1. Elements(Insert(s, x, c)) \subseteq Elements(s) \cup {x}
  <2> DEFINE u == Insert(s, x, c)
  <2>1. \A i \in 1 .. Len(u) : u[i] = x \/ \E j \in 1 .. Len(s) : u[i] = s[j]
    BY InsertType
  <2> HIDE DEF u
  <2>2. Elements(u) \subseteq Elements(s) \cup {x}
    BY <2>1 DEF Elements
  <2> QED BY <2>2 DEF u
<1>2. \A i \in 1 .. Len(s) : NotBefore(x, s[i])
  BY DEF Precedes, Elements
<1>3. \A t \in Seq(S) :
        Ordered(t) /\ (\A i \in 1 .. Len(t) : NotBefore(x, t[i]))
          => Ordered(Append(t, x))
  <2> SUFFICES ASSUME NEW t \in Seq(S), Ordered(t),
                      \A i \in 1 .. Len(t) : NotBefore(x, t[i]),
                      NEW i \in 1 .. Len(Append(t, x)),
                      NEW j \in 1 .. Len(Append(t, x)), i < j
               PROVE  NotBefore(Append(t, x)[j], Append(t, x)[i])
    BY DEF Ordered
  <2>1. /\ Len(Append(t, x)) = Len(t) + 1 /\ Append(t, x)[Len(t) + 1] = x
        /\ \A k \in 1 .. Len(t) : Append(t, x)[k] = t[k]
    OBVIOUS
  <2>2. i \in 1 .. Len(t)
    BY <2>1
  <2>3. CASE j = Len(t) + 1
    BY <2>1, <2>2, <2>3
  <2>4. CASE j \in 1 .. Len(t)
    BY <2>1, <2>2, <2>4 DEF Ordered
  <2> QED BY <2>1, <2>3, <2>4
<1>4. CASE Len(s) < c
  <2>1. Insert(s, x, c) = Append(s, x)
    BY <1>4 DEF Insert
  <2> QED BY <1>1, <1>2, <1>3, <2>1
<1>5. CASE Len(s) = c
  <2>1. /\ Tail(s) \in Seq(S) /\ Len(Tail(s)) = Len(s) - 1
        /\ \A i \in 1 .. Len(s) - 1 :
             Tail(s)[i] = s[i + 1] /\ i + 1 \in 1 .. Len(s)
    <3>1. s # << >>
      BY <1>5
    <3> QED BY <3>1
  <2>2. Ordered(Tail(s))
    BY <2>1 DEF Ordered
  <2>3. Insert(s, x, c) = Append(Tail(s), x)
    BY <1>5 DEF Insert
  <2> QED BY <1>1, <1>2, <1>3, <2>1, <2>2, <2>3
<1> QED BY <1>1, <1>4, <1>5

LEMMA TakeOrder ==
    ASSUME NEW S, NEW s \in Seq(S), s # << >>, Ordered(s)
    PROVE  /\ Elements(Tail(s)) \cup {Head(s)} \subseteq Elements(s)
           /\ Ordered(Tail(s))
           /\ Precedes({Head(s)}, Elements(Tail(s)))
<1>1. /\ Len(Tail(s)) = Len(s) - 1 /\ Head(s) = s[1] /\ 1 \in 1 .. Len(s)
      /\ \A i \in 1 .. Len(Tail(s)) :
           Tail(s)[i] = s[i + 1] /\ i + 1 \in 1 .. Len(s) /\ 1 < i + 1
  OBVIOUS
<1>2. Len(s) \in Nat
  OBVIOUS
<1>3. Elements(Tail(s)) \cup {Head(s)} \subseteq Elements(s)
  BY <1>1 DEF Elements
<1>4. Ordered(Tail(s))
  BY <1>1, <1>2 DEF Ordered
<1>5. Precedes({Head(s)}, Elements(Tail(s)))
  BY <1>1 DEF Precedes, Elements, Ordered
<1> QED BY <1>3, <1>4, <1>5

\* Neither the run nor the instrument's capture number ever goes back.
LEMMA OnlyForward ==
    TypeOK /\ [Next]_vars
      => /\ run' \in Nat /\ run' >= run
         /\ deviceCapture' \in Nat /\ deviceCapture' >= deviceCapture
<1> SUFFICES ASSUME TypeOK, [Next]_vars
             PROVE  /\ run' \in Nat /\ run' >= run
                    /\ deviceCapture' \in Nat
                    /\ deviceCapture' >= deviceCapture
  OBVIOUS
<1>1. run \in Nat /\ deviceCapture \in Nat
  BY DEF TypeOK, UiOK, DeviceOK
<1>2. ASSUME NEW fn, NEW n, Reached(fn, n)
      PROVE  deviceCapture' \in Nat /\ deviceCapture' >= deviceCapture
  BY <1>1, <1>2 DEF Reached
<1>3. CASE UNCHANGED <<run, deviceCapture>>
  BY <1>1, <1>3
<1>4. CASE FunctionFails
  BY <1>1, <1>2, <1>4 DEF FunctionFails, ui
<1>5. CASE Configured \/ Started \/ Polled \/ ReadDone \/ Restarted
  BY <1>1, <1>2, <1>5
  DEF Configured, Started, Polled, ReadDone, Restarted, Succeeds, ui
<1>6. CASE Start
  BY <1>1, <1>6 DEF Start, device
<1>7. CASE LoopTest \/ ActOnReport \/ QueueCapture \/ SleepEnds \/ CloseAtExit
  BY <1>3, <1>7 DEF LoopTest, ActOnReport, QueueCapture, SleepEnds,
                    CloseAtExit, ui, device
<1>8. CASE \/ StoreDropped \/ StoreRunning \/ StoreNone \/ StoreSuccess
           \/ StoreOperation \/ StoreTransfer \/ StoreFault
  BY <1>3, <1>8 DEF StoreDropped, StoreRunning, StoreNone, StoreSuccess,
                    StoreOperation, StoreTransfer, StoreFault, Store, ui,
                    device
<1>9. CASE WaitPop \/ SpuriousWakeUp \/ ParseAndStore
  BY <1>3, <1>9 DEF WaitPop, SpuriousWakeUp, ParseAndStore, ui, device
<1>10. CASE \/ CreateWorker \/ GetLatestWaveform \/ StopRequest \/ FaultFound
            \/ CloseQueue \/ JoinWorker \/ JoinProcessing \/ StopFinish
  BY <1>3, <1>10 DEF CreateWorker, GetLatestWaveform, StopRequest, FaultFound,
                     CloseQueue, JoinWorker, JoinProcessing, StopFinish,
                     device
<1>11. CASE UNCHANGED vars
  BY <1>3, <1>11 DEF vars, ui, device
<1> QED BY <1>4, <1>5, <1>6, <1>7, <1>8, <1>9, <1>10, <1>11
        DEF Next, Worker, UserInterface

LEMMA InitOrder == Init => OrderOK
<1> SUFFICES ASSUME Init PROVE OrderOK
  OBVIOUS
<1>1. rawPacketQueue.packets = << >> /\ waveformRingBuffer = << >>
  BY DEF Init, EmptyQueue
<1>2. Decoded = {} /\ Taken = {} /\ Queued = {}
  BY <1>1 DEF Init, Decoded, Taken, Queued, Elements
<1>3. \A f \in Shown : Recent(f)
  BY DEF Init, Shown, Recent, NoFrame
<1>4. Ordered(waveformRingBuffer) /\ Ordered(rawPacketQueue.packets)
  BY <1>1 DEF Ordered
<1> QED BY <1>2, <1>3, <1>4 DEF OrderOK, Precedes

LEMMA StepOrder ==
    TypeOK /\ ThreadsOK /\ CapturesOK /\ OrderOK /\ [Next]_vars => OrderOK'
<1> SUFFICES ASSUME TypeOK, ThreadsOK, CapturesOK, OrderOK, [Next]_vars
             PROVE  OrderOK'
  OBVIOUS
<1>1. /\ rawPacketQueue \in Queue
      /\ rawPacketQueue.packets \in Seq(Frame)
      /\ Len(rawPacketQueue.packets) <= QueueCapacity
      /\ waveformRingBuffer \in Seq(Frame)
      /\ Len(waveformRingBuffer) <= RingCapacity
      /\ run \in Nat /\ deviceCapture \in Nat
      /\ QueueCapacity \in Nat \ {0} /\ RingCapacity \in Nat \ {0}
  BY DEF TypeOK, SharedOK, UiOK, DeviceOK, Queue
<1>2. \A f : Recent(f) => Recent(f)'
  BY <1>1, OnlyForward DEF Recent
<1>3. ASSUME Shown' = Shown, Decoded' = Decoded, Queued' = Queued,
             Taken' \subseteq Taken, Ordered(waveformRingBuffer)',
             Ordered(rawPacketQueue.packets)', run' = run
      PROVE  OrderOK'
  BY <1>2, <1>3 DEF OrderOK, Precedes
<1>4. ASSUME UNCHANGED <<waveformRingBuffer, latestWaveform, packet, run>>,
             rawPacketQueue'.packets = rawPacketQueue.packets,
             processingPc' = "parse" => processingPc = "parse"
      PROVE  OrderOK'
  <2>1. Shown' = Shown /\ Decoded' = Decoded /\ Queued' = Queued
    BY <1>4 DEF Shown, Decoded, Queued, Elements
  <2>2. Taken' \subseteq Taken
    BY <1>4 DEF Taken
  <2>3. Ordered(waveformRingBuffer)' /\ Ordered(rawPacketQueue.packets)'
    BY <1>4 DEF OrderOK, Ordered, NotBefore
  <2> QED BY <1>3, <1>4, <2>1, <2>2, <2>3
<1>5. CASE QueueCapture
  <2>1. /\ workerPc = "push"
        /\ rawPacketQueue' = Push(rawPacketQueue, Captured)
        /\ UNCHANGED <<waveformRingBuffer, latestWaveform, packet, run>>
        /\ processingPc' = "parse" <=> processingPc = "parse"
    BY <1>5 DEF QueueCapture, Notify, ui
  <2>2. CASE rawPacketQueue.closed
    BY <1>4, <2>1, <2>2 DEF Push
  <2>3. CASE ~rawPacketQueue.closed
    <3>1. Captured \in Frame
      BY <2>1 DEF Captured, Frame, ThreadsOK, TypeOK, LocalsOK, UiOK
    <3>2. Captured.run = run /\ Captured.capture = deviceCapture
      BY <2>1 DEF Captured, CapturesOK
    <3>3. \A f : Recent(f) => NotBefore(Captured, f)
      BY <1>1, <3>2 DEF Recent, NotBefore
    <3>4. Recent(Captured)
      BY <1>1, <3>2 DEF Recent
    <3>5. Precedes(Queued, {Captured})
      BY <3>3 DEF OrderOK, Precedes
    <3>6. rawPacketQueue'.packets
            = Insert(rawPacketQueue.packets, Captured, QueueCapacity)
      BY <2>1, <2>3 DEF Push
    <3>7. /\ Queued' \subseteq Queued \cup {Captured}
          /\ Ordered(rawPacketQueue.packets)'
      <4>1. Ordered(rawPacketQueue.packets)
        BY DEF OrderOK
      <4>2. /\ Elements(rawPacketQueue'.packets)
                 \subseteq Elements(rawPacketQueue.packets) \cup {Captured}
            /\ Ordered(rawPacketQueue'.packets)
        BY <1>1, <3>1, <3>5, <3>6, <4>1, InsertOrder DEF Queued
      <4> QED BY <4>2 DEF Queued
    <3>8. /\ Shown' = Shown /\ Decoded' = Decoded /\ Taken' = Taken
          /\ Ordered(waveformRingBuffer)'
      BY <2>1 DEF Shown, Decoded, Taken, Elements, OrderOK, Ordered
    <3>9. \A f \in Decoded \cup Taken \cup Queued \cup {Captured} :
            f.run = run'
      BY <2>1, <3>2 DEF OrderOK
    <3> QED BY <1>2, <3>3, <3>4, <3>7, <3>8, <3>9 DEF OrderOK, Precedes
  <2> QED BY <2>2, <2>3
<1>6. CASE WaitPop
  <2>1. UNCHANGED <<waveformRingBuffer, latestWaveform, run>>
    BY <1>6 DEF WaitPop, ui
  <2>2. CASE processingPc' # "parse"
    BY <1>4, <1>6, <2>1, <2>2 DEF WaitPop
  <2>3. CASE processingPc' = "parse"
    <3> DEFINE s == rawPacketQueue.packets
    <3>1. s # << >> /\ packet' = Head(s) /\ rawPacketQueue'.packets = Tail(s)
      BY <1>6, <2>3 DEF WaitPop, Pop
    <3>2. /\ Elements(Tail(s)) \cup {Head(s)} \subseteq Elements(s)
          /\ Ordered(Tail(s))
          /\ Precedes({Head(s)}, Elements(Tail(s)))
      BY <1>1, <3>1, TakeOrder DEF OrderOK
    <3>3. Taken' = {Head(s)} /\ Queued' = Elements(Tail(s))
      BY <2>3, <3>1 DEF Taken, Queued, Elements
    <3>4. Queued = Elements(s)
      BY DEF Queued
    <3>5. /\ Shown' = Shown /\ Decoded' = Decoded
          /\ Ordered(waveformRingBuffer)'
      BY <2>1 DEF Shown, Decoded, Elements, OrderOK, Ordered
    <3>6. Ordered(rawPacketQueue.packets)'
      BY <3>1, <3>2 DEF Ordered
    <3> HIDE DEF s
    <3> QED BY <1>2, <2>1, <3>2, <3>3, <3>4, <3>5, <3>6 DEF OrderOK, Precedes
  <2> QED BY <2>2, <2>3
<1>7. CASE ParseAndStore
  <2>1. /\ processingPc = "parse" /\ processingPc' = "outside"
        /\ waveformRingBuffer'
             = Insert(waveformRingBuffer, packet, RingCapacity)
        /\ UNCHANGED <<rawPacketQueue, latestWaveform, run>>
    BY <1>7 DEF ParseAndStore, ui
  <2>2. packet \in Frame /\ Taken = {packet} /\ Taken' = {}
    BY <2>1 DEF ThreadsOK, Taken
  <2>3. /\ Decoded' \subseteq Decoded \cup Taken
        /\ Ordered(waveformRingBuffer)'
    <3>1. Ordered(waveformRingBuffer) /\ Precedes(Decoded, {packet})
      BY <2>2 DEF OrderOK, Precedes
    <3>2. /\ Elements(waveformRingBuffer')
               \subseteq Elements(waveformRingBuffer) \cup {packet}
          /\ Ordered(waveformRingBuffer')
      BY <1>1, <2>1, <2>2, <3>1, InsertOrder DEF Decoded
    <3> QED BY <2>2, <3>2 DEF Decoded
  <2>4. /\ Shown' = Shown /\ Queued' = Queued
        /\ Ordered(rawPacketQueue.packets)'
    BY <2>1 DEF Shown, Queued, OrderOK
  <2> QED BY <1>2, <2>1, <2>2, <2>3, <2>4 DEF OrderOK, Precedes
<1>8. CASE Start
  <2>1. /\ rawPacketQueue'.packets = << >> /\ waveformRingBuffer' = << >>
        /\ processingPc' = "outside" /\ latestWaveform' = latestWaveform
    BY <1>8 DEF Start, EmptyQueue
  <2>2. Decoded' = {} /\ Taken' = {} /\ Queued' = {} /\ Shown' = Shown
    BY <2>1 DEF Decoded, Taken, Queued, Shown, Elements
  <2>3. Ordered(waveformRingBuffer)' /\ Ordered(rawPacketQueue.packets)'
    BY <2>1 DEF Ordered
  <2> QED BY <1>2, <2>2, <2>3 DEF OrderOK, Precedes
<1>9. CASE GetLatestWaveform
  <2>1. /\ waveformRingBuffer # << >> /\ waveformRingBuffer' = << >>
        /\ latestWaveform' = waveformRingBuffer[Len(waveformRingBuffer)]
        /\ UNCHANGED <<rawPacketQueue, processingPc, packet, run>>
    BY <1>9 DEF GetLatestWaveform, processing
  <2>2. Len(waveformRingBuffer) \in 1 .. Len(waveformRingBuffer)
    BY <1>1, <2>1
  <2>3. Shown' \subseteq Decoded /\ Decoded' = {}
    BY <2>1, <2>2 DEF Shown, Decoded, Elements
  <2>4. Taken' = Taken /\ Queued' = Queued
    BY <2>1 DEF Taken, Queued
  <2>5. Ordered(waveformRingBuffer)' /\ Ordered(rawPacketQueue.packets)'
    BY <2>1 DEF Ordered, OrderOK
  <2> QED BY <1>2, <2>1, <2>3, <2>4, <2>5 DEF OrderOK, Precedes
<1>10. CASE CloseAtExit \/ CloseQueue
  BY <1>4, <1>10 DEF CloseAtExit, CloseQueue, Close, Notify, ui
<1>11. CASE \/ LoopTest \/ FunctionFails \/ Configured \/ Started \/ Polled
            \/ ActOnReport \/ ReadDone \/ Restarted
  BY <1>4, <1>11 DEF LoopTest, FunctionFails, Configured, Started, Polled,
                     ActOnReport, ReadDone, Restarted, Succeeds, shared,
                     processing, ui
<1>12. CASE \/ StoreDropped \/ StoreRunning \/ StoreNone \/ StoreSuccess
            \/ StoreOperation \/ StoreTransfer \/ StoreFault \/ SleepEnds
  BY <1>4, <1>12 DEF StoreDropped, StoreRunning, StoreNone, StoreSuccess,
                     StoreOperation, StoreTransfer, StoreFault, Store,
                     SleepEnds, shared, processing, ui
<1>13. CASE \/ SpuriousWakeUp \/ CreateWorker \/ StopRequest \/ FaultFound
            \/ JoinWorker \/ JoinProcessing \/ StopFinish
  BY <1>4, <1>13 DEF SpuriousWakeUp, CreateWorker, StopRequest, FaultFound,
                     JoinWorker, JoinProcessing, StopFinish, shared,
                     processing, ui
<1>14. CASE UNCHANGED vars
  BY <1>4, <1>14 DEF vars, shared, processing, ui
<1> QED BY <1>5, <1>6, <1>7, <1>8, <1>9, <1>10, <1>11, <1>12, <1>13, <1>14
        DEF Next, Worker, UserInterface

\* What is in order stage by stage is in order as one sequence.
LEMMA ConcatOrder ==
    ASSUME NEW S, NEW s \in Seq(S), NEW t \in Seq(S),
           Ordered(s), Ordered(t), Precedes(Elements(s), Elements(t))
    PROVE  /\ Ordered(s \o t)
           /\ Elements(s \o t) = Elements(s) \cup Elements(t)
<1>1. /\ Len(s \o t) = Len(s) + Len(t)
      /\ \A i \in 1 .. Len(s) : (s \o t)[i] = s[i]
      /\ \A i \in 1 .. Len(t) : (s \o t)[Len(s) + i] = t[i]
      /\ Len(s) \in Nat /\ Len(t) \in Nat
  OBVIOUS
<1> DEFINE u == s \o t
<1>2. \A i \in 1 .. Len(u) :
        \/ i \in 1 .. Len(s) /\ u[i] = s[i]
        \/ /\ i > Len(s) /\ i - Len(s) \in 1 .. Len(t)
           /\ u[i] = t[i - Len(s)]
  <2> SUFFICES ASSUME NEW i \in 1 .. Len(u), i > Len(s)
               PROVE  /\ i - Len(s) \in 1 .. Len(t)
                      /\ u[i] = t[i - Len(s)]
    BY <1>1
  <2>1. i - Len(s) \in 1 .. Len(t) /\ i = Len(s) + (i - Len(s))
    BY <1>1
  <2> QED BY <1>1, <2>1
<1>3. Elements(u) = Elements(s) \cup Elements(t)
  <2>1. Elements(u) \subseteq Elements(s) \cup Elements(t)
    BY <1>2 DEF Elements
  <2>2. \A i \in 1 .. Len(s) : i \in 1 .. Len(u) /\ u[i] = s[i]
    BY <1>1
  <2>3. \A i \in 1 .. Len(t) :
          Len(s) + i \in 1 .. Len(u) /\ u[Len(s) + i] = t[i]
    BY <1>1
  <2> HIDE DEF u
  <2>4. Elements(s) \subseteq Elements(u) /\ Elements(t) \subseteq Elements(u)
    BY <2>2, <2>3 DEF Elements
  <2> QED BY <2>1, <2>4
<1>4. ASSUME NEW i \in 1 .. Len(u), NEW j \in 1 .. Len(u), i < j
      PROVE  NotBefore(u[j], u[i])
  <2>1. CASE j \in 1 .. Len(s) /\ u[j] = s[j]
    <3>1. i \in 1 .. Len(s) /\ u[i] = s[i]
      BY <1>1, <1>2, <1>4, <2>1
    <3> QED BY <1>4, <2>1, <3>1 DEF Ordered
  <2>2. CASE /\ j > Len(s) /\ j - Len(s) \in 1 .. Len(t)
             /\ u[j] = t[j - Len(s)]
    <3>1. CASE i \in 1 .. Len(s) /\ u[i] = s[i]
      <4>1. u[i] \in Elements(s) /\ u[j] \in Elements(t)
        BY <2>2, <3>1 DEF Elements
      <4> QED BY <4>1 DEF Precedes
    <3>2. CASE /\ i > Len(s) /\ i - Len(s) \in 1 .. Len(t)
               /\ u[i] = t[i - Len(s)]
      <4>1. i - Len(s) < j - Len(s)
        BY <1>1, <1>4
      <4> QED BY <2>2, <3>2, <4>1 DEF Ordered
    <3> QED BY <1>2, <3>1, <3>2
  <2> QED BY <1>2, <2>1, <2>2
<1> QED BY <1>3, <1>4 DEF Ordered

-----------------------------------------------------------------------------
\* The theorems.

WholeFrames == {f \in Frame \cup {NoFrame} : Whole(f)}

LEMMA WholeSeq ==
    ASSUME NEW s \in Seq(Frame), WholeAll(s)
    PROVE  s \in Seq(WholeFrames)
<1>1. Len(s) \in Nat /\ s \in [1 .. Len(s) -> Frame]
  OBVIOUS
<1>2. s \in [1 .. Len(s) -> WholeFrames]
  BY <1>1 DEF WholeAll, WholeFrames
<1> QED BY <1>1, <1>2, SeqDef

IInv == /\ TypeOK /\ ThreadsOK /\ ReportOK /\ ConsumerAwake /\ CapturesOK
        /\ OrderOK

LEMMA InvariantHolds == Spec => []IInv
<1>1. Init => IInv
  BY InitTypeOK, OtherInit, InitOrder DEF IInv
<1>2. IInv /\ [Next]_vars => IInv'
  BY StepType, StepThreads, StepReport, StepAwake, StepCaptures, StepOrder
  DEF IInv
<1> QED BY <1>1, <1>2, PTL DEF Spec

\* Every reachable state is well typed: neither buffer exceeds its capacity
\* and consecutiveFailures never passes kMaxConsecutiveFailures
\* (acquisition_loop.cpp lines 457-474).
THEOREM TypeCorrect == Spec => []TypeOK
<1>1. IInv => TypeOK
  BY DEF IInv
<1> QED BY InvariantHolds, <1>1, PTL

\* Whenever the user interface is free to start a run, close the device or
\* leave main, and no run is in progress, both threads have been joined.
THEOREM NoThreadLeft == Spec => []NoThreadOutsideRun
<1>1. IInv => NoThreadOutsideRun
  BY DEF IInv, ThreadsOK
<1> QED BY InvariantHolds, <1>1, PTL

\* A terminal state is never visible before the operation and the transfer
\* status that explain it, whatever the interleaving of the three stores with
\* the reader (acquisition_loop.cpp lines 457-474).
THEOREM FaultAlwaysReported == Spec => []FaultReported
<1>1. IInv => FaultReported
  BY DEF IInv, ReportOK
<1> QED BY InvariantHolds, <1>1, PTL

\* The processing thread never sleeps on a queue that holds a packet or has
\* been closed (acquisition_loop.cpp lines 296-302, 340-348 and 489).
THEOREM ConsumerNeverStuck == Spec => []ConsumerAwake
<1>1. IInv => ConsumerAwake
  BY DEF IInv
<1> QED BY InvariantHolds, <1>1, PTL

\* No frame mixes two captures, for every capture size and every pattern of
\* failing transfers (acquisition_loop.cpp lines 404-427 and 609-632).
THEOREM CapturesAreWhole == Spec => []WholeCaptures
<1>1. IInv => WholeCaptures
  <2> SUFFICES ASSUME IInv, NEW i \in 1 .. Len(Pipeline)
               PROVE  Whole(Pipeline[i])
    BY DEF WholeCaptures, Whole
  <2> DEFINE p == IF processingPc = "parse" THEN <<packet>> ELSE << >>
  <2>1. /\ rawPacketQueue.packets \in Seq(Frame)
        /\ waveformRingBuffer \in Seq(Frame)
        /\ latestWaveform \in Frame \cup {NoFrame}
        /\ packet \in Frame \cup {NoFrame}
    BY DEF IInv, TypeOK, SharedOK, ProcessingOK, UiOK, Queue
  <2>2. <<latestWaveform>> \in Seq(WholeFrames)
    BY <2>1 DEF IInv, CapturesOK, WholeFrames
  <2>3. waveformRingBuffer \in Seq(WholeFrames)
    BY <2>1, WholeSeq DEF IInv, CapturesOK
  <2>4. p \in Seq(WholeFrames)
    <3>1. CASE processingPc = "parse"
      <4>1. packet \in WholeFrames
        BY <2>1, <3>1 DEF IInv, CapturesOK, WholeFrames
      <4>2. p = <<packet>>
        BY <3>1
      <4> QED BY <4>1, <4>2
    <3>2. CASE processingPc # "parse"
      BY <3>2
    <3> QED BY <3>1, <3>2
  <2>5. rawPacketQueue.packets \in Seq(WholeFrames)
    BY <2>1, WholeSeq DEF IInv, CapturesOK
  <2>6. Pipeline = <<latestWaveform>> \o waveformRingBuffer \o p
                     \o rawPacketQueue.packets
    BY DEF Pipeline
  <2> HIDE DEF p
  <2>7. Pipeline \in Seq(WholeFrames)
    BY <2>2, <2>3, <2>4, <2>5, <2>6, ConcatSeq
  <2>8. Pipeline[i] \in WholeFrames
    BY <2>7
  <2> QED BY <2>8 DEF WholeFrames
<1> QED BY InvariantHolds, <1>1, PTL

\* Whatever either buffer drops, and whenever a run is stopped and another is
\* started, no frame overtakes another between the instrument and the screen
\* (acquisition_loop.cpp lines 270, 279, 418 and 489-500).
THEOREM PipelineInOrder == Spec => []PipelineOrdered
<1>1. IInv => PipelineOrdered
  <2> SUFFICES ASSUME IInv PROVE PipelineOrdered
    OBVIOUS
  <2> DEFINE S == Frame \cup {NoFrame}
             l == <<latestWaveform>>
             r == waveformRingBuffer
             p == IF processingPc = "parse" THEN <<packet>> ELSE << >>
             q == rawPacketQueue.packets
  <2>1. l \in Seq(S) /\ Ordered(l) /\ Elements(l) = Shown
    BY DEF IInv, TypeOK, UiOK, Ordered, Elements, Shown
  <2>2. r \in Seq(S) /\ Ordered(r) /\ Elements(r) = Decoded
    BY DEF IInv, TypeOK, SharedOK, OrderOK, Decoded
  <2>3. p \in Seq(S) /\ Ordered(p) /\ Elements(p) = Taken
    <3>1. CASE processingPc = "parse"
      <4>1. p = <<packet>> /\ packet \in S /\ Taken = {packet}
        BY <3>1 DEF IInv, TypeOK, ProcessingOK, Taken
      <4> HIDE DEF p
      <4>2. p \in Seq(S) /\ Len(p) = 1 /\ p[1] = packet
        BY <4>1
      <4> QED BY <4>1, <4>2 DEF Ordered, Elements
    <3>2. CASE processingPc # "parse"
      <4>1. p = << >> /\ Taken = {}
        BY <3>2 DEF Taken
      <4> QED BY <4>1 DEF Ordered, Elements
    <3> QED BY <3>1, <3>2
  <2>4. q \in Seq(S) /\ Ordered(q) /\ Elements(q) = Queued
    BY DEF IInv, TypeOK, SharedOK, Queue, OrderOK, Queued
  <2>5. /\ Precedes(Shown, Decoded)
        /\ Precedes(Shown \cup Decoded, Taken)
        /\ Precedes(Shown \cup Decoded \cup Taken, Queued)
    BY DEF IInv, OrderOK, Precedes
  <2>6. Pipeline = l \o r \o p \o q
    BY DEF Pipeline
  <2> HIDE DEF S, l, r, p, q
  <2>7. /\ l \o r \in Seq(S) /\ Ordered(l \o r)
        /\ Elements(l \o r) = Shown \cup Decoded
    BY <2>1, <2>2, <2>5, ConcatOrder, ConcatSeq
  <2>8. /\ l \o r \o p \in Seq(S) /\ Ordered(l \o r \o p)
        /\ Elements(l \o r \o p) = Shown \cup Decoded \cup Taken
    <3> DEFINE lr == l \o r
    <3> HIDE DEF lr
    <3>1. /\ lr \in Seq(S) /\ Ordered(lr)
          /\ Elements(lr) = Shown \cup Decoded
      BY <2>7 DEF lr
    <3>2. Precedes(Elements(lr), Elements(p))
      BY <2>3, <2>5, <3>1
    <3>3. lr \o p \in Seq(S)
      BY <2>3, <3>1, ConcatSeq
    <3>4. /\ Ordered(lr \o p)
          /\ Elements(lr \o p) = Elements(lr) \cup Elements(p)
      <4>1. /\ lr \in Seq(S) /\ Ordered(lr)
            /\ p \in Seq(S) /\ Ordered(p)
        BY <2>3, <3>1
      <4> QED BY ONLY <3>2, <4>1, ConcatOrder
    <3> QED BY <2>3, <3>1, <3>3, <3>4 DEF lr
  <2>9. Pipeline \in Seq(S) /\ Ordered(Pipeline)
    BY <2>4, <2>5, <2>6, <2>8, ConcatOrder, ConcatSeq
  <2>10. \A i \in 1 .. Len(Pipeline) - 1 :
           /\ i \in 1 .. Len(Pipeline) /\ i + 1 \in 1 .. Len(Pipeline)
           /\ i < i + 1
    BY <2>9
  <2> QED BY <2>9, <2>10 DEF Ordered, PipelineOrdered
<1> QED BY InvariantHolds, <1>1, PTL

\* The refinement: every step of the pipeline is a step of AcquisitionService
\* or leaves what the service shows alone.
LEMMA StepService ==
    IInv /\ IInv' /\ [Next]_vars => Service!Next \/ UNCHANGED Service!vars
<1> SUFFICES ASSUME IInv, IInv', [Next]_vars
             PROVE  Service!Next \/ UNCHANGED Service!vars
  OBVIOUS
<1> DEFINE live == workerPc # "none" \/ processingPc # "none"
           shown == [run |-> latestWaveform.run,
                     capture |-> latestWaveform.capture]
<1>1. ASSUME live' = live, status'.state = status.state,
             UNCHANGED <<run, latestWaveform>>
      PROVE  UNCHANGED Service!vars
  BY <1>1 DEF Service!vars
<1>2. status \in Status /\ status' \in Status
  BY DEF IInv, TypeOK, SharedOK
<1>3. Worker => workerPc # "none" /\ workerPc' # "none" /\ UNCHANGED ui
  BY WorkerAlone
<1>4. CASE StoreRunning \/ StoreFault
  <2>1. live /\ live' /\ UNCHANGED <<run, latestWaveform>>
    BY <1>3, <1>4 DEF Worker, ui
  <2>2. status.state \notin Terminal
    BY <1>4 DEF IInv, ReportOK, StoreRunning, StoreFault, Store
  <2>3. status'.state \in {"eRunning", "eRecovering"} \cup Terminal
    BY <1>2, <1>4 DEF StoreRunning, StoreFault, Store, Terminal, Status
  <2>4. Service!Report
    BY <2>1, <2>2, <2>3 DEF Service!Report, Service!Terminal, Terminal
  <2> QED BY <2>4 DEF Service!Next
<1>5. CASE Worker /\ status'.state = status.state
  <2>1. live' = live /\ UNCHANGED <<run, latestWaveform>>
    BY <1>3, <1>5 DEF ui
  <2> QED BY <1>1, <1>5, <2>1
<1>6. ASSUME Worker PROVE StoreRunning \/ StoreFault
                          \/ status'.state = status.state
  <2>1. CASE UNCHANGED status
    BY <2>1
  <2>2. CASE \/ ActOnReport \/ StoreDropped \/ StoreNone \/ StoreSuccess
             \/ StoreOperation \/ StoreTransfer
    BY <1>2, <2>2 DEF ActOnReport, StoreDropped, StoreNone, StoreSuccess,
                      StoreOperation, StoreTransfer, Store, Status
  <2>3. CASE \/ LoopTest \/ FunctionFails \/ Configured \/ Started
             \/ Polled \/ ReadDone \/ QueueCapture \/ Restarted
             \/ SleepEnds \/ CloseAtExit
    BY <2>1, <2>3 DEF LoopTest, FunctionFails, Configured, Started, Polled,
                      ReadDone, QueueCapture, Restarted, SleepEnds,
                      CloseAtExit, Succeeds, shared
  <2> QED BY <1>6, <2>2, <2>3 DEF Worker
<1>7. CASE WaitPop \/ SpuriousWakeUp \/ ParseAndStore
  <2>1. live /\ live'
    BY <1>7 DEF WaitPop, SpuriousWakeUp, ParseAndStore
  <2>2. UNCHANGED <<status, run, latestWaveform>>
    BY <1>7 DEF WaitPop, SpuriousWakeUp, ParseAndStore, shared, ui
  <2> QED BY <1>1, <2>1, <2>2
<1>8. CASE Start
  <2>1. ~live
    BY <1>8 DEF Start, IInv, ThreadsOK, NoThreadOutsideRun
  <2>2. live' /\ status'.state = "eRunning" /\ run' = run + 1
        /\ latestWaveform' = latestWaveform
    BY <1>8 DEF Start
  <2>3. Service!Start
    BY <2>1, <2>2 DEF Service!Start
  <2> QED BY <2>3 DEF Service!Next
<1>9. CASE CreateWorker
  <2>1. live /\ live'
    BY <1>9 DEF CreateWorker, WorkerGoto, IInv, ThreadsOK
  <2>2. UNCHANGED <<status, run, latestWaveform>>
    BY <1>9 DEF CreateWorker, shared
  <2> QED BY <1>1, <2>1, <2>2
<1>10. CASE GetLatestWaveform
  <2>1. live' = live /\ UNCHANGED <<status, run>>
    BY <1>10 DEF GetLatestWaveform, worker, processing
  <2>2. waveformRingBuffer \in Seq(Frame)
    BY DEF IInv, TypeOK, SharedOK
  <2>3. latestWaveform' \in Decoded /\ latestWaveform' \in Frame
    BY <1>10, <2>2 DEF GetLatestWaveform, Decoded, Elements
  <2>4. latestWaveform'.run = run /\ run \in Nat /\ run > 0
    BY <2>3 DEF IInv, OrderOK, Frame, TypeOK, UiOK
  <2>5. NotBefore(latestWaveform', latestWaveform)
    BY <2>3 DEF IInv, OrderOK, Precedes, Shown
  <2>6. latestWaveform.run = run
           => latestWaveform'.capture >= latestWaveform.capture
    BY <2>4, <2>5 DEF NotBefore
  <2>7. Service!Deliver
    BY <2>1, <2>4, <2>6 DEF Service!Deliver
  <2> QED BY <2>7 DEF Service!Next
<1>11. CASE StopRequest \/ FaultFound \/ CloseQueue
  <2>1. live' = live
    BY <1>11 DEF StopRequest, FaultFound, CloseQueue, Notify, worker,
                 processing
  <2>2. UNCHANGED <<status, run, latestWaveform>>
    BY <1>11 DEF StopRequest, FaultFound, CloseQueue, shared
  <2> QED BY <1>1, <2>1, <2>2
<1>12. CASE JoinWorker \/ JoinProcessing
  <2>1. UNCHANGED <<status, run, latestWaveform>>
    BY <1>12 DEF JoinWorker, JoinProcessing, shared
  <2>2. live' => live
    BY <1>12 DEF JoinWorker, JoinProcessing, WorkerGoto, processing, worker
  <2>3. CASE live' = live
    BY <1>1, <2>1, <2>3
  <2>4. CASE live /\ ~live'
    <3>1. Service!Join
      BY <2>1, <2>4 DEF Service!Join
    <3> QED BY <3>1 DEF Service!Next
  <2> QED BY <2>2, <2>3, <2>4
<1>13. CASE StopFinish
  <2>1. ~live /\ ~live' /\ UNCHANGED <<run, latestWaveform>>
    BY <1>13 DEF StopFinish, worker, processing, IInv, ThreadsOK
  <2>2. status'.state = "eStopped"
    BY <1>2, <1>13 DEF StopFinish, Status
  <2>3. Service!MarkStopped
    BY <2>1, <2>2 DEF Service!MarkStopped
  <2> QED BY <2>3 DEF Service!Next
<1>14. CASE UNCHANGED vars
  <2>1. live' = live /\ UNCHANGED <<status, run, latestWaveform>>
    BY <1>14 DEF vars, worker, processing, shared, ui
  <2> QED BY <1>1, <2>1
<1> QED BY <1>4, <1>5, <1>6, <1>7, <1>8, <1>9, <1>10, <1>11, <1>12, <1>13,
           <1>14
        DEF Next, UserInterface

\* The three threads together keep the promise AcquisitionService makes to the
\* user interface (acquisition_loop.h lines 98-137), for all constants.
THEOREM LoopImplementsService == Spec => ImplementsService
<1>1. Init => Service!Init
  BY DEF Init, Service!Init, NoFrame
<1>2. IInv /\ IInv' /\ [Next]_vars => [Service!Next]_Service!vars
  BY StepService
<1> QED BY InvariantHolds, <1>1, <1>2, PTL
        DEF Spec, ImplementsService, Service!Spec

-----------------------------------------------------------------------------
\* Joining ends.

\* What the user interface has done before it joins a thread: asked the worker
\* to stop, or seen that it gave up, and closed the queue.
JoinOK ==
    /\ uiPc \in {"stopClose", "stopJoinWorker"} => stopRequested
    /\ uiPc = "faultJoinWorker" => status.state \in Terminal
    /\ uiPc \in {"stopJoinWorker"} \cup JoinsProcessing
         => rawPacketQueue.closed

\* A closed queue stays closed, and nothing is added to it.
LEMMA WorkerKeepsClosed ==
    ASSUME Worker, rawPacketQueue.closed
    PROVE  rawPacketQueue'.closed
<1>1. CASE QueueCapture
  BY <1>1 DEF QueueCapture, Push
<1>2. CASE CloseAtExit
  BY <1>2 DEF CloseAtExit, Close
<1>3. CASE \/ LoopTest \/ FunctionFails \/ Configured \/ Started \/ Polled
           \/ ActOnReport \/ ReadDone \/ Restarted
  BY <1>3 DEF LoopTest, FunctionFails, Configured, Started, Polled,
              ActOnReport, ReadDone, Restarted, Succeeds, shared
<1>4. CASE \/ StoreDropped \/ StoreRunning \/ StoreNone \/ StoreSuccess
           \/ StoreOperation \/ StoreTransfer \/ StoreFault \/ SleepEnds
  BY <1>4 DEF StoreDropped, StoreRunning, StoreNone, StoreSuccess,
              StoreOperation, StoreTransfer, StoreFault, Store, SleepEnds,
              shared
<1> QED BY <1>1, <1>2, <1>3, <1>4 DEF Worker

\* A worker that has given up only closes the queue.
LEMMA TerminalWorker ==
    ASSUME IInv, Worker, status.state \in Terminal
    PROVE  CloseAtExit
<1>1. workerPc = "close"
  BY WorkerAlone DEF IInv, ReportOK, Worker, LoopTest, FunctionFails,
     Configured, Started, Polled, ReadDone, Restarted, Succeeds, ActOnReport,
     QueueCapture, StoreDropped, StoreRunning, StoreNone, StoreSuccess,
     StoreOperation, StoreTransfer, StoreFault, Store, SleepEnds, CloseAtExit,
     Functions
<1> QED BY <1>1 DEF Worker, LoopTest, FunctionFails, Configured, Started,
     Polled, ReadDone, Restarted, Succeeds, ActOnReport, QueueCapture,
     StoreDropped, StoreRunning, StoreNone, StoreSuccess, StoreOperation,
     StoreTransfer, StoreFault, Store, SleepEnds, Functions

LEMMA StepJoin == IInv /\ JoinOK /\ [Next]_vars => JoinOK'
<1> SUFFICES ASSUME IInv, JoinOK, [Next]_vars PROVE JoinOK'
  OBVIOUS
<1> USE DEF JoinsProcessing
<1>1. CASE Worker
  <2>1. UNCHANGED <<uiPc, stopRequested>>
    BY <1>1, WorkerAlone DEF ui
  <2>2. rawPacketQueue.closed => rawPacketQueue'.closed
    BY <1>1, WorkerKeepsClosed
  <2>3. status.state \in Terminal => UNCHANGED status
    BY <1>1, TerminalWorker DEF CloseAtExit
  <2> QED BY <2>1, <2>2, <2>3 DEF JoinOK
<1>2. CASE WaitPop \/ SpuriousWakeUp \/ ParseAndStore
  <2>1. UNCHANGED <<uiPc, stopRequested, status>>
    BY <1>2 DEF WaitPop, SpuriousWakeUp, ParseAndStore, ui, shared
  <2>2. rawPacketQueue'.closed = rawPacketQueue.closed
    BY <1>2 DEF WaitPop, SpuriousWakeUp, ParseAndStore, shared, Pop
  <2> QED BY <2>1, <2>2 DEF JoinOK
<1>3. CASE CloseQueue
  <2>1. rawPacketQueue'.closed /\ UNCHANGED stopRequested
    BY <1>3 DEF CloseQueue, Close
  <2>2. \/ uiPc = "stopClose" /\ uiPc' = "stopJoinWorker"
        \/ uiPc' = "faultJoinProcessing"
    BY <1>3 DEF CloseQueue, UiGoto
  <2> QED BY <2>1, <2>2 DEF JoinOK
<1>4. CASE JoinWorker
  <2>1. \/ uiPc = "stopJoinWorker" /\ uiPc' = "stopJoinProcessing"
        \/ uiPc' = "faultClose"
    BY <1>4 DEF JoinWorker, UiGoto, JoinsWorker
  <2>2. UNCHANGED rawPacketQueue
    BY <1>4 DEF JoinWorker, shared
  <2> QED BY <2>1, <2>2 DEF JoinOK
<1>5. CASE StopRequest \/ FaultFound
  BY <1>5 DEF StopRequest, FaultFound, UiGoto, JoinOK, shared
<1>6. CASE \/ Start \/ CreateWorker \/ GetLatestWaveform \/ JoinProcessing
           \/ StopFinish
  BY <1>6 DEF Start, CreateWorker, GetLatestWaveform, JoinProcessing,
              StopFinish, UiGoto, JoinOK, shared
<1>7. CASE UNCHANGED vars
  BY <1>7 DEF vars, shared, ui, JoinOK
<1> QED BY <1>1, <1>2, <1>3, <1>4, <1>5, <1>6, <1>7 DEF Next, UserInterface

\* Once it has been asked to stop, or has given up, every step of the worker
\* is one of the few that are left to it.
LEMMA WorkerDescends ==
    ASSUME Worker, stopRequested \/ CloseAtExit
    PROVE  WorkerStepsLeft' < WorkerStepsLeft
<1> USE DEF WorkerStepsLeft, WorkerGoto, Call
<1>1. CASE LoopTest
  BY <1>1 DEF LoopTest, CloseAtExit
<1>2. CASE FunctionFails
  BY <1>2 DEF FunctionFails, Functions
<1>3. CASE Configured \/ Started \/ Restarted
  BY <1>3 DEF Configured, Started, Restarted, Succeeds
<1>4. CASE Polled \/ ReadDone
  BY <1>4 DEF Polled, ReadDone, Succeeds
<1>5. CASE ActOnReport \/ QueueCapture
  BY <1>5 DEF ActOnReport, QueueCapture
<1>6. CASE StoreDropped \/ StoreRunning \/ StoreNone \/ StoreSuccess
  BY <1>6 DEF StoreDropped, StoreRunning, StoreNone, StoreSuccess, Store
<1>7. CASE StoreOperation \/ StoreTransfer \/ StoreFault
  BY <1>7 DEF StoreOperation, StoreTransfer, StoreFault, Store
<1>8. CASE SleepEnds \/ CloseAtExit
  BY <1>8 DEF SleepEnds, CloseAtExit
<1> QED BY <1>1, <1>2, <1>3, <1>4, <1>5, <1>6, <1>7, <1>8 DEF Worker

\* Every step of the consumer of a closed queue brings its end nearer.
LEMMA ConsumerDescends ==
    ASSUME IInv, rawPacketQueue.closed,
           WaitPop \/ SpuriousWakeUp \/ ParseAndStore
    PROVE  ConsumerStepsLeft' < ConsumerStepsLeft
<1> DEFINE n == Len(rawPacketQueue.packets)
<1>1. rawPacketQueue.packets \in Seq(Frame) /\ n \in Nat
  BY DEF IInv, TypeOK, SharedOK, Queue
<1>2. ~SpuriousWakeUp
  BY DEF IInv, ConsumerAwake, CanReturn, SpuriousWakeUp
<1>3. CASE /\ WaitPop
           /\ rawPacketQueue.packets # << >>
           /\ rawPacketQueue' = Pop(rawPacketQueue)
           /\ processingPc' = "parse"
  <2>1. Len(rawPacketQueue'.packets) = n - 1
    BY <1>1, <1>3 DEF Pop
  <2>2. processingPc \in {"outside", "notified"}
    BY <1>3 DEF WaitPop
  <2> HIDE DEF n
  <2>3. ConsumerStepsLeft = 2 * n + 2
    BY <1>1, <2>2 DEF ConsumerStepsLeft, n
  <2>4. ConsumerStepsLeft' = 2 * (n - 1) + 3
    BY <1>3, <2>1 DEF ConsumerStepsLeft
  <2> QED BY <1>1, <2>3, <2>4
<1>4. CASE /\ processingPc \in {"outside", "notified"}
           /\ processingPc' = "done"
           /\ UNCHANGED rawPacketQueue
  BY <1>1, <1>4 DEF ConsumerStepsLeft
<1>5. CASE ParseAndStore
  BY <1>1, <1>5 DEF ParseAndStore, ConsumerStepsLeft
<1>6. WaitPop => \/ /\ rawPacketQueue.packets # << >>
                    /\ rawPacketQueue' = Pop(rawPacketQueue)
                    /\ processingPc' = "parse"
                 \/ /\ processingPc \in {"outside", "notified"}
                    /\ processingPc' = "done"
                    /\ UNCHANGED rawPacketQueue
  BY DEF WaitPop, CanReturn
<1> QED BY <1>2, <1>3, <1>4, <1>5, <1>6

LEMMA StepWorkerNearer ==
    IInv /\ JoinOK /\ [Next]_vars => WorkerComesNearer
<1> SUFFICES ASSUME IInv, JoinOK, [Next]_vars, uiPc \in JoinsWorker
             PROVE  \/ WorkerStepsLeft' < WorkerStepsLeft
                    \/ UNCHANGED workerPc
  BY DEF WorkerComesNearer
<1>1. CASE Worker
  <2>1. stopRequested \/ CloseAtExit
    BY <1>1, TerminalWorker DEF JoinOK, JoinsWorker
  <2> QED BY <1>1, <2>1, WorkerDescends
<1>2. CASE JoinWorker
  <2>1. workerPc = "none" => UNCHANGED workerPc
    BY <1>2 DEF JoinWorker, WorkerGoto
  <2>2. workerPc = "done" => WorkerStepsLeft = 1 /\ WorkerStepsLeft' = 0
    BY <1>2 DEF JoinWorker, WorkerGoto, WorkerStepsLeft
  <2> QED BY <1>2, <2>1, <2>2 DEF JoinWorker
<1>3. CASE WaitPop \/ SpuriousWakeUp \/ ParseAndStore
  BY <1>3 DEF WaitPop, SpuriousWakeUp, ParseAndStore, worker
<1>4. CASE \/ Start \/ CreateWorker \/ GetLatestWaveform \/ StopRequest
           \/ FaultFound \/ CloseQueue \/ JoinProcessing \/ StopFinish
  BY <1>4 DEF Start, CreateWorker, GetLatestWaveform, StopRequest, FaultFound,
              CloseQueue, JoinProcessing, StopFinish, JoinsWorker
<1>5. CASE UNCHANGED vars
  BY <1>5 DEF vars, worker
<1> QED BY <1>1, <1>2, <1>3, <1>4, <1>5 DEF Next, UserInterface

LEMMA StepConsumerNearer ==
    IInv /\ JoinOK /\ [Next]_vars => ConsumerComesNearer
<1> SUFFICES ASSUME IInv, JoinOK, [Next]_vars, uiPc \in JoinsProcessing
             PROVE  \/ ConsumerStepsLeft' < ConsumerStepsLeft
                    \/ UNCHANGED <<processingPc, rawPacketQueue>>
  BY DEF ConsumerComesNearer
<1>1. rawPacketQueue.closed
  BY DEF JoinOK
<1>2. ~Worker
  BY WorkerAlone DEF IInv, ThreadsOK, JoinsProcessing
<1>3. CASE WaitPop \/ SpuriousWakeUp \/ ParseAndStore
  BY <1>1, <1>3, ConsumerDescends
<1>4. CASE JoinProcessing
  <2>1. UNCHANGED rawPacketQueue /\ processingPc' = "none"
        /\ processingPc \in {"none", "done"}
    BY <1>4 DEF JoinProcessing, shared
  <2>2. Len(rawPacketQueue.packets) \in Nat
    BY DEF IInv, TypeOK, SharedOK, Queue
  <2>3. processingPc = "done" => ConsumerStepsLeft' < ConsumerStepsLeft
    BY <2>1, <2>2 DEF ConsumerStepsLeft
  <2> QED BY <2>1, <2>3
<1>5. CASE \/ Start \/ CreateWorker \/ GetLatestWaveform \/ StopRequest
           \/ FaultFound \/ CloseQueue \/ JoinWorker \/ StopFinish
  BY <1>5 DEF Start, CreateWorker, GetLatestWaveform, StopRequest, FaultFound,
              CloseQueue, JoinWorker, StopFinish, JoinsProcessing
<1>6. CASE UNCHANGED vars
  BY <1>6 DEF vars, processing, shared
<1> QED BY <1>2, <1>3, <1>4, <1>5, <1>6 DEF Next, UserInterface

\* Whatever the three threads and the instrument do, a join waits for no more
\* steps of its thread than were left when it began: at most thirteen of the
\* worker's, and two for each packet and three more of the consumer's
\* (acquisition_loop.cpp lines 296-302, 340-348, 374-478 and 484-503).
THEOREM JoinsAdvance == Spec => JoinAdvances
<1>1. Init => JoinOK
  BY DEF Init, JoinOK, JoinsProcessing
<1>2. IInv /\ JoinOK /\ [Next]_vars => JoinOK'
  BY StepJoin
<1>3. IInv /\ JoinOK /\ [Next]_vars
        => [WorkerComesNearer /\ ConsumerComesNearer]_vars
  BY StepWorkerNearer, StepConsumerNearer
<1> QED BY InvariantHolds, <1>1, <1>2, <1>3, PTL DEF Spec, JoinAdvances
=============================================================================
