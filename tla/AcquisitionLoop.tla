--------------------------- MODULE AcquisitionLoop ---------------------------
(***************************************************************************)
(* The capture pipeline of capture/src/acquisition_loop.cpp: the worker    *)
(* thread (pollCaptureState) that drives the instrument over USB, the      *)
(* processing thread (processRawPackets) that decodes what it queues, and  *)
(* the user-interface thread that starts, stops, joins and reads them.     *)
(*                                                                         *)
(* One step is one store to a shared atomic, one call on a queue (atomic   *)
(* under its mutex), one thread operation, or the USB transfers of one     *)
(* function of the worker: they touch only the worker's locals and the     *)
(* instrument, so that no other thread sees the states between them, and   *)
(* the step may end at any of them.  The content of a capture is its       *)
(* number on the instrument, kept for every bulk read of it, so that a     *)
(* buffer put together from two captures shows.                            *)
(***************************************************************************)
EXTENDS UsbTransactions, UsbTransfers, BoundedBuffer

CONSTANTS
    QueueCapacity,            \* rawPacketQueue{8U}
    RingCapacity,             \* kWaveformRingBufferCapacity, 4
    MaxConsecutiveFailures,   \* kMaxConsecutiveFailures, 3
    ForceRestartThreshold,    \* kForceRestartThreshold, 3
    TransferFailure,          \* the failing values of EUsbTransferStatus
    MaxRuns,                  \* bound on the runs started
    MaxCaptures,              \* bound: capture MaxCaptures never completes
    MaxFaults                 \* bound on the calls that fail

ASSUME AcquisitionAssumption ==
    /\ QueueCapacity \in Nat \ {0}
    /\ RingCapacity \in Nat \ {0}
    /\ MaxConsecutiveFailures \in Nat \ {0}
    /\ ForceRestartThreshold \in Nat \ {0}
    /\ "eNoDevice" \in TransferFailure
    /\ "eSuccess" \notin TransferFailure
    /\ MaxRuns \in Nat
    /\ MaxCaptures \in Nat
    /\ MaxFaults \in Nat

\* What a transfer of the worker can fail with: one attempt each.
kTransferAttempts == 1
ASSUME TransferAssumption ==
    TransferFailure \subseteq Outcomes(kTransferAttempts, 1, 1) \ {"eSuccess"}

Frame == [run     : Nat \ {0},
          capture : Nat,
          data    : [1 .. DataPackets -> Nat]]

NoFrame == [run |-> 0, capture |-> 0, data |-> [i \in 1 .. DataPackets |-> 0]]

(***************************************************************************)
(* The two buffers are the sequences RawPacketQueue and WaveformRingBuffer *)
(* implement (their theorems say so for every capacity); these are their   *)
(* member functions, each a critical section of the buffer's mutex.        *)
(***************************************************************************)
EmptyQueue == [packets |-> << >>, dropped |-> 0, closed |-> FALSE]

\* MUTANT of Push: the overflow test is missing.
PushUnbounded(q, p) ==
    IF q.closed THEN q
    ELSE [packets |-> Append(q.packets, p), dropped |-> q.dropped,
          closed |-> FALSE]

Push(q, p) ==
    IF q.closed THEN q
    ELSE [packets |-> Insert(q.packets, p, QueueCapacity),
          dropped |-> IF Len(q.packets) < QueueCapacity THEN q.dropped
                                                        ELSE q.dropped + 1,
          closed  |-> FALSE]

Close(q) == [packets |-> q.packets, dropped |-> q.dropped, closed |-> TRUE]

Pop(q) == [packets |-> Tail(q.packets), dropped |-> q.dropped,
           closed |-> q.closed]

\* MUTANT of CanReturn: closing the queue does not release its consumer.
CanReturnAPacket(q) == q.packets # << >>

CanReturn(q) == q.packets # << >> \/ q.closed

VARIABLES
    \* SAcquisitionLoop, shared by the three threads
    stopRequested, rawPacketQueue, waveformRingBuffer, status,
    \* locals of pollCaptureState
    workerPc,               \* where the worker is, "none" when not joinable
    transferResult, failedOperation,
    consecutiveFailures, captureConfigured, captureStartRequired,
    emptyCaptureCount, captureState, captureData,
    \* locals of processRawPackets
    processingPc, packet,
    \* the user-interface thread
    uiPc, acquisitionRunning, latestWaveform,
    run,                    \* number of the current run, a ghost
    \* the instrument and its cable
    deviceCapture,          \* number of capture-start commands it received
    faults                  \* number of calls that have failed, a ghost

shared == <<stopRequested, rawPacketQueue, waveformRingBuffer, status>>
locals == <<transferResult, failedOperation,
            consecutiveFailures, captureConfigured, captureStartRequired,
            emptyCaptureCount, captureState, captureData>>
worker == <<workerPc, locals>>
processing == <<processingPc, packet>>
ui == <<uiPc, acquisitionRunning, latestWaveform, run>>
device == <<deviceCapture, faults>>
vars == <<shared, worker, processing, ui, device>>

Terminal == {"eDeviceLost", "eFailed"}
AcquisitionState == {"eStopped", "eRunning", "eRecovering"} \cup Terminal
TransferStatus == {"eSuccess"} \cup TransferFailure
CaptureReport == {"complete", "empty", "other"}

\* SAcquisitionStatus; lastCaptureState is "none" for its initial -1.
Status == [droppedPacketCount : Nat,
           lastCaptureState   : {"none"} \cup CaptureReport,
           state              : AcquisitionState,
           failedOperation    : {"eNone"} \cup Operations,
           lastTransferStatus : TransferStatus]

\* The functions of the worker that talk to the instrument, restartCapture
\* once for its first call and once for the others.
Transfers == [configure |-> ConfigureCapture,
              start     |-> RestartCapture,
              poll      |-> ExecutePollingTransaction,
              read      |-> ReadCaptureData,
              restart   |-> RestartCapture]

Functions == {"configure", "start", "poll", "read", "restart"}

WorkerPlace == {"none", "loop", "polled", "push", "storeDropped",
                "storeRunning", "storeNone", "storeSuccess",
                "storeOperation", "storeTransfer", "storeFault", "sleep",
                "close", "done"} \cup Functions

Queue == [packets : Seq(Frame), dropped : Nat, closed : BOOLEAN]

SharedOK ==
    /\ stopRequested \in BOOLEAN
    /\ rawPacketQueue \in Queue
    /\ Len(rawPacketQueue.packets) <= QueueCapacity
    /\ waveformRingBuffer \in Seq(Frame)
    /\ Len(waveformRingBuffer) <= RingCapacity
    /\ status \in Status

LocalsOK ==
    /\ transferResult \in TransferStatus
    /\ failedOperation \in {"eNone"} \cup Operations
    /\ consecutiveFailures \in 0 .. MaxConsecutiveFailures
    /\ captureConfigured \in BOOLEAN
    /\ captureStartRequired \in BOOLEAN
    /\ emptyCaptureCount \in 0 .. ForceRestartThreshold - 1
    /\ captureState \in [report : CaptureReport, capture : Nat]
    /\ captureData \in [1 .. DataPackets -> Nat]

ProcessingOK ==
    /\ processingPc \in {"none", "outside", "waiting", "notified", "parse",
                         "done"}
    /\ packet \in Frame \cup {NoFrame}

UiOK ==
    /\ uiPc \in {"idle", "create", "stopClose", "stopJoinWorker",
                 "stopJoinProcessing", "stopFinish", "faultJoinWorker",
                 "faultClose", "faultJoinProcessing"}
    /\ acquisitionRunning \in BOOLEAN
    /\ latestWaveform \in Frame \cup {NoFrame}
    /\ run \in 0 .. MaxRuns

DeviceOK == deviceCapture \in 0 .. MaxCaptures /\ faults \in 0 .. MaxFaults

TypeOK == /\ SharedOK
          /\ workerPc \in WorkerPlace /\ LocalsOK
          /\ ProcessingOK
          /\ UiOK
          /\ DeviceOK

\* The locals pollCaptureState starts from; they end with the function.
FreshLocals ==
    /\ transferResult' = "eSuccess"
    /\ failedOperation' = "eNone"
    /\ consecutiveFailures' = 0
    /\ captureConfigured' = FALSE
    /\ captureStartRequired' = TRUE
    /\ emptyCaptureCount' = 0
    /\ captureState' = [report |-> "empty", capture |-> 0]
    /\ captureData' = [i \in 1 .. DataPackets |-> 0]

Init ==
    /\ stopRequested = FALSE
    /\ rawPacketQueue = EmptyQueue
    /\ waveformRingBuffer = << >>
    /\ status = [droppedPacketCount |-> 0, lastCaptureState |-> "none",
                 state |-> "eStopped", failedOperation |-> "eNone",
                 lastTransferStatus |-> "eSuccess"]
    /\ workerPc = "none"
    /\ transferResult = "eSuccess"
    /\ failedOperation = "eNone"
    /\ consecutiveFailures = 0
    /\ captureConfigured = FALSE
    /\ captureStartRequired = TRUE
    /\ emptyCaptureCount = 0
    /\ captureState = [report |-> "empty", capture |-> 0]
    /\ captureData = [i \in 1 .. DataPackets |-> 0]
    /\ processingPc = "none"
    /\ packet = NoFrame
    /\ uiPc = "idle"
    /\ acquisitionRunning = FALSE
    /\ latestWaveform = NoFrame
    /\ run = 0
    /\ deviceCapture = 0
    /\ faults = 0

-----------------------------------------------------------------------------
\* MUTANT of Notify: the condition variable is not signalled.
NotifyNobody == UNCHANGED processingPc

\* notify_one and notify_all: the processing thread is the only one to sleep.
Notify == processingPc' = IF processingPc = "waiting" THEN "notified"
                                                      ELSE processingPc

WorkerGoto(pc) == workerPc' = pc

\* Every function begins with a begin-command transfer.
Call(fn) == WorkerGoto(fn) /\ failedOperation' = "eBeginCmd"

(***************************************************************************)
(* The worker: pollCaptureState.                                           *)
(***************************************************************************)
\* MUTANT of LoopTest: the worker looks at stopRequested only until it is
\* configured.
LoopTestUntilConfigured ==
    /\ workerPc = "loop"
    /\ \/ /\ stopRequested /\ ~captureConfigured
          /\ WorkerGoto("close") /\ UNCHANGED failedOperation
       \/ ~stopRequested /\ ~captureConfigured /\ Call("configure")
       \/ captureConfigured /\ captureStartRequired /\ Call("start")
       \/ captureConfigured /\ ~captureStartRequired /\ Call("poll")
    /\ UNCHANGED <<shared, transferResult, consecutiveFailures,
                   captureConfigured, captureStartRequired, emptyCaptureCount,
                   captureState, captureData, processing, ui, device>>

LoopTest ==
    /\ workerPc = "loop"
    /\ \/ stopRequested /\ WorkerGoto("close") /\ UNCHANGED failedOperation
       \/ ~stopRequested /\ ~captureConfigured /\ Call("configure")
       \/ /\ ~stopRequested /\ captureConfigured /\ captureStartRequired
          /\ Call("start")
       \/ /\ ~stopRequested /\ captureConfigured /\ ~captureStartRequired
          /\ Call("poll")
    /\ UNCHANGED <<shared, transferResult, consecutiveFailures,
                   captureConfigured, captureStartRequired, emptyCaptureCount,
                   captureState, captureData, processing, ui, device>>

\* The first n transfers of function fn have reached the instrument: a
\* capture-start begins a new capture, the data reads at the end of
\* readCaptureData fill captureData from the front.
Reached(fn, n) ==
    /\ deviceCapture' =
         IF /\ deviceCapture < MaxCaptures
            /\ \E i \in 1 .. n : Transfers[fn][i] = "eCaptureStartCmd"
         THEN deviceCapture + 1 ELSE deviceCapture
    /\ captureData' =
         [p \in 1 .. DataPackets |->
            IF fn = "read" /\ n >= Len(ReadCaptureData) - DataPackets + p
            THEN deviceCapture ELSE captureData[p]]

Succeeds(fn) ==
    /\ workerPc = fn
    /\ Reached(fn, Len(Transfers[fn]))
    /\ transferResult' = "eSuccess"
    /\ failedOperation' = IF fn \in {"start", "restart"}
                          THEN "eForceTriggerCmd" ELSE "eNone"
    /\ UNCHANGED <<shared, consecutiveFailures, emptyCaptureCount,
                   processing, ui, faults>>

\* MUTANT of FunctionFails: a capture is queued whatever its reads returned.
FailedReadIsQueued ==
    /\ workerPc \in Functions
    /\ faults < MaxFaults
    /\ faults' = faults + 1
    /\ \E n \in 1 .. Len(Transfers[workerPc]) :
         /\ Reached(workerPc, n) \/ Reached(workerPc, n - 1)
         /\ failedOperation' = Transfers[workerPc][n]
    /\ transferResult' \in TransferFailure
    /\ WorkerGoto(IF workerPc = "read" THEN "push" ELSE "storeOperation")
    /\ UNCHANGED <<shared, consecutiveFailures, captureConfigured,
                   captureStartRequired, emptyCaptureCount, captureState,
                   processing, ui>>

\* Transfer n fails and is the function's last; one reported as failed may
\* have reached the instrument all the same.
FunctionFails ==
    /\ workerPc \in Functions
    /\ faults < MaxFaults
    /\ faults' = faults + 1
    /\ \E n \in 1 .. Len(Transfers[workerPc]) :
         /\ Reached(workerPc, n) \/ Reached(workerPc, n - 1)
         /\ failedOperation' = Transfers[workerPc][n]
    /\ transferResult' \in TransferFailure
    /\ WorkerGoto("storeOperation")
    /\ UNCHANGED <<shared, consecutiveFailures, captureConfigured,
                   captureStartRequired, emptyCaptureCount, captureState,
                   processing, ui>>

Configured ==
    /\ Succeeds("configure")
    /\ captureConfigured' = TRUE
    /\ WorkerGoto("storeDropped")
    /\ UNCHANGED <<captureStartRequired, captureState>>

Started ==
    /\ Succeeds("start")
    /\ captureStartRequired' = FALSE
    /\ WorkerGoto("storeDropped")
    /\ UNCHANGED <<captureConfigured, captureState>>

Restarted ==
    /\ Succeeds("restart")
    /\ WorkerGoto("storeDropped")
    /\ UNCHANGED <<captureConfigured, captureStartRequired, captureState>>

Reportable == IF deviceCapture < MaxCaptures THEN CaptureReport
                                             ELSE CaptureReport \ {"complete"}

\* A poll that succeeds has the four bytes parseCaptureStateResponse needs.
Polled ==
    /\ Succeeds("poll")
    /\ \E r \in Reportable :
         captureState' = [report |-> r, capture |-> deviceCapture]
    /\ WorkerGoto("polled")
    /\ UNCHANGED <<captureConfigured, captureStartRequired>>

\* MUTANT of ActOnReport: every empty answer starts the count over.
EmptyIsNotCounted ==
    /\ workerPc = "polled"
    /\ status' = [status EXCEPT !.lastCaptureState = captureState.report]
    /\ emptyCaptureCount' = 0
    /\ IF captureState.report = "complete"
       THEN Call("read")
       ELSE WorkerGoto("storeDropped") /\ UNCHANGED failedOperation
    /\ UNCHANGED <<stopRequested, rawPacketQueue, waveformRingBuffer,
                   transferResult, consecutiveFailures, captureConfigured,
                   captureStartRequired, captureState, captureData,
                   processing, ui, device>>

\* Act on the reported capture state.
ActOnReport ==
    /\ workerPc = "polled"
    /\ status' = [status EXCEPT !.lastCaptureState = captureState.report]
    /\ \/ /\ captureState.report = "complete"
          /\ emptyCaptureCount' = 0
          /\ Call("read")
       \/ /\ captureState.report = "empty"
          /\ emptyCaptureCount + 1 >= ForceRestartThreshold
          /\ emptyCaptureCount' = 0
          /\ Call("restart")
       \/ /\ captureState.report = "empty"
          /\ emptyCaptureCount + 1 < ForceRestartThreshold
          /\ emptyCaptureCount' = emptyCaptureCount + 1
          /\ WorkerGoto("storeDropped")
          /\ UNCHANGED failedOperation
       \/ /\ captureState.report = "other"
          /\ emptyCaptureCount' = 0
          /\ WorkerGoto("storeDropped")
          /\ UNCHANGED failedOperation
    /\ UNCHANGED <<stopRequested, rawPacketQueue, waveformRingBuffer,
                   transferResult, consecutiveFailures, captureConfigured,
                   captureStartRequired, captureState, captureData,
                   processing, ui, device>>

ReadDone ==
    /\ Succeeds("read")
    /\ WorkerGoto("push")
    /\ UNCHANGED <<captureConfigured, captureStartRequired, captureState>>

Captured == [run |-> run, capture |-> captureState.capture,
             data |-> captureData]

\* Queue the capture, then start the next one whether or not it was taken.
QueueCapture ==
    /\ workerPc = "push"
    /\ rawPacketQueue' = Push(rawPacketQueue, Captured)
    /\ IF rawPacketQueue.closed THEN UNCHANGED processingPc ELSE Notify
    /\ Call("restart")
    /\ UNCHANGED <<stopRequested, waveformRingBuffer, status, transferResult,
                   consecutiveFailures, captureConfigured,
                   captureStartRequired, emptyCaptureCount, captureState,
                   captureData, packet, ui, device>>

\* The stores that follow a poll cycle, one atomic at a time.
Store(from, field, value, to) ==
    /\ workerPc = from
    /\ status' = [status EXCEPT ![field] = value]
    /\ WorkerGoto(to)
    /\ UNCHANGED <<stopRequested, rawPacketQueue, waveformRingBuffer,
                   transferResult, failedOperation, captureConfigured,
                   captureStartRequired, emptyCaptureCount, captureState,
                   captureData, processing, ui, device>>

StoreDropped ==
    /\ Store("storeDropped", "droppedPacketCount",
             rawPacketQueue.dropped, "storeRunning")
    /\ UNCHANGED consecutiveFailures

StoreRunning ==
    /\ Store("storeRunning", "state", "eRunning", "storeNone")
    /\ UNCHANGED consecutiveFailures

StoreNone ==
    /\ Store("storeNone", "failedOperation", "eNone", "storeSuccess")
    /\ UNCHANGED consecutiveFailures

StoreSuccess ==
    /\ Store("storeSuccess", "lastTransferStatus", "eSuccess", "sleep")
    /\ consecutiveFailures' = 0

\* MUTANT of StoreOperation: the transfer status is not stored.
StoreOperationOnly ==
    /\ Store("storeOperation", "failedOperation", failedOperation,
             "storeFault")
    /\ consecutiveFailures' = consecutiveFailures + 1

StoreOperation ==
    /\ Store("storeOperation", "failedOperation", failedOperation,
             "storeTransfer")
    /\ UNCHANGED consecutiveFailures

StoreTransfer ==
    /\ Store("storeTransfer", "lastTransferStatus", transferResult,
             "storeFault")
    /\ consecutiveFailures' = consecutiveFailures + 1

\* MUTANT of StoreFault: the loop goes on after the last failure allowed.
StoreFaultWithoutBreak ==
    /\ \/ /\ transferResult = "eNoDevice"
          /\ Store("storeFault", "state", "eDeviceLost", "close")
       \/ /\ transferResult # "eNoDevice"
          /\ Store("storeFault", "state",
                   IF consecutiveFailures >= MaxConsecutiveFailures
                   THEN "eFailed" ELSE "eRecovering", "sleep")
    /\ UNCHANGED consecutiveFailures

StoreFault ==
    /\ \/ /\ transferResult = "eNoDevice"
          /\ Store("storeFault", "state", "eDeviceLost", "close")
       \/ /\ transferResult # "eNoDevice"
          /\ consecutiveFailures >= MaxConsecutiveFailures
          /\ Store("storeFault", "state", "eFailed", "close")
       \/ /\ transferResult # "eNoDevice"
          /\ consecutiveFailures < MaxConsecutiveFailures
          /\ Store("storeFault", "state", "eRecovering", "sleep")
    /\ UNCHANGED consecutiveFailures

SleepEnds ==
    /\ workerPc = "sleep"
    /\ WorkerGoto("loop")
    /\ UNCHANGED <<shared, locals, processing, ui, device>>

CloseAtExit ==
    /\ workerPc = "close"
    /\ rawPacketQueue' = Close(rawPacketQueue)
    /\ Notify
    /\ WorkerGoto("done")
    /\ FreshLocals
    /\ UNCHANGED <<stopRequested, waveformRingBuffer, status, packet, ui,
                   device>>

Worker ==
    \/ LoopTest \/ FunctionFails
    \/ Configured \/ Started \/ Polled \/ ActOnReport
    \/ ReadDone \/ QueueCapture \/ Restarted
    \/ StoreDropped \/ StoreRunning \/ StoreNone \/ StoreSuccess
    \/ StoreOperation \/ StoreTransfer \/ StoreFault
    \/ SleepEnds \/ CloseAtExit

(***************************************************************************)
(* The consumer: processRawPackets.                                        *)
(***************************************************************************)
WaitPop ==
    /\ processingPc \in {"outside", "notified"}
    /\ \/ /\ ~CanReturn(rawPacketQueue)
          /\ processingPc' = "waiting"
          /\ UNCHANGED <<packet, rawPacketQueue>>
       \/ /\ rawPacketQueue.packets # << >>
          /\ packet' = Head(rawPacketQueue.packets)
          /\ rawPacketQueue' = Pop(rawPacketQueue)
          /\ processingPc' = "parse"
       \/ /\ rawPacketQueue.packets = << >> /\ rawPacketQueue.closed
          /\ processingPc' = "done"
          /\ UNCHANGED <<packet, rawPacketQueue>>
    /\ UNCHANGED <<stopRequested, waveformRingBuffer, status, worker, ui,
                   device>>

SpuriousWakeUp ==
    /\ processingPc = "waiting"
    /\ processingPc' = "notified"
    /\ UNCHANGED <<shared, worker, packet, ui, device>>

\* A queued packet always has the length of a whole capture, so that
\* parseInterleavedWaveformSamples accepts it.
ParseAndStore ==
    /\ processingPc = "parse"
    /\ waveformRingBuffer' = Insert(waveformRingBuffer, packet, RingCapacity)
    /\ processingPc' = "outside"
    /\ packet' = NoFrame
    /\ UNCHANGED <<stopRequested, rawPacketQueue, status, worker, ui,
                   device>>

(***************************************************************************)
(* The user interface's calls.                                             *)
(***************************************************************************)
UiGoto(pc) == uiPc' = pc

\* startAcquisitionLoop up to the creation of the processing thread ...
Start ==
    /\ uiPc = "idle"
    /\ ~acquisitionRunning
    /\ run < MaxRuns
    /\ run' = run + 1
    /\ stopRequested' = FALSE
    /\ rawPacketQueue' = EmptyQueue
    /\ status' = [droppedPacketCount |-> 0, lastCaptureState |-> "none",
                  state |-> "eRunning", failedOperation |-> "eNone",
                  lastTransferStatus |-> "eSuccess"]
    /\ waveformRingBuffer' = << >>
    /\ processingPc' = "outside"
    /\ packet' = NoFrame
    /\ UiGoto("create")
    /\ UNCHANGED <<worker, acquisitionRunning, latestWaveform, device>>

\* ... and the creation of the worker.
CreateWorker ==
    /\ uiPc = "create"
    /\ WorkerGoto("loop")
    /\ acquisitionRunning' = TRUE
    /\ UiGoto("idle")
    /\ UNCHANGED <<shared, locals, processing, latestWaveform, run, device>>

\* MUTANT of GetLatestWaveform: the frames older than the latest stay.
GetLatestKeepsOlder ==
    /\ uiPc = "idle"
    /\ waveformRingBuffer # << >>
    /\ latestWaveform' = waveformRingBuffer[Len(waveformRingBuffer)]
    /\ waveformRingBuffer' =
         SubSeq(waveformRingBuffer, 1, Len(waveformRingBuffer) - 1)
    /\ UNCHANGED <<stopRequested, rawPacketQueue, status, worker, processing,
                   uiPc, acquisitionRunning, run, device>>

GetLatestWaveform ==
    /\ uiPc = "idle"
    /\ waveformRingBuffer # << >>
    /\ latestWaveform' = waveformRingBuffer[Len(waveformRingBuffer)]
    /\ waveformRingBuffer' = << >>
    /\ UNCHANGED <<stopRequested, rawPacketQueue, status, worker, processing,
                   uiPc, acquisitionRunning, run, device>>

\* stopAcquisitionLoop, which the Stop and Disconnect buttons, demo mode and
\* the shutdown call, whether or not a run is in progress.
StopRequest ==
    /\ uiPc = "idle"
    /\ stopRequested' = TRUE
    /\ UiGoto("stopClose")
    /\ UNCHANGED <<rawPacketQueue, waveformRingBuffer, status, worker,
                   processing, acquisitionRunning, latestWaveform, run,
                   device>>

\* MUTANT of FaultFound: eFailed is not taken for the end of a run.
OnlyLossIsFound ==
    /\ uiPc = "idle"
    /\ acquisitionRunning
    /\ status.state = "eDeviceLost"
    /\ UiGoto("faultJoinWorker")
    /\ UNCHANGED <<shared, worker, processing, acquisitionRunning,
                   latestWaveform, run, device>>

\* joinFinishedAcquisitionLoop, entered from handleAcquisitionFault.
FaultFound ==
    /\ uiPc = "idle"
    /\ acquisitionRunning
    /\ status.state \in Terminal
    /\ UiGoto("faultJoinWorker")
    /\ UNCHANGED <<shared, worker, processing, acquisitionRunning,
                   latestWaveform, run, device>>

CloseQueue ==
    /\ uiPc \in {"stopClose", "faultClose"}
    /\ rawPacketQueue' = Close(rawPacketQueue)
    /\ Notify
    /\ UiGoto(IF uiPc = "stopClose" THEN "stopJoinWorker"
                                    ELSE "faultJoinProcessing")
    /\ UNCHANGED <<stopRequested, waveformRingBuffer, status, worker, packet,
                   acquisitionRunning, latestWaveform, run, device>>

\* MUTANT of JoinWorker: after a fault only the worker is joined.
JoinWorkerAlone ==
    /\ uiPc \in {"stopJoinWorker", "faultJoinWorker"}
    /\ workerPc \in {"none", "done"}
    /\ WorkerGoto("none")
    /\ IF uiPc = "stopJoinWorker"
       THEN UiGoto("stopJoinProcessing") /\ UNCHANGED acquisitionRunning
       ELSE UiGoto("idle") /\ acquisitionRunning' = FALSE
    /\ UNCHANGED <<shared, locals, processing, latestWaveform, run, device>>

\* A join returns once the thread has ended; an unjoinable one is skipped.
JoinWorker ==
    /\ uiPc \in {"stopJoinWorker", "faultJoinWorker"}
    /\ workerPc \in {"none", "done"}
    /\ WorkerGoto("none")
    /\ UiGoto(IF uiPc = "stopJoinWorker" THEN "stopJoinProcessing"
                                         ELSE "faultClose")
    /\ UNCHANGED <<shared, locals, processing, acquisitionRunning,
                   latestWaveform, run, device>>

JoinProcessing ==
    /\ uiPc \in {"stopJoinProcessing", "faultJoinProcessing"}
    /\ processingPc \in {"none", "done"}
    /\ processingPc' = "none"
    /\ IF uiPc = "stopJoinProcessing"
       THEN UiGoto("stopFinish") /\ UNCHANGED acquisitionRunning
       ELSE UiGoto("idle") /\ acquisitionRunning' = FALSE
    /\ UNCHANGED <<shared, worker, packet, latestWaveform, run, device>>

StopFinish ==
    /\ uiPc = "stopFinish"
    /\ status' = [status EXCEPT !.state = "eStopped"]
    /\ acquisitionRunning' = FALSE
    /\ UiGoto("idle")
    /\ UNCHANGED <<stopRequested, rawPacketQueue, waveformRingBuffer, worker,
                   processing, latestWaveform, run, device>>

UserInterface == \/ Start \/ CreateWorker \/ GetLatestWaveform \/ StopRequest
                 \/ FaultFound \/ CloseQueue \/ JoinWorker \/ JoinProcessing
                 \/ StopFinish

Next == \/ Worker
        \/ WaitPop \/ SpuriousWakeUp \/ ParseAndStore
        \/ UserInterface

Spec == Init /\ [][Next]_vars

\* Every thread runs until it ends, every transfer ends (each has a timeout)
\* and a call of the user interface, once begun, goes on; its frames keep
\* looking for a fault.  Nobody is obliged to press a button.
UiCall == \/ CreateWorker \/ CloseQueue \/ JoinWorker \/ JoinProcessing
          \/ StopFinish

FairSpec == /\ Spec
            /\ WF_vars(Worker)
            /\ WF_vars(WaitPop \/ ParseAndStore)
            /\ WF_vars(UiCall)
            /\ WF_vars(FaultFound)

-----------------------------------------------------------------------------
\* The refinement: what the user interface is promised.
Service == INSTANCE AcquisitionService
             WITH live  <- workerPc # "none" \/ processingPc # "none",
                  state <- status.state,
                  shown <- [run |-> latestWaveform.run,
                            capture |-> latestWaveform.capture]
ImplementsService == Service!Spec

\* Outside a run no thread is left: handleAcquisitionFault and the buttons
\* close the USB handle the worker uses, and the next start assigns to both
\* std::thread objects, which ends the program when one is still joinable
\* (acquisition_loop.cpp lines 280-281, acquisition_loop.h line 115).
NoThreadOutsideRun ==
    uiPc = "idle" /\ ~acquisitionRunning
        => workerPc = "none" /\ processingPc = "none"

\* A fault the user interface can see is fully reported: the worker has named
\* the operation and the status before it publishes a terminal state
\* (acquisition_loop.cpp lines 458-468, read by main.cpp lines 1249-1260).
FaultReported ==
    status.state \in Terminal =>
        /\ status.failedOperation # "eNone"
        /\ status.lastTransferStatus # "eSuccess"
        /\ (status.state = "eDeviceLost") <=>
              (status.lastTransferStatus = "eNoDevice")

\* The frames between the instrument and the screen, oldest first.
Pipeline == <<latestWaveform>>
              \o waveformRingBuffer
              \o (IF processingPc = "parse" THEN <<packet>> ELSE << >>)
              \o rawPacketQueue.packets

NotBefore(f, g) == f.run > g.run \/ (f.run = g.run /\ f.capture >= g.capture)

\* Frames stay in the order they were captured through both buffers and the
\* processing thread, and none of an earlier run is left behind a new one
\* (acquisition_loop.cpp lines 270, 279, 418 and 489-500).
PipelineOrdered ==
    \A i \in 1 .. Len(Pipeline) - 1 : NotBefore(Pipeline[i + 1], Pipeline[i])

\* Every frame is one capture: its data and its trigger point come from the
\* same capture, although they are read in many transfers of which any may
\* fail and be retried (acquisition_loop.cpp lines 404-427 and 609-632).
WholeCaptures ==
    \A i \in 1 .. Len(Pipeline) :
        \A n \in 1 .. DataPackets :
            Pipeline[i].data[n] = Pipeline[i].capture

\* The consumer never sleeps through a packet or the closing of the queue.
ConsumerAwake ==
    processingPc = "waiting" => ~CanReturn(rawPacketQueue)

\* What is at most left of a thread that has to end: the worker's places, once
\* it takes stopRequested for an answer, and the consumer's, once the queue is
\* closed.
WorkerStepsLeft ==
    [none |-> 0, done |-> 1, close |-> 2, loop |-> 3, sleep |-> 4,
     storeSuccess |-> 5, storeNone |-> 6, storeRunning |-> 7,
     storeDropped |-> 8, storeFault |-> 5, storeTransfer |-> 6,
     storeOperation |-> 7, configure |-> 9, start |-> 9, restart |-> 9,
     push |-> 10, read |-> 11, polled |-> 12, poll |-> 13][workerPc]

ConsumerStepsLeft ==
    2 * Len(rawPacketQueue.packets) +
    [none |-> 0, done |-> 1, outside |-> 2, notified |-> 2, waiting |-> 3,
     parse |-> 3][processingPc]

JoinsWorker == {"stopJoinWorker", "faultJoinWorker"}
JoinsProcessing == {"stopJoinProcessing", "faultJoinProcessing"}

WorkerComesNearer ==
    uiPc \in JoinsWorker =>
        WorkerStepsLeft' < WorkerStepsLeft \/ UNCHANGED workerPc

ConsumerComesNearer ==
    uiPc \in JoinsProcessing =>
        \/ ConsumerStepsLeft' < ConsumerStepsLeft
        \/ UNCHANGED <<processingPc, rawPacketQueue>>

\* A thread that is being joined only comes nearer to its end: no step of any
\* thread sends it back, gives it a packet or puts it to sleep
\* (acquisition_loop.cpp lines 296-302, 340-348, 374-478 and 484-503).
JoinAdvances == [][WorkerComesNearer /\ ConsumerComesNearer]_vars

\* Stop and the handling of a fault return: the worker sees stopRequested or
\* has ended, and the closed queue releases the consumer
\* (acquisition_loop.cpp lines 296-302 and 340-348).
CallsReturn == uiPc # "idle" ~> uiPc = "idle"

\* A terminal fault ends the run although the user does nothing
\* (main.cpp lines 480-487 and 1252-1263).
FaultEndsRun ==
    acquisitionRunning /\ status.state \in Terminal ~> ~acquisitionRunning

\* An instrument that stays empty is started again: no reachable counter value
\* lets the worker poll an empty buffer for ever
\* (acquisition_loop.cpp lines 423-441).
EmptyIsRestarted ==
    workerPc = "loop" /\ ~stopRequested
        ~> \/ workerPc \in {"start", "restart", "read", "storeOperation"}
           \/ workerPc = "polled" /\ captureState.report = "other"
           \/ stopRequested
=============================================================================
