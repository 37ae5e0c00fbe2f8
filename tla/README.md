# A TLA+ verification of the oscilloscope application

The repository is a C++ application that drives a Hantek/Voltcraft DSO-2250
USB oscilloscope: it uploads the firmware, configures and polls the instrument
on one thread, decodes captures on a second and draws them on a third.  This
directory models the parts of it in which several actors meet, checks them with
TLC on small instances and proves the most important invariants with TLAPS.
Paths are relative to the repository (`src/` in `PROJECT.json`).

## 1. The system

| Component | Source | State | Operations | Hard part |
|---|---|---|---|---|
| Raw packet queue | `capture/src/raw_packet_queue.cpp` | slots, two indices, a count, a drop counter, `closed`, a condition variable | `push`, `waitPop`, `close`, `reset` | wakeups, drop-oldest index arithmetic, closing with a sleeper |
| Waveform ring | `capture/src/waveform_ring_buffer.cpp` | slots, two indices, a count, a drop counter | `push`, `popLatest`, `reset` | overwriting, jumping over several frames |
| Acquisition worker | `acquisition_loop.cpp`, `pollCaptureState` | locals: configured, start required, failure and empty counters, the capture buffer | configure, start, poll, read, restart, publish | forty transfers per capture of which any can fail; order of the published atomics; bounded recovery |
| Processing thread | `acquisition_loop.cpp`, `processRawPackets` | the packet in hand | wait, parse, store | must never sleep through a packet or the end |
| Loop interface | `acquisition_loop.cpp`, `start`, `stop`, `joinFinished`, `getLatestWaveform` | two `std::thread`s, `stopRequested`, the status | | a stop in any state of the worker, reuse by the next run |
| USB connection | `usb/src/usb_device.cpp`, `firmware_loader.cpp` | context, handle, `isConnected` | enumerate, connect with upload and re-enumeration, disconnect, identify | nine exits with resources held, stale device pointers, a device that does not come back |
| Session | `app/main.cpp`, the frame loop | `acquisitionRunning`, `demoMode`, `connectedDevice`, last scan, status line, presence timer | fault handler, presence check, buttons, demo mode, shutdown | stale scans, identities and states; five ways to close a connection |
| Trigger and display | `app/main.cpp`, `core/src/waveform_trigger.cpp` | latest and held frame, `armed`, `heldValid`, the settings of the panel | a pass with or without a new frame, its edge search, six controls, the drawing | a held frame and settings that move under it, two clamps |
| Parser | `capture/src/waveform_parser.cpp` | none | decode samples and trigger point | unsigned arithmetic in two loops; reuse of the frame |
| Presence timer | `app/main.cpp`, `pollUsbPresence` | the tick of the next check | expire, schedule | 32-bit ticks that wrap |
| Scaling, drawing, text | `core/src`, `app/main.cpp` | none | | |
| Extractor | `tools/dsoextractfw.c` | handles, buffers, two output files | open, find symbols, write two HEX files | every call can fail half way |
| Release script | `make_release.py`, `linux_build.sh` | the version files and their copies | copy, rewrite, build, restore | restoring after a failed build |

How they interact.  The worker pushes into the queue; the processing thread
waits on it and pushes into the ring; the frame loop pops the ring.  The worker
publishes its state in atomics the frame loop reads.  The frame loop starts
both threads with a *copy* of the connection, and must join them before it
closes the connection.  The bus changes at any time and nobody is told: a scan
is old as soon as it returns.

What makes each component correct: the queue is a drop-oldest FIFO whose
consumers wake up; the ring hands out its newest frame; the loop runs do not
overlap, publish faults whole and deliver whole, ordered frames of the current
run; a connection leaks nothing; the session never lets threads outlive their
connection, notices a lost device, and does not close a present one its scans have seen;
the display finds the first edge, shows it under its marker and holds what it
captured; the
parser decodes every trigger point and takes a capture whole or not at all; the
extractor leaves no partial file; the release script restores what it rewrote.

## 2. The modules

| Module | Models | Built on |
|---|---|---|
| `BoundedBuffer` | the overflow policy of both buffers | |
| `DropOldestFifo`, `LatestFrameBuffer` | abstract: what the two buffers promise | `BoundedBuffer` |
| `RawPacketQueue`, `WaveformRingBuffer` | the buffers as values, one operator per member function | |
| `PacketQueueThreads`, `WaveformRingThreads` | threads calling them | the two above |
| `UsbTransfers` | one transfer: attempts, timeouts, classification | |
| `UsbTransactions` | the order of the transfers in each function of the worker | |
| `AcquisitionService` | abstract: what the loop promises the session | |
| `AcquisitionLoop` | worker, processing thread, interface calls | `UsbTransactions`, `UsbTransfers`, `BoundedBuffer` |
| `UsbConnection` | bus, `connectToDevice`, `disconnectFromDevice` | |
| `Application` | the session | `UsbConnection` |
| `PresenceTimer` | the tick arithmetic of `pollUsbPresence`; its proofs are in `ApplicationProofs` | |
| `TriggerDisplay` | edge search, trigger modes, held frame, window | |
| `WaveformParser` | both functions of the parser | |
| `FirmwareExtractor` | the extractor and the files it writes | |
| `ReleaseUpdater` | the release script with the build it calls | |
| `MC*` | constants of an instance for TLC | the module they name |
| `CircularIndex`, `*Proofs` | arithmetic lemmas and the proofs | the module they name |

The refinement carries the composition.  `PacketQueueThreads` and
`WaveformRingThreads` implement `DropOldestFifo` and `LatestFrameBuffer`, so
`AcquisitionLoop` uses sequences with the same overflow policy in their place.
`AcquisitionLoop` implements `AcquisitionService`, so `Application` keeps only
`threads`, `threadsHandle` and `state` of it.  The session must be shown to
close a connection only between a join and a start; `NoThreadOutsideRun` is
what it relies on.  `Application` keeps of `PresenceTimer` that the interval
passes at some time; `AcquisitionLoop` keeps of `UsbTransfers` the set of
results one attempt can have (`TransferAssumption`), and of `WaveformParser`
that a whole capture is accepted and a poll of four bytes is decoded.

### Correspondence with the code

*Buffers.*  `slots`, `readIndex`, `writeIndex`, `packetCount`,
`droppedPacketCount` and `closed` are the fields of the class; an operator is
the critical section of the mutex.  `waitPop` is two steps, going to sleep and
returning, with spurious wakeups between them.  A packet is a model value; the
acceptance test of `push` (null, empty, oversized) is the set `Acceptable`.
A capacity of zero is covered.

*Acquisition loop.*  One step is one store to a shared atomic, one call on a
buffer, one thread operation, or the transfers of one function of the worker.
The last is sound because transfers touch only the worker's locals and the
instrument; such a step may fail at any transfer (`FunctionFails`), and a
failed one may or may not have reached the instrument.  `Transfers` lists the
transfers by the `EAcquisitionOperation` that `failedOperation` holds during
each.  The data of a capture is the number of the capture on the instrument,
stored per bulk read, so a mixture shows.  `readCaptureData` overwrites
`captureData` from the front and leaves the rest, as the code does.
`stopRequested` is tested only at the head of the loop; pushes to a closed
queue are refused and the capture is restarted all the same.  A poll that
succeeds has transferred at least four bytes (`bulkRead`'s minimum length), so
that the parser always accepts it.  `startAcquisitionLoop` is two steps, the
processing thread running in between.  `ReadCapture` leaves out the branch
"Invalid capture protocol" of `readCaptureData` (lines 589-597): the protocol
comes from a constant table whose packet length divides the capture's, so that
its condition is never true.

*Connection.*  `connectToDevice` is one step per libusb call or wait
(`connectPc`), its C locals are variables, and `libusb` counts what has been
handed out.  Instruments appear as bootloader or operational, vanish, and come
back from an upload.  A device on the host is its instrument, vendor and
address; the code compares the last two.  `findDevice` without `matchLocation`
takes any operational device, because libusb's list has no promised order.
`loadFx2Firmware` is one step that succeeds (the instrument leaves the bus to
restart) or fails.  `libusb_get_device_descriptor` may fail for any device at
any time, as the code provides for: the device asked for is then not found, the
identity of an open handle not read, and `Scan` is a success without it.  (Newer
versions of libusb document that this call does not fail; the repository asks
for no particular one.)  Assumption: an enumeration gives an address not used
before (Linux hands out increasing addresses); `PresentDeviceKept` and
`LossIsNoticed` need it, because the code cannot tell two devices with the same
numbers apart.

*Transfers.*  `Outcomes` is what `bulkWrite`, `bulkRead`, `controlWrite` and
`controlRead` can return: `retryWhileTimeout` calls again only after a timeout,
zero attempts are a timeout, and a success shorter than the minimum is
`eShortTransfer`.  The acquisition loop makes one attempt
(`kTransferAttempts`), so that its retries are those of its own counters.

*Session.*  `framePc` walks through a frame: fault handler, presence check, at
most one control, next frame.  Blocking calls (`connectToDevice`, a disconnect)
are places of their own because bus and worker go on meanwhile.  The presence
timer is the flag `presenceDue`.  The texts of the status line are named by
their beginning.  `front()` of a scan is any of its elements.  The session
starts with nothing plugged in; one that starts with an instrument is reached
by leaving demo mode.

*Presence timer.*  `now` is the time SDL counts, `SDL_GetTicks` its low 32
bits; `Expired` is the signed difference of line 1293, written as the half of
the ring it lies in.  `suspended` is demo mode or a run, for any time.

*Trigger and display.*  A pass of the frame loop through lines 500-642 is
`PassWithNewFrame` or `PassWithoutFrame`, with and without a waveform from
`getLatestWaveform`, one `SearchStep` for each iteration of the loop of
`findEdgeTrigger`, and `Hold`, after which `pc` is "drawn"; `index`,
`triggerFound` and `triggerIndex` are the locals of the search.  The controls of
the panel are one action each, and as they are handled after the drawing, what
they change shows in the next pass.  What is drawn are operators on the state
(`ShownFrame`, `ShownIndex`, `ShownStart`), and the properties of it are stated
where `pc` is "drawn".  A position is `k / PositionSteps`, an exact rational in
the place of a float, so that the code's truncation is `\div`.  `heldAt` is a
ghost, the position at which the held frame was captured.  Assumption: a slider
keeps its value in its range, and a frame that arrives is not empty, which the
fixed length of captures gives.

*Parser.*  The bisection of `normalizeTriggerPoint` is one step per iteration,
its locals are words modulo `MaxWord + 1`.  `parseInterleavedWaveformSamples`
is one step; the arrays it writes are functions on their indices, with the
content they had before.

*Extractor.*  One step is one call that can fail, or one iteration of a loop.
A record is one of five kinds, exactly those `writeHexFile` tells apart.  What
reaches a file is the list of its records with their origin; a write that
fails leaves a torn one.  `removable` says whether the directory permits
`remove`, and with it the creation of a file that is not there; `fopen` may fail
in any state.

*Release script.*  A file is "old", "new" or "empty", the last because
`updateFiles` goes on with an empty text when it cannot read.  Files without a
'.' in their path are neither copied nor restored.  `Build` has the outcomes
`linux_build.sh` gives: it looks at the result of the configuration only.

## 3. What is checked

| Run | Module | Instance | States | Shows |
|---|---|---|---|---|
| `queue` | `PacketQueueThreads` | capacity 2, 3 consumers, 2 packets and one unacceptable, 2 drops | 48 385 | no lost wakeup; implements `DropOldestFifo`; `close` releases sleepers |
| `ring` | `WaveformRingThreads` | capacity 3, 4 frames, 3 drops | 6 733 | implements `LatestFrameBuffer` |
| `acquisition` | `AcquisitionLoop` | 2 runs, 3 captures, 2 failing calls, queue 1, ring 2, thresholds 2 | 1 941 756 | joined threads, whole fault reports, whole and ordered frames, consumer awake, joins advance; implements `AcquisitionService` |
| `acquisition_live` | `AcquisitionLoop` | 1 run, 2 captures, 2 failing calls | 188 361 | calls return, a fault ends its run, an empty instrument is restarted |
| `application` | `Application` | 2 instruments, 3 enumerations, 2 rescans, 1 scan that fails or passes devices over | 2 042 956 | threads only with their connection, clean exit, identity, status line, resources, no present device closed unless it was passed over |
| `application_live` | `Application` | 1 instrument, 3 enumerations | 90 548 | loss is noticed, Connect returns |
| `application_identical` | `Application` | 2 instruments | | violated, finding 1 |
| `application_stale_fault` | `Application` | 1 instrument | | violated, finding 2 |
| `display` | `MCTriggerDisplay` | 3 records, 2 levels, 4 positions, 3 sources | 284 980 | first edge, trigger in the window and under its marker, never blank and disarmed, what Single and Normal hold |
| `parser` | `MCWaveformParser` | all 512 trigger points of 3-bit bytes, captures of 1 to 6 bytes | 10 462 | no wrap, Gray-code reference, halving, whole captures, termination |
| `firmware` | `MCFirmwareExtractor` | sections of 3 records of 5 kinds, 7 symbol tables | 402 623 | no partial output, nothing held |
| `release_restore` | `MCReleaseUpdater` | 3 files | | violated, finding 3 |

*Why the bounds suffice.*  Capacity 2 with three consumers has more sleepers
than packets and wraps the indices; capacity 3 lets the ring's indices start a
wrap anywhere.  A queue of one packet with captures faster than the consumer
drops every packet that can be dropped.  Two runs show what the first leaves to
the second.  Thresholds of two have a first, a last and no middle value: the
code's three add only a second middle one.  Two data reads show a mixture of
captures.  Two failing calls reach the last permitted failure, and one fault
after a recovery.  Three enumerations are an upload with its re-enumeration
and a replacement.  Positions 0, 33, 50 and 100 are both ends and two between,
one of which truncates; the records have their edges at either end, in the
middle, and several or none.  A word of the parser has two bits more than a
trigger point, where the code's has eight more;
the proof assumes no more than these two.  A section
of three records has a first array of one or two and a loader of two or one,
so that an end can be missing, early or behind the array.  Counters of drops, runs, captures, faults, enumerations and
failed scans are bounded by named constants and the bound is a guard of the
action that counts.

*Fairness.*  Queue: a notified thread runs (`WF` of `WakeUp`); nobody is
obliged to call.  Acquisition: the worker, the consumer and a call of the
interface once begun go on, and frames keep looking for a fault; every transfer
has a timeout, so its step ends.  No button is ever obliged to be pressed, and
`EmptyIsRestarted` holds although transfers may fail.  Session: frames follow
one another, time passes, and a worker whose device has left the bus finds out,
which `FaultEndsRun` and the transfer timeouts of `AcquisitionLoop` justify.
Spurious wakeups and bus changes are never fair.  Parser: a call that was begun
runs on.

Deadlock is checked in every run: where a function or a program ends, it does so
by an explicit step `Ended`.

Each property has a mutant of the code, marked `MUTANT of` where it is defined,
that breaks it: a notification only on an empty queue, an index left behind, a
join forgotten, a failed read queued, a handle not closed, a device pointer
kept over the upload, an identity not cleared, a search from the first sample
and one that runs on after a match, a mode that leaves the screen disarmed, a
pass without an edge that blanks the screen, bytes taken in order, an upper half
rounded down, an array without its end taken for complete.  What the
refinements of the two buffers need of them (`TypeOK`, `IndicesOK`), and the
safety part of `ConnectEnds` (`ConnectAdvances`), are proved and not run.

### Findings

1. `OpensRequestedInstrument`.  `docs/mainpage.md` lines 57-60 have bus and
   address distinguish identical instruments, and the scan entry given to
   `connectToDevice` carries them.  After the upload the search ignores the
   location (`usb_device.cpp` line 324): with a second operational instrument
   on the bus that one may be opened, with status `eConnected`.
2. `FaultIsTheWorkers`.  A terminal state stays in `status.state` after the
   fault was handled.  `updateDemoMode` resets it only with an open connection
   (`main.cpp` line 1340).  After a lost device, a demonstration started later
   is stopped in the next frame with "Device disconnected" again, although
   there is no worker; the handler's documentation (line 312) speaks of a fault
   detected on the worker.
3. `FailedCompileRestores`.  `README.md` lines 215-216 promise that the script
   restores the previous files if the build fails.  `linux_build.sh` tests only
   the configuration and ends with `exit 0` (line 63), so that after a compiler
   error `build_prj` returns 0, and `clean_up` deletes the copies and keeps the
   rewritten files.  Two more ways not to restore are in the model:
   `docs/Doxyfile` has no extension and is neither copied nor restored
   (`make_release.py` line 148), and a build of more than 90 seconds raises
   (line 303) before `clean_up`.

## 4. What is proved

`tlapm` checks every leaf; the constants are arbitrary under the named
assumptions of the modules.

| Module | Theorems |
|---|---|
| `RawPacketQueueProofs` | `TypeCorrect`, `IndicesCorrect`, `NoLostWakeupHolds`, `QueueImplementsFifo` |
| `WaveformRingProofs` | `TypeCorrect`, `IndicesCorrect`, `RingImplementsLatest` |
| `AcquisitionLoopProofs` | `TypeCorrect`, `NoThreadLeft`, `FaultAlwaysReported`, `ConsumerNeverStuck`, `CapturesAreWhole`, `PipelineInOrder`, `LoopImplementsService`, `JoinsAdvance`, `TransferIsClassified` |
| `ApplicationProofs` | `TypeCorrect`, `ThreadsAlwaysConnected`, `NothingEverLeaks`, `ExitIsClean`, `DeviceAlwaysListed`, `OnlyOperationalIsConnected`, `IdentityAlwaysFollows`, `StatusAlwaysTrue`, `PresentDeviceAlwaysKept`, `ConnectAlwaysAdvances`; of `PresenceTimer`: `ExpiresInTime`, `ChecksAreApart`, `LongSuspensionStopsChecks` |
| `TriggerDisplayProofs` | `TypeCorrect`, `NeverBlankHolds`, `TriggerVisibleHolds`, `AlignedHolds`, `FindsFirstEdgeHolds`, `SingleHoldsHolds`, `NormalHoldsHolds` |
| `WaveformParserProofs` | `NoWrapHolds`, `DecodedHolds`, `BisectionAlwaysHalves`, `SamplesAreTheCaptureHolds` |
| `FirmwareExtractorProofs` | `NothingStaysHeld`, `OutputIsNeverPartial` |

With these every invariant and every action property of a passing run, and the
three refinements, are theorems; TLC has checked each inductive invariant on
the instance of its run before it was proved.

*Queue.*  Types, `IndicesAgree` and `NoLostWakeup` form the inductive
invariant.  The indices and the count each depend on the others, so
`IndicesAgree` says that the write index is the read index plus the count,
modulo the capacity; it is what makes `Contents` a sequence.  The refinement
shows what a push, a pop and a reset do to `Contents`, with the arithmetic of
`CircularIndex`.

*Acquisition loop.*  `IInv` adds to the invariants `ThreadsOK` (which places of
the interface go with which threads), `ReportOK` (what the worker has stored at
each of its places, for the order of the three stores) and `CapturesOK`: the
buffer may be mixed at any time, but at the place `push` it is filled with the
capture the poll reported, because reading does not start a capture and a
failing read never reaches `push`.  `OrderOK` orders the pipeline stage by
stage and bounds every frame by the run and the instrument's capture number:
neither goes back, so the frame queued next is not before any other.  The
refinement to `AcquisitionService` needs it for what a frame handed out may be
(a frame in a buffer is always of the current run), and `ThreadsOK` and
`ReportOK` for when a thread exists and a state may be published.

*Session.*  `IInv` consists of `CallOK` (what `connectToDevice` holds at each
step, hence when a context, list or handle is present), `NothingLeaks`,
`ThreadsHaveConnection`, `SessionOK` (the places in a frame where no thread is
left, where the identity is that of the handle, and that a run outside demo
mode has threads) and `GoneOK`: addresses grow, so that a device known to have
left the bus stays away until its connection is closed.  `PresentDeviceKept` has
one exception: a presence check whose successful scan has passed a device over
(`DescriptorUnread`, `usb_device.cpp` lines 198-222).  A scan that fails as a
whole, an older scan or an older fault closes nothing.  Two lemmas,
`UsbEffects` and `SessionEffects`, list what a step can do to each variable; the
type proof follows from them.  `StatusIsTrue` is inductive beside `IInv`.

*Trigger and display.*  The invariant is `TypeOK`, `NeverBlank`, `HeldArmed` (a
valid held frame has its trigger at or behind the first sample with its
pre-trigger samples, at the position it was captured with), `SearchOK` and
`SearchOver`.  `SearchOK` is the invariant of the search loop: between its start
and `index` there is no match, or one, which is `triggerIndex`; `SearchOver` says
that nothing is drawn before the loop has ended.  `FindsFirstEdge` compares the
outcome with `FirstEdge`, which defines the edge without a search and which the
model itself does not use; `NormalHolds` rests on it.  The rest is
arithmetic on the window: the start clamp never acts on an edge that was
searched at the current position, and neither clamp moves the window off the
trigger.  The theorems hold for all frames, levels and positions.

*Parser.*  `NoWrap` needs two products beside it: how far the first loop has
come, and the width of the interval of candidates (`Scaling`, `Searching`).
`Decoded` needs to know more (`Decoding`): the width is a power of two that
divides both bounds.  With `lowerBound` the width times a number *a*, and the
first trigger point of the candidates, `offset`, the width times *b*, *b* is the
Gray code of *a*, and `direction` is the parity of *a*.  One iteration adds a
bit to each (`GrayGrows`); at width 1 they are the result and the trigger point.
That the width is a power of two is also why each iteration leaves exactly half
(`BisectionAlwaysHalves`), which bounds the loop by the bits of the trigger
point.  The provers know a power of two only by its literal exponent, so that
the lemmas on powers go through a table of them, and `DecoderAssumption` has
words of at most 32 bits, as the code's `uint32_t` does.

*Extractor.*  `IInv` follows the program's places: what is allocated and open at
each of them gives `NothingStaysHeld`.  For `OutputIsNeverPartial` it says that
the scan has found the last symbol of each name among those looked at, that the
records of the file in work are those of the array up to `offset` without the
empty ones, in order and with none missing (by their number), that a file is
closed with success only after its end record was copied, and that the loader
is touched only after the firmware was closed whole.  `DriverAssumption` says
only that a driver is a list of named symbols and a section of records.

*Progress.*  Liveness is out of the prover's reach, but what it rests on is not.
`JoinsAdvance`: while the interface waits for a thread, every step of any thread
takes the one it waits for nearer to its end (`WorkerStepsLeft`,
`ConsumerStepsLeft`) or leaves it where it is.  It needs `JoinOK`: a stop is
requested, or a terminal state seen, before the worker is joined, and the queue
is closed before the consumer is; a closed queue takes no packet, and by
`ConsumerAwake` nobody sleeps on it.  `ConnectAlwaysAdvances` says the same of
`connectToDevice`, with the rescans that are left in `ConnectStepsLeft`.  What is
left to TLC is that a step that can be taken is taken.

*Transfers.*  `LastAttempt` always exists, by the least-number principle
(`LeastNumber`, from the library's theorem that the order of the naturals is
well founded), so that what `PerformTransfer` reports is exactly characterised.

*Presence timer.*  The scheduled tick is always the last check plus the
interval, modulo 2^32, so that the difference of ticks is the overdue time
modulo 2^32.  A run cannot enumerate 2^32 ticks: this module is proved only.
`LongSuspensionStopsChecks` says that a run or demonstration of more than about
25 days switches the checks off for up to as long; a known limit of the signed
comparison and not a promise of the repository.

*Only model-checked.*  The liveness properties (`CloseReleases`, `CallsReturn`,
`FaultEndsRun`, `EmptyIsRestarted`, `LossIsNoticed`, `ConnectEnds`,
`CallReturns`), because fairness and ENABLED are beyond the prover, and the
three properties that are violated.  No theorem is proved by induction with an
operator as its parameter, which the provers cannot instantiate, and no module
with a theorem reaches a recursive operator.

## 5. What is not modelled, and the plan

Left out: floating-point scaling, the demonstration waveform and drawing (no
state depends on them), the texts of messages, the bytes of USB commands, the
calibration arithmetic, the building of the extractor's path names and the text
of its records, the parsing of the release script's arguments, Windows' build
script.  ImGui's acceptance of typed slider values outside the range is assumed
away.  A frame of an earlier run is captured again when Single is rearmed; this
is modelled, and nothing in the repository says otherwise, so no property
forbids it.  The readout of the status line (`main.cpp` lines 966-1005) is not
modelled either: with a trigger on the screen `TriggerVisible` keeps both of its
clamps from acting, without one nothing says what sample its time and voltages
should be of.  `usb_device.h` line 122 defines a short transfer by the "full
requested length" where the code compares with the minimum length; the model
follows the code.  A symbol of a driver whose value could be a file offset as
well as one in the section is taken for the first; the run has no such driver.

Open: the release script has a run for its finding only, and no theorem.  What
`reserveFiles`, `updateFiles` and `clean_up` do in the absence of that defect
(which files are restored after a configuration that fails) could be stated and
proved in the same way.  Of the liveness properties, `LossIsNoticed`,
`FaultEndsRun`, `EmptyIsRestarted` and `CloseReleases` have no counterpart among
the theorems yet, as `CallsReturn`, `ConnectEnds` and `CallReturns` have.
