----------------------------- MODULE Application -----------------------------
(***************************************************************************)
(* The session that app/src main() keeps on the user-interface thread: one *)
(* frame after the other it handles an acquisition fault, looks whether    *)
(* the instrument is still there, and acts on at most one control.  The    *)
(* USB connection is UsbConnection; the acquisition loop is what           *)
(* AcquisitionService promises of it, threads that live from a start to a  *)
(* join and report their state.  The bus and the threads go on between any *)
(* two steps.                                                              *)
(***************************************************************************)
EXTENDS UsbConnection

CONSTANT MaxScanFailures   \* bound on the enumerations with a failing call

ASSUME ApplicationAssumption == MaxScanFailures \in Nat

VARIABLES
    framePc,                  \* where the frame is
    running,                  \* the user has not quit
    demoMode, acquisitionRunning, deviceWasDisconnected,
    usbScanResult,            \* SUsbScanResult
    connectedDevice,          \* SUsbDeviceInfo, NoDevice for kEmptyDeviceInfo
    deviceStatus,             \* what the status line says of the connection
    presenceDue,              \* the presence interval has passed
    threads,                  \* the acquisition threads are joinable
    threadsHandle,            \* the handle their SUsbConnection copy holds
    state,                    \* acquisitionLoop.status.state
    scanFailures

acquisition == <<threads, threadsHandle, state>>
session == <<running, demoMode, acquisitionRunning, deviceWasDisconnected,
             usbScanResult, connectedDevice, deviceStatus, presenceDue,
             scanFailures>>
vars == <<usbVars, framePc, session, acquisition>>

AcquisitionState == {"eStopped", "eRunning", "eRecovering", "eDeviceLost",
                     "eFailed"}
Terminal == {"eDeviceLost", "eFailed"}

FramePlace == {"fault", "closeLost", "presence", "controls", "connecting",
               "disconnect", "demoDisconnect", "exitDisconnect", "ended"}

DeviceStatus == {"Connected", "Disconnected", "USB error",
                 "Device disconnected", "Acquisition stopped",
                 "Disconnect error", "Connect error"}

TypeOK ==
    /\ UsbTypeOK
    /\ framePc \in FramePlace
    /\ running \in BOOLEAN
    /\ demoMode \in BOOLEAN
    /\ acquisitionRunning \in BOOLEAN
    /\ deviceWasDisconnected \in BOOLEAN
    /\ usbScanResult \in [success : BOOLEAN, devices : SUBSET Device]
    /\ connectedDevice \in Device \cup {NoDevice}
    /\ deviceStatus \in DeviceStatus
    /\ presenceDue \in BOOLEAN
    /\ threads \in BOOLEAN
    /\ threadsHandle \in Device \cup {NoDevice}
    /\ state \in AcquisitionState
    /\ scanFailures \in 0 .. MaxScanFailures

\* formatUsbConnectionStatus: its two texts for a successful scan are one.
ConnectionStatusText(scan, isConnected) ==
    IF isConnected THEN "Connected"
    ELSE IF scan.success THEN "Disconnected" ELSE "USB error"

\* main() up to its loop, with nothing plugged in; a session that finds an
\* instrument starts where this one gets to when it leaves demo mode.
Init ==
    /\ UsbInit
    /\ framePc = "fault"
    /\ running = TRUE
    /\ demoMode = TRUE
    /\ acquisitionRunning = FALSE
    /\ deviceWasDisconnected = FALSE
    /\ usbScanResult \in [success : BOOLEAN, devices : {{}}]
    /\ connectedDevice = NoDevice
    /\ deviceStatus = ConnectionStatusText(usbScanResult, FALSE)
    /\ presenceDue = FALSE
    /\ threads = FALSE
    /\ threadsHandle = NoDevice
    /\ state = "eStopped"
    /\ scanFailures = 0

-----------------------------------------------------------------------------
\* What goes on beside the user-interface thread.

\* The worker publishes its state as AcquisitionService allows; it loses only
\* a device that has left the bus.
WorkerReports ==
    /\ threads
    /\ state \notin Terminal
    /\ state' \in {"eRunning", "eRecovering", "eFailed"}
                    \cup (IF threadsHandle \in OnBus THEN {}
                          ELSE {"eDeviceLost"})
    /\ UNCHANGED <<usbVars, framePc, session, threads, threadsHandle>>

PresenceIntervalPasses ==
    /\ ~presenceDue
    /\ presenceDue' = TRUE
    /\ UNCHANGED <<usbVars, framePc, acquisition, running, demoMode,
                   acquisitionRunning, deviceWasDisconnected, usbScanResult,
                   connectedDevice, deviceStatus, scanFailures>>

BusChanges == Bus /\ UNCHANGED <<framePc, session, acquisition>>

-----------------------------------------------------------------------------
\* Calls of the user interface.

Enter(pc) == framePc' = pc

\* joinFinishedAcquisitionLoop leaves the state, stopAcquisitionLoop sets it.
JoinThreads == threads' = FALSE /\ threadsHandle' = NoDevice

\* MUTANT of StopAcquisitionLoop: the loop is only asked to stop.
StopWithoutJoin == state' = "eStopped" /\ UNCHANGED <<threads, threadsHandle>>

StopAcquisitionLoop == JoinThreads /\ state' = "eStopped"

\* enumerateSupportedDevices.  A device whose descriptor libusb cannot read
\* is passed over, and the scan is a success without it.
Scan ==
    \/ /\ usbScanResult' = [success |-> TRUE, devices |-> OnBus]
       /\ UNCHANGED scanFailures
    \/ /\ scanFailures < MaxScanFailures
       /\ scanFailures' = scanFailures + 1
       /\ \/ usbScanResult' = [success |-> FALSE, devices |-> {}]
          \/ \E read \in SUBSET OnBus \ {OnBus} :
                usbScanResult' = [success |-> TRUE, devices |-> read]

-----------------------------------------------------------------------------
\* handleAcquisitionFault: the join, then the disconnect of a lost device.

\* MUTANT of HandleAcquisitionFault: a lost device is closed although the
\* threads have not been joined.
HandleFaultWithoutJoin ==
    /\ framePc = "fault"
    /\ \/ /\ acquisitionRunning /\ state = "eDeviceLost"
          /\ Enter("closeLost")
          /\ acquisitionRunning' = FALSE
          /\ UNCHANGED <<threads, threadsHandle, deviceStatus>>
       \/ /\ acquisitionRunning /\ state = "eFailed"
          /\ JoinThreads
          /\ deviceStatus' = "Acquisition stopped"
          /\ Enter("presence")
          /\ acquisitionRunning' = FALSE
       \/ /\ ~(acquisitionRunning /\ state \in Terminal)
          /\ Enter("presence")
          /\ UNCHANGED <<threads, threadsHandle, acquisitionRunning,
                         deviceStatus>>
    /\ UNCHANGED <<usbVars, running, demoMode, deviceWasDisconnected,
                   usbScanResult, connectedDevice, presenceDue, scanFailures,
                   state>>

HandleAcquisitionFault ==
    /\ framePc = "fault"
    /\ \/ /\ acquisitionRunning /\ state \in Terminal
          /\ JoinThreads
          /\ acquisitionRunning' = FALSE
          /\ IF state = "eDeviceLost"
             THEN Enter("closeLost") /\ UNCHANGED deviceStatus
             ELSE Enter("presence") /\ deviceStatus' = "Acquisition stopped"
       \/ /\ ~(acquisitionRunning /\ state \in Terminal)
          /\ Enter("presence")
          /\ UNCHANGED <<threads, threadsHandle, acquisitionRunning,
                         deviceStatus>>
    /\ UNCHANGED <<usbVars, running, demoMode, deviceWasDisconnected,
                   usbScanResult, connectedDevice, presenceDue, scanFailures,
                   state>>

\* MUTANT of CloseLostDevice: the status line is left as it was.
CloseLostQuietly ==
    /\ framePc = "closeLost"
    /\ Disconnect
    /\ connectedDevice' = NoDevice
    /\ deviceWasDisconnected' = TRUE
    /\ Enter("presence")
    /\ UNCHANGED <<busVars, connectVars, acquisition, running, demoMode,
                   acquisitionRunning, usbScanResult, deviceStatus,
                   presenceDue, scanFailures>>

CloseLostDevice ==
    /\ framePc = "closeLost"
    /\ Disconnect
    /\ connectedDevice' = NoDevice
    /\ deviceWasDisconnected' = TRUE
    /\ deviceStatus' = "Device disconnected"
    /\ Enter("presence")
    /\ UNCHANGED <<busVars, connectVars, acquisition, running, demoMode,
                   acquisitionRunning, usbScanResult, presenceDue,
                   scanFailures>>

-----------------------------------------------------------------------------
\* pollUsbPresence.

\* MUTANT of PresenceChecked: an open connection is not checked.
PresenceCheckedWhenClosed ==
    /\ ~demoMode /\ ~acquisitionRunning /\ presenceDue
    /\ ~usbConnection.isConnected

PresenceChecked == ~demoMode /\ ~acquisitionRunning /\ presenceDue

SkipPresence ==
    /\ framePc = "presence"
    /\ ~PresenceChecked
    /\ Enter("controls")
    /\ UNCHANGED <<usbVars, session, acquisition>>

\* isUsbDevicePresent of the scan just made and the connected device
Vanished == /\ usbConnection.isConnected
            /\ usbScanResult'.success
            /\ connectedDevice \notin usbScanResult'.devices

PollUsbPresence ==
    /\ framePc = "presence"
    /\ PresenceChecked
    /\ Scan
    /\ presenceDue' = FALSE
    /\ \/ /\ Vanished
          /\ Disconnect
          /\ connectedDevice' = NoDevice
          /\ deviceWasDisconnected' = TRUE
          /\ deviceStatus' = "Device disconnected"
       \/ /\ ~Vanished
          /\ UNCHANGED <<usbConnection, libusb, connectedDevice>>
          /\ IF /\ ~usbConnection.isConnected
                /\ usbScanResult'.devices # {} \/ ~deviceWasDisconnected
             THEN /\ deviceWasDisconnected' =
                       (deviceWasDisconnected /\ usbScanResult'.devices = {})
                  /\ deviceStatus' =
                       ConnectionStatusText(usbScanResult', FALSE)
             ELSE UNCHANGED <<deviceWasDisconnected, deviceStatus>>
    /\ Enter("controls")
    /\ UNCHANGED <<busVars, connectVars, acquisition, running, demoMode,
                   acquisitionRunning>>

-----------------------------------------------------------------------------
\* The controls, at most one of which is used in a frame.

FrameEnds == Enter(IF running THEN "fault" ELSE "exitDisconnect")

NoClick ==
    /\ framePc = "controls"
    /\ FrameEnds
    /\ UNCHANGED <<usbVars, session, acquisition>>

\* The window's close button or File, Exit: the frame is still completed.
Quit ==
    /\ framePc = "fault"
    /\ running
    /\ running' = FALSE
    /\ UNCHANGED <<usbVars, framePc, acquisition, demoMode, acquisitionRunning,
                   deviceWasDisconnected, usbScanResult, connectedDevice,
                   deviceStatus, presenceDue, scanFailures>>

StopButton ==
    /\ framePc = "controls"
    /\ demoMode \/ usbConnection.isConnected
    /\ acquisitionRunning
    /\ IF demoMode THEN UNCHANGED acquisition ELSE StopAcquisitionLoop
    /\ acquisitionRunning' = FALSE
    /\ FrameEnds
    /\ UNCHANGED <<usbVars, running, demoMode, deviceWasDisconnected,
                   usbScanResult, connectedDevice, deviceStatus, presenceDue,
                   scanFailures>>

\* startAcquisitionLoop resets the status and gives the threads a copy of the
\* connection.
StartButton ==
    /\ framePc = "controls"
    /\ demoMode \/ usbConnection.isConnected
    /\ ~acquisitionRunning
    /\ IF demoMode THEN UNCHANGED <<acquisition, deviceStatus>>
       ELSE /\ threads' = TRUE
            /\ threadsHandle' = usbConnection.handle
            /\ state' = "eRunning"
            /\ deviceStatus' = ConnectionStatusText(usbScanResult,
                                 usbConnection.isConnected)
    /\ acquisitionRunning' = TRUE
    /\ FrameEnds
    /\ UNCHANGED <<usbVars, running, demoMode, deviceWasDisconnected,
                   usbScanResult, connectedDevice, presenceDue, scanFailures>>

\* Disconnect: stop the loop, then close the connection.
DisconnectButton ==
    /\ framePc = "controls"
    /\ usbConnection.isConnected
    /\ StopAcquisitionLoop
    /\ acquisitionRunning' = FALSE
    /\ Enter("disconnect")
    /\ UNCHANGED <<usbVars, running, demoMode, deviceWasDisconnected,
                   usbScanResult, connectedDevice, deviceStatus, presenceDue,
                   scanFailures>>

CloseConnection ==
    /\ framePc = "disconnect"
    /\ Disconnect
    /\ connectedDevice' = NoDevice
    /\ deviceWasDisconnected' = FALSE
    /\ deviceStatus' \in {"Disconnect error",
                           ConnectionStatusText(usbScanResult, FALSE)}
    /\ FrameEnds
    /\ UNCHANGED <<busVars, connectVars, acquisition, running, demoMode,
                   acquisitionRunning, usbScanResult, presenceDue,
                   scanFailures>>

\* Connect, to the first device of the last scan.
ConnectButton ==
    /\ framePc = "controls"
    /\ ~usbConnection.isConnected
    /\ ~demoMode
    /\ usbScanResult.success
    /\ \E info \in usbScanResult.devices : ConnectCall(info)
    /\ Enter("connecting")
    /\ UNCHANGED <<session, acquisition>>

ConnectProgress ==
    /\ framePc = "connecting"
    /\ ConnectStepTaken
    /\ UNCHANGED <<framePc, session, acquisition>>

\* MUTANT of ConnectReturns: the identity is the one that was asked for.
ConnectKeepsScanIdentity ==
    /\ framePc = "connecting"
    /\ connectPc = "idle"
    /\ \/ /\ result = "eConnected"
          /\ connectedDevice' = deviceInfo
          /\ deviceWasDisconnected' = FALSE
          /\ deviceStatus' = "Connected"
          /\ UNCHANGED <<usbConnection, libusb>>
       \/ /\ result = "eConnected"
          /\ Disconnect
          /\ deviceStatus' = "Connect error"
          /\ UNCHANGED <<connectedDevice, deviceWasDisconnected>>
       \/ /\ result # "eConnected"
          /\ deviceStatus' = "Connect error"
          /\ UNCHANGED <<usbConnection, libusb, connectedDevice,
                         deviceWasDisconnected>>
    /\ deviceInfo' = NoDevice
    /\ result' = "eDisconnected"
    /\ FrameEnds
    /\ UNCHANGED <<busVars, connectPc, context, deviceList, device, handle,
                   reenumerationAttempt, acquisition, running, demoMode,
                   acquisitionRunning, usbScanResult, presenceDue,
                   scanFailures>>

\* getConnectedDeviceInfo reads the identity behind the handle, or the
\* connection is closed again.
ConnectReturns ==
    /\ framePc = "connecting"
    /\ connectPc = "idle"
    /\ \/ /\ result = "eConnected"
          /\ connectedDevice' = usbConnection.handle
          /\ deviceWasDisconnected' = FALSE
          /\ deviceStatus' = "Connected"
          /\ UNCHANGED <<usbConnection, libusb>>
       \/ /\ result = "eConnected"
          /\ Disconnect
          /\ deviceStatus' = "Connect error"
          /\ UNCHANGED <<connectedDevice, deviceWasDisconnected>>
       \/ /\ result # "eConnected"
          /\ deviceStatus' = "Connect error"
          /\ UNCHANGED <<usbConnection, libusb, connectedDevice,
                         deviceWasDisconnected>>
    /\ deviceInfo' = NoDevice
    /\ result' = "eDisconnected"
    /\ FrameEnds
    /\ UNCHANGED <<busVars, connectPc, context, deviceList, device, handle,
                   reenumerationAttempt, acquisition, running, demoMode,
                   acquisitionRunning, usbScanResult, presenceDue,
                   scanFailures>>

\* The demo-mode check box or menu item, and updateDemoMode.
EnableDemo ==
    /\ framePc = "controls"
    /\ ~demoMode
    /\ demoMode' = TRUE
    /\ \/ /\ usbConnection.isConnected
          /\ StopAcquisitionLoop
          /\ Enter("demoDisconnect")
          /\ UNCHANGED <<acquisitionRunning, deviceStatus>>
       \/ /\ ~usbConnection.isConnected
          /\ acquisitionRunning' = FALSE
          /\ deviceStatus' = ConnectionStatusText(usbScanResult, FALSE)
          /\ FrameEnds
          /\ UNCHANGED acquisition
    /\ UNCHANGED <<usbVars, running, deviceWasDisconnected, usbScanResult,
                   connectedDevice, presenceDue, scanFailures>>

\* MUTANT of DemoCloses: the identity of the closed device is kept.
DemoKeepsIdentity ==
    /\ framePc = "demoDisconnect"
    /\ Disconnect
    /\ acquisitionRunning' = FALSE
    /\ deviceStatus' \in {"Disconnect error",
                           ConnectionStatusText(usbScanResult, FALSE)}
    /\ FrameEnds
    /\ UNCHANGED <<busVars, connectVars, acquisition, running, demoMode,
                   deviceWasDisconnected, connectedDevice, usbScanResult,
                   presenceDue, scanFailures>>

DemoCloses ==
    /\ framePc = "demoDisconnect"
    /\ Disconnect
    /\ connectedDevice' = NoDevice
    /\ acquisitionRunning' = FALSE
    /\ deviceStatus' \in {"Disconnect error",
                           ConnectionStatusText(usbScanResult, FALSE)}
    /\ FrameEnds
    /\ UNCHANGED <<busVars, connectVars, acquisition, running, demoMode,
                   deviceWasDisconnected, usbScanResult, presenceDue,
                   scanFailures>>

DisableDemo ==
    /\ framePc = "controls"
    /\ demoMode
    /\ demoMode' = FALSE
    /\ Scan
    /\ acquisitionRunning' = FALSE
    /\ deviceStatus' = ConnectionStatusText(usbScanResult',
                                            usbConnection.isConnected)
    /\ FrameEnds
    /\ UNCHANGED <<usbVars, running, acquisition, deviceWasDisconnected,
                   connectedDevice, presenceDue>>

\* The end of main().
Shutdown ==
    /\ framePc = "exitDisconnect"
    /\ IF usbConnection.isConnected
       THEN StopAcquisitionLoop /\ Disconnect
       ELSE UNCHANGED <<acquisition, usbConnection, libusb>>
    /\ Enter("ended")
    /\ UNCHANGED <<busVars, connectVars, session>>

Frame == \/ HandleAcquisitionFault \/ CloseLostDevice
         \/ SkipPresence \/ PollUsbPresence
         \/ NoClick \/ Quit \/ StopButton \/ StartButton
         \/ DisconnectButton \/ CloseConnection
         \/ ConnectButton \/ ConnectProgress \/ ConnectReturns
         \/ EnableDemo \/ DemoCloses \/ DisableDemo \/ Shutdown

\* The program has ended.
Ended == framePc = "ended" /\ UNCHANGED vars

Next == Frame \/ Ended \/ WorkerReports \/ PresenceIntervalPasses \/ BusChanges

Spec == Init /\ [][Next]_vars

\* Frames follow one another, the clock runs, and a worker whose device is
\* gone finds out (FaultEndsRun and the transfer timeouts of AcquisitionLoop).
\* Nobody is obliged to use a control or to plug anything in.
WorkerLosesDevice == /\ WorkerReports
                     /\ threadsHandle \notin OnBus
                     /\ state' \in Terminal

FairSpec == /\ Spec
            /\ WF_vars(Frame)
            /\ WF_vars(PresenceIntervalPasses)
            /\ WF_vars(WorkerLosesDevice)

-----------------------------------------------------------------------------
\* Whoever closes the connection has joined the threads first, whichever of
\* the fault handler, the presence check, the buttons, demo mode and the
\* shutdown it is; and a run that has threads is shown as running
\* (main.cpp lines 753-763, 782-785, 1057-1060, 1262-1265, 1298-1304 and
\* 1339-1342; acquisition_loop.h line 115).
ThreadsHaveConnection ==
    threads => /\ usbConnection.isConnected
               /\ usbConnection.handle = threadsHandle
               /\ acquisitionRunning
               /\ ~demoMode

\* The program ends with its threads joined and everything given back to
\* libusb, although the shutdown looks only at isConnected
\* (main.cpp lines 1057-1060).
ExitReleasesAll ==
    framePc = "ended" =>
        /\ ~threads
        /\ libusb = [contexts |-> 0, lists |-> 0, handles |-> 0, claims |-> 0]

\* Between two controls the recorded identity is that of the open handle: the
\* presence check compares it with its scans and the scaling profile is
\* chosen by it (main.cpp lines 816-838, 1091-1113 and 1298-1302).
IdentityFollowsHandle ==
    framePc \in {"fault", "presence", "controls"} =>
        connectedDevice = usbConnection.handle

\* The status line never claims a connection there is not, nor denies the one
\* there is (main.cpp lines 778-845, 1253-1272, 1298-1320 and 1337-1361).
StatusIsTrue ==
    framePc \in {"fault", "presence", "controls"} =>
        /\ deviceStatus = "Connected" => usbConnection.isConnected
        /\ usbConnection.isConnected =>
              deviceStatus \in {"Connected", "Acquisition stopped"}

\* The scan of this step is a success that passed a device over.
DescriptorUnread == scanFailures' # scanFailures /\ usbScanResult'.success

\* Without a control being used, a connection is closed only when its device
\* has left the bus: neither a stale scan, a scan that failed, nor a fault
\* report from an earlier device closes a new one (main.cpp lines 1252-1266
\* and 1295-1304).  The one exception is in the presence check: a device that
\* the scan passed over is taken to be gone (usb_device.cpp lines 198-222).
PresentDeviceKept ==
    [][(/\ framePc \in {"closeLost", "presence"}
        /\ usbConnection.isConnected
        /\ ~usbConnection'.isConnected)
          => \/ usbConnection.handle \notin OnBus
             \/ framePc = "presence" /\ DescriptorUnread]_vars

\* A device that leaves the bus is noticed, in a run by the worker and outside
\* by the presence check, however the user starts and stops runs
\* (main.cpp lines 480-498).
LossIsNoticed ==
    usbConnection.isConnected /\ usbConnection.handle \notin OnBus
        ~> ~usbConnection.isConnected

\* Connect comes back to the frame loop although the instrument never
\* re-enumerates (usb_device.cpp lines 305-350).
ConnectEnds == framePc = "connecting" ~> framePc # "connecting"

\* The instrument connected is the one asked for: a scan names bus and address
\* "allowing multiple identical instruments to be distinguished"
\* (docs/mainpage.md lines 57-60, usb_device.h lines 146-151).
OpensRequestedInstrument ==
    result = "eConnected" =>
        usbConnection.handle.instrument = deviceInfo.instrument

\* A fault is handled when the worker has found one: handleAcquisitionFault
\* "Handles a terminal acquisition fault detected on the worker"
\* (main.cpp line 312), so that there is a worker to join.
FaultIsTheWorkers ==
    [][framePc = "fault" /\ acquisitionRunning /\ ~acquisitionRunning'
         => threads]_vars
=============================================================================
