-------------------------- MODULE ApplicationProofs --------------------------
(***************************************************************************)
(* What the session guarantees for every number of instruments, of scans   *)
(* after a firmware upload and of addresses.                               *)
(***************************************************************************)
EXTENDS Application, TLAPS

USE ConnectionAssumption, ApplicationAssumption

-----------------------------------------------------------------------------
(***************************************************************************)
(* The inductive invariant, in four parts: what connectToDevice holds at   *)
(* each of its steps, which decides what libusb has handed out; where the  *)
(* threads may be alive; which identity is recorded; and which devices     *)
(* are known to be gone.                                                   *)
(***************************************************************************)
CallOK ==
    /\ connectPc \in {"idle", "init"} => ~context
    /\ connectPc \in {"idle", "init", "find", "rescan"} => ~deviceList.held
    /\ connectPc \in {"idle", "init", "find", "upload", "rescan", "open"} =>
          handle = NoDevice
    /\ connectPc \in {"find", "upload", "rescan", "open", "claim",
                      "setInterface"} => context
    /\ connectPc \in {"upload", "open"} => deviceList.held
    /\ connectPc = "open" => /\ device \in deviceList.devices
                            /\ device.vendorId = "operational"
    /\ connectPc \in {"claim", "setInterface"} =>
          handle # NoDevice /\ handle.vendorId = "operational"
    /\ connectPc \notin {"idle", "cleanup"} => ~usbConnection.isConnected
    /\ usbConnection.isConnected =>
          /\ usbConnection.handle # NoDevice
          /\ usbConnection.handle.vendorId = "operational"
    /\ ~usbConnection.isConnected => usbConnection.handle = NoDevice
    /\ result = "eConnected" => usbConnection.isConnected

Closing == {"closeLost", "connecting", "disconnect", "demoDisconnect", "ended"}

SessionOK ==
    /\ framePc # "connecting" => connectPc = "idle" /\ result = "eDisconnected"
    /\ framePc \in Closing => ~threads
    /\ framePc \in {"closeLost", "disconnect"} => ~acquisitionRunning
    /\ framePc = "ended" => ~usbConnection.isConnected
    /\ framePc = "connecting" =>
          /\ connectedDevice = NoDevice
          /\ usbConnection.isConnected => result = "eConnected"
          /\ ~demoMode
    /\ demoMode /\ framePc # "demoDisconnect" => ~usbConnection.isConnected
    /\ acquisitionRunning /\ framePc # "ended" => threads \/ demoMode
    /\ framePc \in {"fault", "presence", "controls"} =>
          connectedDevice = usbConnection.handle

\* Addresses grow, so that a device which has left the bus stays away.
Known(d) == d = NoDevice \/ d.address \in 1 .. lastAddress

GoneOK ==
    /\ \A i \in Instrument : bus[i] \in Device => Known(bus[i])
    /\ \A d \in usbScanResult.devices \cup deviceList.devices : Known(d)
    /\ Known(device) /\ Known(handle) /\ Known(deviceInfo)
    /\ Known(usbConnection.handle) /\ Known(threadsHandle)
    /\ threads /\ state = "eDeviceLost" => threadsHandle \notin OnBus
    /\ framePc = "closeLost" /\ usbConnection.isConnected =>
          usbConnection.handle \notin OnBus

IInv == /\ TypeOK
        /\ CallOK
        /\ NothingLeaks
        /\ ThreadsHaveConnection
        /\ SessionOK
        /\ GoneOK

LEMMA DevicesOnBus ==
    ASSUME UsbTypeOK
    PROVE  OnBus \subseteq Device
BY DEF UsbTypeOK, OnBus

LEMMA NoDeviceIsNone == NoDevice \notin Device
BY DEF NoDevice, Device

-----------------------------------------------------------------------------
\* Each part holds at first and is kept by every step.

LEMMA StatusText ==
    ASSUME NEW scan \in [success : BOOLEAN, devices : SUBSET Device],
           NEW isConnected \in BOOLEAN
    PROVE  ConnectionStatusText(scan, isConnected) \in DeviceStatus
<1>1. scan.success \in BOOLEAN
  OBVIOUS
<1> QED BY <1>1 DEF ConnectionStatusText, DeviceStatus

LEMMA InitInv == Init => IInv
<1> SUFFICES ASSUME Init PROVE IInv
  OBVIOUS
<1> USE DEF Init, UsbInit
<1>1. usbScanResult \in [success : BOOLEAN, devices : SUBSET Device]
  OBVIOUS
<1>2. UsbTypeOK
  <2>1. bus \in [Instrument -> Device \cup {Absent, Restarting}]
    OBVIOUS
  <2>2. usbConnection \in [handle : Device \cup {NoDevice},
                            isConnected : BOOLEAN]
    BY DEF Closed
  <2>3. deviceList \in [held : BOOLEAN, devices : SUBSET Device]
    BY DEF NoList
  <2>4. lastAddress \in 0 .. MaxAddress
        /\ reenumerationAttempt \in 0 .. FwReenumAttempts
    OBVIOUS
  <2> QED
    BY <2>1, <2>2, <2>3, <2>4 DEF UsbTypeOK, ConnectStep, ConnectionStatus
<1>3. TypeOK
  <2>1. deviceStatus \in DeviceStatus
    BY <1>1, StatusText
  <2>2. scanFailures \in 0 .. MaxScanFailures
    OBVIOUS
  <2> QED BY <1>1, <1>2, <2>1, <2>2 DEF TypeOK, FramePlace, AcquisitionState
<1>4. CallOK /\ NothingLeaks
  BY DEF CallOK, NothingLeaks, Count, Closed, NoList
<1>5. ThreadsHaveConnection /\ SessionOK
  BY DEF ThreadsHaveConnection, SessionOK, Closing, Closed
<1>6. Absent \notin Device
  BY DEF Absent, NoDevice, Device
<1>7. GoneOK
  BY <1>6 DEF GoneOK, Known, Closed, NoList
<1> QED BY <1>3, <1>4, <1>5, <1>7 DEF IInv

\* libusb and the locals of connectToDevice.
LEMMA StepCall ==
    ASSUME UsbTypeOK, CallOK, SessionOK, [Next]_vars
    PROVE  CallOK'
<1> USE DevicesOnBus, NoDeviceIsNone
<1> USE DEF UsbTypeOK, CallOK, SessionOK, Closed, NoList, usbVars, busVars,
            connectVars, locals
<1>1. CASE HandleAcquisitionFault
  BY <1>1 DEF HandleAcquisitionFault, JoinThreads
<1>2. CASE CloseLostDevice
  BY <1>2 DEF CloseLostDevice, Disconnect
<1>3. CASE SkipPresence
  BY <1>3 DEF SkipPresence
<1>4. CASE PollUsbPresence
  <2>1. usbConnection' = Closed \/ UNCHANGED usbConnection
    BY <1>4 DEF PollUsbPresence, Disconnect
  <2>2. UNCHANGED connectVars /\ framePc # "connecting"
    BY <1>4 DEF PollUsbPresence
  <2> QED BY <2>1, <2>2
<1>5. CASE NoClick
  BY <1>5 DEF NoClick
<1>6. CASE Quit
  BY <1>6 DEF Quit
<1>7. CASE StopButton
  BY <1>7 DEF StopButton, StopAcquisitionLoop, JoinThreads
<1>8. CASE StartButton
  BY <1>8 DEF StartButton
<1>9. CASE DisconnectButton
  BY <1>9 DEF DisconnectButton, StopAcquisitionLoop, JoinThreads
<1>10. CASE CloseConnection
  BY <1>10 DEF CloseConnection, Disconnect
<1>11. CASE ConnectButton
  BY <1>11 DEF ConnectButton, ConnectCall, Goto, Fail, Disconnect
<1>12. CASE ConnectReturns
  <2>1. usbConnection' = Closed \/ UNCHANGED usbConnection
    BY <1>12 DEF ConnectReturns, Disconnect
  <2>2. /\ UNCHANGED <<connectPc, context, deviceList, device, handle>>
        /\ connectPc = "idle" /\ result' = "eDisconnected"
    BY <1>12 DEF ConnectReturns
  <2> QED BY <2>1, <2>2
<1>13. CASE EnableDemo
  BY <1>13 DEF EnableDemo, StopAcquisitionLoop, JoinThreads
<1>14. CASE DemoCloses
  BY <1>14 DEF DemoCloses, Disconnect
<1>15. CASE DisableDemo
  BY <1>15 DEF DisableDemo, Scan
<1>16. CASE Shutdown
  BY <1>16 DEF Shutdown, StopAcquisitionLoop, JoinThreads, Disconnect
<1>17. CASE Ended
  BY <1>17 DEF Ended, vars
<1>18. CASE WorkerReports
  BY <1>18 DEF WorkerReports
<1>19. CASE PresenceIntervalPasses
  BY <1>19 DEF PresenceIntervalPasses
<1>20. CASE BusChanges
  BY <1>20 DEF BusChanges, Bus, Appear, Vanish, Enumerates
<1>21. CASE UNCHANGED vars
  BY <1>21 DEF vars
<1>22. CASE ConnectProgress
  <2>1. CASE InitContext
    BY <1>22, <2>1 DEF InitContext, Goto, Fail, ConnectProgress
  <2>2. CASE FindRequested
    <3>1. /\ UNCHANGED <<usbConnection, context, handle>>
          /\ connectPc = "find"
          /\ \/ connectPc' = "upload" /\ deviceList'.held
             \/ /\ connectPc' = "open" /\ deviceList'.held
                /\ device' \in deviceList'.devices
                /\ device'.vendorId = "operational"
             \/ connectPc' = "cleanup"
          /\ result' # "eConnected" \/ UNCHANGED result
      BY <1>22, <2>2 DEF FindRequested, GetDeviceList, Goto, Fail, Device
    <3> QED BY <3>1
  <2>3. CASE UploadFirmware
    BY <1>22, <2>3 DEF UploadFirmware, Goto, Fail, ConnectProgress
  <2>4. CASE Rescan
    BY <1>22, <2>4 DEF Rescan, Goto, Fail, GetDeviceList, ConnectProgress
  <2>5. CASE Open
    BY <1>22, <2>5 DEF Open, Goto, Fail, ConnectProgress
  <2>6. CASE Claim
    BY <1>22, <2>6 DEF Claim, Goto, Fail, ConnectProgress
  <2>7. CASE SetInterface
    <3>1. connectPc = "setInterface" /\ connectPc' = "cleanup"
      BY <1>22, <2>7 DEF SetInterface, Goto, Fail
    <3>2. \/ usbConnection' = [handle |-> handle, isConnected |-> TRUE]
          \/ result' = "eSetInterfaceFailed" /\ UNCHANGED usbConnection
      BY <1>22, <2>7 DEF SetInterface, Fail
    <3> QED BY <3>1, <3>2
  <2>8. CASE Cleanup
    BY <1>22, <2>8 DEF Cleanup, Goto, Fail, ConnectProgress
  <2> QED BY <1>22, <2>1, <2>2, <2>3, <2>4, <2>5, <2>6, <2>7, <2>8 DEF
    ConnectProgress, ConnectStepTaken
<1> QED BY <1>1, <1>2, <1>3, <1>4, <1>5, <1>6, <1>7, <1>8, <1>9, <1>10,
  <1>11, <1>12, <1>13, <1>14, <1>15, <1>16, <1>17, <1>18, <1>19, <1>20,
  <1>21, <1>22 DEF Next, Frame

\* What libusb has handed out.
LEMMA DisconnectLeaks ==
    ASSUME UsbTypeOK, CallOK, NothingLeaks, connectPc = "idle", Disconnect,
           UNCHANGED <<connectPc, context, deviceList, handle>>
    PROVE  NothingLeaks'
<1>1. ~context /\ ~deviceList.held /\ handle = NoDevice
  BY DEF CallOK
<1>2. /\ Count(context) = 0 /\ Count(deviceList.held) = 0
      /\ Count(handle # NoDevice) = 0 /\ Count(connectPc = "setInterface") = 0
  BY <1>1 DEF Count
<1>3. ~usbConnection'.isConnected
  BY DEF Disconnect, Closed
<1>4. libusb' = [contexts |-> 0, lists |-> 0, handles |-> 0, claims |-> 0]
  <2>1. CASE usbConnection.isConnected
    <3>1. Count(usbConnection.isConnected) = 1
      BY <2>1 DEF Count
    <3>2. libusb = [contexts |-> 1, lists |-> 0, handles |-> 1, claims |-> 1]
      BY <1>2, <3>1 DEF NothingLeaks
    <3> QED BY <2>1, <3>2 DEF Disconnect
  <2>2. CASE ~usbConnection.isConnected
    <3>1. Count(usbConnection.isConnected) = 0
      BY <2>2 DEF Count
    <3>2. libusb = [contexts |-> 0, lists |-> 0, handles |-> 0, claims |-> 0]
      BY <1>2, <3>1 DEF NothingLeaks
    <3> QED BY <2>2, <3>2 DEF Disconnect
  <2> QED BY <2>1, <2>2
<1> QED BY <1>1, <1>3, <1>4 DEF NothingLeaks, Count

LEMMA StepLeaks ==
    ASSUME UsbTypeOK, CallOK, NothingLeaks, SessionOK, [Next]_vars
    PROVE  NothingLeaks'
<1>0. framePc # "connecting" => connectPc = "idle"
  BY DEF SessionOK
<1>a. ASSUME connectPc = "idle",
             Disconnect \/ UNCHANGED <<usbConnection, libusb>>,
             UNCHANGED <<connectPc, context, deviceList, handle>>
      PROVE  NothingLeaks'
  <2>1. CASE Disconnect
    BY <1>a, <2>1, DisconnectLeaks
  <2>2. CASE UNCHANGED <<usbConnection, libusb>>
    BY <1>a, <2>2 DEF NothingLeaks, Count
  <2> QED BY <1>a, <2>1, <2>2
<1>b. ASSUME UNCHANGED <<usbConnection, libusb, connectPc, context,
                         deviceList, handle>>
      PROVE  NothingLeaks'
  BY <1>b DEF NothingLeaks, Count
<1>c. framePc = "connecting" \/ connectPc = "idle"
  BY DEF SessionOK
<1>1. CASE HandleAcquisitionFault
  BY <1>1, <1>b DEF HandleAcquisitionFault, usbVars, connectVars, locals
<1>2. CASE CloseLostDevice
  <2>1. framePc # "connecting" \/ connectPc = "idle"
    BY <1>2 DEF CloseLostDevice
  <2>2. /\ Disconnect \/ UNCHANGED <<usbConnection, libusb>>
        /\ UNCHANGED <<connectPc, context, deviceList, handle>>
    BY <1>2 DEF CloseLostDevice, connectVars, locals
  <2> QED BY <1>0, <1>a, <2>1, <2>2
<1>3. CASE SkipPresence
  BY <1>3, <1>b DEF SkipPresence, usbVars, connectVars, locals
<1>4. CASE PollUsbPresence
  <2>1. framePc # "connecting" \/ connectPc = "idle"
    BY <1>4 DEF PollUsbPresence
  <2>2. /\ Disconnect \/ UNCHANGED <<usbConnection, libusb>>
        /\ UNCHANGED <<connectPc, context, deviceList, handle>>
    BY <1>4 DEF PollUsbPresence, connectVars, locals
  <2> QED BY <1>0, <1>a, <2>1, <2>2
<1>5. CASE NoClick
  BY <1>5, <1>b DEF NoClick, usbVars, connectVars, locals
<1>6. CASE Quit
  BY <1>6, <1>b DEF Quit, usbVars, connectVars, locals
<1>7. CASE StopButton
  BY <1>7, <1>b DEF StopButton, usbVars, connectVars, locals
<1>8. CASE StartButton
  BY <1>8, <1>b DEF StartButton, usbVars, connectVars, locals
<1>9. CASE DisconnectButton
  BY <1>9, <1>b DEF DisconnectButton, usbVars, connectVars, locals
<1>10. CASE CloseConnection
  <2>1. framePc # "connecting" \/ connectPc = "idle"
    BY <1>10 DEF CloseConnection
  <2>2. /\ Disconnect \/ UNCHANGED <<usbConnection, libusb>>
        /\ UNCHANGED <<connectPc, context, deviceList, handle>>
    BY <1>10 DEF CloseConnection, connectVars, locals
  <2> QED BY <1>0, <1>a, <2>1, <2>2
<1>11. CASE ConnectButton
  <2>1. /\ Disconnect \/ UNCHANGED <<usbConnection, libusb>>
        /\ UNCHANGED <<context, deviceList, handle>>
        /\ connectPc = "idle" /\ connectPc' \in {"init", "cleanup"}
        /\ ~usbConnection.isConnected
    BY <1>11 DEF ConnectButton, ConnectCall, Goto, Fail
  <2>2. UNCHANGED <<usbConnection, libusb>>
    BY <1>11 DEF ConnectButton, ConnectCall
  <2> QED BY <2>1, <2>2 DEF NothingLeaks, Count
<1>12. CASE ConnectReturns
  <2>1. framePc # "connecting" \/ connectPc = "idle"
    BY <1>12 DEF ConnectReturns
  <2>2. /\ Disconnect \/ UNCHANGED <<usbConnection, libusb>>
        /\ UNCHANGED <<connectPc, context, deviceList, handle>>
    BY <1>12 DEF ConnectReturns, connectVars, locals
  <2> QED BY <1>0, <1>a, <2>1, <2>2
<1>13. CASE EnableDemo
  BY <1>13, <1>b DEF EnableDemo, usbVars, connectVars, locals
<1>14. CASE DemoCloses
  <2>1. framePc # "connecting" \/ connectPc = "idle"
    BY <1>14 DEF DemoCloses
  <2>2. /\ Disconnect \/ UNCHANGED <<usbConnection, libusb>>
        /\ UNCHANGED <<connectPc, context, deviceList, handle>>
    BY <1>14 DEF DemoCloses, connectVars, locals
  <2> QED BY <1>0, <1>a, <2>1, <2>2
<1>15. CASE DisableDemo
  BY <1>15, <1>b DEF DisableDemo, usbVars, connectVars, locals
<1>16. CASE Shutdown
  <2>1. framePc # "connecting" \/ connectPc = "idle"
    BY <1>16 DEF Shutdown
  <2>2. /\ Disconnect \/ UNCHANGED <<usbConnection, libusb>>
        /\ UNCHANGED <<connectPc, context, deviceList, handle>>
    BY <1>16 DEF Shutdown, connectVars, locals
  <2> QED BY <1>0, <1>a, <2>1, <2>2
<1>17. CASE Ended
  BY <1>17, <1>b DEF Ended, vars, usbVars, connectVars, locals
<1>18. CASE WorkerReports
  BY <1>18, <1>b DEF WorkerReports, usbVars, connectVars, locals
<1>19. CASE PresenceIntervalPasses
  BY <1>19, <1>b DEF PresenceIntervalPasses, usbVars, connectVars, locals
<1>20. CASE BusChanges
  BY <1>20, <1>b DEF BusChanges, Bus, Appear, Vanish, usbVars, connectVars,
    locals
<1>21. CASE UNCHANGED vars
  BY <1>21, <1>b DEF vars, usbVars, connectVars, locals
<1>22. CASE ConnectProgress
  <2>1. CASE InitContext
    BY <1>22, <2>1 DEF InitContext, Goto, Fail, UsbTypeOK, CallOK, NothingLeaks,
      Count, NoList, locals
  <2>2. CASE FindRequested
    BY <1>22, <2>2 DEF FindRequested, Goto, Fail, GetDeviceList, UsbTypeOK, CallOK,
      NothingLeaks, Count, NoList, locals
  <2>3. CASE UploadFirmware
    BY <1>22, <2>3 DEF UploadFirmware, Goto, Fail, UsbTypeOK, CallOK, NothingLeaks,
      Count, NoList, locals
  <2>4. CASE Rescan
    <3>1. /\ connectPc = "rescan" /\ connectPc' # "setInterface"
          /\ ~deviceList.held /\ UNCHANGED <<usbConnection, context, handle>>
          /\ \/ deviceList'.held /\ libusb' = [libusb EXCEPT !.lists = @ + 1]
             \/ UNCHANGED <<deviceList, libusb>>
      BY <1>22, <2>4
      DEF Rescan, Goto, Fail, GetDeviceList, CallOK, locals
    <3>2. libusb = [contexts |-> libusb.contexts, lists |-> 0,
                    handles |-> libusb.handles, claims |-> libusb.claims]
      BY <3>1 DEF NothingLeaks, Count
    <3>3. CASE /\ deviceList'.held
               /\ libusb' = [libusb EXCEPT !.lists = @ + 1]
      <4>1. libusb' = [contexts |-> libusb.contexts, lists |-> 1,
                       handles |-> libusb.handles, claims |-> libusb.claims]
        BY <3>2, <3>3
      <4> QED BY <3>1, <3>3, <4>1 DEF NothingLeaks, Count
    <3>4. CASE UNCHANGED <<deviceList, libusb>>
      BY <3>1, <3>4 DEF NothingLeaks, Count
    <3> QED BY <3>1, <3>3, <3>4
  <2>5. CASE Open
    <3>1. /\ connectPc = "open" /\ connectPc' # "setInterface"
          /\ handle = NoDevice
          /\ UNCHANGED <<usbConnection, context, deviceList>>
          /\ \/ /\ device \in OnBus /\ handle' = device
                /\ libusb' = [libusb EXCEPT !.handles = @ + 1]
             \/ UNCHANGED <<handle, libusb>>
      BY <1>22, <2>5 DEF Open, Goto, Fail, CallOK
    <3>2. libusb = [contexts |-> libusb.contexts, lists |-> libusb.lists,
                    handles |-> 0, claims |-> libusb.claims]
      BY <3>1 DEF NothingLeaks, Count, CallOK
    <3>3. CASE /\ device \in OnBus /\ handle' = device
               /\ libusb' = [libusb EXCEPT !.handles = @ + 1]
      <4>1. libusb' = [contexts |-> libusb.contexts, lists |-> libusb.lists,
                       handles |-> 1, claims |-> libusb.claims]
        BY <3>2, <3>3
      <4>2. handle' # NoDevice
        BY <3>3, DevicesOnBus, NoDeviceIsNone
      <4> QED BY <3>1, <4>1, <4>2 DEF NothingLeaks, Count, CallOK
    <3>4. CASE UNCHANGED <<handle, libusb>>
      BY <3>1, <3>4 DEF NothingLeaks, Count
    <3> QED BY <3>1, <3>3, <3>4
  <2>6. CASE Claim
    BY <1>22, <2>6 DEF Claim, Goto, Fail, UsbTypeOK, CallOK, NothingLeaks, Count,
      NoList, locals
  <2>7. CASE SetInterface
    <3>1. /\ connectPc = "setInterface" /\ connectPc' = "cleanup"
          /\ UNCHANGED deviceList
      BY <1>22, <2>7 DEF SetInterface, Goto, Fail
    <3>2. ~usbConnection.isConnected /\ context /\ handle # NoDevice
      BY <3>1 DEF CallOK
    <3>3. libusb = [contexts |-> 1, lists |-> Count(deviceList.held),
                    handles |-> 1, claims |-> 1]
      BY <3>1, <3>2 DEF NothingLeaks, Count
    <3>4. CASE /\ usbConnection' = [handle |-> handle, isConnected |-> TRUE]
               /\ context' = FALSE /\ handle' = NoDevice
               /\ UNCHANGED libusb
      BY <3>1, <3>3, <3>4 DEF NothingLeaks, Count
    <3>5. CASE /\ libusb' = [libusb EXCEPT !.claims = @ - 1]
               /\ UNCHANGED <<usbConnection, context, handle>>
      <4>1. libusb' = [contexts |-> 1, lists |-> Count(deviceList.held),
                       handles |-> 1, claims |-> 0]
        BY <3>3, <3>5
      <4> QED BY <3>1, <3>2, <3>5, <4>1 DEF NothingLeaks, Count
    <3> QED BY <1>22, <2>7, <3>4, <3>5 DEF SetInterface
  <2>8. CASE Cleanup
    <3>1. /\ connectPc = "cleanup" /\ connectPc' = "idle"
          /\ ~context' /\ ~deviceList'.held /\ handle' = NoDevice
          /\ UNCHANGED usbConnection
      BY <1>22, <2>8 DEF Cleanup, Goto, NoList
    <3>2. libusb' = [contexts |-> libusb.contexts - Count(context),
                     lists    |-> libusb.lists - Count(deviceList.held),
                     handles  |-> libusb.handles - Count(handle # NoDevice),
                     claims   |-> libusb.claims]
      BY <1>22, <2>8 DEF Cleanup, UsbTypeOK, Count
    <3>3. /\ libusb.contexts = Count(usbConnection.isConnected) + Count(context)
          /\ libusb.lists = Count(deviceList.held)
          /\ libusb.handles = Count(usbConnection.isConnected)
                                + Count(handle # NoDevice)
          /\ libusb.claims = Count(usbConnection.isConnected) + 0
      BY <3>1 DEF NothingLeaks, Count
    <3>4. libusb' = [contexts |-> Count(usbConnection.isConnected),
                     lists    |-> 0,
                     handles  |-> Count(usbConnection.isConnected),
                     claims   |-> Count(usbConnection.isConnected)]
      <4>1. \A c : Count(c) \in {0, 1}
        BY DEF Count
      <4> QED BY <3>2, <3>3, <4>1
    <3>5. /\ Count(context') = 0 /\ Count(deviceList'.held) = 0
          /\ Count(handle' # NoDevice) = 0
          /\ Count(connectPc' = "setInterface") = 0
      BY <3>1 DEF Count
    <3>6. \A c : Count(c) \in {0, 1}
      BY DEF Count
    <3> QED BY <3>1, <3>4, <3>5, <3>6 DEF NothingLeaks
  <2> QED BY <1>22, <2>1, <2>2, <2>3, <2>4, <2>5, <2>6, <2>7, <2>8 DEF
    ConnectProgress, ConnectStepTaken
<1> QED BY <1>1, <1>2, <1>3, <1>4, <1>5, <1>6, <1>7, <1>8, <1>9, <1>10,
  <1>11, <1>12, <1>13, <1>14, <1>15, <1>16, <1>17, <1>18, <1>19, <1>20,
  <1>21, <1>22 DEF Next, Frame

\* Threads and connection.
LEMMA StepThreads ==
    ASSUME TypeOK, CallOK, ThreadsHaveConnection, SessionOK, [Next]_vars
    PROVE  ThreadsHaveConnection'
<1> USE DEF TypeOK, UsbTypeOK, ThreadsHaveConnection, CallOK, SessionOK,
            Closing, Closed, usbVars, acquisition, session
<1>1. CASE HandleAcquisitionFault
  BY <1>1 DEF HandleAcquisitionFault, JoinThreads
<1>2. CASE CloseLostDevice
  BY <1>2 DEF CloseLostDevice, Disconnect
<1>3. CASE SkipPresence
  BY <1>3 DEF SkipPresence
<1>4. CASE PollUsbPresence
  BY <1>4 DEF PollUsbPresence, PresenceChecked, Vanished, Scan, Disconnect
<1>5. CASE NoClick
  BY <1>5 DEF NoClick
<1>6. CASE Quit
  BY <1>6 DEF Quit
<1>7. CASE StopButton
  BY <1>7 DEF StopButton, StopAcquisitionLoop, JoinThreads
<1>8. CASE StartButton
  BY <1>8 DEF StartButton
<1>9. CASE DisconnectButton
  BY <1>9 DEF DisconnectButton, StopAcquisitionLoop, JoinThreads
<1>10. CASE CloseConnection
  BY <1>10 DEF CloseConnection, Disconnect
<1>11. CASE ConnectButton
  BY <1>11 DEF ConnectButton, ConnectCall, Goto, Fail, Disconnect
<1>12. CASE ConnectReturns
  BY <1>12 DEF ConnectReturns, Disconnect
<1>13. CASE EnableDemo
  BY <1>13 DEF EnableDemo, StopAcquisitionLoop, JoinThreads
<1>14. CASE DemoCloses
  BY <1>14 DEF DemoCloses, Disconnect
<1>15. CASE DisableDemo
  BY <1>15 DEF DisableDemo, Scan
<1>16. CASE Shutdown
  BY <1>16 DEF Shutdown, StopAcquisitionLoop, JoinThreads, Disconnect
<1>17. CASE Ended
  BY <1>17 DEF Ended, vars
<1>18. CASE WorkerReports
  BY <1>18 DEF WorkerReports
<1>19. CASE PresenceIntervalPasses
  BY <1>19 DEF PresenceIntervalPasses
<1>20. CASE BusChanges
  BY <1>20 DEF BusChanges, Bus, Appear, Vanish, Enumerates
<1>21. CASE UNCHANGED vars
  BY <1>21 DEF vars
<1>22. CASE ConnectProgress
  BY <1>22 DEF ConnectProgress
<1> QED BY <1>1, <1>2, <1>3, <1>4, <1>5, <1>6, <1>7, <1>8, <1>9, <1>10,
  <1>11, <1>12, <1>13, <1>14, <1>15, <1>16, <1>17, <1>18, <1>19, <1>20,
  <1>21, <1>22 DEF Next, Frame

\* Where the session is, and the identity it has recorded.
LEMMA StepSession ==
    ASSUME TypeOK, CallOK, ThreadsHaveConnection, SessionOK, [Next]_vars
    PROVE  SessionOK'
<1> USE DEF TypeOK, UsbTypeOK, ThreadsHaveConnection, CallOK, SessionOK,
            Closing, Closed, usbVars, connectVars, locals, acquisition,
            session, Enter, FrameEnds
<1>1. CASE HandleAcquisitionFault
  <2>1. /\ framePc = "fault" /\ framePc' \in {"closeLost", "presence"}
        /\ UNCHANGED <<usbConnection, connectedDevice, demoMode, connectVars>>
    BY <1>1 DEF HandleAcquisitionFault
  <2>2. \/ ~threads' /\ ~acquisitionRunning'
        \/ /\ UNCHANGED <<threads, acquisitionRunning>>
           /\ framePc' = "presence"
    BY <1>1 DEF HandleAcquisitionFault, JoinThreads
  <2> QED BY <2>1, <2>2
<1>2. CASE CloseLostDevice
  BY <1>2 DEF CloseLostDevice, Disconnect
<1>3. CASE SkipPresence
  BY <1>3 DEF SkipPresence
<1>4. CASE PollUsbPresence
  <2>1. /\ framePc = "presence" /\ framePc' = "controls"
        /\ UNCHANGED <<threads, acquisitionRunning, demoMode, connectVars>>
        /\ connectedDevice = usbConnection.handle
    BY <1>4 DEF PollUsbPresence
  <2>2. \/ usbConnection' = Closed /\ connectedDevice' = NoDevice
        \/ UNCHANGED <<usbConnection, connectedDevice>>
    BY <1>4 DEF PollUsbPresence, Disconnect
  <2> QED BY <2>1, <2>2
<1>5. CASE NoClick
  BY <1>5 DEF NoClick
<1>6. CASE Quit
  BY <1>6 DEF Quit
<1>7. CASE StopButton
  BY <1>7 DEF StopButton, StopAcquisitionLoop, JoinThreads
<1>8. CASE StartButton
  BY <1>8 DEF StartButton
<1>9. CASE DisconnectButton
  BY <1>9 DEF DisconnectButton, StopAcquisitionLoop, JoinThreads
<1>10. CASE CloseConnection
  BY <1>10 DEF CloseConnection, Disconnect
<1>11. CASE ConnectButton
  BY <1>11 DEF ConnectButton, ConnectCall, Goto, Fail, Disconnect
<1>12. CASE ConnectReturns
  <2>1. /\ framePc = "connecting" /\ framePc' \in {"fault", "exitDisconnect"}
        /\ connectPc' = "idle" /\ result' = "eDisconnected"
        /\ UNCHANGED <<threads, acquisitionRunning, demoMode>>
    BY <1>12 DEF ConnectReturns
  <2>2. \/ connectedDevice' = usbConnection.handle /\ UNCHANGED usbConnection
        \/ usbConnection' = Closed /\ UNCHANGED connectedDevice
        \/ /\ result # "eConnected"
           /\ UNCHANGED <<usbConnection, connectedDevice>>
    BY <1>12 DEF ConnectReturns, Disconnect
  <2> QED BY <2>1, <2>2
<1>13. CASE EnableDemo
  BY <1>13 DEF EnableDemo, StopAcquisitionLoop, JoinThreads
<1>14. CASE DemoCloses
  BY <1>14 DEF DemoCloses, Disconnect
<1>15. CASE DisableDemo
  BY <1>15 DEF DisableDemo, Scan
<1>16. CASE Shutdown
  BY <1>16 DEF Shutdown, StopAcquisitionLoop, JoinThreads, Disconnect
<1>17. CASE Ended
  BY <1>17 DEF Ended, vars
<1>18. CASE WorkerReports
  BY <1>18 DEF WorkerReports
<1>19. CASE PresenceIntervalPasses
  BY <1>19 DEF PresenceIntervalPasses
<1>20. CASE BusChanges
  BY <1>20 DEF BusChanges, Bus, Appear, Vanish, Enumerates
<1>21. CASE UNCHANGED vars
  BY <1>21 DEF vars
<1>22. CASE ConnectProgress
  <2>1. /\ framePc = "connecting" /\ framePc' = "connecting"
        /\ UNCHANGED <<threads, acquisitionRunning, demoMode,
                       connectedDevice>>
    BY <1>22 DEF ConnectProgress
  <2>2. \/ result' = "eConnected"
        \/ /\ UNCHANGED usbConnection
           /\ UNCHANGED result \/ connectPc \notin {"idle", "cleanup"}
    BY <1>22 DEF ConnectProgress, ConnectStepTaken, InitContext,
         FindRequested, UploadFirmware, Rescan, Open, Claim, SetInterface,
         Cleanup
  <2> QED BY <2>1, <2>2
<1> QED BY <1>1, <1>2, <1>3, <1>4, <1>5, <1>6, <1>7, <1>8, <1>9, <1>10,
  <1>11, <1>12, <1>13, <1>14, <1>15, <1>16, <1>17, <1>18, <1>19, <1>20,
  <1>21, <1>22 DEF Next, Frame

-----------------------------------------------------------------------------
\* What a step can do to the bus, the connection and the call in progress,
\* and what to the session.
LEMMA UsbEffects ==
    ASSUME [Next]_vars
    PROVE
    /\ \/ UNCHANGED busVars
       \/ Bus
       \/ /\ deviceInfo \in OnBus /\ UNCHANGED lastAddress
          /\ bus' = [bus EXCEPT ![deviceInfo.instrument] = Restarting]
    /\ usbConnection' \in {usbConnection, Closed,
                           [handle |-> handle, isConnected |-> TRUE]}
    /\ connectPc' \in ConnectStep \cup {connectPc}
    /\ result' \in ConnectionStatus \cup {result}
    /\ deviceInfo' \in {deviceInfo, NoDevice} \cup usbScanResult.devices
    /\ context' \in {context, TRUE, FALSE}
    /\ deviceList' \in {deviceList, NoList,
                        [held |-> TRUE, devices |-> OnBus]}
    /\ device' \in {device, NoDevice, deviceInfo} \cup OnBus
    /\ handle' \in {handle, NoDevice, device}
    /\ \/ reenumerationAttempt' \in {reenumerationAttempt, 0}
       \/ /\ reenumerationAttempt < FwReenumAttempts
          /\ reenumerationAttempt' = reenumerationAttempt + 1
<1> USE DEF vars, usbVars, busVars, connectVars, locals, Next, Frame,
            HandleAcquisitionFault, CloseLostDevice, SkipPresence,
            PollUsbPresence, NoClick, Quit, StopButton, StartButton,
            DisconnectButton, CloseConnection, ConnectButton, ConnectCall,
            ConnectReturns, EnableDemo, DemoCloses, DisableDemo, Shutdown,
            Ended, WorkerReports, PresenceIntervalPasses, BusChanges,
            ConnectProgress, ConnectStepTaken, InitContext, FindRequested,
            UploadFirmware, Rescan, Open, Claim, SetInterface, Cleanup,
            Disconnect, Goto, Fail, GetDeviceList
<1>1. \/ UNCHANGED busVars
      \/ Bus
      \/ /\ deviceInfo \in OnBus /\ UNCHANGED lastAddress
         /\ bus' = [bus EXCEPT ![deviceInfo.instrument] = Restarting]
  OBVIOUS
<1> USE DEF Bus, Appear, Vanish, Enumerates
<1>2. usbConnection' \in {usbConnection, Closed,
                          [handle |-> handle, isConnected |-> TRUE]}
  OBVIOUS
<1>3. /\ connectPc' \in ConnectStep \cup {connectPc}
      /\ result' \in ConnectionStatus \cup {result}
  BY DEF ConnectStep, ConnectionStatus
<1>4. /\ deviceInfo' \in {deviceInfo, NoDevice} \cup usbScanResult.devices
      /\ context' \in {context, TRUE, FALSE}
  OBVIOUS
<1>5. deviceList' \in {deviceList, NoList,
                       [held |-> TRUE, devices |-> OnBus]}
  OBVIOUS
<1>6. /\ device' \in {device, NoDevice, deviceInfo} \cup OnBus
      /\ handle' \in {handle, NoDevice, device}
  OBVIOUS
<1>7. \/ reenumerationAttempt' \in {reenumerationAttempt, 0}
      \/ /\ reenumerationAttempt < FwReenumAttempts
         /\ reenumerationAttempt' = reenumerationAttempt + 1
  OBVIOUS
<1> QED BY <1>1, <1>2, <1>3, <1>4, <1>5, <1>6, <1>7

LEMMA SessionEffects ==
    ASSUME [Next]_vars
    PROVE
    /\ framePc' \in FramePlace \cup {framePc}
    /\ running' \in BOOLEAN \cup {running}
    /\ demoMode' \in BOOLEAN \cup {demoMode}
    /\ acquisitionRunning' \in BOOLEAN \cup {acquisitionRunning}
    /\ deviceWasDisconnected' \in BOOLEAN \cup {deviceWasDisconnected}
    /\ \/ usbScanResult' = usbScanResult
       \/ \E s \in BOOLEAN : \E read \in SUBSET OnBus :
             usbScanResult' = [success |-> s, devices |-> read]
    /\ connectedDevice' \in {connectedDevice, NoDevice,
                             usbConnection.handle}
    /\ \/ deviceStatus' \in DeviceStatus \cup {deviceStatus}
       \/ \E isConnected \in {FALSE, usbConnection.isConnected} :
             deviceStatus' \in
               {ConnectionStatusText(usbScanResult, isConnected),
                ConnectionStatusText(usbScanResult', isConnected)}
    /\ presenceDue' \in BOOLEAN \cup {presenceDue}
    /\ threads' \in BOOLEAN \cup {threads}
    /\ threadsHandle' \in {threadsHandle, NoDevice, usbConnection.handle}
    /\ state' \in AcquisitionState \cup {state}
    /\ \/ UNCHANGED scanFailures
       \/ /\ scanFailures < MaxScanFailures
          /\ scanFailures' = scanFailures + 1
<1> USE DEF vars, session, acquisition, Next, Frame, Enter, FrameEnds,
            HandleAcquisitionFault, CloseLostDevice, SkipPresence,
            PollUsbPresence, NoClick, Quit, StopButton, StartButton,
            DisconnectButton, CloseConnection, ConnectButton,
            ConnectReturns, EnableDemo, DemoCloses, DisableDemo, Shutdown,
            Ended, WorkerReports, PresenceIntervalPasses, BusChanges,
            ConnectProgress, StopAcquisitionLoop, JoinThreads, Scan
<1>1. framePc' \in FramePlace \cup {framePc}
  BY DEF FramePlace
<1>2. /\ running' \in BOOLEAN \cup {running}
      /\ demoMode' \in BOOLEAN \cup {demoMode}
      /\ acquisitionRunning' \in BOOLEAN \cup {acquisitionRunning}
      /\ presenceDue' \in BOOLEAN \cup {presenceDue}
      /\ threads' \in BOOLEAN \cup {threads}
  OBVIOUS
<1>3. deviceWasDisconnected' \in BOOLEAN \cup {deviceWasDisconnected}
  OBVIOUS
<1>4. \/ usbScanResult' = usbScanResult
      \/ \E s \in BOOLEAN : \E read \in SUBSET OnBus :
            usbScanResult' = [success |-> s, devices |-> read]
  <2>1. UNCHANGED usbScanResult \/ Scan
    OBVIOUS
  <2>2. CASE Scan
    BY <2>2
  <2> QED BY <2>1, <2>2
<1>5. /\ connectedDevice' \in {connectedDevice, NoDevice,
                               usbConnection.handle}
      /\ threadsHandle' \in {threadsHandle, NoDevice,
                             usbConnection.handle}
  OBVIOUS
<1>6. \/ deviceStatus' \in DeviceStatus \cup {deviceStatus}
      \/ \E isConnected \in {FALSE, usbConnection.isConnected} :
            deviceStatus' \in
              {ConnectionStatusText(usbScanResult, isConnected),
               ConnectionStatusText(usbScanResult', isConnected)}
  BY DEF DeviceStatus
<1>7. state' \in AcquisitionState \cup {state}
  BY DEF AcquisitionState
<1>8. \/ UNCHANGED scanFailures
      \/ /\ scanFailures < MaxScanFailures
         /\ scanFailures' = scanFailures + 1
  OBVIOUS
<1> QED BY <1>1, <1>2, <1>3, <1>4, <1>5, <1>6, <1>7, <1>8

\* The types follow; libusb's counts are typed by what they count.
LEMMA StepType ==
    ASSUME TypeOK, NothingLeaks', [Next]_vars
    PROVE  TypeOK'
<1>0. OnBus \subseteq Device
  BY DevicesOnBus DEF TypeOK
<1>3. /\ bus' \in [Instrument -> Device \cup {Absent, Restarting}]
      /\ lastAddress' \in 0 .. MaxAddress
  <2>1. CASE Bus
    <3>1. PICK i \in Instrument : Appear(i) \/ Vanish(i)
      BY <2>1 DEF Bus
    <3>2. CASE Vanish(i)
      BY <3>2 DEF Vanish, TypeOK, UsbTypeOK
    <3>3. ASSUME NEW v \in {"bootloader", "operational"}, Enumerates(i, v)
          PROVE  /\ bus' \in [Instrument -> Device \cup {Absent, Restarting}]
                 /\ lastAddress' \in 0 .. MaxAddress
      <4>1. lastAddress' \in 1 .. MaxAddress
        BY <3>3 DEF Enumerates, TypeOK, UsbTypeOK
      <4>2. [instrument |-> i, vendorId |-> v, address |-> lastAddress']
              \in Device
        BY <4>1 DEF Device
      <4> QED BY <3>3, <4>1, <4>2 DEF Enumerates, TypeOK, UsbTypeOK
    <3> QED BY <3>1, <3>2, <3>3 DEF Appear
  <2>2. CASE ~Bus
    BY UsbEffects, <2>2 DEF TypeOK, UsbTypeOK, busVars
  <2> QED BY <2>1, <2>2
<1>4. /\ usbConnection' \in [handle : Device \cup {NoDevice},
                             isConnected : BOOLEAN]
      /\ connectPc' \in ConnectStep
      /\ result' \in ConnectionStatus
      /\ deviceInfo' \in Device \cup {NoDevice}
      /\ context' \in BOOLEAN
      /\ deviceList' \in [held : BOOLEAN, devices : SUBSET Device]
      /\ device' \in Device \cup {NoDevice}
      /\ handle' \in Device \cup {NoDevice}
  <2> USE DEF TypeOK, UsbTypeOK
  <2>1. /\ usbConnection.handle \in Device \cup {NoDevice}
        /\ usbScanResult.devices \subseteq Device
    OBVIOUS
  <2>2. usbConnection' \in [handle : Device \cup {NoDevice},
                            isConnected : BOOLEAN]
    <3>1. usbConnection' = usbConnection \/ usbConnection' = Closed
            \/ usbConnection' = [handle |-> handle, isConnected |-> TRUE]
      BY UsbEffects
    <3>2. Closed \in [handle : Device \cup {NoDevice}, isConnected : BOOLEAN]
      BY DEF Closed
    <3>3. [handle |-> handle, isConnected |-> TRUE]
            \in [handle : Device \cup {NoDevice}, isConnected : BOOLEAN]
      OBVIOUS
    <3> QED BY <3>1, <3>2, <3>3
  <2>3. connectPc' \in ConnectStep /\ result' \in ConnectionStatus
    BY UsbEffects
  <2>4. deviceInfo' \in Device \cup {NoDevice} /\ context' \in BOOLEAN
    BY UsbEffects, <2>1
  <2>5. deviceList' \in [held : BOOLEAN, devices : SUBSET Device]
    <3>1. deviceList' = deviceList \/ deviceList' = NoList
            \/ deviceList' = [held |-> TRUE, devices |-> OnBus]
      BY UsbEffects
    <3>2. NoList \in [held : BOOLEAN, devices : SUBSET Device]
      BY DEF NoList
    <3>3. [held |-> TRUE, devices |-> OnBus]
            \in [held : BOOLEAN, devices : SUBSET Device]
      BY <1>0
    <3> QED BY <3>1, <3>2, <3>3
  <2>6. device' \in Device \cup {NoDevice} /\ handle' \in Device \cup {NoDevice}
    BY <1>0, UsbEffects
  <2> QED BY <2>2, <2>3, <2>4, <2>5, <2>6
<1>5. reenumerationAttempt' \in 0 .. FwReenumAttempts
  <2>1. \/ reenumerationAttempt' \in {reenumerationAttempt, 0}
        \/ /\ reenumerationAttempt < FwReenumAttempts
           /\ reenumerationAttempt' = reenumerationAttempt + 1
    BY UsbEffects
  <2> QED BY <2>1 DEF TypeOK, UsbTypeOK
<1>6. libusb' \in [contexts : Nat, lists : Nat, handles : Nat, claims : Nat]
  <2>1. \A c : Count(c) \in Nat
    BY DEF Count
  <2> QED BY <2>1 DEF NothingLeaks
<1>7. /\ framePc' \in FramePlace
      /\ running' \in BOOLEAN
      /\ demoMode' \in BOOLEAN
      /\ acquisitionRunning' \in BOOLEAN
      /\ deviceWasDisconnected' \in BOOLEAN
      /\ usbScanResult' \in [success : BOOLEAN, devices : SUBSET Device]
      /\ connectedDevice' \in Device \cup {NoDevice}
      /\ presenceDue' \in BOOLEAN
      /\ threads' \in BOOLEAN
      /\ threadsHandle' \in Device \cup {NoDevice}
      /\ state' \in AcquisitionState
      /\ scanFailures' \in 0 .. MaxScanFailures
  <2> USE DEF TypeOK, UsbTypeOK
  <2>1. /\ framePc' \in FramePlace /\ state' \in AcquisitionState
        /\ running' \in BOOLEAN /\ demoMode' \in BOOLEAN
        /\ acquisitionRunning' \in BOOLEAN
        /\ deviceWasDisconnected' \in BOOLEAN
        /\ presenceDue' \in BOOLEAN /\ threads' \in BOOLEAN
    BY SessionEffects
  <2>2. usbScanResult' \in [success : BOOLEAN, devices : SUBSET Device]
    <3>1. \/ usbScanResult' = usbScanResult
          \/ \E s \in BOOLEAN : \E read \in SUBSET OnBus :
                usbScanResult' = [success |-> s, devices |-> read]
      BY SessionEffects
    <3>2. \A s \in BOOLEAN : \A read \in SUBSET OnBus :
             [success |-> s, devices |-> read]
               \in [success : BOOLEAN, devices : SUBSET Device]
      BY <1>0
    <3> QED BY <3>1, <3>2
  <2>3. usbConnection.handle \in Device \cup {NoDevice}
    OBVIOUS
  <2>4. /\ connectedDevice' \in Device \cup {NoDevice}
        /\ threadsHandle' \in Device \cup {NoDevice}
    BY SessionEffects, <2>3
  <2>5. scanFailures' \in 0 .. MaxScanFailures
    <3>1. \/ UNCHANGED scanFailures
          \/ /\ scanFailures < MaxScanFailures
             /\ scanFailures' = scanFailures + 1
      BY SessionEffects
    <3> QED BY <3>1
  <2> QED BY <2>1, <2>2, <2>4, <2>5
<1>8. deviceStatus' \in DeviceStatus
  <2>1. /\ usbScanResult \in [success : BOOLEAN, devices : SUBSET Device]
        /\ usbConnection.isConnected \in BOOLEAN
        /\ deviceStatus \in DeviceStatus
    BY DEF TypeOK, UsbTypeOK
  <2>2. \A isConnected \in BOOLEAN :
           /\ ConnectionStatusText(usbScanResult, isConnected) \in DeviceStatus
           /\ ConnectionStatusText(usbScanResult', isConnected)
                 \in DeviceStatus
    BY <1>7, <2>1, StatusText
  <2> QED BY SessionEffects, <2>1, <2>2
<1> QED BY <1>3, <1>4, <1>5, <1>6, <1>7, <1>8 DEF TypeOK, UsbTypeOK

\* A device that has left the bus does not come back under the same address.
LEMMA StaysAway ==
    ASSUME UsbTypeOK, [Next]_vars, NEW d, Known(d), d \notin OnBus
    PROVE  d \notin OnBus'
<1> USE DEF UsbTypeOK
<1>1. \/ UNCHANGED bus
      \/ \E i \in Instrument : bus' = [bus EXCEPT ![i] = Absent]
      \/ \E i \in Instrument : bus' = [bus EXCEPT ![i] = Restarting]
      \/ /\ lastAddress' = lastAddress + 1
         /\ \E i \in Instrument, v \in {"bootloader", "operational"} :
               bus' = [bus EXCEPT ![i] = [instrument |-> i, vendorId |-> v,
                                          address |-> lastAddress']]
  <2>1. CASE Bus
    BY <2>1 DEF Bus, Appear, Vanish, Enumerates
  <2>2. CASE /\ deviceInfo \in OnBus
             /\ bus' = [bus EXCEPT ![deviceInfo.instrument] = Restarting]
    <3>1. deviceInfo.instrument \in Instrument
      BY <2>2, DevicesOnBus DEF Device
    <3> QED BY <2>2, <3>1
  <2> QED BY <2>1, <2>2, UsbEffects DEF busVars
<1>2. CASE UNCHANGED bus
  BY <1>2 DEF OnBus
<1>3. CASE \E i \in Instrument : bus' = [bus EXCEPT ![i] = Absent]
  BY <1>3 DEF OnBus
<1>4. CASE \E i \in Instrument : bus' = [bus EXCEPT ![i] = Restarting]
  BY <1>4 DEF OnBus
<1>5. CASE /\ lastAddress' = lastAddress + 1
           /\ \E i \in Instrument, v \in {"bootloader", "operational"} :
               bus' = [bus EXCEPT ![i] = [instrument |-> i, vendorId |-> v,
                                          address |-> lastAddress']]
  <2>1. PICK i \in Instrument, v \in {"bootloader", "operational"} :
            bus' = [bus EXCEPT ![i] = [instrument |-> i, vendorId |-> v,
                                       address |-> lastAddress']]
    BY <1>5
  <2>2. d # [instrument |-> i, vendorId |-> v, address |-> lastAddress']
    <3>1. d.address # lastAddress'
      BY <1>5 DEF Known, NoDevice
    <3> QED BY <3>1
  <2>3. OnBus' \subseteq
          OnBus \cup {[instrument |-> i, vendorId |-> v,
                       address |-> lastAddress']}
    BY <2>1 DEF OnBus
  <2> QED BY <2>2, <2>3
<1> QED BY <1>1, <1>2, <1>3, <1>4, <1>5

LEMMA StepGone ==
    ASSUME IInv, [Next]_vars
    PROVE  GoneOK'
<1> USE DEF IInv
<1>1. UsbTypeOK /\ lastAddress \in Nat /\ OnBus \subseteq Device
  BY DevicesOnBus DEF TypeOK, UsbTypeOK
<1>2. /\ lastAddress' \in Nat /\ lastAddress' >= lastAddress
      /\ \A i \in Instrument : bus'[i] \in Device =>
            bus'[i] = bus[i] \/ bus'[i].address = lastAddress'
      /\ lastAddress' > lastAddress \/ \A i \in Instrument :
            bus'[i] \in Device => bus'[i] = bus[i]
  <2>1. CASE Bus
    <3>1. PICK i \in Instrument : Appear(i) \/ Vanish(i)
      BY <2>1 DEF Bus
    <3>2. CASE Vanish(i)
      BY <1>1, <3>2 DEF Vanish, UsbTypeOK, Absent, NoDevice, Device
    <3>3. CASE Appear(i)
      <4>1. PICK v \in {"bootloader", "operational"} : Enumerates(i, v)
        BY <3>3 DEF Appear
      <4> QED BY <1>1, <4>1 DEF Enumerates, UsbTypeOK
    <3> QED BY <3>1, <3>2, <3>3
  <2>2. CASE /\ deviceInfo \in OnBus /\ UNCHANGED lastAddress
             /\ bus' = [bus EXCEPT ![deviceInfo.instrument] = Restarting]
    <3>1. Restarting \notin Device
      BY DEF Restarting, NoDevice, Device
    <3>2. deviceInfo.instrument \in Instrument
      BY <1>1, <2>2 DEF Device
    <3>3. \A i \in Instrument : bus'[i] \in {bus[i], Restarting}
      BY <2>2, <3>2 DEF UsbTypeOK
    <3> QED BY <1>1, <2>2, <3>1, <3>3
  <2>3. CASE UNCHANGED busVars
    BY <1>1, <2>3 DEF busVars
  <2> QED BY <2>1, <2>2, <2>3, UsbEffects
<1>3. \A d : Known(d) => Known(d)'
  BY <1>1, <1>2 DEF Known
<1>4. \A d \in OnBus : Known(d)
  BY <1>1 DEF GoneOK, OnBus
<1>5. \A i \in Instrument : bus'[i] \in Device => Known(bus[i])'
  BY <1>1, <1>2, <1>3 DEF GoneOK, Known, NoDevice, Device
<1>6. \A d \in usbScanResult'.devices : Known(d)'
  <2>1. \/ usbScanResult' = usbScanResult
        \/ \E s \in BOOLEAN : \E read \in SUBSET OnBus :
              usbScanResult' = [success |-> s, devices |-> read]
    BY SessionEffects
  <2> QED BY <1>3, <1>4, <2>1 DEF GoneOK
<1>7. \A d \in deviceList'.devices : Known(d)'
  <2>1. deviceList' \in {deviceList, NoList,
                         [held |-> TRUE, devices |-> OnBus]}
    BY UsbEffects
  <2> QED BY <1>3, <1>4, <2>1 DEF GoneOK, NoList
<1>8. /\ Known(device)' /\ Known(handle)' /\ Known(deviceInfo)'
      /\ Known(usbConnection.handle)' /\ Known(threadsHandle)'
  <2>1. Known(NoDevice)
    BY DEF Known
  <2>2. /\ device' \in {device, NoDevice, deviceInfo} \cup OnBus
        /\ handle' \in {handle, NoDevice, device}
        /\ deviceInfo' \in {deviceInfo, NoDevice} \cup usbScanResult.devices
    BY UsbEffects
  <2>3. usbConnection' \in {usbConnection, Closed,
                            [handle |-> handle, isConnected |-> TRUE]}
    BY UsbEffects
  <2>4. usbConnection'.handle \in {usbConnection.handle, NoDevice, handle}
    BY <2>3 DEF Closed
  <2>5. threadsHandle' \in {threadsHandle, NoDevice, usbConnection.handle}
    BY SessionEffects
  <2>6. \A d \in {device, handle, deviceInfo, usbConnection.handle,
                  threadsHandle, NoDevice} \cup OnBus
                    \cup usbScanResult.devices : Known(d)'
    BY <1>3, <1>4, <2>1 DEF GoneOK
  <2>7. Known(device)' /\ Known(handle)' /\ Known(deviceInfo)'
    BY <2>2, <2>6 DEF Known
  <2>8. Known(usbConnection.handle)' /\ Known(threadsHandle)'
    BY <2>4, <2>5, <2>6 DEF Known
  <2> QED BY <2>7, <2>8
\* Only a report of the worker says that the device is lost.
<1>9. threads' /\ state' = "eDeviceLost" => threadsHandle' \notin OnBus'
  <2>1. ASSUME threads', state' = "eDeviceLost"
        PROVE  threads /\ threadsHandle' = threadsHandle
               /\ threadsHandle \notin OnBus
    BY <2>1 DEF GoneOK, vars, session, acquisition, Next, Frame,
      HandleAcquisitionFault, CloseLostDevice, SkipPresence, PollUsbPresence,
      NoClick, Quit, StopButton, StartButton, DisconnectButton,
      CloseConnection, ConnectButton, ConnectReturns, EnableDemo, DemoCloses,
      DisableDemo, Shutdown, Ended, WorkerReports, PresenceIntervalPasses,
      BusChanges, ConnectProgress, StopAcquisitionLoop, JoinThreads
  <2>2. Known(threadsHandle)
    BY DEF GoneOK
  <2> QED BY <1>1, <2>1, <2>2, StaysAway
\* Only the fault handler goes on to close a lost device.
<1>10. framePc' = "closeLost" /\ usbConnection'.isConnected =>
          usbConnection'.handle \notin OnBus'
  <2>1. ASSUME framePc' = "closeLost", usbConnection'.isConnected
        PROVE  usbConnection' = usbConnection
               /\ usbConnection.handle \notin OnBus
    BY <2>1 DEF GoneOK, ThreadsHaveConnection, SessionOK, Closed, vars,
      usbVars, session,
      Enter, FrameEnds, Next, Frame, HandleAcquisitionFault, CloseLostDevice,
      SkipPresence, PollUsbPresence, NoClick, Quit, StopButton, StartButton,
      DisconnectButton, CloseConnection, ConnectButton, ConnectReturns,
      EnableDemo, DemoCloses, DisableDemo, Shutdown, Ended, WorkerReports,
      PresenceIntervalPasses, BusChanges, Bus, Appear, Vanish,
      ConnectProgress, Disconnect
  <2>2. Known(usbConnection.handle)
    BY DEF GoneOK
  <2> QED BY <1>1, <2>1, <2>2, StaysAway
<1> QED BY <1>5, <1>6, <1>7, <1>8, <1>9, <1>10 DEF GoneOK

LEMMA StepInv == IInv /\ [Next]_vars => IInv'
<1> SUFFICES ASSUME IInv, [Next]_vars PROVE IInv'
  OBVIOUS
<1>1. TypeOK /\ UsbTypeOK /\ CallOK /\ NothingLeaks /\ ThreadsHaveConnection
      /\ SessionOK
  BY DEF IInv, TypeOK
<1>2. CallOK' /\ NothingLeaks' /\ ThreadsHaveConnection' /\ SessionOK'
  BY <1>1, StepCall, StepLeaks, StepThreads, StepSession
<1>3. TypeOK'
  BY <1>1, <1>2, StepType
<1>4. GoneOK'
  BY StepGone
<1> QED BY <1>2, <1>3, <1>4 DEF IInv

LEMMA Invariance == Spec => []IInv
BY InitInv, StepInv, PTL DEF Spec

-----------------------------------------------------------------------------
\* Every variable of the session and of the connection keeps its type, the
\* counts of what libusb has handed out among them: they never go below zero.
THEOREM TypeCorrect == Spec => []TypeOK
<1>1. IInv => TypeOK
  BY DEF IInv
<1> QED BY <1>1, Invariance, PTL

\* As long as there are acquisition threads, the connection whose handle they
\* copied is open, and the session shows a run that is not a demonstration.
THEOREM ThreadsAlwaysConnected == Spec => []ThreadsHaveConnection
<1>1. IInv => ThreadsHaveConnection
  BY DEF IInv
<1> QED BY <1>1, Invariance, PTL

\* No exit path of connectToDevice, and no way to close the connection, leaks
\* a libusb resource or gives one back twice.
THEOREM NothingEverLeaks == Spec => []NothingLeaks
<1>1. IInv => NothingLeaks
  BY DEF IInv
<1> QED BY <1>1, Invariance, PTL

\* When the program has ended its threads are joined and libusb has
\* everything back.
THEOREM ExitIsClean == Spec => []ExitReleasesAll
<1>1. ASSUME IInv, framePc = "ended"
      PROVE  /\ ~threads
             /\ libusb = [contexts |-> 0, lists |-> 0, handles |-> 0,
                          claims |-> 0]
  <2>1. /\ ~threads /\ ~usbConnection.isConnected /\ connectPc = "idle"
        /\ ~context /\ ~deviceList.held /\ handle = NoDevice
    BY <1>1 DEF IInv, SessionOK, CallOK, Closing
  <2> QED BY <1>1, <2>1 DEF IInv, NothingLeaks, Count
<1>2. IInv => ExitReleasesAll
  BY <1>1 DEF ExitReleasesAll
<1> QED BY <1>2, Invariance, PTL

\* A device is opened only while the list it was found in is held.
THEOREM DeviceAlwaysListed == Spec => []DeviceIsListed
<1>1. IInv => DeviceIsListed
  BY DEF IInv, CallOK, DeviceIsListed
<1> QED BY <1>1, Invariance, PTL

\* The interface is claimed only on an instrument that runs its firmware.
THEOREM OnlyOperationalIsConnected == Spec => []ConnectedIsOperational
<1>1. IInv => ConnectedIsOperational
  BY DEF IInv, CallOK, ConnectedIsOperational
<1> QED BY <1>1, Invariance, PTL

\* Between two controls the recorded identity is that of the open handle.
THEOREM IdentityAlwaysFollows == Spec => []IdentityFollowsHandle
<1>1. IInv => IdentityFollowsHandle
  BY DEF IInv, SessionOK, IdentityFollowsHandle
<1> QED BY <1>1, Invariance, PTL

\* The status line follows from the rest of the invariant: who closes or opens
\* the connection writes it before the next frame.
LEMMA StepStatus ==
    ASSUME TypeOK, CallOK, SessionOK, StatusIsTrue, [Next]_vars
    PROVE  StatusIsTrue'
<1> USE DEF CallOK, SessionOK, StatusIsTrue, Closing, Closed, usbVars,
            connectVars, locals, acquisition, session, Enter, FrameEnds,
            ConnectionStatusText
<1>1. CASE HandleAcquisitionFault
  BY <1>1 DEF HandleAcquisitionFault
<1>2. CASE CloseLostDevice
  BY <1>2 DEF CloseLostDevice, Disconnect
<1>3. CASE SkipPresence
  BY <1>3 DEF SkipPresence
<1>4. CASE PollUsbPresence
  <2>1. \/ usbConnection' = Closed /\ deviceStatus' = "Device disconnected"
        \/ UNCHANGED <<usbConnection, deviceStatus>>
        \/ /\ UNCHANGED usbConnection /\ ~usbConnection.isConnected
           /\ deviceStatus' = ConnectionStatusText(usbScanResult', FALSE)
    BY <1>4 DEF PollUsbPresence, Disconnect
  <2>2. framePc = "presence"
    BY <1>4 DEF PollUsbPresence
  <2>3. ConnectionStatusText(usbScanResult', FALSE)
          \in {"Disconnected", "USB error"}
    OBVIOUS
  <2>4. CASE usbConnection' = Closed /\ deviceStatus' = "Device disconnected"
    BY ONLY <2>4 DEF StatusIsTrue, Closed
  <2>5. CASE UNCHANGED <<usbConnection, deviceStatus>>
    BY ONLY StatusIsTrue, <2>2, <2>5 DEF StatusIsTrue
  <2>6. CASE /\ UNCHANGED usbConnection /\ ~usbConnection.isConnected
             /\ deviceStatus' \in {"Disconnected", "USB error"}
    BY ONLY <2>6 DEF StatusIsTrue
  <2> QED BY <2>1, <2>3, <2>4, <2>5, <2>6
<1>5. CASE NoClick
  BY <1>5 DEF NoClick
<1>6. CASE Quit
  BY <1>6 DEF Quit
<1>7. CASE StopButton
  BY <1>7 DEF StopButton
<1>8. CASE StartButton
  <2>1. \/ UNCHANGED deviceStatus
        \/ /\ usbConnection.isConnected
           /\ deviceStatus' = ConnectionStatusText(usbScanResult,
                                 usbConnection.isConnected)
    BY <1>8 DEF StartButton
  <2>2. framePc = "controls" /\ UNCHANGED usbConnection
    BY <1>8 DEF StartButton
  <2> QED BY <2>1, <2>2
<1>9. CASE DisconnectButton
  BY <1>9 DEF DisconnectButton
<1>10. CASE CloseConnection
  BY <1>10 DEF CloseConnection, Disconnect
<1>11. CASE ConnectButton
  BY <1>11 DEF ConnectButton
<1>12. CASE ConnectReturns
  <2>1. \/ /\ result = "eConnected" /\ UNCHANGED usbConnection
           /\ deviceStatus' = "Connected"
        \/ usbConnection' = Closed /\ deviceStatus' = "Connect error"
        \/ /\ result # "eConnected" /\ UNCHANGED usbConnection
           /\ deviceStatus' = "Connect error"
    BY <1>12 DEF ConnectReturns, Disconnect
  <2>2. framePc = "connecting"
    BY <1>12 DEF ConnectReturns
  <2>3. usbConnection.isConnected <=> result = "eConnected"
    BY <2>2
  <2>4. CASE usbConnection' = Closed /\ deviceStatus' = "Connect error"
    BY ONLY <2>4 DEF StatusIsTrue, Closed
  <2>5. CASE /\ usbConnection.isConnected /\ UNCHANGED usbConnection
             /\ deviceStatus' = "Connected"
    BY ONLY <2>5 DEF StatusIsTrue
  <2>6. CASE /\ ~usbConnection.isConnected /\ UNCHANGED usbConnection
             /\ deviceStatus' = "Connect error"
    BY ONLY <2>6 DEF StatusIsTrue
  <2> QED BY <2>1, <2>3, <2>4, <2>5, <2>6
<1>13. CASE EnableDemo
  BY <1>13 DEF EnableDemo
<1>14. CASE DemoCloses
  BY <1>14 DEF DemoCloses, Disconnect
<1>15. CASE DisableDemo
  BY <1>15 DEF DisableDemo
<1>16. CASE Shutdown
  BY <1>16 DEF Shutdown
<1>17. CASE ConnectProgress
  BY <1>17 DEF ConnectProgress
<1>18. CASE Ended \/ UNCHANGED vars
  BY <1>18 DEF Ended, vars
<1>19. CASE WorkerReports \/ PresenceIntervalPasses
  BY <1>19 DEF WorkerReports, PresenceIntervalPasses
<1>20. CASE BusChanges
  BY <1>20 DEF BusChanges, Bus, Appear, Vanish, Enumerates
<1> QED BY <1>1, <1>2, <1>3, <1>4, <1>5, <1>6, <1>7, <1>8, <1>9, <1>10,
  <1>11, <1>12, <1>13, <1>14, <1>15, <1>16, <1>17, <1>18, <1>19, <1>20
  DEF Next, Frame

\* Between two controls the status line neither claims a connection there is
\* not nor denies the one there is, whatever scan it was written from.
THEOREM StatusAlwaysTrue == Spec => []StatusIsTrue
<1>1. Init => StatusIsTrue
  <2> SUFFICES ASSUME Init PROVE StatusIsTrue
    OBVIOUS
  <2>1. ConnectionStatusText(usbScanResult, FALSE)
          \in {"Disconnected", "USB error"}
    BY DEF ConnectionStatusText
  <2>2. /\ deviceStatus = ConnectionStatusText(usbScanResult, FALSE)
        /\ usbConnection = Closed
    BY DEF Init, UsbInit
  <2> QED BY <2>1, <2>2 DEF Closed, StatusIsTrue
<1>2. IInv /\ StatusIsTrue /\ [Next]_vars => StatusIsTrue'
  BY StepStatus DEF IInv
<1> QED BY <1>1, <1>2, Invariance, PTL DEF Spec

\* Unless a control is used, only the loss of the device closes a connection,
\* or a presence check whose scan passed a device over.
THEOREM PresentDeviceAlwaysKept == Spec => PresentDeviceKept
<1>1. ASSUME IInv, [Next]_vars, framePc \in {"closeLost", "presence"},
             usbConnection.isConnected, ~usbConnection'.isConnected
      PROVE  \/ usbConnection.handle \notin OnBus
             \/ framePc = "presence" /\ DescriptorUnread
  <2>1. CASE framePc = "closeLost"
    BY <1>1, <2>1 DEF IInv, GoneOK
  <2>2. CASE framePc = "presence"
    <3>1. PollUsbPresence
      BY <1>1, <2>2 DEF vars, usbVars, Next, Frame, HandleAcquisitionFault,
        CloseLostDevice, SkipPresence, NoClick, Quit, StopButton,
        StartButton, DisconnectButton, CloseConnection, ConnectButton,
        ConnectProgress, ConnectReturns, EnableDemo, DemoCloses, DisableDemo,
        Shutdown, Ended, WorkerReports, PresenceIntervalPasses, BusChanges,
        Bus, Appear, Vanish
    <3>2. Vanished
      BY <1>1, <3>1 DEF PollUsbPresence
    <3>3. connectedDevice = usbConnection.handle
      BY <1>1, <2>2 DEF IInv, SessionOK
    <3>4. usbScanResult'.success =>
             usbScanResult'.devices = OnBus \/ scanFailures' # scanFailures
      <4>1. Scan
        BY <3>1 DEF PollUsbPresence
      <4>2. scanFailures \in Nat
        BY <1>1, ApplicationAssumption DEF IInv, TypeOK
      <4> QED BY <4>1, <4>2 DEF Scan
    <3> QED BY <2>2, <3>2, <3>3, <3>4 DEF Vanished, DescriptorUnread
  <2> QED BY <1>1, <2>1, <2>2
<1>2. IInv /\ [Next]_vars =>
        [(/\ framePc \in {"closeLost", "presence"}
          /\ usbConnection.isConnected
          /\ ~usbConnection'.isConnected)
            => \/ usbConnection.handle \notin OnBus
               \/ framePc = "presence" /\ DescriptorUnread]_vars
  BY <1>1
<1> QED BY <1>2, Invariance, PTL DEF Spec, PresentDeviceKept

\* Every libusb call or wait of connectToDevice is one of those left.
LEMMA ConnectDescends ==
    ASSUME TypeOK, connectPc # "idle", ConnectStepTaken
    PROVE  ConnectStepsLeft' < ConnectStepsLeft
<1> DEFINE n == FwReenumAttempts - reenumerationAttempt
<1>1. n \in Nat /\ n <= FwReenumAttempts /\ reenumerationAttempt \in Nat
  BY DEF TypeOK, UsbTypeOK
<1> USE DEF ConnectStepsLeft, Goto, Fail
<1>2. CASE InitContext \/ FindRequested
  BY <1>1, <1>2 DEF InitContext, FindRequested
<1>3. CASE UploadFirmware
  BY <1>1, <1>3 DEF UploadFirmware, locals
<1>4. CASE Rescan
  <2>1. /\ connectPc = "rescan" /\ reenumerationAttempt < FwReenumAttempts
        /\ reenumerationAttempt' = reenumerationAttempt + 1
        /\ connectPc' \in {"open", "cleanup", "rescan"}
    BY <1>4 DEF Rescan
  <2> QED BY <1>1, <2>1
<1>5. CASE Open \/ Claim
  BY <1>5 DEF Open, Claim
<1>6. CASE SetInterface \/ Cleanup
  BY <1>6 DEF SetInterface, Cleanup
<1> QED BY <1>2, <1>3, <1>4, <1>5, <1>6 DEF ConnectStepTaken

\* A call of connectToDevice takes at most FwReenumAttempts + 7 calls and
\* waits, for every number of attempts and whatever happens on the bus in the
\* meantime (usb_device.cpp lines 236-426).
THEOREM ConnectAlwaysAdvances == Spec => ConnectAdvances
<1>1. ASSUME IInv, [Next]_vars, connectPc # "idle"
      PROVE  ConnectStepsLeft' < ConnectStepsLeft \/ UNCHANGED connectVars
  <2>1. framePc = "connecting" /\ TypeOK
    BY <1>1 DEF IInv, SessionOK
  <2>2. CASE Frame
    <3>1. ConnectStepTaken
      BY <1>1, <2>1, <2>2 DEF Frame, HandleAcquisitionFault,
        CloseLostDevice, SkipPresence, PollUsbPresence, NoClick, Quit,
        StopButton, StartButton, DisconnectButton, CloseConnection,
        ConnectButton, ConnectProgress, ConnectReturns, EnableDemo,
        DemoCloses, DisableDemo, Shutdown
    <3> QED BY <1>1, <2>1, <3>1, ConnectDescends
  <2>3. CASE Ended \/ WorkerReports \/ PresenceIntervalPasses \/ BusChanges
    BY <2>1, <2>3 DEF Ended, WorkerReports, PresenceIntervalPasses,
      BusChanges, Bus, Appear, Vanish, usbVars
  <2>4. CASE UNCHANGED vars
    BY <2>4 DEF vars, usbVars
  <2> QED BY <1>1, <2>2, <2>3, <2>4 DEF Next
<1>2. IInv /\ [Next]_vars =>
        [connectPc # "idle" =>
            \/ ConnectStepsLeft' < ConnectStepsLeft
            \/ UNCHANGED connectVars]_usbVars
  BY <1>1
<1> QED BY <1>2, Invariance, PTL DEF Spec, ConnectAdvances

-----------------------------------------------------------------------------
(***************************************************************************)
(* The timer whose expiry Application takes for a flag: PresenceTimer, for *)
(* the real 32 bits.                                                       *)
(***************************************************************************)
VARIABLES now, nextPresenceCheck, suspended, lastCheck

Timer == INSTANCE PresenceTimer

LEMMA TimerInv == Timer!Spec => []Timer!Inv
<1>1. Timer!Init => Timer!Inv
  BY SMT DEF Timer!Init, Timer!Inv, Timer!SDL_GetTicks, Timer!Ticks,
     Timer!kUsbPresenceIntervalMs
<1>2. Timer!Inv /\ [Timer!Next]_Timer!vars => Timer!Inv'
  <2> SUFFICES ASSUME Timer!Inv, [Timer!Next]_Timer!vars
               PROVE  Timer!Inv'
    OBVIOUS
  <2>1. CASE Timer!TimePasses
    BY <2>1 DEF Timer!Inv, Timer!TimePasses
  <2>2. CASE Timer!SuspendOrResume
    BY <2>2 DEF Timer!Inv, Timer!SuspendOrResume
  <2>3. CASE Timer!Check
    BY <2>3, SMT DEF Timer!Inv, Timer!Check, Timer!Schedule,
       Timer!SDL_GetTicks, Timer!Ticks, Timer!kUsbPresenceIntervalMs
  <2>4. CASE UNCHANGED Timer!vars
    BY <2>4 DEF Timer!Inv, Timer!vars
  <2> QED BY <2>1, <2>2, <2>3, <2>4 DEF Timer!Next
<1> QED BY <1>1, <1>2, PTL DEF Timer!Spec

\* The difference of the ticks is the difference of the times, modulo Ticks.
LEMMA TickDifference ==
    ASSUME Timer!Inv
    PROVE  /\ Timer!Since \in Nat
           /\ (Timer!SDL_GetTicks - nextPresenceCheck) % Timer!Ticks
                 = (Timer!Since - Timer!kUsbPresenceIntervalMs) % Timer!Ticks
BY SMT DEF Timer!Inv, Timer!SDL_GetTicks, Timer!Since, Timer!Ticks,
   Timer!kUsbPresenceIntervalMs

\* The interval is measured rightly, across every wrap of the 32-bit ticks,
\* as long as the last check is not more than 2^31 ms (about 25 days) overdue
\* (pollUsbPresence, app/main.cpp:1277-1296).
THEOREM ExpiresInTime == Timer!Spec => []Timer!ExpiredInTime
<1>1. Timer!Inv => Timer!ExpiredInTime
  BY TickDifference, SMT DEF Timer!ExpiredInTime, Timer!Expired, Timer!Ticks,
     Timer!kUsbPresenceIntervalMs
<1> QED BY <1>1, TimerInv, PTL

\* Two checks are never closer than the interval, however long the program
\* runs and whatever suspends it (app/main.cpp:1293).
THEOREM ChecksAreApart == Timer!Spec => [][Timer!ApartAction]_Timer!vars
<1>1. Timer!Inv /\ [Timer!Next]_Timer!vars
          => [Timer!ApartAction]_Timer!vars
  <2> SUFFICES ASSUME Timer!Inv, Timer!Check
               PROVE  Timer!Since >= Timer!kUsbPresenceIntervalMs
    BY DEF Timer!ApartAction
  <2> QED BY TickDifference, SMT DEF Timer!Check, Timer!Expired, Timer!Ticks,
          Timer!kUsbPresenceIntervalMs
<1> QED BY <1>1, TimerInv, PTL DEF Timer!Spec

\* A run or demonstration that suspends the checks for more than 2^31 ms
\* leaves them off: until the ticks come round, 2^32 ms after the last check
\* was due, pollUsbPresence does not look for the device (main.cpp:1293).
THEOREM LongSuspensionStopsChecks == Timer!Spec => []Timer!LeftOff
<1>1. Timer!Inv => Timer!LeftOff
  BY TickDifference, SMT DEF Timer!LeftOff, Timer!Expired, Timer!Ticks,
     Timer!kUsbPresenceIntervalMs
<1> QED BY <1>1, TimerInv, PTL
=============================================================================
