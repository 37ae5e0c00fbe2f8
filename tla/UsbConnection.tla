---------------------------- MODULE UsbConnection ----------------------------
(***************************************************************************)
(* The USB connection lifecycle of usb/src/usb_device.cpp on a bus whose   *)
(* instruments come and go: connectToDevice, one step per libusb call or   *)
(* wait, with the bootloader's firmware upload and the re-enumeration it   *)
(* causes, and disconnectFromDevice.  libusb keeps count of what it has    *)
(* handed out, so that a leak or a double release on any exit path shows.  *)
(***************************************************************************)
EXTENDS Naturals

CONSTANTS
    Instrument,      \* the instruments there are
    FwReenumAttempts,\* kFwReenumAttempts, 50: scans after a firmware upload
    MaxAddress       \* bound on the bus addresses given out

ASSUME ConnectionAssumption ==
    /\ FwReenumAttempts \in Nat \ {0}
    /\ MaxAddress \in Nat

VARIABLES
    bus,             \* what each instrument is on the bus, if anything
    lastAddress,     \* the last bus address given out
    usbConnection,   \* SUsbConnection
    \* connectToDevice: where it is, and its locals
    connectPc, deviceInfo, context, deviceList, device, handle,
    reenumerationAttempt, result,
    libusb           \* contexts, lists, handles and interfaces handed out

locals == <<deviceInfo, context, deviceList, device, handle,
            reenumerationAttempt>>
busVars == <<bus, lastAddress>>
connectVars == <<connectPc, locals, result>>
usbVars == <<busVars, usbConnection, connectVars, libusb>>

\* A device as the host sees it.  The code compares vendor and address; the
\* instrument behind them is for the properties.
Device == [instrument : Instrument,
           vendorId   : {"bootloader", "operational"},
           address    : 1 .. MaxAddress]

NoDevice == [instrument |-> "none", vendorId |-> "none", address |-> 0]
Absent == [NoDevice EXCEPT !.vendorId = "absent"]
Restarting == [NoDevice EXCEPT !.vendorId = "restarting"]

OnBus == {bus[i] : i \in Instrument} \ {Absent, Restarting}

ConnectionStatus ==
    {"eConnected", "eDisconnected", "eInitializationFailed",
     "eDeviceNotFound", "eFirmwareLoadFailed", "eOpenFailed",
     "eClaimInterfaceFailed", "eSetInterfaceFailed", "eReleaseFailed"}

ConnectStep == {"idle", "init", "find", "upload", "rescan", "open", "claim",
                "setInterface", "cleanup"}

UsbTypeOK ==
    /\ bus \in [Instrument -> Device \cup {Absent, Restarting}]
    /\ lastAddress \in 0 .. MaxAddress
    /\ usbConnection \in [handle : Device \cup {NoDevice},
                          isConnected : BOOLEAN]
    /\ connectPc \in ConnectStep
    /\ deviceInfo \in Device \cup {NoDevice}
    /\ context \in BOOLEAN
    /\ deviceList \in [held : BOOLEAN, devices : SUBSET Device]
    /\ device \in Device \cup {NoDevice}
    /\ handle \in Device \cup {NoDevice}
    /\ reenumerationAttempt \in 0 .. FwReenumAttempts
    /\ result \in ConnectionStatus
    /\ libusb \in [contexts : Nat, lists : Nat, handles : Nat, claims : Nat]

NoList == [held |-> FALSE, devices |-> {}]
Closed == [handle |-> NoDevice, isConnected |-> FALSE]

UsbInit ==
    /\ bus = [i \in Instrument |-> Absent]
    /\ lastAddress = 0
    /\ usbConnection = Closed
    /\ connectPc = "idle"
    /\ deviceInfo = NoDevice
    /\ context = FALSE
    /\ deviceList = NoList
    /\ device = NoDevice
    /\ handle = NoDevice
    /\ reenumerationAttempt = 0
    /\ result = "eDisconnected"
    /\ libusb = [contexts |-> 0, lists |-> 0, handles |-> 0, claims |-> 0]

-----------------------------------------------------------------------------
\* The bus.

\* Instrument i enumerates, with an address nobody has had.
Enumerates(i, vendorId) ==
    /\ lastAddress < MaxAddress
    /\ lastAddress' = lastAddress + 1
    /\ bus' = [bus EXCEPT ![i] = [instrument |-> i, vendorId |-> vendorId,
                                  address |-> lastAddress']]

\* Plugged in, with the firmware it lost or kept; or back after an upload.
Appear(i) ==
    /\ \/ bus[i] = Absent
          /\ \E v \in {"bootloader", "operational"} : Enumerates(i, v)
       \/ bus[i] = Restarting /\ Enumerates(i, "operational")
    /\ UNCHANGED <<usbConnection, connectVars, libusb>>

Vanish(i) ==
    /\ bus[i] # Absent
    /\ bus' = [bus EXCEPT ![i] = Absent]
    /\ UNCHANGED <<lastAddress, usbConnection, connectVars, libusb>>

Bus == \E i \in Instrument : Appear(i) \/ Vanish(i)

-----------------------------------------------------------------------------
\* disconnectFromDevice: releases, closes and exits whatever libusb answers,
\* and closing a handle gives up the interface claimed on it.
\* The status it returns says whether the release failed.
Disconnect ==
    /\ libusb' = IF usbConnection.isConnected
                 THEN [contexts |-> libusb.contexts - 1,
                       lists    |-> libusb.lists,
                       handles  |-> libusb.handles - 1,
                       claims   |-> 0]
                 ELSE libusb
    /\ usbConnection' = Closed

-----------------------------------------------------------------------------
\* connectToDevice.

Goto(pc) == connectPc' = pc
Fail(status) == Goto("cleanup") /\ result' = status

ConnectCall(info) ==
    /\ connectPc = "idle"
    /\ \/ /\ usbConnection.isConnected
          /\ Disconnect
          /\ \/ Goto("init") /\ result' = "eDisconnected"
             \/ Fail("eReleaseFailed")
       \/ /\ ~usbConnection.isConnected
          /\ Goto("init") /\ result' = "eDisconnected"
          /\ UNCHANGED <<usbConnection, libusb>>
    /\ deviceInfo' = info
    /\ UNCHANGED <<busVars, context, deviceList, device, handle,
                   reenumerationAttempt>>

InitContext ==
    /\ connectPc = "init"
    /\ \/ /\ context' = TRUE
          /\ libusb' = [libusb EXCEPT !.contexts = @ + 1]
          /\ Goto("find") /\ UNCHANGED result
       \/ Fail("eInitializationFailed") /\ UNCHANGED <<context, libusb>>
    /\ UNCHANGED <<busVars, usbConnection, deviceInfo, deviceList, device,
                   handle, reenumerationAttempt>>

\* libusb_get_device_list succeeds.
GetDeviceList ==
    /\ deviceList' = [held |-> TRUE, devices |-> OnBus]
    /\ libusb' = [libusb EXCEPT !.lists = @ + 1]

\* findDevice with matchLocation, and the list it searches: the device may
\* be in it and still not be found, when libusb cannot read its descriptor.
FindRequested ==
    /\ connectPc = "find"
    /\ \/ /\ GetDeviceList
          /\ deviceInfo \in OnBus
          /\ device' = deviceInfo
          /\ Goto(IF deviceInfo.vendorId = "bootloader" THEN "upload"
                                                        ELSE "open")
          /\ UNCHANGED result
       \/ /\ GetDeviceList
          /\ Fail("eDeviceNotFound") /\ UNCHANGED device
       \/ /\ Fail("eDeviceNotFound")
          /\ UNCHANGED <<device, deviceList, libusb>>
    /\ UNCHANGED <<busVars, usbConnection, deviceInfo, context, handle,
                   reenumerationAttempt>>

\* MUTANT of UploadFirmware: the list is freed and still held.
UploadKeepsList ==
    /\ connectPc = "upload"
    /\ \/ /\ deviceInfo \in OnBus
          /\ bus' = [bus EXCEPT ![deviceInfo.instrument] = Restarting]
          /\ libusb' = [libusb EXCEPT !.lists = @ - 1]
          /\ device' = NoDevice
          /\ Goto("rescan") /\ UNCHANGED <<result, deviceList>>
       \/ /\ Fail("eFirmwareLoadFailed")
          /\ UNCHANGED <<bus, deviceList, device, libusb>>
    /\ UNCHANGED <<lastAddress, usbConnection, deviceInfo, context, handle,
                   reenumerationAttempt>>

\* MUTANT of UploadFirmware: the device from before the upload is not
\* cleared, so that the wait for the new one ends before it begins.
UploadKeepsDevice ==
    /\ connectPc = "upload"
    /\ \/ /\ deviceInfo \in OnBus
          /\ bus' = [bus EXCEPT ![deviceInfo.instrument] = Restarting]
          /\ deviceList' = NoList
          /\ libusb' = [libusb EXCEPT !.lists = @ - 1]
          /\ Goto("open") /\ UNCHANGED <<result, device>>
       \/ /\ Fail("eFirmwareLoadFailed")
          /\ UNCHANGED <<bus, deviceList, device, libusb>>
    /\ UNCHANGED <<lastAddress, usbConnection, deviceInfo, context, handle,
                   reenumerationAttempt>>

\* loadFx2Firmware.  The new firmware takes the bootloader off the bus, so
\* the list and the device in it are given up.
UploadFirmware ==
    /\ connectPc = "upload"
    /\ \/ /\ deviceInfo \in OnBus
          /\ bus' = [bus EXCEPT ![deviceInfo.instrument] = Restarting]
          /\ deviceList' = NoList
          /\ libusb' = [libusb EXCEPT !.lists = @ - 1]
          /\ device' = NoDevice
          /\ Goto("rescan") /\ UNCHANGED result
       \/ /\ Fail("eFirmwareLoadFailed")
          /\ UNCHANGED <<bus, deviceList, device, libusb>>
    /\ UNCHANGED <<lastAddress, usbConnection, deviceInfo, context, handle,
                   reenumerationAttempt>>

\* MUTANT of Rescan: the attempts are not counted.
RescanForever ==
    /\ connectPc = "rescan"
    /\ UNCHANGED <<reenumerationAttempt, result>>
    /\ \/ /\ GetDeviceList
          /\ device' \in {d \in OnBus : d.vendorId = "operational"}
          /\ Goto("open")
       \/ UNCHANGED <<device, deviceList, libusb, connectPc>>
    /\ UNCHANGED <<busVars, usbConnection, deviceInfo, context, handle>>

\* MUTANT of Rescan: the scans look for the vendor the bootloader had.
RescanSearchesBootloader ==
    /\ connectPc = "rescan"
    /\ reenumerationAttempt < FwReenumAttempts
    /\ reenumerationAttempt' = reenumerationAttempt + 1
    /\ \/ /\ GetDeviceList
          /\ device' \in {d \in OnBus : d.vendorId = deviceInfo.vendorId}
          /\ Goto("open") /\ UNCHANGED result
       \/ /\ IF reenumerationAttempt' = FwReenumAttempts
             THEN Fail("eDeviceNotFound") ELSE UNCHANGED <<connectPc, result>>
          /\ UNCHANGED <<device, deviceList, libusb>>
    /\ UNCHANGED <<busVars, usbConnection, deviceInfo, context, handle>>

\* One scan for the operational device: findDevice without matchLocation
\* takes the first in the list, which is in no particular order.
Rescan ==
    /\ connectPc = "rescan"
    /\ reenumerationAttempt < FwReenumAttempts
    /\ reenumerationAttempt' = reenumerationAttempt + 1
    /\ \/ /\ GetDeviceList
          /\ device' \in {d \in OnBus : d.vendorId = "operational"}
          /\ Goto("open") /\ UNCHANGED result
       \/ \* the list could not be had, or no such device was found in it
          \* and it is freed
          /\ IF reenumerationAttempt' = FwReenumAttempts
             THEN Fail("eDeviceNotFound") ELSE UNCHANGED <<connectPc, result>>
          /\ UNCHANGED <<device, deviceList, libusb>>
    /\ UNCHANGED <<busVars, usbConnection, deviceInfo, context, handle>>

\* A device that is still on the bus can be opened.
Open ==
    /\ connectPc = "open"
    /\ \/ /\ device \in OnBus
          /\ handle' = device
          /\ libusb' = [libusb EXCEPT !.handles = @ + 1]
          /\ Goto("claim") /\ UNCHANGED result
       \/ Fail("eOpenFailed") /\ UNCHANGED <<handle, libusb>>
    /\ UNCHANGED <<busVars, usbConnection, deviceInfo, context, deviceList,
                   device, reenumerationAttempt>>

Claim ==
    /\ connectPc = "claim"
    /\ \/ /\ libusb' = [libusb EXCEPT !.claims = @ + 1]
          /\ Goto("setInterface") /\ UNCHANGED result
       \/ Fail("eClaimInterfaceFailed") /\ UNCHANGED libusb
    /\ UNCHANGED <<busVars, usbConnection, locals>>

\* The connection takes over the context and the handle, or the interface is
\* released again.
SetInterface ==
    /\ connectPc = "setInterface"
    /\ \/ /\ usbConnection' = [handle |-> handle, isConnected |-> TRUE]
          /\ context' = FALSE
          /\ handle' = NoDevice
          /\ Goto("cleanup") /\ result' = "eConnected"
          /\ UNCHANGED libusb
       \/ /\ Fail("eSetInterfaceFailed")
          /\ libusb' = [libusb EXCEPT !.claims = @ - 1]
          /\ UNCHANGED <<usbConnection, context, handle>>
    /\ UNCHANGED <<busVars, deviceInfo, deviceList, device,
                   reenumerationAttempt>>

\* MUTANT of Cleanup: the handle opened before a failure stays open.
CleanupKeepsHandle ==
    /\ connectPc = "cleanup"
    /\ libusb' = [libusb EXCEPT
                    !.lists = @ - (IF deviceList.held THEN 1 ELSE 0),
                    !.contexts = @ - (IF context THEN 1 ELSE 0)]
    /\ deviceList' = NoList
    /\ handle' = NoDevice
    /\ context' = FALSE
    /\ device' = NoDevice
    /\ reenumerationAttempt' = 0
    /\ Goto("idle")
    /\ UNCHANGED <<busVars, usbConnection, deviceInfo, result>>

\* What is still in the locals is freed, closed and exited.
Cleanup ==
    /\ connectPc = "cleanup"
    /\ libusb' = [libusb EXCEPT
                    !.lists = @ - (IF deviceList.held THEN 1 ELSE 0),
                    !.handles = @ - (IF handle # NoDevice THEN 1 ELSE 0),
                    !.contexts = @ - (IF context THEN 1 ELSE 0)]
    /\ deviceList' = NoList
    /\ handle' = NoDevice
    /\ context' = FALSE
    /\ device' = NoDevice
    /\ reenumerationAttempt' = 0
    /\ Goto("idle")
    /\ UNCHANGED <<busVars, usbConnection, deviceInfo, result>>

ConnectStepTaken ==
    \/ InitContext \/ FindRequested \/ UploadFirmware \/ Rescan \/ Open
    \/ Claim \/ SetInterface \/ Cleanup

-----------------------------------------------------------------------------
\* libusb has handed out exactly what the connection and the call in progress
\* still hold: no exit path of connectToDevice leaks a context, a list, a
\* handle or an interface, and none is given back twice
\* (usb_device.cpp lines 236-426 and 430-469).
Count(condition) == IF condition THEN 1 ELSE 0

NothingLeaks ==
    libusb = [contexts |-> Count(usbConnection.isConnected) + Count(context),
              lists    |-> Count(deviceList.held),
              handles  |-> Count(usbConnection.isConnected)
                             + Count(handle # NoDevice),
              claims   |-> Count(usbConnection.isConnected)
                             + Count(connectPc = "setInterface")]

\* The libusb calls and waits that are at most left of a connectToDevice.
ConnectStepsLeft ==
    [idle |-> 0, cleanup |-> 1, setInterface |-> 2, claim |-> 3, open |-> 4,
     rescan |-> 4 + FwReenumAttempts - reenumerationAttempt,
     upload |-> 5 + FwReenumAttempts, find |-> 6 + FwReenumAttempts,
     init |-> 7 + FwReenumAttempts][connectPc]

\* connectToDevice only comes nearer to its end, whatever libusb answers and
\* whatever enumerates or leaves in the meantime: nothing it finds sends it
\* back, and a wait for the new firmware is never begun again
\* (usb_device.cpp lines 236-426).
ConnectAdvances ==
    [][connectPc # "idle" =>
          \/ ConnectStepsLeft' < ConnectStepsLeft
          \/ UNCHANGED connectVars]_usbVars

\* A device is opened only from the list it was found in: the pointer from
\* before the firmware upload is gone with its list
\* (usb_device.cpp lines 300-336 and 366).
DeviceIsListed ==
    connectPc = "open" => deviceList.held /\ device \in deviceList.devices

\* The interface is only ever claimed on an instrument that runs its firmware
\* (usb_device.cpp lines 287-344).
ConnectedIsOperational ==
    usbConnection.isConnected =>
        usbConnection.handle.vendorId = "operational"
=============================================================================
