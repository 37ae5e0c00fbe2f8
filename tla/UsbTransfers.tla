---------------------------- MODULE UsbTransfers ----------------------------
(***************************************************************************)
(* One transfer of usb/src/usb_device.cpp: bulkWrite, bulkRead,            *)
(* controlWrite and controlRead all call libusb again while it times out   *)
(* and turn what the last call returned into an EUsbTransferStatus.        *)
(***************************************************************************)
EXTENDS Naturals

\* What a libusb call returns: a code, and the bytes moved.  A control
\* transfer returns their number as its code.
Codes == {"LIBUSB_SUCCESS", "LIBUSB_ERROR_TIMEOUT", "LIBUSB_ERROR_NO_DEVICE",
          "LIBUSB_ERROR_OTHER"}
Calls(attempts, length) ==
    [1 .. attempts -> [code : Codes, transferredBytes : 0 .. length]]

TimesOut(call) == call.code = "LIBUSB_ERROR_TIMEOUT"

\* calls[i] is what the call of attempt i would return; the last one made.
LastAttempt(attempts, calls) ==
    CHOOSE last \in 1 .. attempts :
        /\ \A i \in 1 .. last - 1 : TimesOut(calls[i])
        /\ last < attempts => ~TimesOut(calls[last])

ClassifyTransferResult(code) ==
    CASE code = "LIBUSB_SUCCESS"         -> "eSuccess"
      [] code = "LIBUSB_ERROR_TIMEOUT"   -> "eTimeout"
      [] code = "LIBUSB_ERROR_NO_DEVICE" -> "eNoDevice"
      [] OTHER                           -> "eError"

MakeTransferResult(status, transferredBytes, minimumLength) ==
    IF status = "eSuccess" /\ transferredBytes < minimumLength
    THEN "eShortTransfer" ELSE status

\* Without an attempt nothing is sent, and it is a timeout.
PerformTransfer(attempts, calls, minimumLength) ==
    IF attempts = 0 THEN "eTimeout"
    ELSE LET call == calls[LastAttempt(attempts, calls)]
         IN  MakeTransferResult(ClassifyTransferResult(call.code),
                                call.transferredBytes, minimumLength)

Outcomes(attempts, length, minimumLength) ==
    {PerformTransfer(attempts, calls, minimumLength) :
        calls \in Calls(attempts, length)}
=============================================================================
