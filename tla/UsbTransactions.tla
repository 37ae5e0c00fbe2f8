--------------------------- MODULE UsbTransactions --------------------------
(***************************************************************************)
(* The USB transfers that the acquisition worker's functions issue, in     *)
(* order, each named by the EAcquisitionOperation that failedOperation     *)
(* holds while it is in flight (capture/src/acquisition_loop.cpp, lines    *)
(* 507-970).  A function stops at its first transfer that fails.           *)
(***************************************************************************)
EXTENDS Naturals, Sequences

CONSTANTS
    ConfigCommands,   \* bulk commands of the timebase group: five in the code
    DataPackets       \* bulk reads of one capture: 20480 / 512 in the code

ASSUME TransactionsAssumption ==
    ConfigCommands \in Nat /\ DataPackets \in Nat \ {0}

Operations ==
    {"eBeginCmd", "eSpeedBeforeCmd", "eCaptureStateCmd",
     "eSpeedBeforeResponse", "eCaptureStateResponse", "eChannelDataCmd",
     "eChannelDataResponse", "eCaptureStartCmd", "eTriggerEnabledCmd",
     "eForceTriggerCmd", "eSetFilterCmd", "eSetTriggerNSampleRateCmd",
     "eSetVoltageNCouplingCmd", "eSetRelaysCmd", "eGetChannelLevelCmd",
     "eSetOffsetCmd"}

Repeat(n, op) == [i \in 1 .. n |-> op]

\* executeCommand: announce the command, read the link speed, write it.
ExecuteCommand(op) == <<"eBeginCmd", "eSpeedBeforeCmd", op>>

\* n commands of one kind, one executeCommand after the other.
ExecuteCommands(n, op) ==
    [i \in 1 .. 3 * n |-> CASE i % 3 = 1 -> "eBeginCmd"
                            [] i % 3 = 2 -> "eSpeedBeforeCmd"
                            [] OTHER -> op]

\* configureDso2250Timebase: the logic-data command and its response, then
\* the timebase group, all reported as the same operation.
ConfigureTimebase ==
    ExecuteCommand("eSetTriggerNSampleRateCmd")
      \o <<"eSetTriggerNSampleRateCmd">>
      \o ExecuteCommands(ConfigCommands, "eSetTriggerNSampleRateCmd")

ConfigureCapture ==
    ExecuteCommand("eSetFilterCmd")
      \o ConfigureTimebase
      \o ExecuteCommand("eSetVoltageNCouplingCmd")
      \o <<"eSetRelaysCmd", "eGetChannelLevelCmd", "eSetOffsetCmd">>
      \o ConfigureTimebase

RestartCapture ==
    ExecuteCommand("eCaptureStartCmd")
      \o ExecuteCommand("eTriggerEnabledCmd")
      \o ExecuteCommand("eForceTriggerCmd")

ExecutePollingTransaction ==
    ExecuteCommand("eTriggerEnabledCmd")
      \o ExecuteCommand("eCaptureStateCmd")
      \o <<"eSpeedBeforeResponse", "eCaptureStateResponse">>

ReadCaptureData ==
    ExecuteCommand("eChannelDataCmd")
      \o <<"eSpeedBeforeResponse">>
      \o Repeat(DataPackets, "eChannelDataResponse")
=============================================================================
