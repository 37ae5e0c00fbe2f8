\* The fault of a finished run, seen again in demo mode.
CONSTANTS
    Instrument = {"scope1"}
    FwReenumAttempts = 1
    MaxAddress = 2
    MaxScanFailures = 0
SPECIFICATION Spec
PROPERTY FaultIsTheWorkers
