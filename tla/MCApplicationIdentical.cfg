\* Two identical instruments: which one is opened after a firmware upload.
CONSTANTS
    Instrument = {"scope1", "scope2"}
    FwReenumAttempts = 2
    MaxAddress = 3
    MaxScanFailures = 0
SPECIFICATION Spec
INVARIANT OpensRequestedInstrument
