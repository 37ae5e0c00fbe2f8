\* One instrument that enumerates up to three times, under fairness.
CONSTANTS
    Instrument = {"scope1"}
    FwReenumAttempts = 2
    MaxAddress = 3
    MaxScanFailures = 1
SPECIFICATION FairSpec
PROPERTIES
    LossIsNoticed
    ConnectEnds
