\* Two instruments, three enumerations between them, one failed scan.
CONSTANTS
    Instrument = {"scope1", "scope2"}
    FwReenumAttempts = 2
    MaxAddress = 3
    MaxScanFailures = 1
SPECIFICATION Spec
INVARIANTS
    TypeOK
    ThreadsHaveConnection
    ExitReleasesAll
    IdentityFollowsHandle
    StatusIsTrue
    NothingLeaks
    DeviceIsListed
    ConnectedIsOperational
PROPERTY PresentDeviceKept
