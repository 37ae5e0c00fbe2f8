\* One run under fairness, with enough failures to end it.
CONSTANTS
    ConfigCommands = 0
    DataPackets = 1
    QueueCapacity = 1
    RingCapacity = 1
    MaxConsecutiveFailures = 2
    ForceRestartThreshold = 2
    TransferFailure = {"eTimeout", "eNoDevice"}
    MaxRuns = 1
    MaxCaptures = 2
    MaxFaults = 2
SPECIFICATION FairSpec
PROPERTIES
    CallsReturn
    FaultEndsRun
    EmptyIsRestarted
