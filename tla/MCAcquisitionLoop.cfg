\* Two runs, two captures, two failing calls; every queued capture can be lost.
CONSTANTS
    ConfigCommands = 5
    DataPackets = 2
    QueueCapacity = 1
    RingCapacity = 2
    MaxConsecutiveFailures = 2
    ForceRestartThreshold = 2
    TransferFailure = {"eTimeout", "eNoDevice"}
    MaxRuns = 2
    MaxCaptures = 3
    MaxFaults = 2
SPECIFICATION Spec
INVARIANTS
    TypeOK
    NoThreadOutsideRun
    FaultReported
    PipelineOrdered
    WholeCaptures
    ConsumerAwake
PROPERTIES
    ImplementsService
    JoinAdvances
