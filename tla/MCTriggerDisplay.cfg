\* Three records, two levels, four positions, three sources.
CONSTANTS
    Frames <- MCFrames
    NoFrame <- MCNoFrame
    Levels = {128, 140}
    Sources = {"CH1", "CH2", "EXT"}
    PositionSteps = 100
    Positions = {0, 33, 50, 100}
SPECIFICATION Spec
INVARIANTS
    TypeOK
    TriggerVisible
    Aligned
    NeverBlank
    FindsFirstEdge
PROPERTIES
    SingleHolds
    NormalHolds
