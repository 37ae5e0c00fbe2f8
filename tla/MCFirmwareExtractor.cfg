\* Sections of three records; the three formats of openDriver.
CONSTANTS
    RecordSize = 2
    Targets = 3
    Drivers <- MCDrivers
SPECIFICATION Spec
INVARIANTS
    NoPartialOutput
    NothingHeld
