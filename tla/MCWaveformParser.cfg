\* All 512 trigger points of nine bits in words of eleven; arrays of two.
CONSTANTS
    MaxWord = 2047
    ByteValues = 8
    Packets <- MCPackets
    Captures <- MCCaptures
    Formats <- MCFormats
    MaxSampleCount = 2
SPECIFICATION FairSpec
INVARIANTS
    NoWrap
    Decoded
    SamplesAreTheCapture
PROPERTIES
    BisectionHalves
    CallReturns
