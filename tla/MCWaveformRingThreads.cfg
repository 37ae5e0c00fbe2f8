\* Three slots, so that the indices wrap at different places, and four frames.
CONSTANTS
    Capacity = 3
    Frame = {f1, f2, f3, f4}
    BlankFrame = blank
    MaxDropped = 3
SPECIFICATION Spec
PROPERTY ImplementsLatest
