\* Every sequence of up to three items, cut in every way. The bound lies
\* between the lengths of the frames.
SPECIFICATION Spec
CONSTANTS
    Frames <- SomeFrames
    Junk <- SomeJunk
    MaxItems = 3
    MaxFrame = 16
INVARIANTS
    CutsAreInvisible
    FailsOnlyOnJunk
    TornIsReported
    BoundIsFair
\* The stream ends.
CHECK_DEADLOCK FALSE
