\* What feed promises, on the smallest instance that has two items.
SPECIFICATION Spec
CONSTANTS
    Beating = TRUE
    SlotBuffer = 1
    FrameChunks = 2
    SockCap = 2
    MaxItems = 2
    MaxBeats = 1
INVARIANTS
    FeedBehavesLikeSend
CHECK_DEADLOCK FALSE
