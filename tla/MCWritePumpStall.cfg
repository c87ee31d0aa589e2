\* The same system with a peer that may stop reading, its socket still open.
SPECIFICATION StallSpec
CONSTANTS
    Beating = TRUE
    SlotBuffer = 1
    FrameChunks = 2
    SockCap = 1
    MaxItems = 1
    MaxBeats = 1
PROPERTIES
    DropClosesConnection
CHECK_DEADLOCK FALSE
