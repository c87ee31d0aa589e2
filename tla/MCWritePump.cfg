\* Three items and two automatic beats against a kernel buffer of two chunks:
\* a frame takes two chunks, so a stalled peer can stop the pump inside one.
SPECIFICATION FairSpec
CONSTANTS
    Beating = TRUE
    SlotBuffer = 1
    FrameChunks = 2
    SockCap = 2
    MaxItems = 3
    MaxBeats = 2
INVARIANTS
    TypeOK
    OneWriteInFlight
    NoResultUnseen
    SendReportsItsWrite
    FlushSettles
    FramesIntact
    WireInOrder
    FailureIsFinal
PROPERTIES
    OutboxSpec
    PipeSpec
    CallsSettle
    ClosedIsShutDown
\* The transport may be dropped and its task ended: the system then stops.
CHECK_DEADLOCK FALSE
