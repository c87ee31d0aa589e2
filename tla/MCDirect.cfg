\* A boundary that lies inside the second frame, a kernel that takes less than
\* two, and four items.
SPECIFICATION FairSpec
CONSTANTS
    FrameChunks = 2
    Boundary = 3
    SockCap = 3
    MaxItems = 4
INVARIANTS
    TypeOK
    NothingTorn
    ResultsAreHonest
PROPERTIES
    PipeSpec
    CallsSettle
\* A dropped transport makes no further step.
CHECK_DEADLOCK FALSE
