\* Writes and the network slower than the clock but faster than the interval,
\* over five intervals.
SPECIFICATION Spec
CONSTANTS
    Period = 3
    MaxWrite = 2
    MaxDelay = 2
    MaxTime = 15
    MaxNet = 3
INVARIANTS
    TypeOK
    NoBeatNearFrame
    BrokerHearsUs
\* The clock stops.
CHECK_DEADLOCK FALSE
