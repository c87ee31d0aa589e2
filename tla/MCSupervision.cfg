\* The clock runs for seven intervals: long enough for the application to stay
\* away past the tolerance and for a silence to be reported twice.
SPECIFICATION SupervisionSpec
CONSTANTS
    Incoming = 2
    MaxTime = 14
    MaxInbox = 3
INVARIANTS
    SupervisionTypeOK
    ReportedIsHeard
    SilenceIsNoticed
\* The bounds stop the clock and the server.
CHECK_DEADLOCK FALSE
