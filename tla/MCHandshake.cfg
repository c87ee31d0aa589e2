\* Off and two different intervals on either side, and up to two frames that
\* may come with the answer.
SPECIFICATION FairSpec
CONSTANTS
    Intervals = {0, 1, 2}
    CustomBeats = {}
    MaxBehind = 2
INVARIANTS
    TypeOK
    AutomaticIsHonoured
    EndsAgree
    NoTaskWithoutTransport
    NothingBehindIsLost
    NothingInTheClear
PROPERTIES
    ConnectSettles
\* connect() ends once.
CHECK_DEADLOCK FALSE
