\* Two frames with and without receipts before the DISCONNECT, three calls
\* under two ids, so that an id is used again and another one, and a push.
SPECIFICATION FairSpec
CONSTANTS
    Supervised = TRUE
    AppReceipts = {a}
    Byes = {bye1, bye2}
    MaxSends = 2
    MaxCalls = 3
    MaxPushes = 1
INVARIANTS
    TypeOK
    AnswerIsTrue
PROPERTIES
    DisconnectSettles
\* The bounds stop the application.
CHECK_DEADLOCK FALSE
