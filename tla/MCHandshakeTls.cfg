\* What the documentation of tls_server_name says of its default.
SPECIFICATION Spec
CONSTANTS
    Intervals = {0}
    CustomBeats = {}
    MaxBehind = 0
INVARIANTS
    TlsNameDefaultsToHost
\* connect() ends once.
CHECK_DEADLOCK FALSE
