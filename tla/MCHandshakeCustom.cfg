\* The application sets a heart-beat header of its own.
SPECIFICATION Spec
CONSTANTS
    Intervals = {0, 1}
    CustomBeats <- OneCustomBeat
    MaxBehind = 0
INVARIANTS
    RequestedIsOffered
\* connect() ends once.
CHECK_DEADLOCK FALSE
