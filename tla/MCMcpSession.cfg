SPECIFICATION FairSpec
CONSTANTS
    MaxSessions = 1
    MaxRequests = 4
    MaxChunks = 2
    CodePageNames = TRUE
INVARIANTS
    TypeOK
    OutputOnceInOrder
    OneCommandAtATime
    DoneIsForLastExec
PROPERTIES
    DoneIsFinal
    BusyEnds
CHECK_DEADLOCK FALSE
