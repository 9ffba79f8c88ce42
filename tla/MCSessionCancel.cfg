SPECIFICATION FairSpec
CONSTANTS
    Transport = "socket"
    SigPipe = TRUE
    Templates <- Endless
    MaxRequests = 3
    MaxOutput = 1
    Room = 1
    InputCap = 0
    GuestThrows = FALSE
PROPERTIES
    CancelStopsBatch
    ShellExitEndsSession
CHECK_DEADLOCK FALSE
