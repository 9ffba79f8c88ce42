SPECIFICATION FairClientSpec
CONSTANTS
    Transport = "pipe"
    SigPipe = FALSE
    Templates <- Returning
    MaxRequests = 3
    MaxOutput = 1
    Room = 1
    InputCap = 0
    GuestThrows = FALSE
PROPERTIES
    EveryRequestAnswered
    CloseEndsSession
