SPECIFICATION Spec
CONSTANTS
    Transport = "socket"
    SigPipe = TRUE
    Templates <- AllKinds
    MaxRequests = 3
    MaxOutput = 1
    Room = 2
    InputCap = 2
    GuestThrows = TRUE
INVARIANTS
    TypeOK
    OutputComplete
    NothingLeftToFlush
PROPERTIES
    ImplementsProtocol
