SPECIFICATION FairSpec
CONSTANTS
    Capacity = 3
    RingSlots = 2
    MaxAccepted = 5
    MaxOver = 0
    PauseKey = TRUE
    DosV = FALSE
INVARIANTS
    TypeOK
    DeliveredInOrder
    NoSilentDrop
PROPERTIES
    ImplementsFifo
    EventuallyLeaves
