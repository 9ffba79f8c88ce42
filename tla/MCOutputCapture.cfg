SPECIFICATION Spec
CONSTANTS
    Requests = {r1, r2}
    NoRequest = NoRequest
    BufferedOutputMaxBytes = 3
    BufferedOutputMaxMs = 2
    MaxIssued = 4
    MaxDepth = 2
    MaxNow = 3
SYMMETRY RequestSymmetry
INVARIANTS
    TypeOK
    CapturedIsShown
    OutputBeforeResult
    NoByteHeldPastLimit
