SPECIFICATION LiveSpec
CONSTANTS
    s = s
    u = u
    v = v
    None = None
    Calls = {s}
    Streaming = {s}
    Length <- StreamLength
    Offset <- StreamOffset
    Window = 2
    Lossy = FALSE
    Panics = FALSE
INVARIANTS
    CreditConserved
PROPERTIES
    ImplementsRemoteCall
    CallsReturn
    
CHECK_DEADLOCK FALSE
