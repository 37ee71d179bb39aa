SPECIFICATION Spec
CONSTANTS
    s = s
    u = u
    v = v
    None = None
    Calls = {s}
    Streaming = {s}
    Length <- StreamLength
    Offset <- StreamOffset
    Window = 2
    Lossy = FALSE
    Panics = FALSE
INVARIANTS
    RevocationReachesAll
CHECK_DEADLOCK FALSE
