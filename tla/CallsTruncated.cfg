SPECIFICATION Spec
CONSTANTS
    s = s
    u = u
    v = v
    None = None
    Calls = {s}
    Streaming = {s}
    Length <- StreamLength
    Offset <- StreamOffset
    Window = 2
    Lossy = TRUE
    Panics = FALSE
INVARIANTS
    LossSurfaces
CHECK_DEADLOCK FALSE
