SPECIFICATION FairSpec
CONSTANTS
    s = s
    u = u
    v = v
    None = None
    Calls = {s}
    Streaming = {s}
    Length <- StreamLength
    Offset <- StreamOffset
    Window = 2
    Lossy = TRUE
    Panics = TRUE
INVARIANTS
    AtMostOneReply
    FlowControl
    InOrder
    NoStaleInflight
PROPERTIES
    CanceledIsAnswered
CHECK_DEADLOCK FALSE
