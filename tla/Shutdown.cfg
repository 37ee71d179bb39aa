SPECIFICATION FairSpec
CONSTANTS
    Calls = {c}
    Serves = {}
    None = None
INVARIANTS
    ReasonIsRootCause
PROPERTIES
    BrokenIsReported
    OpenStreamsBreak
CHECK_DEADLOCK FALSE
