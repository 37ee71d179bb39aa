SPECIFICATION FairSpec
CONSTANTS
    Calls = {c}
    Serves = {}
    None = None
PROPERTIES
    CallsFail
CHECK_DEADLOCK FALSE
