SPECIFICATION FairSpec
CONSTANTS
    Calls = {}
    Serves = {k}
    None = None
PROPERTIES
    ServingStops
CHECK_DEADLOCK FALSE
