SPECIFICATION FairSpec
CONSTANTS
    Wakers = {reader, closer}
    Amounts = {1, 2, 3}
    Initial = 2
    MaxCalls = 6
INVARIANTS
    NoLostWakeup
PROPERTY ImplementsAtomicGate
CHECK_DEADLOCK FALSE
