CONSTANTS
    Waiters = {w1, w2}
    BackoffMax = 4
    Conns = {c1, c2}
    Busy = {c1}
    Caps = {a}
    Reserved = {}
    Wanted = a
    MaxChanges = 1
    Chunks = 3
    Credit = 2
    MaxLost = 1
    Ptys = {1, 2}
    Talkative = {1}
    Openers = {o1}
    Readers = {r1}
    MaxSessions = 1
    RingMax = 2
    ReadMax = 1
    MaxBytes = 3
    Calls = {x, y}
    Ids = {1}
    Contents <- MCContents
    Edits <- MCEdits
    Local <- MCLocal
    MaxFaults = 1
SPECIFICATION Spec
PROPERTY EndingIsReported
CHECK_DEADLOCK FALSE
