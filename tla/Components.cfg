CONSTANTS
    AllFeatures = {"attachments", "heartbeat"}
    Second = 2
    DogTick = 1
    MaxDelay = 1
    Heartbeats <- MCHeartbeats
    Threshold = 1
    Blobs <- MCBlobs
    Lifetimes = {0, 2, 5}
    Hints = {0, 2, 9}
    MinInterval = 1
    MaxInterval = 3
    SlowDownStep = 1
    MaxAnswer = 1
    MaxRounds = 2
    Procs = {p1, p2}
    Slugs = {s1}
    Keys = {k1, k2}
    NoKey = NoKey
    MaxCalls = 3
    MaxCrashes = 1
    Budgets = {1, 3}
    None = None
    Interval = 1
    Cap = 1
    MaxOutput = 2
    MaxLate = 1
    Callers = {a, b}
    Machines = {m1, m2}
    Versions = {1, 2}
    Nobody = Nobody
    MaxSends = 2
    Tasks = {t1, t2}
    Ttl = 3
    Refresh = 2
    MaxFetch = 1
    Base = 2
    MaxFrame = 2
    Bodies <- MCBodies
    MaxSent = 2
    Texts <- MCTexts
    NameChars = {"a", "w", "N", "c", "/", ".", "_", " "}
    MaxName = 5
    MaxBytes = 5
    MaxExtension = 3
    InCalls = {i1, i2}
    Modifiers = {"ctrl", "shift"}
    KeyNames = {"a"}
    Chords <- MCChords
    NoCall = NoCall
    Desks <- MCDesks
    Regions <- MCRegions
    NoRegion = NoRegion
    MaxWidths = {0, 600, 3600}
    Ratios = {50, 94}
    MinAuto = 480
    FitPasses = 3
    FiCalls = {f1, f2}
    FiContents <- MCFiles
    FiDatas <- MCDatas
    FiEdits <- MCFileEdits
    Offsets = {0, 1, 5}
    Lengths = {0, 1, 3, 99}
    Unlimited = 99
    PageMax = 2
    ChunkMax = 2
SPECIFICATION Spec
INVARIANTS HandshakeAgrees SilenceIsTold PayloadRoundTrips PollingIsPrompt PinsSurvive
           RunIsReported SentWhereConfirmed SentIsRead ReadsAddUp NamesAreSafe KeysComeUp
            FilesAreAsTold
PROPERTIES JudgedByRecentList
CHECK_DEADLOCK FALSE
