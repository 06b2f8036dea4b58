SPECIFICATION Spec
CONSTANTS
    Variant = "LL"
    SegmentCount = 3
    GapCount = 2
    NStreams = 2
    Leading = 2
    Disk = TRUE
    Faults = {}
    Requests = {1}
    Targets <- TargetsLL
    MaxSegmentID = 7
    MaxPartID = 8
INVARIANTS
    TypeOK
    NoLostWakeup
    MediaSequenceNumbering
    PathsMatchWindow
    StreamsAligned
    BlockedOnFuture
    HandleIsSafe
    WriteIsSafe
PROPERTIES
    ReloadHoldsPart
    HintKeepsPromise
    LiveWindows
    SleepersAnswered
