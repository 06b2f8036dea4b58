SPECIFICATION Spec
CONSTANTS
    Variant = "FMP4"
    SegmentCount = 3
    GapCount = 2
    NStreams = 2
    Leading = 2
    Disk = TRUE
    Faults = {"partFinalize", "initFile", "newFile", "savePlaylists"}
    Requests = {1, 2}
    Targets <- TargetsFMP4
    MaxSegmentID = 5
    MaxPartID = 6
INVARIANTS
    PathsMatchWindow
PROPERTIES
    LiveWindows
    CloseReleases
CHECK_DEADLOCK FALSE
