SPECIFICATION Spec
CONSTANTS
    Variant = "LL"
    SegmentCount = 3
    GapCount = 2
    NStreams = 2
    Leading = 2
    Disk = TRUE
    Faults = {}
    Requests = {1}
    Targets <- TargetsLL
    MaxSegmentID = 5
    MaxPartID = 6
INVARIANTS
    PastEndIsNextPart
CHECK_DEADLOCK FALSE
