SPECIFICATION Spec
CONSTANTS
    Variant = "LL"
    SegmentCount = 3
    GapCount = 2
    NStreams = 2
    Leading = 2
    Disk = TRUE
    Faults = {"newFile"}
    Requests = {1}
    Targets <- TargetsFaults
    MaxSegmentID = 5
    MaxPartID = 6
INVARIANTS
    HandleIsSafe
CHECK_DEADLOCK FALSE
