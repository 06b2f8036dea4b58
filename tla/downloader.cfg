SPECIFICATION StreamSpec
CONSTANTS
    Variants = {"LL", "FMP4", "MPEGTS"}
    SegmentCount = 3
    GapCount = 2
    Faults = {"segFinalize"}
    StartDistance = 2
    MaxDistance = 2
    MaxSegmentID = 5
    MaxPartID = 5
    Limit = 1
    MaxPushes = 6
INVARIANTS
    DownloadsInOrder
    FailureIsTrue
    PartsDated
    NoMissedAnnouncement
    DownloadsThrottled
PROPERTIES
    IsPipe
    CancelReleases
    EndReached
\* the client ends
CHECK_DEADLOCK FALSE
