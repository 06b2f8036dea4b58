SPECIFICATION Spec
CONSTANTS
    NStreams = 2
    NTracks <- TracksOneOne
    Formats <- FormatsTwo
    QueueSize = 1
    MaxHeld = 1
    MaxSegments = 1
    MaxSamples = 1
INVARIANTS
    DataAfterTracks
    ClosingNeverBlocks
\* the client ends
CHECK_DEADLOCK FALSE
