SPECIFICATION Spec
CONSTANTS
    NStreams = 1
    NTracks <- TracksTwo
    Formats <- FormatsOne
    QueueSize = 1
    MaxHeld = 1
    MaxSegments = 2
    MaxSamples = 2
INVARIANTS
    SegmentsJoined
PROPERTIES
    CloseEndsClient
    FailureEndsClient
    JoinsEnd
\* the client ends
CHECK_DEADLOCK FALSE
