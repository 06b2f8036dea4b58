SPECIFICATION Spec
CONSTANTS
    NStreams = 1
    NTracks <- TracksOne
    Formats <- FormatsTS
    QueueSize = 1
    MaxHeld = 1
    MaxSegments = 1
    MaxSamples = 1
PROPERTIES
    StreamErrorEndsClient
\* the client ends
CHECK_DEADLOCK FALSE
