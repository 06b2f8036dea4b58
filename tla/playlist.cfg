SPECIFICATION IndexSpec
CONSTANTS
    Lines <- TextLines
    MaxSegments = 2
    MaxDetails = 2
    Configurations <- Muxers
    MaxTracks = 2
INVARIANTS
    ReadBack
    TracksArrive
\* a text that is refused is not read on
CHECK_DEADLOCK FALSE
