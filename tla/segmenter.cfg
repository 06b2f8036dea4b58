SPECIFICATION Spec
CONSTANTS
    Second = 2000
    Millisecond = 2
    ClockRate = 1000
    fmp4StartDTS = 300
    SegmentMin = 2400
    PartMin = 2000
    Step = 50
    Ceiling = 5000
    SegmentCount = 3
    GapCount = 3
    SkipTargets = 2
    DurationRange = 1048576
    Muxers <- MCMuxers
    Deltas <- MCDeltas
    MaxSamples <- MCMaxSamples
INVARIANTS
    TypeOK
    Continuous
    PartsFillSegment
    SegmentsIndependent
    TargetsCover
    DeltaShowsEnd
PROPERTIES
    PartsSimilar
\* the samples run out
CHECK_DEADLOCK FALSE
