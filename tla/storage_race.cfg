SPECIFICATION Spec
CONSTANTS
    MaxParts = 2
    MaxCells = 2
    Chunk = 2
INVARIANTS
    ReadsSafely
\* the segment and the request end
CHECK_DEADLOCK FALSE
