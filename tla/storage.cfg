SPECIFICATION Spec
CONSTANTS
    MaxParts = 3
    MaxCells = 3
    Chunk = 2
INVARIANTS
    BytesServed
    CopiesAgree
\* the segment and the request end
CHECK_DEADLOCK FALSE
