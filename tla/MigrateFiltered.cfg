\* A filter empties a page in the middle of a segment.
SPECIFICATION Spec
CONSTANTS
    s1 = s1
    s2 = s2
    Segment <- TwoSegments
    Rows <- RowsTwoOne
    Filtered <- FirstRow
    Bad <- NoRows
    BatchSize = 1
    Readers = 2
    HasId = TRUE
    Simple = FALSE
    MaxRuns = 1
INVARIANT CompletedIsCopied
CHECK_DEADLOCK FALSE
