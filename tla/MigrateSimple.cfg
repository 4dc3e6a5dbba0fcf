\* The copy without checkpoint, one segment at a time, batches of two, a row
\* that cannot be converted and documents without _id.
SPECIFICATION FairSpec
CONSTANTS
    s1 = s1
    s2 = s2
    Segment <- TwoSegments
    Rows <- RowsThreeOne
    Filtered <- NoRows
    Bad <- FirstRow
    BatchSize = 2
    Readers = 1
    HasId = FALSE
    Simple = TRUE
    MaxRuns = 2
INVARIANTS SuccessIsComplete CopiedOnce
PROPERTY RunReturns
CHECK_DEADLOCK FALSE
