\* A run is killed, cancelled or fails anywhere and another one resumes.
SPECIFICATION Spec
CONSTANTS
    s1 = s1
    s2 = s2
    Segment <- TwoSegments
    Rows <- RowsThreeOne
    Filtered <- NoRows
    Bad <- NoRows
    BatchSize = 2
    Readers = 2
    HasId = FALSE
    Simple = FALSE
    MaxRuns = 2
INVARIANTS TypeOK ResumeSkipsNothing CompletedIsCopied SuccessIsComplete
           FlagsKept
PROPERTY CompletedStays
CHECK_DEADLOCK FALSE
