\* Three commands over a table of two keys that changes three times.
SPECIFICATION FairSpec
CONSTANTS
    Keys = 2
    SegmentCounts <- OneOrTwo
    Part <- PartOfTwo
    MaxRuns = 3
    MaxChanges = 3
INVARIANTS TypeOK LiveIsHonest SuccessIsComplete
PROPERTY CatchesUp
CHECK_DEADLOCK FALSE
