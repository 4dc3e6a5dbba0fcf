\* Two shards that are open at the same time.
SPECIFICATION Spec
CONSTANTS
    k1 = k1
    k2 = k2
    a = a
    b = b
    Key <- Keys
    Bad <- NoKeys
    Lineage <- TwoLineages
    Home <- HomeTwo
    BatchSize = 1
    Frequency = 1
    Second = 1
    MaxTime = 1
    MaxChanges = 2
    MaxShards = 3
    MaxRuns = 1
INVARIANT SkipsOnlyProcessed
CHECK_DEADLOCK FALSE
