\* A stream that is read in order.
SPECIFICATION Spec
CONSTANTS
    k1 = k1
    k2 = k2
    a = a
    b = b
    Key <- Keys
    Bad <- NoKeys
    Lineage <- OneLineage
    Home <- HomeOne
    BatchSize = 2
    Frequency = 2
    Second = 2
    MaxTime = 2
    MaxChanges = 3
    MaxShards = 2
    MaxRuns = 2
SYMMETRY Symmetry
INVARIANTS TypeOK DroppedIsApplied CaughtUpIsEqual
CHECK_DEADLOCK FALSE
