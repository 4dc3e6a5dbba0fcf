\* Three pairs, two at a time; the first two have one region.
SPECIFICATION FairSpec
CONSTANTS
    Pairs = 3
    Source <- Shared
    MaxConcurrentPairs = 2
INVARIANTS TypeOK SuccessMeansAll QuietAtClose 
PROPERTY EveryPairGetsItsTurn
CHECK_DEADLOCK FALSE
