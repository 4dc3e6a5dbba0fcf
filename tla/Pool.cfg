\* Two callers and one worker, so that one caller parks in Submit while the batch
\* of the other is executed; the live command, whose Close runs against callers
\* that still submit.
SPECIFICATION FairSpec
CONSTANTS
    Caller = {c1, c2}
    Worker = {w1}
    MaxJobs = 2
    Live = TRUE
INVARIANTS TypeOK SlotAlwaysFree NothingLeftBehind ReplyNeverBlocks
           PanicNeedsSignal PoolInv
PROPERTIES ImplementsWriteJobs EveryCallerAnswered CloseFinishes
CHECK_DEADLOCK FALSE
