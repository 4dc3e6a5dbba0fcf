\* A Submit that races with Close under the live command.
SPECIFICATION Spec
CONSTANTS
    Caller = {c1, c2}
    Worker = {w1}
    MaxJobs = 1
    Live = TRUE
SYMMETRY CallerSymmetry
INVARIANT NoPanic
CHECK_DEADLOCK FALSE
