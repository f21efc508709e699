\* Run now against the tick, with everything going wrong at once.
SPECIFICATION Spec
CONSTANTS
    Job = {j1}
    Attempt = {a1, a2}
    Clicker = {c1}
    Tick = tick
    NoJob = NoJob
    NoAttempt = NoAttempt
    MaxRetries = 1
    Limits = {1}
    Events = {"crash", "fault", "lost", "reenable", "delete", "cancel", "click"}
SYMMETRY AttemptSymmetry
INVARIANTS GoodMeansCopied RetentionFollowsCopy
PROPERTIES OnlyFailuresCount
CHECK_DEADLOCK FALSE
