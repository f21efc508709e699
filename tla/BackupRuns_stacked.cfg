\* Run now racing the tick.
SPECIFICATION Spec
CONSTANTS
    Job = {j1}
    Attempt = {a1, a2}
    Clicker = {c1}
    Tick = tick
    NoJob = NoJob
    NoAttempt = NoAttempt
    MaxRetries = 1
    Limits = {1}
    Events = {"click"}
INVARIANT SingleCopy
CHECK_DEADLOCK FALSE
