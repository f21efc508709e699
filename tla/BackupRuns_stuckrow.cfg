\* A stop in the middle of failRun.
SPECIFICATION Spec
CONSTANTS
    Job = {j1}
    Attempt = {a1, a2}
    Clicker = {}
    Tick = tick
    NoJob = NoJob
    NoAttempt = NoAttempt
    MaxRetries = 1
    Limits = {1}
    Events = {"crash"}
INVARIANT RunningRowsAreAnswerable
CHECK_DEADLOCK FALSE
