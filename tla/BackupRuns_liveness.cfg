\* Two jobs sharing one place, under fairness.
SPECIFICATION FairSpec
CONSTANTS
    Job = {j1, j2}
    Attempt = {a1, a2}
    Clicker = {}
    Tick = tick
    NoJob = NoJob
    NoAttempt = NoAttempt
    MaxRetries = 1
    Limits = {1}
    Events = {"cancel"}
PROPERTIES RunsAreSettled DueJobsGetATurn
CHECK_DEADLOCK FALSE
