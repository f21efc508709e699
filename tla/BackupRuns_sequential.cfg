\* One scheduled tick, with crashes and edits.
SPECIFICATION Spec
CONSTANTS
    Job = {j1, j2}
    Attempt = {a1, a2}
    Clicker = {}
    Tick = tick
    NoJob = NoJob
    NoAttempt = NoAttempt
    MaxRetries = 0
    Limits = {1, 2}
    Events = {"crash", "edit"}
SYMMETRY AttemptJobSymmetry
INVARIANTS SingleCopy CopiesAreTracked
PROPERTIES StartsWithinLimit RunsCloseAfterTheirCopy LedgerSpec
CHECK_DEADLOCK FALSE
