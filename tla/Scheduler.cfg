\* Two jobs, one of which does not catch up, and two passes.
SPECIFICATION Spec
CONSTANTS
    Job = {j1, j2}
    Pass = {p0, p1}
    BootPass = p0
    SkipOnBoot = {j2}
    Every = 3
    Watch = 2
    Stagger = 1
    ReadsAreQuick = TRUE
INVARIANTS OneTimerPerJob NoOverlap EnabledJobsRun CatchesUp
