\* One monitor, one check at a time, and a fold that may cut an hour in two.
SPECIFICATION HistorySpec
CONSTANTS
    Watched = {web}
    HourTicks = 2
    FoldAfter = 2
    KeepFor = 4
    LastTick = 5
INVARIANT UptimeCountsOnce
CHECK_DEADLOCK FALSE
