SPECIFICATION Spec
CONSTANTS
    Reports = {"first", "tls"}
    Tls = {"tls"}
    BeginDay <- MCBeginDay
    EndDay <- MCEndDay
    Workers = {"nightly", "command"}
    RawDays = 1
    RollupDays = 2
    WindowDays = 1
    Overlap = TRUE
    MaxDay = 2
    MaxAborts = 0
INVARIANT NothingDoubleCounted
