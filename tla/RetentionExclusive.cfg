SPECIFICATION FairSpec
CONSTANTS
    Reports = {"first", "late", "long", "tls"}
    Tls = {"tls"}
    BeginDay <- MCBeginDay
    EndDay <- MCEndDay
    Workers = {"nightly"}
    RawDays = 1
    RollupDays = 2
    WindowDays = 1
    Overlap = FALSE
    MaxDay = 3
    MaxAborts = 1
INVARIANTS
    TypeOK
    
    
PROPERTY OldRowsGo
