SPECIFICATION FairSpec
CONSTANTS
    Messages = {"m1", "m2", "m3"}
    Docs = {"d1", "d2", "d3", "d4", "d5", "d6", "d7"}
    Reports = {"r1", "r2"}
    DocsOf <- MCDocsOf
    KindOf <- MCKindOfWithCrashing
    ReportOf <- MCReportOf
    NoMessage = NoMessage
    PageCap = 2
    Alerting = TRUE
    MaxSecond = 2
    MaxFaults = 1
    MaxCrashes = 1
    DistinctSeconds = FALSE
INVARIANTS
    TypeOK
    SkipsAreExplained
    ReadMeansStored
    LogAccountsForReports
    
    OneAlertPerOutage
PROPERTIES
    KeepsPromise
    EveryMessagePassed
