SPECIFICATION Spec
CONSTANTS
    Messages = {"m1", "m2", "m3"}
    Docs = {"d1", "d2", "d3", "d4", "d5", "d6", "d7"}
    Reports = {"r1", "r2"}
    DocsOf <- MCDocsOf
    KindOf <- MCKindOf
    ReportOf <- MCReportOf
    NoMessage = NoMessage
    PageCap = 2
    Alerting = TRUE
    MaxSecond = 3
    MaxFaults = 1
    MaxCrashes = 1
    DistinctSeconds = TRUE
INVARIANT NothingSkipped
