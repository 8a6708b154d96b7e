SPECIFICATION Spec
CONSTANTS
    Domains = {"a", "b"}
    Orgs = {"o1", "o2"}
    Addresses = {"ip1", "ip2", "ip3"}
    Sources = {"mailer", "tenant"}
    Classification <- MCClassification
    Ranges <- MCRanges
    AggregateDocs <- MCAggregateDocs
    TlsDocs <- MCTlsDocs
    Zones <- MCZones
    Windows = {1, 2}
    Absent = Absent
    ReadyThreshold = 60
    MaxUnclassified = 25
    MinVolume = 2
    MaxStored = 3
    MaxDay = 1
INVARIANTS TypeOK EachReportStoredOnce  ReadyIsEarned CalloutIsSafe TlsAddsUp MarkersAgree
PROPERTY SpoofingIsNeutral
CHECK_DEADLOCK FALSE
