SPECIFICATION FairSpec
CONSTANTS
    Domains = {"one", "two"}
    Signals = {"dmarc", "mtasts"}
    Runs = {"daily", "command"}
    MaxEdits = 3
    MaxFaults = 1
INVARIANTS
    TypeOK
    NoSilentGap
PROPERTIES
    OnlyFindingsAreStored
    CatchesUp
