SPECIFICATION Spec
CONSTANTS
    Domains = {"one"}
    Signals = {"dmarc", "mtasts"}
    Runs = {"daily"}
    MaxEdits = 3
    MaxFaults = 1
INVARIANT AlertsAreReal
