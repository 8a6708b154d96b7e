SPECIFICATION FairSpec
CONSTANTS
    Required = {"Domain.Read.All", "Mail.Read"}
    PageSize = 1
    MaxPages = 2
    Margin = 2
    CallTime = 2
    Lifetimes = {5}
    None = None
    Denied = Denied
    MaxTime = 7
    MaxArrived = 4
    MaxChanges = 1
INVARIANTS
    TypeOK
    
    VerdictIsEarned
PROPERTIES
    ReadsAtOnce
    OperationEnds
