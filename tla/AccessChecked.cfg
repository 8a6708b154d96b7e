SPECIFICATION Spec
CONSTANTS
    Browsers = {b1, b2}
    Names = {ops}
    Passwords = {long, short}
    LongEnough = {long}
    Nothing = Nothing
    MaxKey = 2
    MaxResets = 1
SYMMETRY BrowserSymmetry
INVARIANTS
    TypeOK
    SignedInIsEarned
    LatchIsExplained
    NavigationEnds
    
    LowercaseAccountOpens
    CompletionCanPoll
