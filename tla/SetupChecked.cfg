SPECIFICATION Spec
CONSTANTS
    Requests = {r1, r2}
    Apps = {"tenant"}
    Secrets = {old, new}
    Mailboxes = {"reports"}
    Modes = {"rbac"}
    Nothing = Nothing
    Windows = FALSE
    MaxGraphGen = 2
    MaxMailboxGen = 3
    MaxResets = 1
SYMMETRY MCSymmetry
INVARIANTS
    TypeOK
    VerdictsAreEarned
PROPERTIES
    CompletionIsVerified
    MovingKeepsVerdicts
