CONSTANTS
    Document = {d1}
    JobId = {j1}
    Worker = {w1, w2}
    Client = {c1}
    None = None
    MaxAttempts = 2
    Allowance <- Rough
    Operations <- Deletion
SPECIFICATION WorkersSpec
INVARIANTS WorkIsRecoverable
PROPERTIES NoStaleCompletion ProcessingEnds
CHECK_DEADLOCK FALSE
