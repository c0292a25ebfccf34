CONSTANTS
    Document = {d1}
    JobId = {j1}
    Worker = {w1, w2}
    Client = {c1}
    None = None
    MaxAttempts = 2
    Allowance <- Slow
    Operations <- AllOperations
SPECIFICATION Spec
INVARIANT CompletedHasDerivatives
CHECK_DEADLOCK FALSE
