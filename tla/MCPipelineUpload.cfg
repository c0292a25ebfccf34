CONSTANTS
    Document = {d1}
    JobId = {j1}
    Worker = {w1}
    Client = {c1}
    None = None
    MaxAttempts = 2
    Allowance <- Plain
    Operations <- AllOperations
SPECIFICATION Spec
INVARIANT QueuedHasJob
CHECK_DEADLOCK FALSE
