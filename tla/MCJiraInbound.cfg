CONSTANTS
    r1 = r1
    m1 = m1
    c1 = c1
    e1 = e1
    e2 = e2
    e3 = e3
    e4 = e4
    None = None
    MaxAttempts = 2
    BatchSize = 1
    Request = {r1}
    Message = {}
    Owner <- OneOwner
    Sender = {}
    Operator = {}
    Importer = {i1, i2}
    Comment = {c1}
    Event = {e1, e2, e3, e4}
    Payload <- TwoStatuses
    Created = {r1}
    Allowance <- Receiving
SPECIFICATION Spec
SYMMETRY Symmetry
INVARIANTS JiraTimeFenced AppliedOnce
CHECK_DEADLOCK FALSE
