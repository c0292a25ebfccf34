CONSTANTS
    r1 = r1
    m1 = m1
    c1 = c1
    e1 = e1
    e2 = e2
    e3 = e3
    e4 = e4
    None = None
    MaxAttempts = 2
    BatchSize = 2
    Request = {r1}
    Message = {m1}
    Owner <- OneOwner
    Sender = {s1, s2}
    Operator = {p1}
    Importer = {i1}
    Comment = {}
    Event = {e1, e2}
    Payload <- EchoAndDelete
    Created = {}
    Allowance <- Sending
SPECIFICATION FairSpec
INVARIANTS TypeOK ShownIsTrue CopiesCostALapse
PROPERTIES QueuesDrain
CHECK_DEADLOCK FALSE
