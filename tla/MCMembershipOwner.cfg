CONSTANTS
    Person = {p1, p2}
    Founder = {p1}
    Caller = {c1, c2}
    Invitation = {i1, i2}
    Role = {"OWNER", "ADMIN", "MEMBER"}
    None = None
    MaxCalls = 3
SPECIFICATION Spec
PROPERTY AnOwnerRemains
CHECK_DEADLOCK FALSE
