CONSTANTS
    Nil = Nil
    Session = {s1, s2}
    Visit = {v1, v2}
    Token = {t1}
    Challenge = {x1}
    Method = {m1}
    Recovery = {k1, k2}
    MaxAttempts = 2
    MaxClock = 1
    MaxChanges = 1
    Operator = {o1}
    Browser = {v1, v2}
    Request = {k1, k2}
    Idp = idp
    AskedPolicy <- RequiredAtOnce
    MaxVersion = 6
    Person = {p1, p2, p3}
    Founder = {p1, p2}
    Caller = {v1, v2}
    Invitation = {k1, k2}
    Role = {"OWNER", "ADMIN", "MEMBER"}
    None = None
    MaxCalls = 3
SPECIFICATION IdentitySpec
INVARIANTS CodeAcceptedOnce ChallengeOpensOne EnabledIsProven RequestOpensOne
PROPERTIES LastOwnerStays DecidesOnCurrent
SYMMETRY Symmetry
CHECK_DEADLOCK FALSE
