CONSTANTS
    Person = {p1, p2, p3}
    FirstOwner = {p1, p2}
    Administrator = {p3}
    Caller = {c1, c2}
    Approval = {a1, a2}
    None = None
    Staff = {c1, c2}
    Company = {a1, a2}
    Support = {s1}
    Consent = {k1}
    Desk = {d1}
    Grant = {"SUPPORT"}
    Scopes <- AllScopes
    Step = {"NEW", "RESOLVED"}
    LastVersion = 3
    Absent = Absent
SPECIFICATION PartSpec
SYMMETRY Symmetry
INVARIANTS GovernanceTypeOK AnOwnerStays ExecutedOnce DecisionsAgree
PROPERTIES ExecutesWhatWasApproved SupportActsAsApproved
CHECK_DEADLOCK FALSE
