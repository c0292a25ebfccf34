CONSTANTS
    Document = {d1, d2}
    JobId = {j1, j2, j3}
    Worker = {w1, w2}
    Client = {c1}
    None = None
    LeaseDuration = 2
    MaxDelay = 1
    MaxTime = 3
    MaxClaims = 2
SPECIFICATION Spec
INVARIANTS NoJobLost IndexSound
PROPERTIES LiveLeaseIsExclusive ImplementsFencedQueue
CHECK_DEADLOCK FALSE
SYMMETRY Symmetry
