SPECIFICATION MCSpec
CONSTANTS
    Requests = {r1, r2}
    Passwords = {p1, p2}
    Lifespan = 1
    Slow = 1
    MaxTime = 5
    None = None
    Users = {u1}
    IPs = {i1}
    NoUser = NoUser
    NoIP = NoIP
    NoRefresh = NoRefresh
    Absent = Absent
    Malformed = Malformed
    Failed = Failed
    NoLimiter = NoLimiter
    NoReservation = NoReservation
SYMMETRY Symmetry
INVARIANTS
    CredentialsSound
    RegulationSound
    LimitsSound
    AuthzSessionSound
CHECK_DEADLOCK FALSE
