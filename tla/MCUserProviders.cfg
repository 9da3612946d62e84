SPECIFICATION MCSpec
CONSTANTS
    Writers = {w1, w2}
    Users = {u1}
    Passwords = {p1, p2}
    NoAccount = NoAccount
    NoPassword = NoPassword
    Empty = Empty
    Nobody = Nobody
    Watch = TRUE
    MaxEvents = 1
    MaxEdits = 1
    MaxFaults = 1
    Clients = {c1, c2, c3}
    NoClient = NoClient
    None = None
    Failed = Failed
SYMMETRY Symmetry
INVARIANTS
    FileSound
    LDAPSound
PROPERTIES
    AccountsSafe
CHECK_DEADLOCK FALSE
