SPECIFICATION Spec
CONSTANTS
    Writers = {w1, w2}
    Users = {u1}
    Passwords = {p1, p2}
    NoAccount = NoAccount
    NoPassword = NoPassword
    Empty = Empty
    Nobody = Nobody
    Watch = TRUE
    MaxEvents = 2
    MaxEdits = 0
    MaxFaults = 0
PROPERTIES
    ReloadsKeepChanges
