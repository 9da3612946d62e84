SPECIFICATION Spec
CONSTANTS
    Requests = {r1, r2}
    Users = {u1}
    Links = {l1, l2, l3}
    NoUser = NoUser
    NoLink = NoLink
    MaxFaults = 1
SYMMETRY Symmetry
INVARIANTS
    ResetsExclusive
    WritesBounded
PROPERTIES
    KnownLinksInvalidated
