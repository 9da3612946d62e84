SPECIFICATION MCSpec
CONSTANTS
    u1 = u1
    u2 = u2
    r1 = r1
    r2 = r2
    r3 = r3
    URIs = {h1, h2}
    Requests = {r1, r2, r3}
    NoURI = NoURI
    Anonymous = Anonymous
    NoSubject = NoSubject
    k1 = k1
    k2 = k2
    x = x
    y = y
    a = a
    z = z
    w = w
    NoKey = NoKey
    NoId = NoId
    NoClaims = NoClaims
    Malformed = Malformed
    Gone = Gone
    NoValue = NoValue
    None = None
    Failed = Failed
    Unset = Unset
SYMMETRY Symmetry
INVARIANTS
    CompletedOnce
    ConsentSound
    ProviderSound
PROPERTIES
    AnswerIsFinal
CHECK_DEADLOCK FALSE
