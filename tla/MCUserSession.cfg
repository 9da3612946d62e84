SPECIFICATION MCSpec
CONSTANTS
    Requests = {r1, r2}
    Users = {u1, u2}
    NoUser = NoUser
    NoSession = NoSession
    Steps = {c1}
    NoStep = NoStep
    Elevations = {}
    NoElevation = NoElevation
    Pendings = {}
    NoPending = NoPending
    Registrations = {}
    Handlers = {"firstfactor", "totp", "logout", "authz", "passkeyGET", "passkeyPOST", "webauthnGET", "webauthnPOST", "duo", "password", "reauthenticate"}
    MaxIds = 3
    DisableReuseSecurityPolicy = FALSE
    Stored = Stored
    None = None
    Nil = Nil
    Expunged = Expunged
SYMMETRY Symmetry
INVARIANTS
    IssuedIdentityFixed
    FactorsBelongToUser
    
PROPERTIES
    CodesSpentOnce
    MapImplements
    PreferencesKept
