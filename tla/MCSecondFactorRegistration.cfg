SPECIFICATION MCSpec
CONSTANTS
    u1 = u1
    u2 = u2
    a1 = a1
    a2 = a2
    Requests = {r1, r2}
    Users = {u1, u2}
    NoUser = NoUser
    NoSession = NoSession
    Steps = {k1}
    NoStep = NoStep
    Elevations <- MCElevations
    NoElevation = NoElevation
    Pendings <- MCPendings
    NoPending = NoPending
    Registrations = {d1, d2}
    Handlers = {"firstfactor", "elevationGET", "elevationPOST", "elevationPUT", "elevationDELETE", "admin", "totpRegisterPUT", "totpRegisterPOST", "totpRegisterDELETE", "totpDELETE", "registrationPUT", "registrationPOST", "registrationDELETE", "credentialPUT", "credentialDELETE"}
    MaxIds = 3
    DisableReuseSecurityPolicy = FALSE
    IPs = {a1, a2}
    NoIP = NoIP
    MaxCodes = 1
    MaxNow = 1
    CodeLifespan = 0
    ElevationLifespan = 0
    SkipSecondFactor = TRUE
    RequireSecondFactor = FALSE
    Administrators = {u1, u2}
    PendingLifespan = 0
    MaxCredentials = 2
    Stored = 2
    NoTarget = NoTarget
SYMMETRY Symmetry
INVARIANTS
    ElevationSound
    RegistrationSound
PROPERTIES
    SettingsSafe
