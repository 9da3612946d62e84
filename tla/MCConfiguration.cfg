SPECIFICATION MCSpec
CONSTANTS
    Nil = Nil
    Empty <- MCEmpty
    Users <- MCUsers
    Groups <- MCGroups
    GroupsOf <- MCGroupsOf
    Clients <- MCClients
    IPs <- MCIPs
    Domains <- MCDomains
    Methods <- MCMethods
    Objects <- MCObjects
    Language <- MCLanguage
    CookieZones <- MCCookieZones
    Configs <- MCConfigs
INVARIANTS
    
    ForbiddenIsFinal
    RulesSound
    NoLoginLoop
PROPERTY
    OptionsKept
CHECK_DEADLOCK FALSE
