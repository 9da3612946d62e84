SPECIFICATION MCSpec
CONSTANTS
    Nil = Nil
    Empty <- MCEmpty
    Users <- MCUsers
    Groups <- MCGroups
    GroupsOf <- MCGroupsOf
    Clients <- MCClients
    IPs <- MCIPs
    Domains <- MCDomains
    Methods <- MCMethods
    Objects <- MCObjects
    Language <- MCLanguage
    CookieZones <- MCCookieZones
    Configs <- MCConfigs
INVARIANT LimitsDefaulted
CHECK_DEADLOCK FALSE
