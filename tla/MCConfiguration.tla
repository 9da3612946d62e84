-------------------------- MODULE MCConfiguration --------------------------
(***************************************************************************)
(* What a configuration becomes: how it is put together from its sources   *)
(* (part "sources") and decoded (part "values"), the validation of the     *)
(* sections (part "options"), and the access control rules and what they   *)
(* decide (part "rules").                                                  *)
(*                                                                         *)
(* The configurations validated are a baseline with one theme of           *)
(* interacting options varied at a time.                                   *)
(***************************************************************************)
EXTENDS AccessControl, Integers, TLC

CONSTANT Nil

VARIABLES part,                     \* which of the four is running
          conf, errors, step,
          setup, fs, edits, moved, stage, at, sources, cached, own, ko, warnings, definitions, final,
          expectedType, decoded

ruleVars == <<config, authorizer, ip, visitor, level, object, reply>>
optionVars == <<conf, step>>
sourceVars == <<setup, fs, edits, moved, stage, at, sources, cached, own, ko, warnings, definitions, final>>
valueVars == <<expectedType, decoded>>

-----------------------------------------------------------------------------
\* The access control rules.
MCEmpty == ""
MCUsers == {"alice", "bob"}
MCGroups == {"staff"}
MCGroupsOf == [u \in MCUsers |-> IF u = "alice" THEN {"staff"} ELSE {}]
MCClients == {"app"}
MCIPs == {"lan", "wan"}
MCDomains == {<<"", "zone">>, <<"alice", "zone">>, <<"staff", "zone">>,
              <<"www", "other">>}
MCMethods == {"GET", "POST"}
MCLanguage == [t \in {"x"} |-> {"x"}]
MCCookieZones == {"zone"}
Wildcard == [form |-> "wildcard", zone |-> "zone"]
Name(d) == [form |-> "name", domain |-> d]
Token(n) == [form |-> "token", name |-> n, zone |-> "zone"]
Regex(n) == [form |-> "regex", matcher |-> Matcher(n, Below("zone"))]
Item(op, type, value) ==
    [key |-> "k", operator |-> op, type |-> type, value |-> value]

AnyRule == [domains |-> {Name(<<"", "zone">>), Wildcard}, resources |-> {},
        query |-> {}, methods |-> {}, networks |-> {}, subjects |-> {},
        policy |-> "one_factor"]

Home(n) == Matcher(n, {<<"bob", "home">>})

\* Rules about subjects, by policy.
SubjectRules ==
    {[AnyRule EXCEPT !.subjects = {{<<"group", "staff">>}}, !.policy = policy] :
        policy \in {"bypass", "two_factor", "deny"}}
    \cup {[AnyRule EXCEPT !.policy = policy] : policy \in {"bypass", "deny"}}
    \cup {[AnyRule EXCEPT !.domains = {d}, !.policy = policy] :
            d \in {Token("User"), Regex({"Group"})},
            policy \in {"bypass", "two_factor"}}
    \cup {[AnyRule EXCEPT !.domains = {Wildcard}, !.policy = "bypass"],
          [AnyRule EXCEPT !.resources = {Home({"User"})}, !.policy = "deny"],
          [AnyRule EXCEPT !.subjects = {{<<"user", "bob">>}, {<<"client", "app">>}}],
          [AnyRule EXCEPT !.subjects = {{<<"client", "none">>}}],
          [AnyRule EXCEPT !.subjects = {{<<"role", "admin">>}}],
          [AnyRule EXCEPT !.domains = {}]}

\* Rules about the object and the address.
ObjectRules ==
    {[AnyRule EXCEPT !.query = query, !.policy = "bypass"] :
        query \in {{{Item("present", "nil", "")}},
                   {{Item("absent", "nil", "")}, {Item("equal", "string", "x")}},
                   {{Item("not equal", "string", "x")}},
                   {{Item("pattern", "nil", "")}},
                   {{Item("LIKE", "string", "x")}}}}
    \cup {[AnyRule EXCEPT !.methods = {"GET"}],
          [AnyRule EXCEPT !.methods = {"GET", "GTE"}],
          [AnyRule EXCEPT !.networks = {{"lan"}}, !.policy = "bypass"],
          [AnyRule EXCEPT !.networks = {{"wan"}}, !.policy = "deny"],
          [AnyRule EXCEPT !.resources = {Home({})}, !.policy = "two_factor"],
          [AnyRule EXCEPT !.subjects = {{<<"group", "staff">>}},
                      !.policy = "two_factor"],
          [AnyRule EXCEPT !.policy = "any_factor"]}

\* Query items whose operator is defaulted, or whose value is compiled.
QueryRules ==
    {[AnyRule EXCEPT !.query = {{Item(op, "string", "x"), Item("", "nil", "")}}] :
        op \in {"", "pattern", "not pattern"}}
    \cup {[AnyRule EXCEPT !.query = {{Item("", "string", "")}}],
          [AnyRule EXCEPT !.policy = "deny"]}

\* Bound: two rules, of one family.
Rules == UNION {UNION {[1 .. n -> family] : n \in 0 .. 2} :
                    family \in {SubjectRules, ObjectRules, QueryRules}}

MCConfigs ==
    [default : {"", "two_factor", "allow"}, rules : Rules,
     clients : {{"app"}}, clientPolicies : {{"one_factor"}}]

Object(d, p, m, q) ==
    [domain |-> d, path |-> p, method |-> m, query |-> [k |-> q]]

\* Every domain and path, and every way to ask for one of them.
MCObjects ==
    {Object(d, <<"", "root">>, "GET", Absent) : d \in MCDomains}
    \cup {Object(<<"", "zone">>, <<"bob", "home">>, "GET", Absent)}
    \cup {Object(<<"", "zone">>, <<"", "root">>, m, q) :
            m \in MCMethods, q \in {Absent, "", "x"}}

-----------------------------------------------------------------------------
\* The baseline of the other options.
Address(scheme, host, port, path) == [scheme |-> scheme, host |-> host, port |-> port, path |-> path]

TLS(min, max) == [server |-> "", min |-> min, max |-> max, matches |-> TRUE]

PasswordOptions == {"argon2.iterations", "argon2.parallelism", "argon2.memory", "argon2.key", "argon2.salt",
                    "sha2crypt.iterations", "sha2crypt.salt", "pbkdf2.iterations", "pbkdf2.salt", "bcrypt.cost",
                    "scrypt.iterations", "scrypt.block", "scrypt.parallelism", "scrypt.key", "scrypt.salt",
                    "legacy.iterations", "legacy.memory", "legacy.parallelism", "legacy.key", "legacy.salt"}

MCLimits == [o \in PasswordOptions |->
                CASE o = "argon2.memory" -> [lo |-> 8, hi |-> 4096, def |-> 64]
                  [] o = "argon2.parallelism" -> [lo |-> 1, hi |-> 255, def |-> 4]
                  [] o = "bcrypt.cost" -> [lo |-> 10, hi |-> 31, def |-> 12]
                  [] OTHER -> [lo |-> 1, hi |-> 2000000, def |-> 16]]

Password == [algorithm |-> "", variants |-> [a \in {"argon2", "sha2crypt", "pbkdf2", "bcrypt", "scrypt"} |-> ""],
             options |-> [o \in PasswordOptions |-> 0]]

FileBackend == [path |-> "users.yml", watch |-> FALSE, extra |-> <<>>, password |-> Password]

LDAPBackend ==
    [implementation |-> "lldap", address |-> Address("ldap", "directory", 389, ""), tls |-> Nil, timeout |-> 0,
     usersFilter |-> {}, groupsFilter |-> {}, searchMode |-> "", attributes |-> {},
     pooling |-> [enable |-> FALSE, count |-> 0, retries |-> 0, timeout |-> 0], extra |-> <<>>,
     unauthenticated |-> FALSE, user |-> "cn=admin", password |-> "secret"]

URL(scheme, host, path) == [scheme |-> scheme, host |-> host, path |-> path]

Cookie(domain, portal) ==
    [name |-> "", sameSite |-> "", expiration |-> 0, inactivity |-> 0, rememberMe |-> 0, disableRememberMe |-> FALSE,
     domain |-> domain, autheliaURL |-> URL("https", <<portal>> \o domain, ""), redirectionURL |-> Nil, legacy |-> FALSE]

Example == <<"example", "com">>

RateLimited == {"openid_connect_pushed_authorization_request", "openid_connect_token", "openid_connect_userinfo",
                "openid_connect_introspection", "openid_connect_revocation", "health", "reset_password_start",
                "reset_password_finish", "second_factor_totp", "second_factor_duo", "second_factor_password",
                "session_elevation_start", "session_elevation_finish"}

Server ==
    [address |-> Nil, tls |-> [key |-> "", certificate |-> "", clients |-> {}], assets |-> "",
     buffers |-> [read |-> 0, write |-> 0], timeouts |-> [read |-> 0, write |-> 0, idle |-> 0],
     limits |-> [n \in RateLimited |-> [enable |-> FALSE, buckets |-> <<>>]],
     health |-> [providers |-> <<>>, cache |-> Nil], authz |-> <<>>, disableHealthcheck |-> FALSE]

Baseline ==
    [certificates |-> "", default2FA |-> "", theme |-> "", log |-> [level |-> "", format |-> ""],
     duo |-> [disable |-> FALSE, hostname |-> "", integration_key |-> "", secret_key |-> ""],
     totp |-> [disable |-> FALSE, algorithm |-> "", period |-> 0, digits |-> 0, skew |-> Nil, secretSize |-> 0,
               allowedAlgorithms |-> {}, allowedPeriods |-> {}, allowedDigits |-> {}],
     webauthn |-> [disable |-> FALSE, timeout |-> 0, conveyance |-> "", passkeyLogin |-> FALSE, passkey2FA |-> FALSE,
                   passkeyUpgrade |-> FALSE, metadata |-> FALSE, cachePolicy |-> "", attachment |-> "",
                   discoverability |-> "", verification |-> "", permitted |-> FALSE, prohibited |-> FALSE],
     identity |-> [jwtExpiration |-> 0, jwtAlgorithm |-> "", jwtSecret |-> "key", codeLifespan |-> 0,
                   elevationLifespan |-> 0, characters |-> 0],
     backend |-> [refresh |-> Nil, reset |-> [disable |-> FALSE, customURL |-> ""], registration |-> "",
                  file |-> FileBackend, ldap |-> Nil],
     definitions |-> {}, redirectionURL |-> Nil,
     session |-> [name |-> "", expiration |-> 0, inactivity |-> 0, rememberMe |-> 0, disableRememberMe |-> FALSE,
                  sameSite |-> "", domain |-> <<>>, cookies |-> <<Cookie(Example, "auth")>>, redis |-> Nil, secret |-> "s"],
     regulation |-> [modes |-> {}, findTime |-> 0, banTime |-> 0],
     server |-> Server,
     telemetry |-> [address |-> Nil, buffers |-> [read |-> 0, write |-> 0],
                    timeouts |-> [read |-> 0, write |-> 0, idle |-> 0]],
     storage |-> [encryptionKey |-> "a_very_important_secret", local |-> "db.sqlite3", mysql |-> Nil, postgres |-> Nil],
     notifier |-> [language |-> "", smtp |-> Nil, filesystem |-> "mails.txt", templates |-> ""],
     oidc |-> Nil, ntp |-> [address |-> Nil, version |-> 0, desync |-> 0],
     passwordPolicy |-> [standard |-> FALSE, zxcvbn |-> FALSE, minLength |-> 0, minScore |-> 0],
     privacy |-> [enabled |-> FALSE, scheme |-> Nil]]

-----------------------------------------------------------------------------
\* The themes.
Factors ==
    {[Baseline EXCEPT !.default2FA = m, !.duo = [disable |-> off, hostname |-> h, integration_key |-> i, secret_key |-> s],
                      !.totp.disable = t, !.webauthn.disable = t] :
        m \in {"", "totp", "mobile_push", "sms"}, off \in BOOLEAN, h \in {"", "api"}, i \in {"", "id"}, s \in {"", "key"},
        t \in BOOLEAN}
    \cup {[Baseline EXCEPT !.totp = [disable |-> off, algorithm |-> a, period |-> p, digits |-> d, skew |-> Nil,
                                     secretSize |-> z, allowedAlgorithms |-> aa, allowedPeriods |-> {}, allowedDigits |-> dd]] :
            off \in BOOLEAN, a \in {"", "SHA256", "MD5"}, p \in {0, 10, 60}, d \in {0, 7, 8}, z \in {0, 19},
            aa \in {{}, {"SHA512"}}, dd \in {{}, {6}}}
    \cup {[Baseline EXCEPT !.webauthn = [@ EXCEPT !.disable = off, !.passkeyLogin = l, !.passkey2FA = f, !.timeout = t,
                                                  !.metadata = m, !.cachePolicy = p]] :
            off, l, f, m \in BOOLEAN, t \in {0, 30}, p \in {"", "strict"}}

OneTimeTokens ==
    {[Baseline EXCEPT !.identity = [@ EXCEPT !.jwtSecret = k, !.codeLifespan = a, !.elevationLifespan = e, !.characters = n],
                      !.backend.reset = [disable |-> off, customURL |-> u],
                      !.server.limits = [@ EXCEPT !["session_elevation_start"].buckets = b, !["reset_password_start"].buckets = b]] :
        k \in {"", "key"}, a \in {0, 60}, e \in {0, 900}, n \in {0, 21}, off \in BOOLEAN, u \in {"", "https", "ftp"},
        b \in {<<>>, <<[period |-> 9, requests |-> 1]>>, <<[period |-> 60, requests |-> 0]>>, <<[period |-> 60, requests |-> 2]>>}}

Hashes ==
    {[Baseline EXCEPT !.backend.file.password =
         [algorithm |-> a, variants |-> [Password.variants EXCEPT !["scrypt"] = v],
          options |-> [Password.options EXCEPT !["legacy.iterations"] = i, !["legacy.memory"] = IF i = 0 THEN 0 ELSE 1,
                                               !["legacy.salt"] = IF i = 0 THEN 0 ELSE 17, !["argon2.memory"] = m,
                                               !["argon2.parallelism"] = p, !["scrypt.parallelism"] = p]]] :
        a \in {"", "sha512", "argon2id", "bcrypt", "md5"}, v \in {"", "yescrypt", "fast"}, i \in {0, 3}, m \in {0, 7, 16, 32},
        p \in {0, 1, 4}}

Directories ==
    {[Baseline EXCEPT !.backend.file = Nil,
                      !.backend.reset.disable = off,
                      !.backend.ldap = [LDAPBackend EXCEPT !.implementation = i, !.tls = t, !.searchMode = m, !.groupsFilter = g,
                                                           !.unauthenticated = u, !.password = p,
                                                           !.pooling = [enable |-> e, count |-> 0, retries |-> 0, timeout |-> 0]]] :
        off, u, e \in BOOLEAN, i \in {"", "lldap", "activedirectory", "other"}, t \in {Nil, TLS(0, 0), TLS(13, 12)},
        m \in {"", "memberof"}, g \in {{}, {"paren", "{memberof:dn}"}}, p \in {"", "secret"}}
    \cup {[Baseline EXCEPT !.backend = [@ EXCEPT !.file = f, !.ldap = l, !.refresh = r], !.definitions = d] :
            f \in {Nil, [FileBackend EXCEPT !.watch = TRUE, !.extra = [shift |-> [type |-> "string", name |-> ""]]],
                   [FileBackend EXCEPT !.extra = [email |-> [type |-> "string", name |-> ""]]]},
            l \in {Nil, [LDAPBackend EXCEPT !.extra = [exo |-> [type |-> "integer", name |-> "shift"]]],
                   [LDAPBackend EXCEPT !.address = Nil], [LDAPBackend EXCEPT !.address.scheme = "tcp"]},
            r \in {Nil, 60}, d \in {{}, {"shift"}, {"admin"}}}

Cookies ==
    {[Baseline EXCEPT !.session = [@ EXCEPT !.cookies = k, !.rememberMe = r, !.domain = d, !.sameSite = s],
                      !.redirectionURL = u] :
        k \in {<<>>, <<Cookie(Example, "auth")>>,
               <<Cookie(Example, "auth"), Cookie(Example, "auth")>>,
               <<Cookie(Example, "auth"), Cookie(Example, "sso")>>,
               <<Cookie(Example, "auth"), [Cookie(Example, "sso") EXCEPT !.expiration = 60]>>,
               <<Cookie(Example, "auth"), [Cookie(Example, "sso") EXCEPT !.autheliaURL = Nil]>>,
               <<Cookie(Example, "auth"), Cookie(<<"other", "com">>, "auth")>>,
               <<Cookie(Example, "auth"), Cookie(<<"sub">> \o Example, "auth")>>,
               <<[Cookie(Example, "auth") EXCEPT !.redirectionURL = URL("https", <<"www">> \o Example, "")]>>,
               <<[Cookie(Example, "auth") EXCEPT !.redirectionURL = URL("https", <<"auth">> \o Example, "")]>>,
               <<[Cookie(Example, "auth") EXCEPT !.rememberMe = -1]>>,
               <<[Cookie(Example, "auth") EXCEPT !.rememberMe = 60, !.inactivity = 30]>>,
               <<[Cookie(Example, "auth") EXCEPT !.autheliaURL = URL("http", <<"auth">> \o Example, "")]>>,
               <<[Cookie(Example, "auth") EXCEPT !.autheliaURL = URL("https", <<"auth", "com">>, "")]>>,
               <<Cookie(<<"com">>, "auth")>>, <<Cookie(<<"*", "example", "com">>, "auth")>>},
        r \in {0, -1, 600}, d \in {<<>>, Example}, s \in {"", "strict", "all"},
        u \in {Nil, URL("https", <<"www">> \o Example, ""), URL("https", <<"elsewhere">>, "")}}

Endpoint(implementation, headers, strategies) ==
    [implementation |-> implementation, headers |-> headers, strategies |-> strategies]

Strategy(name, schemes, cache) == [name |-> name, schemes |-> schemes, cache |-> cache]

\* A header strategy has schemes when the implementation is unknown: without, the code fails.
Endpoints ==
    {[Baseline EXCEPT !.backend.file.extra = [shift |-> [type |-> "string", name |-> ""]],
                      !.server.authz = (n :> Endpoint(i, h, s)) @@ more] :
        n \in {<<"legacy">>, <<"proxy">>, <<"proxy", "one">>},
        i \in {"", "Legacy", "ForwardAuth", "ExtAuthz"},
        h \in {Nil, <<"remote-user", 1>> :> "username",
               (<<"remote-user", 1>> :> "username") @@ (<<"remote-user", 2>> :> "shift"),
               <<"location", 1>> :> "username", <<"remote-role", 1>> :> "role"},
        s \in {<<>>, <<Strategy("CookieSession", {}, 0)>>,
               <<Strategy("HeaderAuthorization", {"basic"}, 5), Strategy("CookieSession", {}, 0)>>,
               <<Strategy("HeaderAuthorization", {"bearer"}, 5)>>,
               <<Strategy("CookieSession", {}, 0), Strategy("CookieSession", {}, 0)>>},
        more \in {<<>>, <<"proxy">> :> Endpoint("ExtAuthz", Nil, <<>>),
                  <<"ext">> :> Endpoint("ForwardAuth", Nil, <<Strategy("HeaderAuthorization", {}, 0)>>)}}
    \cup {[Baseline EXCEPT !.server.limits = [@ EXCEPT ![n].enable = TRUE, ![n].buckets = b],
                           !.server.address = a, !.server.health.providers = p] :
            n \in {"openid_connect_token", "openid_connect_userinfo", "second_factor_totp"},
            b \in {<<>>, <<[period |-> 60, requests |-> 2]>>},
            a \in {Nil, Address("unix", "/socket", 0, ""), Address("tcp", "", 80, "auth"), Address("udp", "", 80, "")},
            p \in {<<>>, <<"storage">>, <<"ntp", "ntp">>}}

SQL(address, tls) == [address |-> address, username |-> "authelia", database |-> "authelia", timeout |-> 0, tls |-> tls]

Stores ==
    {[Baseline EXCEPT !.storage = [encryptionKey |-> k, local |-> l, mysql |-> m, postgres |-> p]] :
        k \in {"short", "a_very_important_secret"}, l \in {Nil, "db.sqlite3"},
        m \in {Nil} \cup {SQL(a, t) : a \in {Nil, Address("tcp", "db", 0, ""), Address("ldap", "db", 1, "")}, t \in {Nil, TLS(13, 12)}},
        p \in {Nil} \cup {[schema |-> "", ssl |-> s] @@ SQL(Address("tcp", "db", 0, ""), t) :
                              s \in {Nil, "unset", "prefer"}, t \in {Nil, TLS(0, 0)}}}
    \cup {[Baseline EXCEPT !.notifier = [language |-> "", smtp |-> m, filesystem |-> f, templates |-> t]] :
            m \in {Nil} \cup {[address |-> a, host |-> h, port |-> p, sender |-> "authelia", timeout |-> 0, tls |-> Nil] :
                                a \in {Nil, Address("smtp", "mail", 25, ""), Address("tcp", "mail", 25, "")},
                                h \in {"", "mail"}, p \in {0, 587, 70000}},
            f \in {Nil, "mails.txt"}, t \in {"", "missing"}}

Rest ==
    {[Baseline EXCEPT !.theme = t, !.log.level = l, !.certificates = c, !.ntp.version = n] :
        t \in {"", "dark", "pink"}, l \in {"", "debug", "loud"}, c \in {"", "directory", "file"}, n \in {0, 3, 5}}
    \cup {[Baseline EXCEPT !.regulation = [modes |-> m, findTime |-> f, banTime |-> b],
                           !.passwordPolicy = [standard |-> s, zxcvbn |-> z, minLength |-> 0, minScore |-> x],
                           !.privacy = [enabled |-> s, scheme |-> p]] :
            m \in {{}, {"ip"}, {"host"}}, f \in {0, 600}, b \in {0, 900}, s, z \in BOOLEAN, x \in {0, 5}, p \in {Nil, "https"}}
    \cup {[Baseline EXCEPT !.session.redis = [host |-> h, port |-> p, connections |-> 0, tls |-> Nil, sentinel |-> s],
                           !.session.secret = k, !.telemetry.address = a] :
            h \in {"", "/socket", "redis"}, p \in {0, 70000}, k \in {"", "s"},
            s \in {Nil, [name |-> "", nodes |-> {}], [name |-> "main", nodes |-> {"n1"}]},
            a \in {Nil, Address("tcp", "", 0, ""), Address("unix", "/m", 0, "/")}}

\* The OpenID Connect section.
Key(key, kid, use, alg) == [key |-> key, kid |-> kid, use |-> use, alg |-> alg, chain |-> Nil]

Client ==
    [id |-> "app", form |-> "ok", name |-> "", policy |-> "", lifespan |-> "", pkceMethod |-> "", requirePKCE |-> FALSE,
     requirePAR |-> FALSE, audienceMode |-> "", scopes |-> {}, responseTypes |-> {}, responseModes |-> {}, grantTypes |-> {},
     audience |-> {}, consentMode |-> "", consentDuration |-> Nil,
     redirectURIs |-> {[form |-> "absolute", scheme |-> "https", host |-> "app.example.com"]}, requestURIs |-> <<>>,
     signed |-> [r \in {"authorization", "id_token", "access_token", "userinfo", "introspection"} |-> [alg |-> "", kid |-> ""]],
     encrypted |-> [r \in {"authorization", "id_token", "access_token", "userinfo", "introspection"} |->
                       [alg |-> "", enc |-> "", kid |-> ""]],
     sector |-> Nil, jwksURI |-> Nil, jwks |-> <<>>, requestSigningAlg |-> "",
     auth |-> [e \in {"token", "revocation", "introspection", "par"} |-> [method |-> "", alg |-> ""]],
     public |-> FALSE, secret |-> "hashed", claimsPolicy |-> ""]

Provider ==
    [keys |-> <<Key("rsa", "", "", "")>>, issuerKey |-> Nil, issuerChain |-> Nil,
     lifespans |-> [access |-> 0, refresh |-> 0, id |-> 0, code |-> 0, device |-> 0, custom |-> {"long"}],
     pkce |-> "", entropy |-> 0, policies |-> <<>>, claims |-> <<>>, scopes |-> <<>>,
     cors |-> [origins |-> <<>>, fromClients |-> FALSE, endpoints |-> {}], clients |-> <<Client>>,
     discoverySigned |-> [alg |-> "", kid |-> ""],
     discovery |-> [sigAlgs |-> {}, sigKIDs |-> {}, encKIDs |-> {}, scopes |-> {}, claims |-> {}, policies |-> {},
                    lifespans |-> {}, bearer |-> FALSE, jwtAccess |-> FALSE]]

OpenID(p) == [Baseline EXCEPT !.oidc = p]

KeySets ==
    {<<>>, <<Key("rsa", "", "", "")>>, <<Key("rsa-small", "", "", "")>>, <<Key("none", "", "", "")>>, <<Key("rsa", "", "enc", "")>>,
     <<Key("p256", "k", "sig", "")>>, <<Key("p256", "k", "sig", "RS256")>>,
     <<Key("rsa", "k", "", ""), Key("p256", "k", "", "")>>, <<Key("rsa", "k", "", ""), Key("p256", "e", "", "")>>,
     <<Key("rsa", "k", "", ""), Key("p256", "k", "enc", "")>>, <<Key("p256", "k", "enc", ""), Key("rsa", "k", "", "")>>,
     <<Key("rsa", "k", "", "RS512"), Key("ed25519", "e", "", "")>>, <<Key("rsa", "k", "", ""), Key("ed25519", "e", "sig", "")>>}

Algs == {"", "none", "RS256", "ES256", "EdDSA", "HS256"}

\* An access token whose algorithm is "none" and that names a key: the discovery then misses that access
\* tokens may be JSON web tokens.  Left out here.
NoneWithKey(k) == k.signed["access_token"].alg = "none" /\ k.signed["access_token"].kid # ""

Signing ==
    {OpenID([Provider EXCEPT !.keys = ks, !.clients = <<k>>, !.discoverySigned = d]) :
        ks \in KeySets, d \in {[alg |-> "", kid |-> ""], [alg |-> "ES256", kid |-> ""]},
        k \in {c \in {[Client EXCEPT !.signed = [@ EXCEPT ![r] = [alg |-> a, kid |-> i]], !.secret = s] :
                         r \in {"id_token", "access_token"}, a \in Algs, i \in {"", "k", "e"}, s \in {"hashed", "plain"}}
                  : ~NoneWithKey(c)}}
    \cup {OpenID([Provider EXCEPT !.keys = ks, !.issuerKey = i]) : ks \in {<<>>, <<Key("rsa", "", "", "")>>}, i \in {Nil, "rsa", "p256"}}

Clients2 ==
    {OpenID([Provider EXCEPT !.clients = <<[Client EXCEPT !.public = p, !.secret = s, !.auth["token"] = [method |-> m, alg |-> a],
                                                          !.jwks = js, !.jwksURI = u, !.responseTypes = t]>>]) :
        p \in BOOLEAN, s \in {"none", "plain", "hashed"}, m \in {"", "none", "client_secret_jwt", "private_key_jwt", "basic"},
        a \in {"", "HS256", "RS256"}, js \in {<<>>, <<Key("rsa", "c", "", "")>>, <<Key("p256", "c", "enc", "ES256")>>},
        u \in {Nil, "https"}, t \in {{}, {"id_token"}}}
    \cup {OpenID([Provider EXCEPT !.clients = <<[Client EXCEPT !.scopes = {"authelia.bearer.authz"}, !.grantTypes = g, !.audience = {"a"},
                                                              !.requirePAR = r, !.requirePKCE = r, !.pkceMethod = q,
                                                              !.consentMode = c, !.responseTypes = t, !.responseModes = {"form_post"},
                                                              !.auth["token"].method = m]>>]) :
            g \in {{}, {"authorization_code"}, {"client_credentials"}}, r \in BOOLEAN, q \in {"", "S256"}, c \in {"", "auto", "explicit"},
            t \in {{}, {"code"}}, m \in {"", "client_secret_basic"}}
    \cup {OpenID([Provider EXCEPT !.clients = <<[Client EXCEPT !.encrypted["id_token"] = [alg |-> a, enc |-> e, kid |-> ""],
                                                              !.secret = s, !.jwks = js, !.signed["id_token"].alg = g]>>]) :
            a \in {"", "A256KW", "RSA-OAEP", "ROT13"}, e \in {"", "A128GCM", "XOR"}, s \in {"plain", "hashed"},
            js \in {<<>>, <<Key("rsa", "c", "", "")>>}, g \in {"", "RS256"}}

Policy(default, policy, subjects) ==
    [default |-> default, rules |-> <<[policy |-> policy, subjects |-> subjects, networks |-> FALSE]>>]

Scope(attribute, idToken) ==
    [custom |-> [badge |-> [name |-> "", attribute |-> attribute]], idToken |-> idToken, accessToken |-> {}, audienceMode |-> ""]

Clients3 ==
    {OpenID([Provider EXCEPT !.policies = p, !.clients = <<[Client EXCEPT !.policy = n, !.lifespan = l, !.consentMode = c,
                                                                         !.consentDuration = d, !.grantTypes = g]>>]) :
        p \in {<<>>, [vip |-> Policy("", "", {"group"})], [vip |-> Policy("bypass", "deny", {"group"})],
               [vip |-> Policy("", "", {})], [two_factor |-> Policy("", "", {"user"})]},
        n \in {"", "vip", "one_factor", "deny"}, l \in {"", "long", "short"}, c \in {"", "pre-configured", "always"}, d \in {Nil, 60},
        g \in {{}, {"client_credentials"}}}
    \cup {[OpenID([Provider EXCEPT !.claims = c, !.scopes = s,
                                   !.clients = <<[Client EXCEPT !.claimsPolicy = p, !.scopes = k], [Client EXCEPT !.id = i]>>])
            EXCEPT !.backend.file.extra = [shift |-> [type |-> "string", name |-> ""]]] :
            c \in {<<>>, [work |-> Scope("shift", {"badge"})], [work |-> Scope("role", {})], [work |-> Scope("shift", {"iss"})]},
            s \in {<<>>, [job |-> {"badge"}], [openid |-> {"name"}], [job |-> {"sub"}]},
            p \in {"", "work"}, k \in {{}, {"openid", "job"}}, i \in {"app", "web"}}
    \cup {OpenID([Provider EXCEPT !.cors = [origins |-> o, fromClients |-> f, endpoints |-> e], !.pkce = k,
                                  !.clients = IF f THEN <<[Client EXCEPT !.redirectURIs = u]>> ELSE <<>>]) :
            o \in {<<>>, <<[scheme |-> "", host |-> "*", extra |-> ""]>>, <<[scheme |-> "https", host |-> "app.example.com", extra |-> ""]>>,
                   <<[scheme |-> "https", host |-> "app.example.com", extra |-> "path"], [scheme |-> "", host |-> "*", extra |-> ""]>>},
            f \in BOOLEAN, e \in {{}, {"token"}, {"jwks"}}, k \in {"", "sometimes"},
            u \in {{}, {[form |-> "absolute", scheme |-> "https", host |-> "app.example.com"], [form |-> "oob", scheme |-> "", host |-> ""]},
                   {[form |-> "absolute", scheme |-> "https", host |-> "web.example.com"]}}}

MCInputs == [factors |-> Factors, tokens |-> OneTimeTokens, hashes |-> Hashes, directories |-> Directories, cookies |-> Cookies,
             endpoints |-> Endpoints, stores |-> Stores, rest |-> Rest, signing |-> Signing, authentication |-> Clients2,
             policies |-> Clients3]

-----------------------------------------------------------------------------
Options == INSTANCE ConfigValidation WITH Inputs <- MCInputs, Limits <- MCLimits

NoOptions == conf = Nil /\ step = 0

-----------------------------------------------------------------------------
\* The sources.  main is named, d1 and d2 are the files of the directory conf, s1 holds a secret.
File(keys) == [state |-> "ok", keys |-> keys, items |-> Nil]
NoFile == [state |-> "missing", keys |-> <<>>, items |-> Nil]
Malformed == [state |-> "malformed", keys |-> <<>>, items |-> Nil]
Unfiltered == [state |-> "unfiltered", keys |-> <<>>, items |-> Nil]

\* The functions from some of the keys to values.
Partial(keys, values) == UNION {[d -> values] : d \in SUBSET keys}

Plain == [how |-> "explicit", default |-> FALSE, paths |-> <<"main">>, dirs |-> {"conf"},
          dirOf |-> [main |-> Nil, d1 |-> "conf", d2 |-> "conf", s1 |-> Nil],
          order |-> <<"d1", "d2">>, unknown |-> {},
          fs |-> [main |-> File(<<>>), d1 |-> NoFile, d2 |-> NoFile, s1 |-> NoFile],
          filters |-> [names |-> <<>>, old |-> Nil, named |-> FALSE, values |-> "good"],
          vars |-> <<>>, secrets |-> <<>>, flags |-> <<>>, editable |-> {}]

\* One key and its deprecated spellings in two files, the environment and a flag.
Spelled == {[Plain EXCEPT !.paths = <<"main", "conf">>, !.fs.main = File(m), !.fs.d1 = File(d), !.vars = v,
                          !.flags = g] :
               m \in Partial({"level", "log_level", "logs_level"}, {"a"}),
               d \in Partial({"level", "log_level"}, {"b"}),
               v \in Partial({"level", "logs_level", "feature"}, {"c"}), g \in Partial({"level"}, {"d"})}

\* A secret, by its name or a deprecated one, in a file, a variable and a file of its own.
Secret == {[Plain EXCEPT !.fs.main = File(m), !.vars = v, !.secrets = n, !.fs.s1 = s] :
               m \in Partial({"secret", "old_secret"}, {"a", ""}), v \in Partial({"secret", "old_secret"}, {"c"}),
               n \in Partial({"secret", "old_secret", "level"}, {"s1"}),
               s \in {NoFile, File([secret |-> "b"])}}

\* Networks defined in two places while the files are edited.
Network == {[Plain EXCEPT !.paths = p, !.fs.main = m, !.fs.d1 = d, !.fs.d2 = e, !.editable = {"main", "d1", "d2"}] :
               p \in {<<"main">>, <<"main", "conf">>},
               m \in {File([rule |-> "named"]), File([rule |-> "named", def |-> "x"]), Malformed, Unfiltered},
               d \in {NoFile, File([def |-> "x"]), File([acl |-> "y"])}, e \in {NoFile, File([def |-> "z"])}}

\* Hosts and ports, other deprecated keys, list items and keys nobody knows.
Legacy == {[Plain EXCEPT !.fs.main = File(h @@ o @@ t @@ a)] :
               h \in Partial({"smtp_host", "server_host"}, {"h"}), o \in Partial({"smtp_port", "server_port"}, {0, 80, Nil}),
               t \in Partial({"smtp_address", "server_address"}, {<<"t", 1>>}), a \in {<<>>, [issuer |-> "a"]}}
       \cup {[Plain EXCEPT !.fs.main.keys = k, !.fs.main.items = l, !.vars = v] :
               k \in Partial({"trusted", "feature", "issuer", "stranger"}, {"a"}),
               v \in Partial({"stranger", "trusted"}, {"c"}),
               l \in {Nil} \cup Partial({"old", "new"}, {"a"})}

\* Which files are loaded and how they are filtered.
Chosen == {[Plain EXCEPT !.how = h, !.default = b, !.paths = p, !.fs.main = m, !.fs.d1 = d, !.unknown = u,
                         !.filters = f] :
               h \in {"explicit", "environment", "implicit"}, b \in BOOLEAN,
               p \in {<<"main">>, <<"main", "conf">>, <<"conf", "d1">>, <<"conf">>},
               m \in {NoFile, File([level |-> "a"])}, d \in {NoFile, File([level |-> "b"])}, u \in {{}, {"d1"}},
               f \in {[names |-> n, old |-> o, named |-> n # <<>>, values |-> x] :
                         n \in {<<>>, <<"template">>, <<"template", "template">>, <<"other">>},
                         o \in {Nil, <<"template">>}, x \in {"good", "bad"}}}

MCSetups == Spelled \cup Secret \cup Network \cup Legacy \cup Chosen
MCContents == {NoFile, Malformed, File([rule |-> "named", def |-> "w"]), File(<<>>)}
MCDefaults == [certificates |-> "none"]
MCCommandDefaults == [jwks |-> "none"]

Sources == INSTANCE ConfigLoading WITH
    Setups <- MCSetups, Contents <- MCContents, Defaults <- MCDefaults, CommandDefaults <- MCCommandDefaults,
    MaxEdits <- 1

NoSources ==
    /\ setup = Nil /\ fs = Nil /\ edits = 0 /\ moved = FALSE /\ stage = "none" /\ at = 0 /\ sources = <<>>
    /\ cached = Nil /\ own = <<>> /\ ko = Nil /\ warnings = {} /\ definitions = Nil /\ final = Nil

-----------------------------------------------------------------------------
\* The values: every type of option with every text, and numbers and addresses where they may be.
Texts == {"empty", "bad", "bad-digest", "mail", "url", "pattern", "pattern-i", "pattern-case", "certificate",
          "chain", "rsa", "ecdsa", "ed25519", "public", "base64", "tls", "digest", "language", "network",
          "lan-name", "uuid", "duration", "always"}
Pointed == {"mail", "url", "regexp", "regexpCI", "x509chain", "tls", "digest", "language", "uuid", "duration",
            "refresh", "tcpaddress", "udpaddress", "ldapaddress", "smtpaddress"}
AddressTypes == {"tcpaddress", "udpaddress", "ldapaddress", "smtpaddress"}
URLs == {u \in [scheme : {Nil, "tcp", "udp4", "unix", "ldap", "ldapi", "submission", "fd", "http"}, user : {Nil, ""},
                 host : {"", "h", "3"}, port : {Nil, -1, 80}, path : {"", "p"}, umask : {Nil, "ok", "bad"},
                 fragment : BOOLEAN] : u.fragment => u.umask = Nil /\ u.user = Nil}
TextOf(t) == [kind |-> "string", text |-> t]

MCFields ==
         [type : Pointed, pointer : BOOLEAN, datum : {TextOf(t) : t \in Texts}]
    \cup [type : {"x509", "rsa", "ecdsa", "ed25519"}, pointer : {TRUE}, datum : {TextOf(t) : t \in Texts}]
    \cup [type : {"privatekey", "key", "networks"}, pointer : {FALSE}, datum : {TextOf(t) : t \in Texts}]
    \cup [type : {"networks"}, pointer : {FALSE},
          datum : {[kind |-> "strings", texts |-> <<t, u>>] : t, u \in {"network", "lan-name", "bad"}}]
    \cup [type : {"duration", "refresh"}, pointer : BOOLEAN,
          datum : [kind : {"digits", "int", "float"}, seconds : -9..9]]
    \cup [type : AddressTypes, pointer : {TRUE}, datum : {[kind |-> "url", url |-> u] : u \in URLs}]
MCDefinitions == [n \in {"lan-name"} |-> {"net1", "net2"}]

Values == INSTANCE ConfigDecoding WITH
    Fields <- MCFields, Definitions <- MCDefinitions, Second <- 2, MaxUnits <- 7

NoValues == expectedType = "none" /\ decoded = Nil

-----------------------------------------------------------------------------
NoRules ==
    /\ config = [default |-> "two_factor", rules |-> <<>>, clients |-> {"app"}, clientPolicies |-> {"one_factor"}]
    /\ authorizer = NoAuthorizer /\ ip = "lan" /\ visitor = Empty /\ level = 0 /\ object = NoObject /\ reply = "stopped"

MCInit ==
    \/ part = "options" /\ Options!Init /\ NoRules /\ NoSources /\ NoValues
    \/ part = "rules" /\ Init /\ errors = {} /\ NoOptions /\ NoSources /\ NoValues
    \/ part = "sources" /\ Sources!Init /\ NoOptions /\ NoRules /\ NoValues
    \/ part = "values" /\ Values!Init /\ errors = {} /\ NoOptions /\ NoRules /\ NoSources

MCNext ==
    \/ part = "options" /\ Options!Next /\ UNCHANGED <<part, ruleVars, sourceVars, valueVars>>
    \/ part = "rules" /\ Next /\ UNCHANGED <<part, errors, optionVars, sourceVars, valueVars>>
    \/ part = "sources" /\ Sources!Next /\ UNCHANGED <<part, optionVars, ruleVars, valueVars>>
    \/ part = "values" /\ Values!Next /\ UNCHANGED <<part, errors, optionVars, ruleVars, sourceVars>>

MCSpec == MCInit /\ [][MCNext]_<<part, errors, optionVars, ruleVars, sourceVars, valueVars>>

-----------------------------------------------------------------------------

\* What is configured is kept: a validator only fills in what is unset, enables nothing that is disabled
\* but resets that have a custom URL, and drops no error.
OptionsKept == [][part = "options" => Options!Kept]_<<part, errors, optionVars>>

\* "These are enabled by default": an endpoint whose rate limit is enabled has buckets.
LimitsDefaulted == part = "options" => Options!LimitsDefaulted
=============================================================================
