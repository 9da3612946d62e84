-------------------------- MODULE ConfigValidation --------------------------
(***************************************************************************)
(* The validation of a decoded configuration                               *)
(* (internal/configuration/validator): ValidateConfiguration calls one     *)
(* validator after the other.  Each of them fills in the options of its    *)
(* section that are unset, records errors, and may read the options of     *)
(* other sections; so the order of the calls decides what it reads.  The   *)
(* process only goes on when no error was recorded.                        *)
(*                                                                         *)
(* One action is one validator.  An unset string is "", an unset number is *)
(* 0 or negative as in the code, a nil pointer is Nil; times are seconds.  *)
(* An error is the name of the option it is about.  Warnings are left out. *)
(* A domain name is the sequence of its labels.  The access control rules  *)
(* are the subject of AccessControl; their validator is not a step here.   *)
(***************************************************************************)
EXTENDS ConfigOIDC

CONSTANTS Inputs,          \* the decoded configurations: theme -> set of configurations
          Limits           \* password option -> [lo, hi, def]: the hash library's bounds

VARIABLES conf,            \* the configuration being adapted
          errors,          \* the errors pushed so far
          step             \* the next validator to call

vars == <<conf, errors, step>>

(***************************************************************************)
(* Addresses: [scheme, host, port, path], path "" when absent, "bad" when  *)
(* it has a second segment or a character that is not alphanumeric.        *)
(***************************************************************************)
TCP == {"tcp", "tcp4", "tcp6"}

ValidHTTP(a) == a.scheme \in TCP \cup {"unix", "fd"}

ValidSQL(a) == a.scheme \in TCP \cup {"unix"}

ValidSMTP(a) == a.scheme \in {"smtp", "submission", "submissions"}

ValidLDAP(a) == a.scheme \in {"ldap", "ldaps", "ldapi"}

IsUDP(a) == a.scheme \in {"udp", "udp4", "udp6"}

Socket(a) == a.scheme \in {"unix", "fd"}

NewSMTPAddress(host, port) ==
    LET p == NonZero(port, 25)
    IN  [scheme |-> CASE p = 465 -> "submissions" [] p = 587 -> "submission" [] OTHER -> "smtp",
         host |-> host, port |-> p, path |-> ""]

(***************************************************************************)
(* Second factors and one-time tokens.                                     *)
(***************************************************************************)
validateCertificates(c) == Result(c, When(c.certificates \notin {"", "directory"}, "certificates_directory"))

EnabledMethods(c) ==
      When(~c.totp.disable, "totp")
    \cup When(~c.webauthn.disable, "webauthn")
    \cup When(~c.duo.disable, "mobile_push")

validateDefault2FAMethod(c) ==
    Result(c, When(c.default2FA # "" /\ c.default2FA \notin EnabledMethods(c), "default_2fa_method"))

ValidateTheme(c) ==
    LET t == Text(c.theme, "light")
    IN  Result([c EXCEPT !.theme = t], When(t \notin {"light", "dark", "grey", "oled", "auto"}, "theme"))

ValidateLog(c) ==
    LET l == Text(c.log.level, "info")
        f == Text(c.log.format, "text")
    IN  Result([c EXCEPT !.log = [level |-> l, format |-> f]],
               When(f \notin {"text", "json"}, "log.format")
               \cup When(l \notin {"trace", "debug", "info", "warn", "error"}, "log.level"))

\* Duo without a hostname and without keys is switched off, with a part of them an error.
ValidateDuo(c) ==
    LET set == {k \in {"hostname", "integration_key", "secret_key"} : c.duo[k] # ""}
        off == c.duo.disable \/ set = {}
    IN  Result([c EXCEPT !.duo.disable = off],
               IF off THEN {} ELSE {"duo." \o k : k \in {"hostname", "integration_key", "secret_key"} \ set})

\* Upper-casing the algorithm names is the identity on the values modelled.
ValidateTOTP(c) ==
    LET t == c.totp
        n == [t EXCEPT !.algorithm = Text(@, "SHA1"), !.period = NonZero(@, 30), !.digits = NonZero(@, 6),
                       !.skew = IF @ = Nil THEN 1 ELSE @, !.secretSize = NonZero(@, 32)]
        m == [n EXCEPT !.allowedAlgorithms = @ \cup {n.algorithm},
                       !.allowedPeriods = @ \cup {n.period}, !.allowedDigits = @ \cup {n.digits}]
    IN  IF t.disable THEN Result(c, {}) ELSE
        Result([c EXCEPT !.totp = m],
               When(~(m.allowedAlgorithms \subseteq {"SHA1", "SHA256", "SHA512"}), "totp.algorithm")
               \cup When(\E p \in m.allowedPeriods : p < 15, "totp.period")
               \cup When(~(m.allowedDigits \subseteq {6, 8}), "totp.digits")
               \cup When(m.secretSize < 20, "totp.secret_size"))

ValidateWebAuthn(c) ==
    LET w == c.webauthn
        n == [w EXCEPT !.timeout = Positive(@, 60), !.conveyance = Text(@, "indirect")]
    IN  Result([c EXCEPT !.webauthn = n],
               When(w.passkeyLogin /\ w.disable, "webauthn.enable_passkey_login")
               \cup When(~w.passkeyLogin /\ w.passkey2FA, "webauthn.passkey_uv_two_factors")
               \cup When(~w.passkeyLogin /\ w.passkeyUpgrade, "webauthn.passkey_upgrade")
               \cup When(w.metadata /\ w.cachePolicy \notin {"strict", "relaxed"}, "webauthn.cache_policy")
               \cup When(n.conveyance \notin {"none", "indirect", "direct"}, "webauthn.conveyance")
               \cup When(w.attachment \notin {"", "platform", "cross-platform"}, "webauthn.attachment")
               \cup When(w.discoverability \notin {"", "discouraged", "preferred", "required"}, "webauthn.discoverability")
               \cup When(w.verification \notin {"", "discouraged", "preferred", "required"}, "webauthn.user_verification")
               \cup When(w.permitted /\ w.prohibited, "webauthn.filtering"))

ValidateIdentityValidation(c) ==
    LET v == c.identity
        n == [v EXCEPT !.jwtExpiration = Positive(@, 7200), !.jwtAlgorithm = Text(@, "HS256"),
                       !.codeLifespan = Positive(@, 300), !.elevationLifespan = Positive(@, 600),
                       !.characters = Positive(@, 8)]
    IN  Result([c EXCEPT !.identity = n],
               When(n.jwtAlgorithm \notin {"HS256", "HS384", "HS512"}, "jwt_algorithm")
               \cup When(~c.backend.reset.disable /\ v.jwtSecret = "", "jwt_secret")
               \cup When(n.characters > 20, "characters"))

(***************************************************************************)
(* The authentication backend.  The options of the password hashes are a   *)
(* function from "<algorithm>.<option>" to a number; the legacy options    *)
(* are those of the algorithm "legacy".                                    *)
(***************************************************************************)
OutOfBounds(p, o) == p[o] # 0 /\ (p[o] < Limits[o].lo \/ p[o] > Limits[o].hi)

\* Every option in names gets its default or an error when it is out of its bounds.
Defaulted(p, names) == [o \in DOMAIN p |-> IF o \in names THEN NonZero(p[o], Limits[o].def) ELSE p[o]]

Bounds(p, names) == {o \in names : OutOfBounds(p, o)}

\* The memory is compared with the parallelism, which has its default by then, only when it is set.
validateArgon2(p) ==
    LET names == {"argon2.iterations", "argon2.parallelism", "argon2.memory", "argon2.key", "argon2.salt"}
        n     == Defaulted(p, names)
    IN  [options |-> n,
         errors  |-> Bounds(p, names) \cup
                     When(/\ p["argon2.memory"] # 0
                          /\ ~OutOfBounds(p, "argon2.memory")
                          /\ p["argon2.memory"] < 8 * n["argon2.parallelism"], "argon2.memory")]

validateSHA2Crypt(p) ==
    LET names == {"sha2crypt.iterations", "sha2crypt.salt"}
    IN  [options |-> Defaulted(p, names), errors |-> Bounds(p, names)]

\* The default number of iterations depends on the variant.
PBKDF2Iterations(variant) ==
    CASE variant \in {"sha512", ""} -> 310000 [] variant = "sha384" -> 280000 [] variant = "sha256" -> 700000
      [] variant = "sha224" -> 900000 [] OTHER -> 1600000

validatePBKDF2(p, variant) ==
    LET n == [p EXCEPT !["pbkdf2.iterations"] = NonZero(@, PBKDF2Iterations(variant))]
    IN  [options |-> Defaulted(n, {"pbkdf2.salt"}), errors |-> Bounds(p, {"pbkdf2.iterations", "pbkdf2.salt"})]

validateBcrypt(p) == [options |-> Defaulted(p, {"bcrypt.cost"}), errors |-> Bounds(p, {"bcrypt.cost"})]

\* The yescrypt variant only takes a parallelism of 1.
validateScrypt(p, variant) ==
    LET names == {"scrypt.iterations", "scrypt.block", "scrypt.parallelism", "scrypt.key", "scrypt.salt"}
    IN  [options |-> Defaulted(p, names),
         errors  |-> Bounds(p, names) \cup
                     When(variant = "yescrypt" /\ p["scrypt.parallelism"] \notin {0, 1}, "scrypt.parallelism")]

\* The legacy algorithm names and the legacy options, for those of the algorithm that are unset.
legacyOptions(f) ==
    LET p == f.options
        Take(o, from) == IF p[from] > 0 /\ p[o] = 0 THEN p[from] ELSE p[o]
    IN  CASE f.algorithm = "sha512" ->
               [f EXCEPT !.algorithm = "sha2crypt",
                         !.options["sha2crypt.iterations"] = Take("sha2crypt.iterations", "legacy.iterations"),
                         !.options["sha2crypt.salt"] =
                             IF p["legacy.salt"] > 16 /\ @ = 0 THEN 16 ELSE Take("sha2crypt.salt", "legacy.salt")]
          [] f.algorithm = "argon2id" ->
               [f EXCEPT !.algorithm = "argon2",
                         !.options["argon2.iterations"] =
                             IF p["legacy.iterations"] > 0 /\ p["argon2.memory"] = 0 THEN p["legacy.iterations"] ELSE @,
                         !.options["argon2.memory"] = 
                             IF p["legacy.memory"] > 0 /\ @ = 0 THEN 1024 * p["legacy.memory"] ELSE @,
                         !.options["argon2.parallelism"] = Take("argon2.parallelism", "legacy.parallelism"),
                         !.options["argon2.key"] = Take("argon2.key", "legacy.key"),
                         !.options["argon2.salt"] = Take("argon2.salt", "legacy.salt")]
          [] OTHER -> f

Variants == [argon2    |-> {"argon2id", "id", "argon2i", "i", "argon2d", "d"},
             sha2crypt |-> {"sha256", "sha512"},
             pbkdf2    |-> {"sha1", "sha224", "sha256", "sha384", "sha512"},
             bcrypt    |-> {"standard", "sha256"},
             scrypt    |-> {"scrypt", "yescrypt"}]

DefaultVariant == [argon2 |-> "argon2id", sha2crypt |-> "sha512", pbkdf2 |-> "sha512",
                   bcrypt |-> "standard", scrypt |-> "scrypt"]

\* f is the password section of the file backend.
ValidatePasswordConfiguration(f) ==
    LET l == legacyOptions(f)
        v == [a \in DOMAIN Variants |-> Text(l.variants[a], DefaultVariant[a])]
        a == validateArgon2(l.options)
        h == validateSHA2Crypt(a.options)
        k == validatePBKDF2(h.options, v.pbkdf2)
        b == validateBcrypt(k.options)
        s == validateScrypt(b.options, v.scrypt)
        g == Text(l.algorithm, "argon2")
    IN  [password |-> [algorithm |-> g, variants |-> v, options |-> s.options],
         errors   |-> a.errors \cup h.errors \cup k.errors \cup b.errors \cup s.errors
                      \cup {x \in DOMAIN Variants : v[x] \notin Variants[x]}
                      \cup When(g \notin DOMAIN Variants, "algorithm")]

ReservedAttribute(name) ==
    name \in UserAttributes \cup {"emails_extra", "email_verified", "phone_number_rfc3966", "phone_number_verified",
                                  "address", "updated_at"}

validateExtraAttributes(extra) ==
    When(\E k \in DOMAIN extra : extra[k].type \notin {"string", "integer", "boolean"}, "extra.value_type")
    \cup When(\E k \in DOMAIN extra : ReservedAttribute(AttributeName(extra, k)), "extra.reserved")

validateFileAuthenticationBackend(c) ==
    LET r == ValidatePasswordConfiguration(c.backend.file.password)
    IN  Result([c EXCEPT !.backend.file.password = r.password],
               r.errors \cup When(c.backend.file.path = "", "file.path")
               \cup When(\E k \in DOMAIN c.backend.file.extra :
                             c.backend.file.extra[k].type \notin {"string", "integer", "boolean"}, "extra.value_type")
               \cup When(\E k \in DOMAIN c.backend.file.extra : ReservedAttribute(k), "extra.reserved"))

\* TLS options [server, min, max, matches]: versions are 10 to 13, 9 is SSL 3.0 and 0 unset.
ValidateTLSConfig(t, server, min) ==
    IF t = Nil THEN [tls |-> Nil, ok |-> TRUE] ELSE
    LET n == [t EXCEPT !.server = Text(@, server), !.min = NonZero(@, min)]
    IN  [tls |-> n, ok |-> NonZero(n.min, 12) >= 10 /\ NonZero(n.min, 12) <= NonZero(n.max, 13) /\ n.matches]

\* The defaults of an LDAP implementation.  A filter is the set of its relevant features, {} when it
\* is unset; attributes is the set of the attributes with a name.
LDAPImplementation(name) ==
    LET Impl(timeout, users, groups, attrs) ==
            [timeout |-> timeout, usersFilter |-> users, groupsFilter |-> groups,
             attributes |-> attrs \cup {"username", "display_name", "mail", "group_name"}]
        users  == {"paren", "{username_attribute}", "{input}"}
        groups == {"paren"}
    IN  CASE name = "custom"          -> Impl(20, {}, {}, {})
          [] name = "activedirectory" -> Impl(5, users, groups, {"distinguished_name", "member_of", "given_name",
                                                                 "family_name", "phone_number", "locality"})
          [] name = "rfc2307bis"      -> Impl(5, users, groups, {"member_of"})
          [] name = "freeipa"         -> Impl(5, users, groups, {"member_of", "given_name", "family_name"})
          [] name = "lldap"           -> Impl(5, users, groups, {"member_of"})
          [] name = "glauth"          -> Impl(5, users, groups, {"member_of"})

LDAPImplementations == {"custom", "activedirectory", "rfc2307bis", "freeipa", "lldap", "glauth"}

\* The options of the implementation for those that are unset; nothing for an unknown implementation.
LDAPDefaults(l) ==
    IF l.implementation \notin LDAPImplementations THEN l ELSE
    LET d == LDAPImplementation(l.implementation)
    IN  [l EXCEPT !.timeout      = NonZero(@, d.timeout),
                  !.usersFilter  = IF @ = {} THEN d.usersFilter ELSE @,
                  !.groupsFilter = IF @ = {} THEN d.groupsFilter ELSE @,
                  !.searchMode   = Text(@, "filter"),
                  !.attributes   = @ \cup d.attributes]

validateLDAPGroupFilter(l) ==
    LET dn == "{memberof:dn}" \in l.groupsFilter
        rdn == "{memberof:rdn}" \in l.groupsFilter
    IN  When(l.searchMode \notin {"filter", "memberof"}, "ldap.group_search_mode")
        \cup When(l.searchMode = "memberof" /\ ~dn /\ ~rdn, "ldap.groups_filter")
        \cup When(dn /\ "distinguished_name" \notin l.attributes, "ldap.distinguished_name")
        \cup When((dn \/ rdn) /\ "member_of" \notin l.attributes, "ldap.member_of")

validateLDAPRequiredParameters(l, reset) ==
    (IF l.unauthenticated
     THEN When(l.password # "", "ldap.password") \cup When(~reset.disable, "ldap.permit_unauthenticated_bind")
     ELSE When(l.user = "", "ldap.user") \cup When(l.password = "", "ldap.password"))
    \cup When(~({"paren", "{username_attribute}", "{input}"} \subseteq l.usersFilter), "ldap.users_filter")
    \cup When("paren" \notin l.groupsFilter, "ldap.groups_filter")
    \cup validateLDAPGroupFilter(l)

validateLDAPAuthenticationBackend(c) ==
    LET i == LDAPDefaults([c.backend.ldap EXCEPT !.implementation = Text(@, "custom")])
        t == ValidateTLSConfig(IF i.tls = Nil THEN [server |-> "", min |-> 0, max |-> 0, matches |-> TRUE] ELSE i.tls,
                               IF i.address = Nil THEN "" ELSE i.address.host,
                               IF i.implementation \in LDAPImplementations THEN 12 ELSE 0)
        p == IF i.pooling.enable
             THEN [i.pooling EXCEPT !.count = IF @ < 1 THEN 5 ELSE @, !.retries = IF @ < 1 THEN 2 ELSE @,
                                    !.timeout = IF @ < 1 THEN 10 ELSE @]
             ELSE i.pooling
        l == [i EXCEPT !.tls = t.tls, !.pooling = p, !.searchMode = Text(@, "filter")]
    IN  Result([c EXCEPT !.backend.ldap = l],
               When(l.implementation \notin LDAPImplementations, "ldap.implementation")
               \cup (IF l.address = Nil THEN {"ldap.address"} ELSE When(~ValidLDAP(l.address), "ldap.address"))
               \cup When(~t.ok, "ldap.tls")
               \cup When("{0}" \in l.usersFilter, "ldap.users_filter")
               \cup When(l.groupsFilter \cap {"{0}", "{1}"} # {}, "ldap.groups_filter")
               \cup validateExtraAttributes(l.extra)
               \cup validateLDAPRequiredParameters(l, c.backend.reset))

\* The refresh interval is Always when the file is watched: user details are read on every request.
Always == -1

\* A custom URL is a scheme, "" when it is not set; one for resets switches resets on.
ValidateBackend(c) ==
    LET b == c.backend
        http == b.reset.customURL \in {"http", "https"}
        n == [c EXCEPT !.backend.refresh = IF @ # Nil THEN @ ELSE
                                             IF b.file # Nil /\ b.file.watch THEN Always ELSE 300,
                       !.backend.reset.disable = @ /\ ~http]
        f == IF b.file # Nil THEN validateFileAuthenticationBackend(n) ELSE Result(n, {})
        l == IF b.ldap # Nil THEN validateLDAPAuthenticationBackend(f.config) ELSE Result(f.config, {})
    IN  Result(l.config,
               f.errors \cup l.errors
               \cup When((b.ldap = Nil) = (b.file = Nil), "authentication_backend")
               \cup When(b.reset.customURL # "" /\ ~http, "password_reset.custom_url")
               \cup When(b.registration \notin {"", "http", "https"}, "registration.custom_url"))

ValidateDefinitions(c) ==
    Result(c, When(\E n \in c.definitions : ReservedAttribute(n) \/ n \in ExtraNames(c), "definitions.user_attributes"))

(***************************************************************************)
(* The session section.  A URL is [scheme, host, path], Nil when unset.    *)
(* RememberMeDisabled is the decoded value of -1.                          *)
(***************************************************************************)
RememberMeDisabled == -1

SameSites == {"none", "lax", "strict"}

ProperSuffix(s, t) == Len(s) < Len(t) /\ IsSuffix(s, t)

\* A domain with a leading period has "" as its first label.
HasDomainSuffix(d, s) ==
    s # <<>> /\ (d = s \/ ProperSuffix(s, d) \/ (Head(s) = "" /\ ProperSuffix(Tail(s), d)))

HasURIDomainSuffix(u, s) == HasDomainSuffix(u.host, s)

IsAbs(u) == u.scheme # ""

IsURISecure(u) == u.scheme \in {"https", "wss"}

\* The names of top-level domains stand for every public suffix.
PublicSuffix == {<<"com">>, <<"co", "uk">>}

validateSessionDomainName(k) ==
    LET d == k.domain
    IN  CASE d = <<>>                          -> {"session.domain"}
          [] d[1] = "*"                        -> {"session.domain"}
          [] Len(d) = 1                        -> {"session.domain"}
          [] \E i \in DOMAIN d : d[i] = ""     -> {"session.domain"}
          [] OTHER                             -> When(d \in PublicSuffix, "session.domain")

\* The errors of an option that holds a URL of cookie k, its scope excepted.
URLErrors(u, name) == When(~IsAbs(u) \/ ~IsURISecure(u), name)

OutOfScope(k, u) == k.domain # <<>> /\ ~HasURIDomainSuffix(u, k.domain)

\* The portal's URL gets a trailing slash; a legacy cookie loses a redirection URL that is out of its scope.
validateSessionCookiesURLs(k) ==
    LET a == IF k.autheliaURL # Nil /\ k.autheliaURL.path = "auth" /\ IsAbs(k.autheliaURL)
             THEN [k.autheliaURL EXCEPT !.path = "auth/"] ELSE k.autheliaURL
        r == k.redirectionURL
        lost == r # Nil /\ k.legacy /\ OutOfScope(k, r)
    IN  [cookie |-> [k EXCEPT !.autheliaURL = a, !.redirectionURL = IF lost THEN Nil ELSE @],
         errors |-> (IF a = Nil THEN When(~k.legacy /\ k.domain # <<>>, "session.authelia_url")
                     ELSE URLErrors(a, "session.authelia_url") \cup When(OutOfScope(k, a), "session.authelia_url"))
                    \cup (IF r = Nil THEN {} ELSE
                          URLErrors(r, "session.default_redirection_url")
                          \cup When(OutOfScope(k, r) /\ ~k.legacy, "session.default_redirection_url")
                          \cup When(~lost /\ a = r, "session.default_redirection_url"))]


\* The options of cookie k that are unset, from the session section s.
validateSessionCookie(k, s) ==
    LET u == validateSessionCookiesURLs([k EXCEPT !.name = Text(@, s.name)])
        r == IF k.rememberMe <= 0 /\ k.rememberMe # RememberMeDisabled THEN s.rememberMe ELSE k.rememberMe
    IN  [cookie |-> [u.cookie EXCEPT !.expiration = Positive(@, s.expiration), !.inactivity = Positive(@, s.inactivity),
                                     !.rememberMe = r, !.disableRememberMe = @ \/ r = RememberMeDisabled,
                                     !.sameSite = Text(@, IF s.sameSite \in SameSites THEN s.sameSite ELSE "lax")],
         errors |-> validateSessionDomainName(k) \cup u.errors
                    \cup When(k.sameSite \notin SameSites \cup {""}, "session.same_site")]

sessionCookieAutheliaHost(k) == IF k.autheliaURL = Nil THEN <<>> ELSE k.autheliaURL.host

sessionCookieSameDomainConfigEqual(k, l) ==
    \A f \in {"name", "sameSite", "expiration", "inactivity", "rememberMe", "disableRememberMe", "redirectionURL"} :
        k[f] = l[f]

\* Cookies of one domain belong to different portals and have equal settings; the scopes of cookies of
\* different domains do not overlap.
UniqueCookieDomain(k, l) ==
    (HasDomainSuffix(k.domain, l.domain) \/ HasDomainSuffix(l.domain, k.domain)) =>
        /\ k.domain = l.domain
        /\ <<>> \notin {sessionCookieAutheliaHost(k), sessionCookieAutheliaHost(l)}
        /\ sessionCookieAutheliaHost(k) # sessionCookieAutheliaHost(l)
        /\ sessionCookieSameDomainConfigEqual(k, l)

validateSessionCookieDomains(s) ==
    LET v == [i \in DOMAIN s.cookies |-> validateSessionCookie(s.cookies[i], s)]
    IN  [session |-> [s EXCEPT !.cookies = [i \in DOMAIN v |-> v[i].cookie]],
         errors  |-> UNION {v[i].errors : i \in DOMAIN v}
                     \cup When(s.cookies = <<>>, "session.cookies")
                     \cup When(\E i \in DOMAIN v : \E j \in 1..(i - 1) : ~UniqueCookieDomain(v[i].cookie, v[j].cookie),
                               "session.cookies")]

\* redis is [host, port, connections, tls, sentinel], sentinel [name, nodes] with nodes a set of hosts.
validateRedis(s) ==
    LET r == s.redis
        t == ValidateTLSConfig(r.tls, r.host, 12)
        n == IF r.sentinel = Nil
             THEN [r EXCEPT !.tls = t.tls, !.connections = Positive(@, 8),
                            !.port = IF r.host = "/socket" THEN @ ELSE NonZero(@, 6379)]
             ELSE [r EXCEPT !.tls = t.tls, !.port = NonZero(@, 26379)]
    IN  [session |-> [s EXCEPT !.redis = n],
         errors  |-> When(s.secret = "", "session.secret") \cup When(~t.ok, "redis.tls")
                     \cup When((r.sentinel # Nil \/ r.host # "/socket") /\ n.port \notin 1..65535, "redis.port")
                     \cup (IF r.sentinel = Nil THEN When(r.host = "", "redis.host")
                           ELSE When(r.sentinel.name = "", "redis.sentinel_name")
                                \cup When(r.host = "" /\ r.sentinel.nodes = {}, "redis.nodes")
                                \cup When("" \in r.sentinel.nodes, "redis.nodes"))]

\* domain and c.redirectionURL are the legacy options; they become the only cookie.
ValidateSession(c) ==
    LET z == [c.session EXCEPT !.name = Text(@, "authelia_session")]
        q == IF z.redis = Nil THEN [session |-> z, errors |-> {}] ELSE validateRedis(z)
        s == [q.session EXCEPT !.expiration = Positive(@, 3600), !.inactivity = Positive(@, 300),
                               !.rememberMe = IF @ = RememberMeDisabled THEN @ ELSE Positive(@, 2592000),
                               !.disableRememberMe = @ \/ z.rememberMe = RememberMeDisabled,
                               !.sameSite = Text(@, "lax")]
        legacy == [name |-> s.name, sameSite |-> s.sameSite, expiration |-> s.expiration, inactivity |-> s.inactivity,
                   rememberMe |-> s.rememberMe, disableRememberMe |-> s.disableRememberMe, domain |-> s.domain,
                   autheliaURL |-> Nil, redirectionURL |-> c.redirectionURL, legacy |-> TRUE]
        d == validateSessionCookieDomains(IF s.cookies = <<>> /\ s.domain # <<>>
                                          THEN [s EXCEPT !.cookies = <<legacy>>] ELSE s)
    IN  Result([c EXCEPT !.session = d.session],
               q.errors \cup d.errors
               \cup When(s.sameSite \notin SameSites, "session.same_site")
               \cup When(s.cookies # <<>> /\ c.redirectionURL # Nil, "default_redirection_url")
               \cup When(s.cookies # <<>> /\ s.domain # <<>>, "session.domain"))

(***************************************************************************)
(* Regulation and the server section.                                      *)
(***************************************************************************)
\* Mutant: a find time that is longer than the ban is replaced by the default.
ValidateRegulation_Replaces(c) ==
    LET r == [c.regulation EXCEPT !.findTime = IF @ > c.regulation.banTime THEN 120 ELSE Positive(@, 120),
                                  !.banTime = Positive(@, 300)]
    IN  Result([c EXCEPT !.regulation = r], {})

ValidateRegulation(c) ==
    LET r == [c.regulation EXCEPT !.modes = IF @ = {} THEN {"user"} ELSE @,
                                  !.findTime = Positive(@, 120), !.banTime = Positive(@, 300)]
    IN  Result([c EXCEPT !.regulation = r],
               When(~(r.modes \subseteq {"ip", "user"}), "regulation.modes")
               \cup When(r.findTime > r.banTime, "regulation.find_time"))

\* A file option is "", "file", "directory" or "missing".
ValidateServerTLS(t) ==
    When((t.key = "") # (t.certificate = ""), "server.tls")
    \cup When(t.key = "" /\ t.certificate = "" /\ t.clients # {}, "server.tls.client_certificates")
    \cup When(~({t.key, t.certificate} \subseteq {"", "file"}) \/ ~(t.clients \subseteq {"file"}), "server.tls.file")

\* A socket has no health check.  The router path of a socket is that of its query parameter or "/".
ValidateServerAddress(s) ==
    LET a == IF s.address = Nil THEN [scheme |-> "tcp", host |-> "", port |-> 9091, path |-> "/"]
             ELSE [s.address EXCEPT !.path = Text(@, "/")]
    IN  [server |-> [s EXCEPT !.address = a, !.disableHealthcheck = @ \/ Socket(a)],
         errors |-> When(~ValidHTTP(a) \/ a.path = "bad", "server.address")]

Bucket(period, requests) == [period |-> period, requests |-> requests]

\* The default buckets; those of an elevation endpoint are multiples of a lifespan.
DefaultBuckets(name) ==
    CASE name = "health"                   -> <<Bucket(60, 60)>>
      [] name = "reset_password_start"     -> <<Bucket(600, 5), Bucket(900, 10), Bucket(1800, 15)>>
      [] name = "reset_password_finish"    -> <<Bucket(60, 10), Bucket(120, 15)>>
      [] name = "second_factor_totp"       -> <<Bucket(60, 30), Bucket(120, 40), Bucket(600, 50)>>
      [] name = "second_factor_password"   -> <<Bucket(300, 30), Bucket(3600, 40)>>
      [] name = "second_factor_duo"        -> <<Bucket(60, 10), Bucket(120, 15)>>
      [] name = "session_elevation_start"  -> <<Bucket(1, 3), Bucket(2, 5), Bucket(12, 15)>>
      [] name = "session_elevation_finish" -> <<Bucket(1, 3), Bucket(2, 5), Bucket(6, 15)>>
      [] OTHER -> <<Bucket(60, 30), Bucket(120, 40), Bucket(600, 50), Bucket(3600, 100)>>

\* The endpoints whose limits are defaulted and checked.  The limits of the userinfo, introspection and
\* revocation endpoints are neither.
LimitedEndpoints == {"openid_connect_pushed_authorization_request", "openid_connect_token", "health",
                     "reset_password_start", "reset_password_finish", "second_factor_totp", "second_factor_duo",
                     "second_factor_password", "session_elevation_start", "session_elevation_finish"}

rateLimitDefault(name) == DefaultBuckets(name)

rateLimitDefaultWeighted(name, weight) ==
    [i \in DOMAIN DefaultBuckets(name) |-> [DefaultBuckets(name)[i] EXCEPT !.period = weight * @]]

validateBuckets(buckets) == \A i \in DOMAIN buckets : buckets[i].period >= 10 /\ buckets[i].requests > 0

\* v is the identity validation section, which has been validated before the server section.
validateServerEndpointsRateLimits(limits, v) ==
    [limits |-> [n \in DOMAIN limits |->
                    IF n \notin LimitedEndpoints \/ limits[n].buckets # <<>> THEN limits[n] ELSE
                    [limits[n] EXCEPT !.buckets =
                        CASE n = "session_elevation_start"  -> rateLimitDefaultWeighted(n, v.codeLifespan)
                          [] n = "session_elevation_finish" -> rateLimitDefaultWeighted(n, v.elevationLifespan)
                          [] OTHER                          -> rateLimitDefault(n)]],
     errors |-> When(\E n \in DOMAIN limits \cap LimitedEndpoints : ~validateBuckets(limits[n].buckets), "rate_limits")]

validateServerEndpointsHealth(h) ==
    [health |-> [h EXCEPT !.providers = IF @ = <<>> THEN <<"storage", "session", "user">> ELSE @,
                          !.cache = IF @ = Nil THEN 10 ELSE @],
     errors |-> When(~(ToSet(h.providers) \subseteq {"storage", "session", "user", "notification", "ntp",
                                                     "expressions", "webauthn-metadata"}), "health.providers")
                \cup When(~IsInjective(h.providers), "health.providers")
                \cup (IF h.cache = Nil THEN {} ELSE When(h.cache < 0, "health.cache"))]

(***************************************************************************)
(* The authz endpoints: a function from the name of the endpoint, the      *)
(* sequence of its path segments, to its options.  A header is its         *)
(* lower-case name with a number that tells spellings of it apart.         *)
(***************************************************************************)
Legacy == <<"legacy">>

AuthzImplementations == {"AuthRequest", "ForwardAuth", "ExtAuthz", "Legacy"}

HeaderStrategies == {"HeaderAuthorization", "HeaderProxyAuthorization", "HeaderAuthRequestProxyAuthorization"}

ReservedHeaders == {"authorization", "set-cookie", "location", "x-forwarded-host"}

DefaultHeaders == (<<"remote-user", 1>> :> "username") @@ (<<"remote-groups", 1>> :> "groups")
                  @@ (<<"remote-name", 1>> :> "display_name") @@ (<<"remote-email", 1>> :> "email")

Strategy(name, schemes) == [name |-> name, schemes |-> schemes, cache |-> 0]

DefaultStrategies(implementation) ==
    CASE implementation = "Legacy" -> <<Strategy("HeaderLegacy", {}), Strategy("CookieSession", {})>>
      [] implementation \in AuthzImplementations \ {"Legacy"} ->
            <<Strategy("HeaderAuthorization", {"basic"}), Strategy("CookieSession", {})>>
      [] OTHER -> <<>>

DefaultEndpoints ==
    [n \in {Legacy, <<"auth-request">>, <<"ext-authz">>, <<"forward-auth">>} |->
        LET i == CASE n = Legacy -> "Legacy" [] n = <<"auth-request">> -> "AuthRequest"
                   [] n = <<"ext-authz">> -> "ExtAuthz" [] OTHER -> "ForwardAuth"
        IN  [implementation |-> i, headers |-> IF n = Legacy THEN Nil ELSE DefaultHeaders,
             strategies |-> DefaultStrategies(i)]]

\* Some attributes are derived from the ones of the backend.
isUserAttributeValidAuthz(name, c) ==
    \/ name \in c.definitions
    \/ name \in {"email_verified", "emails_extra", "updated_at"}
    \/ name \in {"phone_number_rfc3966", "phone_number_verified"} /\ isUserAttributeValid("phone_number", c)
    \/ name = "address" /\ isUserAttributeValid("locality", c)
    \/ /\ name \notin {"phone_number_rfc3966", "phone_number_verified", "address"}
       /\ isUserAttributeValid(name, c)

validateAuthzHeaders(headers, c) ==
    When(\E h \in DOMAIN headers : h[1] \in ReservedHeaders \cup {"invalid name"}, "authz.headers.name")
    \cup When(\E h, g \in DOMAIN headers : h # g /\ h[1] = g[1], "authz.headers.duplicate")
    \cup When(\E h \in DOMAIN headers : ~isUserAttributeValidAuthz(headers[h], c), "authz.headers.user_attribute")

\* The implementation and the headers of one endpoint.
validateAuthzEndpoint(name, e, c) ==
    LET i == IF name = Legacy THEN Text(e.implementation, "Legacy") ELSE e.implementation
    IN  [endpoint |-> [e EXCEPT !.implementation = i,
                                !.headers = IF @ = Nil /\ i \in AuthzImplementations \ {"Legacy"}
                                            THEN DefaultHeaders ELSE @],
         errors   |-> When(i \notin AuthzImplementations \/ (name = Legacy /\ i # "Legacy"), "authz.implementation")
                      \cup When(i = "Legacy" /\ e.headers # Nil, "authz.headers")
                      \cup (IF e.headers = Nil THEN {} ELSE validateAuthzHeaders(e.headers, c))]

\* The strategies of one endpoint: unset ones, and the schemes of a header strategy, are defaulted.
validateAuthzStrategies(e) ==
    LET defaults == DefaultStrategies(e.implementation)
        Checked(s) == IF s.name \in HeaderStrategies /\ s.schemes = {} /\ defaults # <<>>
                      THEN [s EXCEPT !.schemes = defaults[1].schemes] ELSE s
        names == [k \in DOMAIN e.strategies |-> e.strategies[k].name]
        valid == HeaderStrategies \cup {"CookieSession", "HeaderLegacy"}
    IN  IF e.strategies = <<>> THEN [endpoint |-> [e EXCEPT !.strategies = defaults], errors |-> {}] ELSE
        [endpoint |-> [e EXCEPT !.strategies = [k \in DOMAIN @ |-> Checked(@[k])]],
         errors   |-> When(~IsInjective(names) \/ ~(ToSet(names) \subseteq valid), "authz.strategies")
                      \cup When(\E s \in ToSet(e.strategies) :
                                   \/ s.cache > 0 /\ "basic" \notin s.schemes
                                   \/ s.name \notin HeaderStrategies /\ s.schemes # {}
                                   \/ ~(s.schemes \subseteq {"basic", "bearer"}), "authz.schemes")]

\* Endpoints of the legacy and ext-authz implementations are registered with every path below them.
CatchAll(implementation) == implementation \in {"Legacy", "ExtAuthz"}

ValidateServerEndpoints(authz, c) ==
    IF authz = <<>> THEN [authz |-> DefaultEndpoints, errors |-> {}] ELSE
    LET v == [n \in DOMAIN authz |-> validateAuthzEndpoint(n, authz[n], c)]
        w == [n \in DOMAIN authz |-> validateAuthzStrategies(v[n].endpoint)]
    IN  [authz  |-> [n \in DOMAIN authz |-> w[n].endpoint],
         errors |-> UNION {v[n].errors \cup w[n].errors : n \in DOMAIN authz}
                    \cup When(\E n, o \in DOMAIN authz \ {Legacy} : 
                                  CatchAll(authz[o].implementation) /\ n # o /\ IsStrictPrefix(o, n), "authz.prefix")]

Timeouts(t) == [read |-> Positive(t.read, 6), write |-> Positive(t.write, 6), idle |-> Positive(t.idle, 30)]

Buffers(b) == [read |-> Positive(b.read, 4096), write |-> Positive(b.write, 4096)]

\* The asset path is "" or the state of the directory: "ok", or "bad" when it can't be read or a
\* translation lacks a placeholder.
ValidateServer(c) ==
    LET a == ValidateServerAddress(c.server)
        l == validateServerEndpointsRateLimits(c.server.limits, c.identity)
        h == validateServerEndpointsHealth(c.server.health)
        z == ValidateServerEndpoints(c.server.authz, c)
    IN  Result([c EXCEPT !.server = [a.server EXCEPT !.buffers = Buffers(@), !.timeouts = Timeouts(@),
                                                     !.limits = l.limits, !.health = h.health, !.authz = z.authz]],
               a.errors \cup ValidateServerTLS(c.server.tls) \cup When(c.server.assets = "bad", "server.asset_path")
               \cup l.errors \cup h.errors \cup z.errors)

(***************************************************************************)
(* The remaining sections.                                                 *)
(***************************************************************************)
\* A socket's router path is never empty, so only the path of a TCP address is defaulted.
ValidateTelemetry(c) ==
    LET t == c.telemetry
        a == IF t.address = Nil THEN [scheme |-> "tcp", host |-> "", port |-> 9959, path |-> "/metrics"] ELSE t.address
        n == [t EXCEPT !.buffers = Buffers(@), !.timeouts = Timeouts(@),
                       !.address = [a EXCEPT !.port = NonZero(@, 9959),
                                             !.path = IF Socket(a) THEN @ ELSE Text(@, "/metrics")]]
    IN  Result([c EXCEPT !.telemetry = n], When(~ValidHTTP(a), "telemetry.metrics.address"))

\* sql is [address, username, database, timeout, tls]; the default port is that of the engine.
validateSQLConfiguration(q, port) ==
    LET t == ValidateTLSConfig(q.tls, IF q.address = Nil THEN "" ELSE q.address.host, 12)
    IN  [sql    |-> [q EXCEPT !.tls = t.tls, !.timeout = NonZero(@, 5),
                              !.address = IF @ # Nil /\ @.scheme \in TCP THEN [@ EXCEPT !.port = NonZero(@, port)] ELSE @],
         errors |-> (IF q.address = Nil THEN {"storage.address"} ELSE When(~ValidSQL(q.address), "storage.address"))
                    \cup When(q.username = "", "storage.username") \cup When(q.database = "", "storage.database")
                    \cup When(~t.ok, "storage.tls")]

\* ssl is the deprecated form of the TLS options of PostgreSQL, "unset" for its empty mode.
validatePostgreSQLConfiguration(q) ==
    LET r == validateSQLConfiguration(IF q.ssl # Nil THEN [q EXCEPT !.tls = Nil] ELSE q, 5432)
        n == [r.sql EXCEPT !.schema = Text(@, "public"), !.tls = IF q.ssl # Nil THEN q.tls ELSE @,
                           !.ssl = IF @ = "unset" /\ q.tls = Nil THEN "disable" ELSE @]
    IN  [sql |-> n, errors |-> r.errors \cup When(q.ssl # Nil /\ q.tls # Nil, "storage.tls")
                               \cup (IF n.ssl = Nil THEN {} ELSE
                                     When(n.tls = Nil /\ n.ssl \notin {"disable", "require", "verify-full"}, "storage.ssl"))]

\* The engines are checked only when exactly one of them is configured.
ValidateStorage(c) ==
    LET s == c.storage
        key == When(Len(s.encryptionKey) < 20, "storage.encryption_key")
        m == validateSQLConfiguration(s.mysql, 3306)
        p == validatePostgreSQLConfiguration(s.postgres)
        engines == {e \in {"local", "mysql", "postgres"} : s[e] # Nil}
    IN  CASE Cardinality(engines) # 1 -> Result(c, key \cup {"storage"})
          [] engines = {"local"}      -> Result(c, key \cup When(s.local = "", "storage.local.path"))
          [] engines = {"mysql"}      -> Result([c EXCEPT !.storage.mysql = m.sql], key \cup m.errors)
          [] engines = {"postgres"}   -> Result([c EXCEPT !.storage.postgres = p.sql], key \cup p.errors)

\* host and port are the legacy form of the address; templates is the state of the template path.
validateSMTPNotifier(m) ==
    LET legacy == m.host # "" \/ m.port # 0
        inRange == m.port \in 0..65535
        a == IF m.address = Nil /\ legacy /\ inRange THEN NewSMTPAddress(m.host, m.port) ELSE m.address
        t == ValidateTLSConfig(IF m.tls = Nil THEN [server |-> "", min |-> 0, max |-> 0, matches |-> TRUE] ELSE m.tls,
                               IF a = Nil THEN "" ELSE a.host, 12)
    IN  [smtp   |-> [m EXCEPT !.address = a, !.tls = t.tls, !.timeout = NonZero(@, 5)],
         errors |-> When(m.address = Nil /\ ~legacy, "smtp.address")
                    \cup When(m.address = Nil /\ ~inRange, "smtp.port")
                    \cup (IF m.address = Nil THEN {} ELSE When(legacy \/ ~ValidSMTP(m.address), "smtp.address"))
                    \cup When(m.sender = "", "smtp.sender") \cup When(~t.ok, "smtp.tls")]

ValidateNotifier(c) ==
    LET n == [c.notifier EXCEPT !.language = Text(@, "en")]
        lang == When(n.language \notin {"en", "zh-CN"}, "notifier.default_language")
        m == validateSMTPNotifier(n.smtp)
    IN  CASE (n.smtp = Nil) = (n.filesystem = Nil) -> Result([c EXCEPT !.notifier = n], lang \cup {"notifier"})
          [] n.filesystem # Nil -> Result([c EXCEPT !.notifier = n],
                                          lang \cup When(n.filesystem = "", "notifier.filesystem.filename"))
          [] OTHER -> Result([c EXCEPT !.notifier = [n EXCEPT !.smtp = m.smtp]],
                             lang \cup m.errors \cup When(n.templates = "missing", "notifier.template_path"))

ValidateNTP(c) ==
    LET n == [c.ntp EXCEPT !.address = IF @ = Nil THEN [scheme |-> "udp", host |-> "time", port |-> 123, path |-> ""]
                                       ELSE @,
                           !.version = NonZero(@, 4), !.desync = Positive(@, 3)]
    IN  Result([c EXCEPT !.ntp = n],
               When(~IsUDP(n.address), "ntp.address") \cup When(n.version \notin {3, 4}, "ntp.version"))

ValidatePasswordPolicy(c) ==
    LET p == c.passwordPolicy
        n == [p EXCEPT !.minLength = IF p.standard THEN NonZero(@, 8) ELSE @,
                       !.minScore  = IF p.zxcvbn THEN NonZero(@, 3) ELSE @]
    IN  Result([c EXCEPT !.passwordPolicy = n],
               When(p.standard /\ p.zxcvbn, "password_policy")
               \cup When(p.standard /\ n.minLength < 0, "password_policy.min_length")
               \cup When(p.zxcvbn /\ n.minScore \notin 0..4, "password_policy.min_score"))

\* The scheme of the policy URL is Nil when it is not configured.
ValidatePrivacyPolicy(c) == Result(c, When(c.privacy.enabled /\ c.privacy.scheme # "https", "privacy_policy"))

(***************************************************************************)
(* The specification.                                                      *)
(***************************************************************************)
Init == (\E theme \in DOMAIN Inputs : conf \in Inputs[theme]) /\ errors = {} /\ step = 1

Call(n, result) ==
    /\ step = n
    /\ step' = n + 1
    /\ conf' = result.config
    /\ errors' = errors \cup result.errors

\* ValidateConfiguration: the order of its calls.
Next ==
    \/ Call(1, validateCertificates(conf))
    \/ Call(2, validateDefault2FAMethod(conf))
    \/ Call(3, ValidateTheme(conf))
    \/ Call(4, ValidateLog(conf))
    \/ Call(5, ValidateDuo(conf))
    \/ Call(6, ValidateTOTP(conf))
    \/ Call(7, ValidateWebAuthn(conf))
    \/ Call(8, ValidateIdentityValidation(conf))
    \/ Call(9, ValidateBackend(conf))
    \/ Call(10, ValidateDefinitions(conf))
    \/ Call(11, ValidateSession(conf))
    \/ Call(12, ValidateRegulation(conf))
    \/ Call(13, ValidateServer(conf))
    \/ Call(14, ValidateTelemetry(conf))
    \/ Call(15, ValidateStorage(conf))
    \/ Call(16, ValidateNotifier(conf))
    \/ Call(17, ValidateIdentityProviders(conf))
    \/ Call(18, ValidateNTP(conf))
    \/ Call(19, ValidatePasswordPolicy(conf))
    \/ Call(20, ValidatePrivacyPolicy(conf))

Spec == Init /\ [][Next]_vars

Accepted == step > 20 /\ errors = {}

(***************************************************************************)
(* Properties.                                                             *)
(***************************************************************************)
\* The portal serves its own reset pages only with a key to sign the links of reset mails, although
\* the key is checked before a custom URL can switch resets on again
\* (ValidateIdentityValidation runs before ValidateAuthenticationBackend).
ResetHasSecret ==
    Accepted /\ ~conf.backend.reset.disable /\ conf.backend.reset.customURL = "" => conf.identity.jwtSecret # ""

\* Every limited endpoint has buckets, and no bucket has an empty period or allows no request: the weights
\* of the elevation limits are lifespans that have been defaulted before (validateServerEndpointsRateLimits).
LimitsUsable ==
    Accepted => \A n \in LimitedEndpoints :
        /\ conf.server.limits[n].buckets # <<>>
        /\ \A b \in ToSet(conf.server.limits[n].buckets) : b.period > 0 /\ b.requests > 0

\* A factor that is not disabled can be used: Duo has its keys, and what a one-time password is registered
\* with by default is among what a user may choose (ValidateDuo, ValidateTOTP).
FactorsUsable ==
    Accepted => /\ conf.duo.disable \/ "" \notin {conf.duo.hostname, conf.duo.integration_key, conf.duo.secret_key}
                /\ \/ conf.totp.disable
                   \/ /\ conf.totp.algorithm \in conf.totp.allowedAlgorithms
                      /\ conf.totp.period \in conf.totp.allowedPeriods
                      /\ conf.totp.digits \in conf.totp.allowedDigits

\* Every cookie lives for a positive time; it can't be remembered exactly when remembering is disabled, in
\* its own options or in those of the section it takes over (validateSessionRememberMe).
CookiesTimed ==
    Accepted => \A k \in ToSet(conf.session.cookies) :
        /\ k.expiration > 0 /\ k.inactivity > 0
        /\ k.rememberMe > 0 \/ k.disableRememberMe
        /\ k.rememberMe = RememberMeDisabled => k.disableRememberMe

\* The directory and the database can be dialled: a pool has connections, and an address of a protocol
\* with ports has one (validateLDAPAuthenticationBackend, validateSQLConfiguration).
BackendsReachable ==
    Accepted => 
        /\ conf.backend.ldap # Nil =>
               /\ conf.backend.ldap.pooling.enable =>
                      conf.backend.ldap.pooling.count > 0 /\ conf.backend.ldap.pooling.timeout > 0
               /\ conf.backend.ldap.unauthenticated => conf.backend.reset.disable
        /\ \A e \in {"mysql", "postgres"} : conf.storage[e] # Nil =>
               (conf.storage[e].address.scheme \in TCP => conf.storage[e].address.port # 0)

\* Every header an authz endpoint sends is filled from an attribute the configured backend has, also the
\* ones of the default endpoints, which are not checked (validateServerEndpointsAuthzEndpointHeaders).
HeadersFilled ==
    Accepted => \A n \in DOMAIN conf.server.authz :
        LET e == conf.server.authz[n]
        IN  /\ e.implementation # "Legacy" => e.headers # Nil
            /\ e.headers # Nil => \A h \in DOMAIN e.headers : isUserAttributeValidAuthz(e.headers[h], conf)
            /\ e.strategies # <<>>

\* Every client can be served: its policy, its lifespan and the duration of its consents are found, a public
\* client has no secret to present, and the issuer has a key for every response it signs (validateOIDCClient),
\* provided it has an RS256 key and no key for encryption shares the identifier of one for signatures.
ClientsServed ==
    Accepted /\ conf.oidc # Nil =>
        LET o == conf.oidc
            sigs == {k \in ToSet(o.keys) : k.use = "sig"}
            distinct == {k.kid : k \in sigs} \cap {k.kid : k \in ToSet(o.keys) \ sigs} = {}
        IN  \A k \in ToSet(o.clients) :
               /\ k.policy \in {"one_factor", "two_factor"} \cup DOMAIN o.policies
               /\ k.lifespan \in {""} \cup o.lifespans.custom
               /\ k.consentMode = "pre-configured" => k.consentDuration # Nil
               /\ k.public => \A e \in DOMAIN k.auth : k.auth[e].method = "none"
               /\ distinct /\ (\E g \in sigs : g.alg = "RS256") =>
                      \A r \in Responses : k.signed[r].alg \in JWKSigningAlgs => searchJWKS(o, k.signed[r]) # {}
               /\ GetEnableJWTProfileOAuthAccessTokens(k) => o.discovery.jwtAccess


\* Options with a value of their own, and an option of a part that is switched off.
Numbers(c) ==
    [session |-> c.session.expiration, inactivity |-> c.session.inactivity, code |-> c.identity.codeLifespan,
     elevation |-> c.identity.elevationLifespan, jwt |-> c.identity.jwtExpiration, find |-> c.regulation.findTime,
     ban |-> c.regulation.banTime, period |-> c.totp.period, digits |-> c.totp.digits, secret |-> c.totp.secretSize,
     webauthn |-> c.webauthn.timeout, read |-> c.server.timeouts.read, ntp |-> c.ntp.version,
     score |-> c.passwordPolicy.minScore, pool |-> IF c.backend.ldap = Nil THEN 0 ELSE c.backend.ldap.pooling.count]

\* What is configured is kept: a validator only changes a positive number by filling in an unset one, a
\* part that is disabled is only enabled by a custom URL for password resets, and errors are never dropped.
Kept ==
    /\ \A o \in DOMAIN Numbers(conf) : Numbers(conf)[o] > 0 => Numbers(conf')[o] = Numbers(conf)[o]
    /\ conf.totp.disable => conf'.totp.disable
    /\ conf.duo.disable => conf'.duo.disable
    /\ conf.backend.reset.disable /\ conf.backend.reset.customURL = "" => conf'.backend.reset.disable
    /\ conf.session.disableRememberMe => conf'.session.disableRememberMe
    /\ errors \subseteq errors'

OptionsKept == [][Kept]_vars

\* "These are enabled by default": every endpoint with a rate limit that is enabled has buckets to limit it
\* with, also the userinfo, introspection and revocation endpoints.
LimitsDefaulted ==
    Accepted => \A n \in DOMAIN conf.server.limits : conf.server.limits[n].enable => conf.server.limits[n].buckets # <<>>
=============================================================================
