----------------------------- MODULE ConfigOIDC -----------------------------
(***************************************************************************)
(* The validation of the OpenID Connect 1.0 section of the configuration   *)
(* (validator/identity_providers.go), as operators from the configuration  *)
(* to the adapted configuration and the errors: the issuer's keys first,   *)
(* then the policies, claims and scopes, then CORS, then the clients,      *)
(* each reading what the parts before it discovered.                       *)
(*                                                                         *)
(* The section is Nil or a record; `discovery' holds what later validators *)
(* and the service read.  A list of options whose order and duplicates     *)
(* only matter for warnings is a set, keys and clients are sequences.  A   *)
(* key is [key, kid, use, alg, chain]: key is the type of the key,         *)
(* "rsa", "rsa-small", "rsa-empty", "p256", "p384", "p521", "curve" (any   *)
(* other), "ed25519", "mldsa", "bytes", "unknown" or "none"; chain is Nil  *)
(* or [matches, valid].  The form of a name is "ok", "blank", "long" or    *)
(* "characters".                                                           *)
(***************************************************************************)
EXTENDS Integers, Sequences, FiniteSets, SequencesExt, TLC

CONSTANT Nil    \* the nil pointer

When(cond, name) == IF cond THEN {name} ELSE {}

Positive(v, default) == IF v <= 0 THEN default ELSE v

NonZero(v, default) == IF v = 0 THEN default ELSE v

Text(v, default) == IF v = "" THEN default ELSE v

Result(c, e) == [config |-> c, errors |-> e]

Also(r, e) == Result(r.config, r.errors \cup e)

\* The next validator adapts what those before it left.
Then(r, Validate(_)) == Also(Validate(r.config), r.errors)

(***************************************************************************)
(* User attributes.  An extra attribute is [type, name], name being the    *)
(* name it is renamed to or "".                                            *)
(***************************************************************************)
UserAttributes == {"username", "groups", "display_name", "email", "emails", "given_name", "family_name",
                   "phone_number", "locality"}

AttributeName(extra, key) == IF extra[key].name # "" THEN extra[key].name ELSE key

\* The names of the extra attributes of the configured backends.
ExtraNames(c) ==
    (IF c.backend.ldap # Nil THEN {AttributeName(c.backend.ldap.extra, k) : k \in DOMAIN c.backend.ldap.extra} ELSE {})
    \cup (IF c.backend.file # Nil THEN DOMAIN c.backend.file.extra ELSE {})

\* A user attribute the configured backend can provide.
isUserAttributeValid(name, c) ==
    \/ name \in c.definitions
    \/ IF c.backend.ldap # Nil
       THEN \/ name \in {"username", "groups", "display_name", "email", "emails"}
            \/ name \in UserAttributes /\ name \in c.backend.ldap.attributes
            \/ name \notin UserAttributes /\ name \in ExtraNames([c EXCEPT !.backend.file = Nil])
       ELSE name \in UserAttributes \/ name \in ExtraNames(c)

(***************************************************************************)
(* The issuer's keys.                                                      *)
(***************************************************************************)
SymmetricAlgs == {"HS256", "HS384", "HS512"}

JWKSigningAlgs == {"RS256", "RS384", "PS256", "ES256", "ES384", "ES512", "Ed25519", "EdDSA", "ML-DSA-44"}

JWKEncryptionAlgs == {"RSA-OAEP", "RSA-OAEP-256", "ECDH-ES+A256KW", "A256GCMKW", "dir"}

\* The algorithm that names the same key type in the other of the two registrations.
SigningAlgEdwardsPair(alg) == CASE alg = "Ed25519" -> {"EdDSA"} [] alg = "EdDSA" -> {"Ed25519"} [] OTHER -> {}

appendOIDCSigningAlg(algs) == algs \cup UNION {SigningAlgEdwardsPair(a) : a \in algs}

\* The use and the algorithm a key gets when they are not configured, {} when the type is refused.
schemaJWKGetProperties(k) ==
    LET Props(use, alg) == {[use |-> use, alg |-> alg]}
    IN  IF k.use = "enc"
        THEN CASE k.key \in {"rsa", "rsa-small", "rsa-empty"} -> Props("enc", "RSA-OAEP-256")
               [] k.key \in {"p256", "p384", "p521", "curve"} -> Props("enc", "ECDH-ES+A256KW")
               [] k.key = "bytes" -> Props("enc", "A256GCMKW")
               [] k.key = "ed25519" -> Props("", "")
               [] OTHER -> {}
        ELSE CASE k.key \in {"rsa", "rsa-small", "rsa-empty"} -> Props("sig", "RS256")
               [] k.key = "p256" -> Props("sig", "ES256")
               [] k.key = "p384" -> Props("sig", "ES384")
               [] k.key = "p521" -> Props("sig", "ES512")
               [] k.key = "curve" -> Props("sig", "")
               [] k.key = "ed25519" -> Props("sig", "Ed25519")
               [] k.key = "mldsa" -> Props("sig", "ML-DSA-44")
               [] OTHER -> {}

\* The identifier computed for a key: a thumbprint of the key with the algorithm, none for a symmetric key.
jwkCalculateKID(k, props) == IF k.key = "bytes" THEN "" ELSE k.key \o "-" \o Text(k.alg, props.alg)

\* The pair of a key and its certificate chain.
validateOIDCIssuerPrivateKeyPair(k) ==
    When(k.key = "rsa-small", "jwks.key_size")
    \cup When(k.key \notin {"rsa", "rsa-small", "p256", "p384", "p521", "curve", "ed25519", "mldsa"}, "jwks.key_type")
    \cup (IF k.chain = Nil THEN {} ELSE
          When(k.key # "rsa-small" /\ k.key # "bytes" /\ ~k.chain.matches, "jwks.certificate_chain")
          \cup When(~k.chain.valid, "jwks.certificate_chain"))

Usable(k) == k.key \notin {"none", "rsa-empty"} /\ schemaJWKGetProperties(k) # {}

\* One key: the identifier, then the use, then the algorithm are filled in.
adaptJWK(k) ==
    IF ~Usable(k) THEN k ELSE
    LET p == CHOOSE q \in schemaJWKGetProperties(k) : TRUE
        u == Text(k.use, p.use)
    IN  [k EXCEPT !.kid = Text(@, jwkCalculateKID(k, p)), !.use = u,
                  !.alg = IF u \in {"sig", "enc"} THEN Text(@, p.alg) ELSE @]

\* The identifiers must be unique among the keys for signing and among those for encryption, not between.
validateOIDCIssuerJSONWebKeys(o) ==
    LET ks  == [i \in DOMAIN o.keys |-> adaptJWK(o.keys[i])]
        ok  == {i \in DOMAIN ks : Usable(o.keys[i])}
        sig == {i \in ok : o.keys[i].use # "enc"}
        enc == ok \ sig
        algs == {ks[i].alg : i \in {j \in ok : ks[j].use = "sig" /\ ks[j].alg # ""}}
        Twice(s) == \E i, j \in s : i # j /\ ks[i].kid # "" /\ ks[i].kid = ks[j].kid
        d == [o.discovery EXCEPT !.sigKIDs = {ks[i].kid : i \in sig}, !.encKIDs = {ks[i].kid : i \in enc},
                                 !.sigAlgs = appendOIDCSigningAlg(@ \cup algs)]
    IN  Result([o EXCEPT !.keys = ks, !.discovery = d],
               When(ok # DOMAIN ks, "jwks.key")
               \cup When(Twice(sig) \/ Twice(enc), "jwks.key_id")
               \cup When(\E i \in ok : ks[i].use \notin {"sig", "enc"}, "jwks.use")
               \cup When(\E i \in ok : ks[i].use = "sig" /\ o.keys[i].alg \notin JWKSigningAlgs \cup {""}, "jwks.algorithm")
               \cup When(\E i \in ok : ks[i].use = "enc" /\ o.keys[i].alg \notin JWKEncryptionAlgs \cup {""}, "jwks.algorithm")
               \cup UNION {validateOIDCIssuerPrivateKeyPair(ks[i]) : i \in ok}
               \cup When(d.sigAlgs # {} /\ "RS256" \notin d.sigAlgs, "jwks.rs256"))

\* The first key with an algorithm names the identifier, the first with an identifier the algorithm.
validateOIDCAlgKIDDefault(o, s, default) ==
    LET alg == IF s.alg = "" /\ s.kid = "" THEN default ELSE s.alg
        byAlg == {i \in DOMAIN o.keys : o.keys[i].alg = alg}
        byKID == {i \in DOMAIN o.keys : o.keys[i].kid = s.kid}
        First(S) == CHOOSE i \in S : \A j \in S : i <= j
    IN  CASE alg # "" /\ s.kid = "" /\ byAlg # {} -> [alg |-> alg, kid |-> o.keys[First(byAlg)].kid]
          [] alg = "" /\ s.kid # "" /\ byKID # {} -> [alg |-> o.keys[First(byKID)].alg, kid |-> s.kid]
          [] OTHER -> [alg |-> alg, kid |-> s.kid]

getResponseObjectAlgFromKID(o, s) ==
    LET named == {i \in DOMAIN o.keys : o.keys[i].kid = s.kid}
        alg == o.keys[CHOOSE i \in named : \A j \in named : i <= j].alg
    IN  IF named = {} \/ alg \in SigningAlgEdwardsPair(s.alg) THEN s.alg ELSE alg

\* A signed response: its algorithm must be one of the keys', unless the identifier of a key decides.
SignedResponse(o, s, default, free) ==
    LET n == validateOIDCAlgKIDDefault(o, s, default)
    IN  IF n.kid = ""
        THEN [signed |-> n, ok |-> n.alg \in free \cup {"", "RS256"} \cup o.discovery.sigAlgs]
        ELSE [signed |-> IF n.kid \in o.discovery.sigKIDs THEN [n EXCEPT !.alg = getResponseObjectAlgFromKID(o, n)] ELSE n,
              ok |-> n.kid \in o.discovery.sigKIDs]

validateOIDDIssuerSigningAlgsDiscovery(o) ==
    LET s == SignedResponse(o, o.discoverySigned, "", {"none"})
    IN  Result([o EXCEPT !.discoverySigned = s.signed], When(~s.ok, "discovery_signed_response"))

\* The legacy private key becomes the first key.
validateOIDCIssuerPrivateKey(o) ==
    [o EXCEPT !.keys = <<[key |-> o.issuerKey, kid |-> "", use |-> "sig", alg |-> "RS256", chain |-> o.issuerChain]>> \o @]

validateOIDCIssuer(o) ==
    LET keyed == IF o.issuerKey # Nil THEN validateOIDCIssuerPrivateKey(o) ELSE o
        both == o.keys # <<>> /\ (o.issuerKey # Nil \/ o.issuerChain # Nil)
    IN  CASE both -> Result(o, {"issuer_private_key"})
          [] ~both /\ o.keys = <<>> /\ o.issuerKey = Nil -> Result(o, {"jwks.missing"})
          [] OTHER -> Then(validateOIDCIssuerJSONWebKeys(keyed), validateOIDDIssuerSigningAlgsDiscovery)

(***************************************************************************)
(* Policies, claims and scopes.                                            *)
(***************************************************************************)
Policies == {"one_factor", "two_factor", "deny"}

ReservedClaims == {"sub", "iss", "client_id", "updated_at"}

ReservedIDTokenClaims == {"sub", "iss"}

ClientClaims == {"name", "email", "groups", "updated_at"}

ClientScopes == {"openid", "groups", "profile", "email", "offline_access", "authelia.bearer.authz"}

AutheliaScopes == {"authelia.pam", "authelia.bearer.authz", "authelia.other"}

setOIDCDefaults(o) ==
    [o EXCEPT !.lifespans = [access |-> NonZero(@.access, 3600), refresh |-> NonZero(@.refresh, 5400),
                             id |-> NonZero(@.id, 3600), code |-> NonZero(@.code, 60),
                             device |-> NonZero(@.device, 600), custom |-> @.custom],
              !.pkce = Text(@, "public_clients_only")]

\* A rule is [policy, subjects, networks], the subjects being the kinds "user", "group" or any other.
validateOIDCAuthorizationPoliciesRule(r) ==
    When(Text(r.policy, "two_factor") \notin Policies, "authorization_policies.rules.policy")
    \cup When(r.subjects = {} /\ ~r.networks, "authorization_policies.rules.subject")
    \cup When(~(r.subjects \subseteq {"user", "group"}), "authorization_policies.rules.subject")

validateOIDCAuthorizationPolicies(o) ==
    LET Adapt(p) == [p EXCEPT !.default = Text(@, "two_factor"),
                              !.rules = [i \in DOMAIN @ |-> [@[i] EXCEPT !.policy = Text(@, "two_factor")]]]
        names == DOMAIN o.policies \ (Policies \cup {""})
    IN  Result([o EXCEPT !.policies = [n \in DOMAIN o.policies |-> Adapt(o.policies[n])],
                         !.discovery.policies = {"one_factor", "two_factor"} \cup names],
               When(names # DOMAIN o.policies, "authorization_policies.name")
               \cup UNION {When(Text(o.policies[n].default, "two_factor") \notin Policies, "authorization_policies.default_policy")
                           \cup When(o.policies[n].rules = <<>>, "authorization_policies.rules")
                           \cup UNION {validateOIDCAuthorizationPoliciesRule(r) : r \in ToSet(o.policies[n].rules)}
                           : n \in DOMAIN o.policies})

validateOIDCLifespans(o) == [o EXCEPT !.discovery.lifespans = @ \cup o.lifespans.custom]

\* A custom claim is [name, attribute], both the key it is configured under when unset.
validateOIDCClaims(o, c) ==
    LET Custom(p) == [k \in DOMAIN p.custom |-> [name |-> Text(p.custom[k].name, k), attribute |-> Text(p.custom[k].attribute, k)]]
        Names(p) == {Custom(p)[k].name : k \in DOMAIN p.custom}
        Errors(p) ==
            When(Names(p) \cap ReservedClaims # {}, "claims_policies.custom_claims.reserved")
            \cup When(Cardinality(Names(p)) < Cardinality(DOMAIN p.custom), "claims_policies.custom_claims.twice")
            \cup When(\E k \in DOMAIN p.custom : ~isUserAttributeValid(Custom(p)[k].attribute, c), "claims_policies.attribute")
            \cup When(~(p.idToken \subseteq (Names(p) \cup ClientClaims) \ ReservedIDTokenClaims), "claims_policies.id_token")
            \cup When(~(p.accessToken \subseteq (Names(p) \cup ClientClaims) \ ReservedClaims), "claims_policies.access_token")
            \cup When(p.audienceMode \notin {"", "specification", "experimental-merged"}, "claims_policies.id_token_audience_mode")
    IN  Result([o EXCEPT !.claims = [n \in DOMAIN o.claims |->
                                        [o.claims[n] EXCEPT !.custom = Custom(o.claims[n]),
                                                            !.audienceMode = Text(@, "specification")]],
                         !.discovery.claims = @ \cup UNION {Names(o.claims[n]) : n \in DOMAIN o.claims}],
               UNION {Errors(o.claims[n]) : n \in DOMAIN o.claims})

validateOIDCScopes(o) ==
    Result([o EXCEPT !.discovery.scopes = @ \cup DOMAIN o.scopes],
           When(\E s \in DOMAIN o.scopes : s # "authelia.pam" /\ s \in ClientScopes \cup AutheliaScopes, "scopes.name")
           \cup When(\E s \in DOMAIN o.scopes :
                         ~(o.scopes[s] \subseteq (o.discovery.claims \cup ClientClaims) \ ReservedClaims), "scopes.claims"))

(***************************************************************************)
(* Cross-origin requests.  An origin is [scheme, host, extra], extra being *)
(* "path" or "query" when it has one; a redirect URI [form, scheme, host], *)
(* the form being "oob", "unparsable", "relative" or "absolute".           *)
(***************************************************************************)
Wildcard == [scheme |-> "", host |-> "*", extra |-> ""]

CORSEndpoints == {"authorization", "device-authorization", "pushed-authorization-request", "token",
                  "introspection", "revocation", "userinfo"}

validateOIDCOptionsCORSAllowedOrigins(r) ==
    When(Wildcard \in ToSet(r.origins) /\ Len(r.origins) # 1, "cors.allowed_origins")
    \cup When(Wildcard \in ToSet(r.origins) /\ r.fromClients, "cors.allowed_origins_from_client_redirect_uris")
    \cup When(\E g \in ToSet(r.origins) : g.extra # "", "cors.allowed_origins")

validateOIDCOptionsCORSAllowedOriginsFromClientRedirectURIs(o) ==
    LET uris == {u \in UNION {k.redirectURIs : k \in ToSet(o.clients)} :
                    u.form = "absolute" /\ u.scheme \in {"http", "https"} /\ u.host # "localhost"}
        new == {[scheme |-> u.scheme, host |-> u.host, extra |-> ""] : u \in uris} \ ToSet(o.cors.origins)
    IN  [o EXCEPT !.cors.origins = @ \o SetToSeq(new)]

validateOIDCOptionsCORS(o) ==
    Result(IF o.cors.fromClients THEN validateOIDCOptionsCORSAllowedOriginsFromClientRedirectURIs(o) ELSE o,
           validateOIDCOptionsCORSAllowedOrigins(o.cors)
           \cup When(~(o.cors.endpoints \subseteq CORSEndpoints), "cors.endpoints"))

(***************************************************************************)
(* Clients.  `signed' and `encrypted' map the kind of a response to its    *)
(* [alg, kid] and [alg, enc, kid], `auth' an endpoint to its [method, alg]. *)
(* A secret is "none", "empty" (no digest), "plain" or "hashed".           *)
(***************************************************************************)
Responses == {"authorization", "id_token", "access_token", "userinfo", "introspection"}

DefaultSignedAlg(r) == IF r \in {"authorization", "id_token"} THEN "RS256" ELSE "none"

Implicit == {"id_token", "token", "id_token token"}

Hybrid == {"code id_token", "code token", "code id_token token"}

ResponseModes == {"form_post", "query", "fragment", "jwt", "form_post.jwt"}

GrantTypes == {"authorization_code", "implicit", "client_credentials", "refresh_token", "device_code"}

AuthMethods == {"none", "client_secret_post", "client_secret_basic", "private_key_jwt", "client_secret_jwt"}

SecretEncryptionAlgs == {"A256KW", "A256GCMKW"}

KeyEncryptionAlgs == SecretEncryptionAlgs \cup {"none", "RSA-OAEP", "RSA-OAEP-256", "ECDH-ES+A256KW"}

ContentEncryptionAlgs == {"A128GCM", "A128CBC-HS256"}

ClientCredentials(k) == "client_credentials" \in k.grantTypes

Bearer(k) == "authelia.bearer.authz" \in k.scopes

\* The options without a default for clients whose tokens authorize requests: all must be explicit.
validateOIDCClientScopesSpecialBearerAuthz(k) ==
    IF ~Bearer(k) THEN {} ELSE
    When(~(k.scopes \subseteq {"offline_access", "offline", "authelia.bearer.authz"}), "clients.scopes")
    \cup When(k.grantTypes = {} \/ ~(k.grantTypes \subseteq {"authorization_code", "refresh_token", "client_credentials"}),
              "clients.grant_types")
    \cup When(k.audience = {}, "clients.audience")
    \cup (IF ClientCredentials(k) THEN {} ELSE
          When(~k.requirePAR, "clients.require_pushed_authorization_requests")
          \cup When(~k.requirePKCE \/ k.pkceMethod # "S256", "clients.require_pkce")
          \cup When(k.consentMode # "explicit", "clients.consent_mode")
          \cup When(k.responseTypes # {"code"}, "clients.response_types")
          \cup When(k.responseModes = {} \/ ~(k.responseModes \subseteq {"form_post", "form_post.jwt"}), "clients.response_modes"))
    \cup When(IF k.public THEN k.auth["token"].method # "none"
              ELSE k.auth["token"].method \notin {"client_secret_basic", "client_secret_jwt", "private_key_jwt"},
              "clients.token_endpoint_auth_method")

validateOIDCClientConsentMode(k) ==
    LET m == IF k.consentMode \in {"", "auto"} /\ ~Bearer(k)
             THEN IF k.consentDuration # Nil THEN "pre-configured" ELSE "explicit"
             ELSE k.consentMode
    IN  Result([k EXCEPT !.consentMode = m,
                         !.consentDuration = IF m = "pre-configured" /\ @ = Nil THEN 604800 ELSE @],
               When(k.consentMode \notin {"", "auto", "implicit", "explicit", "pre-configured"}, "clients.consent_mode"))

\* Scopes, response types, response modes and grant types get defaults, the last two those the response
\* types need; a client with the bearer scope gets none but scopes.
validateOIDCClientFlows(k) ==
    LET types == IF k.responseTypes = {} /\ ~Bearer(k) THEN {"code"} ELSE k.responseTypes
        modes == {"form_post"} \cup When("code" \in types, "query") \cup When(types \cap (Implicit \cup Hybrid) # {}, "fragment")
        grants == When(types \cap ({"code"} \cup Hybrid) # {}, "authorization_code")
                  \cup When(types \cap (Implicit \cup Hybrid) # {}, "implicit")
    IN  [k EXCEPT !.scopes = IF @ = {} /\ ~ClientCredentials(k) THEN {"openid", "groups", "profile", "email"} ELSE @,
                  !.responseTypes = types,
                  !.responseModes = IF @ = {} /\ ~Bearer(k) THEN modes ELSE @,
                  !.grantTypes = IF @ = {} /\ ~Bearer(k) THEN grants ELSE @]

\* A custom scope of a client with a claims policy only has claims the policy provides.
validateOIDCClientScopes(k, o, ccg) ==
    When(ccg /\ k.scopes \cap {"openid", "offline", "offline_access"} # {}, "clients.scopes")
    \cup When(k.claimsPolicy # "" /\ k.claimsPolicy \notin DOMAIN o.claims, "clients.claims_policy")
    \cup When(/\ k.claimsPolicy \in DOMAIN o.claims
              /\ \E s \in (k.scopes \ ClientScopes) \cap DOMAIN o.scopes :
                    LET p == o.claims[k.claimsPolicy]
                    IN  ~(o.scopes[s] \subseteq ClientClaims \cup {p.custom[x].name : x \in DOMAIN p.custom}),
              "clients.scopes")

\* A request URI is [form, scheme].
validateOIDCClientURIs(k) ==
    When(\E u \in k.redirectURIs : u.form \in {"unparsable", "relative"} \/ (u.form = "oob" /\ ~k.public), "clients.redirect_uris")
    \cup When(\E u \in ToSet(k.requestURIs) : u.form # "absolute" \/ u.scheme # "https", "clients.request_uris")
    \cup When(Cardinality(ToSet(k.requestURIs)) < Len(k.requestURIs), "clients.request_uris")

PlainSecret(k) == k.secret = "plain"

validateOIDDClientSigningAlg(k, o, r) ==
    SignedResponse(o, k.signed[r], DefaultSignedAlg(r),
                   When(r \notin {"authorization", "id_token"}, "none") \cup (IF PlainSecret(k) THEN SymmetricAlgs ELSE {}))

validateOIDDClientEncryptionAlg(k, r) ==
    LET e == k.encrypted[r]
        enc == Text(e.enc, "A128CBC-HS256")
    IN  IF e.kid = "" /\ e.alg \in {"", "none"} THEN [enc |-> e.enc, errors |-> {}] ELSE
        [enc |-> enc,
         errors |-> When(enc \notin ContentEncryptionAlgs, "clients.encrypted_response_enc")
                    \cup (IF e.alg \notin KeyEncryptionAlgs THEN {"clients.encrypted_response_alg"} ELSE
                          When(e.alg \in SecretEncryptionAlgs /\ ~PlainSecret(k), "clients.client_secret")
                          \cup When(e.alg \notin SecretEncryptionAlgs /\ k.jwksURI = Nil /\ k.jwks = <<>>, "clients.jwks")
                          \cup When(k.signed[r].alg \in {"", "none"}, "clients.encrypted_response_alg"))]

\* [empty, absolute, scheme, fragment, user, document]: the document it names is fetched, Nil when it can't be.
validateOIDCClientSectorIdentifier(k) ==
    LET s == k.sector
    IN  IF s = Nil \/ s.empty THEN {} ELSE
        When(s.absolute /\ s.scheme # "https", "clients.sector_identifier_uri")
        \cup When(s.fragment \/ s.user = "named", "clients.sector_identifier_uri")
        \cup When(/\ s.absolute /\ s.scheme = "https" /\ ~s.fragment /\ s.user = "none"
                  /\ (IF s.document = Nil THEN TRUE ELSE ~(k.redirectURIs \subseteq s.document)),
                  "clients.sector_identifier_uri")

\* The algorithms of all of a client's keys count as algorithms it signs with, also those to encrypt with.
validateOIDCClientJSONWebKeysList(k) ==
    LET ok == {i \in DOMAIN k.jwks : k.jwks[i].key # "none" /\ schemaJWKGetProperties(k.jwks[i]) # {}}
        Props(i) == CHOOSE q \in schemaJWKGetProperties(k.jwks[i]) : TRUE
        js == [i \in DOMAIN k.jwks |-> IF i \notin ok THEN k.jwks[i] ELSE
                  [k.jwks[i] EXCEPT !.use = Text(@, Props(i).use), !.alg = Text(@, Props(i).alg)]]
        algs == appendOIDCSigningAlg({js[i].alg : i \in ok} \ {""})
    IN  [jwks |-> js, algs |-> algs,
         errors |-> When(\E i \in DOMAIN js : js[i].kid = "" \/ i \notin ok, "clients.jwks.key")
                    \cup When(\E i \in ok : js[i].use \notin {"sig", "enc"}, "clients.jwks.use")
                    \cup When(\E i \in ok : k.jwks[i].alg \notin JWKSigningAlgs \cup {""}, "clients.jwks.algorithm")
                    \cup When(\E i \in ok : js[i].key \notin {"rsa", "p256", "p384", "p521", "curve"}, "clients.jwks.key")
                    \cup When(\E i \in ok : LET h == js[i].chain
                                           IN  IF h = Nil THEN FALSE ELSE
                                               ~h.valid \/ (~h.matches /\ js[i].key \in {"rsa", "p256", "p384", "p521", "curve"}),
                              "clients.jwks.certificate_chain")
                    \cup When(k.requestSigningAlg # "" /\ k.requestSigningAlg \notin algs, "clients.request_object_signing_alg")]

validateOIDCClientPublicKeys(k) ==
    CASE k.jwksURI # Nil -> [jwks |-> k.jwks, algs |-> {}, errors |-> When(k.jwks # <<>> \/ k.jwksURI # "https", "clients.jwks_uri")]
      [] k.jwksURI = Nil /\ k.jwks # <<>> -> validateOIDCClientJSONWebKeysList(k)
      [] OTHER -> [jwks |-> <<>>, algs |-> {}, errors |-> {}]

\* How a client authenticates at an endpoint.  algs are the algorithms of its keys.
validateOIDCClientEndpointAuth(k, e, algs) ==
    LET a == k.auth[e]
        m == Text(a.method, IF k.public THEN "none" ELSE "client_secret_basic")
        implicit == k.responseTypes # {} /\ k.responseTypes \subseteq Implicit
        secret == m \in {"client_secret_jwt", "client_secret_post", "client_secret_basic"}
        alg == IF m = "client_secret_jwt" THEN Text(a.alg, "HS256") ELSE a.alg
    IN  IF m \notin AuthMethods THEN [auth |-> a, errors |-> {"clients.auth_method"}] ELSE
        [auth |-> [method |-> m, alg |-> alg],
         errors |-> When(m = "none" /\ ~k.public /\ ~implicit, "clients.auth_method")
                    \cup When(m # "none" /\ k.public, "clients.auth_method")
                    \cup When(m = "client_secret_jwt" /\ alg \notin SymmetricAlgs, "clients.auth_signing_alg")
                    \cup When(m = "private_key_jwt" /\ alg \notin JWKSigningAlgs, "clients.auth_signing_alg")
                    \cup When(m = "private_key_jwt" /\ k.jwksURI = Nil /\ k.jwks = <<>>, "clients.jwks")
                    \cup When(m = "private_key_jwt" /\ k.jwksURI = Nil /\ k.jwks # <<>> /\ algs # {} /\ alg \notin algs,
                              "clients.auth_signing_alg")
                    \cup When(secret /\ ~k.public /\ k.secret \in {"none", "empty"}, "clients.client_secret")
                    \cup When(m = "client_secret_jwt" /\ ~k.public /\ k.secret = "hashed", "clients.client_secret")
                    \cup When(~secret /\ k.secret # "none", "clients.client_secret")]

\* The options of a client that are looked up elsewhere, with their defaults.
ClientOptions(k, o) ==
    Result([k EXCEPT !.name = IF k.form = "ok" THEN Text(@, k.id) ELSE @,
                     !.policy = Text(@, IF ClientCredentials(k) THEN "one_factor" ELSE "two_factor"),
                     !.audienceMode = Text(@, "explicit")],
           When(k.form # "ok", "clients.id")
           \cup When(k.policy # "" /\ (IF ClientCredentials(k) THEN k.policy # "one_factor"
                                      ELSE k.policy \notin o.discovery.policies), "clients.authorization_policy")
           \cup When(k.lifespan # "" /\ k.lifespan \notin o.discovery.lifespans, "clients.lifespan")
           \cup When(k.pkceMethod \notin {"", "plain", "S256"}, "clients.pkce_challenge_method")
           \cup When(k.audienceMode \notin {"", "explicit", "implicit"}, "clients.requested_audience_mode"))

ClientSigned(k, s) ==
    Result([k EXCEPT !.signed = [r \in Responses |-> s[r].signed]],
           When(\E r \in Responses : ~s[r].ok, "clients.signed_response"))

ClientEncrypted(k, e) ==
    Result([k EXCEPT !.encrypted = [r \in Responses |-> [@[r] EXCEPT !.enc = e[r].enc]],
                     !.sector = IF @ = Nil THEN Nil ELSE IF @.empty THEN Nil ELSE @],
           UNION {e[r].errors : r \in Responses} \cup validateOIDCClientSectorIdentifier(k))

ClientAuth(k, a) ==
    Result([k EXCEPT !.auth = [v \in DOMAIN a |-> a[v].auth]], UNION {a[v].errors : v \in DOMAIN a})

ClientKeys(k, j) ==
    Also(ClientAuth([k EXCEPT !.jwks = j.jwks],
                    [v \in DOMAIN k.auth |-> validateOIDCClientEndpointAuth(k, v, j.algs)]), j.errors)

\* One client; what it reads of the section was discovered before.
validateOIDCClient(k, o) ==
    LET Options(c) == ClientOptions(c, o)
        Special(c) == Result(c, validateOIDCClientScopesSpecialBearerAuthz(c))
        Flows(c) == Result(validateOIDCClientFlows(c), {})
        Checks(c) ==
            Result(c, validateOIDCClientScopes(c, o, ClientCredentials(c))
                      \cup When(~(c.responseModes \subseteq ResponseModes), "clients.response_modes")
                      \cup When(~(c.grantTypes \subseteq GrantTypes), "clients.grant_types")
                      \cup When(ClientCredentials(c) /\ c.public, "clients.grant_types")
                      \cup validateOIDCClientURIs(c))
        Signing(c) == ClientSigned(c, [r \in Responses |-> validateOIDDClientSigningAlg(c, o, r)])
        Encryption(c) == ClientEncrypted(c, [r \in Responses |-> validateOIDDClientEncryptionAlg(c, r)])
        Keys(c) == ClientKeys(c, validateOIDCClientPublicKeys(c))
        Defaulted == Then(Then(Then(Options(k), Special), validateOIDCClientConsentMode), Flows)
    IN  Then(Then(Then(Then(Defaulted, Checks), Signing), Encryption), Keys)

ClientsValidated(o, r) ==
    LET ks == [i \in DOMAIN r |-> r[i].config]
    IN  Result([o EXCEPT !.clients = ks,
                         !.discovery.bearer = @ \/ \E k \in ToSet(ks) : Bearer(k),
                         !.discovery.jwtAccess = @ \/ \E k \in ToSet(o.clients) :
                             validateOIDCAlgKIDDefault(o, k.signed["access_token"], "none").alg \notin {"", "none"}],
               UNION {r[i].errors : i \in DOMAIN r}
               \cup When(\E i, j \in DOMAIN ks : i # j /\ ks[i].form = "ok" /\ ks[j].form = "ok" /\ ks[i].id = ks[j].id,
                         "clients.id"))

validateOIDCClients(o) ==
    IF o.clients = <<>> THEN Result(o, {"clients"}) ELSE
    ClientsValidated(o, [i \in DOMAIN o.clients |-> validateOIDCClient(o.clients[i], o)])

SectionValidated(c, r) == Result([c EXCEPT !.oidc = r.config], r.errors)

\* The whole section; only warnings depend on the minimum entropy of parameters.
ValidateIdentityProviders(c) ==
    LET Issuer(o) == validateOIDCIssuer(setOIDCDefaults([o EXCEPT !.discovery.scopes = @ \cup ClientScopes]))
        Claims(o) == validateOIDCClaims(validateOIDCLifespans(o), c)
        Options(o) ==
            Also(validateOIDCOptionsCORS([o EXCEPT !.entropy = IF @ # -1 THEN Positive(@, 8) ELSE @]),
                 When(o.pkce \notin {"always", "never", "public_clients_only"}, "enforce_pkce"))
        Scopes == Then(Then(Then(Issuer(c.oidc), validateOIDCAuthorizationPolicies), Claims), validateOIDCScopes)
    IN  IF c.oidc = Nil THEN Result(c, {}) ELSE SectionValidated(c, Then(Then(Scopes, Options), validateOIDCClients))

(***************************************************************************)
(* What the service looks up in the adapted section.                       *)
(***************************************************************************)
\* The keys the issuer finds for a signed response: those of its algorithm, or of the one it is paired with.
searchJWKS(o, s) ==
    LET Found(alg) == {k \in ToSet(o.keys) : k.use = "sig" /\ k.alg = alg /\ (s.kid = "" \/ k.kid = s.kid)}
    IN  IF Found(s.alg) # {} THEN Found(s.alg) ELSE UNION {Found(a) : a \in SigningAlgEdwardsPair(s.alg)}

\* Whether the access tokens of a client are JSON web tokens.
GetEnableJWTProfileOAuthAccessTokens(k) ==
    k.signed["access_token"].alg \notin {"", "none"} /\ k.signed["access_token"].kid # ""
=============================================================================
