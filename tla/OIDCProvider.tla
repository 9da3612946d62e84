--------------------------- MODULE OIDCProvider -----------------------------
(***************************************************************************)
(* The OpenID Connect provider built from the configuration: registered    *)
(* clients and their policies, the provider's options, the order of the    *)
(* library's handlers, the key set, the discovery documents and the sector *)
(* identifier documents.  Clients and options are shared by all requests;  *)
(* their getters fill an empty field with its default when it is first     *)
(* read, without a lock, so a call is three steps: test, store, read.      *)
(***************************************************************************)
EXTENDS Integers, Sequences, FiniteSets, SequencesExt, TLC

CONSTANTS ClientConfigs,  \* configured clients
          Settings,       \* configured providers
          KeyLists,       \* sequences of keys: [alg, kid, use]
          Subjects,       \* [names, network], names {} for an anonymous one
          SectorClients,  \* a sequence of sets of redirect URIs
          SectorDocs,     \* what the sector identifier URI may answer; Failed
          Callers, Issuers, Failed, Unset

VARIABLES client, provider, keys, field, call, answers, discovery, heap, cache, verdicts

providerVars == <<client, provider, keys, field, call, answers, discovery, heap, cache, verdicts>>

-----------------------------------------------------------------------------
(* Policies of a client. *)

NewLevel(name) == CASE name \in {"bypass", "one_factor", "two_factor", "deny"} -> name [] OTHER -> "deny"

NewClientAuthorizationPolicy(p) ==
  [default |-> NewLevel(p.default),
   rules |-> [i \in DOMAIN p.rules |-> [p.rules[i] EXCEPT !.policy = NewLevel(@)]]]

\* NewMemoryClientStore: the two built-in policies and the configured ones.
ClientPolicies(policies) ==
  [n \in DOMAIN policies |-> NewClientAuthorizationPolicy(policies[n])]
    @@ [one_factor |-> [default |-> "one_factor", rules |-> <<>>],
        two_factor |-> [default |-> "two_factor", rules |-> <<>>]]

NewClientConsentPolicy(mode) == IF mode \in {"implicit", "pre-configured"} THEN mode ELSE "explicit"
NewClientRequestedAudienceMode(mode) == IF mode = "explicit" THEN mode ELSE "implicit"

\* A rule with subjects matches nobody who is anonymous; each of its subjects
\* is a set of names that must all be the user's.
MatchesSubjects(rule, subject) ==
  /\ rule.subjects # {} => /\ subject.names # {}
                           /\ \E s \in rule.subjects : s \subseteq subject.names
  /\ rule.networks # {} => subject.network \in rule.networks

GetRequiredLevel(policy, subject) ==
  LET matching == {i \in DOMAIN policy.rules : MatchesSubjects(policy.rules[i], subject)}
  IN IF matching = {} THEN policy.default
     ELSE policy.rules[CHOOSE i \in matching : \A j \in matching : i <= j].policy

IsAuthLevelSufficient(level, required) ==
  CASE required = "deny" -> FALSE
    [] required = "one_factor" -> level >= 1
    [] required = "two_factor" -> level >= 2
    [] OTHER -> TRUE

IsAuthenticationLevelSufficient(c, level, subject) ==
  level # 0 /\ IsAuthLevelSufficient(level, GetRequiredLevel(c.policy, subject))

-----------------------------------------------------------------------------
(* Clients. *)

\* NewClient: an unknown policy asks for two factors.
NewClient(c, settings) ==
  LET policies == ClientPolicies(settings.policies)
      set(k) == IF k \in DOMAIN c.fields THEN c.fields[k] ELSE Unset
  IN [public |-> c.public,
      pkce |-> [enforce |-> c.require_pkce \/ c.pkce_method # "", method |-> c.pkce_method],
      par |-> c.par, modes |-> c.modes,
      consent |-> NewClientConsentPolicy(c.consent),
      audience |-> NewClientRequestedAudienceMode(c.audience),
      lifespans |-> IF c.lifespan \in DOMAIN settings.custom THEN settings.custom[c.lifespan] ELSE [grants |-> <<>>, token |-> <<>>],
      policy |-> IF c.policy \in DOMAIN policies THEN policies[c.policy]
                 ELSE [default |-> "two_factor", rules |-> <<>>],
      memo |-> [k \in {"name", "grant_types", "response_types", "authorization_alg", "id_token_alg",
                       "access_token_alg", "userinfo_alg", "introspection_alg", "token_method", "token_alg",
                       "revocation_method", "introspection_method", "par_method"} |-> set(k)]]

\* The value a getter stores when it finds the field empty, Unset for none.
NoneIfPublic(c) == IF c.public THEN "none" ELSE Unset
GetName(c) == "id"
GetGrantTypes(c) == <<"authorization_code">>
GetResponseTypes(c) == <<"code">>
GetAuthorizationSignedResponseAlg(c) == "RS256"
GetIDTokenSignedResponseAlg(c) == "RS256"
GetAccessTokenSignedResponseAlg(c) == "none"
GetUserinfoSignedResponseAlg(c) == "none"
GetIntrospectionSignedResponseAlg(c) == "none"
GetTokenEndpointAuthMethod(c) == IF c.public THEN "none" ELSE "client_secret_basic"
GetTokenEndpointAuthSigningAlg(c) == "RS256"
GetRevocationEndpointAuthMethod(c) == NoneIfPublic(c)
GetIntrospectionEndpointAuthMethod(c) == NoneIfPublic(c)
GetPushedAuthorizationRequestEndpointAuthMethod(c) == NoneIfPublic(c)

ClientDefaults(c) ==
  [name |-> GetName(c), grant_types |-> GetGrantTypes(c), response_types |-> GetResponseTypes(c),
   authorization_alg |-> GetAuthorizationSignedResponseAlg(c),
   id_token_alg |-> GetIDTokenSignedResponseAlg(c), access_token_alg |-> GetAccessTokenSignedResponseAlg(c),
   userinfo_alg |-> GetUserinfoSignedResponseAlg(c), introspection_alg |-> GetIntrospectionSignedResponseAlg(c),
   token_method |-> GetTokenEndpointAuthMethod(c), token_alg |-> GetTokenEndpointAuthSigningAlg(c),
   revocation_method |-> GetRevocationEndpointAuthMethod(c),
   introspection_method |-> GetIntrospectionEndpointAuthMethod(c),
   par_method |-> GetPushedAuthorizationRequestEndpointAuthMethod(c)]

\* ValidateResponseModePolicy, of a request without a response mode.
ValidateResponseModePolicy(c, mode, default) ==
  mode = "" => c.modes = {} \/ default \in c.modes

\* getGrantTypeLifespan and GetEffectiveLifespan: the grant's, the client's,
\* the provider's.
GetGrantTypeLifespan(c, grant) ==
  IF grant \in DOMAIN c.lifespans.grants THEN c.lifespans.grants[grant] ELSE <<>>
Positive(lifespans, token) == token \in DOMAIN lifespans /\ lifespans[token] > 0
GetEffectiveLifespan(c, grant, token, fallback) ==
  IF Positive(GetGrantTypeLifespan(c, grant), token) THEN GetGrantTypeLifespan(c, grant)[token]
  ELSE IF Positive(c.lifespans.token, token) THEN c.lifespans.token[token]
  ELSE fallback

\* FormRequiresExplicitConsent, of a form [prompts, code, scopes], and
\* GetConsentResponseBody, of what the consent page offers.
FormRequiresExplicitConsent(form) ==
  \/ form.prompts \cap {"consent", "login"} # {}
  \/ form.code /\ form.scopes \cap {"offline", "offline_access", "authelia.bearer.authz"} # {}
GetConsentResponseBody(c, form, disabled) ==
  [preconfiguration |-> c.consent = "pre-configured" /\ ~disabled /\ ~FormRequiresExplicitConsent(form),
   scopes |-> form.scopes]
-----------------------------------------------------------------------------
(* The options of the provider. *)

Lifespans == {"jarm", "access_token", "refresh_token", "id_token", "authorize_code", "device_code", "par"}

NewConfig(s) ==
  [pkce |-> [enforce |-> s.enforce_pkce = "always", public |-> s.enforce_pkce # "never",
             plain |-> s.plain_challenge],
   par |-> s.require_par, jwt |-> s.jwt_access_tokens, stateless |-> s.stateless_introspection,
   memo |-> [l \in Lifespans |-> IF l = "par" THEN 300 ELSE s.lifespans[l]]
              @@ [jwt_max |-> 0, scope_field |-> 0, entropy |-> 0, polling |-> 0]]

GetEnforcePKCEForPublicClients(p) == p.pkce.enforce \/ p.pkce.public

\* Defaults of the lifespans, in seconds: stored in the place of zero and of a
\* negative one; those of the other numbers in the place of zero.
TokenLifespans ==
  [access_token |-> 3600, refresh_token |-> 2592000, id_token |-> 3600, authorize_code |-> 900,
   device_code |-> 600, par |-> 300]
GetJWTSecuredAuthorizeResponseModeLifespan == 300
GetTokenEntropy == 32
GetJWTMaxDuration == 86400
GetJWTScopeField == 1
GetRFC8628TokenPollingInterval == 10
OptionDefaults ==
  TokenLifespans @@ [jarm |-> GetJWTSecuredAuthorizeResponseModeLifespan, entropy |-> GetTokenEntropy,
                     jwt_max |-> GetJWTMaxDuration, scope_field |-> GetJWTScopeField,
                     polling |-> GetRFC8628TokenPollingInterval]

\* GetJWTClockSkew stores nothing.
GetJWTClockSkew(skew) == IF skew = 0 THEN 10 ELSE IF skew < 0 THEN 0 ELSE IF skew < 60 THEN skew ELSE 60

\* LoadHandlers: the handlers in the order they are asked in.
Handlers(p) ==
  <<"code", "implicit", "client_credentials", "refresh", "device_authorize", "user_authorize", "device_token",
    "openid_code", "openid_implicit", "openid_hybrid", "openid_refresh", "openid_device">>
  \o (IF p.jwt /\ p.stateless THEN <<"stateless_jwt">> ELSE <<>>)
  \o <<"core_validator", "revocation", "pkce", "par", "response_mode", "rfc9207">>

\* The endpoints whose handler interface each of them implements.
Implements ==
  [code |-> {"authorize", "token"}, implicit |-> {"authorize"}, client_credentials |-> {"token"},
   refresh |-> {"token"}, device_authorize |-> {"device"}, user_authorize |-> {"user"}, device_token |-> {"token"},
   openid_code |-> {"authorize", "token"}, openid_implicit |-> {"authorize"}, openid_hybrid |-> {"authorize"},
   openid_refresh |-> {"token"}, openid_device |-> {"user", "token"}, stateless_jwt |-> {"introspection"},
   core_validator |-> {"introspection"}, revocation |-> {"revocation"}, pkce |-> {"authorize", "token"},
   par |-> {"par"}, response_mode |-> {"response_mode"}, rfc9207 |-> {"response_parameter"}]
LoadHandlers(p) ==
  [e \in UNION {Implements[h] : h \in DOMAIN Implements} |->
     (IF e = "response_mode" THEN <<"response_mode">> ELSE <<>>)
       \o SelectSeq(Handlers(p), LAMBDA h : e \in Implements[h])]

-----------------------------------------------------------------------------
(* The key set. *)

\* The algorithms in the order of their names, and the two letters they start with.
ByName == <<"ES256", "ES384", "Ed25519", "EdDSA", "HS256", "HS512", "ML-DSA-44", "PS256", "RS256", "RS512", "none">>
NameLess(i, j) == \E a, b \in DOMAIN ByName : ByName[a] = i /\ ByName[b] = j /\ a < b
Prefix(alg) == CASE alg \in {"ES256", "ES384"} -> "ES" [] alg \in {"Ed25519", "EdDSA"} -> "Ed"
                 [] alg \in {"HS256", "HS512"} -> "HS" [] alg = "ML-DSA-44" -> "ML"
                 [] alg = "PS256" -> "PS" [] alg \in {"RS256", "RS512"} -> "RS" [] OTHER -> "no"

IsSigningAlgLess(i, j) ==
  LET before(p, otherwise) == IF Prefix(i) = p THEN TRUE ELSE IF Prefix(j) = p THEN FALSE ELSE otherwise
  IN IF i = j \/ i = "none" THEN FALSE
     ELSE IF j = "none" THEN TRUE
     ELSE IF Prefix(i) = Prefix(j) THEN NameLess(i, j)
     ELSE before("HS", IF Prefix(i) = "PS" THEN FALSE ELSE IF Prefix(j) = "PS" THEN TRUE
                       ELSE before("RS", before("ES", before("Ed", before("ML", FALSE)))))

KeyLess(a, b) == IF a.alg = b.alg THEN a.kid < b.kid ELSE IsSigningAlgLess(a.alg, b.alg)
NewJSONWebKeySet(jwks) == SortSeq(jwks, KeyLess)

NewIssuerDefaultKeyID(jwks) ==
  LET default == SelectSeq(jwks, LAMBDA k : k.use = "sig" /\ k.alg = "RS256")
  IN IF default = <<>> THEN 0 ELSE default[1].kid

\* GetKeyID: the key with the identifier and the algorithm, of which EdDSA and
\* Ed25519 are one, or the default one.
Paired(alg) == IF alg \in {"EdDSA", "Ed25519"} THEN {"EdDSA", "Ed25519"} ELSE {alg}
GetKeyID(jwks, kid, alg) ==
  IF \E i \in DOMAIN jwks : jwks[i].kid = kid /\ jwks[i].alg \in Paired(alg) /\ jwks[i].use = "sig"
  THEN kid ELSE NewIssuerDefaultKeyID(jwks)

-----------------------------------------------------------------------------
(* What the discovery document advertises. *)

SecretMethods == {"client_secret_basic", "client_secret_post", "client_secret_jwt", "private_key_jwt"}
SigningAlgValuesSupported == {ByName[i] : i \in DOMAIN ByName} \ {"none"}
NewOpenIDConnectWellKnownConfiguration(s) ==
  [challenges |-> {"S256"} \cup (IF s.plain_challenge THEN {"plain"} ELSE {}), par |-> s.require_par,
   grant_types |-> {"authorization_code", "implicit", "client_credentials", "refresh_token", "device_code"},
   response_types |-> {"code", "id_token", "token", "id_token token", "code id_token", "code token", "code id_token token"},
   token_method |-> SecretMethods \cup {"none"}, revocation_method |-> SecretMethods \cup {"none"},
   introspection_method |-> SecretMethods,
   token_alg |-> SigningAlgValuesSupported, id_token_alg |-> SigningAlgValuesSupported,
   authorization_alg |-> SigningAlgValuesSupported,
   userinfo_alg |-> SigningAlgValuesSupported \cup {"none"},
   introspection_alg |-> SigningAlgValuesSupported \cup {"none"}]

-----------------------------------------------------------------------------
(* The provider at work.  A behaviour watches one field of the client or of *)
(* the options, or the documents, or the validation of the sectors, or asks *)
(* what was built.                                                          *)

Idle == [step |-> "idle"]
Watched == DOMAIN ClientDefaults(client) \cup DOMAIN OptionDefaults

InitProvider ==
  /\ \E c \in ClientConfigs, s \in Settings :
       client = NewClient(c, s) /\ provider = NewConfig(s) /\ discovery = NewOpenIDConnectWellKnownConfiguration(s)
  /\ field \in {"documents", "sectors", "built"} \cup Watched
  /\ keys \in IF field = "built" THEN KeyLists ELSE {<<>>}
  /\ call = [c \in Callers |-> Idle] /\ answers = {}
  /\ heap = <<"">>
  /\ cache = Unset /\ verdicts = <<>>

OfClient == field \in DOMAIN client.memo
Memo == IF OfClient THEN client.memo[field] ELSE provider.memo[field]
Default == IF OfClient THEN ClientDefaults(client)[field] ELSE OptionDefaults[field]
Empty(v) ==
  IF OfClient THEN v = Unset
  ELSE IF field \in Lifespans THEN v <= 0 ELSE v = 0

\* A getter: it tests the field, stores the default, and returns what it reads.
Test(c) ==
  /\ field \in Watched /\ call[c] = Idle
  /\ call' = [call EXCEPT ![c] = [step |-> IF Empty(Memo) THEN "store" ELSE "read"]]
  /\ UNCHANGED <<client, provider, keys, field, answers, discovery, heap, cache, verdicts>>
Store(c) ==
  /\ call[c].step = "store"
  /\ IF OfClient THEN client' = [client EXCEPT !.memo[field] = Default] /\ provider' = provider
                 ELSE provider' = [provider EXCEPT !.memo[field] = Default] /\ client' = client
  /\ call' = [call EXCEPT ![c].step = "read"]
  /\ UNCHANGED <<keys, field, answers, discovery, heap, cache, verdicts>>
ReadField(c) ==
  /\ call[c].step = "read" /\ field \in Watched
  /\ answers' = answers \cup {<<Memo>>}
  /\ call' = [call EXCEPT ![c] = Idle]
  /\ UNCHANGED <<client, provider, keys, field, discovery, heap, cache, verdicts>>

\* Copy: the parts of the document behind pointers are copied into new cells.
CopyDiscovery_Shared(c, issuer) ==
  /\ field = "documents" /\ call[c] = Idle
  /\ heap' = heap
  /\ call' = [call EXCEPT ![c] = [step |-> "set", issuer |-> issuer, inline |-> "", cell |-> 1]]
  /\ UNCHANGED <<client, provider, keys, field, answers, discovery, cache, verdicts>>
CopyDiscovery(c, issuer) ==
  /\ field = "documents" /\ call[c] = Idle /\ Len(heap) < 4
  /\ heap' = Append(heap, heap[1])
  /\ call' = [call EXCEPT ![c] = [step |-> "set", issuer |-> issuer, inline |-> "", cell |-> Len(heap) + 1]]
  /\ UNCHANGED <<client, provider, keys, field, answers, discovery, cache, verdicts>>

\* Get...WellKnownConfiguration: the endpoints of the issuer, some of them
\* behind a pointer; then the document is written.
SetEndpoints(c) ==
  /\ call[c].step = "set"
  /\ heap' = [heap EXCEPT ![call[c].cell] = call[c].issuer]
  /\ call' = [call EXCEPT ![c].step = "write", ![c].inline = call[c].issuer]
  /\ UNCHANGED <<client, provider, keys, field, answers, discovery, cache, verdicts>>
WriteDocument(c) ==
  /\ call[c].step = "write"
  /\ answers' = answers \cup {<<call[c].issuer, call[c].inline, heap[call[c].cell]>>}
  /\ call' = [call EXCEPT ![c] = Idle]
  /\ UNCHANGED <<client, provider, keys, field, discovery, heap, cache, verdicts>>

\* ValidateSectorIdentifierURI of the next client: the document comes from the
\* cache if it was fetched before, and only a document is cached.
GetSectorIdentifierURICache == IF cache # Unset THEN {cache} ELSE SectorDocs
ValidateSectorIdentifierURI ==
  /\ field = "sectors" /\ Len(verdicts) < Len(SectorClients)
  /\ \E doc \in GetSectorIdentifierURICache :
       /\ cache' = IF doc = Failed THEN cache ELSE doc
       /\ verdicts' = Append(verdicts, IF doc = Failed THEN "failed"
                                       ELSE IF SectorClients[Len(verdicts) + 1] \subseteq doc THEN "valid" ELSE "invalid")
  /\ UNCHANGED <<client, provider, keys, field, call, answers, discovery, heap>>

NextProvider ==
  \/ \E c \in Callers : \/ Test(c) \/ Store(c) \/ ReadField(c)
                        \/ \E i \in Issuers : CopyDiscovery(c, i)
                        \/ SetEndpoints(c) \/ WriteDocument(c)
  \/ ValidateSectorIdentifierURI

-----------------------------------------------------------------------------
\* A getter has one answer for all time, whoever else fills the field at that
\* moment, and never an unusable one: a lifespan, an interval or an entropy is
\* positive whatever was configured.
AnswersStable ==
  field \in Watched =>
    /\ Cardinality(answers) <= 1
    /\ \A a \in answers : ~Empty(a[1]) \/ Default = Unset
    /\ ~OfClient => \A a \in answers : a[1] > 0

\* A document about an issuer names the endpoints of that issuer and no other,
\* although documents for several are built from one at the same time.
DocumentsPure == field = "documents" => \A a \in answers : a[1] = a[2] /\ a[2] = a[3]

\* What a client is taken to use when its registration is silent is advertised,
\* except that introspection is not offered to public clients; and the document
\* tells of PKCE and pushed requests what the provider enforces.
AdvertisedHonoured ==
  /\ \A a \in answers :
       field \in DOMAIN discovery \cap DOMAIN ClientDefaults(client) /\ a[1] # Unset =>
         CASE field \in {"grant_types", "response_types"} -> \A i \in DOMAIN a[1] : a[1][i] \in discovery[field]
           [] field = "introspection_method" -> client.public \/ a[1] \in discovery[field]
           [] OTHER -> a[1] \in discovery[field]
  /\ ("plain" \in discovery.challenges) = provider.pkce.plain /\ discovery.par = provider.par

\* Clients of one sector are judged by one document in a validation, unless it
\* could not be fetched for them.
SectorsConsistent ==
  field = "sectors" =>
    \E doc \in SectorDocs \ {Failed} : \A i \in DOMAIN verdicts :
      verdicts[i] = "failed" \/ (verdicts[i] = "valid" <=> SectorClients[i] \subseteq doc)

\* Nobody is let in without a factor or against a denial; a second factor never
\* counts for less than one; the first rule that matches decides, so rules
\* after a rule for everybody are never used; a client whose policy does not
\* exist asks for two factors.
PoliciesFailSafe ==
  \A s \in Subjects :
    LET required == GetRequiredLevel(client.policy, s)
        rules == client.policy.rules
    IN /\ ~IsAuthenticationLevelSufficient(client, 0, s)
       /\ IsAuthenticationLevelSufficient(client, 1, s) => IsAuthenticationLevelSufficient(client, 2, s)
       /\ required = "deny" => ~IsAuthenticationLevelSufficient(client, 2, s)
       /\ \A i \in DOMAIN rules : rules[i].subjects = {} /\ rules[i].networks = {} =>
            required \in {rules[j].policy : j \in 1 .. i}
       /\ s.names = {} /\ (\A i \in DOMAIN rules : rules[i].subjects # {}) => required = client.policy.default

\* The effective lifespan is that of the grant before that of the client before
\* that of the provider, and positive whichever of them is missing or negative.
LifespansPositive ==
  \A g \in {"authorization_code", "refresh_token"}, t \in {"access_token", "refresh_token"} :
    LET fallback == IF provider.memo[t] <= 0 THEN OptionDefaults[t] ELSE provider.memo[t]
        effective == GetEffectiveLifespan(client, g, t, fallback)
    IN effective > 0 /\ (effective # fallback => \E l \in {client.lifespans.token, GetGrantTypeLifespan(client, g)} :
                                                   Positive(l, t) /\ l[t] = effective)

\* The code is issued before the OpenID Connect and the PKCE handlers bind a
\* session to it, at either endpoint; a stateless token is examined by its own
\* validator first, and only where JWT access tokens are enabled.
HandlersOrdered ==
  LET h == LoadHandlers(provider)
      before(e, a, b) == \E i, j \in DOMAIN h[e] : i < j /\ h[e][i] = a /\ h[e][j] = b
  IN /\ \A e \in {"authorize", "token"} : before(e, "code", "openid_code") /\ before(e, "openid_code", "pkce")
     /\ before("token", "refresh", "openid_refresh") /\ before("token", "device_token", "openid_device")
     /\ Contains(h.introspection, "stateless_jwt") => provider.jwt /\ h.introspection[1] = "stateless_jwt"
     /\ Last(h.introspection) = "core_validator"

\* The published keys do not depend on the order they are configured in, and an
\* unsuitable key identifier never selects a key of another algorithm.
KeysSorted ==
  LET all == {keys[i] : i \in DOMAIN keys}
  IN /\ \A a, b \in all : a # b => KeyLess(a, b) # KeyLess(b, a)
     /\ \A a, b, c \in all : KeyLess(a, b) /\ KeyLess(b, c) => KeyLess(a, c)
     /\ NewJSONWebKeySet(Reverse(keys)) = NewJSONWebKeySet(keys)
     /\ \A k \in all : LET kid == GetKeyID(keys, k.kid, "RS256")
                       IN kid # 0 => \E d \in all : d.kid = kid /\ d.alg = "RS256" /\ d.use = "sig"

\* A public client exchanges a code without PKCE only if that was configured,
\* and the page offers to remember a consent only where the remembered one
\* would be used.
ProviderFailSafe ==
  /\ client.public /\ ~client.pkce.enforce /\ ~GetEnforcePKCEForPublicClients(provider) =>
       ~provider.pkce.enforce /\ client.pkce.method = ""
  /\ \A prompts \in SUBSET {"consent", "login"}, code \in BOOLEAN, scopes \in {{"openid"}, {"offline_access"}} :
       LET form == [prompts |-> prompts, code |-> code, scopes |-> scopes]
       IN GetConsentResponseBody(client, form, FALSE).preconfiguration =>
            client.consent = "pre-configured" /\ prompts = {} /\ (scopes = {"offline_access"} => ~code)

ProviderInv ==
  /\ AnswersStable /\ DocumentsPure /\ AdvertisedHonoured /\ SectorsConsistent
  /\ field = "built" => PoliciesFailSafe /\ LifespansPositive /\ HandlersOrdered /\ KeysSorted /\ ProviderFailSafe
=============================================================================
