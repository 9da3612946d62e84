----------------------- MODULE MCOAuth2Authorization ------------------------
(***************************************************************************)
(* The authorization endpoint for TLC: pushed requests, consent sessions,  *)
(* the subject identifiers of users, the claims about them and the provider *)
(* with its clients.  They meet in no table; which of them runs is chosen  *)
(* at the start.                                                           *)
(***************************************************************************)
EXTENDS OAuth2PushedRequest, Integers, Sequences, TLC

CONSTANTS u1, u2, r1, r2, Anonymous, NoSubject,
          k1, k2, x, y, a, z, w, NoKey, NoId,
          NoClaims, Malformed, Gone, NoValue, None, Failed, Unset

VARIABLES part, now, authAt, consents, preconfigs, handler, issued,
          rows, login, command, drawn,
          client, user, request, granted, session, id_token, access_token, userinfo,
          provider, keys, field, call, answers, discovery, heap, cache, verdicts

-----------------------------------------------------------------------------
(* Consent sessions: one client per consent mode. *)

MCMode == [web |-> "explicit", app |-> "implicit", tv |-> "pre-configured"]

Form(c, s, p, m, code) ==
    [client |-> c, scopes |-> s, prompt |-> p, maxage |-> m, code |-> code]

\* Explicit and implicit clients: a plain request, one that must be preceded
\* by a login, and one whose refresh scope the implicit policy must drop.
PolicyForms ==
    {Form("web", {"openid"}, "login", -1, TRUE),
     Form("app", {"openid", "offline_access"}, "", -1, FALSE),
     Form("app", {"openid"}, "", 1, TRUE)}

\* Pre-configured consent, for a request bound to a recent login.
PreConfiguredForms == {Form("tv", {"openid"}, "", 1, TRUE)}

\* Bounds: one consent session of two users while it expires; two of a
\* pre-configured client, of two users, or of one user while time passes.
ByMode == INSTANCE OAuth2Consent WITH
    Users <- {u1, u2}, Requests <- {r1, r2}, req <- handler,
    Mode <- MCMode, Offline <- {"offline_access"}, Forms <- PolicyForms,
    Lifespan <- 1, Duration <- 1, MaxNow <- 2, MaxConsents <- 1, MaxPreConfigs <- 0
Saved == INSTANCE OAuth2Consent WITH
    Users <- {u1, u2}, Requests <- {r1, r2}, req <- handler,
    Mode <- MCMode, Offline <- {"offline_access"}, Forms <- PreConfiguredForms,
    Lifespan <- 3, Duration <- 1, MaxNow <- 1, MaxConsents <- 2, MaxPreConfigs <- 1
Expiring == INSTANCE OAuth2Consent WITH
    Users <- {u1}, Requests <- {r1, r2}, req <- handler,
    Mode <- MCMode, Offline <- {"offline_access"}, Forms <- PreConfiguredForms,
    Lifespan <- 3, Duration <- 1, MaxNow <- 2, MaxConsents <- 2, MaxPreConfigs <- 1

-----------------------------------------------------------------------------
(* Subject identifiers: the administrator imports a file of both users and  *)
(* adds an identifier of their own choice, which may be drawn as well.      *)

Identifiers == INSTANCE OAuth2Identifiers WITH
    Keys <- {k1, k2}, RandomIds <- {x, z, w}, Logins <- {r1, r2}, Commands <- {u1, u2},
    Files <- {<<[key |-> k1, id |-> a], [key |-> k2, id |-> x]>>, <<[key |-> k2, id |-> y]>>}

-----------------------------------------------------------------------------
(* Claims: clients without a claims policy, with an unknown one and with    *)
(* one; two states of the user's details; requests of scopes alone and      *)
(* requests that name a claim, of each form, for either response.           *)

Text(v) == [kind |-> "string", v |-> v]
Number(v) == [kind |-> "number", v |-> v]
Wants(e, v, vs) == [essential |-> e, value |-> v, values |-> vs]
Null == [null |-> TRUE]

ClaimsPolicies ==
    [p |-> [id_token |-> {"groups"}, access_token |-> {"email"}, merged |-> TRUE,
            custom |-> [groups |-> "dept"]]]
ClaimsScopes == [work |-> {"groups", "name", "level"}]
Registrations ==
    {[scopes |-> {"openid", "email", "groups", "offline_access"}, policy |-> "", jwt |-> TRUE],
     [scopes |-> {"openid", "email"}, policy |-> "unknown", jwt |-> FALSE],
     [scopes |-> {"openid", "email", "groups", "work"}, policy |-> "p", jwt |-> TRUE],
     [scopes |-> {"openid", "authelia.bearer.authz"}, policy |-> "", jwt |-> FALSE]}
Directory ==
    {[email |-> Text("e1"), groups |-> [kind |-> "list", v |-> "g"], dept |-> Text("d"),
      display_name |-> Text("n"), level |-> Number("1")],
     [email |-> Text(""), dept |-> Text("d")]}

\* The forms a request for a claim may have, and a map of one or no claim.
Asked == {Null, Wants(FALSE, NoValue, NoValue), Wants(TRUE, NoValue, NoValue),
          Wants(TRUE, Text("e1"), NoValue), Wants(FALSE, Number("1"), {Text("e1"), Number("2")}),
          Wants(TRUE, NoValue, {})}
One(cs) == {<<>>} \cup {c :> r : c \in cs, r \in Asked}

ClaimForm(s, t, c) == [scopes |-> s, response |-> t, claims |-> c]
ClaimForms ==
    {ClaimForm(s, t, NoClaims) :
        s \in {{"openid", "email"}, {"email"}, {"openid", "email", "groups", "work"}, {"openid", "offline_access"}},
        t \in {"code", "id_token"}}
    \cup {ClaimForm(s, "client_credentials", NoClaims) :
             s \in {{"openid"}, {"openid", "authelia.bearer.authz"}, {"authelia.bearer.authz"}}}
    \cup {ClaimForm(s, "code", Malformed) : s \in {{"openid"}, {"email"}}}
    \cup {ClaimForm({"openid", "groups"}, "code", [id_token |-> i, userinfo |-> u]) :
             i \in One({"email", "groups"}), u \in One({"email", "level"})}
    \cup {ClaimForm({"openid"}, "code", [id_token |-> i, userinfo |-> ("rat" :> Null)]) :
             i \in {"sub" :> Wants(FALSE, v, NoValue) : v \in {NoValue, Text("subject"), Text("other")}}
                  \cup {"iss" :> Wants(FALSE, v, NoValue) : v \in {Text("issuer"), Number("1")}}
                  \cup {("groups" :> Null) @@ ("email" :> Null) @@ ("sub" :> Wants(TRUE, NoValue, NoValue))}}

Claims == INSTANCE OIDCClaims WITH
    Clients <- Registrations, Policies <- ClaimsPolicies, CustomScopes <- ClaimsScopes,
    Users <- Directory, Requests <- ClaimForms

-----------------------------------------------------------------------------
(* The provider: clients of each kind of policy, consent mode and lifespans; *)
(* every way to enforce PKCE; lifespans unset, negative and set; three sets  *)
(* of keys; and three clients of one sector.                                 *)

Plain == [public |-> FALSE, require_pkce |-> FALSE, pkce_method |-> "", par |-> FALSE, modes |-> {},
          consent |-> "auto", audience |-> "explicit", lifespan |-> "", policy |-> "two_factor", fields |-> <<>>]
ClientConfigs ==
    {Plain,
     [Plain EXCEPT !.public = TRUE, !.policy = "unknown", !.consent = "pre-configured"],
     [Plain EXCEPT !.public = TRUE, !.pkce_method = "S256", !.policy = "rules", !.lifespan = "custom",
                   !.consent = "implicit"],
     [Plain EXCEPT !.policy = "denied", !.lifespan = "missing",
                   !.fields = [name |-> "n", token_method |-> "client_secret_post", id_token_alg |-> "ES256",
                               grant_types |-> <<"refresh_token", "implicit">>]],
     [Plain EXCEPT !.policy = "one_factor", !.lifespan = "negative", !.audience = "", !.modes = {"query"}]}
PolicyRule(s, n, p) == [subjects |-> s, networks |-> n, policy |-> p]
ClientRules ==
    [rules |-> [default |-> "two_factor",
                rules |-> <<PolicyRule({{"user:a"}, {"group:x", "group:y"}}, {}, "deny"),
                            PolicyRule({}, {"lan"}, "one_factor"), PolicyRule({}, {}, "bypass"),
                            PolicyRule({{"user:b"}}, {}, "deny")>>],
     denied |-> [default |-> "typo", rules |-> <<PolicyRule({{"group:x"}}, {"lan"}, "one_factor")>>]]
CustomLifespans ==
    [custom |-> [token |-> [access_token |-> 7],
                 grants |-> [refresh_token |-> [access_token |-> 8, refresh_token |-> 9]]],
     negative |-> [token |-> [access_token |-> -1],
                   grants |-> [authorization_code |-> [access_token |-> 0]]]]
TokenNames == {"jarm", "access_token", "refresh_token", "id_token", "authorize_code", "device_code"}
Settings ==
    {[policies |-> ClientRules, custom |-> CustomLifespans, enforce_pkce |-> e, plain_challenge |-> b,
      require_par |-> b, jwt_access_tokens |-> j, stateless_introspection |-> b,
      lifespans |-> [l \in TokenNames |-> n]] :
        e \in {"always", "never", "public_clients_only"}, b \in BOOLEAN, j \in BOOLEAN, n \in {-1, 0, 5}}
Key(alg, kid, use) == [alg |-> alg, kid |-> kid, use |-> use]
KeyLists ==
    {<<Key("RS256", 2, "sig"), Key("none", 9, "sig"), Key("RS256", 1, "sig"), Key("HS256", 3, "sig")>>,
     <<Key("PS256", 1, "sig"), Key("ES384", 2, "sig"), Key("Ed25519", 3, "sig"), Key("ML-DSA-44", 4, "sig")>>,
     <<Key("RS256", 1, "enc"), Key("ES256", 2, "sig"), Key("EdDSA", 3, "sig"), Key("RS512", 4, "sig")>>}
Principals ==
    {[names |-> n, network |-> net] :
        n \in {{}, {"user:a"}, {"user:b", "group:x"}, {"user:c", "group:x", "group:y"}}, net \in {"lan", "wan"}}

Provider == INSTANCE OIDCProvider WITH
    Subjects <- Principals, SectorClients <- <<{"u1"}, {"u2"}, {"u1", "u2"}>>,
    SectorDocs <- {{"u1"}, {"u1", "u2"}, {}, Failed}, Callers <- {u1, u2}, Issuers <- {"i1", "i2"}

ASSUME ConsentAssumptions ==
    /\ ByMode!ConsentAssumption /\ Saved!ConsentAssumption /\ Expiring!ConsentAssumption
ASSUME IdentifiersAssumption == Identifiers!IdentifiersAssumption

-----------------------------------------------------------------------------
consent == <<now, authAt, consents, preconfigs, handler>>
subjects == <<rows, login, command, drawn>>
claims == <<client, user, request, granted, session, id_token, access_token, userinfo>>
registry == <<provider, keys, field, call, answers, discovery, heap, cache, verdicts>>

NoConsent == now = 0 /\ authAt = 0 /\ consents = <<>> /\ preconfigs = 0 /\ handler = 0
NoSubjects == rows = 0 /\ login = 0 /\ command = 0 /\ drawn = 0
NoRegistry ==
    /\ provider = 0 /\ keys = 0 /\ field = 0 /\ call = 0 /\ answers = 0
    /\ discovery = 0 /\ heap = 0 /\ cache = 0 /\ verdicts = 0
NoDetails ==
    /\ user = 0 /\ request = 0 /\ granted = 0
    /\ session = 0 /\ id_token = 0 /\ access_token = 0 /\ userinfo = 0
NoClaimsPart == client = 0 /\ NoDetails /\ NoRegistry

MCInit ==
    /\ Init
    /\ \/ part = "pushed" /\ NoConsent /\ NoSubjects /\ NoClaimsPart /\ issued = 0
       \/ part = "policies" /\ ByMode!Init /\ NoSubjects /\ NoClaimsPart
       \/ part = "saved" /\ Saved!Init /\ NoSubjects /\ NoClaimsPart
       \/ part = "expiring" /\ Expiring!Init /\ NoSubjects /\ NoClaimsPart
       \/ part = "identifiers" /\ Identifiers!Init /\ NoConsent /\ NoClaimsPart
       \/ part = "claims" /\ Claims!InitClaims /\ NoRegistry /\ NoConsent /\ NoSubjects /\ issued = 0
       \/ part = "provider" /\ Provider!InitProvider /\ NoDetails /\ NoConsent /\ NoSubjects /\ issued = 0

MCNext ==
    /\ \/ part = "pushed" /\ Next /\ UNCHANGED <<consent, subjects, issued, claims, registry>>
       \/ part = "policies" /\ ByMode!Next /\ UNCHANGED <<vars, subjects, claims, registry>>
       \/ part = "saved" /\ Saved!Next /\ UNCHANGED <<vars, subjects, claims, registry>>
       \/ part = "expiring" /\ Expiring!Next /\ UNCHANGED <<vars, subjects, claims, registry>>
       \/ part = "identifiers" /\ Identifiers!Next /\ UNCHANGED <<vars, consent, claims, registry>>
       \/ part = "claims" /\ Claims!NextClaims /\ UNCHANGED <<vars, consent, subjects, issued, registry>>
       \/ part = "provider" /\ Provider!NextProvider
            /\ UNCHANGED <<vars, consent, subjects, issued, user, request, granted, session, id_token, access_token, userinfo>>
    /\ UNCHANGED part

MCSpec == MCInit /\ [][MCNext]_<<vars, consent, subjects, issued, claims, registry, part>>

Symmetry == Permutations({u1, u2}) \cup Permutations({r1, r2})

-----------------------------------------------------------------------------
\* A response rests on the consent its request demands: the subject's own yes,
\* a pre-configuration the subject saved, or the implicit policy without the
\* scopes that yield a refresh token (GrantsRestOnConsent); it goes to the
\* subject and with the scopes the consent session records, although the handler
\* answers from an older copy (ResponseMatchesSession); a session yields one
\* response at most (OneResponse: SaveOAuth2ConsentSessionGranted), none after a
\* refusal (RefusalStands), and with prompt=login only to a session that has
\* authenticated since the request was made (FreshLogin).
\* A user has one subject in a sector for all time, and no two users share one,
\* whichever requests and commands raced to create it (OneSubjectPerUser:
\* GetSubject); a subject that was handed out can be resolved to its user
\* (SubjectsResolve: UserDetailerFromSubject dereferences the row it loads);
\* GetSubject fails only when the identifier it drew belongs to somebody else
\* (FailsOnCollision); and when generate reports success every triple it was
\* asked for has an identifier (GeneratedAll).
ConsentSound ==
    /\ part = "policies" => ByMode!TypeOKConsent /\ ByMode!FreshLogin
    /\ part = "saved" => Saved!TypeOKConsent
    /\ part = "expiring" => Expiring!TypeOKConsent
    /\ part \in {"policies", "saved", "expiring"} =>
          /\ ByMode!OneResponse
          /\ ByMode!ResponseMatchesSession
          /\ ByMode!GrantsRestOnConsent
          /\ ByMode!RefusalStands
    /\ part = "identifiers" =>
          /\ Identifiers!TypeOK
          /\ Identifiers!FailsOnCollision
          /\ Identifiers!SubjectsResolve
          /\ Identifiers!OneSubjectPerUser
          /\ Identifiers!GeneratedAll

\* The first answer to a consent session is final: no later statement changes
\* who answered, what they answered or what was granted
\* (SaveOAuth2ConsentSessionResponse).  And when a user is gone, or there never
\* was one, the userinfo endpoint answers without standard claims, although the
\* session remembers those of the ID Token (GoneHides: hydrateClaimsOriginal).
AnswerIsFinal ==
    [][/\ part \in {"policies", "saved", "expiring"} =>
            \A i \in DOMAIN consents : consents[i].responded =>
                consents'[i] \in {consents[i], [consents[i] EXCEPT !.granted = TRUE]}
       /\ part = "claims" => Claims!GoneHides]_<<part, consents, claims>>

\* What the tokens and the userinfo endpoint tell about a user belongs to a
\* granted scope or is a claim the user granted or was shown as essential,
\* whatever happened to the registration and the user since
\* (ReleasedWithConsent); outside the implicit flow the ID Token has only what
\* was asked for or a policy names (IDTokenMinimal); a request that demands a
\* subject is authorized for it alone (SubjectBound); and equal requests have
\* one signature, which stored consents are looked up by (RequestsStable).
\* Of the provider and its clients: a getter that fills a default without a lock
\* has one answer, whoever calls it at the same time (AnswersStable); documents
\* for several issuers do not mix (DocumentsPure) and advertise what clients are
\* taken to use and what is enforced (AdvertisedHonoured); clients of one sector
\* are judged by one document (SectorsConsistent); policies, lifespans and PKCE
\* fail safe (PoliciesFailSafe, LifespansPositive, ProviderFailSafe); handlers
\* and keys come in the order that the protocol and the published set need
\* (HandlersOrdered, KeysSorted).
ProviderSound ==
    /\ part = "claims" => Claims!ClaimsInv
    /\ part = "provider" => Provider!ProviderInv
=============================================================================
