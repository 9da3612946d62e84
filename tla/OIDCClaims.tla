---------------------------- MODULE OIDCClaims ------------------------------
(***************************************************************************)
(* Claims: which attributes of a user reach a client.  The claims strategy *)
(* of a client is built from its registration and policy; an authorization *)
(* request may name claims of its own; the ID Token is filled when the     *)
(* request is authorized, a JWT access token when it is issued, and the    *)
(* answer of the userinfo endpoint on each call, from the session the      *)
(* first step stored and the user and the registration as they are then.   *)
(*                                                                         *)
(* Of the claims of each default scope one or two are kept.  A value is a  *)
(* record of its JSON kind and a name.                                     *)
(***************************************************************************)
EXTENDS Naturals, FiniteSets, Sequences, SequencesExt, Functions, TLC

CONSTANTS Clients,      \* registrations: [scopes, policy, jwt]
          Policies,     \* claims_policies: name -> [id_token, access_token, merged, custom]
          CustomScopes, \* scopes: name -> set of claims
          Users,        \* what the backend may hold for the user: attribute -> value
          Requests,     \* [scopes, response, claims], claims a ClaimsRequests or the two below
          NoClaims, Malformed, Gone, NoValue, None

VARIABLES client, user, request, granted, session, id_token, access_token, userinfo

Subject == "subject"
Issuer == "issuer"
ClientID == "client"
Str(v) == [kind |-> "string", v |-> v]
Nothing == [c \in {} |-> Str("")]

\* The hydrated claims that say nothing about the user's attributes.
Protocol == {"sub", "iss", "aud", "rat", "nonce"}
\* hydrateClaimsOriginal's standard claims, and its special ones.
Standard == {"name", "preferred_username", "email", "email_verified"}
Special == {"nonce"}

-----------------------------------------------------------------------------
(* The claims request. *)

\* A claim's request, of which the value, the values or all may be missing.
Wants(essential, value, values) == [essential |-> essential, value |-> value, values |-> values]
Null == [null |-> TRUE]
IsNull(r) == r = Null

NewClaimRequests(form) == IF form.claims = NoClaims THEN [id_token |-> Nothing, userinfo |-> Nothing]
                          ELSE form.claims

GetIDTokenRequests(requests) == requests.id_token
GetUserInfoRequests(requests) == requests.userinfo

Essential(requests, c) == c \in DOMAIN requests /\ ~IsNull(requests[c]) /\ requests[c].essential

\* ToSlices: the optional claims, and the essential ones.
ToSlices(requests) ==
  LET all == DOMAIN requests.id_token \cup DOMAIN requests.userinfo
      essential == {c \in all : Essential(requests.id_token, c) \/ Essential(requests.userinfo, c)}
  IN [claims |-> all \ essential, essential |-> essential]

ToSlice(requests) == ToSlices(requests).claims \cup ToSlices(requests).essential

\* ToOrdered ranges over a map: any order may come out; Serialized sorts it by
\* the name of the claim before it is written.
ToOrdered(requests) == SetToSeqs({<<c, requests[c]>> : c \in DOMAIN requests})
Rank(c) == CHOOSE i \in 1 .. 6 : <<"email", "groups", "iss", "name", "rat", "sub">>[i] = c
Serialized(ordered) == SortSeq(ordered, LAMBDA a, b : Rank(a[1]) < Rank(b[1]))

\* stringMatch, of one of the two maps: a requested value must be the one expected.
StringMatch(requests, c, expected) ==
  c \in DOMAIN requests /\ ~IsNull(requests[c]) /\ requests[c].value # NoValue =>
    requests[c].value = Str(expected)

MatchesSubject(requests, subject) ==
  /\ StringMatch(requests.userinfo, "sub", subject) /\ StringMatch(requests.id_token, "sub", subject)
MatchesIssuer(requests, issuer) ==
  /\ StringMatch(requests.userinfo, "iss", issuer) /\ StringMatch(requests.id_token, "iss", issuer)

\* float64Match: a numeric value decides alone.
Float64Match(v, r) ==
  IF r.value # NoValue /\ r.value.kind = "number" THEN v = r.value
  ELSE r.values # NoValue /\ v \in r.values

Matches(r, v) ==
  \/ IsNull(r)
  \/ r.value = NoValue /\ r.values = NoValue
  \/ v.kind = "number" /\ Float64Match(v, r)
  \/ v.kind \in {"bool", "string"} /\ (v = r.value \/ (r.values # NoValue /\ v \in r.values))

-----------------------------------------------------------------------------
(* The strategy of a client. *)

NewDefaultCustomClaimsStrategy ==
  [id_token |-> {}, access_token |-> {}, merged |-> FALSE,
   scopes |-> [profile |-> [name |-> "display_name", preferred_username |-> "username"],
               email |-> [email |-> "email", email_verified |-> "email_verified"],
               groups |-> [groups |-> "groups"]]]

\* The attribute a custom scope reads for a claim.
AttributeOf(policy, c) ==
  CASE c = "name" -> "display_name"
    [] c = "preferred_username" -> "username"
    [] c \in DOMAIN policy.custom -> policy.custom[c]
    [] OTHER -> c

\* NewCustomClaimsStrategy: an unknown policy is the default one, and the
\* custom scopes count only with a policy and where the client has them.
NewCustomClaimsStrategy(c) ==
  LET default == NewDefaultCustomClaimsStrategy
      policy == Policies[c.policy]
      custom == [s \in c.scopes \cap DOMAIN CustomScopes |->
                   [k \in CustomScopes[s] |-> AttributeOf(policy, k)]
                     @@ IF s \in DOMAIN default.scopes THEN default.scopes[s] ELSE Nothing]
  IN IF c.policy \notin DOMAIN Policies THEN default
     ELSE [id_token |-> policy.id_token, access_token |-> policy.access_token,
           merged |-> policy.merged, scopes |-> custom @@ default.scopes]

\* ValidateClaimsRequests: a claim that scopes map needs one the client has.
ValidateClaimsRequests(strategy, c, requests) ==
  \A k \in ToSlice(requests) :
    LET possible == {s \in DOMAIN strategy.scopes : k \in DOMAIN strategy.scopes[s]}
    IN possible = {} \/ possible \cap c.scopes # {}

-----------------------------------------------------------------------------
(* Hydration.  The code ranges over maps: of two scopes that read a claim  *)
(* from different attributes either may win, so each operator gives the    *)
(* set of claims that may result.                                          *)

\* newResolveFunc and hydrateClaim: the value of an attribute if there is one,
\* it is not empty, and the request for it accepts it.
Resolve(attribute, r) ==
  IF user = Gone \/ attribute \notin DOMAIN user THEN {}
  ELSE {v \in {user[attribute]} : v # Str("") /\ Matches(r, v)}

IsClaimAllowed(k, allowed) == allowed = None \/ k \in allowed

\* The functions that take each claim to one of its values.
Selections(values) == {f \in [DOMAIN values -> UNION Range(values)] : \A k \in DOMAIN values : f[k] \in values[k]}

HydrateClaimsScoped(strategy, scopes, allowed) ==
  LET maps == {strategy.scopes[s] : s \in scopes \cap DOMAIN strategy.scopes}
      values(k) == UNION {Resolve(m[k], Null) : m \in {m \in maps : k \in DOMAIN m}}
      present == {k \in UNION {DOMAIN m : m \in maps} : IsClaimAllowed(k, allowed) /\ values(k) # {}}
  IN Selections([k \in present |-> values(k)])

\* hydrateClaimsScopedUserInfo, and the same of a request for the claim.
RequestedAt(given) == [k \in IF given THEN {"rat"} ELSE {} |-> Str("requested")]

\* hydrateClaimsRequested: the scopes are those of the registration, not those
\* granted; the first that maps the claim decides.
HydrateClaimsRequested(strategy, c, requests, claims) ==
  LET maps(k) == {s \in c.scopes \cap DOMAIN strategy.scopes : k \in DOMAIN strategy.scopes[s]}
      used == {k \in DOMAIN requests : (Essential(requests, k) \/ k \in claims) /\ maps(k) # {}}
      result(pick) == LET value(k) == Resolve(strategy.scopes[pick[k]][k], requests[k])
                      IN [k \in {k \in used : value(k) # {}} |-> CHOOSE v \in value(k) : TRUE]
  IN {result(pick) @@ RequestedAt("rat" \in DOMAIN requests /\ "openid" \in c.scopes) :
        pick \in Selections([k \in used |-> maps(k)])}

HydrateClaimsOriginalUserInfo(original) == Restrict(original, DOMAIN original \cap {"sub"})
HydrateClaimsOriginal(original) == Restrict(original, DOMAIN original \ (Standard \cup Special))

HydrateClaimsAudience(audience) == audience \cup {ClientID}

\* HydrateIDTokenClaims: every scoped claim in the implicit flow, otherwise the
\* policy's, and the requested ones.
HydrateIDTokenClaims(strategy, c, scopes, claims, requests, implicit) ==
  {r @@ s : r \in HydrateClaimsRequested(strategy, c, requests, claims),
            s \in HydrateClaimsScoped(strategy, scopes, IF implicit THEN None ELSE strategy.id_token)}

HydrateAccessTokenClaims(strategy, scopes) == HydrateClaimsScoped(strategy, scopes, strategy.access_token)

HydrateUserInfoClaims(strategy, c, s) ==
  {r @@ RequestedAt("openid" \in s.granted) @@ k @@ HydrateClaimsOriginalUserInfo(s.original) :
     r \in HydrateClaimsRequested(strategy, c, GetUserInfoRequests(s.requests), s.claims),
     k \in HydrateClaimsScoped(strategy, s.granted, None)}

HydrateClientCredentialsUserInfoClaims(s) == HydrateClaimsOriginal(s.original)

-----------------------------------------------------------------------------
(* The handlers.  Nobody asked for anything yet; the user, asked for their *)
(* consent, is shown ToSlices and grants some of the claims.               *)

InitClaims ==
  /\ client \in Clients /\ user \in Users /\ request \in Requests
  /\ request.scopes \subseteq client.scopes
  /\ granted \in IF request.claims \in {NoClaims, Malformed} THEN {{}}
                 ELSE SUBSET ToSlice(request.claims)
  /\ session = None /\ id_token = None /\ access_token = None /\ userinfo = None

\* ConsentGrant, of the scopes: without an explicit consent no refresh token.
GrantedScopes(explicit) == IF explicit THEN request.scopes ELSE request.scopes \ {"offline_access"}

Original(subject, extra) == [sub |-> Str(subject), iss |-> Str(Issuer), nonce |-> Str("n")] @@ extra

\* NewSessionWithRequester
NewSession(requests, extra, explicit) ==
  [credentials |-> FALSE, subject |-> Subject, requests |-> requests, claims |-> granted,
   granted |-> GrantedScopes(explicit), requested |-> request.scopes,
   audience |-> HydrateClaimsAudience(IF NewCustomClaimsStrategy(client).merged THEN {"api"} ELSE {}),
   original |-> Original(Subject, extra)]

\* handleOAuth2AuthorizationClaims: the refusals, in their order.
ClaimsRefused ==
  /\ "openid" \in request.scopes
  /\ \/ request.claims = Malformed
     \/ LET requests == NewClaimRequests(request)
        IN \/ ~ValidateClaimsRequests(NewCustomClaimsStrategy(client), client, requests)
           \/ ~MatchesIssuer(requests, Issuer)
           \/ ~MatchesSubject(requests, Subject)

AuthorizationClaims ==
  /\ session = None /\ client # Gone /\ user # Gone
  /\ request.response # "client_credentials"
  /\ \E explicit \in BOOLEAN :
       IF ClaimsRefused
       THEN session' = [refused |-> TRUE] /\ id_token' = id_token
       ELSE LET requests == IF "openid" \in request.scopes THEN NewClaimRequests(request)
                            ELSE [id_token |-> Nothing, userinfo |-> Nothing]
            IN \E extra \in IF "openid" \in request.scopes
                            THEN HydrateIDTokenClaims(NewCustomClaimsStrategy(client), client,
                                   GrantedScopes(explicit), granted, GetIDTokenRequests(requests),
                                   request.response = "id_token")
                            ELSE {Nothing} :
                 /\ session' = NewSession(requests, extra, explicit)
                 /\ id_token' = IF "openid" \in request.scopes THEN extra ELSE None
  /\ UNCHANGED <<client, user, request, granted, access_token, userinfo>>

\* HydrateClientCredentialsFlowSessionWithAccessRequest and
\* PopulateClientCredentialsFlowRequester: the scope of the bearer
\* authorization comes alone or with those of a refresh token.
ClientCredentials ==
  /\ session = None /\ client # Gone /\ request.response = "client_credentials"
  /\ session' = IF "authelia.bearer.authz" \in request.scopes
                   /\ request.scopes \ {"authelia.bearer.authz", "offline_access"} # {}
                THEN [refused |-> TRUE]
                ELSE [credentials |-> TRUE, subject |-> "", claims |-> {},
                      requests |-> [id_token |-> Nothing, userinfo |-> Nothing],
                      granted |-> request.scopes, requested |-> request.scopes,
                      audience |-> {ClientID}, original |-> Original(ClientID, Nothing)]
  /\ UNCHANGED <<client, user, request, granted, id_token, access_token, userinfo>>

Issued == session # None /\ "granted" \in DOMAIN session

\* handleOAuth2TokenHydration for the other grants: from the requested scopes.
TokenHydration ==
  /\ Issued /\ access_token = None /\ client # Gone
  /\ ~session.credentials /\ client.jwt /\ user # Gone
  /\ \E extra \in HydrateAccessTokenClaims(NewCustomClaimsStrategy(client), session.requested) :
       access_token' = extra
  /\ UNCHANGED <<client, user, request, granted, session, id_token, userinfo>>

\* UserDetailerFromClaims: the subject is the identifier of a user the backend has.
UserDetailerFromClaims(original) == original.sub = Str(Subject) /\ user # Gone

\* OpenIDConnectUserinfo
Userinfo ==
  /\ Issued /\ client # Gone /\ "openid" \in session.granted
  /\ userinfo' \in IF UserDetailerFromClaims(session.original)
                   THEN HydrateUserInfoClaims(NewCustomClaimsStrategy(client), client, session)
                   ELSE {HydrateClientCredentialsUserInfoClaims(session)}
  /\ UNCHANGED <<client, user, request, granted, session, id_token, access_token>>

\* Meanwhile the user's details change, or the user is deleted; the provider is
\* restarted with another registration of the client, or without it.
ChangeUser ==
  /\ session # None /\ user # Gone /\ user' \in Users \cup {Gone}
  /\ UNCHANGED <<client, request, granted, session, id_token, access_token, userinfo>>
Reconfigure ==
  /\ session # None /\ client # Gone
  /\ client' \in {c \in Clients : c.scopes \subseteq client.scopes} \cup {Gone}
  /\ UNCHANGED <<user, request, granted, session, id_token, access_token, userinfo>>

NextClaims ==
  \/ AuthorizationClaims \/ ClientCredentials \/ TokenHydration \/ Userinfo
  \/ ChangeUser \/ Reconfigure

-----------------------------------------------------------------------------
\* Some registration maps the claim to one of these scopes.
MappedBy(k, scopes) ==
  \E c \in Clients : LET maps == NewCustomClaimsStrategy(c).scopes
                     IN \E s \in scopes \cap DOMAIN maps : k \in DOMAIN maps[s]

\* The user granted the claim, or was shown it as an essential one.
Consented(k) == k \in granted \cup ToSlices(session.requests).essential

\* What reaches the client of the user's attributes, in either token and from
\* the userinfo endpoint, belongs to a scope that was granted or is a claim the
\* request named and the user granted or was shown as essential; whatever
\* happened to the registration and the user since.  An access token has
\* claims of granted scopes only, although it is filled from the requested ones.
ReleasedWithConsent ==
  Issued =>
    /\ \A response \in {id_token, userinfo} \ {None} : \A k \in DOMAIN response \ Protocol :
         MappedBy(k, session.granted) \/ (k \in ToSlice(session.requests) /\ Consented(k))
    /\ access_token # None => \A k \in DOMAIN access_token : MappedBy(k, session.granted)

\* Outside the implicit flow the ID Token has a claim that was not asked for
\* only if a claims policy names it, and a claim that no granted scope gives
\* has a value the request for it accepts.
IDTokenMinimal ==
  Issued /\ id_token # None =>
    \A k \in DOMAIN id_token \ Protocol :
      LET requests == session.requests.id_token
      IN /\ k \in DOMAIN requests \/ request.response = "id_token"
              \/ \E p \in DOMAIN Policies : k \in Policies[p].id_token
         /\ ~MappedBy(k, session.granted) => Matches(requests[k], id_token[k])

\* A request that demands a subject is authorized for that subject only, and
\* the userinfo endpoint answers with the subject of the ID Token; the client
\* is always in the audience.
SubjectBound ==
  Issued =>
    /\ \A requests \in {session.requests.id_token, session.requests.userinfo} :
         "sub" \in DOMAIN requests /\ ~IsNull(requests.sub) => requests.sub.value \in {NoValue, Str(Subject)}
    /\ userinfo # None => userinfo.sub = Str(IF session.credentials THEN ClientID ELSE Subject)
    /\ ClientID \in session.audience

\* Each requested claim is shown once, as optional or as essential, and equal
\* requests have one signature, in whatever order their maps are read: the
\* stored consents are looked up by it.
RequestsStable ==
  request.claims \notin {NoClaims, Malformed} =>
    /\ LET shown == ToSlices(request.claims) IN shown.claims \cap shown.essential = {}
    /\ Cardinality({Serialized(o) : o \in ToOrdered(request.claims.id_token)}) = 1

\* An answer about a user who is gone, or to a client without a user, has no
\* standard claim, although the session remembers those of the ID Token.
GoneHides ==
  (userinfo' # userinfo /\ (user = Gone \/ session.credentials)) => DOMAIN userinfo' \cap Standard = {}

ClaimsInv == ReleasedWithConsent /\ IDTokenMinimal /\ SubjectBound /\ RequestsStable
=============================================================================
