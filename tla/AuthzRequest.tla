---------------------------- MODULE AuthzRequest ----------------------------
(***************************************************************************)
(* One authorization request of a proxy: the endpoint built from the       *)
(* configuration, the object read from the headers, the cookie domain and  *)
(* the portal found for it, the strategies tried in order, and the         *)
(* response (handler_authz*.go, model/authorization.go and the request     *)
(* helpers of middlewares/authelia_context.go).                            *)
(*                                                                         *)
(* What the user backend, the regulator and the token introspection answer *)
(* is part of the credential presented.  A host is its list of labels; a   *)
(* URL that does not parse is Malformed, a header that is not sent Absent. *)
(***************************************************************************)
EXTENDS Naturals, SequencesExt

CONSTANTS
    Endpoints,    \* endpoint configurations
    CookieLists,  \* lists of session cookie configurations
    RuleLists,    \* access control rules
    Asked(_, _),  \* bound: the requests made of an endpoint under some rules
    Absent, Malformed, Failed

VARIABLES endpoint, cookies, rules, request, response, attempts

----------------------------------------------------------------------------
(* The endpoint.                                                           *)

Cookie == [name |-> "cookie", header |-> "none", schemes |-> {}, status |-> 0, answer |-> "none"]
HeaderAuthorization(schemes) ==
    [name |-> "header", header |-> "authorization", schemes |-> schemes,
     status |-> 401, answer |-> "WWW-Authenticate"]
HeaderProxyAuthorization(schemes) ==
    [name |-> "header", header |-> "proxy", schemes |-> schemes,
     status |-> 407, answer |-> "Proxy-Authenticate"]
HeaderProxyAuthRequest(schemes) ==
    [name |-> "header", header |-> "proxy", schemes |-> schemes,
     status |-> 401, answer |-> "WWW-Authenticate"]
HeaderLegacy == [name |-> "legacy", header |-> "either", schemes |-> {"basic"},
                 status |-> 401, answer |-> "WWW-Authenticate"]

\* Names of schemes other than these two are left out.
NewAuthorizationSchemes(schemes) == schemes \cap {"basic", "bearer"}

Strategy(s) ==
    CASE s.name = "CookieSession" -> Cookie
      [] s.name = "HeaderAuthorization" -> HeaderAuthorization(NewAuthorizationSchemes(s.schemes))
      [] s.name = "HeaderProxyAuthorization" -> HeaderProxyAuthorization(NewAuthorizationSchemes(s.schemes))
      [] s.name = "HeaderAuthRequestProxyAuthorization" -> HeaderProxyAuthRequest(NewAuthorizationSchemes(s.schemes))
      [] s.name = "HeaderLegacy" -> HeaderLegacy

WithEndpointConfig(e) ==
    [implementation |-> IF e.implementation \in {"ForwardAuth", "AuthRequest", "ExtAuthz"}
                        THEN e.implementation ELSE "Legacy",
     headers |-> e.headers,
     strategies |-> [i \in DOMAIN e.strategies |-> Strategy(e.strategies[i])]]

Defaults(implementation) ==
    CASE implementation = "Legacy" -> <<HeaderLegacy, Cookie>>
      [] implementation = "AuthRequest" -> <<HeaderProxyAuthRequest({"basic"}), Cookie>>
      [] OTHER -> <<HeaderProxyAuthorization({"basic"}), Cookie>>

authzHeadersRequireExtendedUserDetails(headers) ==
    \E h \in headers : h \notin {"username", "groups", "display_name", "email", "emails", "emails_extra"}

Build(e) ==
    LET b == WithEndpointConfig(e)
    IN  [b EXCEPT !.strategies = IF @ = <<>> THEN Defaults(b.implementation) ELSE @]
          @@ [extended |-> authzHeadersRequireExtendedUserDetails(b.headers),
              bad |-> IF b.implementation = "Legacy" THEN 401 ELSE 400]

----------------------------------------------------------------------------
(* The object.                                                             *)

First(values) == IF values[1] = Absent THEN values[2] ELSE values[1]

XForwardedProto(r) == First(<<r.proto, IF r.tls THEN "https" ELSE "http">>)
GetXForwardedHost(r) == First(<<r.forwardedHost, r.host>>)
GetXForwardedURI(r) == First(<<r.forwardedURI, r.uri>>)

NewObjectMethodURL(method, url) ==
    IF "invalid" = method \/ url = Malformed THEN Failed
    ELSE [url |-> url, method |-> method]

\* A path that is missing leaves the URL with an empty one.
NewObjectMethodSchemeHostPath(method, scheme, host, path) ==
    IF Absent \in {scheme, host} THEN Failed
    ELSE NewObjectMethodURL(method,
             IF host = Malformed THEN Malformed
             ELSE [scheme |-> scheme, host |-> host, path |-> IF path = Absent THEN "" ELSE path])

NewObjectMethodURLOrSchemeHostPath(method, url, scheme, host, path) ==
    IF url # Absent THEN NewObjectMethodURL(method, url)
    ELSE NewObjectMethodSchemeHostPath(method, scheme, host, path)

handleAuthzGetObjectAuthRequest(r) ==
    IF r.originalMethod = Absent \/ r.originalURL = Absent THEN Failed
    ELSE NewObjectMethodURL(r.originalMethod, r.originalURL)

handleAuthzGetObjectExtAuthz(r) ==
    NewObjectMethodSchemeHostPath(r.method, XForwardedProto(r), r.host, r.authzPath)

handleAuthzGetObjectForwardAuth(r) ==
    IF r.forwardedMethod = Absent THEN Failed
    ELSE NewObjectMethodSchemeHostPath(r.forwardedMethod, XForwardedProto(r),
             r.forwardedHost, r.forwardedURI)

handleAuthzGetObjectLegacy(r) ==
    NewObjectMethodURLOrSchemeHostPath(First(<<r.forwardedMethod, r.method>>),
        r.originalURL, XForwardedProto(r), GetXForwardedHost(r), GetXForwardedURI(r))

handleGetObject(e, r) ==
    CASE e.implementation = "Legacy" -> handleAuthzGetObjectLegacy(r)
      [] e.implementation = "ForwardAuth" -> handleAuthzGetObjectForwardAuth(r)
      [] e.implementation = "AuthRequest" -> handleAuthzGetObjectAuthRequest(r)
      [] e.implementation = "ExtAuthz" -> handleAuthzGetObjectExtAuthz(r)

IsURISecure(url) == url.scheme \in {"https", "wss"}

HasDomainSuffix(host, domain) == domain # <<>> /\ IsSuffix(domain, host)

\* The first cookie configuration whose domain the host is in.
GetSessionManagerByTargetURI(url) ==
    LET of == SelectSeq(cookies, LAMBDA c : HasDomainSuffix(url.host, c.domain))
    IN  IF of = <<>> THEN Failed ELSE of[1]

----------------------------------------------------------------------------
(* The portal.                                                             *)

\* Of the legacy endpoint the query comes before the header.
handleAuthzPortalURLLegacy(r) == First(<<r.rd, r.autheliaHeader>>)
handleAuthzPortalURLFromHeader(r) == r.autheliaHeader
handleAuthzPortalURLFromQuery(r) == r.autheliaQuery

handleGetAutheliaURL(e, r) ==
    CASE e.implementation = "Legacy" -> handleAuthzPortalURLLegacy(r)
      [] e.implementation = "ExtAuthz" -> handleAuthzPortalURLFromHeader(r)
      [] OTHER -> handleAuthzPortalURLFromQuery(r)

getSafeAutheliaURL(url, domain) == IF HasDomainSuffix(url.host, domain) THEN url ELSE Failed

getAutheliaURL(e, r, cookie) ==
    LET url == handleGetAutheliaURL(e, r)
    IN  CASE url = Malformed -> Failed
          [] url \notin {Malformed, Absent} -> getSafeAutheliaURL(url, cookie.domain)
          [] url = Absent /\ e.implementation = "Legacy" -> Absent
          [] OTHER -> IF cookie.portal = Absent THEN Failed ELSE cookie.portal

\* The portal, with the object to come back to.
getRedirectionURL(object, url) ==
    IF url = Absent THEN Absent ELSE [portal |-> url, rd |-> object.url, rm |-> object.method]

----------------------------------------------------------------------------
(* Strategies.  What one finds: an identity with its level, none at level  *)
(* 0, or an error; and the attempt it records for the regulation.          *)

Nobody == [user |-> Absent, client |-> Absent, level |-> 0, error |-> FALSE,
           challenge |-> "basic", attempt |-> "none"]
Refused == [Nobody EXCEPT !.error = TRUE]
Identified(u, l) == [Nobody EXCEPT !.user = u, !.level = l]
Recorded(authn, attempt) == [authn EXCEPT !.attempt = attempt]

\* Details of the user, found, missing, or not known because of an error.
handleGetUserDetails(c) == c.lookup

\* The checks of a user name and password.  An error of the backend that is no
\* fault of the credentials is not recorded.
handleGetBasic(c, cached) ==
    CASE handleGetUserDetails(c) \in {"missing", "empty"} -> Recorded(Refused, "unknown")
      [] handleGetUserDetails(c) = "error" -> Refused
      [] c.ban = "banned" -> Recorded(Refused, "banned")
      [] c.ban = "error" -> Refused
      [] c.check = "skipped" -> Refused
      [] c.check \in {"error", "invalid"} -> Recorded(Refused, "failure")
      [] cached /\ c.check = "cached" -> Identified(c.user, 1)
      [] OTHER -> Recorded(Identified(c.user, 1), "success")

BearerRefused == [Refused EXCEPT !.challenge = "bearer"]

\* The level is that of the login the token was issued for; a client that
\* authenticated itself has one factor.
Introspection(t) ==
    CASE t.introspect # "valid" \/ ~t.audience -> BearerRefused
      [] t.client # "permitted" \/ ~t.claims -> BearerRefused
      [] t.machine -> [Nobody EXCEPT !.client = t.id, !.level = 1]
      [] OTHER -> Identified(t.user, IF t.mfa THEN 2 ELSE 1)

\* A bearer token that is not one of this provider is none of its business.
Bearer(t) ==
    LET found == Introspection(t)
    IN  IF ~t.relevant THEN Nobody
        ELSE IF found.error \/ t.machine THEN found
        ELSE IF handleGetUserDetails(t) # "found" THEN Refused ELSE found

parseSchemeBasic(raw) ==
    IF raw.text \in {"not base64", "no separator", "no username", "no password"} THEN Malformed ELSE raw

validateSchemeBearerValue(raw) == IF raw.text \in {"empty", "not token68"} THEN Malformed ELSE raw

\* The value of a header: a scheme that is known, a space and its parameter.
Parse(raw) ==
    CASE raw = Absent -> Absent
      [] raw # Absent /\ raw.text = "no space" -> Malformed
      [] OTHER -> CASE raw.scheme = "basic" -> parseSchemeBasic(raw)
                    [] raw.scheme = "bearer" -> validateSchemeBearerValue(raw)
                    [] OTHER -> Malformed

HeaderGet(s, value) ==
    CASE value = Absent -> Nobody
      [] value = Malformed -> Refused
      [] OTHER -> CASE value.scheme \notin s.schemes -> Nobody
                    [] value.scheme = "basic" -> handleGetBasic(value, s.cached)
                    [] value.scheme = "bearer" -> Bearer(value)

\* With auth=basic in the query the Authorization header must be there.
LegacyGet(r) ==
    LET value == Parse(IF r.authBasic THEN r.authorization ELSE r.proxyAuthorization)
    IN  CASE value = Absent -> IF r.authBasic THEN Refused ELSE Nobody
          [] value = Malformed -> Refused
          [] OTHER -> IF value.scheme = "basic" THEN handleGetBasic(value, FALSE) ELSE Refused

\* The session: its document can not be read, it belongs to nobody, it was
\* just ended, or the user's extended details are asked for.
CookieGet(e, c) ==
    CASE c.state = "unreadable" -> Refused
      [] c.state \in {"anonymous", "moved", "ended"} -> Nobody
      [] e.extended /\ handleGetUserDetails(c) # "found" -> Refused
      [] OTHER -> Identified(c.user, c.level)

Get(e, s, r) ==
    CASE s.name = "cookie" -> CookieGet(e, r.cookie)
      [] s.name = "legacy" -> LegacyGet(r)
      [] OTHER -> HeaderGet([schemes |-> s.schemes, cached |-> e.cached],
                      Parse(IF s.header = "authorization" THEN r.authorization ELSE r.proxyAuthorization))

CanHandleUnauthorized(s) == s.name \in {"header", "legacy"}

\* The strategies are tried until one fails or finds an identity.
authn(e, r) ==
    LET found == [i \in DOMAIN e.strategies |-> Get(e, e.strategies[i], r)]
        last == Len(e.strategies)
        stops == {i \in DOMAIN found : found[i].error \/ found[i].level > 0} \cup {last}
        i == CHOOSE i \in stops : \A j \in stops : i <= j
    IN  [found |-> found[i], at |-> i,
         attempts |-> [j \in 1 .. i |-> found[j].attempt],
         strategy |-> IF CanHandleUnauthorized(e.strategies[i]) THEN e.strategies[i] ELSE Absent]

----------------------------------------------------------------------------
(* The answer.  ReplyStatusCode resets what was written before.            *)

ReplyStatusCode(code) == [status |-> code, location |-> Absent, challenge |-> Absent, user |-> Absent]

getAuthzRedirectStatusCode(r, method) ==
    IF r.xhr \/ ~r.html THEN 401
    ELSE IF method \in {"GET", "OPTIONS", "HEAD"} THEN 302 ELSE 303

doAuthzRedirect(written, url, code) == [written EXCEPT !.status = code, !.location = url]

handleAuthzUnauthorizedAuthorizationBasic ==
    [ReplyStatusCode(401) EXCEPT !.challenge = <<"WWW-Authenticate", "basic">>]

handleAuthzUnauthorizedLegacy(written, r, object, url) ==
    IF url = Absent THEN ReplyStatusCode(401)
    ELSE doAuthzRedirect(written, url, getAuthzRedirectStatusCode(r, object.method))

handleUnauthorized(e, written, r, object, url) ==
    CASE e.implementation = "Legacy" -> handleAuthzUnauthorizedLegacy(written, r, object, url)
      [] e.implementation = "AuthRequest" -> doAuthzRedirect(written, url, 401)
      [] OTHER -> doAuthzRedirect(written, url, getAuthzRedirectStatusCode(r, object.method))

HandleUnauthorized(s, found) ==
    IF s.name = "legacy" THEN handleAuthzUnauthorizedAuthorizationBasic
    ELSE [ReplyStatusCode(s.status) EXCEPT !.challenge = <<s.answer, found.challenge>>]

\* The headers name the user; a client has none.
handleAuthorized(found) == [ReplyStatusCode(200) EXCEPT !.user = found.user]

\* The first rule that matches; one about subjects matches whoever is not known.
GetRequiredLevel(found) ==
    LET matches(rule) ==
            \/ rule.subject = Absent
            \/ found.user = Absent /\ found.client = Absent
            \/ rule.subject \in {found.user, found.client}
        hits == SelectSeq(rules, matches)
    IN  IF hits = <<>> THEN [hasSubject |-> FALSE, policy |-> "deny"]
        ELSE [hasSubject |-> hits[1].subject # Absent, policy |-> hits[1].policy]

isAuthzResult(level, required) ==
    CASE required.policy = "bypass" -> "authorized"
      [] required.policy = "deny" /\ (level # 0 \/ ~required.hasSubject) -> "forbidden"
      [] required.policy = "one_factor" /\ level >= 1 -> "authorized"
      [] required.policy = "two_factor" /\ level >= 2 -> "authorized"
      [] OTHER -> "unauthorized"

\* After an error no rule about subjects has been met: the error is answered at
\* once by a strategy that can, else 401 is written and decided on.
Decide(e, r, object, url, tried) ==
    LET required == GetRequiredLevel(tried.found)
        failed == tried.found.error /\ ~required.hasSubject /\ required.policy # "bypass"
        written == IF failed THEN ReplyStatusCode(401) ELSE ReplyStatusCode(200)
        redirect == getRedirectionURL(object, url)
        result == isAuthzResult(tried.found.level, required)
    IN  CASE failed /\ tried.strategy # Absent -> HandleUnauthorized(tried.strategy, tried.found)
          [] OTHER ->
               CASE result = "forbidden" -> ReplyStatusCode(403)
                 [] result = "authorized" -> handleAuthorized(tried.found)
                 [] result = "unauthorized" ->
                      IF tried.strategy # Absent THEN HandleUnauthorized(tried.strategy, tried.found)
                      ELSE handleUnauthorized(e, written, r, object, redirect)

Handler(r) ==
    LET e == endpoint
        object == handleGetObject(e, r)
        cookie == GetSessionManagerByTargetURI(object.url)
        url == getAutheliaURL(e, r, cookie)
        tried == authn(e, r)
        bad == object = Failed \/ ~IsURISecure(object.url) \/ cookie = Failed \/ url = Failed
    IN  /\ request' = r
        /\ response' = IF bad THEN ReplyStatusCode(e.bad) ELSE Decide(e, r, object, url, tried)
        /\ attempts' = IF bad THEN <<>> ELSE tried.attempts
        /\ UNCHANGED <<endpoint, cookies, rules>>

InitRequest ==
    /\ \E e \in Endpoints : endpoint = Build(e) @@ [cached |-> e.cached]
    /\ cookies \in CookieLists
    /\ rules \in RuleLists
    /\ request = Absent
    /\ response = ReplyStatusCode(0)
    /\ attempts = <<>>

NextRequest == request = Absent /\ \E r \in Asked(endpoint, rules) : Handler(r)

----------------------------------------------------------------------------
(* Properties.                                                             *)

Answered == request # Absent

Presented == {request.authorization, request.proxyAuthorization, request.cookie} \ {Absent}

\* A password was checked for a user who is known and not banned, a token is an
\* active one of the provider for this resource, a session is the user's.
Genuine(v) ==
    CASE v.scheme \in {"basic", "bearer"} /\ Parse(v) = Malformed -> FALSE
      [] v.scheme = "digest" -> FALSE
      [] v.scheme = "basic" -> v.lookup = "found" /\ v.ban = "none" /\ v.check \in {"valid", "cached"}
      [] v.scheme = "bearer" -> /\ v.relevant /\ v.introspect = "valid" /\ v.audience
                                /\ v.client = "permitted" /\ v.claims
      [] v.scheme = "cookie" -> v.state = "user"

IsMachine(v) == v.scheme = "bearer" /\ v.machine

LevelOf(v) ==
    CASE v.scheme = "basic" -> 1
      [] v.scheme = "bearer" -> IF v.mfa /\ ~v.machine THEN 2 ELSE 1
      [] v.scheme = "cookie" -> v.level

\* What the rules ask of the one a credential is for.
Required(v) == GetRequiredLevel(IF IsMachine(v) THEN [user |-> Absent, client |-> v.id]
                                ELSE [user |-> v.user, client |-> Absent]).policy

\* A request is let through only to a resource that anyone may reach, or with
\* a genuine credential at the level the rules ask of its owner, who is the user
\* named to the proxy.  In particular no failed strategy leaves the identity of
\* another one, whatever order they are configured in (Handler, authn).
LetThrough ==
    Answered /\ response.status = 200 =>
        \/ GetRequiredLevel(Nobody).policy = "bypass" /\ response.user = Absent
        \/ \E v \in Presented :
              /\ Genuine(v)
              /\ response.user = IF IsMachine(v) THEN Absent ELSE v.user
              /\ Required(v) # "deny"
              /\ LevelOf(v) >= IF Required(v) = "two_factor" THEN 2 ELSE 1

\* Browsers are sent only to a portal below the cookie domain of the resource,
\* or to the one configured for it, and come back to the resource they asked
\* for (getAutheliaURL, getRedirectionURL); a redirect always has a location.
RedirectsSafe ==
    Answered =>
        /\ response.status \in {302, 303} => response.location # Absent
        /\ response.location # Absent =>
              \E i \in DOMAIN cookies :
                 /\ HasDomainSuffix(response.location.rd.host, cookies[i].domain)
                 /\ \A j \in 1 .. i - 1 : ~HasDomainSuffix(response.location.rd.host, cookies[j].domain)
                 /\ \/ HasDomainSuffix(response.location.portal.host, cookies[i].domain)
                    \/ response.location.portal = cookies[i].portal
                 /\ IsURISecure(response.location.rd)

\* Nothing but an answer of success names a user, and every response has
\* exactly one of the forms a proxy can act on.
OneAnswer ==
    Answered =>
        /\ response.user # Absent => response.status = 200
        /\ response.status \in {200, 302, 303, 400, 401, 403, 407}
        /\ response.challenge # Absent => response.status \in {401, 407} /\ response.location = Absent
        /\ response.status = 407 <=> /\ response.challenge # Absent
                                     /\ response.challenge[1] = "Proxy-Authenticate"

\* Every password that is checked and found wrong is recorded for the regulation,
\* once for each strategy that checked it (handleGetBasic).
GuessesRecorded ==
    Answered =>
        \A i \in DOMAIN attempts :
            LET s == endpoint.strategies[i]
                header == Parse(IF s.header = "authorization" \/ (s.header = "either" /\ request.authBasic)
                                THEN request.authorization ELSE request.proxyAuthorization)
                wrong == /\ header.scheme = "basic" /\ "basic" \in s.schemes
                         /\ header.lookup = "found" /\ header.ban = "none" /\ header.check = "invalid"
            IN  s.name # "cookie" /\ header \notin {Absent, Malformed} => (wrong => attempts[i] = "failure")

RequestInv == LetThrough /\ RedirectsSafe /\ OneAnswer /\ GuessesRecorded
=============================================================================
