------------------------------- MODULE Portal ------------------------------
(***************************************************************************)
(* What the web server does with a request (server/handlers.go): the route *)
(* it finds, the cross-origin headers (middlewares/cors.go), the session   *)
(* of the cookie domain the request is for (middlewares/                   *)
(* authelia_context.go), the middleware before the handler, and where the  *)
(* browser is sent after a login for an OpenID Connect client              *)
(* (handlers/response.go).                                                 *)
(*                                                                         *)
(* A request is one step; requests that overlap are in UserSession and     *)
(* SessionElevation.  A host is the sequence of its labels.  Route         *)
(* parameters, assets, TLS and the parsing of requests are left out.       *)
(***************************************************************************)
EXTENDS Naturals, Sequences, SequencesExt, FiniteSets

CONSTANTS NoSession,
          MaxSessions,   \* bound: session identifiers made
          Hosts,         \* hosts of requests, as sequences of labels
          Origins,       \* origins of cross-origin requests: [scheme, name]
          Clients        \* registered clients: level their policy requires

VARIABLES
    config,     \* [features, cookies, origins, endpoints, secondFactor]
    store,      \* sessions by identifier
    last,       \* identifiers made
    consent,    \* consent session of the login: [client, responded, relogin]
    device,     \* its device code session: [client, new]
    response    \* the last response

vars == <<config, store, last, consent, device, response>>

Features == {"health", "admin", "reset", "change", "totp", "webauthn", "passkey",
             "duo", "pprof", "expvars", "oidc"}

----------------------------------------------------------------------------
(* Routes: a path, its handlers by method, and what is wrapped around them. *)

Routes(paths, verbs, guards) ==
    {[path |-> p, verb |-> v, guards |-> guards, cors |-> ""] :
       p \in paths, v \in verbs}

Shared(path, verbs, guards) ==
    {[path |-> path, verb |-> v, guards |-> guards, cors |-> path] : v \in verbs}

Only(feature, routes) == IF feature \in config.features THEN routes ELSE {}

PublicRoutes ==
    Routes({"/", "/manifest.json", "/favicon.ico", "/static/*", "/locales/*", "/api/*.css"},
           {"HEAD", "GET"}, <<>>)
      \cup Routes({"/locales"}, {"GET"}, <<>>)
      \cup Routes({"/api/", "/api/index.html"}, {"HEAD", "GET"}, <<>>)
      \cup Shared("/api/openapi.yml", {"HEAD", "GET"}, <<>>)

Administration ==
    Routes({"/admin/api/v1/session/elevation"}, {"GET"}, <<"1fa", "admin">>)
      \cup Routes({"/admin/api/v1/users/capabilities"}, {"GET"},
                  <<"adminElevated", "admin">>)
      \cup Routes({"/admin/api/v1/users"}, {"GET", "POST"}, <<"adminElevated", "admin">>)
      \cup Routes({"/admin/api/v1/users/{username}"}, {"GET", "PATCH", "DELETE"},
                  <<"adminElevated", "admin">>)
      \cup Routes({"/admin/api/v1/users/{username}/password"}, {"PUT"},
                  <<"adminElevated", "admin">>)

APIRoutes ==
    Routes({"/api/health"}, {"HEAD", "GET"}, <<>>)
      \cup Only("health", Routes({"/api/health/verbose"}, {"HEAD", "GET"}, <<"limit">>))
      \cup Routes({"/api/state", "/api/configuration/password-policy"}, {"GET"}, <<>>)
      \cup Routes({"/api/configuration"}, {"GET"}, <<"1fa">>)
      \cup Only("admin", Administration)
      \cup Routes({"/api/authz/auth-request"}, {"GET", "HEAD"}, <<>>)
      \cup Routes({"/api/checks/safe-redirection", "/api/firstfactor", "/api/logout"},
                  {"POST"}, <<>>)
      \cup Routes({"/api/firstfactor/reauthenticate"}, {"POST"}, <<"1fa">>)
      \cup Only("reset",
             Routes({"/api/reset-password/identity/start",
                     "/api/reset-password/identity/finish"}, {"POST"}, <<"limit">>)
               \cup Routes({"/api/reset-password"}, {"POST", "DELETE"}, <<"limit">>))
      \cup Only("change", Routes({"/api/change-password"}, {"POST"}, <<"elevated">>))
      \cup Routes({"/api/user/info"}, {"GET", "POST"}, <<"1fa">>)
      \cup Routes({"/api/user/info/2fa_method"}, {"POST"}, <<"1fa">>)
      \cup Routes({"/api/user/session/elevation"}, {"GET"}, <<"1fa">>)
      \cup Routes({"/api/user/session/elevation"}, {"POST", "PUT"}, <<"limit", "1fa">>)
      \cup Routes({"/api/user/session/elevation/{id}"}, {"DELETE"}, <<>>)

TOTPRoutes ==
    Routes({"/api/secondfactor/totp"}, {"GET"}, <<"1fa">>)
      \cup Routes({"/api/secondfactor/totp"}, {"POST"}, <<"limit", "1fa">>)
      \cup Routes({"/api/secondfactor/totp"}, {"DELETE"}, <<"elevated">>)
      \cup Routes({"/api/secondfactor/totp/register"}, {"GET", "PUT", "POST", "DELETE"},
                  <<"elevated">>)

WebAuthnRoutes ==
    Routes({"/api/secondfactor/webauthn"}, {"GET", "POST"}, <<"1fa">>)
      \cup Only("passkey",
             Routes({"/api/firstfactor/passkey"}, {"GET", "POST"}, <<>>)
               \cup Routes({"/api/secondfactor/password"}, {"POST"}, <<"limit", "1fa">>))
      \cup Routes({"/api/secondfactor/webauthn/credentials"}, {"GET"}, <<"1fa">>)
      \cup Routes({"/api/secondfactor/webauthn/credential/register"},
                  {"PUT", "POST", "DELETE"}, <<"elevated">>)
      \cup Routes({"/api/secondfactor/webauthn/credential/{credentialID}"},
                  {"PUT", "DELETE"}, <<"elevated">>)

DuoRoutes ==
    Routes({"/api/secondfactor/duo"}, {"GET"}, <<"1fa">>)
      \cup Routes({"/api/secondfactor/duo_devices"}, {"GET"}, <<"1fa">>)
      \cup Routes({"/api/secondfactor/duo"}, {"POST"}, <<"limit", "1fa">>)
      \cup Routes({"/api/secondfactor/duo_device"}, {"POST"}, <<"1fa">>)

RegisterOpenIDConnectRoutes ==
    Routes({"/api/oidc/consent"}, {"GET", "POST"}, <<>>)
      \cup Shared("/.well-known/oauth-authorization-server", {"GET"}, <<>>)
      \cup Shared("/.well-known/openid-configuration", {"GET"}, <<>>)
      \cup Shared("/jwks.json", {"GET"}, <<>>)
      \cup Shared("authorization", {"GET", "POST"}, <<>>)
      \cup Shared("device-authorization", {"POST"}, <<>>)
      \cup Routes({"device-authorization"}, {"PUT"}, <<>>)
      \cup Shared("pushed-authorization-request", {"POST"}, <<"limit">>)
      \cup Shared("token", {"POST"}, <<"limit">>)
      \cup Shared("userinfo", {"GET", "POST"}, <<"limit">>)
      \cup Shared("introspection", {"POST"}, <<"limit">>)
      \cup Shared("revocation", {"POST"}, <<"limit">>)

\* Every route of the server but those that answer to OPTIONS.
handlerMain ==
    PublicRoutes \cup APIRoutes
      \cup Only("totp", TOTPRoutes)
      \cup Only("webauthn", WebAuthnRoutes)
      \cup Only("duo", DuoRoutes)
      \cup Only("pprof", Routes({"/debug/pprof/"}, {"GET"}, <<>>))
      \cup Only("expvars", Routes({"/debug/vars"}, {"GET"}, <<>>))
      \cup Only("oidc", RegisterOpenIDConnectRoutes)

----------------------------------------------------------------------------
(* Cross-origin requests.                                                  *)

PublicGET == {"/api/", "/api/index.html", "/api/openapi.yml",
              "/.well-known/oauth-authorization-server",
              "/.well-known/openid-configuration", "/jwks.json"}

OIDCPolicies == {"authorization", "device-authorization", "pushed-authorization-request",
                 "token", "userinfo", "introspection", "revocation"}

\* The paths with a policy; the ones of OpenID Connect only where it is
\* configured.
Policies ==
    {"/api/", "/api/index.html", "/api/openapi.yml"}
      \cup Only("oidc", PublicGET \cup OIDCPolicies)

\* Enabled, the methods advertised, the origins allowed (a sequence), and
\* whether credentials are.
Policy(path) ==
    IF path \in PublicGET
    THEN [enabled |-> TRUE, methods |-> {"OPTIONS", "GET"}, origins |-> <<"*">>,
          credentials |-> FALSE]
    ELSE [enabled |-> path \in config.endpoints,
          methods |-> {"OPTIONS", "POST"}
                        \cup (IF path \in {"authorization", "userinfo"} THEN {"GET"} ELSE {}),
          origins |-> config.origins,
          credentials |-> path \in {"token", "userinfo", "introspection", "revocation"}]

NoHeaders == [origin |-> "", credentials |-> FALSE, methods |-> {}]

AllowedOrigin(p, origin) ==
    CASE p.origins = <<>> -> origin.name
      [] p.origins # <<>> /\ "*" \in ToSet(p.origins) -> "*"
      [] p.origins # <<>> /\ "*" \notin ToSet(p.origins) /\ origin.name \in ToSet(p.origins) ->
           origin.name
      [] OTHER -> ""

\* A single origin that does not match still gets the other headers.
handleCORS(p, origin) ==
    LET allowed == AllowedOrigin(p, origin)
    IN  IF \/ origin.scheme # "https" /\ p.origins = <<>>
           \/ allowed = "" /\ Len(p.origins) > 1
        THEN NoHeaders
        ELSE [origin |-> allowed, credentials |-> p.credentials, methods |-> p.methods]

handle(p, origin) ==
    IF p.enabled /\ origin.name # "" THEN handleCORS(p, origin) ELSE NoHeaders

\* The answer to a preflight request.  Three endpoints only tell the methods.
HandleOPTIONS(path, origin) ==
    LET p == Policy(path)
        told == [NoHeaders EXCEPT !.methods = IF origin.name = "" THEN {} ELSE p.methods]
    IN  IF \/ path \in {"authorization", "device-authorization",
                        "pushed-authorization-request"}
           \/ handle(p, origin) = NoHeaders
        THEN told
        ELSE handle(p, origin)

----------------------------------------------------------------------------
(* Sessions of cookie domains.                                             *)

HasDomainSuffix(host, domain) ==
    Len(domain) <= Len(host)
      /\ SubSeq(host, Len(host) - Len(domain) + 1, Len(host)) = domain

\* The first configured domain the host belongs to, or none.
GetCookieDomainFromTargetURI(host) ==
    LET matching == SelectSeq(config.cookies, LAMBDA c : HasDomainSuffix(host, c.domain))
    IN  IF matching = <<>> THEN <<>> ELSE matching[1].domain

IsSafeRedirectionTargetURI(target) ==
    /\ target.scheme \in {"https", "wss"}
    /\ GetCookieDomainFromTargetURI(target.host) # <<>>

\* The cookie the portal's own URL belongs to: the only one if it has no URL of
\* its own, or the one with this URL.
GetCookieConfigFromAutheliaURL(host) ==
    IF Len(config.cookies) = 1 /\ config.cookies[1].url = <<>>
    THEN config.cookies
    ELSE SelectSeq(config.cookies, LAMBDA c : c.url # <<>> /\ c.url = host)

IssuerKnown(req) ==
    LET cookies == GetCookieConfigFromAutheliaURL(req.host)
    IN  /\ req.proto = "https"
        /\ cookies # <<>>
        /\ cookies[1].url # <<>> \/ HasDomainSuffix(req.host, cookies[1].domain)

NewDefaultUserSession(domain) ==
    [domain |-> domain, level |-> 0, elevated |-> FALSE, admin |-> FALSE]

\* The session of the request, and the sessions that are left: one of another
\* cookie domain is destroyed.  The new one that is saved in its place is the
\* default one, as if there were none.
GetSession(req) ==
    LET domain == GetCookieDomainFromTargetURI(req.host)
        known == req.id \in 1 .. last /\ store[req.id] # NoSession
    IN  CASE known /\ store[req.id].domain = domain ->
               [session |-> store[req.id], store |-> store]
          [] known /\ store[req.id].domain # domain ->
               [session |-> NewDefaultUserSession(domain),
                store |-> [store EXCEPT ![req.id] = NoSession]]
          [] OTHER -> [session |-> NewDefaultUserSession(domain), store |-> store]

----------------------------------------------------------------------------
(* Where a login continues.                                                *)

Known(client) == client \in DOMAIN Clients

IsAuthLevelSufficient(level, required) == required <= level

Denied == 3

\* The client's policy is met by the login, or nothing can meet it and the
\* authorization endpoint has to say so.
MovesOn(s, client) ==
    IsAuthLevelSufficient(s.level, Clients[client]) \/ Clients[client] = Denied

NoSubflow(req, s, flow) ==
    CASE \/ flow.id # "known" \/ consent.responded \/ ~Known(consent.client)
         \/ s.level = 0 \/ ~IssuerKnown(req) -> "error"
      [] flow.id = "known" /\ consent.relogin /\ IssuerKnown(req)
           /\ ~consent.responded /\ Known(consent.client) -> "decision"
      [] OTHER -> IF MovesOn(s, consent.client) THEN "authorization" ELSE "ok"

NoUserCode(s) ==
    IF s.level = 2 \/ (s.level = 1 /\ ~config.secondFactor) THEN "device" ELSE "ok"

DeviceAuthSubflow(req, s, flow) ==
    CASE s.level = 0 \/ ~IssuerKnown(req) -> "error"
      [] s.level # 0 /\ IssuerKnown(req) /\ flow.code = "" -> NoUserCode(s)
      [] flow.code # "" /\ (flow.code # "known" \/ ~device.new \/ ~Known(device.client)) ->
           "error"
      [] OTHER -> IF MovesOn(s, device.client) THEN "decision" ELSE "ok"

\* The flow a login is part of, as the browser names it.
Flow(name, subflow, id, code) ==
    [flow |-> name, subflow |-> subflow, id |-> id, code |-> code]

Flows ==
    {Flow("other", "", "", ""), Flow("openid_connect", "other", "", "")}
      \cup {Flow("openid_connect", "", id, "") : id \in {"known", "unknown"}}
      \cup {Flow("openid_connect", "device", "", code) : code \in {"", "known", "unknown"}}

handleFlowResponse(req, s, flow) ==
    CASE flow.flow = "openid_connect" /\ flow.subflow = "" -> NoSubflow(req, s, flow)
      [] flow.flow = "openid_connect" /\ flow.subflow = "device" ->
           DeviceAuthSubflow(req, s, flow)
      [] OTHER -> "error"

----------------------------------------------------------------------------
(* Requests.                                                               *)

\* What each middleware asks of the session; the limits are in RequestLimits.
Admits(guard, s) ==
    CASE guard = "1fa" -> s.level >= 1
      [] guard = "elevated" -> s.level >= 1 /\ s.elevated
      [] guard = "adminElevated" -> s.level >= 1 /\ (s.elevated \/ s.level = 2)
      [] guard = "admin" -> s.admin
      [] OTHER -> TRUE

NoResponse == [status |-> 0, host |-> <<>>, path |-> "", verb |-> "", session |-> NewDefaultUserSession(<<>>),
               headers |-> NoHeaders, redirect |-> ""]

\* A request for a route of the server: the headers of its policy, then its
\* middleware, which reads the session, then its handler.
Serve(req, route) ==
    LET reads == \E g \in ToSet(route.guards) : g # "limit"
        s == GetSession(req).session
        headers == IF route.cors = "" THEN NoHeaders
                   ELSE handle(Policy(route.cors), req.origin)
        admitted == \A g \in ToSet(route.guards) : Admits(g, s)
        answer == [NoResponse EXCEPT !.host = req.host, !.path = route.path,
                                     !.verb = route.verb, !.headers = headers]
    IN  /\ store' = IF reads /\ GetCookieDomainFromTargetURI(req.host) # <<>>
                    THEN GetSession(req).store ELSE store
        /\ \/ /\ ~reads \/ (admitted /\ GetCookieDomainFromTargetURI(req.host) # <<>>)
              /\ response' = [answer EXCEPT !.status = 200,
                                !.session = IF reads THEN s ELSE answer.session]
           \/ /\ reads /\ (~admitted \/ GetCookieDomainFromTargetURI(req.host) = <<>>)
              /\ response' = [answer EXCEPT !.status = 403]
           \/ /\ "limit" \in ToSet(route.guards)
              /\ response' = [answer EXCEPT !.status = 429]
        /\ UNCHANGED <<config, last, consent, device>>

\* The two public handlers that tell what the session is: the state of the
\* login, and whether the portal may send the browser to a URL afterwards.
StateGET(req) ==
    LET s == GetSession(req).session
    IN  /\ s.domain # <<>>
        /\ store' = GetSession(req).store
        /\ response' = [NoResponse EXCEPT !.status = 200, !.host = req.host,
                          !.path = "/api/state", !.verb = "GET", !.session = s]
        /\ UNCHANGED <<config, last, consent, device>>

CheckSafeRedirectionPOST(req, target) ==
    LET s == GetSession(req).session
    IN  /\ s.domain # <<>> /\ s.level >= 1
        /\ response' = [NoResponse EXCEPT !.status = 200, !.host = req.host,
                          !.path = "/api/checks/safe-redirection", !.verb = "POST",
                          !.session = s,
                          !.redirect = IF IsSafeRedirectionTargetURI(target) THEN "safe"
                                       ELSE "unsafe"]
        /\ UNCHANGED <<config, store, last, consent, device>>

Preflight(path, origin) ==
    /\ response' = [NoResponse EXCEPT !.status = 200, !.path = path, !.verb = "OPTIONS",
                                      !.headers = HandleOPTIONS(path, origin)]
    /\ UNCHANGED <<config, store, last, consent, device>>

\* A path without a route is a page of the portal, but in some directories; a
\* path with routes has no others.
Pages == {"/consent/openid", "/debug/pprof/", "/debug/vars", "/jwks.json"}

handleNotFound(path) ==
    /\ \A r \in handlerMain : r.path # path
    /\ response' = [NoResponse EXCEPT !.status = IF path \in Pages THEN 200 ELSE 404,
                                      !.path = path]
    /\ UNCHANGED <<config, store, last, consent, device>>

handleMethodNotAllowed(path, verb) ==
    /\ \E r \in handlerMain : r.path = path
    /\ \A r \in handlerMain : r.path = path => r.verb # verb
    /\ response' = [NoResponse EXCEPT !.status = 405, !.path = path, !.verb = verb]
    /\ UNCHANGED <<config, store, last, consent, device>>

\* A login gets a new identifier; the one it came with is gone.
LogIn(req, path, s, flow) ==
    /\ last < MaxSessions
    /\ GetCookieDomainFromTargetURI(req.host) # <<>>
    /\ last' = last + 1
    /\ store' = [i \in DOMAIN store |-> CASE i = last + 1 -> s
                                          [] i = req.id /\ i <= last -> NoSession
                                          [] OTHER -> GetSession(req).store[i]]
    /\ response' = [NoResponse EXCEPT !.status = 200, !.host = req.host, !.path = path,
                      !.verb = "POST", !.session = s,
                      !.redirect = handleFlowResponse(req, s, flow)]
    /\ UNCHANGED <<config, consent, device>>

\* A passkey may count for two factors.
FirstFactor(req, flow) ==
    \E level \in 1..2, admin \in BOOLEAN :
        LogIn(req, "/api/firstfactor",
              [NewDefaultUserSession(GetSession(req).session.domain)
                 EXCEPT !.level = level, !.admin = admin], flow)

SecondFactor(req, flow) ==
    /\ Admits("1fa", GetSession(req).session)
    /\ LogIn(req, "/api/secondfactor/totp", [GetSession(req).session EXCEPT !.level = 2], flow)

\* What other requests do meanwhile: a session is elevated; the consent or the
\* device is answered in another tab.
Elevate ==
    /\ \E i \in 1 .. last :
         /\ store[i] # NoSession
         /\ store' = [store EXCEPT ![i].elevated = TRUE]
    /\ UNCHANGED <<config, last, consent, device, response>>

AnswerElsewhere ==
    /\ \/ consent' = [consent EXCEPT !.responded = TRUE] /\ UNCHANGED device
       \/ device' = [device EXCEPT !.new = FALSE] /\ UNCHANGED consent
    /\ UNCHANGED <<config, store, last, response>>

Init ==
    /\ store = [i \in 1 .. MaxSessions |-> NoSession]
    /\ last = 0
    /\ consent \in [client : DOMAIN Clients \cup {"unregistered"}, responded : {FALSE},
                    relogin : BOOLEAN]
    /\ device \in [client : DOMAIN Clients \cup {"unregistered"}, new : {TRUE}]
    /\ response = NoResponse

NoOrigin == [scheme |-> "", name |-> ""]

\* A cookie may come with a request for any host.
HTTPRequests(protos, ids, origins) == [host : Hosts, proto : protos, id : ids, origin : origins]

\* The response is sent, and the next request may come.
Sent == response # NoResponse /\ response' = NoResponse
          /\ UNCHANGED <<config, store, last, consent, device>>

ServeRoutes ==
    /\ response = NoResponse
    /\ \E req \in HTTPRequests({"https"}, 0 .. last, {NoOrigin}), route \in handlerMain :
         Serve(req, route)

TellState ==
    /\ response = NoResponse
    /\ \E req \in HTTPRequests({"https"}, 0 .. last, {NoOrigin}) :
         \/ StateGET(req)
         \/ \E host \in Hosts, scheme \in {"http", "https"} :
              CheckSafeRedirectionPOST(req, [host |-> host, scheme |-> scheme])

ServeOrigins ==
    /\ response = NoResponse
    /\ \/ \E path \in Policies, origin \in Origins \cup {NoOrigin} : Preflight(path, origin)
       \/ \E req \in HTTPRequests({"https"}, {0}, Origins),
             route \in {r \in handlerMain : r.cors # ""} : Serve(req, route)

ServeUnrouted ==
    /\ response = NoResponse
    /\ \/ \E path \in Pages \cup {"/api/unknown", "/api/secondfactor/totp", "token"} :
            handleNotFound(path)
       \/ \E path \in {"/", "/api/firstfactor", "/api/user/info", "token"},
             verb \in {"GET", "POST", "PUT"} : handleMethodNotAllowed(path, verb)

Logins(flows) ==
    /\ response = NoResponse
    /\ \E req \in HTTPRequests({"http", "https"}, 0 .. last, {NoOrigin}), flow \in flows :
         FirstFactor(req, flow) \/ SecondFactor(req, flow)

----------------------------------------------------------------------------
TypeOK ==
    /\ config.features \subseteq Features
    /\ last \in 0 .. MaxSessions
    /\ \A i \in 1 .. MaxSessions : store[i] # NoSession => i <= last
    /\ response.redirect \in {"", "error", "ok", "authorization", "decision", "device",
                              "safe", "unsafe"}

\* Handlers that change credentials, and handlers that work for the user of the
\* session without asking whether there is one.
ChangesCredentials(path, verb) ==
    \/ path \in {"/api/change-password", "/api/secondfactor/totp/register",
                 "/api/secondfactor/webauthn/credential/register",
                 "/api/secondfactor/webauthn/credential/{credentialID}"}
    \/ path = "/api/secondfactor/totp" /\ verb = "DELETE"

NeedsUser(path) ==
    path \in {"/api/user/info", "/api/user/info/2fa_method", "/api/user/session/elevation",
              "/api/secondfactor/totp", "/api/secondfactor/webauthn",
              "/api/secondfactor/webauthn/credentials", "/api/secondfactor/password",
              "/api/secondfactor/duo", "/api/secondfactor/duo_devices",
              "/api/secondfactor/duo_device", "/api/firstfactor/reauthenticate"}

\* Whatever is enabled, a handler that changes credentials is reached by an
\* elevated session, the administration by an administrator's and a handler
\* that needs a user by a user's; and a user's session counts only on hosts of
\* its cookie domain.
HandlersProtected ==
    response.status = 200 =>
        /\ response.session.level >= 1 =>
             response.session.domain = GetCookieDomainFromTargetURI(response.host)
        /\ ChangesCredentials(response.path, response.verb) =>
             response.session.level >= 1 /\ response.session.elevated
        /\ NeedsUser(response.path) => response.session.level >= 1
        /\ response.path \in {r.path : r \in Administration} =>
             response.session.level >= 1 /\ response.session.admin

\* A preflight request is told of methods that are routed, and an origin is
\* allowed only if it is configured, or if none is and it is an https one.
OriginsHonoured ==
    LET headers == response.headers
    IN  /\ headers.origin # "" =>
             IF config.origins # <<>> /\ response.path \notin PublicGET
             THEN headers.origin \in ToSet(config.origins)
             ELSE headers.origin \in {"*"} \cup {o.name : o \in {p \in Origins : p.scheme = "https"}}
        /\ headers.methods \ {"OPTIONS"} \subseteq
             {r.verb : r \in {x \in handlerMain : x.path = response.path}}

\* The browser is sent on to a client only with a login its policy accepts, or
\* to be told that it accepts none; and once two factors are presented no login
\* is left waiting for another.
FlowsQualified ==
    /\ response.redirect = "authorization" => MovesOn(response.session, consent.client)
    /\ response.redirect = "ok" => response.session.level < 2

PortalSound == TypeOK /\ HandlersProtected /\ OriginsHonoured /\ FlowsQualified
=============================================================================
