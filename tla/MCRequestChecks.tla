-------------------------- MODULE MCRequestChecks ---------------------------
(***************************************************************************)
(* What a request with a password or a session cookie goes through, for    *)
(* TLC: the rate limits of an endpoint, the regulation of password         *)
(* attempts and the delay of their answers, the validation of sessions by  *)
(* the authorization handlers, the cache of basic credentials, and the     *)
(* routes of the portal.  They share no state; which one runs is chosen at *)
(* the start.                                                              *)
(***************************************************************************)
EXTENDS CredentialCache, Sequences, TLC

CONSTANTS Users, IPs, NoUser, NoIP, NoRefresh, Absent, Malformed, Failed,
          NoLimiter, NoReservation

VARIABLES part, log, bans, req, profile, ended, doc, used,
          endpoint, cookies, rules, request, response, attempts,
          limit, table, clock, at, served, exempted, promise,
          average, cursor, successDelay, answers,
          config, store, last, consent, device, sent

\* Bounds: failures are counted without faults, with bans revoked, or with
\* bans added but one row less; bans are justified with faults, of both subjects, and of users
\* with revocations.
Guesses == INSTANCE Regulation WITH
    Modes <- {"user"}, MaxRetries <- 2, FindTime <- 1, BanTime <- 1, Durations <- {1},
    Commands <- {"revokeid"}, Faults <- FALSE, Prompt <- FALSE,
    MaxNow <- 2, MaxLog <- 4, MaxBans <- 1
Commanded == INSTANCE Regulation WITH
    Modes <- {"user"}, MaxRetries <- 2, FindTime <- 1, BanTime <- 1, Durations <- {1},
    Commands <- {"add"}, Faults <- FALSE, Prompt <- FALSE,
    MaxNow <- 2, MaxLog <- 3, MaxBans <- 1
Bans == INSTANCE Regulation WITH
    Modes <- {"ip", "user"}, MaxRetries <- 2, FindTime <- 2, BanTime <- 1, Durations <- {1},
    Commands <- {}, Faults <- TRUE, Prompt <- TRUE,
    MaxNow <- 3, MaxLog <- 3, MaxBans <- 1
Revoked == INSTANCE Regulation WITH
    Modes <- {"user"}, MaxRetries <- 2, FindTime <- 2, BanTime <- 1, Durations <- {1},
    Commands <- {"revoke"}, Faults <- TRUE, Prompt <- TRUE,
    MaxNow <- 3, MaxLog <- 4, MaxBans <- 1

\* Bounds: a refresh interval of one unit, and a refresh on every request.
Interval == INSTANCE AuthzSession WITH
    Refresh <- 1, Inactivity <- 1, Extended <- FALSE, MaxTime <- 3, MaxVersion <- 2
Always == INSTANCE AuthzSession WITH
    Refresh <- 0, Inactivity <- 1, Extended <- TRUE, MaxTime <- 3, MaxVersion <- 2

\* Bounds of the authorization requests: lists of strategies in several orders,
\* a redirect endpoint with every source of the URL, and in every header each
\* answer of the backend, the regulator and the introspection.
S(name, schemes) == [name |-> name, schemes |-> schemes]
Cks == S("CookieSession", {})
StrategyLists == {<<>>, <<Cks>>,
   <<S("HeaderAuthorization", {"basic", "bearer", "digest"}), Cks>>,
   <<Cks, S("HeaderAuthorization", {"bearer"})>>,
   <<S("HeaderProxyAuthorization", {"basic"}), S("HeaderAuthorization", {"basic", "bearer"})>>,
   <<S("HeaderAuthRequestProxyAuthorization", {"basic", "bearer"}), S("HeaderLegacy", {}), Cks>>}
MCEndpoints ==
    [implementation : {"Legacy", "AuthRequest"}, strategies : StrategyLists, headers : {{}}, cached : {FALSE}]
    \cup [implementation : {"ForwardAuth", "ExtAuthz"}, strategies : {<<>>, <<Cks>>}, headers : {{}}, cached : {FALSE}]
    \cup [implementation : {"ForwardAuth"}, strategies : StrategyLists, headers : {{"locale"}}, cached : {TRUE}]
App == <<"app", "example">>
Url(sch, h) == [scheme |-> sch, host |-> h, path |-> "/"]
Auth == Url("https", <<"auth", "example">>)
MCCookieLists == {<<[domain |-> <<"example">>, portal |-> Auth]>>,
  <<[domain |-> <<"auth", "example">>, portal |-> Absent], [domain |-> <<"example">>, portal |-> Absent],
    [domain |-> <<"other">>, portal |-> Url("https", <<"auth", "other">>)]>>}
R(sub, pol) == [subject |-> sub, policy |-> pol]
MCRuleLists == {<<>>, <<R(Absent, "bypass")>>, <<R(Absent, "one_factor")>>, <<R("alice", "deny"), R(Absent, "one_factor")>>,
   <<R("alice", "two_factor"), R("client", "one_factor")>>, <<R("client", "bypass"), R("alice", "one_factor"), R(Absent, "bypass")>>}
Session(st, u, l, lk) == [scheme |-> "cookie", state |-> st, user |-> u, level |-> l, lookup |-> lk]
NoSession == Session("anonymous", "", 0, "found")
Basic(u, lk, ban, chk) == [scheme |-> "basic", text |-> "well formed", user |-> u, lookup |-> lk, ban |-> ban, check |-> chk]
Token(rel, intro, aud, cl, claims, mach, mfa, lk) == [scheme |-> "bearer", text |-> "well formed", relevant |-> rel, introspect |-> intro,
   audience |-> aud, client |-> cl, claims |-> claims, machine |-> mach, mfa |-> mfa, user |-> "alice", id |-> "client", lookup |-> lk]
Base == [method |-> "GET", host |-> App, uri |-> "/", tls |-> FALSE, proto |-> "https", forwardedHost |-> App, forwardedURI |-> "/",
   forwardedMethod |-> "GET", originalMethod |-> "GET", originalURL |-> Url("https", App), authzPath |-> "/",
   rd |-> Absent, autheliaHeader |-> Absent, autheliaQuery |-> Absent, xhr |-> FALSE, html |-> TRUE,
   authBasic |-> FALSE, authorization |-> Absent, proxyAuthorization |-> Absent, cookie |-> NoSession]
Sessions == {NoSession, Session("unreadable", "", 0, "found"), Session("moved", "", 0, "found"), Session("ended", "", 0, "found"),
   Session("user", "alice", 1, "found"), Session("user", "alice", 2, "found"), Session("user", "bob", 2, "missing")}
Right == Basic("alice", "found", "none", "valid")
Headers == {Absent, [Right EXCEPT !.text = "no space"], [Right EXCEPT !.text = "not base64"], [Right EXCEPT !.scheme = "digest"],
   [Token(TRUE, "valid", TRUE, "permitted", TRUE, FALSE, TRUE, "found") EXCEPT !.text = "not token68"],
   Basic("alice", "found", "none", "valid"), Basic("alice", "found", "none", "cached"),
   Basic("bob", "found", "none", "invalid"), Basic("bob", "found", "none", "error"), Basic("alice", "found", "none", "skipped"),
   Basic("alice", "found", "banned", "valid"), Basic("alice", "found", "error", "valid"), Basic("carol", "missing", "none", "invalid"),
   Basic("alice", "error", "none", "valid"),
   Token(FALSE, "valid", TRUE, "permitted", TRUE, FALSE, FALSE, "found"),
   Token(TRUE, "inactive", TRUE, "permitted", TRUE, FALSE, FALSE, "found"),
   Token(TRUE, "valid", FALSE, "permitted", TRUE, FALSE, FALSE, "found"),
   Token(TRUE, "valid", TRUE, "unregistered", TRUE, FALSE, FALSE, "found"),
   Token(TRUE, "valid", TRUE, "permitted", FALSE, FALSE, FALSE, "found"),
   Token(TRUE, "valid", TRUE, "permitted", TRUE, TRUE, TRUE, "found"),
   Token(TRUE, "valid", TRUE, "permitted", TRUE, FALSE, TRUE, "found"),
   Token(TRUE, "valid", TRUE, "permitted", TRUE, FALSE, FALSE, "missing")}
Presenting ==
   {[Base EXCEPT !.cookie = c, !.authorization = h] : c \in Sessions, h \in Headers}
   \cup {[Base EXCEPT !.authorization = h, !.authBasic = TRUE] : h \in Headers}
   \cup {[Base EXCEPT !.proxyAuthorization = h, !.authorization = g] : h \in Headers, g \in Headers}
   \cup {[Base EXCEPT !.proxyAuthorization = h, !.cookie = c] : h \in Headers, c \in Sessions}
Redirecting ==
   {[Base EXCEPT !.rd = u, !.autheliaHeader = v, !.autheliaQuery = u, !.xhr = xr, !.html = ht, !.forwardedMethod = m] :
          u \in {Absent, Malformed, Auth, Url("https", <<"auth", "other">>)}, v \in {Absent, Malformed, Auth},
          xr \in BOOLEAN, ht \in BOOLEAN, m \in {"GET", "POST"}}
   \cup {[Base EXCEPT !.proto = p, !.tls = t, !.forwardedHost = h, !.host = g, !.forwardedURI = u, !.originalURL = o,
                      !.forwardedMethod = m, !.originalMethod = m] :
          p \in {Absent, "https", "http"}, t \in BOOLEAN, h \in {Absent, Malformed, App, <<"www", "other">>, <<"elsewhere">>}, g \in {Absent, App},
          u \in {Absent, "/"}, o \in {Absent, Malformed, Url("wss", App), Url("https", <<"x", "auth", "example">>)}, m \in {Absent, "invalid", "POST"}}
MCAsked(e, l) ==
    IF Len(e.strategies) = 1 THEN Presenting \cup Redirecting ELSE Presenting
Endpoint == INSTANCE AuthzRequest WITH
    Endpoints <- MCEndpoints, CookieLists <- MCCookieLists, RuleLists <- MCRuleLists, Asked <- MCAsked

\* Bounds of the rate limits: the longer bucket last, or first, with a burst of
\* two, exempt answers, or no limiter; two requests at once of one address in
\* four units of time.  Of the delay: a mean of two.
Bucket(p, n) == [Period |-> p, Requests |-> n]
Limited(e, bs, x, h) == [enable |-> e, buckets |-> bs, exempt |-> x, handler |-> h]
MCLimits == {Limited(TRUE, <<Bucket(1, 1), Bucket(3, 2)>>, TRUE, "oidc"),
   Limited(TRUE, <<Bucket(2, 2)>>, FALSE, "api"), Limited(TRUE, <<Bucket(3, 2), Bucket(1, 1)>>, FALSE, "api"),
   Limited(FALSE, <<Bucket(1, 1)>>, TRUE, "oidc")}
Limiter == INSTANCE RequestLimits WITH
    Clients <- Requests, Addresses <- IPs, Limits <- MCLimits, Second <- 2, MaxClock <- 4, MaxDebt <- 0, MaxExempted <- 1,
    History <- 2, MinDelay <- 1, Jitters <- {0, 1}, Durations <- {1, 3}, MaxAttempts <- 4

\* Bounds of the portal: two cookie domains and a host of none.  Routes are
\* asked for with most features, without some and with one, and one session;
\* cross-origin requests with lists of none, one, two and all origins; logins
\* of two sessions, by clients of every policy.
Portal == INSTANCE Portal WITH
    NoSession <- Absent, MaxSessions <- 2, response <- sent,
    Hosts <- {<<"auth", "a">>, <<"auth", "b">>, <<"c">>},
    Origins <- {[scheme |-> "https", name |-> "https://app"],
                [scheme |-> "https", name |-> "https://other"],
                [scheme |-> "http", name |-> "http://app"]},
    Clients <- [c \in {"one", "two", "denied"} |->
                  CASE c = "one" -> 1 [] c = "two" -> 2 [] OTHER -> 3]
At(d, url) == [domain |-> d, url |-> url]
TwoDomains == <<At(<<"a">>, <<"auth", "a">>), At(<<"b">>, <<>>)>>
Configured(f, c, o, e, s) ==
    [features |-> f, cookies |-> c, origins |-> o, endpoints |-> e, secondFactor |-> s]
Simple == consent.client = "one" /\ device.client = "one" /\ ~consent.relogin
InitPortal ==
    /\ Portal!Init
    /\ \/ /\ part = "routes" /\ Simple
          /\ config \in {Configured(f, TwoDomains, <<>>, {}, TRUE) :
               f \in {Portal!Features, {"duo"}, Portal!Features \ {"totp", "passkey", "admin"}}}
       \/ /\ part = "origins" /\ Simple
          /\ config \in {Configured({"oidc"}, TwoDomains, o, e, TRUE) :
               o \in {<<>>, <<"*">>, <<"https://app">>, <<"https://app", "https://x">>},
               e \in {{}, {"token", "userinfo", "authorization"}}}
       \/ /\ part = "flows" /\ device.client = consent.client
          /\ config \in {Configured({}, <<At(<<"a">>, url)>>, <<>>, {}, s) :
               s \in BOOLEAN, url \in {<<>>, <<"auth", "a">>}}
NextPortal ==
    \/ /\ part = "routes"
       /\ \/ Portal!ServeRoutes \/ Portal!TellState \/ Portal!Elevate
          \/ last = 0 /\ Portal!ServeUnrouted
          \/ last = 0 /\ Portal!Logins({Portal!Flow("other", "", "", "")})
    \/ part = "origins" /\ Portal!ServeOrigins
    \/ part = "flows" /\ (Portal!Logins(Portal!Flows) \/ Portal!AnswerElsewhere)
    \/ Portal!Sent

ASSUME RegulationAssumptions ==
    /\ Guesses!NamesAssumption
    /\ Guesses!RegulationAssumption /\ Commanded!RegulationAssumption
    /\ Bans!RegulationAssumption /\ Revoked!RegulationAssumption
ASSUME SessionAssumptions ==
    Interval!AuthzSessionAssumption /\ Always!AuthzSessionAssumption

cache == <<password, retired, entry, flight, waiting>>
regulation == <<log, bans>>
authz == <<profile, ended, doc, used>>
asked == <<endpoint, cookies, rules, request, response, attempts>>
limits == <<limit, table, clock, at, served, exempted, promise>>
delays == <<average, cursor, successDelay, answers>>
portal == <<config, store, last, consent, device, sent>>

Parts == {"cache", "guesses", "commands", "bans", "revoked", "interval", "always", "endpoint", "limits", "delay",
          "routes", "origins", "flows"}

\* The variables of the parts that do not run.
NoAuthz == profile = 0 /\ ended = 0 /\ doc = 0 /\ used = 0
NoRegulation == log = 0 /\ bans = 0
NoEndpoint ==
    endpoint = 0 /\ cookies = 0 /\ rules = 0 /\ request = 0 /\ response = 0 /\ attempts = 0
NoLimits == limit = 0 /\ table = 0 /\ clock = 0 /\ at = 0 /\ served = 0 /\ exempted = 0 /\ promise = 0
NoPortal == config = 0 /\ store = 0 /\ last = 0 /\ consent = 0 /\ device = 0 /\ sent = 0
NoDelay == average = 0 /\ cursor = 0 /\ successDelay = 0 /\ answers = 0

MCInit ==
    /\ part \in Parts
    /\ Init
    /\ part # "cache" => password = CHOOSE p \in Passwords : TRUE
    /\ part # "endpoint" => NoEndpoint
    /\ IF part = "limits" THEN Limiter!InitLimits ELSE NoLimits
    /\ IF part = "delay" THEN Limiter!InitDelay ELSE NoDelay
    /\ IF part \in {"routes", "origins", "flows"} THEN InitPortal ELSE NoPortal
    /\ CASE part = "guesses" -> Guesses!Init /\ NoAuthz
         [] part = "commands" -> Commanded!Init /\ NoAuthz
         [] part = "bans" -> Bans!Init /\ NoAuthz
         [] part = "revoked" -> Revoked!Init /\ NoAuthz
         [] part = "interval" -> Interval!Init /\ NoRegulation
         [] part = "always" -> Always!Init /\ NoRegulation
         [] part \in {"cache", "limits", "delay", "routes", "origins", "flows"} -> NoRegulation /\ NoAuthz /\ req = 0
         [] part = "endpoint" -> NoRegulation /\ NoAuthz /\ req = 0 /\ Endpoint!InitRequest

MCNext ==
    /\ \/ part = "cache" /\ Next
          /\ UNCHANGED <<regulation, req, authz, asked, limits, delays, portal>>
       \/ part = "guesses" /\ Guesses!Next /\ UNCHANGED <<cache, authz, asked, limits, delays, portal>>
       \/ part = "commands" /\ Commanded!Next /\ UNCHANGED <<cache, authz, asked, limits, delays, portal>>
       \/ part = "bans" /\ Bans!Next /\ UNCHANGED <<cache, authz, asked, limits, delays, portal>>
       \/ part = "revoked" /\ Revoked!Next /\ UNCHANGED <<cache, authz, asked, limits, delays, portal>>
       \/ part = "interval" /\ Interval!Next /\ UNCHANGED <<cache, regulation, asked, limits, delays, portal>>
       \/ part = "always" /\ Always!Next /\ UNCHANGED <<cache, regulation, asked, limits, delays, portal>>
       \/ part = "endpoint" /\ Endpoint!NextRequest /\ UNCHANGED <<now, cache, regulation, req, authz, limits, delays, portal>>
       \/ part = "limits" /\ Limiter!NextLimits /\ UNCHANGED <<now, cache, regulation, req, authz, asked, delays, portal>>
       \/ part = "delay" /\ Limiter!NextDelay /\ UNCHANGED <<now, cache, regulation, req, authz, asked, limits, portal>>
       \/ /\ part \in {"routes", "origins", "flows"} /\ NextPortal
          /\ UNCHANGED <<now, cache, regulation, req, authz, asked, limits, delays>>
    /\ UNCHANGED part

MCSpec == MCInit /\ [][MCNext]_<<now, cache, regulation, req, authz, asked, limits, delays, portal, part>>

Symmetry == Permutations(Requests)

\* Regulation.  Whatever the number of attempts made at once, a subject has at
\* most MaxRetries - 1 failures, and one more for every attempt in flight,
\* within the find time since its last success and the end of its last ban
\* (GuessesBounded: the checks before CheckUserPassword in
\* FirstFactorPasswordPOST, and HandleAttempt).  Every automatic ban ends
\* BanTime after a failure that completes MaxRetries of them (BansEarned:
\* Regulator.expires), all after the end of the ban before (FreshStart:
\* LoadRegulationRecordsByUser, LoadRegulationRecordsByIP).
RegulationSound ==
    /\ part = "guesses" => Guesses!TypeOKRegulation /\ Guesses!GuessesBounded
    /\ part = "commands" => Commanded!TypeOKRegulation /\ Commanded!GuessesBounded
    /\ part = "bans" => Bans!TypeOKRegulation /\ Bans!BansEarned /\ Bans!FreshStart
    /\ part = "revoked" => Revoked!TypeOKRegulation /\ Revoked!BansEarned /\ Revoked!FreshStart

\* Rate limits and delays.  Whatever requests overlap and buckets are collected, an
\* address is served no more than the burst and the refill of every bucket
\* (LimitHolds: newRateLimiterHandler, IPRateLimitBucket), and one that was refused
\* and comes back alone when told is let through (PromiseKept: Retry-After).  No
\* refusal is answered before the mean of the last successful checks
\* (AnswersHeldBack: TimingAttackDelay.CachedDelay).
LimitsSound ==
    /\ part = "limits" => Limiter!TypeOKLimits /\ Limiter!LimitHolds /\ Limiter!PromiseKept
    /\ part = "delay" => Limiter!AnswersHeldBack

\* Session validation.  The profile a request is decided on was the user's no
\* longer ago than the refresh interval and the time the backend takes,
\* whatever older documents overlapping requests wrote back (ProfileCurrent:
\* handleSessionValidateRefresh), and a session that is not remembered is let
\* through only within the inactivity since it last was (InactivityEnds:
\* handleAuthnCookieValidateInactivity).  The answer to an authorization request:
\* only a genuine credential of the request, at the level the rules ask of its
\* owner, lets it through to what is not open to anyone, whatever the other
\* strategies made of theirs (LetThrough: Handler, authn); browsers are sent only
\* to the portal of the resource's cookie domain (RedirectsSafe: getAutheliaURL);
\* no refusal names a user (OneAnswer), and no wrong password goes unrecorded
\* (GuessesRecorded: handleGetBasic).  The portal's own handlers are reached
\* through the middleware they need and with sessions of their cookie domain,
\* whatever is enabled, other origins read only what the policy gives them, and
\* a login moves on to a client only if it meets its policy (PortalSound).
AuthzSessionSound ==
    /\ part = "interval" => Interval!TypeOK /\ Interval!ProfileCurrent /\ Interval!InactivityEnds
    /\ part = "always" => Always!TypeOK /\ Always!ProfileCurrent /\ Always!InactivityEnds
    /\ part = "endpoint" => Endpoint!RequestInv
    /\ part \in {"routes", "origins", "flows"} => Portal!PortalSound
=============================================================================
