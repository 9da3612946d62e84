--------------------------- MODULE OAuth2Consent ---------------------------
(***************************************************************************)
(* Consent sessions of the OpenID Connect provider.                        *)
(*                                                                         *)
(* An authorization request (GET of the authorization endpoint) is bound   *)
(* to a row of oauth2_consent_session.  The row is inserted when the       *)
(* request first arrives, answered once (by the user on the consent page,  *)
(* by the client's implicit policy or by an earlier pre-configured         *)
(* consent) and granted once, when the authorization response is written.  *)
(* Every handler is a sequence of single SQL statements with no            *)
(* transaction around them, so requests of one or of several browsers      *)
(* interleave between any two of them; each action below is one            *)
(* statement with the checks the handler makes up to the next one.         *)
(*                                                                         *)
(* Requests made with a pushed request_uri are left out here.              *)
(***************************************************************************)
EXTENDS Integers, Sequences, FiniteSets

CONSTANTS Users,        \* end users; a user stands for their pairwise subject
          Anonymous,    \* the user of a session nobody signed in to
          NoSubject,    \* uuid.Nil, or a NULL subject column
          Requests,     \* requests being served at the same time
          Forms,        \* request forms: client, scopes, prompt, maxage, code
          Mode,         \* client -> "explicit", "implicit", "pre-configured"
          Offline,      \* the scopes offline and offline_access
          Lifespan,     \* how long a consent session can be granted
          Duration,     \* how long a pre-configured consent lasts
          MaxNow, MaxConsents, MaxPreConfigs

NoMaxAge == -1

ConsentAssumption ==
    /\ Anonymous \notin Users /\ NoSubject \notin Users
    /\ {Lifespan, Duration, MaxNow, MaxConsents, MaxPreConfigs} \subseteq Nat
    /\ \A f \in Forms : /\ Mode[f.client] \in {"explicit", "implicit", "pre-configured"}
                        /\ f.prompt \in {"", "none", "login", "consent"}
                        /\ f.maxage \in Nat \cup {NoMaxAge}
                        /\ f.code \in BOOLEAN

VARIABLES now,        \* the clock
          authAt,     \* user -> time of the last authentication, 0 for never
          consents,   \* oauth2_consent_session, in insertion order
          preconfigs, \* oauth2_consent_preconfiguration, in insertion order
          req,        \* request -> where its handler is and what it has read
          issued      \* history: consent -> authorization responses written
vars == <<now, authAt, consents, preconfigs, req, issued>>

----------------------------------------------------------------------------
NewOAuth2ConsentSession(f, subject) ==
    [form |-> f, subject |-> subject, requested |-> now, expires |-> now + Lifespan,
     responded |-> FALSE, authorized |-> FALSE, granted |-> FALSE, scopes |-> {},
     via |-> "nobody", by |-> NoSubject]

Idle == [pc |-> "idle"]

Init ==
    /\ now = 1
    /\ authAt = [u \in Users |-> 0]
    /\ consents = <<>>
    /\ preconfigs = <<>>
    /\ req = [r \in Requests |-> Idle]
    /\ issued = [i \in 1..MaxConsents |-> <<>>]

Tick ==
    /\ now < MaxNow
    /\ now' = now + 1
    /\ UNCHANGED <<authAt, consents, preconfigs, req, issued>>

\* A user signs in, or re-authenticates on the consent page.
Authenticate(u) ==
    /\ authAt[u] # now
    /\ authAt' = [authAt EXCEPT ![u] = now]
    /\ UNCHANGED <<now, consents, preconfigs, req, issued>>

----------------------------------------------------------------------------
\* What the request form asks for.
RequestFormRequiresLogin(f, requested, authenticated) ==
    \/ f.prompt = "login" /\ authenticated < requested
    \/ /\ f.maxage # NoMaxAge
       /\ f.maxage = 0 \/ authenticated = 0 \/ authenticated + f.maxage < requested

RequiresExplicitConsent(f) ==
    \/ f.prompt \in {"consent", "login"}
    \/ f.code /\ f.scopes \cap Offline # {}

Handler(f) == IF RequiresExplicitConsent(f) THEN "explicit" ELSE Mode[f.client]

CanGrant(row) == ~row.granted /\ now < row.expires

IsAuthorized(row) == row.responded /\ row.authorized

\* ConsentGrant: every requested scope when the user consented explicitly,
\* none that yields a refresh token when the policy consents for them.
ConsentGrant_All(f, explicit) == f.scopes
ConsentGrant(f, explicit) == IF explicit THEN f.scopes ELSE f.scopes \ Offline

\* The pre-configured consents that cover the request.
PreConfigs(u, f) ==
    {p \in DOMAIN preconfigs : /\ preconfigs[p].client = f.client
                               /\ preconfigs[p].subject = u
                               /\ preconfigs[p].expires > now
                               /\ preconfigs[p].scopes = f.scopes}

----------------------------------------------------------------------------
\* Statements shared by the handlers.
End(r) == req' = [req EXCEPT ![r] = Idle]

Goto(r, pc) == req' = [req EXCEPT ![r] = [req[r] EXCEPT !.pc = pc]]

SaveOAuth2ConsentSession(f, subject) ==
    /\ Len(consents) < MaxConsents
    /\ consents' = Append(consents, NewOAuth2ConsentSession(f, subject))

SaveOAuth2ConsentSessionResponse_Always(r, row, authorized, next) ==
    /\ consents' = [consents EXCEPT ![req[r].id] =
                [@ EXCEPT !.responded = TRUE, !.authorized = authorized,
                          !.subject = row.subject, !.scopes = row.scopes,
                          !.via = row.via, !.by = row.by]]
    /\ req' = [req EXCEPT ![r] = next]

\* UPDATE ... SET responded_at, authorized, ... WHERE id = ? AND responded_at IS NULL,
\* which must change one row for the handler to go on.
SaveOAuth2ConsentSessionResponse(r, row, authorized, next) ==
    IF ~consents[req[r].id].responded
    THEN /\ consents' = [consents EXCEPT ![req[r].id] =
                [@ EXCEPT !.responded = TRUE, !.authorized = authorized,
                          !.subject = row.subject, !.scopes = row.scopes,
                          !.via = row.via, !.by = row.by]]
         /\ req' = [req EXCEPT ![r] = next]
    ELSE End(r) /\ UNCHANGED consents

----------------------------------------------------------------------------
\* Without a session the request is recorded for whoever signs in.
NotAuthenticated(f) == SaveOAuth2ConsentSession(f, NoSubject)

\* GET of the authorization endpoint, up to its first statement: the consent
\* handler is chosen by the session and by the client.
AuthorizationGET(r) ==
    /\ req[r].pc = "idle"
    /\ \E u \in Users \cup {Anonymous}, sufficient \in BOOLEAN, f \in Forms,
          i \in 0..Len(consents) :
       LET start(pc) == req' = [req EXCEPT ![r] =
                [pc |-> pc, user |-> u, form |-> f, id |-> i, auth |-> authAt[u],
                 row |-> NewOAuth2ConsentSession(f, NoSubject)]]
       IN \/ /\ u = Anonymous /\ f.prompt # "none"
             /\ NotAuthenticated(f)
             /\ UNCHANGED req
          \/ /\ u # Anonymous /\ ~sufficient /\ i = 0
             /\ SaveOAuth2ConsentSession(f, NoSubject)
             /\ UNCHANGED req
          \/ /\ u # Anonymous /\ sufficient /\ i # 0
             /\ start("load")
             /\ UNCHANGED consents
          \/ /\ u # Anonymous /\ sufficient /\ i = 0
             /\ \/ /\ Handler(f) = "explicit"
                   /\ SaveOAuth2ConsentSession(f, NoSubject)
                   /\ UNCHANGED req
                \/ /\ Handler(f) = "implicit"
                   /\ start("insert")
                   /\ UNCHANGED consents
                \/ /\ Handler(f) = "pre-configured"
                   /\ start("lookup")
                   /\ UNCHANGED consents
    /\ UNCHANGED <<now, authAt, preconfigs, issued>>

\* With a consent_id: the row is read, and everything up to the next statement
\* is decided on that copy.
MayProceed(r, row) ==
    /\ row.subject \in {req[r].user, NoSubject}
    /\ ~RequestFormRequiresLogin(req[r].form, row.requested, req[r].auth)
    /\ CanGrant(row)
    /\ row.form = req[r].form

\* What the handler does next: "end" for a redirect to the consent page, a
\* login prompt or an error.
ModeExplicitWithID(u, row) ==
    IF row.subject = u /\ IsAuthorized(row) THEN "code" ELSE "end"

ModeImplicitWithID(row) ==
    IF ~row.responded THEN "implicit" ELSE IF IsAuthorized(row) THEN "code" ELSE "end"

LoadConsent(r) ==
    /\ req[r].pc = "load"
    /\ LET row == consents[req[r].id]
           mode == Handler(req[r].form)
           next == IF mode = "explicit" THEN ModeExplicitWithID(req[r].user, row)
                   ELSE IF mode = "implicit" THEN ModeImplicitWithID(row)
                   ELSE "lookup"
       IN IF MayProceed(r, row) /\ next # "end"
          THEN req' = [req EXCEPT ![r] = [req[r] EXCEPT !.pc = next, !.row = row]]
          ELSE End(r)
    /\ UNCHANGED <<now, authAt, consents, preconfigs, issued>>

\* Without a consent_id the implicit and pre-configured handlers insert a row
\* in the user's name and read it back.
InsertConsent(r) ==
    /\ req[r].pc \in {"insert", "insert-preconf"}
    /\ LET row == NewOAuth2ConsentSession(req[r].form, req[r].user)
       IN /\ SaveOAuth2ConsentSession(req[r].form, req[r].user)
          /\ IF RequestFormRequiresLogin(req[r].form, row.requested, req[r].auth)
             THEN End(r)
             ELSE req' = [req EXCEPT ![r] = [req[r] EXCEPT
                     !.pc = IF @ = "insert" THEN "implicit" ELSE "preconf",
                     !.id = Len(consents) + 1, !.row = row]]
    /\ UNCHANGED <<now, authAt, preconfigs, issued>>

\* The pre-configured handler looks for a consent that covers the request.
ModePreConfiguredWithID(r) ==
    /\ req[r].pc = "lookup" /\ req[r].id # 0
    /\ IF PreConfigs(req[r].user, req[r].form) # {} /\ ~req[r].row.responded
       THEN Goto(r, "preconf")
       ELSE IF IsAuthorized(req[r].row) /\ req[r].form.prompt # "none"
       THEN Goto(r, "code")
       ELSE End(r)
    /\ UNCHANGED <<now, authAt, consents, preconfigs, issued>>

ModePreConfiguredWithoutID(r) ==
    /\ req[r].pc = "lookup" /\ req[r].id = 0
    /\ IF PreConfigs(req[r].user, req[r].form) # {}
       THEN Goto(r, "insert-preconf")
       ELSE IF req[r].form.prompt = "none" THEN End(r) ELSE Goto(r, "generate")
    /\ UNCHANGED <<now, authAt, consents, preconfigs, issued>>

Generate(r) ==
    /\ req[r].pc = "generate"
    /\ SaveOAuth2ConsentSession(req[r].form, NoSubject)
    /\ End(r)
    /\ UNCHANGED <<now, authAt, preconfigs, issued>>

\* The policy or the pre-configured consent answers for the user.  The
\* authorized column stays FALSE: the handler goes on with its own copy.
GrantForUser(r) ==
    /\ req[r].pc \in {"implicit", "preconf"}
    /\ LET row == [req[r].row EXCEPT
                     !.subject = req[r].user,
                     !.scopes = ConsentGrant(req[r].form, req[r].pc = "preconf"),
                     !.via = req[r].pc]
       IN SaveOAuth2ConsentSessionResponse(r, row, FALSE,
                                           [req[r] EXCEPT !.pc = "code", !.row = row])
    /\ UNCHANGED <<now, authAt, preconfigs, issued>>

\* The library generates and stores the authorization code.
NewAuthorizeResponse(r) ==
    /\ req[r].pc = "code"
    /\ Goto(r, "granted")
    /\ UNCHANGED <<now, authAt, consents, preconfigs, issued>>

\* UPDATE ... SET granted = TRUE WHERE id = ? AND responded_at IS NOT NULL AND
\* granted = FALSE; the response is written only when it changed the row.
MayGrant(row) == row.responded /\ ~row.granted

SaveOAuth2ConsentSessionGranted(r) ==
    /\ req[r].pc = "granted"
    /\ LET i == req[r].id
       IN IF MayGrant(consents[i])
          THEN /\ consents' = [consents EXCEPT ![i].granted = TRUE]
               /\ issued' = [issued EXCEPT ![i] = Append(@,
                     [subject |-> req[r].user, scopes |-> req[r].row.scopes,
                      login |-> req[r].auth])]
          ELSE UNCHANGED <<consents, issued>>
    /\ End(r)
    /\ UNCHANGED <<now, authAt, preconfigs>>

----------------------------------------------------------------------------
\* POST of the consent page.  A row without a subject takes the session's.
MayRespond(row, u) ==
    /\ ~row.responded
    /\ CanGrant(row)
    /\ ~RequestFormRequiresLogin(row.form, row.requested, authAt[u])

PostSubject(row, u) == IF row.subject = NoSubject THEN u ELSE row.subject

ConsentPOST(r) ==
    /\ req[r].pc = "idle"
    /\ \E u \in Users, i \in DOMAIN consents, consent \in BOOLEAN, pre \in BOOLEAN :
         LET row == consents[i]
             remember == /\ consent /\ pre
                         /\ ~RequiresExplicitConsent(row.form)
                         /\ Mode[row.form.client] = "pre-configured"
         IN /\ MayRespond(row, u)
            /\ pre => consent
            /\ req' = [req EXCEPT ![r] =
                 [pc |-> IF remember THEN "remember" ELSE "respond",
                  user |-> u, id |-> i, form |-> row.form, consent |-> consent,
                  row |-> [row EXCEPT
                     !.subject = PostSubject(row, u),
                     !.scopes = IF consent THEN ConsentGrant(row.form, TRUE) ELSE {},
                     !.via = "user", !.by = u]]]
    /\ UNCHANGED <<now, authAt, consents, preconfigs, issued>>

\* The pre-configuration is inserted before the answer is; a failed insert is
\* reported and the answer is saved all the same.
SavePreConfiguredConsent(r) ==
    /\ req[r].pc = "remember"
    /\ \/ /\ Len(preconfigs) < MaxPreConfigs
          /\ preconfigs' = Append(preconfigs,
                [client |-> req[r].form.client, subject |-> req[r].row.subject,
                 scopes |-> req[r].row.scopes, expires |-> now + Duration,
                 by |-> req[r].user])
       \/ UNCHANGED preconfigs
    /\ Goto(r, "respond")
    /\ UNCHANGED <<now, authAt, consents, issued>>

SaveAnswer(r) ==
    /\ req[r].pc = "respond"
    /\ SaveOAuth2ConsentSessionResponse(r, req[r].row, req[r].consent, Idle)
    /\ UNCHANGED <<now, authAt, preconfigs, issued>>

\* Any statement may fail, and the process may stop: the handler ends there.
Fail(r) ==
    /\ req[r].pc # "idle"
    /\ End(r)
    /\ UNCHANGED <<now, authAt, consents, preconfigs, issued>>

Next ==
    \/ Tick
    \/ \E u \in Users : Authenticate(u)
    \/ \E r \in Requests :
          \/ AuthorizationGET(r) \/ LoadConsent(r) \/ InsertConsent(r)
          \/ ModePreConfiguredWithID(r) \/ ModePreConfiguredWithoutID(r)
          \/ Generate(r) \/ GrantForUser(r)
          \/ NewAuthorizeResponse(r) \/ SaveOAuth2ConsentSessionGranted(r)
          \/ ConsentPOST(r) \/ SavePreConfiguredConsent(r) \/ SaveAnswer(r)
          \/ Fail(r)

Spec == Init /\ [][Next]_vars

----------------------------------------------------------------------------
Scopes == UNION {f.scopes : f \in Forms}

Row == [form : Forms, subject : Users \cup {NoSubject}, requested : Nat,
        expires : Nat, responded : BOOLEAN, authorized : BOOLEAN,
        granted : BOOLEAN, scopes : SUBSET Scopes,
        via : {"nobody", "user", "implicit", "preconf"},
        by : Users \cup {NoSubject}]

\* Every table row and every request record is well formed, and the authorized
\* and granted columns are set on answered rows only.
TypeOKConsent ==
    /\ now \in 1..MaxNow
    /\ authAt \in [Users -> 0..MaxNow]
    /\ \A i \in DOMAIN consents :
          /\ consents[i] \in Row
          /\ consents[i].authorized \/ consents[i].granted => consents[i].responded
          /\ consents[i].responded => consents[i].subject # NoSubject
    /\ \A p \in DOMAIN preconfigs : preconfigs[p].subject \in Users

\* A consent session yields at most one authorization response, however many
\* requests carry its consent_id at the same time (the conditional update of
\* SaveOAuth2ConsentSessionGranted decides).
OneResponse == \A i \in DOMAIN issued : Len(issued[i]) <= 1

\* An authorization response goes to the subject the consent session names and
\* carries the scopes the session records as granted, although the handler
\* answers from the copy it read (or made) before its last two statements.
ResponseMatchesSession ==
    \A i \in DOMAIN consents : \A n \in DOMAIN issued[i] :
        /\ issued[i][n].subject = consents[i].subject
        /\ issued[i][n].scopes = consents[i].scopes

\* Once the user has refused, no request gets a response from the session,
\* not even one that was already being served by the implicit or the
\* pre-configured handler.
RefusalStands ==
    \A i \in DOMAIN consents :
        consents[i].via = "user" /\ ~consents[i].authorized => issued[i] = <<>>

\* A response rests on the consent its request demands: the subject's own yes
\* where explicit consent is required; a pre-configuration the subject once
\* saved for the same client and the same scopes where one answered; and no
\* scope that yields a refresh token where the policy answered.
GrantsRestOnConsent ==
    \A i \in DOMAIN consents : LET row == consents[i] IN
        issued[i] # <<>> =>
            /\ Handler(row.form) = "explicit" =>
                  row.via = "user" /\ row.authorized /\ row.by = row.subject
            /\ row.via = "preconf" =>
                  \E p \in DOMAIN preconfigs :
                     /\ preconfigs[p].client = row.form.client
                     /\ preconfigs[p].scopes = row.scopes
                     /\ preconfigs[p].subject = row.subject
                     /\ preconfigs[p].by = row.subject
            /\ row.via = "implicit" => row.scopes \cap Offline = {}

\* A request made with prompt=login is answered only to a session that has
\* authenticated since the request was first made.
FreshLogin ==
    \A i \in DOMAIN consents : \A n \in DOMAIN issued[i] :
        consents[i].form.prompt = "login" => issued[i][n].login >= consents[i].requested

\* The first answer to a consent session is final: no later statement changes
\* who answered, what they answered or what was granted.
AnswerIsFinal ==
    [][\A i \in DOMAIN consents :
          consents[i].responded =>
              consents'[i] \in {consents[i], [consents[i] EXCEPT !.granted = TRUE]}]_vars
============================================================================
