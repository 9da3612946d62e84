---------------------------- MODULE UserSession ----------------------------
(***************************************************************************)
(* Sessions and the portal handlers that log a user in, raise the session  *)
(* with a second factor and log out: handlers/handler_firstfactor_*,       *)
(* handler_sign_*, handler_logout and the cookie strategy of the           *)
(* authorization endpoints, over session/session.go and the session store. *)
(*                                                                         *)
(* A session is one JSON document, read whole when a handler starts and    *)
(* written back whole when it ends, under the identifier the request's     *)
(* cookie holds at that time.  Requests interleave between any two calls   *)
(* that touch the store or a table.  A handler that refuses before it      *)
(* wrote anything leaves the state as it was and is not an action.         *)
(***************************************************************************)
EXTENDS Naturals, FiniteSets

CONSTANTS Requests,      \* requests being served at the same time
          Users, NoUser, NoSession,
          Steps, NoStep, \* TOTP time steps a code can be valid for
          Elevations, NoElevation,    \* session.Elevation
          Pendings, NoPending,        \* session.TOTP, a pending registration
          Registrations, \* WebAuthn registrations, by the credential's name
          Handlers,      \* bound: the handlers of this instance
          MaxIds,        \* bound: session identifiers generated
          DisableReuseSecurityPolicy  \* configuration of TOTP

ASSUME UsersAssumption == NoUser \notin Users
ASSUME StepsAssumption == NoStep \notin Steps
ASSUME MaxIdsAssumption == MaxIds \in Nat
ASSUME HandlersAssumption ==
    "none" \notin Handlers /\ \A h \in Handlers : h \in STRING

VARIABLES
    store,        \* the session provider: document of each identifier
    last,         \* identifiers generated so far
    issued,       \* identifiers some response gave to a client
    told,         \* history: user and factors the session had at that time
    totpHistory,  \* table totp_history: <<username, step>>
    pc, op,       \* next call of each request, and its handler
    sid,          \* identifier in the request's cookie
    sess,         \* the handler's copy of the session
    step          \* step of the TOTP code presented

request == <<pc, op, sid, sess, step>>
vars == <<store, last, issued, told, totpHistory, request>>

NoId == 0

Ids == 1 .. MaxIds

Factors == {"pwd", "totp", "webauthn", "duo"}

\* The authentication method references are kept with the user whose
\* credential was verified.
Sessions == [user : Users \cup {NoUser}, amr : SUBSET (Users \X Factors),
             webauthn : {"none", "assertion", "passkey"} \cup Registrations,
             totp : Pendings \cup {NoPending},
             elevation : Elevations \cup {NoElevation}]

ASSUME NoSessionAssumption == NoSession \notin Sessions

NewDefaultUserSession ==
    [user |-> NoUser, amr |-> {}, webauthn |-> "none", totp |-> NoPending,
     elevation |-> NoElevation]

PCs == {"idle", "load", "history", "record", "destroy", "reset",
        "regenerate", "save", "code", "revoke", "admin", "enroll",
        "configure", "credential", "rename", "delete"}

FactorKnowledge(s) == \E p \in s.amr : p[2] = "pwd"

FactorPossession(s) == \E p \in s.amr : p[2] # "pwd"

\* The level with EnablePasskey2FA off.
AuthenticationLevel(s) ==
    CASE s.user = NoUser -> 0
      [] s.user # NoUser /\ FactorKnowledge(s) /\ FactorPossession(s) -> 2
      [] s.user # NoUser /\ (FactorKnowledge(s) # FactorPossession(s)) -> 1
      [] OTHER -> 0

IsAnonymous(s) == AuthenticationLevel(s) = 0

GetSession(id) ==
    IF id = NoId \/ store[id] = NoSession THEN NewDefaultUserSession
    ELSE store[id]

Identity(s) == <<s.user, s.amr>>

\* The first n identifiers are sessions stored before, held by clients.
InitFrom(n, stored) ==
    /\ store = [i \in Ids |-> IF i <= n THEN stored[i] ELSE NoSession]
    /\ last = n
    /\ issued = 1 .. n
    /\ told = [i \in Ids |-> Identity(IF i <= n THEN stored[i]
                                      ELSE NewDefaultUserSession)]
    /\ totpHistory = {}
    /\ pc = [r \in Requests |-> "idle"]
    /\ op = [r \in Requests |-> "none"]
    /\ sid = [r \in Requests |-> NoId]
    /\ sess = [r \in Requests |-> NewDefaultUserSession]
    /\ step = [r \in Requests |-> NoStep]

Init == InitFrom(0, <<>>)

----------------------------------------------------------------------------
(* Steps shared by the handlers.                                           *)

Goto(r, to, id, s) ==
    /\ pc' = [pc EXCEPT ![r] = to]
    /\ sid' = [sid EXCEPT ![r] = id]
    /\ sess' = [sess EXCEPT ![r] = s]

\* The response carries the cookie of identifier id; stored is the store the
\* handler leaves.
Respond(r, id, stored) ==
    /\ Goto(r, "idle", NoId, NewDefaultUserSession)
    /\ op' = [op EXCEPT ![r] = "none"]
    /\ step' = [step EXCEPT ![r] = NoStep]
    /\ store' = stored
    /\ issued' = issued \cup ({id} \ {NoId})
    /\ told' = IF id \in issued \cup {NoId} THEN told
               ELSE [told EXCEPT ![id] =
                       Identity(IF stored[id] = NoSession
                                THEN NewDefaultUserSession ELSE stored[id])]

Begin(r, h, id, to, s) ==
    /\ h \in Handlers
    /\ pc[r] = "idle"
    /\ id \in issued \cup {NoId}
    /\ Goto(r, to, id, s)
    /\ op' = [op EXCEPT ![r] = h]

\* A handler reads the session and goes on with its own copy of it.
Load(r, h, to, s) ==
    /\ pc[r] = "load"
    /\ op[r] = h
    /\ Goto(r, to, sid[r], s)

stable == <<store, last, issued, told, totpHistory>>

Behind1FA ==
    {"totp", "webauthnGET", "webauthnPOST", "duo", "password", "reauthenticate"}

FactorOf(h) ==
    CASE h = "totp" -> {"totp"}
      [] h \in {"webauthnPOST", "passkeyPOST"} -> {"webauthn"}
      [] h = "duo" -> {"duo"}
      [] h = "password" -> {"pwd"}
      [] OTHER -> {}

\* What the handler makes of its copy of the session once the identifier has
\* been regenerated: user u proved the handler's factor.
Raised(h, s, u) ==
    [s EXCEPT !.user = u, !.amr = s.amr \cup ({u} \X FactorOf(h)),
              !.webauthn = IF FactorOf(h) = {"webauthn"} THEN "none"
                           ELSE s.webauthn]

\* With a new identifier the handler saves the session, or goes on with a
\* one-time code (module SessionElevation).
Afterwards(h) ==
    IF h \in {"elevationPOST", "elevationPUT"} THEN "code" ELSE "save"

\* Handlers that save the session, the ceremony removed, on every return.
Deferred == {"webauthnPOST", "passkeyPOST"}

\* Two requests of a user can be a step apart in the store; the new
\* identifier is known to nobody else, so moving the document to it is one
\* step.  Nothing is moved when the identifier has no document any more.
Regenerated(id, new) ==
    IF id = NoId \/ store[id] = NoSession THEN store
    ELSE [store EXCEPT ![id] = NoSession, ![new] = store[id]]

RegenerateSession_InPlace(r) ==
    /\ pc[r] = "regenerate"
    /\ \E u \in (IF op[r] = "passkeyPOST" THEN Users ELSE {sess[r].user}) :
         Goto(r, "save", sid[r], Raised(op[r], sess[r], u))
    /\ UNCHANGED <<stable, op, step>>

RegenerateSession(r) ==
    /\ pc[r] = "regenerate"
    /\ last < MaxIds
    /\ last' = last + 1
    /\ store' = Regenerated(sid[r], last + 1)
    /\ \E u \in (IF op[r] = "passkeyPOST" THEN Users ELSE {sess[r].user}) :
         Goto(r, Afterwards(op[r]), last + 1, Raised(op[r], sess[r], u))
    /\ UNCHANGED <<issued, told, totpHistory, op, step>>

\* The passkey handler's remember-me expiration cannot be saved: the deferred
\* save writes the session that was read.
UpdateExpirationFails(r) ==
    /\ pc[r] = "regenerate"
    /\ op[r] = "passkeyPOST"
    /\ last < MaxIds
    /\ last' = last + 1
    /\ store' = Regenerated(sid[r], last + 1)
    /\ Goto(r, "save", last + 1, sess[r])
    /\ UNCHANGED <<issued, told, totpHistory, op, step>>

RegenerateFails(r) ==
    /\ pc[r] = "regenerate"
    /\ \/ /\ op[r] \in Deferred
          /\ Goto(r, "save", sid[r], sess[r])
          /\ UNCHANGED <<store, issued, told, op, step>>
       \/ /\ op[r] \notin Deferred
          /\ Respond(r, sid[r], store)
    /\ UNCHANGED <<last, totpHistory>>

\* Without a cookie the provider generates the identifier it saves under.
SaveSession(r) ==
    /\ pc[r] = "save"
    /\ \/ /\ sid[r] # NoId
          /\ Respond(r, sid[r], [store EXCEPT ![sid[r]] = sess[r]])
          /\ UNCHANGED last
       \/ /\ sid[r] = NoId
          /\ last < MaxIds
          /\ last' = last + 1
          /\ Respond(r, last + 1, [store EXCEPT ![last + 1] = sess[r]])
    /\ UNCHANGED <<totpHistory>>

\* The save itself, or a call before it, returns an error.
SaveFails(r) ==
    /\ pc[r] = "save"
    /\ Respond(r, sid[r], store)
    /\ UNCHANGED <<last, totpHistory>>

DestroySession(r) ==
    /\ pc[r] = "destroy"
    /\ LET destroyed == IF sid[r] = NoId THEN store
                        ELSE [store EXCEPT ![sid[r]] = NoSession]
       IN  \/ /\ op[r] = "firstfactor"
              /\ Goto(r, "reset", NoId, sess[r])
              /\ store' = destroyed
              /\ UNCHANGED <<issued, told, op, step>>
           \/ /\ op[r] = "authz"
              /\ Goto(r, "save", NoId, NewDefaultUserSession)
              /\ store' = destroyed
              /\ UNCHANGED <<issued, told, op, step>>
           \/ /\ op[r] = "logout"
              /\ Respond(r, NoId, destroyed)
    /\ UNCHANGED <<last, totpHistory>>

\* The provider could not destroy the session: the login and the cookie
\* strategy go on under the old identifier.
DestroyFails(r) ==
    /\ pc[r] = "destroy"
    /\ sid[r] # NoId
    /\ \/ /\ op[r] = "firstfactor"
          /\ Goto(r, "reset", sid[r], sess[r])
          /\ UNCHANGED <<store, issued, told, op, step>>
       \/ /\ op[r] = "authz"
          /\ Goto(r, "save", sid[r], NewDefaultUserSession)
          /\ UNCHANGED <<store, issued, told, op, step>>
       \/ /\ op[r] = "logout"
          /\ Respond(r, sid[r], store)
    /\ UNCHANGED <<last, totpHistory>>

----------------------------------------------------------------------------
(* First factor.                                                           *)

FirstFactorPasswordPOST_Merged(r) ==
    /\ \E id \in issued \cup {NoId}, u \in Users :
         Begin(r, "firstfactor", id, "destroy",
               [GetSession(id) EXCEPT !.user = u, !.amr = @ \cup {<<u, "pwd">>}])
    /\ UNCHANGED <<stable, step>>

\* The details, the ban check and the password were in order: user u.
FirstFactorPasswordPOST(r) ==
    /\ \E id \in issued \cup {NoId}, u \in Users :
         Begin(r, "firstfactor", id, "destroy",
               [NewDefaultUserSession EXCEPT
                  !.user = u, !.amr = {<<u, "pwd">>}])
    /\ UNCHANGED <<stable, step>>

\* A default session is saved, then moved to a new identifier.  When the old
\* session is gone both identifiers are new to everyone and this is one step;
\* when destroying it failed the default is saved over it first.
ResetSession(r) ==
    /\ pc[r] = "reset"
    /\ \/ /\ sid[r] = NoId
          /\ last < MaxIds
          /\ last' = last + 1
          /\ store' = [store EXCEPT ![last + 1] = NewDefaultUserSession]
          /\ Goto(r, "save", last + 1, sess[r])
       \/ /\ sid[r] # NoId
          /\ store' = [store EXCEPT ![sid[r]] = NewDefaultUserSession]
          /\ Goto(r, "regenerate", sid[r], sess[r])
          /\ UNCHANGED last
    /\ UNCHANGED <<issued, told, totpHistory, op, step>>

\* The default session cannot be saved, or a new identifier for it not made.
ResetFails(r) ==
    /\ pc[r] = "reset"
    /\ \/ /\ Respond(r, sid[r], store)
          /\ UNCHANGED last
       \/ /\ sid[r] = NoId
          /\ last < MaxIds
          /\ last' = last + 1
          /\ Respond(r, last + 1,
                     [store EXCEPT ![last + 1] = NewDefaultUserSession])
    /\ UNCHANGED totpHistory

FirstFactorPasskeyPOST_Unchecked(r) ==
    /\ \E id \in issued \cup {NoId}, to \in {"save", "regenerate"} :
         Begin(r, "passkeyPOST", id, to,
               [GetSession(id) EXCEPT !.webauthn = "none"])
    /\ UNCHANGED <<stable, step>>

FirstFactorPasskeyGET(r) ==
    /\ \E id \in issued \cup {NoId} :
         /\ IsAnonymous(GetSession(id))
         /\ Begin(r, "passkeyGET", id, "save",
                  [GetSession(id) EXCEPT !.webauthn = "passkey"])
    /\ UNCHANGED <<stable, step>>

\* Either the ceremony succeeds, or it fails and only the deferred save runs.
FirstFactorPasskeyPOST(r) ==
    /\ \E id \in issued \cup {NoId} :
         /\ IsAnonymous(GetSession(id))
         /\ LET s == [GetSession(id) EXCEPT !.webauthn = "none"]
            IN  \/ Begin(r, "passkeyPOST", id, "save", s)
                \/ /\ GetSession(id).webauthn # "none"
                   /\ Begin(r, "passkeyPOST", id, "regenerate", s)
    /\ UNCHANGED <<stable, step>>

----------------------------------------------------------------------------
(* Second factor.  Require1FA reads the session before the handler does.   *)

Admit(r, handlers) ==
    /\ \E h \in handlers, id \in issued :
         /\ AuthenticationLevel(GetSession(id)) >= 1
         /\ Begin(r, h, id, "load", NewDefaultUserSession)
    /\ UNCHANGED <<stable, step>>

Require1FA(r) == Admit(r, Behind1FA)

\* The handler refuses: a wrong code or password, no ceremony, a session that
\* is gone since Require1FA read it, or an error of one of the tables.
Refuse(r) ==
    /\ pc[r] \in {"load", "history", "record", "code", "admin", "enroll",
                  "configure", "rename", "delete"}
    /\ Respond(r, sid[r], store)
    /\ UNCHANGED <<last, totpHistory>>

\* A valid code of the session's user, for step k.
TimeBasedOneTimePasswordPOST(r) ==
    /\ ~IsAnonymous(GetSession(sid[r]))
    /\ Load(r, "totp", "history", GetSession(sid[r]))
    /\ \E k \in Steps : step' = [step EXCEPT ![r] = k]
    /\ UNCHANGED <<stable, op>>

ExistsTOTPHistory(r) ==
    /\ pc[r] = "history"
    /\ LET exists == <<sess[r].user, step[r]>> \in totpHistory
       IN  /\ exists => DisableReuseSecurityPolicy
           /\ Goto(r, IF exists THEN "regenerate" ELSE "record",
                   sid[r], sess[r])
    /\ UNCHANGED <<stable, op, step>>

SaveTOTPHistory_Upsert(r) ==
    /\ pc[r] = "record"
    /\ totpHistory' = totpHistory \cup {<<sess[r].user, step[r]>>}
    /\ Goto(r, "regenerate", sid[r], sess[r])
    /\ UNCHANGED <<store, issued, told, op, step, last>>

\* totp_history has a unique index on (username, step): a second insert of a
\* row is an error.
SaveTOTPHistory(r) ==
    /\ pc[r] = "record"
    /\ <<sess[r].user, step[r]>> \notin totpHistory
    /\ totpHistory' = totpHistory \cup {<<sess[r].user, step[r]>>}
    /\ Goto(r, "regenerate", sid[r], sess[r])
    /\ UNCHANGED <<store, last, issued, told, op, step>>

WebAuthnAssertionGET(r) ==
    /\ ~IsAnonymous(GetSession(sid[r]))
    /\ Load(r, "webauthnGET", "save",
            [GetSession(sid[r]) EXCEPT !.webauthn = "assertion"])
    /\ UNCHANGED <<stable, op, step>>

\* The response answers the session's challenge; the credential's sign-in
\* information may fail to be saved, or its sign count warn of a clone.
WebAuthnAssertionPOST(r) ==
    /\ ~IsAnonymous(GetSession(sid[r]))
    /\ GetSession(sid[r]).webauthn # "none"
    /\ \E to \in {"save", "regenerate"} :
         Load(r, "webauthnPOST", to,
              [GetSession(sid[r]) EXCEPT !.webauthn = "none"])
    /\ UNCHANGED <<stable, op, step>>

\* Pre-authentication or the answer to the push allowed the session's user.
\* Duo knows no user without a name.
DuoPOST(r) ==
    /\ GetSession(sid[r]).user # NoUser
    /\ Load(r, "duo", "regenerate", GetSession(sid[r]))
    /\ UNCHANGED <<stable, op, step>>

SecondFactorPasswordPOST(r) ==
    /\ GetSession(sid[r]).user # NoUser
    /\ Load(r, "password", "regenerate", GetSession(sid[r]))
    /\ UNCHANGED <<stable, op, step>>

FirstFactorReauthenticatePOST(r) ==
    /\ GetSession(sid[r]).user # NoUser
    /\ Load(r, "reauthenticate", "regenerate", GetSession(sid[r]))
    /\ UNCHANGED <<stable, op, step>>

----------------------------------------------------------------------------
LogoutPOST(r) ==
    /\ \E id \in issued : Begin(r, "logout", id, "destroy", GetSession(id))
    /\ UNCHANGED <<stable, step>>

\* The cookie strategy of the authorization endpoints: an invalid session is
\* destroyed and replaced, a valid one is saved with its new last activity.
CookieSessionAuthnStrategyGet(r) ==
    /\ \E id \in issued \cup {NoId}, to \in {"save", "destroy"} :
         Begin(r, "authz", id, to, GetSession(id))
    /\ UNCHANGED <<stable, step>>

Step(r) ==
    \/ FirstFactorPasswordPOST(r) \/ ResetSession(r) \/ ResetFails(r)
    \/ FirstFactorPasskeyGET(r) \/ FirstFactorPasskeyPOST(r)
    \/ Require1FA(r) \/ Refuse(r)
    \/ TimeBasedOneTimePasswordPOST(r) \/ ExistsTOTPHistory(r)
    \/ SaveTOTPHistory(r)
    \/ WebAuthnAssertionGET(r) \/ WebAuthnAssertionPOST(r)
    \/ DuoPOST(r) \/ SecondFactorPasswordPOST(r)
    \/ FirstFactorReauthenticatePOST(r)
    \/ LogoutPOST(r) \/ CookieSessionAuthnStrategyGet(r)
    \/ RegenerateSession(r) \/ UpdateExpirationFails(r) \/ RegenerateFails(r)
    \/ SaveSession(r) \/ SaveFails(r)
    \/ DestroySession(r) \/ DestroyFails(r)

Next == \E r \in Requests : Step(r)

Spec == Init /\ [][Next]_vars

----------------------------------------------------------------------------
\* Types of the variables, and that identifiers are generated in order.
TypeOK ==
    /\ store \in [Ids -> Sessions \cup {NoSession}]
    /\ last \in 0 .. MaxIds
    /\ issued \subseteq 1 .. last
    /\ told \in [Ids -> (Users \cup {NoUser}) \X SUBSET (Users \X Factors)]
    /\ totpHistory \subseteq Users \X Steps
    /\ pc \in [Requests -> PCs]
    /\ op \in [Requests -> Handlers \cup {"none"}]
    /\ sid \in [Requests -> 0 .. last]
    /\ sess \in [Requests -> Sessions]
    /\ step \in [Requests -> Steps \cup {NoStep}]

\* Whatever requests interleave, the user and the factors of an identifier a
\* client was given are the ones it was given with, or none: every handler
\* that logs a user in or raises the level does it under an identifier nobody
\* had, and no save of an older copy changes them (docs: "regenerating a new
\* session after each privilege elevation").
IssuedIdentityFixed ==
    \A i \in issued : store[i] # NoSession =>
        Identity(store[i]) \in {told[i], Identity(NewDefaultUserSession)}

\* The factors in a session were all proved by the session's own user: no
\* login or save carries the factors of one user into another's session.
FactorsBelongToUser ==
    \A i \in Ids : store[i] # NoSession =>
        \A p \in store[i].amr : p[1] = store[i].user

\* A TOTP code is good for one sign-in: a request goes on with a code only if
\* no request did before it, although two may have found it unused.
CodesSpentOnce ==
    [][\A r \in Requests :
         /\ ~DisableReuseSecurityPolicy
         /\ pc[r] \in {"history", "record"}
         /\ pc'[r] = "regenerate"
         => /\ <<sess[r].user, step[r]>> \notin totpHistory
            /\ <<sess[r].user, step[r]>> \in totpHistory']_vars
=============================================================================
