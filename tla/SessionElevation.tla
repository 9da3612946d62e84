------------------------- MODULE SessionElevation --------------------------
(***************************************************************************)
(* Elevation of a session with a one-time code sent by mail                *)
(* (handlers/handler_session_elevation.go), and the middleware that admits *)
(* only elevated sessions to the handlers that change credentials and to   *)
(* the administration (middlewares/require_auth.go, require_admin.go).     *)
(*                                                                         *)
(* A protected request reads the session twice: the middleware to admit    *)
(* it, and the handler behind it to know for whom it acts.                 *)
(***************************************************************************)
EXTENDS UserSession, Sequences

CONSTANTS IPs, NoIP,            \* addresses requests come from
          MaxCodes, MaxNow,     \* bounds: one-time codes, clock
          CodeLifespan, ElevationLifespan,
          SkipSecondFactor, RequireSecondFactor,
          Administrators        \* users the configuration allows

ASSUME ElevationsAssumption ==
    Elevations = [id : 1 .. MaxCodes, ip : IPs,
                  expires : 0 .. MaxNow + ElevationLifespan]
ASSUME LifespanAssumption ==
    /\ MaxNow \in Nat /\ CodeLifespan \in Nat /\ ElevationLifespan \in Nat
    /\ MaxCodes \in Nat

VARIABLES
    now,          \* clock
    codes,        \* table one_time_code
    ip,           \* remote address of each request
    code,         \* one-time code each request works on
    approved,     \* history: user the elevation middleware let through
    totpConfig,   \* table totp_configurations
    credentials   \* table webauthn_credentials

elevation == <<now, codes, ip, code, approved>>
devices == <<totpConfig, credentials>>
elevationVars == <<vars, elevation, devices>>

NoCode == 0

\* Handlers behind Require1FA, and behind RequireElevated.
ElevationHandlers == {"elevationGET", "elevationPOST", "elevationPUT"}

ElevatedHandlers ==
    {"totpRegisterPUT", "totpRegisterPOST", "totpRegisterDELETE", "totpDELETE",
     "registrationPUT", "registrationPOST", "registrationDELETE",
     "credentialPUT", "credentialDELETE", "admin"}

LoggedIn(u, factors) ==
    [NewDefaultUserSession EXCEPT !.user = u, !.amr = {u} \X factors]

\* What a request knows is gone when it is answered.
Forget(r) ==
    /\ ip' = [ip EXCEPT ![r] = IF pc'[r] = "idle" THEN NoIP ELSE ip[r]]
    /\ code' = [code EXCEPT ![r] = IF pc'[r] = "idle" THEN NoCode ELSE code[r]]
    /\ approved' = [approved EXCEPT
                      ![r] = IF pc'[r] = "idle" THEN NoUser ELSE approved[r]]

Tick ==
    /\ now < MaxNow
    /\ now' = now + 1
    /\ UNCHANGED <<vars, codes, ip, code, approved, devices>>

----------------------------------------------------------------------------
(* Handlers of the elevation.                                              *)

RequireElevation1FA(r) ==
    /\ Admit(r, ElevationHandlers)
    /\ \E a \in IPs : ip' = [ip EXCEPT ![r] = a]
    /\ UNCHANGED <<now, codes, code, approved, devices>>

\* Expired, or made from another address.
Invalid(e, a) == e.expires < now \/ e.ip # a

UserSessionElevationGET(r) ==
    LET s == GetSession(sid[r])
    IN  /\ ~IsAnonymous(s)
        /\ s.elevation # NoElevation
        /\ Invalid(s.elevation, ip[r])
        /\ Load(r, "elevationGET", "save", [s EXCEPT !.elevation = NoElevation])
        /\ UNCHANGED <<stable, op, step, elevation, devices>>

UserSessionElevationPOST(r) ==
    /\ ~IsAnonymous(GetSession(sid[r]))
    /\ Load(r, "elevationPOST", "regenerate", GetSession(sid[r]))
    /\ UNCHANGED <<stable, op, step, elevation, devices>>

\* The code is mailed to the user.  A code whose mail failed is known to
\* nobody and is left out.
SaveOneTimeCode(r) ==
    /\ pc[r] = "code" /\ op[r] = "elevationPOST"
    /\ Len(codes) < MaxCodes
    /\ codes' = Append(codes, [user |-> sess[r].user, ip |-> ip[r],
                               expires |-> now + CodeLifespan,
                               status |-> "pending"])
    /\ Respond(r, sid[r], store)
    /\ Forget(r)
    /\ UNCHANGED <<last, totpHistory, now, devices>>

LoadOneTimeCode_AnyAddress(u, a) == {c \in DOMAIN codes : codes[c].user = u}

\* The signature the row is found by covers the user, the address the code
\* was asked for from, and the code.
LoadOneTimeCode(u, a) ==
    {c \in DOMAIN codes : codes[c].user = u /\ codes[c].ip = a}

UserSessionElevationPUT(r) ==
    LET s == GetSession(sid[r])
    IN  /\ ~IsAnonymous(s)
        /\ \E c \in LoadOneTimeCode(s.user, ip[r]) :
             /\ codes[c].expires >= now
             /\ codes[c].status = "pending"
             /\ code' = [code EXCEPT ![r] = c]
        /\ Load(r, "elevationPUT", "regenerate", s)
        /\ UNCHANGED <<stable, op, step, now, codes, ip, approved, devices>>

ConsumeOneTimeCode_Unconditional(r) ==
    /\ pc[r] = "code" /\ op[r] = "elevationPUT"
    /\ codes' = [codes EXCEPT ![code[r]].status = "consumed"]
    /\ Goto(r, "save", sid[r],
            [sess[r] EXCEPT !.elevation =
               [id |-> code[r], ip |-> ip[r],
                expires |-> now + ElevationLifespan]])
    /\ UNCHANGED <<stable, op, step, now, ip, code, approved, devices>>

\* The update requires a row that is neither consumed nor revoked.
ConsumeOneTimeCode(r) ==
    /\ pc[r] = "code" /\ op[r] = "elevationPUT"
    /\ codes[code[r]].status = "pending"
    /\ codes' = [codes EXCEPT ![code[r]].status = "consumed"]
    /\ Goto(r, "save", sid[r],
            [sess[r] EXCEPT !.elevation =
               [id |-> code[r], ip |-> ip[r],
                expires |-> now + ElevationLifespan]])
    /\ UNCHANGED <<stable, op, step, now, ip, code, approved, devices>>

\* The link in the mail revokes the code; it needs no session.
UserSessionElevateDELETE(r) ==
    /\ \E c \in DOMAIN codes :
         /\ codes[c].status = "pending"
         /\ Begin(r, "elevationDELETE", NoId, "revoke", NewDefaultUserSession)
         /\ code' = [code EXCEPT ![r] = c]
    /\ UNCHANGED <<stable, step, now, codes, ip, approved, devices>>

RevokeOneTimeCode(r) ==
    /\ pc[r] = "revoke"
    /\ \/ /\ codes[code[r]].status = "pending"
          /\ codes' = [codes EXCEPT ![code[r]].status = "revoked"]
       \/ UNCHANGED codes
    /\ Respond(r, NoId, store)
    /\ Forget(r)
    /\ UNCHANGED <<last, totpHistory, now, devices>>

----------------------------------------------------------------------------
(* Middleware.                                                             *)

HasSecondFactor(u) ==
    totpConfig[u] # NoPending \/ \E c \in credentials : c.user = u

\* The administration always skips the elevation after a second factor.
SkipElevation(h, s) ==
    (SkipSecondFactor \/ h = "admin") /\ AuthenticationLevel(s) >= 2

NeedsSecondFactor(s) ==
    /\ RequireSecondFactor
    /\ AuthenticationLevel(s) < 2
    /\ HasSecondFactor(s.user)

RequireElevated(r) ==
    /\ \E h \in ElevatedHandlers, id \in issued, a \in IPs :
         LET s == GetSession(id)
         IN  /\ AuthenticationLevel(s) >= 1
             /\ \/ /\ \/ SkipElevation(h, s)
                      \/ /\ ~NeedsSecondFactor(s)
                         /\ s.elevation # NoElevation
                         /\ ~Invalid(s.elevation, a)
                   /\ Begin(r, h, id, IF h = "admin" THEN "admin" ELSE "load",
                            NewDefaultUserSession)
                   /\ approved' = [approved EXCEPT ![r] = s.user]
                \/ /\ ~SkipElevation(h, s) /\ ~NeedsSecondFactor(s)
                   /\ s.elevation # NoElevation
                   /\ Invalid(s.elevation, a)
                   /\ Begin(r, h, id, "save",
                            [s EXCEPT !.elevation = NoElevation])
                   /\ UNCHANGED approved
    /\ UNCHANGED <<stable, step, now, codes, ip, code, devices>>

\* The administration handlers change the user database, not the state here.
RequireAdministration(r) ==
    /\ pc[r] = "admin"
    /\ GetSession(sid[r]).user \in Administrators
    /\ Goto(r, "load", sid[r], GetSession(sid[r]))
    /\ UNCHANGED <<stable, op, step, elevation, devices>>

SessionStep(r) ==
    /\ Step(r)
    /\ Forget(r)
    /\ UNCHANGED <<now, codes, devices>>

ElevationStep(r) ==
    \/ SessionStep(r)
    \/ RequireElevation1FA(r)
    \/ UserSessionElevationGET(r) \/ UserSessionElevationPOST(r)
    \/ SaveOneTimeCode(r) \/ UserSessionElevationPUT(r)
    \/ ConsumeOneTimeCode(r)
    \/ UserSessionElevateDELETE(r) \/ RevokeOneTimeCode(r)
    \/ RequireElevated(r) \/ RequireAdministration(r)

----------------------------------------------------------------------------
\* Types of the variables this module adds.
TypeOKElevation ==
    /\ now \in 0 .. MaxNow
    /\ codes \in Seq([user : Users, ip : IPs, expires : Nat,
                      status : {"pending", "consumed", "revoked"}])
    /\ Len(codes) <= MaxCodes
    /\ ip \in [Requests -> IPs \cup {NoIP}]
    /\ code \in [Requests -> 0 .. Len(codes)]
    /\ approved \in [Requests -> Users \cup {NoUser}]
    /\ totpConfig \in [Users -> Pendings \cup {NoPending}]
    /\ credentials \subseteq [kid : Nat, user : Users, name : Registrations]

\* An elevation in a stored session was earned: with a code mailed to the
\* session's own user, that is spent, and from the address it was asked for
\* from.  No login, save of an older copy or regeneration hands it to someone
\* else.
ElevationsEarned ==
    \A i \in Ids : store[i] # NoSession /\ store[i].elevation # NoElevation =>
        LET e == store[i].elevation
        IN  /\ e.id \in DOMAIN codes
            /\ codes[e.id].user = store[i].user
            /\ codes[e.id].ip = e.ip
            /\ codes[e.id].status = "consumed"

\* The session a protected handler reads is the one of the user the
\* middleware let through, or has no user: the identity cannot change between
\* the two reads.
ApprovalHolds ==
    \A r \in Requests : approved[r] # NoUser =>
        GetSession(sid[r]).user \in {approved[r], NoUser}

\* What an elevation rests on: the two statements above.
ElevationSound == TypeOKElevation /\ ElevationsEarned /\ ApprovalHolds

\* A code is spent once: a consumed code is never revoked and a revoked one
\* never consumed, although both requests found it pending.
CodesSettleOnce ==
    \A c \in DOMAIN codes : codes[c].status # "pending" => codes'[c] = codes[c]
=============================================================================
